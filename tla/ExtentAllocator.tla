-------------------------- MODULE ExtentAllocator --------------------------
(***************************************************************************)
(* What a range allocator promises its callers, whatever bookkeeping it    *)
(* uses: it hands out extents of pairwise disjoint addresses and takes     *)
(* back only extents it handed out.  GenPool implements it.                *)
(***************************************************************************)
EXTENDS Naturals

CONSTANT Arenas,      \* the ranges of memory the allocator manages
         Size         \* how many blocks an arena has

VARIABLE owned        \* the extents callers hold

(* An extent: n consecutive blocks of an arena, from block start on. *)
Extent == [chunk : Arenas, start : Nat, n : Nat \ {0}]

Blocks(e) == e.start .. (e.start + e.n - 1)

Disjoint(e, f) == e.chunk # f.chunk \/ Blocks(e) \cap Blocks(f) = {}

Init == owned = {}

Allocate(e) ==
  /\ e \notin owned
  /\ e.start + e.n <= Size[e.chunk]
  /\ \A f \in owned : Disjoint(e, f)
  /\ owned' = owned \cup {e}

Release(e) ==
  /\ e \in owned
  /\ owned' = owned \ {e}

(* The extent a step concerns is the one in which the two states differ. *)
Next == \E e \in owned \cup owned' : e \in Extent /\ (Allocate(e) \/ Release(e))

Spec == Init /\ [][Next]_owned
=============================================================================
