------------------------------ MODULE GenPool ------------------------------
(***************************************************************************)
(* The bitmap allocator of modules/ion/genalloc.c, behind the carveout     *)
(* heap of ION.  A pool is a list of chunks; a chunk is a bitmap with one  *)
(* bit per block, protected by a spin lock of its own.  Several threads    *)
(* allocate and free.  The scan of a chunk is modelled iteration by        *)
(* iteration, with the chunk's lock held, so that what the loop knows at   *)
(* each turn can be stated (and proved) as an invariant.                   *)
(*                                                                         *)
(* Sizes are in blocks (the ROUND UP of genalloc.c:122 is taken before a   *)
(* request reaches the model).                                             *)
(***************************************************************************)
EXTENDS Integers, Sequences, FiniteSets

CONSTANTS
  Threads,      \* callers of the pool
  NoThread,     \* "the lock is free"
  ChunkBits,    \* blocks of each chunk, in the order the list is walked
  Requests      \* request sizes the callers make, in blocks

ASSUME ThreadAssumption == NoThread \notin Threads
ASSUME ChunkAssumption  == ChunkBits \in Seq(Nat)
ASSUME RequestAssumption == Requests \subseteq Nat \ {0}

VARIABLES
  pool,     \* "live", "destroyed", or "BUG" once a BUG_ON has fired
  bits,     \* bits[c]: the set bits of chunk c's bitmap
  lock,     \* lock[c]: the holder of chunk c's spin lock
  pc,       \* "idle", "walk" (between two chunks) or "scan" (inside one)
  nbits,    \* local nbits of the running allocation
  chunk,    \* its position in the chunk list
  bit,      \* its local bit
  owned     \* extents the callers hold (history of allocations and frees)

vars == <<pool, bits, lock, pc, nbits, chunk, bit, owned>>

Chunks == DOMAIN ChunkBits

Extent == [chunk : Chunks, start : Nat, n : Nat \ {0}]

Blocks(e) == e.start .. (e.start + e.n - 1)

Disjoint(e, f) == e.chunk # f.chunk \/ Blocks(e) \cap Blocks(f) = {}

-----------------------------------------------------------------------------
(* end_bit: the loop looks for start bits below it. *)
EndBit(c, n) == ChunkBits[c] - (n + 1)

-----------------------------------------------------------------------------
Init ==
  /\ pool   = "live"
  /\ bits   = [c \in Chunks |-> {}]
  /\ lock   = [c \in Chunks |-> NoThread]
  /\ pc     = [t \in Threads |-> "idle"]
  /\ nbits  = [t \in Threads |-> 0]
  /\ chunk  = [t \in Threads |-> 1]
  /\ bit    = [t \in Threads |-> -1]
  /\ owned  = {}

(* gen_pool_alloc up to the loop over the chunks.  A request of size 0     *)
(* returns 0 here and changes nothing: it is no step of the model.         *)
Request(t, n) ==
  /\ pool = "live"
  /\ pc[t] = "idle"
  /\ nbits' = [nbits EXCEPT ![t] = n]
  /\ pc' = [pc EXCEPT ![t] = "walk"]
  /\ UNCHANGED <<pool, bits, lock, chunk, bit, owned>>

(* spin_lock_irqsave(&chunk->lock); bit = -1. *)
EnterChunk(t) ==
  /\ pc[t] = "walk"
  /\ chunk[t] \in Chunks
  /\ lock[chunk[t]] = NoThread
  /\ lock' = [lock EXCEPT ![chunk[t]] = t]
  /\ bit' = [bit EXCEPT ![t] = -1]
  /\ pc' = [pc EXCEPT ![t] = "scan"]
  /\ UNCHANGED <<pool, bits, nbits, chunk, owned>>

(* Mutant of Return: the chunk position restarts at 0. *)
MutReturn(t) ==
  /\ pc' = [pc EXCEPT ![t] = "idle"]
  /\ nbits' = [nbits EXCEPT ![t] = 0]
  /\ chunk' = [chunk EXCEPT ![t] = 0]
  /\ bit' = [bit EXCEPT ![t] = -1]

(* gen_pool_alloc returns: its locals are gone. *)
Return(t) ==
  /\ pc' = [pc EXCEPT ![t] = "idle"]
  /\ nbits' = [nbits EXCEPT ![t] = 0]
  /\ chunk' = [chunk EXCEPT ![t] = 1]
  /\ bit' = [bit EXCEPT ![t] = -1]

(* The list is exhausted: return 0. *)
GiveUp(t) ==
  /\ pc[t] = "walk"
  /\ chunk[t] \notin Chunks
  /\ Return(t)
  /\ UNCHANGED <<pool, bits, lock, owned>>

(* The bits the loop of t has still to look at. *)
Ahead(t) == (bit[t] + 1) .. (EndBit(chunk[t], nbits[t]) - 1)

(* Mutant of Candidate: any clear bit ahead, not the next one. *)
MutCandidate(t, s) == s \notin bits[chunk[t]]

(* find_next_zero_bit(bits, end_bit, bit + 1) returns s < end_bit: the     *)
(* clear bit the next turn of the loop starts from.                        *)
Candidate(t, s) ==
  /\ s \notin bits[chunk[t]]
  /\ (bit[t] + 1) .. (s - 1) \subseteq bits[chunk[t]]

(* No clear bit is left below end_bit: unlock and go on to the next chunk. *)
LeaveChunk(t) ==
  /\ pc[t] = "scan"
  /\ Ahead(t) \subseteq bits[chunk[t]]
  /\ lock' = [lock EXCEPT ![chunk[t]] = NoThread]
  /\ chunk' = [chunk EXCEPT ![t] = @ + 1]
  /\ bit' = [bit EXCEPT ![t] = -1]
  /\ pc' = [pc EXCEPT ![t] = "walk"]
  /\ UNCHANGED <<pool, bits, nbits, owned>>

(* Mutant of Fits: only the first bit of the run is tested. *)
MutFits(c, s, n) == n > 0 /\ s \notin bits[c]

(* Start bit s of chunk c begins n clear bits. *)
Fits(c, s, n) == (s .. (s + n - 1)) \cap bits[c] = {}

(* Mutant of SkipRun: the loop continues just before the short run. *)
MutSkipRun(t) ==
  /\ pc[t] = "scan"
  /\ \E s \in Ahead(t) :
       /\ Candidate(t, s)
       /\ ~Fits(chunk[t], s, nbits[t])
       /\ bit' = [bit EXCEPT ![t] = s - 1]
  /\ UNCHANGED <<pool, bits, lock, pc, nbits, chunk, owned>>

(* find_next_bit finds b, the first set bit in the nbits - 1 bits after    *)
(* the candidate s: the run is too short, continue from b.                 *)
SkipRun(t) ==
  /\ pc[t] = "scan"
  /\ \E s \in Ahead(t) :
       /\ Candidate(t, s)
       /\ \E b \in (s + 1) .. (s + nbits[t] - 1) :
            /\ b \in bits[chunk[t]]
            /\ (s + 1) .. (b - 1) \cap bits[chunk[t]] = {}
            /\ bit' = [bit EXCEPT ![t] = b]
  /\ UNCHANGED <<pool, bits, lock, pc, nbits, chunk, owned>>

(* The candidate begins nbits clear bits: set them, unlock, return the     *)
(* address of the first.                                                   *)
TakeRun(t) ==
  /\ pc[t] = "scan"
  /\ \E s \in Ahead(t) :
       /\ Candidate(t, s)
       /\ Fits(chunk[t], s, nbits[t])
       /\ LET e == [chunk |-> chunk[t], start |-> s, n |-> nbits[t]]
          IN /\ bits' = [bits EXCEPT ![e.chunk] = @ \cup Blocks(e)]
             /\ owned' = owned \cup {e}
  /\ lock' = [lock EXCEPT ![chunk[t]] = NoThread]
  /\ Return(t)
  /\ UNCHANGED pool

(* Mutant of Free: while (--nbits), one bit fewer is cleared. *)
MutFree(t, e) ==
  /\ pool = "live"
  /\ pc[t] = "idle"
  /\ lock[e.chunk] = NoThread
  /\ bits' = [bits EXCEPT ![e.chunk] = @ \ (e.start .. (e.start + e.n - 2))]
  /\ owned' = owned \ {e}
  /\ UNCHANGED <<pool, lock, pc, nbits, chunk, bit>>

(* gen_pool_free, on an extent the caller got from gen_pool_alloc (ION     *)
(* frees with the address and the size it allocated).  The address lies    *)
(* in exactly one chunk, so no BUG_ON of the function can fire.            *)
Free(t, e) ==
  /\ pool = "live"
  /\ pc[t] = "idle"
  /\ lock[e.chunk] = NoThread
  /\ bits' = [bits EXCEPT ![e.chunk] = @ \ Blocks(e)]
  /\ owned' = owned \ {e}
  /\ UNCHANGED <<pool, lock, pc, nbits, chunk, bit>>

(* gen_pool_destroy, called once every caller has given its memory back:   *)
(* BUG_ON if a chunk still has a set bit.                                  *)
Destroy ==
  /\ pool = "live"
  /\ owned = {}
  /\ \A t \in Threads : pc[t] = "idle"
  /\ pool' = IF \E c \in Chunks : bits[c] # {} THEN "BUG" ELSE "destroyed"
  /\ UNCHANGED <<bits, lock, pc, nbits, chunk, bit, owned>>

Next ==
  \/ \E t \in Threads :
       \/ \E n \in Requests : Request(t, n)
       \/ EnterChunk(t)
       \/ GiveUp(t)
       \/ LeaveChunk(t)
       \/ SkipRun(t)
       \/ TakeRun(t)
       \/ \E e \in owned : Free(t, e)
  \/ Destroy

(* The scan runs with interrupts off and a spin lock held: a thread in it  *)
(* keeps running.  Nothing is assumed of a thread waiting for the lock.    *)
Fairness == \A t \in Threads : WF_vars(LeaveChunk(t) \/ SkipRun(t) \/ TakeRun(t))

Spec == Init /\ [][Next]_vars

FairSpec == Spec /\ Fairness

-----------------------------------------------------------------------------
TypeOK ==
  /\ pool \in {"live", "destroyed", "BUG"}
  /\ bits \in [Chunks -> SUBSET Nat]
  /\ lock \in [Chunks -> Threads \cup {NoThread}]
  /\ pc \in [Threads -> {"idle", "walk", "scan"}]
  /\ nbits \in [Threads -> Nat]
  /\ chunk \in [Threads -> Nat \ {0}]
  /\ bit \in [Threads -> Int]
  /\ owned \subseteq Extent

(* No block belongs to two callers: gen_pool_alloc never returns memory    *)
(* overlapping an allocation that is still outstanding.                    *)
NoOverlap == \A e, f \in owned : e # f => Disjoint(e, f)

(* The bitmap of a chunk is exactly what callers hold there: nothing leaks *)
(* when extents are freed in any order, and nothing held is marked free.   *)
BitmapExact ==
  \A c \in Chunks : bits[c] = UNION {Blocks(e) : e \in {f \in owned : f.chunk = c}}

(* The BUG_ON of gen_pool_destroy never fires when every caller has given  *)
(* back what it got.                                                       *)
NoBug == pool # "BUG"

(* Types, bitmaps and BUG_ONs: the pool's books are right.                 *)
PoolSound == TypeOK /\ BitmapExact /\ NoBug

(* "Uses a first-fit algorithm" (genalloc.c:109): an allocation in a chunk *)
(* starts at the lowest start bit that fits there.                         *)
LowestFit ==
  [][\A e \in owned' \ owned :
       \A s \in 0 .. e.start - 1 : ~Fits(e.chunk, s, e.n)]_vars

(* When the scan gives a chunk up, no start bit below end_bit fits in it:  *)
(* skipping to the set bit that ended a short run loses no candidate.      *)
ScanComplete ==
  [][\A t \in Threads :
       (pc[t] = "scan" /\ pc'[t] = "walk")
          => \A s \in 0 .. EndBit(chunk[t], nbits[t]) - 1 :
               ~Fits(chunk[t], s, nbits[t])]_vars

(* First fit as far as the search looks: the lowest start bit is taken,    *)
(* and none is passed over.                                                *)
FirstFits == LowestFit /\ ScanComplete

(* The scan of a chunk ends: it holds a spin lock with interrupts off. *)
ScanEnds == \A t \in Threads : pc[t] = "scan" ~> pc[t] # "scan"

(* What the pool promises its callers, without bitmaps, locks or loops. *)
Abstract == INSTANCE ExtentAllocator WITH Arenas <- Chunks, Size <- ChunkBits
ImplementsExtents == Abstract!Spec

(* What a reader of "first-fit" expects (genalloc.c:109): a request is     *)
(* refused by a chunk only if no run of nbits clear bits exists in it.     *)
(* The code refuses runs that reach into the last two blocks.              *)
RefusedOnlyWhenFull ==
  [][\A t \in Threads :
       (pc[t] = "scan" /\ pc'[t] = "walk")
          => \A s \in 0 .. ChunkBits[chunk[t]] - nbits[t] :
               ~Fits(chunk[t], s, nbits[t])]_vars
=============================================================================
