------------------------------- MODULE IonMap -------------------------------
(***************************************************************************)
(* Kernel and DMA mappings of ION buffers, modules/ion/gpu/ion.c: the map  *)
(* counts of a buffer and of the handles on it, and the one mapping of the *)
(* buffer that the heap makes for all of them.  Every operation runs under *)
(* the client's and the buffer's lock, so it is one step.                  *)
(*                                                                         *)
(* Callers are drivers: they unmap a handle as often as they mapped it,    *)
(* but they may free a handle that they have not unmapped, which the code  *)
(* allows ("XXX Can a handle be destroyed while it's map count is          *)
(* non-zero?", ion.c:232).                                                 *)
(***************************************************************************)
EXTENDS Integers, FiniteSets

CONSTANTS
  Kinds,      \* the two kinds of mapping: "kmap" and "dmap"
  Buffers, Handles,
  Null,       \* no buffer
  MaxCount,   \* bound: mappings of one kind a handle is given at a time
  MaxLost     \* bound: handles destroyed while they map one buffer

ASSUME HandleAssumption == IsFiniteSet(Handles)
ASSUME NullAssumption   == Null \notin Buffers
ASSUME CountAssumption  == MaxCount \in Nat /\ MaxLost \in Nat

VARIABLES
  buf,      \* buf[h]: handle->buffer, Null while h does not exist
  hcnt,     \* hcnt[k][h]: handle->kmap_cnt, handle->dmap_cnt
  bcnt,     \* bcnt[k][b]: buffer->kmap_cnt, buffer->dmap_cnt
  ptr,      \* ptr[k][b]: buffer->vaddr, buffer->sglist: "null", "error" or "mapped"
  mapped,   \* mapped[k][b]: the heap holds a mapping of b
  freed,    \* buffers destroyed
  bug,      \* a BUG_ON fired
  lost      \* lost[k][b]: handles destroyed while they mapped b (history)

vars == <<buf, hcnt, bcnt, ptr, mapped, freed, bug, lost>>

Init ==
  /\ buf    = [h \in Handles |-> Null]
  /\ hcnt   = [k \in Kinds |-> [h \in Handles |-> 0]]
  /\ bcnt   = [k \in Kinds |-> [b \in Buffers |-> 0]]
  /\ ptr    = [k \in Kinds |-> [b \in Buffers |-> "null"]]
  /\ mapped = [k \in Kinds |-> [b \in Buffers |-> FALSE]]
  /\ freed  = {}
  /\ bug    = FALSE
  /\ lost   = [k \in Kinds |-> [b \in Buffers |-> 0]]

-----------------------------------------------------------------------------
(* ion_handle_create: a handle (fresh, kzalloc) on a buffer. *)
CreateHandle(h, b) ==
  /\ buf[h] = Null
  /\ b \notin freed
  /\ buf' = [buf EXCEPT ![h] = b]
  /\ UNCHANGED <<hcnt, bcnt, ptr, mapped, freed, bug, lost>>

(* _ion_map with the first handle count of h: the buffer's count goes up.  *)
(* A later one adds to the handle's count alone.                           *)
CountUp(k, h) ==
  LET b == buf[h] IN
  /\ hcnt' = [hcnt EXCEPT ![k][h] = @ + 1]
  /\ bcnt' = [bcnt EXCEPT ![k][b] = IF hcnt[k][h] = 0 THEN @ + 1 ELSE @]
  /\ bug' = (bug \/ (hcnt[k][h] # 0 /\ bcnt[k][b] = 0))

(* ion_map_kernel, ion_map_dma on a buffer that is mapped already. *)
MapAgain(k, h) ==
  /\ buf[h] # Null
  /\ hcnt[k][h] < MaxCount
  /\ bcnt[k][buf[h]] # 0
  /\ CountUp(k, h)
  /\ UNCHANGED <<buf, ptr, mapped, freed, lost>>

(* The first mapping of the buffer: the heap makes it. *)
MapFirst(k, h) ==
  LET b == buf[h] IN
  /\ b # Null
  /\ hcnt[k][h] < MaxCount
  /\ bcnt[k][b] = 0
  /\ CountUp(k, h)
  /\ mapped' = [mapped EXCEPT ![k][b] = TRUE]
  /\ ptr' = [ptr EXCEPT ![k][b] = "mapped"]
  /\ UNCHANGED <<buf, freed, lost>>

(* The heap fails: _ion_unmap takes the two counts back, and the error     *)
(* stays in buffer->vaddr or buffer->sglist.                               *)
MapFails(k, h) ==
  LET b == buf[h] IN
  /\ b # Null
  /\ hcnt[k][h] < MaxCount
  /\ bcnt[k][b] = 0
  /\ ptr' = [ptr EXCEPT ![k][b] = "error"]
  /\ bug' = (bug \/ hcnt[k][h] # 0)
  /\ UNCHANGED <<buf, hcnt, bcnt, mapped, freed, lost>>

(* Mutant of UnmapSome: the buffer's count goes down with every unmap. *)
MutUnmapSome(k, h) ==
  /\ hcnt[k][h] > 1
  /\ hcnt' = [hcnt EXCEPT ![k][h] = @ - 1]
  /\ bcnt' = [bcnt EXCEPT ![k][buf[h]] = @ - 1]
  /\ UNCHANGED <<buf, ptr, mapped, freed, bug, lost>>

(* ion_unmap_kernel, ion_unmap_dma of a handle mapped more than once. *)
UnmapSome(k, h) ==
  /\ hcnt[k][h] > 1
  /\ hcnt' = [hcnt EXCEPT ![k][h] = @ - 1]
  /\ UNCHANGED <<buf, bcnt, ptr, mapped, freed, bug, lost>>

(* Mutant of UnmapLast: the heap unmaps with the first handle that lets go. *)
MutUnmapLast(k, h) ==
  LET b == buf[h] IN
  /\ hcnt[k][h] = 1
  /\ hcnt' = [hcnt EXCEPT ![k][h] = 0]
  /\ bug' = (bug \/ bcnt[k][b] = 0)
  /\ bcnt' = [bcnt EXCEPT ![k][b] = @ - 1]
  /\ mapped' = [mapped EXCEPT ![k][b] = FALSE]
  /\ ptr' = [ptr EXCEPT ![k][b] = "null"]
  /\ UNCHANGED <<buf, freed, lost>>

(* The last unmap of the handle: one less on the buffer, and at zero the   *)
(* heap unmaps.                                                            *)
UnmapLast(k, h) ==
  LET b == buf[h]
      last == bcnt[k][b] = 1
  IN
  /\ hcnt[k][h] = 1
  /\ hcnt' = [hcnt EXCEPT ![k][h] = 0]
  /\ bug' = (bug \/ bcnt[k][b] = 0)
  /\ bcnt' = [bcnt EXCEPT ![k][b] = @ - 1]
  /\ mapped' = [mapped EXCEPT ![k][b] = @ /\ ~last]
  /\ ptr' = [ptr EXCEPT ![k][b] = IF last THEN "null" ELSE @]
  /\ UNCHANGED <<buf, freed, lost>>

(* Mutant of DestroyHandle: it takes the handle's count off the buffer and *)
(* leaves the mapping.                                                     *)
MutDestroyHandle(h) ==
  LET b == buf[h] IN
  /\ b # Null
  /\ \A k \in Kinds : hcnt[k][h] > 0 => lost[k][b] < MaxLost
  /\ \A k \in Kinds : hcnt[k][h] > 0 => lost[k][b] < MaxLost
  /\ buf' = [buf EXCEPT ![h] = Null]
  /\ bcnt' = [k \in Kinds |-> [bcnt[k] EXCEPT ![b] = IF hcnt[k][h] > 0 THEN @ - 1 ELSE @]]
  /\ hcnt' = [k \in Kinds |-> [hcnt[k] EXCEPT ![h] = 0]]
  /\ UNCHANGED <<ptr, mapped, freed, bug, lost>>

(* ion_handle_destroy: the handle's counts vanish with it; the buffer's    *)
(* stay as they are.                                                       *)
DestroyHandle(h) ==
  LET b == buf[h] IN
  /\ b # Null
  /\ \A k \in Kinds : hcnt[k][h] > 0 => lost[k][b] < MaxLost
  /\ buf' = [buf EXCEPT ![h] = Null]
  /\ hcnt' = [k \in Kinds |-> [hcnt[k] EXCEPT ![h] = 0]]
  /\ lost' = [k \in Kinds |-> [lost[k] EXCEPT ![b] = IF hcnt[k][h] > 0 THEN @ + 1 ELSE @]]
  /\ UNCHANGED <<bcnt, ptr, mapped, freed, bug>>

(* ion_buffer_destroy, some time after the last handle is gone (a shared   *)
(* file may hold the buffer longer); the heap takes the memory back and    *)
(* does not look at the map counts.                                        *)
DestroyBuffer(b) ==
  /\ b \notin freed
  /\ \A h \in Handles : buf[h] # b
  /\ freed' = freed \cup {b}
  /\ UNCHANGED <<buf, hcnt, bcnt, ptr, mapped, bug, lost>>

Next ==
  \E h \in Handles :
    \/ DestroyHandle(h)
    \/ \E b \in Buffers : CreateHandle(h, b) \/ DestroyBuffer(b)
    \/ \E k \in Kinds :
         \/ MapAgain(k, h) \/ MapFirst(k, h) \/ MapFails(k, h)
         \/ UnmapSome(k, h) \/ UnmapLast(k, h)

Spec == Init /\ [][Next]_vars

-----------------------------------------------------------------------------
(* Types; the counts of a handle that does not exist are zero. *)
TypeOK ==
  /\ buf \in [Handles -> Buffers \cup {Null}]
  /\ hcnt \in [Kinds -> [Handles -> Nat]]
  /\ bcnt \in [Kinds -> [Buffers -> Nat]]
  /\ ptr \in [Kinds -> [Buffers -> {"null", "error", "mapped"}]]
  /\ mapped \in [Kinds -> [Buffers -> BOOLEAN]]
  /\ freed \subseteq Buffers
  /\ bug \in BOOLEAN
  /\ lost \in [Kinds -> [Buffers -> Nat]]
  /\ \A k \in Kinds, h \in Handles : buf[h] = Null => hcnt[k][h] = 0

Mappers(k, b) == {h \in Handles : buf[h] = b /\ hcnt[k][h] > 0}

(* A buffer's map count is the number of handles that map it, each counted *)
(* once however often it was mapped, plus those destroyed while mapped.    *)
CountExact ==
  \A k \in Kinds, b \in Buffers :
    bcnt[k][b] = Cardinality(Mappers(k, b)) + lost[k][b]

(* Types, counts and BUG_ONs: what _ion_map and _ion_unmap count is what   *)
(* is mapped, and no count is taken below zero.                            *)
CountsSound == TypeOK /\ CountExact /\ ~bug

(* An address a caller got and has not given back is still mapped, on a    *)
(* buffer that exists, whatever other handles were unmapped or destroyed.  *)
MappingValid ==
  \A k \in Kinds, h \in Handles : hcnt[k][h] > 0 =>
    mapped[k][buf[h]] /\ ptr[k][buf[h]] = "mapped" /\ buf[h] \notin freed

(* The BUG_ONs of _ion_map and _ion_unmap never fire, whatever is freed    *)
(* while it is mapped.                                                     *)
NoBug == ~bug

(* The heap's mapping outlives its users for one reason only: a handle was *)
(* destroyed while it was mapped.  Every other buffer is unmapped with its *)
(* last user, before it is destroyed.                                      *)
LeaksOnlyByDestroy ==
  \A k \in Kinds, b \in Buffers :
    (mapped[k][b] /\ lost[k][b] = 0) => Mappers(k, b) # {}
=============================================================================
