---------------------------- MODULE IonMapProofs ----------------------------
(***************************************************************************)
(* The map counts of ION for any handles, buffers and bounds.  The         *)
(* inductive invariant relates the counts to the handles that map, and the *)
(* heap's mapping to the buffer's count.                                   *)
(***************************************************************************)
EXTENDS IonMap, FiniteSetTheorems, TLAPS

(* The heap's mapping exists exactly while the buffer's count is positive, *)
(* and then the buffer points to it.                                       *)
MappedExact ==
  \A k \in Kinds, b \in Buffers :
    /\ mapped[k][b] <=> bcnt[k][b] > 0
    /\ mapped[k][b] => ptr[k][b] = "mapped"

(* A handle keeps its buffer. *)
BufferLives == \A h \in Handles : buf[h] # Null => buf[h] \notin freed

IInv == TypeOK /\ CountExact /\ MappedExact /\ BufferLives /\ NoBug

-----------------------------------------------------------------------------
(* The handles that map a buffer are finitely many.                         *)
LEMMA MappersFinite ==
  ASSUME NEW k \in Kinds, NEW b \in Buffers
  PROVE  /\ Mappers(k, b) \subseteq Handles
         /\ IsFiniteSet(Mappers(k, b))
         /\ Cardinality(Mappers(k, b)) \in Nat
<1>1. Mappers(k, b) \subseteq Handles
  BY DEF Mappers
<1>2. IsFiniteSet(Mappers(k, b))
  BY <1>1, FS_Subset, HandleAssumption
<1> QED BY <1>1, <1>2, FS_CardinalityType

(* A handle that maps its buffer is counted there, so the buffer's count   *)
(* is positive and the heap's mapping exists.                              *)
LEMMA MapperCounted ==
  ASSUME IInv, NEW k \in Kinds, NEW h \in Handles, hcnt[k][h] > 0
  PROVE  /\ buf[h] \in Buffers
         /\ bcnt[k][buf[h]] > 0
         /\ mapped[k][buf[h]]
<1>1. buf[h] \in Buffers
  BY DEF IInv, TypeOK
<1>2. h \in Mappers(k, buf[h])
  BY DEF Mappers
<1>3. Cardinality(Mappers(k, buf[h])) \in Nat /\ Cardinality(Mappers(k, buf[h])) # 0
  BY <1>1, <1>2, MappersFinite, FS_EmptySet
<1>4. bcnt[k][buf[h]] = Cardinality(Mappers(k, buf[h])) + lost[k][buf[h]]
      /\ lost[k][buf[h]] \in Nat
  BY <1>1 DEF IInv, CountExact, TypeOK
<1>5. bcnt[k][buf[h]] > 0
  BY <1>3, <1>4
<1> QED BY <1>1, <1>5 DEF IInv, MappedExact

(* The set of mappers, and with it the exactness of the counts, is kept by *)
(* a step that keeps who maps what and the two counts of the buffer.       *)
LEMMA MappersKept ==
  ASSUME NEW k \in Kinds, NEW b \in Buffers,
         \A h \in Handles : (buf[h] = b /\ hcnt[k][h] > 0)
                              <=> (buf'[h] = b /\ hcnt'[k][h] > 0)
  PROVE  Mappers(k, b)' = Mappers(k, b)
BY DEF Mappers

-----------------------------------------------------------------------------
(* At first nothing is mapped.                                              *)
LEMMA InitInv == Init => IInv
<1> SUFFICES ASSUME Init PROVE IInv
  OBVIOUS
<1>1. TypeOK
  BY DEF Init, TypeOK
<1>2. CountExact
  <2> SUFFICES ASSUME NEW k \in Kinds, NEW b \in Buffers
               PROVE  bcnt[k][b] = Cardinality(Mappers(k, b)) + lost[k][b]
    BY DEF CountExact
  <2>1. Mappers(k, b) = {}
    BY DEF Init, Mappers
  <2> QED BY <2>1, FS_EmptySet DEF Init
<1> QED BY <1>1, <1>2 DEF Init, IInv, MappedExact, BufferLives, NoBug

(* A new handle maps nothing. *)
LEMMA CreateHandleInv ==
  ASSUME IInv, NEW h \in Handles, NEW b \in Buffers, CreateHandle(h, b)
  PROVE  IInv'
<1>1. TypeOK'
  BY DEF IInv, TypeOK, CreateHandle
<1>2. CountExact'
  <2> SUFFICES ASSUME NEW k \in Kinds, NEW c \in Buffers
               PROVE  (bcnt[k][c] = Cardinality(Mappers(k, c)) + lost[k][c])'
    BY DEF CountExact
  <2>1. \A g \in Handles : (buf[g] = c /\ hcnt[k][g] > 0)
                              <=> (buf'[g] = c /\ hcnt'[k][g] > 0)
    BY NullAssumption DEF IInv, TypeOK, CreateHandle
  <2>2. Mappers(k, c)' = Mappers(k, c)
    BY <2>1, MappersKept
  <2> QED BY <2>2 DEF IInv, CountExact, CreateHandle
<1>3. MappedExact' /\ BufferLives' /\ NoBug'
  BY DEF IInv, TypeOK, MappedExact, BufferLives, NoBug, CreateHandle
<1> QED BY <1>1, <1>2, <1>3 DEF IInv

(* _ion_map counts a handle on its buffer once. *)
LEMMA CountUpExact ==
  ASSUME IInv, NEW k \in Kinds, NEW h \in Handles, buf[h] # Null,
         CountUp(k, h), UNCHANGED <<buf, lost>>
  PROVE  CountExact'
<1> SUFFICES ASSUME NEW j \in Kinds, NEW c \in Buffers
             PROVE  (bcnt[j][c] = Cardinality(Mappers(j, c)) + lost[j][c])'
  BY DEF CountExact
<1>0. buf[h] \in Buffers
  BY DEF IInv, TypeOK
<1>1. bcnt[j][c] = Cardinality(Mappers(j, c)) + lost[j][c]
      /\ IsFiniteSet(Mappers(j, c)) /\ Cardinality(Mappers(j, c)) \in Nat
      /\ lost[j][c] \in Nat
  BY MappersFinite DEF IInv, CountExact, TypeOK
<1>2. CASE j = k /\ c = buf[h] /\ hcnt[k][h] = 0
  <2>1. Mappers(j, c)' = Mappers(j, c) \cup {h}
    BY <1>2 DEF Mappers, IInv, TypeOK, CountUp
  <2>2. h \notin Mappers(j, c)
    BY <1>2 DEF Mappers
  <2>3. Cardinality(Mappers(j, c)') = Cardinality(Mappers(j, c)) + 1
    BY <1>1, <2>1, <2>2, FS_AddElement
  <2>4. bcnt'[j][c] = bcnt[j][c] + 1
    BY <1>2 DEF IInv, TypeOK, CountUp
  <2> QED BY <1>1, <2>3, <2>4
<1>3. CASE ~(j = k /\ c = buf[h] /\ hcnt[k][h] = 0)
  <2>1. \A g \in Handles : (buf[g] = c /\ hcnt[j][g] > 0)
                              <=> (buf'[g] = c /\ hcnt'[j][g] > 0)
    BY <1>3 DEF IInv, TypeOK, CountUp
  <2>2. Mappers(j, c)' = Mappers(j, c)
    BY <2>1, MappersKept
  <2>3. bcnt'[j][c] = bcnt[j][c]
    BY <1>0, <1>3 DEF IInv, TypeOK, CountUp
  <2> QED BY <1>1, <2>2, <2>3
<1> QED BY <1>2, <1>3

(* A mapping of a handle that is mapped counts one more.                    *)
LEMMA MapAgainInv ==
  ASSUME IInv, NEW k \in Kinds, NEW h \in Handles, MapAgain(k, h)
  PROVE  IInv'
<1>0. buf[h] \in Buffers /\ bcnt[k][buf[h]] \in Nat \ {0}
  BY DEF IInv, TypeOK, MapAgain
<1>1. TypeOK'
  BY <1>0 DEF IInv, TypeOK, MapAgain, CountUp
<1>2. CountExact'
  BY CountUpExact DEF MapAgain
<1>3. MappedExact'
  BY <1>0 DEF IInv, TypeOK, MappedExact, MapAgain, CountUp
<1>4. BufferLives' /\ NoBug'
  BY DEF IInv, BufferLives, NoBug, MapAgain, CountUp
<1> QED BY <1>1, <1>2, <1>3, <1>4 DEF IInv

(* With a buffer count of zero no handle maps the buffer: the first        *)
(* BUG_ON of _ion_map cannot fire.                                         *)
LEMMA UnmappedHandle ==
  ASSUME IInv, NEW k \in Kinds, NEW h \in Handles, buf[h] # Null, bcnt[k][buf[h]] = 0
  PROVE  hcnt[k][h] = 0 /\ buf[h] \in Buffers
<1>1. hcnt[k][h] \in Nat /\ buf[h] \in Buffers
  BY DEF IInv, TypeOK
<1>2. ~(hcnt[k][h] > 0)
  BY MapperCounted
<1> QED BY <1>1, <1>2

(* The first mapping of a buffer makes its resource.                        *)
LEMMA MapFirstInv ==
  ASSUME IInv, NEW k \in Kinds, NEW h \in Handles, MapFirst(k, h)
  PROVE  IInv'
<1>0. buf[h] \in Buffers /\ hcnt[k][h] = 0
  BY UnmappedHandle DEF MapFirst
<1>1. TypeOK'
  BY <1>0 DEF IInv, TypeOK, MapFirst, CountUp
<1>2. CountExact'
  BY CountUpExact DEF MapFirst
<1>3. MappedExact'
  BY <1>0 DEF IInv, TypeOK, MappedExact, MapFirst, CountUp
<1>4. BufferLives' /\ NoBug'
  BY <1>0 DEF IInv, BufferLives, NoBug, MapFirst, CountUp
<1> QED BY <1>1, <1>2, <1>3, <1>4 DEF IInv

(* A mapping that fails changes no count.                                   *)
LEMMA MapFailsInv ==
  ASSUME IInv, NEW k \in Kinds, NEW h \in Handles, MapFails(k, h)
  PROVE  IInv'
<1>0. buf[h] \in Buffers /\ hcnt[k][h] = 0
  BY UnmappedHandle DEF MapFails
<1>1. TypeOK'
  BY <1>0 DEF IInv, TypeOK, MapFails
<1>2. CountExact'
  <2>1. \A j \in Kinds, c \in Buffers : Mappers(j, c)' = Mappers(j, c)
    BY DEF Mappers, MapFails
  <2> QED BY <2>1 DEF IInv, CountExact, MapFails
<1>3. MappedExact'
  <2> SUFFICES ASSUME NEW j \in Kinds, NEW c \in Buffers
               PROVE  (/\ mapped[j][c] <=> bcnt[j][c] > 0
                       /\ mapped[j][c] => ptr[j][c] = "mapped")'
    BY DEF MappedExact
  <2>1. CASE j = k /\ c = buf[h]
    <3>1. bcnt[j][c] = 0 /\ ~(bcnt[j][c] > 0)
      BY <2>1 DEF MapFails
    <3> QED BY <3>1 DEF IInv, MappedExact, MapFails
  <2>2. CASE ~(j = k /\ c = buf[h])
    <3>1. ptr'[j][c] = ptr[j][c]
      BY <1>0, <2>2 DEF IInv, TypeOK, MapFails
    <3> QED BY <3>1 DEF IInv, MappedExact, MapFails
  <2> QED BY <2>1, <2>2
<1>4. BufferLives' /\ NoBug'
  BY <1>0 DEF IInv, BufferLives, NoBug, MapFails
<1> QED BY <1>1, <1>2, <1>3, <1>4 DEF IInv

(* An unmapping of a handle that maps again counts only its own down.       *)
LEMMA UnmapSomeInv ==
  ASSUME IInv, NEW k \in Kinds, NEW h \in Handles, UnmapSome(k, h)
  PROVE  IInv'
<1>0. hcnt[k][h] \in Nat /\ hcnt[k][h] - 1 \in Nat /\ hcnt[k][h] - 1 > 0
  BY DEF IInv, TypeOK, UnmapSome
<1>1. TypeOK'
  BY <1>0 DEF IInv, TypeOK, UnmapSome
<1>2. CountExact'
  <2> SUFFICES ASSUME NEW j \in Kinds, NEW c \in Buffers
               PROVE  (bcnt[j][c] = Cardinality(Mappers(j, c)) + lost[j][c])'
    BY DEF CountExact
  <2>1. \A g \in Handles : (buf[g] = c /\ hcnt[j][g] > 0)
                              <=> (buf'[g] = c /\ hcnt'[j][g] > 0)
    BY <1>0 DEF IInv, TypeOK, UnmapSome
  <2>2. Mappers(j, c)' = Mappers(j, c)
    BY <2>1, MappersKept
  <2> QED BY <2>2 DEF IInv, CountExact, UnmapSome
<1>3. MappedExact' /\ BufferLives' /\ NoBug'
  BY DEF IInv, MappedExact, BufferLives, NoBug, UnmapSome
<1> QED BY <1>1, <1>2, <1>3 DEF IInv

(* The second BUG_ON of _ion_unmap cannot fire: the handle itself is still *)
(* counted on its buffer.                                                  *)
LEMMA UnmapLastInv ==
  ASSUME IInv, NEW k \in Kinds, NEW h \in Handles, UnmapLast(k, h)
  PROVE  IInv'
<1>0. buf[h] \in Buffers /\ bcnt[k][buf[h]] \in Nat /\ bcnt[k][buf[h]] > 0
      /\ mapped[k][buf[h]]
  <2>1. hcnt[k][h] > 0
    BY DEF UnmapLast
  <2>2. buf[h] \in Buffers /\ bcnt[k][buf[h]] > 0 /\ mapped[k][buf[h]]
    BY <2>1, MapperCounted
  <2> QED BY <2>2 DEF IInv, TypeOK
<1>1. TypeOK'
  BY <1>0 DEF IInv, TypeOK, UnmapLast
<1>2. CountExact'
  <2> SUFFICES ASSUME NEW j \in Kinds, NEW c \in Buffers
               PROVE  (bcnt[j][c] = Cardinality(Mappers(j, c)) + lost[j][c])'
    BY DEF CountExact
  <2>1. bcnt[j][c] = Cardinality(Mappers(j, c)) + lost[j][c]
        /\ IsFiniteSet(Mappers(j, c)) /\ Cardinality(Mappers(j, c)) \in Nat
        /\ lost[j][c] \in Nat
    BY MappersFinite DEF IInv, CountExact, TypeOK
  <2>2. CASE j = k /\ c = buf[h]
    <3>1. Mappers(j, c)' = Mappers(j, c) \ {h}
      BY <2>2 DEF Mappers, IInv, TypeOK, UnmapLast
    <3>2. h \in Mappers(j, c)
      BY <2>2 DEF Mappers, UnmapLast
    <3>3. Cardinality(Mappers(j, c)') = Cardinality(Mappers(j, c)) - 1
      BY <2>1, <3>1, <3>2, FS_RemoveElement
    <3>4. bcnt'[j][c] = bcnt[j][c] - 1 /\ lost' = lost
      BY <2>2 DEF IInv, TypeOK, UnmapLast
    <3> QED BY <2>1, <3>3, <3>4
  <2>3. CASE ~(j = k /\ c = buf[h])
    <3>1. \A g \in Handles : (buf[g] = c /\ hcnt[j][g] > 0)
                                <=> (buf'[g] = c /\ hcnt'[j][g] > 0)
      BY <2>3 DEF IInv, TypeOK, UnmapLast
    <3>2. Mappers(j, c)' = Mappers(j, c)
      BY <3>1, MappersKept
    <3>3. bcnt'[j][c] = bcnt[j][c] /\ lost' = lost
      BY <1>0, <2>3 DEF IInv, TypeOK, UnmapLast
    <3> QED BY <2>1, <3>2, <3>3
  <2> QED BY <2>2, <2>3
<1>3. MappedExact'
  <2> SUFFICES ASSUME NEW j \in Kinds, NEW c \in Buffers
               PROVE  (/\ mapped[j][c] <=> bcnt[j][c] > 0
                       /\ mapped[j][c] => ptr[j][c] = "mapped")'
    BY DEF MappedExact
  <2>1. CASE j = k /\ c = buf[h]
    <3>1. bcnt'[j][c] = bcnt[j][c] - 1
          /\ (mapped'[j][c] <=> bcnt[j][c] # 1)
          /\ ptr'[j][c] = IF bcnt[j][c] = 1 THEN "null" ELSE ptr[j][c]
      BY <1>0, <2>1 DEF IInv, TypeOK, UnmapLast
    <3> QED BY <1>0, <2>1, <3>1 DEF IInv, MappedExact
  <2>2. CASE ~(j = k /\ c = buf[h])
    <3>1. /\ bcnt'[j][c] = bcnt[j][c]
          /\ mapped'[j][c] = mapped[j][c]
          /\ ptr'[j][c] = ptr[j][c]
      BY <1>0, <2>2 DEF IInv, TypeOK, UnmapLast
    <3> QED BY <3>1 DEF IInv, MappedExact
  <2> QED BY <2>1, <2>2
<1>4. BufferLives' /\ NoBug'
  <2>1. bcnt[k][buf[h]] # 0
    BY <1>0
  <2>2. ~bug'
    BY <2>1, Zenon DEF IInv, NoBug, UnmapLast
  <2>3. BufferLives'
    BY DEF IInv, BufferLives, UnmapLast
  <2> QED BY <2>2, <2>3 DEF NoBug
<1> QED BY <1>1, <1>2, <1>3, <1>4 DEF IInv

(* A handle destroyed while it maps its buffer leaves its count there. *)
LEMMA DestroyHandleInv ==
  ASSUME IInv, NEW h \in Handles, DestroyHandle(h)
  PROVE  IInv'
<1>0. buf[h] \in Buffers
  BY DEF IInv, TypeOK, DestroyHandle
<1>1. TypeOK'
  BY <1>0 DEF IInv, TypeOK, DestroyHandle
<1>2. CountExact'
  <2> SUFFICES ASSUME NEW j \in Kinds, NEW c \in Buffers
               PROVE  (bcnt[j][c] = Cardinality(Mappers(j, c)) + lost[j][c])'
    BY DEF CountExact
  <2>1. bcnt[j][c] = Cardinality(Mappers(j, c)) + lost[j][c]
        /\ IsFiniteSet(Mappers(j, c)) /\ Cardinality(Mappers(j, c)) \in Nat
        /\ lost[j][c] \in Nat /\ bcnt'[j][c] = bcnt[j][c]
    BY MappersFinite DEF IInv, CountExact, TypeOK, DestroyHandle
  <2>2. Mappers(j, c)' = Mappers(j, c) \ {h}
    BY NullAssumption DEF Mappers, IInv, TypeOK, DestroyHandle
  <2>3. Cardinality(Mappers(j, c)') = IF h \in Mappers(j, c) THEN Cardinality(Mappers(j, c)) - 1
                                      ELSE Cardinality(Mappers(j, c))
    BY <2>1, <2>2, FS_RemoveElement
  <2>4. CASE h \in Mappers(j, c)
    <3>1. lost'[j][c] = lost[j][c] + 1
      BY <2>4 DEF Mappers, IInv, TypeOK, DestroyHandle
    <3> QED BY <2>1, <2>3, <2>4, <3>1
  <2>5. CASE h \notin Mappers(j, c)
    <3>1. lost'[j][c] = lost[j][c]
      BY <2>5 DEF Mappers, IInv, TypeOK, DestroyHandle
    <3> QED BY <2>1, <2>3, <2>5, <3>1
  <2> QED BY <2>4, <2>5
<1>3. MappedExact' /\ BufferLives' /\ NoBug'
  BY DEF IInv, TypeOK, MappedExact, BufferLives, NoBug, DestroyHandle
<1> QED BY <1>1, <1>2, <1>3 DEF IInv

(* A buffer is destroyed when nothing maps it.                              *)
LEMMA DestroyBufferInv ==
  ASSUME IInv, NEW b \in Buffers, DestroyBuffer(b)
  PROVE  IInv'
<1>1. TypeOK'
  BY DEF IInv, TypeOK, DestroyBuffer
<1>2. CountExact'
  <2>1. \A j \in Kinds, c \in Buffers : Mappers(j, c)' = Mappers(j, c)
    BY DEF Mappers, DestroyBuffer
  <2> QED BY <2>1 DEF IInv, CountExact, DestroyBuffer
<1>3. MappedExact' /\ BufferLives' /\ NoBug'
  BY DEF IInv, TypeOK, MappedExact, BufferLives, NoBug, DestroyBuffer
<1> QED BY <1>1, <1>2, <1>3 DEF IInv

(* Every step keeps the invariant.                                          *)
LEMMA NextInv == IInv /\ [Next]_vars => IInv'
<1> SUFFICES ASSUME IInv, [Next]_vars PROVE IInv'
  OBVIOUS
<1>1. CASE UNCHANGED vars
  <2>1. \A j \in Kinds, c \in Buffers : Mappers(j, c)' = Mappers(j, c)
    BY <1>1 DEF Mappers, vars
  <2>2. CountExact'
    BY <1>1, <2>1 DEF IInv, CountExact, vars
  <2>3. TypeOK' /\ MappedExact' /\ BufferLives' /\ NoBug'
    BY <1>1 DEF IInv, TypeOK, MappedExact, BufferLives, NoBug, vars
  <2> QED BY <2>2, <2>3 DEF IInv
<1>2. ASSUME NEW h \in Handles, DestroyHandle(h) PROVE IInv'
  BY <1>2, DestroyHandleInv
<1>3. ASSUME NEW h \in Handles, NEW b \in Buffers, CreateHandle(h, b) \/ DestroyBuffer(b)
      PROVE  IInv'
  BY <1>3, CreateHandleInv, DestroyBufferInv
<1>4. ASSUME NEW h \in Handles, NEW k \in Kinds,
             MapAgain(k, h) \/ MapFirst(k, h) \/ MapFails(k, h)
      PROVE  IInv'
  BY <1>4, MapAgainInv, MapFirstInv, MapFailsInv
<1>5. ASSUME NEW h \in Handles, NEW k \in Kinds, UnmapSome(k, h) \/ UnmapLast(k, h)
      PROVE  IInv'
  BY <1>5, UnmapSomeInv, UnmapLastInv
<1> QED BY <1>1, <1>2, <1>3, <1>4, <1>5 DEF Next

(* So it always holds.                                                      *)
LEMMA Inductive == Spec => []IInv
BY InitInv, NextInv, PTL DEF Spec

-----------------------------------------------------------------------------
(* Every reachable state is well typed. *)
THEOREM TypeCorrect == Spec => []TypeOK
BY Inductive, PTL DEF IInv

(* kmap_cnt and dmap_cnt of a buffer count its mapping handles. *)
THEOREM CountsExact == Spec => []CountExact
BY Inductive, PTL DEF IInv

(* No BUG_ON of _ion_map or _ion_unmap fires. *)
THEOREM NoBugOn == Spec => []NoBug
BY Inductive, PTL DEF IInv

(* Types, counts and BUG_ONs together. *)
THEOREM CountsAlwaysSound == Spec => []CountsSound
BY Inductive, PTL DEF IInv, CountsSound, NoBug

(* A caller's mapping is valid until the caller unmaps it. *)
THEOREM MappingsValid == Spec => []MappingValid
<1>1. IInv => MappingValid
  <2> SUFFICES ASSUME IInv, NEW k \in Kinds, NEW h \in Handles, hcnt[k][h] > 0
               PROVE  mapped[k][buf[h]] /\ ptr[k][buf[h]] = "mapped" /\ buf[h] \notin freed
    BY DEF MappingValid
  <2>1. buf[h] \in Buffers /\ mapped[k][buf[h]]
    BY MapperCounted
  <2> QED BY <2>1, NullAssumption DEF IInv, MappedExact, BufferLives
<1> QED BY <1>1, Inductive, PTL

(* A mapping without users comes from a handle destroyed while mapped. *)
THEOREM LeaksExplained == Spec => []LeaksOnlyByDestroy
<1>1. IInv => LeaksOnlyByDestroy
  <2> SUFFICES ASSUME IInv, NEW k \in Kinds, NEW b \in Buffers,
                      mapped[k][b], lost[k][b] = 0, Mappers(k, b) = {}
               PROVE  FALSE
    BY DEF LeaksOnlyByDestroy
  <2>1. bcnt[k][b] > 0 /\ bcnt[k][b] = Cardinality(Mappers(k, b)) + lost[k][b]
    BY DEF IInv, MappedExact, CountExact
  <2> QED BY <2>1, FS_EmptySet
<1> QED BY <1>1, Inductive, PTL
=============================================================================
