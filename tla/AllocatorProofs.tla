-------------------------- MODULE AllocatorProofs --------------------------
(***************************************************************************)
(* The two allocators of the kernel modules.                               *)
(*                                                                         *)
(* First the safety properties of GenPool, for any threads, chunks and     *)
(* requests: the inductive invariant is TypeOK, BitmapExact and NoOverlap  *)
(* together with what the scan loop knows at each of its turns.            *)
(*                                                                         *)
(* Then those of Memblock, for any address space, size of the first table  *)
(* and requests.  Every loop of memblock.c is Iterate, and IterateKeeps    *)
(* gives it an invariant per turn; tables are compared by the addresses    *)
(* they cover.  The lemmas go from the rows of one table over the bodies   *)
(* of the three functions that call each other to the operations; the      *)
(* inductive invariant is MemblockInv.                                     *)
(***************************************************************************)
EXTENDS GenPool, Memblock, SequenceTheorems, WellFoundedInduction, TLAPS

(* A thread scanning a chunk holds its lock and has found every start bit  *)
(* up to bit[t] unfit: this is what makes the skip in the loop first-fit.  *)
ScanInv ==
  \A t \in Threads :
    /\ pc[t] \in {"walk", "scan"} => nbits[t] >= 1
    /\ pc[t] = "scan" =>
         /\ chunk[t] \in Chunks
         /\ lock[chunk[t]] = t
         /\ bit[t] >= -1
         /\ \A s \in 0 .. bit[t] : ~Fits(chunk[t], s, nbits[t])

(* BitmapExact, block by block. *)
BitOwned ==
  \A c \in Chunks : \A x \in Nat :
    x \in bits[c] <=> \E e \in owned : e.chunk = c /\ x \in Blocks(e)

IInv == TypeOK /\ ScanInv /\ BitOwned /\ NoOverlap

-----------------------------------------------------------------------------
(* A chunk has a number of bits.                                            *)
LEMMA ChunkNat == \A c \in Chunks : ChunkBits[c] \in Nat
  BY ChunkAssumption DEF Chunks

(* An extent is of blocks with numbers.                                     *)
LEMMA BlocksNat == \A e \in Extent : Blocks(e) \subseteq Nat
  BY DEF Extent, Blocks

(* The candidate of a scan that goes on is a natural number, and so is the *)
(* whole run it begins.                                                    *)
LEMMA CandidateFits ==
  ASSUME IInv, NEW t \in Threads, pc[t] = "scan", NEW s \in Ahead(t)
  PROVE  /\ s \in Nat
         /\ nbits[t] \in Nat \ {0}
         /\ s + nbits[t] <= ChunkBits[chunk[t]]
         /\ [chunk |-> chunk[t], start |-> s, n |-> nbits[t]] \in Extent
  BY ChunkNat DEF IInv, TypeOK, ScanInv, Ahead, EndBit, Extent

(* One turn of the loop: what lies between the old bit and the candidate   *)
(* is set, so no run can start there.                                      *)
LEMMA NothingBeforeCandidate ==
  ASSUME IInv, NEW t \in Threads, pc[t] = "scan",
         NEW s \in Nat, s > bit[t],
         (bit[t] + 1) .. (s - 1) \subseteq bits[chunk[t]]
  PROVE  \A r \in 0 .. (s - 1) : ~Fits(chunk[t], r, nbits[t])
<1> SUFFICES ASSUME NEW r \in 0 .. (s - 1)
             PROVE  ~Fits(chunk[t], r, nbits[t])
  OBVIOUS
<1>1. nbits[t] \in Nat /\ nbits[t] >= 1 /\ bit[t] \in Int
  BY DEF IInv, TypeOK, ScanInv
<1>2. CASE r <= bit[t]
  BY <1>2, <1>1 DEF IInv, ScanInv
<1>3. CASE r > bit[t]
  <2>1. r \in bits[chunk[t]]
    BY <1>3, <1>1
  <2>2. r \in r .. (r + nbits[t] - 1)
    BY <1>1
  <2> QED BY <2>1, <2>2 DEF Fits
<1> QED BY <1>1, <1>2, <1>3

-----------------------------------------------------------------------------
(* Before the first call nothing is set and nothing is owned.               *)
LEMMA InitInv == Init => IInv
  BY DEF Init, IInv, TypeOK, ScanInv, BitOwned, NoOverlap, Extent

(* Steps that touch neither the bitmaps nor the extents keep the bitmap    *)
(* facts.                                                                  *)
LEMMA BitmapUnchanged ==
  ASSUME IInv, UNCHANGED <<bits, owned>>
  PROVE  BitOwned' /\ NoOverlap'
  BY DEF IInv, BitOwned, NoOverlap, Disjoint, Blocks

(* A thread other than the one that steps keeps its scan facts as long as  *)
(* its locals, its lock and the bitmap it scans do not change.             *)
LEMMA OthersScan ==
  ASSUME IInv, NEW t \in Threads,
         \A u \in Threads \ {t} :
           /\ pc'[u] = pc[u] /\ nbits'[u] = nbits[u]
           /\ chunk'[u] = chunk[u] /\ bit'[u] = bit[u],
         \A c \in Chunks : lock[c] # t /\ lock[c] # NoThread
                            => lock'[c] = lock[c] /\ bits'[c] = bits[c]
  PROVE  \A u \in Threads \ {t} :
           /\ pc'[u] \in {"walk", "scan"} => nbits'[u] >= 1
           /\ pc'[u] = "scan" =>
                /\ chunk'[u] \in Chunks
                /\ lock'[chunk'[u]] = u
                /\ bit'[u] >= -1
                /\ \A s \in 0 .. bit'[u] : ~Fits(chunk[u], s, nbits[u])'
<1> SUFFICES ASSUME NEW u \in Threads \ {t}, pc'[u] = "scan"
             PROVE  /\ chunk'[u] \in Chunks
                    /\ lock'[chunk'[u]] = u
                    /\ bit'[u] >= -1
                    /\ \A s \in 0 .. bit'[u] : ~Fits(chunk[u], s, nbits[u])'
  BY DEF IInv, ScanInv
<1>1. /\ chunk[u] \in Chunks /\ lock[chunk[u]] = u /\ bit[u] >= -1
      /\ \A s \in 0 .. bit[u] : ~Fits(chunk[u], s, nbits[u])
  BY DEF IInv, ScanInv
<1>2. u # NoThread
  BY ThreadAssumption
<1>3. lock'[chunk[u]] = u /\ bits'[chunk[u]] = bits[chunk[u]]
  BY <1>1, <1>2
<1> QED BY <1>1, <1>3 DEF Fits

(* Every step of every call keeps the invariant.                            *)
LEMMA StepInv ==
  ASSUME IInv, [Next]_vars
  PROVE  IInv'
<1> USE ThreadAssumption
<1>1. ASSUME NEW t \in Threads, NEW n \in Requests, Request(t, n)
      PROVE  IInv'
  <2>1. TypeOK'
    BY <1>1, RequestAssumption DEF IInv, TypeOK, Request
  <2>2. ScanInv'
    BY <1>1, OthersScan, RequestAssumption DEF IInv, ScanInv, TypeOK, Request
  <2> QED BY <2>1, <2>2, <1>1, BitmapUnchanged DEF IInv, Request
<1>2. ASSUME NEW t \in Threads, EnterChunk(t)
      PROVE  IInv'
  <2>1. TypeOK'
    BY <1>2 DEF IInv, TypeOK, EnterChunk
  <2>2. ScanInv'
    BY <1>2, OthersScan DEF IInv, ScanInv, TypeOK, EnterChunk
  <2> QED BY <2>1, <2>2, <1>2, BitmapUnchanged DEF IInv, EnterChunk
<1>3. ASSUME NEW t \in Threads, GiveUp(t)
      PROVE  IInv'
  <2>1. TypeOK'
    BY <1>3 DEF IInv, TypeOK, GiveUp, Return
  <2>2. ScanInv'
    BY <1>3, OthersScan DEF IInv, ScanInv, TypeOK, GiveUp, Return
  <2> QED BY <2>1, <2>2, <1>3, BitmapUnchanged DEF IInv, GiveUp
<1>4. ASSUME NEW t \in Threads, LeaveChunk(t)
      PROVE  IInv'
  <2>0. chunk[t] \in Chunks /\ lock[chunk[t]] = t
    BY <1>4 DEF IInv, ScanInv, LeaveChunk
  <2>1. TypeOK'
    BY <1>4, <2>0 DEF IInv, TypeOK, LeaveChunk
  <2>2. ScanInv'
    BY <1>4, <2>0, OthersScan DEF IInv, ScanInv, TypeOK, LeaveChunk
  <2> QED BY <2>1, <2>2, <1>4, BitmapUnchanged DEF IInv, LeaveChunk
<1>5. ASSUME NEW t \in Threads, SkipRun(t)
      PROVE  IInv'
  <2>1. PICK s \in Ahead(t) :
          /\ Candidate(t, s)
          /\ \E b \in (s + 1) .. (s + nbits[t] - 1) :
                /\ b \in bits[chunk[t]]
                /\ (s + 1) .. (b - 1) \cap bits[chunk[t]] = {}
                /\ bit' = [bit EXCEPT ![t] = b]
    BY <1>5 DEF SkipRun
  <2>2. PICK b \in (s + 1) .. (s + nbits[t] - 1) :
          /\ b \in bits[chunk[t]]
          /\ bit' = [bit EXCEPT ![t] = b]
    BY <2>1
  <2>3. pc[t] = "scan" /\ UNCHANGED <<pool, bits, lock, pc, nbits, chunk, owned>>
    BY <1>5 DEF SkipRun
  <2>4. s \in Nat /\ nbits[t] \in Nat \ {0} /\ bit[t] \in Int /\ s > bit[t]
    <3>1. s \in Nat /\ nbits[t] \in Nat \ {0}
      BY <2>3, CandidateFits
    <3>2. bit[t] \in Int
      BY DEF IInv, TypeOK
    <3>3. EndBit(chunk[t], nbits[t]) \in Int
      BY <2>3, <3>1, ChunkNat DEF IInv, ScanInv, EndBit
    <3> QED BY <3>1, <3>2, <3>3 DEF Ahead
  <2>5. \A r \in 0 .. b : ~Fits(chunk[t], r, nbits[t])
    <3> SUFFICES ASSUME NEW r \in 0 .. b
                 PROVE  ~Fits(chunk[t], r, nbits[t])
      OBVIOUS
    <3>1. CASE r < s
      BY <3>1, <2>1, <2>3, <2>4, NothingBeforeCandidate DEF Candidate
    <3>2. CASE r >= s
      <4>1. b \in r .. (r + nbits[t] - 1)
        BY <3>2, <2>2, <2>4
      <4> QED BY <4>1, <2>2 DEF Fits
    <3> QED BY <3>1, <3>2, <2>2, <2>4
  <2>6. TypeOK'
    BY <2>2, <2>3, <2>4 DEF IInv, TypeOK
  <2>7. ScanInv'
    <3>1. bit'[t] = b /\ b >= -1
      BY <2>2, <2>4 DEF IInv, TypeOK
    <3>2. \A r \in 0 .. bit'[t] : ~Fits(chunk[t], r, nbits[t])'
      BY <3>1, <2>3, <2>5 DEF Fits
    <3>3. \A u \in Threads \ {t} : bit'[u] = bit[u]
      BY <2>2 DEF IInv, TypeOK
    <3> QED BY <3>1, <3>2, <3>3, <2>3, OthersScan DEF IInv, ScanInv
  <2> QED BY <2>3, <2>6, <2>7, BitmapUnchanged DEF IInv
<1>6. ASSUME NEW t \in Threads, TakeRun(t)
      PROVE  IInv'
  <2> DEFINE c == chunk[t]
             e(s) == [chunk |-> c, start |-> s, n |-> nbits[t]]
  <2>1. PICK s \in Ahead(t) :
          /\ Fits(c, s, nbits[t])
          /\ bits' = [bits EXCEPT ![c] = @ \cup Blocks(e(s))]
          /\ owned' = owned \cup {e(s)}
    BY <1>6 DEF TakeRun
  <2>2. pc[t] = "scan" /\ c \in Chunks /\ lock[c] = t
    BY <1>6 DEF TakeRun, IInv, ScanInv
  <2>3. e(s) \in Extent
    BY <2>2, CandidateFits
  <2>4. Blocks(e(s)) \cap bits[c] = {} /\ Blocks(e(s)) \subseteq Nat
    BY <2>1, <2>3, BlocksNat DEF Fits, Blocks
  <2>5. TypeOK'
    BY <1>6, <2>1, <2>2, <2>3, <2>4 DEF IInv, TypeOK, TakeRun, Return
  <2>6. ScanInv'
    <3>1. \A d \in Chunks : lock[d] # t => lock'[d] = lock[d] /\ bits'[d] = bits[d]
      BY <1>6, <2>1, <2>2 DEF TakeRun, IInv, TypeOK
    <3>2. pc'[t] = "idle"
      BY <1>6 DEF TakeRun, Return, IInv, TypeOK
    <3>3. \A u \in Threads \ {t} :
           /\ pc'[u] = pc[u] /\ nbits'[u] = nbits[u]
           /\ chunk'[u] = chunk[u] /\ bit'[u] = bit[u]
      BY <1>6 DEF TakeRun, Return, IInv, TypeOK
    <3> QED BY <3>1, <3>2, <3>3, OthersScan DEF ScanInv
  <2>7. BitOwned'
    <3>1. \A d \in Chunks : bits'[d] = IF d = c THEN bits[c] \cup Blocks(e(s)) ELSE bits[d]
      BY <2>1, <2>2 DEF IInv, TypeOK
    <3> SUFFICES ASSUME NEW d \in Chunks, NEW x \in Nat
                 PROVE  x \in bits'[d] <=> \E f \in owned' : f.chunk = d /\ x \in Blocks(f)
      BY DEF BitOwned, Blocks
    <3>2. x \in bits[d] <=> \E f \in owned : f.chunk = d /\ x \in Blocks(f)
      BY DEF IInv, BitOwned
    <3>3. e(s).chunk = c
      OBVIOUS
    <3> HIDE DEF e
    <3> QED BY <3>1, <3>2, <3>3, <2>1
  <2>8. NoOverlap'
    <3>1. ASSUME NEW f \in owned PROVE Disjoint(e(s), f) /\ Disjoint(f, e(s))
      <4>1. CASE f.chunk = c
        <5>1. f \in Extent /\ Blocks(f) \subseteq Nat
          BY BlocksNat DEF IInv, TypeOK
        <5>2. Blocks(f) \subseteq bits[c]
          BY <4>1, <5>1, <2>2 DEF IInv, BitOwned
        <5> QED BY <5>2, <2>4 DEF Disjoint
      <4>2. CASE f.chunk # c
        BY <4>2 DEF Disjoint
      <4> QED BY <4>1, <4>2
    <3> QED BY <3>1, <2>1 DEF IInv, NoOverlap
  <2> QED BY <2>5, <2>6, <2>7, <2>8 DEF IInv
<1>7. ASSUME NEW t \in Threads, NEW e \in owned, Free(t, e)
      PROVE  IInv'
  <2>1. e \in Extent /\ e.chunk \in Chunks
    BY DEF IInv, TypeOK, Extent
  <2>2. TypeOK'
    BY <1>7, <2>1 DEF IInv, TypeOK, Free
  <2>3. \A d \in Chunks : bits'[d] = IF d = e.chunk THEN bits[d] \ Blocks(e) ELSE bits[d]
    BY <1>7, <2>1 DEF Free, IInv, TypeOK
  <2>4. ScanInv'
    <3>1. pc[t] = "idle" /\ UNCHANGED <<lock, pc, nbits, chunk, bit>> /\ lock[e.chunk] = NoThread
      BY <1>7 DEF Free
    <3>2. \A u \in Threads \ {t} :
             /\ pc'[u] = pc[u] /\ nbits'[u] = nbits[u]
             /\ chunk'[u] = chunk[u] /\ bit'[u] = bit[u]
      BY <3>1
    <3>3. \A c \in Chunks : lock[c] # t /\ lock[c] # NoThread
                             => lock'[c] = lock[c] /\ bits'[c] = bits[c]
      BY <3>1, <2>3
    <3>4. pc'[t] = "idle"
      BY <3>1
    <3>5. \A u \in Threads \ {t} :
             /\ pc'[u] \in {"walk", "scan"} => nbits'[u] >= 1
             /\ pc'[u] = "scan" =>
                  /\ chunk'[u] \in Chunks
                  /\ lock'[chunk'[u]] = u
                  /\ bit'[u] >= -1
                  /\ \A s \in 0 .. bit'[u] : ~Fits(chunk[u], s, nbits[u])'
      BY <3>2, <3>3, OthersScan
    <3> QED BY <3>4, <3>5 DEF ScanInv
  <2>5. BitOwned'
    <3> SUFFICES ASSUME NEW d \in Chunks, NEW x \in Nat
                 PROVE  x \in bits'[d] <=> \E f \in owned' : f.chunk = d /\ x \in Blocks(f)
      BY DEF BitOwned, Blocks
    <3>1. owned' = owned \ {e}
      BY <1>7 DEF Free
    <3>2. x \in bits[d] <=> \E f \in owned : f.chunk = d /\ x \in Blocks(f)
      BY DEF IInv, BitOwned
    <3>3. CASE d = e.chunk /\ x \in Blocks(e)
      BY <3>3, <3>1, <2>3 DEF IInv, NoOverlap, Disjoint
    <3>4. CASE ~(d = e.chunk /\ x \in Blocks(e))
      BY <3>4, <3>1, <3>2, <2>3
    <3> QED BY <3>3, <3>4
  <2>6. NoOverlap'
    BY <1>7 DEF Free, IInv, NoOverlap, Disjoint, Blocks
  <2> QED BY <2>2, <2>4, <2>5, <2>6 DEF IInv
<1>8. CASE Destroy
  <2>1. TypeOK'
    BY <1>8 DEF IInv, TypeOK, Destroy
  <2>2. ScanInv'
    BY <1>8 DEF IInv, ScanInv, Destroy, Fits
  <2> QED BY <1>8, <2>1, <2>2, BitmapUnchanged DEF IInv, Destroy
<1>9. CASE UNCHANGED vars
  BY <1>9 DEF vars, IInv, TypeOK, ScanInv, BitOwned, NoOverlap, Fits, Blocks, Disjoint
<1> QED
  BY <1>1, <1>2, <1>3, <1>4, <1>5, <1>6, <1>7, <1>8, <1>9 DEF Next

-----------------------------------------------------------------------------
(* So it always holds.                                                      *)
LEMMA Invariance == Spec => []IInv
<1> QED BY InitInv, StepInv, PTL DEF Spec

(* Type correctness of the pool. *)
THEOREM TypeCorrect == Spec => []TypeOK
<1>1. IInv => TypeOK
  BY DEF IInv
<1> QED BY <1>1, Invariance, PTL

(* gen_pool_alloc never hands out a block that is still allocated, for any *)
(* chunks, request sizes and interleaving of allocating and freeing        *)
(* threads.                                                                *)
THEOREM AllocationsDisjoint == Spec => []NoOverlap
<1>1. IInv => NoOverlap
  BY DEF IInv
<1> QED BY <1>1, Invariance, PTL

(* What the invariant says of the bitmap is what the run checks.            *)
LEMMA OwnedExact == IInv => BitmapExact
<1> SUFFICES ASSUME IInv, NEW c \in Chunks
             PROVE  bits[c] = UNION {Blocks(e) : e \in {f \in owned : f.chunk = c}}
  BY DEF BitmapExact
<1>1. bits[c] \subseteq Nat
  BY DEF IInv, TypeOK
<1>2. ASSUME NEW e \in owned PROVE Blocks(e) \subseteq Nat
  BY BlocksNat DEF IInv, TypeOK
<1> QED BY <1>1, <1>2 DEF IInv, BitOwned

(* The bitmap of every chunk is the union of the extents callers hold. *)
THEOREM NothingLeaks == Spec => []BitmapExact
BY OwnedExact, Invariance, PTL

(* The BUG_ON of gen_pool_destroy cannot fire once callers hold nothing. *)
THEOREM DestroySafe == Spec => []NoBug
<1>1. Init => NoBug
  BY DEF Init, NoBug
<1>2. ASSUME IInv, NoBug, [Next]_vars
      PROVE  NoBug'
  <2>1. CASE Destroy
    <3>1. \A c \in Chunks : bits[c] = {}
      BY <2>1, <1>2 DEF Destroy, IInv, BitOwned, TypeOK
    <3> QED BY <3>1, <2>1 DEF Destroy, NoBug
  <2>2. CASE ~Destroy
    BY <2>2, <1>2 DEF Next, vars, NoBug, Request, EnterChunk, GiveUp,
                      LeaveChunk, SkipRun, TakeRun, Free
  <2> QED BY <2>1, <2>2
<1> QED BY <1>1, <1>2, Invariance, PTL DEF Spec

(* First fit: an extent is placed at the lowest start bit that fits. *)
THEOREM FirstFit == Spec => LowestFit
<1>1. ASSUME IInv, [Next]_vars,
             NEW e \in owned' \ owned, NEW r \in 0 .. (e.start - 1)
      PROVE  ~Fits(e.chunk, r, e.n)
  <2>1. PICK t \in Threads : TakeRun(t)
    BY <1>1 DEF Next, vars, Request, EnterChunk, GiveUp, LeaveChunk, SkipRun,
                TakeRun, Free, Destroy
  <2>2. PICK s \in Ahead(t) :
          /\ Candidate(t, s)
          /\ owned' = owned \cup {[chunk |-> chunk[t], start |-> s, n |-> nbits[t]]}
    BY <2>1 DEF TakeRun
  <2>3. e = [chunk |-> chunk[t], start |-> s, n |-> nbits[t]]
    BY <2>2
  <2>4. s \in Nat /\ pc[t] = "scan"
    BY <1>1, <2>1, CandidateFits DEF TakeRun
  <2>5. s > bit[t]
    <3>1. bit[t] \in Int /\ EndBit(chunk[t], nbits[t]) \in Int
      BY <1>1, <2>4, ChunkNat DEF IInv, TypeOK, ScanInv, EndBit
    <3> QED BY <3>1 DEF Ahead
  <2>6. \A q \in 0 .. (s - 1) : ~Fits(chunk[t], q, nbits[t])
    BY <1>1, <2>2, <2>4, <2>5, NothingBeforeCandidate DEF Candidate
  <2> QED BY <2>3, <2>6
<1>2. IInv /\ [Next]_vars =>
        [\A e \in owned' \ owned :
           \A s \in 0 .. e.start - 1 : ~Fits(e.chunk, s, e.n)]_vars
  BY <1>1
<1> QED BY <1>2, Invariance, PTL DEF Spec, LowestFit

(* A chunk is given up only when no start bit below end_bit fits in it. *)
THEOREM SkipsNothing == Spec => ScanComplete
<1>1. ASSUME IInv, [Next]_vars, NEW t \in Threads,
             pc[t] = "scan", pc'[t] = "walk",
             NEW r \in 0 .. EndBit(chunk[t], nbits[t]) - 1
      PROVE  ~Fits(chunk[t], r, nbits[t])
  <2>1. LeaveChunk(t)
    BY <1>1 DEF Next, vars, Request, EnterChunk, GiveUp, LeaveChunk, SkipRun,
                TakeRun, Free, Destroy, Return, IInv, TypeOK
  <2>2. /\ bit[t] \in Int /\ nbits[t] \in Nat /\ nbits[t] >= 1
        /\ EndBit(chunk[t], nbits[t]) \in Int
    BY <1>1, ChunkNat DEF IInv, TypeOK, ScanInv, EndBit
  <2>3. CASE r <= bit[t]
    BY <1>1, <2>2, <2>3 DEF IInv, ScanInv
  <2>4. CASE r > bit[t]
    <3>1. r \in bits[chunk[t]]
      BY <2>1, <2>2, <2>4 DEF LeaveChunk, Ahead
    <3>2. r \in r .. (r + nbits[t] - 1)
      BY <2>2
    <3> QED BY <3>1, <3>2 DEF Fits
  <2> QED BY <2>2, <2>3, <2>4
<1>2. IInv /\ [Next]_vars =>
        [\A t \in Threads :
           (pc[t] = "scan" /\ pc'[t] = "walk")
              => \A s \in 0 .. EndBit(chunk[t], nbits[t]) - 1 :
                   ~Fits(chunk[t], s, nbits[t])]_vars
  BY <1>1
<1> QED BY <1>2, Invariance, PTL DEF Spec, ScanComplete

(* The two together: first fit, as far as end_bit lets the search look. *)
THEOREM FirstFitSearch == Spec => FirstFits
BY FirstFit, SkipsNothing DEF FirstFits

(* Bitmaps, types and BUG_ONs together. *)
THEOREM PoolAlwaysSound == Spec => []PoolSound
BY TypeCorrect, NothingLeaks, DestroySafe, PTL DEF PoolSound

(* The pool implements the extent allocator: every step takes or returns   *)
(* one extent, disjoint from the others and inside its chunk, or stutters. *)
THEOREM Refinement == Spec => ImplementsExtents
<1>1. Init => Abstract!Init
  BY DEF Init, Abstract!Init
<1>2. ASSUME IInv, [Next]_vars
      PROVE  [Abstract!Next]_owned
  <2> SUFFICES ASSUME owned' # owned
               PROVE  Abstract!Next
    OBVIOUS
  <2> USE DEF Abstract!Extent, Extent
  <2>1. ASSUME NEW t \in Threads, TakeRun(t)
        PROVE  Abstract!Next
    <3>1. PICK s \in Ahead(t) :
            /\ Fits(chunk[t], s, nbits[t])
            /\ owned' = owned \cup {[chunk |-> chunk[t], start |-> s, n |-> nbits[t]]}
      BY <2>1 DEF TakeRun
    <3> DEFINE e == [chunk |-> chunk[t], start |-> s, n |-> nbits[t]]
    <3>2. e \in Extent /\ e.start + e.n <= ChunkBits[e.chunk]
      BY <1>2, <2>1, CandidateFits DEF TakeRun
    <3>3. e \in owned' /\ e \notin owned
      BY <3>1
    <3>4. \A f \in owned : Abstract!Disjoint(e, f)
      <4> SUFFICES ASSUME NEW f \in owned, f.chunk = chunk[t]
                   PROVE  Abstract!Blocks(e) \cap Abstract!Blocks(f) = {}
        BY DEF Abstract!Disjoint
      <4>1. chunk[t] \in Chunks /\ f \in Extent
        BY <1>2, <2>1 DEF TakeRun, IInv, ScanInv, TypeOK
      <4>2. Blocks(f) \subseteq bits[chunk[t]]
        BY <1>2, <4>1, BlocksNat DEF IInv, BitOwned
      <4> QED BY <3>1, <4>2 DEF Fits, Blocks, Abstract!Blocks
    <3> QED BY <3>1, <3>2, <3>3, <3>4 DEF Abstract!Next, Abstract!Allocate
  <2>2. ASSUME NEW t \in Threads, NEW e \in owned, Free(t, e)
        PROVE  Abstract!Next
    <3>1. owned' = owned \ {e} /\ e \in Extent
      BY <1>2, <2>2 DEF Free, IInv, TypeOK
    <3> QED BY <3>1 DEF Abstract!Next, Abstract!Release
  <2> QED BY <1>2, <2>1, <2>2 DEF Next, vars, Request, EnterChunk, GiveUp,
                LeaveChunk, SkipRun, Destroy
<1> QED BY <1>1, <1>2, Invariance, PTL DEF Spec, ImplementsExtents, Abstract!Spec

-----------------------------------------------------------------------------
(* Memblock: numbers, sequences and loops.                                 *)

(* Induction over the naturals, for a set of them.                         *)
LEMMA Inductive ==
  ASSUME NEW P, 0 \in P, \A n \in Nat : n \in P => n + 1 \in P
  PROVE  Nat \subseteq P
<1> DEFINE Out == {n \in Nat : n \notin P}
<1> SUFFICES ASSUME Out # {} PROVE FALSE
  OBVIOUS
<1>1. PICK m \in Out : \A k \in Out : ~(<<k, m>> \in OpToRel(<, Nat))
  <2>1. Out \subseteq Nat
    OBVIOUS
  <2> HIDE DEF Out
  <2> QED BY <2>1, WFMin, NatLessThanWellFounded
<1>2. \A k \in Out : ~(k < m)
  <2>1. Out \subseteq Nat
    OBVIOUS
  <2> HIDE DEF Out
  <2> QED BY <1>1, <2>1 DEF OpToRel
<1>3. m \in Nat /\ m \notin P /\ m # 0
  OBVIOUS
<1>4. m - 1 \in Nat /\ m - 1 + 1 = m
  BY <1>3
<1>5. m - 1 \in P
  <2>1. ASSUME m - 1 \in Out PROVE FALSE
    BY <1>2, <1>3, <1>4, <2>1
  <2> QED BY <1>4, <2>1
<1> QED BY <1>3, <1>4, <1>5

(* A set of naturals that has an element has a least one.                  *)
LEMMA LeastNat ==
  ASSUME NEW S \in SUBSET Nat, S # {}
  PROVE  Min(S) \in S /\ \A k \in S : Min(S) <= k
<1>1. PICK m \in S : \A k \in S : ~(<<k, m>> \in OpToRel(<, Nat))
  BY WFMin, NatLessThanWellFounded
<1>2. \A k \in S : ~(k < m)
  BY <1>1 DEF OpToRel
<1>3. \E x \in S : \A k \in S : x <= k
  BY <1>2
<1> QED BY <1>3 DEF Min

-----------------------------------------------------------------------------
(* An element put at place k moves those from k on one further.            *)
LEMMA InsertIs ==
  ASSUME NEW S, NEW q \in Seq(S), NEW k \in 1 .. Len(q) + 1, NEW e \in S
  PROVE  /\ InsertAt(q, k, e) \in Seq(S)
         /\ Len(InsertAt(q, k, e)) = Len(q) + 1
         /\ \A i \in 1 .. k - 1 : InsertAt(q, k, e)[i] = q[i]
         /\ InsertAt(q, k, e)[k] = e
         /\ \A i \in k + 1 .. Len(q) + 1 : InsertAt(q, k, e)[i] = q[i - 1]
<1> DEFINE a == SubSeq(q, 1, k - 1)  b == << e >>  c == SubSeq(q, k, Len(q))  r == InsertAt(q, k, e)
<1>1. Len(q) \in Nat /\ k \in Nat /\ k >= 1 /\ k <= Len(q) + 1 /\ \A i \in 1 .. Len(q) : q[i] \in S
  BY LenProperties, ElementOfSeq
<1>2. a \in Seq(S) /\ Len(a) = k - 1 /\ \A i \in 1 .. k - 1 : a[i] = q[i]
  <2>1. \A i \in 1 .. k - 1 : q[i] \in S
    BY <1>1
  <2>2. 1 \in Int /\ k - 1 \in Int /\ (IF 1 <= k - 1 THEN k - 1 - 1 + 1 ELSE 0) = k - 1
    BY <1>1
  <2>3. /\ a \in Seq(S)
        /\ Len(a) = IF 1 <= k - 1 THEN k - 1 - 1 + 1 ELSE 0
        /\ \A i \in 1 .. k - 1 - 1 + 1 : a[i] = q[1 + i - 1]
    BY <2>1, <2>2, SubSeqProperties
  <2> QED BY <1>1, <2>2, <2>3
<1>3. c \in Seq(S) /\ Len(c) = Len(q) + 1 - k /\ \A i \in 1 .. Len(q) + 1 - k : c[i] = q[k + i - 1]
  <2>1. \A i \in k .. Len(q) : q[i] \in S
    BY <1>1
  <2>2. k \in Int /\ Len(q) \in Int
        /\ (IF k <= Len(q) THEN Len(q) - k + 1 ELSE 0) = Len(q) + 1 - k
    BY <1>1
  <2>3. /\ c \in Seq(S)
        /\ Len(c) = IF k <= Len(q) THEN Len(q) - k + 1 ELSE 0
        /\ \A i \in 1 .. Len(q) - k + 1 : c[i] = q[k + i - 1]
    BY <2>1, <2>2, SubSeqProperties
  <2> QED BY <1>1, <2>2, <2>3
<1>4. b \in Seq(S) /\ Len(b) = 1 /\ b[1] = e
  OBVIOUS
<1>5. r = (a \o b) \o c
  BY DEF InsertAt
<1> HIDE DEF a, b, c, r
<1> DEFINE t == a \o b
<1>6. /\ t \in Seq(S) /\ Len(t) = k
      /\ \A i \in 1 .. k : t[i] = IF i <= k - 1 THEN a[i] ELSE b[i - (k - 1)]
  <2>1. /\ t \in Seq(S) /\ Len(t) = Len(a) + Len(b)
        /\ \A i \in 1 .. Len(a) + Len(b) : t[i] = IF i <= Len(a) THEN a[i] ELSE b[i - Len(a)]
    BY <1>2, <1>4, ConcatProperties
  <2>2. Len(a) + Len(b) = k /\ Len(a) = k - 1
    BY <1>1, <1>2, <1>4
  <2> QED BY <2>1, <2>2
<1> HIDE DEF t
<1>7. /\ r \in Seq(S) /\ Len(r) = Len(q) + 1
      /\ \A i \in 1 .. Len(q) + 1 : r[i] = IF i <= k THEN t[i] ELSE c[i - k]
  <2>3. r = t \o c
    BY <1>5 DEF t
  <2>1. /\ r \in Seq(S) /\ Len(r) = Len(t) + Len(c)
        /\ \A i \in 1 .. Len(t) + Len(c) : r[i] = IF i <= Len(t) THEN t[i] ELSE c[i - Len(t)]
    BY <1>3, <1>6, <2>3, ConcatProperties
  <2>2. Len(t) + Len(c) = Len(q) + 1 /\ Len(t) = k
    BY <1>1, <1>3, <1>6
  <2> QED BY <2>1, <2>2
<1>8. ASSUME NEW i \in 1 .. k - 1 PROVE r[i] = q[i]
  <2>1. i \in 1 .. Len(q) + 1 /\ i \in 1 .. k /\ i <= k /\ i <= k - 1
    BY <1>1
  <2> QED BY <1>2, <1>6, <1>7, <2>1
<1>9. r[k] = e
  <2>1. k \in 1 .. Len(q) + 1 /\ k \in 1 .. k /\ k <= k /\ ~(k <= k - 1) /\ k - (k - 1) = 1
    BY <1>1
  <2> QED BY <1>4, <1>6, <1>7, <2>1
<1>10. ASSUME NEW i \in k + 1 .. Len(q) + 1 PROVE r[i] = q[i - 1]
  <2>1. /\ i \in 1 .. Len(q) + 1 /\ ~(i <= k) /\ i - k \in 1 .. Len(q) + 1 - k
        /\ k + (i - k) - 1 = i - 1
    BY <1>1
  <2> QED BY <1>3, <1>7, <2>1
<1> QED BY <1>7, <1>8, <1>9, <1>10 DEF r


(* A set of naturals with an element and a bound has a greatest one.       *)
LEMMA GreatestNat ==
  ASSUME NEW S \in SUBSET Nat, S # {}, NEW n \in Nat, \A k \in S : k <= n
  PROVE  Max(S) \in S /\ \A k \in S : k <= Max(S)
<1> DEFINE T == {n - k : k \in S}
<1>1. T \in SUBSET Nat /\ T # {}
  <2>1. \A k \in S : n - k \in Nat
    <3> SUFFICES ASSUME NEW k \in S PROVE n - k \in Nat
      OBVIOUS
    <3>1. k \in Nat /\ k <= n
      OBVIOUS
    <3> QED BY <3>1
  <2>2. T \in SUBSET Nat
    BY <2>1
  <2> QED BY <2>2
<1>2. Min(T) \in T /\ \A k \in T : Min(T) <= k
  <2> HIDE DEF T
  <2> QED BY <1>1, LeastNat
<1>3. PICK m \in S : Min(T) = n - m
  BY <1>2
<1>4. \A k \in S : m >= k
  <2> SUFFICES ASSUME NEW k \in S PROVE m >= k
    OBVIOUS
  <2>1. n - k \in T
    OBVIOUS
  <2>2. n - m <= n - k
    BY <1>2, <1>3, <2>1
  <2> QED BY <2>2
<1>5. \E x \in S : \A k \in S : x >= k
  BY <1>4
<1> QED BY <1>5 DEF Max

(* What each turn of a loop keeps, the loop keeps.                         *)
LEMMA IterateKeeps ==
  ASSUME NEW turn, NEW s, NEW n \in Nat, NEW G, s \in G[0],
         \A k \in 0 .. n - 1 : \A x \in G[k] : turn[x] \in G[k + 1]
  PROVE  Iterate(turn, s, n) \in G[n]
<1> DEFINE Is(f, k) == f = [i \in 0 .. k |-> IF i = 0 THEN s ELSE turn[f[i - 1]]]
           P == {k \in Nat : \E f : Is(f, k)}
<1>1. 0 \in P
  <2> DEFINE f == [i \in 0 .. 0 |-> s]
  <2>1. Is(f, 0)
    OBVIOUS
  <2> QED BY <2>1
<1>2. ASSUME NEW k \in Nat, k \in P PROVE k + 1 \in P
  <2>1. PICK f : Is(f, k)
    BY <1>2
  <2> DEFINE g == [i \in 0 .. k + 1 |-> IF i = k + 1 THEN turn[f[k]] ELSE f[i]]
             h == [i \in 0 .. k + 1 |-> IF i = 0 THEN s ELSE turn[g[i - 1]]]
  <2>2. ASSUME NEW i \in 0 .. k + 1 PROVE g[i] = h[i]
    <3>1. CASE i = k + 1
      <4>1. i # 0 /\ i - 1 = k /\ i - 1 \in 0 .. k + 1 /\ i - 1 # k + 1
        BY <3>1
      <4>2. g[i - 1] = f[k]
        BY <4>1
      <4> QED BY <3>1, <4>1, <4>2
    <3>2. CASE i # k + 1
      <4>1. i \in 0 .. k /\ g[i] = f[i]
        BY <3>2
      <4>2. f[i] = IF i = 0 THEN s ELSE turn[f[i - 1]]
        BY <2>1, <4>1
      <4>3. CASE i = 0
        BY <4>1, <4>2, <4>3
      <4>4. CASE i # 0
        <5>1. i - 1 \in 0 .. k + 1 /\ i - 1 # k + 1
          BY <3>2, <4>4
        <5>2. g[i - 1] = f[i - 1]
          BY <5>1
        <5> QED BY <4>1, <4>2, <4>4, <5>2
      <4> QED BY <4>3, <4>4
    <3> QED BY <3>1, <3>2
  <2>3. Is(g, k + 1)
    <3>1. g = h
      BY <2>2
    <3> HIDE DEF g
    <3> QED BY <3>1
  <2>4. k + 1 \in Nat
    OBVIOUS
  <2> HIDE DEF g, Is
  <2> QED BY <2>3, <2>4
<1>3. n \in P
  <2> HIDE DEF P
  <2> QED BY <1>1, <1>2, Inductive
<1> DEFINE after == CHOOSE f : Is(f, n)
<1>4. Is(after, n)
  <2>1. \E f : Is(f, n)
    BY <1>3
  <2> HIDE DEF Is
  <2> QED BY <2>1
<1>5. Iterate(turn, s, n) = after[n]
  BY DEF Iterate
<1> HIDE DEF after
<1> DEFINE Q == {k \in Nat : k <= n => after[k] \in G[k]}
<1>6. 0 \in Q
  BY <1>4
<1>7. ASSUME NEW k \in Nat, k \in Q PROVE k + 1 \in Q
  <2> SUFFICES ASSUME k + 1 <= n PROVE after[k + 1] \in G[k + 1]
    OBVIOUS
  <2>1. k + 1 \in 0 .. n /\ k + 1 # 0 /\ k + 1 - 1 = k /\ k \in 0 .. n - 1 /\ k <= n
    OBVIOUS
  <2>2. after[k + 1] = turn[after[k + 1 - 1]]
    BY <1>4, <2>1
  <2>3. after[k] \in G[k]
    BY <1>7, <2>1
  <2> QED BY <2>1, <2>2, <2>3
<1>8. n \in Q
  <2> HIDE DEF Q
  <2> QED BY <1>6, <1>7, Inductive
<1> QED BY <1>5, <1>8

(* A part of a table.                                                      *)
LEMMA SubIs ==
  ASSUME NEW S, NEW q \in Seq(S), NEW m \in Nat, NEW n \in Nat, m >= 1, n <= Len(q), m <= n + 1
  PROVE  /\ SubSeq(q, m, n) \in Seq(S)
         /\ Len(SubSeq(q, m, n)) = n + 1 - m
         /\ \A i \in 1 .. n + 1 - m : SubSeq(q, m, n)[i] = q[m + i - 1]
<1>1. Len(q) \in Nat /\ \A i \in 1 .. Len(q) : q[i] \in S
  BY LenProperties, ElementOfSeq
<1>2. \A i \in m .. n : q[i] \in S
  BY <1>1
<1>3. /\ SubSeq(q, m, n) \in Seq(S)
      /\ Len(SubSeq(q, m, n)) = IF m <= n THEN n - m + 1 ELSE 0
      /\ \A i \in 1 .. n - m + 1 : SubSeq(q, m, n)[i] = q[m + i - 1]
  BY <1>2, SubSeqProperties
<1>4. n - m + 1 = n + 1 - m /\ (IF m <= n THEN n - m + 1 ELSE 0) = n + 1 - m
  OBVIOUS
<1>5. \A i \in 1 .. n + 1 - m : i \in 1 .. n - m + 1
  OBVIOUS
<1> QED BY <1>3, <1>4, <1>5

(* A table without one of its elements.                                    *)
LEMMA RemoveIs ==
  ASSUME NEW S, NEW q \in Seq(S), NEW k \in 1 .. Len(q)
  PROVE  /\ RemoveAt(q, k) \in Seq(S)
         /\ Len(RemoveAt(q, k)) = Len(q) - 1
         /\ \A i \in 1 .. k - 1 : RemoveAt(q, k)[i] = q[i]
         /\ \A i \in k .. Len(q) - 1 : RemoveAt(q, k)[i] = q[i + 1]
<1> DEFINE a == SubSeq(q, 1, k - 1)  c == SubSeq(q, k + 1, Len(q))  r == RemoveAt(q, k)
<1>1. Len(q) \in Nat /\ k \in Nat /\ k >= 1 /\ k <= Len(q) /\ \A i \in 1 .. Len(q) : q[i] \in S
  BY LenProperties, ElementOfSeq
<1>2. a \in Seq(S) /\ Len(a) = k - 1 /\ \A i \in 1 .. k - 1 : a[i] = q[i]
  <2>1. 1 \in Nat /\ k - 1 \in Nat /\ 1 >= 1 /\ k - 1 <= Len(q) /\ 1 <= k - 1 + 1 /\ k - 1 + 1 - 1 = k - 1
    BY <1>1
  <2>2. /\ a \in Seq(S) /\ Len(a) = k - 1 + 1 - 1
        /\ \A i \in 1 .. k - 1 + 1 - 1 : a[i] = q[1 + i - 1]
    BY <2>1, SubIs
  <2>3. \A i \in 1 .. k - 1 : 1 + i - 1 = i
    OBVIOUS
  <2> QED BY <2>1, <2>2, <2>3
<1>3. c \in Seq(S) /\ Len(c) = Len(q) - k /\ \A i \in 1 .. Len(q) - k : c[i] = q[k + i]
  <2>1. k + 1 \in Nat /\ k + 1 >= 1 /\ k + 1 <= Len(q) + 1 /\ Len(q) <= Len(q)
        /\ Len(q) + 1 - (k + 1) = Len(q) - k
    BY <1>1
  <2>2. /\ c \in Seq(S) /\ Len(c) = Len(q) + 1 - (k + 1)
        /\ \A i \in 1 .. Len(q) + 1 - (k + 1) : c[i] = q[k + 1 + i - 1]
    BY <1>1, <2>1, SubIs
  <2>3. \A i \in 1 .. Len(q) - k : k + 1 + i - 1 = k + i
    BY <1>1
  <2> QED BY <2>1, <2>2, <2>3
<1>5. r = a \o c
  BY DEF RemoveAt
<1> HIDE DEF a, c, r
<1>7. /\ r \in Seq(S) /\ Len(r) = Len(q) - 1
      /\ \A i \in 1 .. Len(q) - 1 : r[i] = IF i <= k - 1 THEN a[i] ELSE c[i - (k - 1)]
  <2>1. /\ r \in Seq(S) /\ Len(r) = Len(a) + Len(c)
        /\ \A i \in 1 .. Len(a) + Len(c) : r[i] = IF i <= Len(a) THEN a[i] ELSE c[i - Len(a)]
    BY <1>2, <1>3, <1>5, ConcatProperties
  <2>2. Len(a) + Len(c) = Len(q) - 1 /\ Len(a) = k - 1
    BY <1>1, <1>2, <1>3
  <2> QED BY <2>1, <2>2
<1>8. ASSUME NEW i \in 1 .. k - 1 PROVE r[i] = q[i]
  <2>1. i \in 1 .. Len(q) - 1 /\ i <= k - 1
    BY <1>1
  <2> QED BY <1>2, <1>7, <2>1
<1>10. ASSUME NEW i \in k .. Len(q) - 1 PROVE r[i] = q[i + 1]
  <2>1. /\ i \in 1 .. Len(q) - 1 /\ ~(i <= k - 1) /\ i - (k - 1) \in 1 .. Len(q) - k
        /\ k + (i - (k - 1)) = i + 1
    BY <1>1
  <2>2. r[i] = c[i - (k - 1)]
    BY <1>7, <2>1
  <2>3. c[i - (k - 1)] = q[k + (i - (k - 1))]
    BY <1>3, <2>1
  <2> QED BY <2>1, <2>2, <2>3
<1> QED BY <1>7, <1>8, <1>10 DEF r

(* A table with one element replaced.                                      *)
LEMMA ReplaceIs ==
  ASSUME NEW S, NEW q \in Seq(S), NEW k \in 1 .. Len(q), NEW e \in S
  PROVE  /\ [q EXCEPT ![k] = e] \in Seq(S)
         /\ Len([q EXCEPT ![k] = e]) = Len(q)
         /\ [q EXCEPT ![k] = e][k] = e
         /\ \A i \in 1 .. Len(q) : i # k => [q EXCEPT ![k] = e][i] = q[i]
  BY ExceptSeq

-----------------------------------------------------------------------------
(* A table in canonical form: its rows are in order and apart, within the  *)
(* address space, and none is empty but the filler of an empty table.      *)
Row == [base : Nat, size : Nat]

Within(r, x) == r.base <= x /\ x < r.base + r.size

Covers(q, x) == \E i \in 1 .. Len(q) : Within(q[i], x)

Canon(q) ==
  /\ q \in Seq(Row)
  /\ \A i \in 1 .. Len(q) : q[i].base + q[i].size <= Top
  /\ \A i \in 1 .. Len(q) : q[i].size > 0 \/ q = <<Filler>>
  /\ \A i, j \in 1 .. Len(q) : i < j => q[i].base + q[i].size < q[j].base

(* Numbers of the model.                                                   *)
LEMMA Numbers ==
  /\ Top \in Nat /\ Top > 1 /\ WordSize \in Nat /\ WordSize > 2 * Top
  /\ InitRegions \in Nat /\ InitRegions > 1
  BY MemblockAssumption

(* Regions is the set of tables.                                           *)
LEMMA RegionsRow == Regions = Seq(Row)
  BY DEF Regions, Row

(* The end of a region does not wrap.                                      *)
LEMMA EndIs ==
  ASSUME NEW r \in Row, r.base + r.size <= Top
  PROVE  End(r) = r.base + r.size
<1>1. r.base \in Nat /\ r.size \in Nat
  BY DEF Row
<1>2. ~(r.base + r.size >= WordSize)
  BY <1>1, Numbers
<1> QED BY <1>2 DEF End

(* What is known of a row of a canonical table.                            *)
LEMMA RowIs ==
  ASSUME NEW q, Canon(q), NEW i \in 1 .. Len(q)
  PROVE  /\ q[i] \in Row /\ q[i].base \in Nat /\ q[i].size \in Nat
         /\ q[i].base + q[i].size <= Top
         /\ End(q[i]) = q[i].base + q[i].size
         /\ i \in Nat /\ Len(q) \in Nat
<1>1. q[i] \in Row
  BY ElementOfSeq DEF Canon
<1>2. q[i].base \in Nat /\ q[i].size \in Nat
  BY <1>1 DEF Row
<1>3. q[i].base + q[i].size <= Top
  BY DEF Canon
<1>4. Len(q) \in Nat
  BY LenProperties DEF Canon
<1> QED BY <1>1, <1>2, <1>3, <1>4, EndIs

(* The table of the filler alone.                                          *)
LEMMA FillerIs ==
  /\ Canon(<<Filler>>) /\ Len(<<Filler>>) = 1 /\ <<Filler>>[1].size = 0 /\ <<Filler>>[1].base = 0
  /\ \A x \in Nat : ~Covers(<<Filler>>, x)
<1>1. Filler \in Row /\ Filler.base = 0 /\ Filler.size = 0
  BY DEF Filler, Region, Row
<1> DEFINE f == <<Filler>>
<1>2. Len(f) = 1 /\ f[1] = Filler /\ f \in Seq(Row)
  BY <1>1
<1>3. \A i \in 1 .. Len(f) : i = 1
  BY <1>2
<1>6. \A i \in 1 .. Len(f) : f[i].size > 0 \/ f = <<Filler>>
  OBVIOUS
<1> HIDE DEF f
<1>4. Canon(f)
  <2>1. 0 + 0 <= Top
    BY Numbers
  <2>2. \A i \in 1 .. Len(f) : f[i].base + f[i].size <= Top
    BY <1>1, <1>2, <1>3, <2>1
  <2>3. \A i, j \in 1 .. Len(f) : ~(i < j)
    BY <1>3
  <2> QED BY <1>2, <1>6, <2>2, <2>3 DEF Canon
<1>5. ASSUME NEW x \in Nat, Covers(f, x) PROVE FALSE
  <2>1. Within(Filler, x)
    BY <1>2, <1>3, <1>5 DEF Covers
  <2>2. 0 <= x /\ x < 0 + 0
    BY <1>1, <2>1 DEF Within
  <2> QED BY <2>2
<1> QED BY <1>1, <1>2, <1>4, <1>5 DEF f

(* What is known of two rows of a canonical table.                         *)
LEMMA RowsApart ==
  ASSUME NEW q, Canon(q), NEW i \in 1 .. Len(q), NEW j \in 1 .. Len(q), i < j
  PROVE  q[i].base + q[i].size < q[j].base /\ q[i].size > 0 /\ q[j].size > 0
<1>1. q[i].base + q[i].size < q[j].base
  BY DEF Canon
<1>2. q # <<Filler>>
  <2> SUFFICES ASSUME q = <<Filler>> PROVE FALSE
    OBVIOUS
  <2>1. Len(q) = 1
    BY FillerIs
  <2> QED BY <2>1
<1> QED BY <1>1, <1>2 DEF Canon

(* A row that stays in its gap may take the place of another.              *)
LEMMA CanonReplace ==
  ASSUME NEW q, Canon(q), NEW k \in 1 .. Len(q), NEW r \in Row,
         r.size > 0, r.base + r.size <= Top,
         \A j \in 1 .. Len(q) : j < k => q[j].base + q[j].size < r.base,
         \A j \in 1 .. Len(q) : j > k => r.base + r.size < q[j].base
  PROVE  /\ Canon([q EXCEPT ![k] = r])
         /\ Len([q EXCEPT ![k] = r]) = Len(q)
         /\ [q EXCEPT ![k] = r][k] = r
         /\ \A j \in 1 .. Len(q) : j # k => [q EXCEPT ![k] = r][j] = q[j]
<1> DEFINE t == [q EXCEPT ![k] = r]
<1>1. q \in Seq(Row) /\ Len(q) \in Nat
  BY LenProperties DEF Canon
<1>2. /\ t \in Seq(Row) /\ Len(t) = Len(q) /\ t[k] = r
      /\ \A j \in 1 .. Len(q) : j # k => t[j] = q[j]
  BY <1>1, ReplaceIs
<1> HIDE DEF t
<1>3. ASSUME NEW i \in 1 .. Len(t) PROVE t[i].base + t[i].size <= Top /\ t[i].size > 0
  <2>1. CASE i = k
    BY <1>2, <2>1
  <2>2. CASE i # k
    <3>1. i \in 1 .. Len(q) /\ t[i] = q[i]
      BY <1>2, <2>2
    <3>2. i < k \/ k < i
      BY <1>1, <3>1, <2>2
    <3> QED BY <3>1, <3>2, RowIs, RowsApart
  <2> QED BY <2>1, <2>2
<1>4. ASSUME NEW i \in 1 .. Len(t), NEW j \in 1 .. Len(t), i < j
      PROVE  t[i].base + t[i].size < t[j].base
  <2>0. i \in 1 .. Len(q) /\ j \in 1 .. Len(q)
    BY <1>2
  <2>1. CASE i = k
    <3>1. j # k /\ j > k
      BY <1>1, <2>0, <2>1, <1>4
    <3> QED BY <1>2, <2>0, <2>1, <3>1
  <2>2. CASE j = k
    <3>1. i # k /\ i < k
      BY <1>1, <2>0, <2>2, <1>4
    <3> QED BY <1>2, <2>0, <2>2, <3>1
  <2>3. CASE i # k /\ j # k
    BY <1>2, <2>0, <2>3, <1>4, RowsApart
  <2> QED BY <2>1, <2>2, <2>3
<1>5. Canon(t)
  BY <1>2, <1>3, <1>4 DEF Canon
<1> QED BY <1>2, <1>5 DEF t

(* memblock_remove_region leaves a canonical table of the other rows.      *)
LEMMA CanonRemove ==
  ASSUME NEW q, Canon(q), NEW k \in 1 .. Len(q)
  PROVE  /\ Canon(RemoveRegion(q, k))
         /\ RemoveRegion(q, k) = <<Filler>> \/ Len(RemoveRegion(q, k)) = Len(q) - 1
         /\ Len(RemoveRegion(q, k)) >= 1
         /\ RemoveRegion(q, k) = <<Filler>> => k = 1
         /\ RemoveRegion(q, k) # <<Filler>> =>
              /\ \A i \in 1 .. k - 1 : RemoveRegion(q, k)[i] = q[i]
              /\ \A i \in k .. Len(q) - 1 : RemoveRegion(q, k)[i] = q[i + 1]
         /\ \A x \in Nat : Covers(RemoveRegion(q, k), x)
                             <=> \E j \in 1 .. Len(q) : j # k /\ Within(q[j], x)
<1> DEFINE t == RemoveRegion(q, k)  u == RemoveAt(q, k)  n == Len(q)
<1>1. q \in Seq(Row) /\ n \in Nat /\ k \in Nat /\ k >= 1 /\ k <= n
  BY LenProperties DEF Canon
<1>2. /\ u \in Seq(Row) /\ Len(u) = n - 1
      /\ \A i \in 1 .. k - 1 : u[i] = q[i]
      /\ \A i \in k .. n - 1 : u[i] = q[i + 1]
  BY <1>1, RemoveIs
<1>3. t = IF u = <<>> THEN <<Filler>> ELSE u
  BY DEF RemoveRegion
<1>4. u = <<>> <=> n = 1
  <2>1. u = <<>> <=> Len(u) = 0
    BY <1>2, EmptySeq
  <2> QED BY <1>1, <1>2, <2>1
<1> HIDE DEF t, u, n
<1>5. CASE n = 1
  <2>1. t = <<Filler>>
    BY <1>3, <1>4, <1>5
  <2>2. \A j \in 1 .. n : ~(j # k)
    BY <1>1, <1>5
  <2>3. k = 1
    BY <1>1, <1>5
  <2>4. /\ Canon(t)
        /\ \A x \in Nat : ~Covers(t, x)
    BY <2>1, FillerIs
  <2>5. Len(t) = 1
    BY <2>1, FillerIs
  <2>6. Len(t) >= 1
    BY <2>5
  <2> QED BY <2>1, <2>2, <2>3, <2>4, <2>6 DEF t, n
<1>6. CASE n # 1
  <2>1. t = u
    BY <1>3, <1>4, <1>6
  <2>2. \A i \in 1 .. n : q[i].size > 0
    <3> SUFFICES ASSUME NEW i \in 1 .. n PROVE q[i].size > 0
      OBVIOUS
    <3>1. CASE i = 1
      <4>1. 2 \in 1 .. n /\ i < 2
        BY <1>1, <1>6, <3>1
      <4> QED BY <4>1, RowsApart DEF n
    <3>2. CASE i # 1
      <4>1. 1 \in 1 .. n /\ 1 < i
        BY <1>1, <3>2
      <4> QED BY <4>1, RowsApart DEF n
    <3> QED BY <3>1, <3>2
  <2>3. ASSUME NEW i \in 1 .. n - 1
        PROVE  \/ i \in 1 .. n /\ i < k /\ u[i] = q[i]
               \/ i + 1 \in 1 .. n /\ i >= k /\ u[i] = q[i + 1]
    <3>1. CASE i < k
      <4>1. i \in 1 .. k - 1 /\ i \in 1 .. n
        BY <1>1, <3>1
      <4> QED BY <1>2, <3>1, <4>1
    <3>2. CASE ~(i < k)
      <4>1. i \in k .. n - 1 /\ i + 1 \in 1 .. n /\ i >= k
        BY <1>1, <3>2
      <4> QED BY <1>2, <4>1
    <3> QED BY <3>1, <3>2
  <2>4. ASSUME NEW i \in 1 .. n - 1 PROVE u[i].base + u[i].size <= Top /\ u[i].size > 0
    BY <2>2, <2>3, RowIs DEF n
  <2>5. ASSUME NEW i \in 1 .. n - 1, NEW j \in 1 .. n - 1, i < j
        PROVE  u[i].base + u[i].size < u[j].base
    <3>1. CASE i < k /\ u[i] = q[i] /\ j < k /\ u[j] = q[j] /\ i \in 1 .. n /\ j \in 1 .. n
      BY <2>5, <3>1, RowsApart DEF n
    <3>2. CASE u[i] = q[i] /\ u[j] = q[j + 1] /\ i \in 1 .. n /\ j + 1 \in 1 .. n
      <4>1. i < j + 1
        BY <2>5
      <4> QED BY <4>1, <3>2, RowsApart DEF n
    <3>3. CASE u[i] = q[i + 1] /\ u[j] = q[j + 1] /\ i + 1 \in 1 .. n /\ j + 1 \in 1 .. n
      <4>1. i + 1 < j + 1
        BY <2>5
      <4> QED BY <4>1, <3>3, RowsApart DEF n
    <3>4. CASE i >= k /\ j < k
      BY <1>1, <2>5, <3>4
    <3> QED BY <2>3, <3>1, <3>2, <3>3, <3>4
  <2>6. Canon(u)
    BY <1>2, <2>4, <2>5 DEF Canon
  <2>7. ASSUME NEW x \in Nat
        PROVE  Covers(u, x) <=> \E j \in 1 .. n : j # k /\ Within(q[j], x)
    <3>1. ASSUME Covers(u, x) PROVE \E j \in 1 .. n : j # k /\ Within(q[j], x)
      <4>1. PICK i \in 1 .. n - 1 : Within(u[i], x)
        BY <1>2, <3>1 DEF Covers
      <4>2. CASE i \in 1 .. n /\ i < k /\ u[i] = q[i]
        <5>1. i # k
          BY <1>1, <4>2
        <5> QED BY <4>1, <4>2, <5>1
      <4>3. CASE i + 1 \in 1 .. n /\ i >= k /\ u[i] = q[i + 1]
        <5>1. i + 1 # k
          BY <1>1, <4>3
        <5> QED BY <4>1, <4>3, <5>1
      <4> QED BY <2>3, <4>2, <4>3
    <3>2. ASSUME NEW j \in 1 .. n, j # k, Within(q[j], x) PROVE Covers(u, x)
      <4>1. CASE j < k
        <5>1. j \in 1 .. k - 1 /\ j \in 1 .. n - 1
          BY <1>1, <4>1
        <5> QED BY <1>2, <3>2, <5>1 DEF Covers
      <4>2. CASE ~(j < k)
        <5>1. j - 1 \in k .. n - 1 /\ j - 1 \in 1 .. n - 1 /\ j - 1 + 1 = j
          BY <1>1, <3>2, <4>2
        <5>2. u[j - 1] = q[j]
          BY <1>2, <5>1
        <5> QED BY <1>2, <3>2, <5>1, <5>2 DEF Covers
      <4> QED BY <4>1, <4>2
    <3> QED BY <3>1, <3>2
  <2>8. u # <<Filler>>
    <3> SUFFICES ASSUME u = <<Filler>> PROVE FALSE
      OBVIOUS
    <3>1. Len(u) = 1 /\ u[1].size = 0
      BY FillerIs
    <3>2. 1 \in 1 .. n - 1 /\ u[1].size > 0
      BY <1>1, <1>2, <2>4, <3>1
    <3> QED BY <3>1, <3>2
  <2>9. /\ Canon(t) /\ Len(t) = n - 1 /\ t # <<Filler>>
        /\ \A i \in 1 .. k - 1 : t[i] = q[i]
        /\ \A i \in k .. n - 1 : t[i] = q[i + 1]
        /\ \A x \in Nat : Covers(t, x) <=> \E j \in 1 .. n : j # k /\ Within(q[j], x)
    BY <1>2, <2>1, <2>6, <2>7, <2>8
  <2>10. Len(t) >= 1
    BY <1>1, <1>6, <2>9
  <2> QED BY <2>9, <2>10 DEF t, n
<1> QED BY <1>5, <1>6

(* A row put into the gap it fits in.                                      *)
LEMMA CanonInsert ==
  ASSUME NEW q, Canon(q), q # <<Filler>>, NEW k \in 1 .. Len(q) + 1, NEW r \in Row,
         r.size > 0, r.base + r.size <= Top,
         \A j \in 1 .. Len(q) : j < k => q[j].base + q[j].size < r.base,
         \A j \in 1 .. Len(q) : j >= k => r.base + r.size < q[j].base
  PROVE  /\ Canon(InsertAt(q, k, r))
         /\ Len(InsertAt(q, k, r)) = Len(q) + 1
         /\ \A x \in Nat : Covers(InsertAt(q, k, r), x) <=> Covers(q, x) \/ Within(r, x)
         /\ q # <<>> => RemoveRegion(InsertAt(q, k, r), k) = q
<1> DEFINE t == InsertAt(q, k, r)  n == Len(q)
<1>1. q \in Seq(Row) /\ n \in Nat /\ k \in Nat /\ k >= 1 /\ k <= n + 1
  BY LenProperties DEF Canon
<1>2. /\ t \in Seq(Row) /\ Len(t) = n + 1 /\ t[k] = r
      /\ \A i \in 1 .. k - 1 : t[i] = q[i]
      /\ \A i \in k + 1 .. n + 1 : t[i] = q[i - 1]
  BY <1>1, InsertIs
<1>0. RemoveRegion(t, k) = IF RemoveAt(t, k) = <<>> THEN <<Filler>> ELSE RemoveAt(t, k)
  BY DEF RemoveRegion
<1> HIDE DEF t, n
<1>3. ASSUME NEW i \in 1 .. n + 1
      PROVE  \/ i = k /\ t[i] = r
             \/ i \in 1 .. n /\ i < k /\ t[i] = q[i]
             \/ i - 1 \in 1 .. n /\ i > k /\ t[i] = q[i - 1]
  <2>1. CASE i < k
    <3>1. i \in 1 .. k - 1 /\ i \in 1 .. n
      BY <1>1, <2>1
    <3> QED BY <1>2, <2>1, <3>1
  <2>2. CASE i > k
    <3>1. i \in k + 1 .. n + 1 /\ i - 1 \in 1 .. n
      BY <1>1, <2>2
    <3> QED BY <1>2, <2>2, <3>1
  <2>3. CASE i = k
    BY <1>2, <2>3
  <2> QED BY <1>1, <2>1, <2>2, <2>3
<1>4. \A i \in 1 .. n : q[i].size > 0 /\ q[i].base + q[i].size <= Top
  BY DEF Canon, n
<1>5. ASSUME NEW i \in 1 .. n + 1 PROVE t[i].base + t[i].size <= Top /\ t[i].size > 0
  BY <1>3, <1>4
<1>6. ASSUME NEW i \in 1 .. n + 1, NEW j \in 1 .. n + 1, i < j
      PROVE  t[i].base + t[i].size < t[j].base
  <2>1. CASE i = k /\ t[i] = r
    <3>1. j - 1 \in 1 .. n /\ t[j] = q[j - 1] /\ j - 1 >= k
      BY <1>1, <1>3, <1>6, <2>1
    <3> QED BY <2>1, <3>1 DEF n
  <2>2. CASE i \in 1 .. n /\ i < k /\ t[i] = q[i]
    <3>1. CASE j = k /\ t[j] = r
      BY <2>2, <3>1 DEF n
    <3>2. CASE j \in 1 .. n /\ t[j] = q[j]
      BY <1>6, <2>2, <3>2, RowsApart DEF n
    <3>3. CASE j - 1 \in 1 .. n /\ j > k /\ t[j] = q[j - 1]
      <4>1. i < j - 1
        BY <1>1, <2>2, <3>3
      <4> QED BY <2>2, <3>3, <4>1, RowsApart DEF n
    <3> QED BY <1>3, <3>1, <3>2, <3>3
  <2>3. CASE i - 1 \in 1 .. n /\ i > k /\ t[i] = q[i - 1]
    <3>1. j - 1 \in 1 .. n /\ t[j] = q[j - 1]
      BY <1>1, <1>3, <1>6, <2>3
    <3>2. i - 1 < j - 1
      BY <1>6
    <3> QED BY <2>3, <3>1, <3>2, RowsApart DEF n
  <2> QED BY <1>3, <2>1, <2>2, <2>3
<1>7. Canon(t)
  BY <1>2, <1>5, <1>6 DEF Canon
<1>8. ASSUME NEW x \in Nat PROVE Covers(t, x) <=> Covers(q, x) \/ Within(r, x)
  <2>1. ASSUME Covers(t, x) PROVE Covers(q, x) \/ Within(r, x)
    <3>1. PICK i \in 1 .. n + 1 : Within(t[i], x)
      BY <1>2, <2>1 DEF Covers
    <3> QED BY <1>3, <3>1 DEF Covers, n
  <2>2. ASSUME Within(r, x) PROVE Covers(t, x)
    <3>1. k \in 1 .. n + 1
      BY <1>1
    <3> QED BY <1>2, <2>2, <3>1 DEF Covers
  <2>3. ASSUME Covers(q, x) PROVE Covers(t, x)
    <3>1. PICK i \in 1 .. n : Within(q[i], x)
      BY <2>3 DEF Covers, n
    <3>2. CASE i < k
      <4>1. i \in 1 .. k - 1 /\ i \in 1 .. n + 1
        BY <1>1, <3>2
      <4> QED BY <1>2, <3>1, <4>1 DEF Covers
    <3>3. CASE ~(i < k)
      <4>1. i + 1 \in k + 1 .. n + 1 /\ i + 1 \in 1 .. n + 1 /\ i + 1 - 1 = i
        BY <1>1, <3>3
      <4>2. t[i + 1] = q[i]
        BY <1>2, <4>1
      <4> QED BY <1>2, <3>1, <4>1, <4>2 DEF Covers
    <3> QED BY <3>2, <3>3
  <2> QED BY <2>1, <2>2, <2>3
<1>9. ASSUME q # <<>> PROVE RemoveRegion(t, k) = q
  <2> DEFINE u == RemoveAt(t, k)
  <2>1. k \in 1 .. Len(t) /\ Len(t) - 1 = n
    BY <1>1, <1>2
  <2>2. /\ u \in Seq(Row) /\ Len(u) = Len(t) - 1
        /\ \A i \in 1 .. k - 1 : u[i] = t[i]
        /\ \A i \in k .. Len(t) - 1 : u[i] = t[i + 1]
    BY <1>2, <2>1, RemoveIs
  <2> HIDE DEF u
  <2>3. ASSUME NEW i \in 1 .. n PROVE u[i] = q[i]
    <3>1. CASE i < k
      <4>1. i \in 1 .. k - 1
        BY <1>1, <3>1
      <4> QED BY <1>2, <2>2, <4>1
    <3>2. CASE ~(i < k)
      <4>1. i \in k .. n /\ i + 1 \in k + 1 .. n + 1 /\ i + 1 - 1 = i
        BY <1>1, <3>2
      <4> QED BY <1>2, <2>1, <2>2, <4>1
    <3> QED BY <3>1, <3>2
  <2>4. Len(u) = Len(q) /\ \A i \in 1 .. Len(u) : u[i] = q[i]
    BY <2>1, <2>2, <2>3 DEF n
  <2>5. u = q
    BY <1>1, <2>2, <2>4, SeqEqual
  <2> QED BY <1>0, <1>9, <2>5 DEF u
<1> QED BY <1>2, <1>7, <1>8, <1>9 DEF t, n

(* The first loop of memblock_add_region after k turns.                    *)
MergeStopped(s, e) ==
  \/ s.over
  \/ s.i > Len(s.regions)
  \/ s.regions[s.i].base > e
  \/ s.regions[s.i].size = 0

MergedSame(s, q, b, e) ==
  \A x \in Nat : (Covers(s.regions, x) \/ (~s.over /\ s.base <= x /\ x < e))
                    <=> (Covers(q, x) \/ (b <= x /\ x < e))

MergedLess(s, q, b) ==
  \/ s.over
  \/ s.regions = <<Filler>>
  \/ Len(s.regions) < Len(q)
  \/ s.regions = q /\ s.base = b

BelowNew(s) ==
  \A j \in 1 .. Len(s.regions) :
    j < s.i => s.regions[j].base + s.regions[j].size < s.base

Merging(q, b, e, k) ==
  {s \in Merge :
     /\ Canon(s.regions) /\ Len(s.regions) <= Len(q)
     /\ Len(q) >= 1 => Len(s.regions) >= 1
     /\ s.i >= 1 /\ s.base < e
     /\ s.over \/ BelowNew(s)
     /\ MergedSame(s, q, b, e)
     /\ MergedLess(s, q, b)
     /\ MergeStopped(s, e) \/ Len(s.regions) - s.i = Len(q) - 1 - k}

(* A turn that merges a region of the table into the new one.              *)
MergedAway(q, i, b, e, c, t) ==
  /\ \A j \in 1 .. Len(t) : j < i => t[j].base + t[j].size < c
  /\ \A x \in Nat : (Covers(t, x) \/ (c <= x /\ x < e)) <=> (Covers(q, x) \/ (b <= x /\ x < e))

(* Merging one region away keeps what is covered and the order below it.   *)
LEMMA MergeOne ==
  ASSUME NEW q, Canon(q), NEW i \in 1 .. Len(q), NEW b \in Nat, NEW e \in Nat, b < e,
         q[i].size > 0, q[i].base <= e, b <= q[i].base + q[i].size, q[i].base + q[i].size < e,
         \A j \in 1 .. Len(q) : j < i => q[j].base + q[j].size < b,
         NEW c \in Nat, c <= b, c <= q[i].base, c = b \/ c = q[i].base,
         NEW t, t = RemoveRegion(q, i)
  PROVE  MergedAway(q, i, b, e, c, t)
<1>1. i \in Nat /\ i >= 1 /\ Len(q) \in Nat /\ i <= Len(q)
  BY RowIs
<1>2. /\ Canon(t)
      /\ t = <<Filler>> \/ Len(t) = Len(q) - 1
      /\ t = <<Filler>> => i = 1
      /\ t # <<Filler>> => \A j \in 1 .. i - 1 : t[j] = q[j]
      /\ \A x \in Nat : Covers(t, x) <=> \E j \in 1 .. Len(q) : j # i /\ Within(q[j], x)
  BY CanonRemove
<1>3. ASSUME NEW j \in 1 .. Len(t), j < i PROVE t[j].base + t[j].size < c
  <2>1. t # <<Filler>>
    BY <1>1, <1>2, <1>3
  <2>2. j \in 1 .. i - 1 /\ j \in 1 .. Len(q)
    BY <1>1, <1>3
  <2>3. t[j] = q[j]
    BY <1>2, <2>1, <2>2
  <2>4. q[j].base + q[j].size < b
    BY <1>3, <2>2
  <2>5. q[j].base + q[j].size < q[i].base
    BY <1>3, <2>2, RowsApart
  <2> QED BY <2>3, <2>4, <2>5
<1>4. q[i].base \in Nat /\ q[i].size \in Nat
  BY RowIs
<1>5. ASSUME NEW x \in Nat
      PROVE  (Covers(t, x) \/ (c <= x /\ x < e)) <=> (Covers(q, x) \/ (b <= x /\ x < e))
  <2>1. ASSUME Covers(t, x) PROVE Covers(q, x)
    BY <1>2, <2>1 DEF Covers
  <2>2. ASSUME c <= x, x < e PROVE Covers(q, x) \/ (b <= x /\ x < e)
    <3>1. CASE b <= x
      BY <2>2, <3>1
    <3>2. CASE ~(b <= x)
      <4>1. q[i].base <= x /\ x < q[i].base + q[i].size
        BY <1>4, <2>2, <3>2
      <4> QED BY <4>1 DEF Covers, Within
    <3> QED BY <3>1, <3>2
  <2>3. ASSUME Covers(q, x) PROVE Covers(t, x) \/ (c <= x /\ x < e)
    <3>1. PICK j \in 1 .. Len(q) : Within(q[j], x)
      BY <2>3 DEF Covers
    <3>2. CASE j # i
      BY <1>2, <3>1, <3>2
    <3>3. CASE j = i
      <4>1. q[i].base <= x /\ x < q[i].base + q[i].size
        BY <3>1, <3>3 DEF Within
      <4>2. c <= x /\ x < e
        BY <1>4, <4>1
      <4> QED BY <4>2
    <3> QED BY <3>2, <3>3
  <2>4. ASSUME b <= x, x < e PROVE c <= x /\ x < e
    BY <2>4
  <2> QED BY <2>1, <2>2, <2>3, <2>4
<1> QED BY <1>3, <1>5 DEF MergedAway

(* The table with region i extended down to p.                             *)
Lowered(Q, i, p) == IF p < Q[i].base THEN [Q EXCEPT ![i] = Region(p, End(Q[i]) - p)] ELSE Q

(* The region at hand extended down to where the new one begins.           *)
LEMMA MergeGrow ==
  ASSUME NEW Q, Canon(Q), NEW i \in 1 .. Len(Q), NEW p \in Nat, NEW e \in Nat, p < e,
         Q[i].size > 0, Q[i].base <= e,
         \A j \in 1 .. Len(Q) : j < i => Q[j].base + Q[j].size < p
  PROVE  /\ Canon(Lowered(Q, i, p)) /\ Len(Lowered(Q, i, p)) = Len(Q)
         /\ \A j \in 1 .. Len(Q) : j # i => Lowered(Q, i, p)[j] = Q[j]
         /\ Lowered(Q, i, p)[i].base + Lowered(Q, i, p)[i].size = End(Q[i])
         /\ Lowered(Q, i, p)[i].size > 0
         /\ Lowered(Q, i, p)[i].base = IF p < Q[i].base THEN p ELSE Q[i].base
         /\ \A x \in Nat : (Covers(Lowered(Q, i, p), x) \/ (p <= x /\ x < e))
                              <=> (Covers(Q, x) \/ (p <= x /\ x < e))
<1> DEFINE g == Lowered(Q, i, p)
<1>0. /\ p < Q[i].base => g = [Q EXCEPT ![i] = Region(p, End(Q[i]) - p)]
      /\ ~(p < Q[i].base) => g = Q
  BY DEF Lowered
<1> HIDE DEF g
<1>1. /\ i \in Nat /\ Len(Q) \in Nat /\ Q[i].base \in Nat /\ Q[i].size \in Nat
      /\ End(Q[i]) = Q[i].base + Q[i].size /\ Q[i].base + Q[i].size <= Top
  BY RowIs
<1>2. CASE ~(p < Q[i].base)
  <2>1. g = Q
    BY <1>0, <1>2
  <2> QED BY <1>1, <1>2, <2>1 DEF g
<1>3. CASE p < Q[i].base
  <2> DEFINE new == Region(p, End(Q[i]) - p)
  <2>1. End(Q[i]) - p \in Nat /\ End(Q[i]) - p > 0 /\ p + (End(Q[i]) - p) = End(Q[i])
    BY <1>1, <1>3
  <2>2. new.base = p /\ new.size = End(Q[i]) - p /\ new \in Row
    BY <2>1 DEF Region, Row
  <2>3. g = [Q EXCEPT ![i] = new]
    BY <1>0, <1>3
  <2> HIDE DEF new
  <2>4. new.size > 0 /\ new.base + new.size = End(Q[i]) /\ new.base + new.size <= Top
    BY <1>1, <2>1, <2>2
  <2>5. \A j \in 1 .. Len(Q) : j < i => Q[j].base + Q[j].size < new.base
    BY <2>2
  <2>6. \A j \in 1 .. Len(Q) : j > i => new.base + new.size < Q[j].base
    BY <1>1, <2>4, RowsApart
  <2>7. /\ Canon(g) /\ Len(g) = Len(Q) /\ g[i] = new
        /\ \A j \in 1 .. Len(Q) : j # i => g[j] = Q[j]
    <3>1. PICK r : r = new
      OBVIOUS
    <3>2. /\ r \in Row /\ r.size > 0 /\ r.base + r.size <= Top
          /\ \A j \in 1 .. Len(Q) : j < i => Q[j].base + Q[j].size < r.base
          /\ \A j \in 1 .. Len(Q) : j > i => r.base + r.size < Q[j].base
      BY <2>2, <2>4, <2>5, <2>6, <3>1
    <3>3. /\ Canon([Q EXCEPT ![i] = r])
          /\ Len([Q EXCEPT ![i] = r]) = Len(Q)
          /\ [Q EXCEPT ![i] = r][i] = r
          /\ \A j \in 1 .. Len(Q) : j # i => [Q EXCEPT ![i] = r][j] = Q[j]
      BY <3>2, CanonReplace
    <3> QED BY <2>3, <3>1, <3>3
  <2>8. ASSUME NEW x \in Nat
        PROVE  (Covers(g, x) \/ (p <= x /\ x < e)) <=> (Covers(Q, x) \/ (p <= x /\ x < e))
    <3>1. ASSUME NEW j \in 1 .. Len(Q), Within(g[j], x)
          PROVE  Covers(Q, x) \/ (p <= x /\ x < e)
      <4>1. CASE j # i
        BY <2>7, <3>1, <4>1 DEF Covers
      <4>2. CASE j = i
        <5>1. p <= x /\ x < Q[i].base + Q[i].size
          BY <1>1, <2>1, <2>2, <2>7, <3>1, <4>2 DEF Within
        <5>2. CASE x < e
          BY <5>1, <5>2
        <5>3. CASE ~(x < e)
          <6>1. Q[i].base <= x
            BY <1>1, <5>3
          <6> QED BY <5>1, <6>1 DEF Covers, Within
        <5> QED BY <5>2, <5>3
      <4> QED BY <4>1, <4>2
    <3>2. ASSUME NEW j \in 1 .. Len(Q), Within(Q[j], x)
          PROVE  Covers(g, x)
      <4>1. CASE j # i
        BY <2>7, <3>2, <4>1 DEF Covers
      <4>2. CASE j = i
        <5>1. Q[i].base <= x /\ x < End(Q[i])
          BY <1>1, <3>2, <4>2 DEF Within
        <5>2. new.base <= x /\ x < new.base + new.size
          BY <1>1, <1>3, <2>2, <2>4, <5>1
        <5> QED BY <2>7, <5>2 DEF Covers, Within
      <4> QED BY <4>1, <4>2
    <3> QED BY <2>7, <3>1, <3>2 DEF Covers
  <2>9. /\ g[i].base = p /\ g[i].size > 0 /\ g[i].base + g[i].size = End(Q[i])
    BY <2>2, <2>4, <2>7
  <2>10. p = IF p < Q[i].base THEN p ELSE Q[i].base
    BY <1>3
  <2>11. Canon(g) /\ Len(g) = Len(Q) /\ \A j \in 1 .. Len(Q) : j # i => g[j] = Q[j]
    BY <2>7
  <2> QED BY ONLY <2>8, <2>9, <2>10, <2>11 DEF g
<1> QED BY <1>2, <1>3

(* A turn of the loop.                                                     *)
LEMMA CoalesceTurn ==
  ASSUME NEW q, Canon(q), NEW b \in Nat, NEW e \in Nat, b < e, e <= Top,
         NEW k \in Nat, NEW s \in Merging(q, b, e, k)
  PROVE  Coalesce(e)[s] \in Merging(q, b, e, k + 1)
<1>1. /\ s \in Merge /\ Canon(s.regions) /\ Len(s.regions) <= Len(q)
      /\ Len(q) >= 1 => Len(s.regions) >= 1
      /\ s.i >= 1 /\ s.base < e /\ (s.over \/ BelowNew(s))
      /\ MergedSame(s, q, b, e) /\ MergedLess(s, q, b)
      /\ MergeStopped(s, e) \/ Len(s.regions) - s.i = Len(q) - 1 - k
  BY DEF Merging
<1>2. PICK Q, i, p : Q = s.regions /\ i = s.i /\ p = s.base
  OBVIOUS
<1>3. i \in Nat /\ p \in Nat /\ s.over \in BOOLEAN /\ Q \in Regions
  BY <1>1, <1>2 DEF Merge
<1>4. Len(Q) \in Nat /\ Len(q) \in Nat
  BY <1>1, <1>2, LenProperties DEF Canon
<1> DEFINE r == Q[i]
           rend == End(r)
           below == p < r.base /\ e >= r.base
           g == IF below THEN [Q EXCEPT ![i] = Region(p, rend - p)] ELSE Q
           from == IF below THEN rend ELSE p
           t == Coalesce(e)[s]
<1>5. t = IF MergeStopped(s, e) THEN s
          ELSE IF (r.base <= p \/ below) /\ rend >= e
            THEN [s EXCEPT !.regions = g, !.over = TRUE]
          ELSE IF from <= rend /\ e >= rend
            THEN [s EXCEPT !.regions = RemoveRegion(g, i), !.base = g[i].base]
          ELSE [s EXCEPT !.i = @ + 1, !.regions = g, !.base = from]
  BY <1>1, <1>2 DEF Coalesce, MergeStopped
<1> HIDE DEF t
<1>6. CASE MergeStopped(s, e)
  <2>1. t = s
    BY <1>5, <1>6
  <2> QED BY <1>1, <1>6, <2>1 DEF Merging, t
<1>7. CASE ~MergeStopped(s, e)
  <2>1. /\ ~s.over /\ i \in 1 .. Len(Q) /\ ~(r.base > e) /\ r.size # 0
    <3>1. ~s.over /\ ~(i > Len(Q)) /\ ~(r.base > e) /\ r.size # 0
      BY <1>2, <1>7 DEF MergeStopped
    <3>2. i >= 1
      BY <1>1, <1>2
    <3> QED BY <1>3, <1>4, <3>1, <3>2
  <2>2. /\ r.base \in Nat /\ r.size \in Nat /\ r.size > 0 /\ r.base <= e
        /\ rend = r.base + r.size /\ rend <= Top
    <3>1. Canon(Q)
      BY <1>1, <1>2
    <3>2. /\ r.base \in Nat /\ r.size \in Nat /\ r.base + r.size <= Top
          /\ End(r) = r.base + r.size
      BY <2>1, <3>1, RowIs
    <3> QED BY <2>1, <3>2
  <2>3. /\ Len(Q) - i = Len(q) - 1 - k
        /\ \A j \in 1 .. Len(Q) : j < i => Q[j].base + Q[j].size < p
    BY <1>1, <1>2, <1>7, <2>1 DEF BelowNew
  <2>4. /\ Canon(Q) /\ Len(Q) <= Len(q) /\ p < e /\ i >= 1
        /\ Len(q) >= 1 => Len(Q) >= 1
    BY <1>1, <1>2
  <2>5. /\ Canon(g) /\ Len(g) = Len(Q)
        /\ \A j \in 1 .. Len(Q) : j # i => g[j] = Q[j]
        /\ g[i].base + g[i].size = rend /\ g[i].size > 0
        /\ g[i].base = IF p < r.base THEN p ELSE r.base
        /\ \A x \in Nat : (Covers(g, x) \/ (p <= x /\ x < e)) <=> (Covers(Q, x) \/ (p <= x /\ x < e))
    <3>1. g = Lowered(Q, i, p)
      BY <1>3, <2>2 DEF Lowered
    <3>2. /\ Canon(Q) /\ i \in 1 .. Len(Q) /\ p \in Nat /\ e \in Nat /\ p < e
          /\ Q[i].size > 0 /\ Q[i].base <= e
          /\ \A j \in 1 .. Len(Q) : j < i => Q[j].base + Q[j].size < p
      BY <1>3, <2>1, <2>2, <2>3, <2>4
    <3> HIDE DEF r, rend, below, g, from
    <3>3. /\ Canon(Lowered(Q, i, p)) /\ Len(Lowered(Q, i, p)) = Len(Q)
          /\ \A j \in 1 .. Len(Q) : j # i => Lowered(Q, i, p)[j] = Q[j]
          /\ Lowered(Q, i, p)[i].base + Lowered(Q, i, p)[i].size = End(Q[i])
          /\ Lowered(Q, i, p)[i].size > 0
          /\ Lowered(Q, i, p)[i].base = IF p < Q[i].base THEN p ELSE Q[i].base
          /\ \A x \in Nat : (Covers(Lowered(Q, i, p), x) \/ (p <= x /\ x < e))
                               <=> (Covers(Q, x) \/ (p <= x /\ x < e))
      BY ONLY <3>2, MergeGrow
    <3> QED BY <3>1, <3>3 DEF r, rend
  <2>6. /\ below <=> p < r.base
        /\ below => from = rend
        /\ ~below => g = Q /\ from = p
    BY <1>3, <2>2
  <2> HIDE DEF g, from, below, r, rend
  <2>7. g \in Regions
    BY <2>5, RegionsRow DEF Canon
  <2>8. \A x \in Nat : (Covers(Q, x) \/ (p <= x /\ x < e)) <=> (Covers(q, x) \/ (b <= x /\ x < e))
    BY <1>1, <1>2, <2>1 DEF MergedSame
  <2>9. CASE (r.base <= p \/ below) /\ rend >= e
    <3>1. t = [s EXCEPT !.regions = g, !.over = TRUE]
      BY <1>5, <1>7, <2>9
    <3>2. t \in Merge /\ t.i = i /\ t.regions = g /\ t.base = p /\ t.over = TRUE
      BY <1>1, <1>2, <2>7, <3>1 DEF Merge
    <3>3. ASSUME NEW x \in Nat, p <= x, x < e PROVE Covers(g, x)
      <4>1. g[i].base <= x /\ x < g[i].base + g[i].size
        BY <1>3, <2>2, <2>5, <2>6, <2>9, <3>3
      <4> QED BY <2>1, <2>5, <4>1 DEF Covers, Within
    <3>4. MergedSame(t, q, b, e)
      <4> SUFFICES ASSUME NEW x \in Nat
                   PROVE  (Covers(t.regions, x) \/ (~t.over /\ t.base <= x /\ x < e))
                              <=> (Covers(q, x) \/ (b <= x /\ x < e))
        BY DEF MergedSame
      <4>1. Covers(g, x) <=> (Covers(Q, x) \/ (p <= x /\ x < e))
        BY <2>5, <3>3
      <4> QED BY <2>8, <3>2, <4>1
    <3>5. MergedLess(t, q, b) /\ MergeStopped(t, e)
      BY <3>2 DEF MergedLess, MergeStopped
    <3> QED BY <2>4, <2>5, <3>2, <3>4, <3>5 DEF Merging, t
  <2>10. CASE ~((r.base <= p \/ below) /\ rend >= e)
    <3>1. rend < e
      BY <1>3, <2>2, <2>6, <2>10
    <3>2. CASE from <= rend /\ e >= rend
      <4>1. t = [s EXCEPT !.regions = RemoveRegion(g, i), !.base = g[i].base]
        BY <1>5, <1>7, <2>10, <3>2
      <4>2. PICK u, c : u = RemoveRegion(g, i) /\ c = g[i].base
        OBVIOUS
      <4>3. i \in 1 .. Len(g)
        BY <2>1, <2>5
      <4>4. /\ Canon(u) /\ (u = <<Filler>> \/ Len(u) = Len(g) - 1)
            /\ u = <<Filler>> => i = 1
            /\ Len(u) >= 1
        BY <2>5, <4>2, <4>3, CanonRemove
      <4>5. c \in Nat /\ c <= p /\ c = g[i].base /\ c <= g[i].base
        BY <1>3, <2>2, <2>5, <4>2
      <4>6. u \in Regions
        BY <4>4, RegionsRow DEF Canon
      <4>7. t \in Merge /\ t.i = i /\ t.regions = u /\ t.base = c /\ t.over = s.over
        <5>1. t = [s EXCEPT !.regions = u, !.base = c]
          BY <4>1, <4>2
        <5> QED BY <1>1, <1>2, <4>5, <4>6, <5>1 DEF Merge
      <4>8. p <= rend
        BY <1>3, <2>2, <2>6, <3>2
      <4>9. \A j \in 1 .. Len(g) : j < i => g[j].base + g[j].size < p
        BY <1>3, <2>3, <2>5
      <4>10. /\ g[i].size > 0 /\ g[i].base <= e /\ p <= g[i].base + g[i].size
             /\ g[i].base + g[i].size < e
        BY <1>3, <2>2, <2>4, <2>5, <3>1, <4>8
      <4>11. /\ \A j \in 1 .. Len(u) : j < i => u[j].base + u[j].size < c
             /\ \A x \in Nat : (Covers(u, x) \/ (c <= x /\ x < e)) <=> (Covers(g, x) \/ (p <= x /\ x < e))
        <5>1. PICK G : G = g
          OBVIOUS
        <5>2. /\ Canon(G) /\ i \in 1 .. Len(G) /\ G[i].size > 0 /\ G[i].base <= e
              /\ p <= G[i].base + G[i].size /\ G[i].base + G[i].size < e
              /\ \A j \in 1 .. Len(G) : j < i => G[j].base + G[j].size < p
              /\ c \in Nat /\ c <= p /\ c <= G[i].base /\ (c = p \/ c = G[i].base)
              /\ u = RemoveRegion(G, i) /\ p \in Nat /\ p < e
          BY <1>3, <2>4, <2>5, <4>2, <4>3, <4>5, <4>9, <4>10, <5>1
        <5>3. MergedAway(G, i, p, e, c, u)
          BY ONLY <5>2, MergeOne, e \in Nat
        <5> QED BY <5>1, <5>3 DEF MergedAway
      <4>12. BelowNew(t)
        BY <4>7, <4>11 DEF BelowNew
      <4>13. MergedSame(t, q, b, e)
        <5> SUFFICES ASSUME NEW x \in Nat
                     PROVE  (Covers(t.regions, x) \/ (~t.over /\ t.base <= x /\ x < e))
                                <=> (Covers(q, x) \/ (b <= x /\ x < e))
          BY DEF MergedSame
        <5> QED BY <2>1, <2>5, <2>8, <4>7, <4>11
      <4>14. Len(u) \in Nat /\ Len(u) <= Len(q) /\ MergedLess(t, q, b)
             /\ (MergeStopped(t, e) \/ Len(u) - i = Len(q) - 1 - (k + 1))
        <5>1. CASE u = <<Filler>>
          <6>1. Len(u) = 1 /\ u[1].size = 0 /\ i = 1
            BY <4>4, <5>1, FillerIs
          <6>2. MergedLess(t, q, b) /\ MergeStopped(t, e)
            BY <4>7, <5>1, <6>1 DEF MergedLess, MergeStopped
          <6> QED BY <1>4, <2>1, <2>4, <6>1, <6>2
        <5>2. CASE Len(u) = Len(g) - 1
          <6>1. Len(u) \in Nat /\ Len(u) < Len(q) /\ Len(u) - i = Len(q) - 1 - (k + 1)
            BY <1>3, <1>4, <2>1, <2>3, <2>4, <2>5, <5>2
          <6> QED BY <4>7, <6>1 DEF MergedLess
        <5> QED BY <4>4, <5>1, <5>2
      <4>15. c < e
        BY <1>3, <2>4, <4>5
      <4>16. t.i >= 1 /\ t.base < e /\ Canon(t.regions) /\ Len(t.regions) <= Len(q)
             /\ Len(t.regions) >= 1
             /\ (MergeStopped(t, e) \/ Len(t.regions) - t.i = Len(q) - 1 - (k + 1))
        BY <2>4, <4>4, <4>7, <4>14, <4>15
      <4> QED BY <4>7, <4>12, <4>13, <4>14, <4>16 DEF Merging, t
    <3>3. CASE ~(from <= rend /\ e >= rend)
      <4>1. t = [s EXCEPT !.i = @ + 1, !.regions = g, !.base = from]
        BY <1>5, <1>7, <2>10, <3>3
      <4>2. ~below /\ rend < p
        BY <1>3, <2>2, <2>6, <3>1, <3>3
      <4>3. t \in Merge /\ t.i = i + 1 /\ t.regions = Q /\ t.base = p /\ t.over = s.over
        <5>1. t = [s EXCEPT !.i = i + 1, !.regions = Q, !.base = p]
          BY <1>2, <2>6, <4>1, <4>2
        <5>2. i + 1 \in Nat
          BY <1>3
        <5> QED BY <1>1, <1>2, <1>3, <5>1, <5>2 DEF Merge
      <4>4. BelowNew(t)
        <5> SUFFICES ASSUME NEW j \in 1 .. Len(Q), j < i + 1
                     PROVE  Q[j].base + Q[j].size < p
          BY <4>3 DEF BelowNew
        <5>1. CASE j = i
          BY <2>2, <4>2, <5>1 DEF r, rend
        <5>2. CASE j # i
          <6>1. j < i
            BY <1>3, <5>2
          <6> QED BY <2>3, <6>1
        <5> QED BY <5>1, <5>2
      <4>5. MergedSame(t, q, b, e) /\ MergedLess(t, q, b)
        BY <1>1, <1>2, <4>3 DEF MergedSame, MergedLess
      <4>6. Len(t.regions) - t.i = Len(q) - 1 - (k + 1) /\ t.i >= 1 /\ t.base < e
            /\ Canon(t.regions) /\ Len(t.regions) <= Len(q)
        BY <1>3, <1>4, <2>3, <2>4, <4>3
      <4> QED BY <2>4, <4>3, <4>4, <4>5, <4>6 DEF Merging, t
    <3> QED BY <3>2, <3>3
  <2> QED BY <2>9, <2>10
<1> QED BY <1>6, <1>7 DEF t

(* Every row of the table is apart from the range b .. e - 1.              *)
Apart(q, b, e) ==
  \A j \in 1 .. Len(q) : q[j].base + q[j].size < b \/ e < q[j].base

(* The loop as a whole.                                                    *)
LEMMA CoalescedIs ==
  ASSUME NEW q, Canon(q), NEW b \in Nat, NEW e \in Nat, b < e, e <= Top
  PROVE  /\ Coalesced(q, b, e) \in Merge
         /\ Canon(Coalesced(q, b, e).regions)
         /\ Len(Coalesced(q, b, e).regions) <= Len(q)
         /\ Len(q) >= 1 => Len(Coalesced(q, b, e).regions) >= 1
         /\ Coalesced(q, b, e).base < e
         /\ MergedSame(Coalesced(q, b, e), q, b, e)
         /\ MergedLess(Coalesced(q, b, e), q, b)
         /\ \/ Coalesced(q, b, e).over
            \/ Coalesced(q, b, e).regions = <<Filler>>
            \/ Apart(Coalesced(q, b, e).regions, Coalesced(q, b, e).base, e)
<1> DEFINE n == Len(q)
           s0 == [i |-> 1, regions |-> q, base |-> b, over |-> FALSE]
           G == [k \in 0 .. n |-> Merging(q, b, e, k)]
           s == Coalesced(q, b, e)
<1>1. n \in Nat /\ q \in Regions
  BY LenProperties, RegionsRow DEF Canon
<1>2. s0 \in Merging(q, b, e, 0)
  <2>1. s0 \in Merge /\ s0.i = 1 /\ s0.regions = q /\ s0.base = b /\ s0.over = FALSE
    BY <1>1 DEF Merge
  <2> HIDE DEF s0
  <2>2. BelowNew(s0)
    <3>1. \A j \in 1 .. Len(q) : ~(j < 1)
      OBVIOUS
    <3> QED BY <2>1, <3>1 DEF BelowNew
  <2>3. MergedSame(s0, q, b, e) /\ MergedLess(s0, q, b)
    BY <2>1 DEF MergedSame, MergedLess
  <2>4. Len(q) - 1 = Len(q) - 1 - 0
    BY <1>1
  <2> QED BY <1>1, <2>1, <2>2, <2>3, <2>4 DEF Merging
<1>3. ASSUME NEW k \in 0 .. n - 1, NEW x \in G[k] PROVE Coalesce(e)[x] \in G[k + 1]
  <2>1. k \in Nat /\ k \in 0 .. n /\ k + 1 \in 0 .. n
    BY <1>1
  <2>2. x \in Merging(q, b, e, k)
    BY <2>1
  <2>3. Coalesce(e)[x] \in Merging(q, b, e, k + 1)
    BY <2>1, <2>2, CoalesceTurn
  <2> QED BY <2>1, <2>3
<1>4. s0 \in G[0] /\ n \in 0 .. n /\ G[n] = Merging(q, b, e, n)
  BY <1>1, <1>2
<1>5. s = Iterate(Coalesce(e), s0, n)
  BY DEF Coalesced
<1> HIDE DEF G, s0, n, s
<1>6. Iterate(Coalesce(e), s0, n) \in G[n]
  BY <1>1, <1>3, <1>4, IterateKeeps
<1>7. s \in Merging(q, b, e, n)
  BY <1>4, <1>5, <1>6
<1>8. /\ s \in Merge /\ Canon(s.regions) /\ Len(s.regions) <= n
      /\ n >= 1 => Len(s.regions) >= 1
      /\ s.i >= 1 /\ s.base < e /\ (s.over \/ BelowNew(s))
      /\ MergedSame(s, q, b, e) /\ MergedLess(s, q, b)
      /\ MergeStopped(s, e) \/ Len(s.regions) - s.i = n - 1 - n
  BY <1>7 DEF Merging, n
<1>9. PICK Q, i, p : Q = s.regions /\ i = s.i /\ p = s.base
  OBVIOUS
<1>10. i \in Nat /\ i >= 1 /\ p \in Nat /\ Canon(Q) /\ Len(Q) \in Nat
  BY <1>8, <1>9, LenProperties DEF Merge, Canon
<1>11. MergeStopped(s, e)
  <2>1. ASSUME Len(Q) - i = n - 1 - n PROVE i > Len(Q)
    BY <1>1, <1>10, <2>1
  <2> QED BY <1>8, <1>9, <2>1 DEF MergeStopped
<1>12. ASSUME ~s.over, Q # <<Filler>> PROVE Apart(Q, p, e)
  <2>1. \A j \in 1 .. Len(Q) : j < i => Q[j].base + Q[j].size < p
    BY <1>8, <1>9, <1>12 DEF BelowNew
  <2>2. ASSUME NEW j \in 1 .. Len(Q), j >= i PROVE e < Q[j].base
    <3>1. i \in 1 .. Len(Q)
      BY <1>10, <2>2
    <3>2. Q[i].base > e \/ Q[i].size = 0
      BY <1>9, <1>10, <1>11, <1>12, <3>1 DEF MergeStopped
    <3>3. Q[i].size # 0
      <4>1. Q[i].size > 0 \/ Q = <<Filler>>
        BY <1>10, <3>1 DEF Canon
      <4> QED BY <1>10, <1>12, <3>1, <4>1, RowIs
    <3>4. Q[i].base > e /\ Q[i].base \in Nat /\ Q[i].size \in Nat /\ Q[j].base \in Nat
      BY <1>10, <3>1, <3>2, <3>3, RowIs
    <3>5. CASE i = j
      BY <3>4, <3>5
    <3>6. CASE i < j
      <4>1. Q[i].base + Q[i].size < Q[j].base
        BY <1>10, <3>1, <3>6, RowsApart
      <4> QED BY <3>4, <4>1
    <3> QED BY <1>10, <2>2, <3>5, <3>6
  <2>3. \A j \in 1 .. Len(Q) : j < i \/ j >= i
    BY <1>10
  <2> QED BY <2>1, <2>2, <2>3 DEF Apart
<1> QED BY <1>8, <1>9, <1>12 DEF s, n

(* Where the new region goes.                                              *)
LEMMA SlotIs ==
  ASSUME NEW q, Canon(q), NEW b \in Nat, NEW e \in Nat, b < e, Apart(q, b, e)
  PROVE  /\ Slot(q, b) \in 1 .. Len(q) + 1
         /\ \A j \in 1 .. Len(q) : j < Slot(q, b) => q[j].base + q[j].size < b
         /\ \A j \in 1 .. Len(q) : j >= Slot(q, b) => e < q[j].base
<1> DEFINE S == {0} \cup {i \in 1 .. Len(q) : q[i].base <= b}
           m == Max(S)
<1>1. Len(q) \in Nat
  BY LenProperties DEF Canon
<1>2. S \in SUBSET Nat /\ S # {} /\ \A k \in S : k <= Len(q)
  BY <1>1
<1>3. m \in S /\ \A k \in S : k <= m
  <2> HIDE DEF S
  <2> QED BY <1>1, <1>2, GreatestNat
<1>4. Slot(q, b) = 1 + m
  BY DEF Slot
<1> HIDE DEF m
<1>5. m \in 0 .. Len(q) /\ (m = 0 \/ (m \in 1 .. Len(q) /\ q[m].base <= b))
  BY <1>1, <1>3
<1>6. ASSUME NEW j \in 1 .. Len(q), j <= m PROVE q[j].base + q[j].size < b
  <2>1. m \in 1 .. Len(q) /\ q[m].base <= b
    BY <1>1, <1>5, <1>6
  <2>2. q[m].base \in Nat /\ q[m].size \in Nat /\ q[j].base \in Nat /\ q[j].size \in Nat
    BY <2>1, RowIs
  <2>3. q[m].base + q[m].size < b
    <3>1. ~(e < q[m].base)
      BY <2>1, <2>2
    <3> QED BY <2>1, <3>1 DEF Apart
  <2>4. CASE j = m
    BY <2>3, <2>4
  <2>5. CASE j < m
    <3>1. q[j].base + q[j].size < q[m].base
      BY <2>1, <2>5, RowsApart
    <3> QED BY <2>1, <2>2, <3>1
  <2> QED BY <1>5, <1>6, <2>4, <2>5
<1>7. ASSUME NEW j \in 1 .. Len(q), j > m PROVE e < q[j].base
  <2>1. ~(q[j].base <= b)
    <3>1. ASSUME q[j].base <= b PROVE FALSE
      <4>1. j \in S
        BY <3>1
      <4>2. j <= m
        BY <1>3, <4>1
      <4> QED BY <1>5, <1>7, <4>2
    <3> QED BY <3>1
  <2>2. q[j].base \in Nat /\ q[j].size \in Nat
    BY RowIs
  <2>3. ~(q[j].base + q[j].size < b)
    BY <2>1, <2>2
  <2> QED BY <2>3 DEF Apart
<1>8. \A j \in 1 .. Len(q) : (j < 1 + m => j <= m) /\ (j >= 1 + m => j > m)
  BY <1>5
<1>9. 1 + m \in 1 .. Len(q) + 1
  BY <1>1, <1>5
<1> QED BY <1>4, <1>6, <1>7, <1>8, <1>9

(* The new region put into the table after the loop.                       *)
LEMMA InsertedIs ==
  ASSUME NEW q, Canon(q), q # <<Filler>>, NEW b \in Nat, NEW e \in Nat, b < e, e <= Top,
         Apart(q, b, e)
  PROVE  /\ Canon(InsertAt(q, Slot(q, b), Region(b, e - b)))
         /\ Len(InsertAt(q, Slot(q, b), Region(b, e - b))) = Len(q) + 1
         /\ \A x \in Nat : Covers(InsertAt(q, Slot(q, b), Region(b, e - b)), x)
                              <=> (Covers(q, x) \/ (b <= x /\ x < e))
         /\ q # <<>> => RemoveRegion(InsertAt(q, Slot(q, b), Region(b, e - b)), Slot(q, b)) = q
<1>1. PICK k, r : k = Slot(q, b) /\ r = Region(b, e - b)
  OBVIOUS
<1>2. /\ k \in 1 .. Len(q) + 1
      /\ \A j \in 1 .. Len(q) : j < k => q[j].base + q[j].size < b
      /\ \A j \in 1 .. Len(q) : j >= k => e < q[j].base
  BY <1>1, SlotIs
<1>3. e - b \in Nat /\ e - b > 0 /\ b + (e - b) = e
  OBVIOUS
<1>4. r \in Row /\ r.base = b /\ r.size = e - b
  BY <1>1, <1>3 DEF Region, Row
<1>5. r.size > 0 /\ r.base + r.size = e /\ r.base + r.size <= Top
  BY <1>3, <1>4
<1>6. /\ \A j \in 1 .. Len(q) : j < k => q[j].base + q[j].size < r.base
      /\ \A j \in 1 .. Len(q) : j >= k => r.base + r.size < q[j].base
  BY <1>2, <1>4, <1>5
<1>7. /\ Canon(InsertAt(q, k, r))
      /\ Len(InsertAt(q, k, r)) = Len(q) + 1
      /\ \A x \in Nat : Covers(InsertAt(q, k, r), x) <=> Covers(q, x) \/ Within(r, x)
      /\ q # <<>> => RemoveRegion(InsertAt(q, k, r), k) = q
  BY <1>2, <1>4, <1>5, <1>6, CanonInsert
<1>8. \A x \in Nat : Within(r, x) <=> (b <= x /\ x < e)
  BY <1>4, <1>5 DEF Within
<1> QED BY <1>1, <1>7, <1>8

(* The loop of __memblock_remove after k turns.                            *)
CutStopped(s, e) ==
  \/ s.over # "no"
  \/ s.i > Len(s.regions)
  \/ s.regions[s.i].base > e
  \/ s.regions[s.i].size = 0

CutSame(p, q, b, e) ==
  \A x \in Nat : (Covers(p, x) \/ (b <= x /\ x < e)) <=> (Covers(q, x) \/ (b <= x /\ x < e))

BelowCut(p, i, b) ==
  \A j \in 1 .. Len(p) : j < i => p[j].base + p[j].size <= b

AboveCut(p, i, b) ==
  \A j \in 1 .. Len(p) : j >= i => p[j].base >= b

NoneAt(p, e) == \A j \in 1 .. Len(p) : p[j].base # e

Cutting(q, b, e, k) ==
  {s \in Cut :
     /\ Canon(s.regions) /\ Len(s.regions) <= Len(q) /\ Len(s.regions) >= 1
     /\ s.i >= 1
     /\ BelowCut(s.regions, s.i, b)
     /\ CutSame(s.regions, q, b, e)
     /\ s.regions = q \/ s.regions = <<Filler>> \/ AboveCut(s.regions, s.i, b)
     /\ s.over = "no" => NoneAt(s.regions, e)
     /\ s.over = "trimmed" => s.i \in 1 .. Len(s.regions) /\ s.regions[s.i].base = e
     /\ s.over = "split" => /\ s.regions = q /\ s.i \in 1 .. Len(q)
                            /\ q[s.i].base < b /\ e < q[s.i].base + q[s.i].size
     /\ CutStopped(s, e) \/ Len(s.regions) - s.i = Len(q) - 1 - k}

(* A region inside the range is dropped.                                   *)
LEMMA CutOne ==
  ASSUME NEW q, Canon(q), NEW i \in 1 .. Len(q), NEW b \in Nat, NEW e \in Nat, 0 < e,
         b <= q[i].base, q[i].base + q[i].size <= e, BelowCut(q, i, b), NoneAt(q, e)
  PROVE  /\ BelowCut(RemoveRegion(q, i), i, b)
         /\ CutSame(RemoveRegion(q, i), q, b, e)
         /\ RemoveRegion(q, i) = <<Filler>> \/ AboveCut(RemoveRegion(q, i), i, b)
         /\ NoneAt(RemoveRegion(q, i), e)
<1> DEFINE t == RemoveRegion(q, i)
<1>1. i \in Nat /\ i >= 1 /\ Len(q) \in Nat /\ i <= Len(q) /\ q[i].base \in Nat /\ q[i].size \in Nat
  BY RowIs
<1>2. /\ Canon(t)
      /\ t = <<Filler>> \/ Len(t) = Len(q) - 1
      /\ t = <<Filler>> => i = 1
      /\ t # <<Filler>> => /\ \A j \in 1 .. i - 1 : t[j] = q[j]
                           /\ \A j \in i .. Len(q) - 1 : t[j] = q[j + 1]
      /\ \A x \in Nat : Covers(t, x) <=> \E j \in 1 .. Len(q) : j # i /\ Within(q[j], x)
  BY CanonRemove
<1> HIDE DEF t
<1>3. CutSame(t, q, b, e)
  <2> SUFFICES ASSUME NEW x \in Nat
               PROVE  (Covers(t, x) \/ (b <= x /\ x < e)) <=> (Covers(q, x) \/ (b <= x /\ x < e))
    BY DEF CutSame
  <2>1. Covers(t, x) => Covers(q, x)
    BY <1>2 DEF Covers
  <2>2. ASSUME Covers(q, x) PROVE Covers(t, x) \/ (b <= x /\ x < e)
    <3>1. PICK j \in 1 .. Len(q) : Within(q[j], x)
      BY <2>2 DEF Covers
    <3>2. CASE j # i
      BY <1>2, <3>1, <3>2
    <3>3. CASE j = i
      <4>1. q[i].base <= x /\ x < q[i].base + q[i].size
        BY <3>1, <3>3 DEF Within
      <4>2. b <= x /\ x < e
        BY <1>1, <4>1
      <4> QED BY <4>2
    <3> QED BY <3>2, <3>3
  <2> QED BY <2>1, <2>2
<1>4. CASE t = <<Filler>>
  <2>1. Len(t) = 1 /\ i = 1 /\ t[1].base = 0
    BY <1>2, <1>4, FillerIs
  <2>2. \A j \in 1 .. Len(t) : ~(j < i) /\ t[j].base = 0
    BY <2>1
  <2> QED BY <1>3, <1>4, <2>2 DEF BelowCut, NoneAt, t
<1>5. CASE t # <<Filler>>
  <2>1. ASSUME NEW j \in 1 .. Len(t), j < i PROVE j \in 1 .. Len(q) /\ t[j] = q[j]
    <3>1. j \in 1 .. i - 1 /\ j \in 1 .. Len(q)
      BY <1>1, <2>1
    <3> QED BY <1>2, <1>5, <3>1
  <2>2. ASSUME NEW j \in 1 .. Len(t), j >= i
        PROVE  j + 1 \in 1 .. Len(q) /\ t[j] = q[j + 1] /\ i < j + 1
    <3>1. j \in i .. Len(q) - 1 /\ j + 1 \in 1 .. Len(q) /\ i < j + 1
      BY <1>1, <1>2, <1>5, <2>2
    <3> QED BY <1>2, <1>5, <3>1
  <2>3. BelowCut(t, i, b)
    BY <2>1 DEF BelowCut
  <2>4. ASSUME NEW j \in 1 .. Len(t), j >= i PROVE t[j].base >= b
    <3>1. q[i].base + q[i].size < q[j + 1].base /\ q[j + 1].base \in Nat
      BY <2>2, <2>4, RowsApart, RowIs
    <3> QED BY <1>1, <2>2, <2>4, <3>1
  <2>5. ASSUME NEW j \in 1 .. Len(t) PROVE t[j].base # e
    <3>1. j < i \/ j >= i
      BY <1>1
    <3> QED BY <2>1, <2>2, <3>1 DEF NoneAt
  <2> QED BY <1>3, <2>3, <2>4, <2>5 DEF AboveCut, NoneAt, t
<1> QED BY <1>4, <1>5

(* A region that reaches above the range keeps what is above.              *)
LEMMA CutBelow ==
  ASSUME NEW q, Canon(q), NEW i \in 1 .. Len(q), NEW b \in Nat, NEW e \in Nat, b < e,
         b <= q[i].base, q[i].base < e, e < q[i].base + q[i].size, BelowCut(q, i, b),
         NEW r, r = Region(e, q[i].base + q[i].size - e)
  PROVE  /\ Canon([q EXCEPT ![i] = r]) /\ Len([q EXCEPT ![i] = r]) = Len(q)
         /\ [q EXCEPT ![i] = r][i].base = e
         /\ BelowCut([q EXCEPT ![i] = r], i, b)
         /\ AboveCut([q EXCEPT ![i] = r], i, b)
         /\ CutSame([q EXCEPT ![i] = r], q, b, e)
<1> DEFINE t == [q EXCEPT ![i] = r]
<1>1. /\ i \in Nat /\ i >= 1 /\ Len(q) \in Nat /\ i <= Len(q) /\ q[i].base \in Nat /\ q[i].size \in Nat
      /\ q[i].base + q[i].size <= Top
  BY RowIs
<1>2. q[i].base + q[i].size - e \in Nat /\ q[i].base + q[i].size - e > 0
      /\ e + (q[i].base + q[i].size - e) = q[i].base + q[i].size
  BY <1>1
<1>3. r \in Row /\ r.base = e /\ r.size > 0 /\ r.base + r.size = q[i].base + q[i].size
  BY <1>2 DEF Region, Row
<1>4. /\ \A j \in 1 .. Len(q) : j < i => q[j].base + q[j].size < r.base
      /\ \A j \in 1 .. Len(q) : j > i => r.base + r.size < q[j].base
  <2>1. ASSUME NEW j \in 1 .. Len(q), j < i PROVE q[j].base + q[j].size < e
    <3>1. q[j].base + q[j].size < q[i].base /\ q[j].base \in Nat /\ q[j].size \in Nat
      BY <2>1, RowsApart, RowIs
    <3> QED BY <1>1, <3>1
  <2> QED BY <1>3, <2>1, RowsApart
<1>5. r.base + r.size <= Top
  BY <1>1, <1>3
<1>6. /\ Canon([q EXCEPT ![i] = r])
      /\ Len([q EXCEPT ![i] = r]) = Len(q)
      /\ [q EXCEPT ![i] = r][i] = r
      /\ \A j \in 1 .. Len(q) : j # i => [q EXCEPT ![i] = r][j] = q[j]
  BY <1>3, <1>4, <1>5, CanonReplace
<1>7. Canon(t) /\ Len(t) = Len(q) /\ t[i] = r /\ \A j \in 1 .. Len(q) : j # i => t[j] = q[j]
  BY <1>6
<1> HIDE DEF t
<1>8. BelowCut(t, i, b)
  <2>1. \A j \in 1 .. Len(q) : j < i => j # i
    BY <1>1
  <2> QED BY <1>7, <2>1 DEF BelowCut
<1>9. ASSUME NEW j \in 1 .. Len(q), j >= i PROVE t[j].base >= b
  <2>1. CASE j = i
    BY <1>3, <1>7, <2>1
  <2>2. CASE j # i
    <3>1. i < j
      BY <1>1, <1>9, <2>2
    <3>2. q[i].base + q[i].size < q[j].base /\ q[j].base \in Nat
      BY <3>1, RowsApart, RowIs
    <3> QED BY <1>1, <1>7, <2>2, <3>2
  <2> QED BY <2>1, <2>2
<1>10. CutSame(t, q, b, e)
  <2> SUFFICES ASSUME NEW x \in Nat
               PROVE  (Covers(t, x) \/ (b <= x /\ x < e)) <=> (Covers(q, x) \/ (b <= x /\ x < e))
    BY DEF CutSame
  <2>1. ASSUME NEW j \in 1 .. Len(q), Within(t[j], x) PROVE Within(q[j], x)
    <3>1. CASE j = i
      BY <1>1, <1>3, <1>7, <2>1, <3>1 DEF Within
    <3> QED BY <1>7, <2>1, <3>1
  <2>2. ASSUME NEW j \in 1 .. Len(q), Within(q[j], x) PROVE Within(t[j], x) \/ (b <= x /\ x < e)
    <3>1. CASE j = i
      BY <1>1, <1>3, <1>7, <2>2, <3>1 DEF Within
    <3> QED BY <1>7, <2>2, <3>1
  <2> QED BY <1>7, <2>1, <2>2 DEF Covers
<1> QED BY <1>3, <1>7, <1>8, <1>9, <1>10 DEF AboveCut, t

(* A region the range begins in or above keeps what is below.              *)
LEMMA CutAbove ==
  ASSUME NEW q, Canon(q), NEW i \in 1 .. Len(q), NEW b \in Nat, NEW e \in Nat, b < e,
         q[i].base < b, q[i].base + q[i].size <= e, BelowCut(q, i, b), NoneAt(q, e),
         NEW r \in Row, r.base = q[i].base,
         r.base + r.size = IF b < q[i].base + q[i].size THEN b ELSE q[i].base + q[i].size
  PROVE  /\ Canon([q EXCEPT ![i] = r]) /\ Len([q EXCEPT ![i] = r]) = Len(q)
         /\ BelowCut([q EXCEPT ![i] = r], i + 1, b)
         /\ [q EXCEPT ![i] = r] = q \/ AboveCut([q EXCEPT ![i] = r], i + 1, b)
         /\ CutSame([q EXCEPT ![i] = r], q, b, e)
         /\ NoneAt([q EXCEPT ![i] = r], e)
<1> DEFINE t == [q EXCEPT ![i] = r]
<1>1. /\ i \in Nat /\ i >= 1 /\ Len(q) \in Nat /\ i <= Len(q) /\ q[i].base \in Nat /\ q[i].size \in Nat
      /\ q[i].base + q[i].size <= Top /\ q[i] \in Row
  BY RowIs
<1>2. r.base \in Nat /\ r.size \in Nat
  BY DEF Row
<1>20. CASE q[i].base + q[i].size <= b
  <2>1. r = q[i]
    <3>1. r.base = q[i].base /\ r.size = q[i].size
      BY <1>1, <1>2, <1>20
    <3> QED BY <1>1, <3>1 DEF Row
  <2>2. t = q
    <3>1. q \in Seq(Row)
      BY DEF Canon
    <3> QED BY <2>1, <3>1
  <2> HIDE DEF t
  <2>3. BelowCut(q, i + 1, b)
    <3> SUFFICES ASSUME NEW j \in 1 .. Len(q), j < i + 1 PROVE q[j].base + q[j].size <= b
      BY DEF BelowCut
    <3>1. j < i \/ j = i
      BY <1>1
    <3> QED BY <1>20, <3>1 DEF BelowCut
  <2>4. [q EXCEPT ![i] = r] = q
    BY <2>2 DEF t
  <2>5. CutSame(q, q, b, e)
    BY DEF CutSame
  <2> QED BY <2>3, <2>4, <2>5
<1>3. CASE ~(q[i].base + q[i].size <= b)
  <2>0. b < q[i].base + q[i].size
    BY <1>1, <1>3
  <2>01. r.base + r.size = b
    BY <2>0
  <2>02. r.base < b /\ b <= Top
    BY <1>1, <2>0, Numbers
  <2>1. r.base + r.size = b /\ r.size > 0 /\ r.base + r.size <= Top
    BY <1>2, <2>01, <2>02
  <2>2. /\ \A j \in 1 .. Len(q) : j < i => q[j].base + q[j].size < r.base
        /\ \A j \in 1 .. Len(q) : j > i => r.base + r.size < q[j].base
    <3>1. ASSUME NEW j \in 1 .. Len(q), j > i PROVE b < q[j].base
      <4>1. q[i].base + q[i].size < q[j].base /\ q[j].base \in Nat
        BY <3>1, RowsApart, RowIs
      <4> QED BY <1>1, <1>3, <4>1
    <3> QED BY <2>1, <3>1, RowsApart
  <2>3. /\ Canon([q EXCEPT ![i] = r])
        /\ Len([q EXCEPT ![i] = r]) = Len(q)
        /\ [q EXCEPT ![i] = r][i] = r
        /\ \A j \in 1 .. Len(q) : j # i => [q EXCEPT ![i] = r][j] = q[j]
    BY <2>1, <2>2, CanonReplace
  <2>4. Canon(t) /\ Len(t) = Len(q) /\ t[i] = r /\ \A j \in 1 .. Len(q) : j # i => t[j] = q[j]
    BY <2>3
  <2> HIDE DEF t
  <2>5. ASSUME NEW j \in 1 .. Len(q), j < i + 1 PROVE t[j].base + t[j].size <= b
    <3>1. CASE j = i
      BY <2>1, <2>4, <3>1
    <3>2. CASE j # i
      <4>1. j < i
        BY <1>1, <2>5, <3>2
      <4> QED BY <2>4, <3>2, <4>1 DEF BelowCut
    <3> QED BY <3>1, <3>2
  <2>6. ASSUME NEW j \in 1 .. Len(q), j >= i + 1 PROVE t[j].base >= b
    <3>1. i < j /\ j # i
      BY <1>1, <2>6
    <3>2. q[i].base + q[i].size < q[j].base /\ q[j].base \in Nat
      BY <3>1, RowsApart, RowIs
    <3> QED BY <1>1, <1>3, <2>4, <3>1, <3>2
  <2>7. CutSame(t, q, b, e)
    <3> SUFFICES ASSUME NEW x \in Nat
                 PROVE  (Covers(t, x) \/ (b <= x /\ x < e)) <=> (Covers(q, x) \/ (b <= x /\ x < e))
      BY DEF CutSame
    <3>1. ASSUME NEW j \in 1 .. Len(q), Within(t[j], x) PROVE Within(q[j], x)
      <4>1. CASE j = i
        BY <1>1, <1>2, <1>3, <2>1, <2>4, <3>1, <4>1 DEF Within
      <4> QED BY <2>4, <3>1, <4>1
    <3>2. ASSUME NEW j \in 1 .. Len(q), Within(q[j], x) PROVE Within(t[j], x) \/ (b <= x /\ x < e)
      <4>1. CASE j = i
        BY <1>1, <1>2, <1>3, <2>1, <2>4, <3>2, <4>1 DEF Within
      <4> QED BY <2>4, <3>2, <4>1
    <3> QED BY <2>4, <3>1, <3>2 DEF Covers
  <2>8. NoneAt(t, e)
    <3> SUFFICES ASSUME NEW j \in 1 .. Len(q) PROVE t[j].base # e
      BY <2>4 DEF NoneAt
    <3>1. CASE j = i
      BY <1>2, <2>4, <3>1
    <3> QED BY <2>4, <3>1 DEF NoneAt
  <2>9. BelowCut(t, i + 1, b) /\ AboveCut(t, i + 1, b)
    BY <2>4, <2>5, <2>6 DEF BelowCut, AboveCut
  <2> QED BY <2>4, <2>7, <2>8, <2>9 DEF t
<1> QED BY <1>1, <1>20, <1>3

(* A turn of the loop.                                                     *)
LEMMA CutTurn ==
  ASSUME NEW q, Canon(q), NEW b \in Nat, NEW e \in Nat, b < e, e <= Top,
         NEW k \in Nat, NEW s \in Cutting(q, b, e, k)
  PROVE  Walk(b, e)[s] \in Cutting(q, b, e, k + 1)
<1>1. /\ s \in Cut /\ Canon(s.regions) /\ Len(s.regions) <= Len(q) /\ Len(s.regions) >= 1
      /\ s.i >= 1
      /\ BelowCut(s.regions, s.i, b)
      /\ CutSame(s.regions, q, b, e)
      /\ s.regions = q \/ s.regions = <<Filler>> \/ AboveCut(s.regions, s.i, b)
      /\ s.over = "no" => NoneAt(s.regions, e)
      /\ s.over = "trimmed" => s.i \in 1 .. Len(s.regions) /\ s.regions[s.i].base = e
      /\ s.over = "split" => /\ s.regions = q /\ s.i \in 1 .. Len(q)
                             /\ q[s.i].base < b /\ e < q[s.i].base + q[s.i].size
      /\ CutStopped(s, e) \/ Len(s.regions) - s.i = Len(q) - 1 - k
  BY DEF Cutting
<1>2. PICK Q, i : Q = s.regions /\ i = s.i
  OBVIOUS
<1>3. i \in Nat /\ Q \in Regions /\ s.over \in {"no", "trimmed", "split"} /\ i >= 1
  BY <1>1, <1>2 DEF Cut
<1>4. Len(Q) \in Nat /\ Len(q) \in Nat /\ Len(Q) <= Len(q) /\ Len(Q) >= 1 /\ Canon(Q)
  BY <1>1, <1>2, LenProperties DEF Canon
<1> DEFINE r == Q[i]
           rend == End(r)
           size == IF b < rend THEN Minus(r.size, rend - b) ELSE r.size
           t == Walk(b, e)[s]
<1>5. t = IF CutStopped(s, e) THEN s
          ELSE IF b <= r.base /\ e >= rend
            THEN [s EXCEPT !.regions = RemoveRegion(@, i)]
          ELSE IF b > r.base /\ e < rend THEN [s EXCEPT !.over = "split"]
          ELSE IF r.base < e /\ rend > e
            THEN [s EXCEPT !.regions = [@ EXCEPT ![i] = Region(e, rend - e)], !.over = "trimmed"]
          ELSE [s EXCEPT !.regions = [@ EXCEPT ![i] = Region(r.base, size)], !.i = @ + 1]
  BY <1>1, <1>2 DEF Walk, CutStopped
<1> HIDE DEF t
<1>6. CASE CutStopped(s, e)
  <2>1. t = s
    BY <1>5, <1>6
  <2> QED BY <1>1, <1>6, <2>1 DEF Cutting, t
<1>7. CASE ~CutStopped(s, e)
  <2>1. s.over = "no" /\ i \in 1 .. Len(Q) /\ ~(r.base > e) /\ r.size # 0
    BY <1>1, <1>2, <1>3, <1>4, <1>7 DEF CutStopped
  <2>2. /\ r.base \in Nat /\ r.size \in Nat /\ r.size > 0
        /\ rend = r.base + r.size /\ rend <= Top
    BY <1>4, <2>1, RowIs
  <2>3. NoneAt(Q, e) /\ BelowCut(Q, i, b) /\ CutSame(Q, q, b, e) /\ Len(Q) - i = Len(q) - 1 - k
    BY <1>1, <1>2, <1>7, <2>1
  <2>4. r.base < e
    BY <2>1, <2>2, <2>3 DEF NoneAt
  <2>5. Q = q \/ AboveCut(Q, i, b)
    <3>1. Q # <<Filler>>
      <4> SUFFICES ASSUME Q = <<Filler>> PROVE FALSE
        OBVIOUS
      <4>1. Len(Q) = 1 /\ Q[1].size = 0
        BY FillerIs
      <4>2. i = 1
        BY <2>1, <4>1
      <4> QED BY <2>1, <4>1, <4>2
    <3> QED BY <1>1, <1>2, <3>1
  <2>6. Q[i].base = r.base /\ Q[i].size = r.size
    OBVIOUS
  <2> HIDE DEF r, rend, size
  <2>10. CASE b <= r.base /\ e >= rend
    <3>1. PICK u : u = RemoveRegion(Q, i)
      OBVIOUS
    <3>2. b <= Q[i].base /\ Q[i].base + Q[i].size <= e /\ 0 < e
      BY <2>2, <2>6, <2>10
    <3>3. /\ BelowCut(u, i, b) /\ CutSame(u, Q, b, e)
          /\ u = <<Filler>> \/ AboveCut(u, i, b)
          /\ NoneAt(u, e)
      BY <1>4, <2>1, <2>3, <3>1, <3>2, CutOne
    <3>4. /\ Canon(u) /\ (u = <<Filler>> \/ Len(u) = Len(Q) - 1) /\ Len(u) >= 1
          /\ u = <<Filler>> => i = 1
      BY <1>4, <2>1, <3>1, CanonRemove
    <3>5. t = [s EXCEPT !.regions = u]
      BY <1>2, <1>5, <1>7, <2>10, <3>1
    <3>6. u \in Regions
      BY <3>4, RegionsRow DEF Canon
    <3>7. t \in Cut /\ t.i = i /\ t.regions = u /\ t.over = "no"
      BY <1>1, <1>2, <2>1, <3>5, <3>6 DEF Cut
    <3>8. CutSame(u, q, b, e)
      BY <2>3, <3>3 DEF CutSame
    <3>9. Len(u) <= Len(q) /\ (CutStopped(t, e) \/ Len(u) - i = Len(q) - 1 - (k + 1))
      <4>1. CASE u = <<Filler>>
        <5>1. Len(u) = 1 /\ u[1].size = 0 /\ i = 1
          BY <3>4, <4>1, FillerIs
        <5>2. CutStopped(t, e)
          BY <3>7, <5>1 DEF CutStopped
        <5> QED BY <1>4, <5>1, <5>2
      <4>2. CASE Len(u) = Len(Q) - 1
        BY <1>3, <1>4, <2>3, <4>2
      <4> QED BY <3>4, <4>1, <4>2
    <3>10. u = q \/ u = <<Filler>> \/ AboveCut(u, i, b)
      BY <3>3
    <3> QED BY <1>3, <3>3, <3>4, <3>7, <3>8, <3>9, <3>10 DEF Cutting, t
  <2>11. CASE b > r.base /\ e < rend
    <3>1. t = [s EXCEPT !.over = "split"]
      BY <1>5, <1>7, <2>2, <2>11
    <3>2. t \in Cut /\ t.i = i /\ t.regions = Q /\ t.over = "split"
      BY <1>1, <1>2, <3>1 DEF Cut
    <3>3. ~AboveCut(Q, i, b)
      <4>1. i \in 1 .. Len(Q) /\ i >= i /\ ~(Q[i].base >= b)
        BY <2>1, <2>2, <2>6, <2>11, <1>3
      <4> QED BY <4>1 DEF AboveCut
    <3>4. Q = q
      BY <2>5, <3>3
    <3>5. /\ t.regions = q /\ t.i \in 1 .. Len(q)
          /\ q[t.i].base < b /\ e < q[t.i].base + q[t.i].size
      BY <2>1, <2>2, <2>6, <2>11, <3>2, <3>4
    <3>6. CutStopped(t, e)
      BY <3>2 DEF CutStopped
    <3> QED BY <1>3, <1>4, <2>3, <3>2, <3>4, <3>5, <3>6 DEF Cutting, t
  <2>12. CASE ~(b > r.base) /\ rend > e
    <3>1. PICK n, u : n = Region(e, rend - e) /\ u = [Q EXCEPT ![i] = n]
      OBVIOUS
    <3>2. t = [s EXCEPT !.regions = u, !.over = "trimmed"]
      BY <1>2, <1>5, <1>7, <2>2, <2>4, <2>12, <3>1
    <3>3. /\ b <= Q[i].base /\ Q[i].base < e /\ e < Q[i].base + Q[i].size
          /\ n = Region(e, Q[i].base + Q[i].size - e)
      BY <2>2, <2>4, <2>6, <2>12, <3>1
    <3>4. /\ Canon([Q EXCEPT ![i] = n]) /\ Len([Q EXCEPT ![i] = n]) = Len(Q)
          /\ [Q EXCEPT ![i] = n][i].base = e
          /\ BelowCut([Q EXCEPT ![i] = n], i, b)
          /\ AboveCut([Q EXCEPT ![i] = n], i, b)
          /\ CutSame([Q EXCEPT ![i] = n], Q, b, e)
      BY <1>4, <2>1, <2>3, <3>3, CutBelow
    <3>5. /\ Canon(u) /\ Len(u) = Len(Q) /\ u[i].base = e /\ BelowCut(u, i, b)
          /\ AboveCut(u, i, b) /\ CutSame(u, Q, b, e)
      BY <3>1, <3>4
    <3>6. u \in Regions
      BY <3>5, RegionsRow DEF Canon
    <3>7. t \in Cut /\ t.i = i /\ t.regions = u /\ t.over = "trimmed"
      BY <1>1, <1>2, <3>2, <3>6 DEF Cut
    <3>8. CutSame(u, q, b, e)
      BY <2>3, <3>5 DEF CutSame
    <3>9. CutStopped(t, e) /\ Len(u) <= Len(q) /\ Len(u) >= 1 /\ i \in 1 .. Len(u)
      BY <1>4, <2>1, <3>5, <3>7 DEF CutStopped
    <3> QED BY <1>3, <3>5, <3>7, <3>8, <3>9 DEF Cutting, t
  <2>13. CASE b > r.base /\ ~(rend > e)
    <3>1. PICK n, u : n = Region(r.base, size) /\ u = [Q EXCEPT ![i] = n]
      OBVIOUS
    <3>2. t = [s EXCEPT !.regions = u, !.i = i + 1]
      BY <1>2, <1>5, <1>7, <2>2, <2>13, <3>1
    <3>3. size \in Nat /\ r.base + size = IF b < rend THEN b ELSE rend
      <4>1. CASE b < rend
        <5>1. rend - b \in Nat /\ r.size >= rend - b
          BY <2>2, <2>13, <4>1
        <5>2. size = r.size - (rend - b)
          BY <4>1, <5>1 DEF size, Minus
        <5> QED BY <2>2, <2>13, <4>1, <5>1, <5>2
      <4>2. CASE ~(b < rend)
        BY <2>2, <4>2 DEF size
      <4> QED BY <4>1, <4>2
    <3>4. n \in Row /\ n.base = Q[i].base
          /\ n.base + n.size = IF b < Q[i].base + Q[i].size THEN b ELSE Q[i].base + Q[i].size
      <4>1. n.base = r.base /\ n.size = size /\ n \in Row
        BY <2>2, <3>1, <3>3 DEF Region, Row
      <4> QED BY <2>2, <2>6, <3>3, <4>1
    <3>5. Q[i].base < b /\ Q[i].base + Q[i].size <= e
      BY <2>2, <2>6, <2>13
    <3>6. /\ Canon([Q EXCEPT ![i] = n]) /\ Len([Q EXCEPT ![i] = n]) = Len(Q)
          /\ BelowCut([Q EXCEPT ![i] = n], i + 1, b)
          /\ [Q EXCEPT ![i] = n] = Q \/ AboveCut([Q EXCEPT ![i] = n], i + 1, b)
          /\ CutSame([Q EXCEPT ![i] = n], Q, b, e)
          /\ NoneAt([Q EXCEPT ![i] = n], e)
      BY <1>4, <2>1, <2>3, <3>4, <3>5, CutAbove
    <3>7. /\ Canon(u) /\ Len(u) = Len(Q) /\ BelowCut(u, i + 1, b)
          /\ (u = Q \/ AboveCut(u, i + 1, b))
          /\ CutSame(u, Q, b, e) /\ NoneAt(u, e)
      BY <3>1, <3>6
    <3>8. u \in Regions
      BY <3>7, RegionsRow DEF Canon
    <3>9. t \in Cut /\ t.i = i + 1 /\ t.regions = u /\ t.over = "no"
      <4>1. i + 1 \in Nat
        BY <1>3
      <4> QED BY <1>1, <1>2, <2>1, <3>2, <3>8, <4>1 DEF Cut
    <3>10. CutSame(u, q, b, e)
      BY <2>3, <3>7 DEF CutSame
    <3>11. u = q \/ AboveCut(u, i + 1, b)
      <4>1. CASE AboveCut(Q, i, b)
        <5>1. i \in 1 .. Len(Q) /\ i >= i /\ ~(Q[i].base >= b)
          BY <1>3, <2>1, <2>2, <2>6, <2>13
        <5> QED BY <4>1, <5>1 DEF AboveCut
      <4> QED BY <2>5, <3>7, <4>1
    <3>12. Len(u) - (i + 1) = Len(q) - 1 - (k + 1) /\ i + 1 >= 1
           /\ Len(u) <= Len(q) /\ Len(u) >= 1
      BY <1>3, <1>4, <2>3, <3>7
    <3> QED BY <3>7, <3>9, <3>10, <3>11, <3>12 DEF Cutting, t
  <2>14. \/ b <= r.base /\ e >= rend
         \/ b > r.base /\ e < rend
         \/ ~(b > r.base) /\ rend > e
         \/ b > r.base /\ ~(rend > e)
    BY <2>2
  <2> QED BY <2>10, <2>11, <2>12, <2>13, <2>14
<1> QED BY <1>6, <1>7 DEF t

Minused(p, q, b, e) ==
  \A x \in Nat : Covers(p, x) <=> (Covers(q, x) /\ ~(b <= x /\ x < e))

(* The loop as a whole, when there is a table.                             *)
LEMMA WalkedStops ==
  ASSUME NEW q, Canon(q), Len(q) >= 1, NEW b \in Nat, NEW e \in Nat, b < e, e <= Top, NoneAt(q, e)
  PROVE  Walked(q, b, e) \in Cutting(q, b, e, Len(q)) /\ CutStopped(Walked(q, b, e), e)
<1> DEFINE n == Len(q)
           s0 == [i |-> 1, regions |-> q, over |-> "no"]
           G == [k \in 0 .. n |-> Cutting(q, b, e, k)]
           s == Walked(q, b, e)
<1>1. n \in Nat /\ q \in Regions
  BY LenProperties, RegionsRow DEF Canon
<1>2. s0 \in Cutting(q, b, e, 0)
  <2>1. s0 \in Cut /\ s0.i = 1 /\ s0.regions = q /\ s0.over = "no"
    BY <1>1 DEF Cut
  <2> HIDE DEF s0
  <2>2. BelowCut(q, 1, b)
    <3>1. \A j \in 1 .. Len(q) : ~(j < 1)
      OBVIOUS
    <3> QED BY <3>1 DEF BelowCut
  <2>3. CutSame(q, q, b, e)
    BY DEF CutSame
  <2>4. Len(q) - 1 = Len(q) - 1 - 0
    BY <1>1
  <2> QED BY <1>1, <2>1, <2>2, <2>3, <2>4 DEF Cutting
<1>3. ASSUME NEW k \in 0 .. n - 1, NEW x \in G[k] PROVE Walk(b, e)[x] \in G[k + 1]
  <2>1. k \in Nat /\ k \in 0 .. n /\ k + 1 \in 0 .. n
    BY <1>1
  <2>2. x \in Cutting(q, b, e, k)
    BY <2>1
  <2>3. Walk(b, e)[x] \in Cutting(q, b, e, k + 1)
    BY <2>1, <2>2, CutTurn
  <2> QED BY <2>1, <2>3
<1>4. s0 \in G[0] /\ n \in 0 .. n /\ G[n] = Cutting(q, b, e, n)
  BY <1>1, <1>2
<1>5. s = Iterate(Walk(b, e), s0, n)
  BY DEF Walked
<1> HIDE DEF G, s0, n, s
<1>6. Iterate(Walk(b, e), s0, n) \in G[n]
  BY <1>1, <1>3, <1>4, IterateKeeps
<1>7. s \in Cutting(q, b, e, n)
  BY <1>4, <1>5, <1>6
<1>8. /\ s \in Cut /\ Canon(s.regions)
      /\ CutStopped(s, e) \/ Len(s.regions) - s.i = n - 1 - n
  BY <1>7 DEF Cutting, n
<1>9. PICK Q, i : Q = s.regions /\ i = s.i
  OBVIOUS
<1>10. i \in Nat /\ Len(Q) \in Nat
  BY <1>8, <1>9, LenProperties DEF Cut, Canon
<1>11. CutStopped(s, e)
  <2>1. ASSUME Len(Q) - i = n - 1 - n PROVE i > Len(Q)
    BY <1>1, <1>10, <2>1
  <2> QED BY <1>8, <1>9, <2>1 DEF CutStopped
<1> QED BY <1>7, <1>11 DEF n, s

(* Nothing of the range is left in the table.                              *)
LEMMA WalkedIs ==
  ASSUME NEW q, Canon(q), Len(q) >= 1, NEW b \in Nat, NEW e \in Nat, b < e, e <= Top,
         NoneAt(q, e), NEW s, s = Walked(q, b, e)
  PROVE  /\ s \in Cut /\ Canon(s.regions) /\ Len(s.regions) <= Len(q) /\ Len(s.regions) >= 1
         /\ s.over = "split" => /\ s.regions = q /\ s.i \in 1 .. Len(q)
                                /\ q[s.i].base < b /\ e < q[s.i].base + q[s.i].size
         /\ s.over # "split" => Minused(s.regions, q, b, e)
<1>1. s \in Cutting(q, b, e, Len(q)) /\ CutStopped(s, e)
  BY WalkedStops
<1>2. /\ s \in Cut /\ Canon(s.regions) /\ Len(s.regions) <= Len(q) /\ Len(s.regions) >= 1
      /\ BelowCut(s.regions, s.i, b)
      /\ CutSame(s.regions, q, b, e)
      /\ s.over = "trimmed" => s.i \in 1 .. Len(s.regions) /\ s.regions[s.i].base = e
      /\ s.over = "split" => /\ s.regions = q /\ s.i \in 1 .. Len(q)
                             /\ q[s.i].base < b /\ e < q[s.i].base + q[s.i].size
      /\ s.i >= 1
  BY <1>1 DEF Cutting
<1>3. PICK Q, i : Q = s.regions /\ i = s.i
  OBVIOUS
<1>4. i \in Nat /\ i >= 1 /\ s.over \in {"no", "trimmed", "split"} /\ Len(Q) \in Nat /\ Canon(Q)
  BY <1>2, <1>3, LenProperties DEF Cut, Canon
<1>5. ASSUME s.over # "split", NEW x \in Nat, b <= x, x < e, Covers(Q, x) PROVE FALSE
  <2>1. PICK j \in 1 .. Len(Q) : Within(Q[j], x)
    BY <1>5 DEF Covers
  <2>2. Q[j].base <= x /\ x < Q[j].base + Q[j].size /\ Q[j].base \in Nat /\ Q[j].size \in Nat
    BY <1>4, <2>1, RowIs DEF Within
  <2>3. j >= i
    <3>1. ASSUME j < i PROVE FALSE
      <4>1. Q[j].base + Q[j].size <= b
        BY <1>2, <1>3, <3>1 DEF BelowCut
      <4> QED BY <1>5, <2>2, <4>1
    <3> QED BY <1>4, <3>1
  <2>4. i \in 1 .. Len(Q)
    BY <1>4, <2>3
  <2>6. Q[i].base \in Nat /\ Q[i].size \in Nat
    BY <1>4, <2>4, RowIs
  <2>5. Q[i].base >= e \/ Q[i].size = 0
    <3>1. CASE s.over = "trimmed"
      BY <1>2, <1>3, <2>6, <3>1
    <3>2. CASE s.over = "no"
      <4>1. Q[i].base > e \/ Q[i].size = 0
        BY <1>1, <1>3, <1>4, <2>4, <3>2 DEF CutStopped
      <4> QED BY <2>6, <4>1
    <3> QED BY <1>4, <1>5, <3>1, <3>2
  <2>7. CASE i = j
    BY <1>5, <2>2, <2>5, <2>7
  <2>8. CASE i < j
    <3>1. Q[i].base + Q[i].size < Q[j].base /\ Q[i].size > 0
      BY <1>4, <2>4, <2>8, RowsApart
    <3>2. PICK a \in Nat : a = Q[i].base
      BY <2>6
    <3>3. PICK z \in Nat : z = Q[i].size
      BY <2>6
    <3>4. PICK c \in Nat : c = Q[j].base
      BY <2>2
    <3>5. a + z < c /\ z > 0 /\ c <= x /\ x < e /\ (a >= e \/ z = 0)
      BY <1>5, <2>2, <2>5, <3>1, <3>2, <3>3, <3>4
    <3> QED BY ONLY <3>5, a \in Nat, z \in Nat, c \in Nat, x \in Nat, e \in Nat
  <2>9. i = j \/ i < j
    BY <2>3, <2>4, j \in Nat
  <2> QED BY <2>7, <2>8, <2>9
<1>6. ASSUME s.over # "split" PROVE Minused(Q, q, b, e)
  <2> SUFFICES ASSUME NEW x \in Nat
               PROVE  Covers(Q, x) <=> (Covers(q, x) /\ ~(b <= x /\ x < e))
    BY DEF Minused
  <2>1. (Covers(Q, x) \/ (b <= x /\ x < e)) <=> (Covers(q, x) \/ (b <= x /\ x < e))
    BY <1>2, <1>3 DEF CutSame
  <2>2. ~(Covers(Q, x) /\ (b <= x /\ x < e))
    BY <1>5, <1>6
  <2> QED BY <2>1, <2>2
<1> QED BY <1>2, <1>3, <1>6

(* The table that was not set up has nothing to take out.                  *)
LEMMA WalkedNone ==
  ASSUME NEW b, NEW e
  PROVE  Walked(<<>>, b, e) = [i |-> 1, regions |-> <<>>, over |-> "no"]
<1> DEFINE s0 == [i |-> 1, regions |-> <<>>, over |-> "no"]
           G == [k \in 0 .. 0 |-> {s0}]
<1>1. Walked(<<>>, b, e) = Iterate(Walk(b, e), s0, 0)
  <2>1. Len(<<>>) = 0
    OBVIOUS
  <2> QED BY <2>1 DEF Walked
<1>2. s0 \in G[0] /\ 0 \in Nat
  OBVIOUS
<1> HIDE DEF s0
<1>3. G[0] = {s0}
  OBVIOUS
<1> HIDE DEF G
<1>4. \A k \in 0 .. 0 - 1 : \A x \in G[k] : Walk(b, e)[x] \in G[k + 1]
  OBVIOUS
<1>5. Iterate(Walk(b, e), s0, 0) \in G[0]
  BY <1>2, <1>4, IterateKeeps
<1> QED BY <1>1, <1>3, <1>5 DEF s0

(* A region the range lies inside of, shortened.                           *)
LEMMA ShortenedIs ==
  ASSUME NEW q, Canon(q), NEW i \in 1 .. Len(q), NEW b \in Nat, q[i].base < b,
         b < q[i].base + q[i].size, NEW r, r = Region(q[i].base, b - q[i].base)
  PROVE  /\ Canon([q EXCEPT ![i] = r]) /\ Len([q EXCEPT ![i] = r]) = Len(q)
         /\ \A j \in 1 .. Len(q) : j # i => [q EXCEPT ![i] = r][j] = q[j]
         /\ Minused([q EXCEPT ![i] = r], q, b, q[i].base + q[i].size)
<1> DEFINE t == [q EXCEPT ![i] = r]
<1>1. /\ i \in Nat /\ q[i].base \in Nat /\ q[i].size \in Nat /\ q[i].base + q[i].size <= Top
  BY RowIs
<1>2. b - q[i].base \in Nat /\ b - q[i].base > 0 /\ q[i].base + (b - q[i].base) = b
  BY <1>1
<1>3. r \in Row /\ r.base = q[i].base /\ r.size > 0 /\ r.base + r.size = b
  BY <1>1, <1>2 DEF Region, Row
<1>4. r.base + r.size <= Top
  BY <1>1, <1>3, Numbers
<1>5. /\ \A j \in 1 .. Len(q) : j < i => q[j].base + q[j].size < r.base
      /\ \A j \in 1 .. Len(q) : j > i => r.base + r.size < q[j].base
  <2>1. ASSUME NEW j \in 1 .. Len(q), j > i PROVE b < q[j].base
    <3>1. q[i].base + q[i].size < q[j].base /\ q[j].base \in Nat
      BY <2>1, RowsApart, RowIs
    <3> QED BY <1>1, <3>1
  <2> QED BY <1>3, <2>1, RowsApart
<1>6. /\ Canon([q EXCEPT ![i] = r])
      /\ Len([q EXCEPT ![i] = r]) = Len(q)
      /\ [q EXCEPT ![i] = r][i] = r
      /\ \A j \in 1 .. Len(q) : j # i => [q EXCEPT ![i] = r][j] = q[j]
  BY <1>3, <1>4, <1>5, CanonReplace
<1>7. Len(t) = Len(q) /\ t[i] = r /\ \A j \in 1 .. Len(q) : j # i => t[j] = q[j]
  BY <1>6
<1> HIDE DEF t
<1>8. ASSUME NEW x \in Nat
      PROVE  Covers(t, x) <=> (Covers(q, x) /\ ~(b <= x /\ x < q[i].base + q[i].size))
  <2>1. ASSUME NEW j \in 1 .. Len(q), Within(t[j], x)
        PROVE  Within(q[j], x) /\ ~(b <= x /\ x < q[i].base + q[i].size)
    <3>1. CASE j = i
      BY <1>1, <1>3, <1>7, <2>1, <3>1 DEF Within
    <3>2. CASE j # i
      <4>1. Within(q[j], x) /\ q[j].base \in Nat /\ q[j].size \in Nat /\ (j < i \/ i < j)
        BY <1>1, <1>7, <2>1, <3>2, RowIs
      <4>2. CASE j < i
        <5>1. q[j].base + q[j].size < q[i].base
          BY <4>2, RowsApart
        <5> QED BY <1>1, <4>1, <5>1 DEF Within
      <4>3. CASE i < j
        <5>1. q[i].base + q[i].size < q[j].base
          BY <4>3, RowsApart
        <5> QED BY <1>1, <4>1, <5>1 DEF Within
      <4> QED BY <4>1, <4>2, <4>3
    <3> QED BY <3>1, <3>2
  <2>2. ASSUME NEW j \in 1 .. Len(q), Within(q[j], x), ~(b <= x /\ x < q[i].base + q[i].size)
        PROVE  Within(t[j], x)
    <3>1. CASE j = i
      BY <1>1, <1>3, <1>7, <2>2, <3>1 DEF Within
    <3> QED BY <1>7, <2>2, <3>1
  <2> QED BY <1>7, <2>1, <2>2 DEF Covers
<1> QED BY <1>6, <1>8 DEF Minused, t

(* Writing and reading one of the tables.                                  *)
LEMMA TableOf ==
  ASSUME NEW m \in Tables, NEW type \in Types
  PROVE  /\ m[type] \in Table /\ m[type].regions \in Regions
         /\ m[type].max \in Nat /\ m[type].array \in Int
<1>1. m[type] \in Table
  BY DEF Tables, Types
<1> QED BY <1>1 DEF Table

(* A table put in the place of another.                                    *)
LEMMA PutIs ==
  ASSUME NEW m \in Tables, NEW type \in Types, NEW t \in Table
  PROVE  /\ [m EXCEPT ![type] = t] \in Tables
         /\ [m EXCEPT ![type] = t][type] = t
         /\ \A other \in Types : other # type => [m EXCEPT ![type] = t][other] = m[other]
         /\ [m EXCEPT ![type] = t].limit = m.limit
         /\ [m EXCEPT ![type] = t].canResize = m.canResize
<1>1. CASE type = "memory"
  BY <1>1 DEF Tables, Types
<1>2. CASE type = "reserved"
  BY <1>2 DEF Tables, Types
<1> QED BY <1>1, <1>2 DEF Types

(* Other rows for one table; all else stays.                               *)
LEMMA WithIs ==
  ASSUME NEW m \in Tables, NEW type \in Types, NEW q \in Regions
  PROVE  /\ With(m, type, q) \in Tables
         /\ With(m, type, q)[type].regions = q
         /\ With(m, type, q)[type].max = m[type].max
         /\ With(m, type, q)[type].array = m[type].array
         /\ \A other \in Types : other # type => With(m, type, q)[other] = m[other]
         /\ With(m, type, q).limit = m.limit
         /\ With(m, type, q).canResize = m.canResize
<1>1. PICK t : t = [m[type] EXCEPT !.regions = q]
  OBVIOUS
<1>2. t \in Table /\ t.regions = q /\ t.max = m[type].max /\ t.array = m[type].array
  BY <1>1, TableOf DEF Table
<1>3. With(m, type, q) = [m EXCEPT ![type] = t]
  BY <1>1 DEF With
<1>4. /\ [m EXCEPT ![type] = t] \in Tables
      /\ [m EXCEPT ![type] = t][type] = t
      /\ \A other \in Types : other # type => [m EXCEPT ![type] = t][other] = m[other]
      /\ [m EXCEPT ![type] = t].limit = m.limit
      /\ [m EXCEPT ![type] = t].canResize = m.canResize
  BY <1>2, PutIs
<1>5. PICK n : n = [m EXCEPT ![type] = t]
  OBVIOUS
<1>6. /\ n \in Tables /\ n[type] = t /\ n.limit = m.limit /\ n.canResize = m.canResize
      /\ \A other \in Types : other # type => n[other] = m[other]
  BY <1>4, <1>5
<1>7. With(m, type, q) = n
  BY <1>3, <1>5
<1> QED BY <1>2, <1>6, <1>7

(* Tables that agree in everything are the same.                           *)
LEMMA SameTables ==
  ASSUME NEW m \in Tables, NEW n \in Tables, m.limit = n.limit, m.canResize = n.canResize,
         \A type \in Types : /\ m[type].regions = n[type].regions
                             /\ m[type].max = n[type].max /\ m[type].array = n[type].array
  PROVE  m = n
<1>1. ASSUME NEW type \in Types PROVE m[type] = n[type]
  <2>1. m[type] \in Table /\ n[type] \in Table
    BY TableOf
  <2> QED BY <2>1 DEF Table
<1>2. m.memory = n.memory /\ m.reserved = n.reserved
  BY <1>1 DEF Types
<1> QED BY <1>2 DEF Tables

(* The rows a table has, put in again, change nothing.                     *)
LEMMA WithSelf ==
  ASSUME NEW m \in Tables, NEW type \in Types
  PROVE  With(m, type, m[type].regions) = m
<1>1. PICK n : n = With(m, type, m[type].regions)
  OBVIOUS
<1>2. /\ n \in Tables /\ n.limit = m.limit /\ n.canResize = m.canResize
      /\ n[type].regions = m[type].regions
      /\ n[type].max = m[type].max /\ n[type].array = m[type].array
      /\ \A other \in Types : other # type => n[other] = m[other]
  BY <1>1, TableOf, WithIs
<1>3. \A other \in Types : /\ n[other].regions = m[other].regions
                           /\ n[other].max = m[other].max /\ n[other].array = m[other].array
  BY <1>2
<1>4. n = m
  BY <1>2, <1>3, SameTables
<1> QED BY <1>1, <1>4

(* Of two sets of rows put in, the last one stays.                         *)
LEMMA WithTwice ==
  ASSUME NEW m \in Tables, NEW type \in Types, NEW p \in Regions, NEW q \in Regions
  PROVE  With(With(m, type, p), type, q) = With(m, type, q)
<1>1. PICK n, l, r : n = With(m, type, p) /\ l = With(n, type, q) /\ r = With(m, type, q)
  OBVIOUS
<1>2. /\ n \in Tables /\ n.limit = m.limit /\ n.canResize = m.canResize
      /\ n[type].max = m[type].max /\ n[type].array = m[type].array
      /\ \A other \in Types : other # type => n[other] = m[other]
  BY <1>1, WithIs
<1>3. /\ r \in Tables /\ r.limit = m.limit /\ r.canResize = m.canResize
      /\ r[type].regions = q /\ r[type].max = m[type].max /\ r[type].array = m[type].array
      /\ \A other \in Types : other # type => r[other] = m[other]
  BY <1>1, WithIs
<1>4. /\ l \in Tables /\ l.limit = n.limit /\ l.canResize = n.canResize
      /\ l[type].regions = q /\ l[type].max = n[type].max /\ l[type].array = n[type].array
      /\ \A other \in Types : other # type => l[other] = n[other]
  BY <1>1, <1>2, WithIs
<1>5. \A other \in Types : /\ l[other].regions = r[other].regions
                           /\ l[other].max = r[other].max /\ l[other].array = r[other].array
  BY <1>2, <1>3, <1>4
<1>6. l = r
  BY <1>2, <1>3, <1>4, <1>5, SameTables
<1> QED BY <1>1, <1>6

(* The table type twice as large.                                          *)
LEMMA MovedIs ==
  ASSUME NEW m \in Tables, NEW type \in Types, NEW a \in Int
  PROVE  /\ Moved(m, type, a) \in Tables
         /\ Moved(m, type, a)[type].regions = m[type].regions
         /\ Moved(m, type, a)[type].max = 2 * m[type].max
         /\ Moved(m, type, a)[type].array = a
         /\ \A other \in Types : other # type => Moved(m, type, a)[other] = m[other]
         /\ Moved(m, type, a).limit = m.limit
         /\ Moved(m, type, a).canResize = m.canResize
<1>1. PICK t : t = [regions |-> m[type].regions, max |-> 2 * m[type].max, array |-> a]
  OBVIOUS
<1>2. 2 * m[type].max \in Nat /\ m[type].regions \in Regions
  BY TableOf
<1>3. t \in Table /\ t.regions = m[type].regions /\ t.max = 2 * m[type].max /\ t.array = a
  BY <1>1, <1>2 DEF Table
<1>4. Moved(m, type, a) = [m EXCEPT ![type] = t]
  BY <1>1 DEF Moved
<1>5. /\ [m EXCEPT ![type] = t] \in Tables
      /\ [m EXCEPT ![type] = t][type] = t
      /\ \A other \in Types : other # type => [m EXCEPT ![type] = t][other] = m[other]
      /\ [m EXCEPT ![type] = t].limit = m.limit
      /\ [m EXCEPT ![type] = t].canResize = m.canResize
  BY <1>3, PutIs
<1>6. PICK n : n = [m EXCEPT ![type] = t]
  OBVIOUS
<1>7. /\ n \in Tables /\ n[type] = t /\ n.limit = m.limit /\ n.canResize = m.canResize
      /\ \A other \in Types : other # type => n[other] = m[other]
  BY <1>5, <1>6
<1>8. Moved(m, type, a) = n
  BY <1>4, <1>6
<1> QED BY <1>3, <1>7, <1>8

-----------------------------------------------------------------------------
(* Tables between two calls: canonical, and with room for one more row, or *)
(* not set up.                                                             *)
Roomy(t) ==
  \/ t.max = 0 /\ t.regions = <<>>
  \/ t.max >= 2 /\ Len(t.regions) >= 1 /\ Len(t.regions) < t.max

Sound(m) ==
  /\ m \in Tables
  /\ \A type \in Types : Canon(m[type].regions) /\ Roomy(m[type])

Plused(p, q, b, e) ==
  \A x \in Nat : Covers(p, x) <=> (Covers(q, x) \/ (b <= x /\ x < e))

(* A table of one region.                                                  *)
LEMMA SingleIs ==
  ASSUME NEW b \in Nat, NEW e \in Nat, b < e, e <= Top
  PROVE  /\ Canon(<<Region(b, e - b)>>) /\ Len(<<Region(b, e - b)>>) = 1
         /\ \A x \in Nat : Covers(<<Region(b, e - b)>>, x) <=> (b <= x /\ x < e)
<1>1. PICK r, q : r = Region(b, e - b) /\ q = <<r>>
  OBVIOUS
<1>2. e - b \in Nat /\ e - b > 0 /\ b + (e - b) = e
  OBVIOUS
<1>3. r \in Row /\ r.base = b /\ r.size = e - b
  BY <1>1, <1>2 DEF Region, Row
<1>4. q \in Seq(Row) /\ Len(q) = 1 /\ q[1] = r
  BY <1>1, <1>3
<1>5. \A i \in 1 .. Len(q) : i = 1
  BY <1>4
<1>6. \A i \in 1 .. Len(q) : q[i].base + q[i].size <= Top /\ q[i].size > 0
  BY <1>2, <1>3, <1>4, <1>5
<1>7. \A i, j \in 1 .. Len(q) : ~(i < j)
  BY <1>5
<1>8. Canon(q)
  BY <1>4, <1>6, <1>7 DEF Canon
<1>9. ASSUME NEW x \in Nat PROVE Covers(q, x) <=> (b <= x /\ x < e)
  <2>1. Within(r, x) <=> (b <= x /\ x < e)
    BY <1>2, <1>3 DEF Within
  <2>2. Covers(q, x) <=> Within(r, x)
    BY <1>4, <1>5 DEF Covers
  <2> QED BY <2>1, <2>2
<1> QED BY <1>1, <1>4, <1>8, <1>9

(* A canonical table of a region of no size is the filler.                 *)
LEMMA FillerOnly ==
  ASSUME NEW q, Canon(q)
  PROVE  q = <<Filler>> <=> (Len(q) = 1 /\ q[1].size = 0)
<1>1. ASSUME Len(q) = 1, q[1].size = 0 PROVE q = <<Filler>>
  <2>1. 1 \in 1 .. Len(q)
    BY <1>1
  <2>2. q[1].size > 0 \/ q = <<Filler>>
    BY <2>1 DEF Canon
  <2> QED BY <1>1, <2>2
<1> QED BY <1>1, FillerIs

(* The body of memblock_add_region, with doubled what growing comes to.    *)
AddsRow(m, type, b, e, q) ==
  /\ Canon(q) /\ Len(q) >= 1 /\ Len(q) <= Len(m[type].regions) + 1
  /\ Plused(q, m[type].regions, b, e)

(* The body of memblock_add_region: the range is in, or the table is full  *)
(* and cannot grow and nothing is changed, or it is full and grows.        *)
Landed(m, type, b, e, doubled) ==
  \/ \E q : /\ AddsRow(m, type, b, e, q) /\ Len(q) < m[type].max
            /\ AddBody(m, type, b, e, doubled) = Result("ok", With(m, type, q))
  \/ /\ m[type].max = 0 \/ (doubled.rc = "fail" /\ Len(m[type].regions) + 1 = m[type].max)
     /\ AddBody(m, type, b, e, doubled) = Result("fail", m)
  \/ /\ doubled.rc # "fail" /\ Len(m[type].regions) + 1 = m[type].max
     /\ \E q : /\ AddsRow(m, type, b, e, q) /\ Len(q) = m[type].max
               /\ Added(m, type, b, e) = With(m, type, q)
     /\ AddBody(m, type, b, e, doubled) = doubled

(* What memblock_add_region comes to, given what growing comes to.         *)
LEMMA AddBodyIs ==
  ASSUME NEW m, Sound(m), NEW type \in Types, NEW b \in Nat, NEW e \in Nat, b < e, e <= Top,
         NEW doubled
  PROVE  Landed(m, type, b, e, doubled)
<1> SUFFICES \/ \E q : /\ AddsRow(m, type, b, e, q) /\ Len(q) < m[type].max
                       /\ AddBody(m, type, b, e, doubled) = Result("ok", With(m, type, q))
             \/ /\ m[type].max = 0 \/ (doubled.rc = "fail" /\ Len(m[type].regions) + 1 = m[type].max)
                /\ AddBody(m, type, b, e, doubled) = Result("fail", m)
             \/ /\ doubled.rc # "fail" /\ Len(m[type].regions) + 1 = m[type].max
                /\ \E q : /\ AddsRow(m, type, b, e, q) /\ Len(q) = m[type].max
                          /\ Added(m, type, b, e) = With(m, type, q)
                /\ AddBody(m, type, b, e, doubled) = doubled
  BY DEF Landed
<1>1. PICK q0, max, s : q0 = m[type].regions /\ max = m[type].max /\ s = Coalesced(q0, b, e)
  OBVIOUS
<1>2. m \in Tables /\ Canon(q0) /\ q0 \in Regions /\ max \in Nat /\ Len(q0) \in Nat
      /\ ((max = 0 /\ q0 = <<>>) \/ (max >= 2 /\ Len(q0) >= 1 /\ Len(q0) < max))
  BY <1>1, TableOf, LenProperties DEF Sound, Roomy, Canon
<1>3. PICK Q, p, over : Q = s.regions /\ p = s.base /\ over = s.over
  OBVIOUS
<1>4. /\ Coalesced(q0, b, e) \in Merge
      /\ Canon(Coalesced(q0, b, e).regions)
      /\ Len(Coalesced(q0, b, e).regions) <= Len(q0)
      /\ Len(q0) >= 1 => Len(Coalesced(q0, b, e).regions) >= 1
      /\ Coalesced(q0, b, e).base < e
      /\ MergedSame(Coalesced(q0, b, e), q0, b, e)
      /\ MergedLess(Coalesced(q0, b, e), q0, b)
      /\ \/ Coalesced(q0, b, e).over
         \/ Coalesced(q0, b, e).regions = <<Filler>>
         \/ Apart(Coalesced(q0, b, e).regions, Coalesced(q0, b, e).base, e)
  BY <1>2, CoalescedIs
<1>5. /\ Canon(Q) /\ Len(Q) <= Len(q0) /\ (Len(q0) >= 1 => Len(Q) >= 1)
      /\ p \in Nat /\ p < e /\ over \in BOOLEAN /\ Q \in Regions /\ Len(Q) \in Nat
      /\ \A x \in Nat : (Covers(Q, x) \/ (~over /\ p <= x /\ x < e))
                          <=> (Covers(q0, x) \/ (b <= x /\ x < e))
      /\ over \/ Q = <<Filler>> \/ Len(Q) < Len(q0) \/ (Q = q0 /\ p = b)
      /\ over \/ Q = <<Filler>> \/ Apart(Q, p, e)
  <2>1. p \in Nat /\ over \in BOOLEAN /\ Q \in Regions /\ Canon(Q)
    BY <1>1, <1>3, <1>4 DEF Merge
  <2>2. Len(Q) \in Nat
    BY <2>1, LenProperties DEF Canon
  <2> QED BY <1>1, <1>3, <1>4, <2>1, <2>2 DEF MergedSame, MergedLess
<1>6. PICK slot, t : slot = Slot(Q, p) /\ t = InsertAt(Q, slot, Region(p, e - p))
  OBVIOUS
<1>7. Added(m, type, b, e) = With(m, type, t)
  BY <1>1, <1>3, <1>6 DEF Added, Inserted
<1>8. PICK R : R = AddBody(m, type, b, e, doubled)
  OBVIOUS
<1>9. R = IF over THEN Result("ok", With(m, type, Q))
          ELSE IF Len(Q) = 1 /\ Q[1].size = 0
            THEN Result("ok", With(m, type, <<Region(p, e - p)>>))
          ELSE IF Len(Q) >= max THEN Result("fail", With(m, type, Q))
          ELSE IF Len(Q) + 1 < max THEN Result("ok", With(m, type, t))
          ELSE IF doubled.rc = "fail"
            THEN Result("fail", With(m, type, RemoveRegion(With(m, type, t)[type].regions, slot)))
          ELSE doubled
  BY <1>1, <1>3, <1>6, <1>7, <1>8 DEF AddBody, AddMerged, Added, Inserted
<1>10. CASE over
  <2>1. R = Result("ok", With(m, type, Q))
    BY <1>9, <1>10
  <2>2. Plused(Q, q0, b, e)
    BY <1>5, <1>10 DEF Plused
  <2>3. max # 0
    <3> SUFFICES ASSUME max = 0 PROVE FALSE
      OBVIOUS
    <3>1. q0 = <<>> /\ Len(q0) = 0
      BY <1>2
    <3>2. Len(Q) = 0
      BY <1>5, <3>1
    <3>3. ~Covers(Q, b)
      BY <3>2 DEF Covers
    <3> QED BY <2>2, <3>3 DEF Plused
  <2>4. Len(Q) >= 1 /\ Len(Q) <= Len(q0) + 1 /\ Len(Q) < max
    BY <1>2, <1>5, <2>3
  <2> QED BY <1>1, <1>5, <1>8, <2>1, <2>2, <2>4 DEF AddsRow
<1>11. CASE ~over /\ Q = <<Filler>>
  <2>1. Len(Q) = 1 /\ Q[1].size = 0
    BY <1>5, <1>11, FillerOnly
  <2>2. PICK u : u = <<Region(p, e - p)>>
    OBVIOUS
  <2>3. R = Result("ok", With(m, type, u))
    BY <1>9, <1>11, <2>1, <2>2
  <2>4. /\ Canon(u) /\ Len(u) = 1
        /\ \A x \in Nat : Covers(u, x) <=> (p <= x /\ x < e)
    BY <1>5, <2>2, SingleIs
  <2>5. Plused(u, q0, b, e)
    <3> SUFFICES ASSUME NEW x \in Nat PROVE Covers(u, x) <=> (Covers(q0, x) \/ (b <= x /\ x < e))
      BY DEF Plused
    <3>1. ~Covers(Q, x)
      BY <1>11, FillerIs
    <3> QED BY <1>5, <1>11, <2>4, <3>1
  <2>6. Len(u) >= 1 /\ Len(u) <= Len(q0) + 1 /\ Len(u) < max
    BY <1>2, <1>5, <2>1, <2>4
  <2> QED BY <1>1, <1>8, <2>3, <2>4, <2>5, <2>6 DEF AddsRow
<1>12. CASE ~over /\ Q # <<Filler>>
  <2>1. ~(Len(Q) = 1 /\ Q[1].size = 0)
    BY <1>5, <1>12, FillerOnly
  <2>2. /\ Canon(t) /\ Len(t) = Len(Q) + 1
        /\ \A x \in Nat : Covers(t, x) <=> (Covers(Q, x) \/ (p <= x /\ x < e))
        /\ Q # <<>> => RemoveRegion(t, slot) = Q
    BY <1>5, <1>6, <1>12, InsertedIs
  <2>3. Plused(t, q0, b, e)
    BY <1>5, <1>12, <2>2 DEF Plused
  <2>4. t \in Regions
    BY <2>2, RegionsRow DEF Canon
  <2>5. CASE max = 0
    <3>1. Len(Q) >= max /\ Len(Q) = 0 /\ q0 = <<>>
      BY <1>2, <1>5, <2>5
    <3>2. Q = q0
      <4>1. Q \in Seq(Row)
        BY <1>5 DEF Canon
      <4> QED BY <3>1, <4>1, EmptySeq
    <3>3. With(m, type, Q) = m
      BY <1>1, <1>2, <3>2, WithSelf
    <3>4. R = Result("fail", m)
      BY <1>9, <1>12, <2>1, <3>1, <3>3
    <3> QED BY <1>1, <1>8, <2>5, <3>4
  <2>6. CASE max # 0 /\ Len(Q) + 1 < max
    <3>1. ~(Len(Q) >= max) /\ Len(t) >= 1 /\ Len(t) <= Len(q0) + 1 /\ Len(t) < max
      BY <1>2, <1>5, <2>2, <2>6
    <3>2. R = Result("ok", With(m, type, t))
      BY <1>9, <1>12, <2>1, <2>6, <3>1
    <3> QED BY <1>1, <1>8, <2>2, <2>3, <3>1, <3>2 DEF AddsRow
  <2>7. CASE max # 0 /\ ~(Len(Q) + 1 < max)
    <3>1. ~(Len(Q) >= max) /\ Len(Q) = Len(q0) /\ Len(q0) + 1 = max /\ Len(Q) >= 1
      BY <1>2, <1>5, <2>7
    <3>2. Q = q0 /\ p = b
      BY <1>5, <1>12, <3>1
    <3>3. Q # <<>>
      <4>1. Len(<<>>) = 0
        OBVIOUS
      <4> QED BY <3>1, <4>1
    <3>4. CASE doubled.rc = "fail"
      <4>1. R = Result("fail", With(m, type, RemoveRegion(With(m, type, t)[type].regions, slot)))
        BY <1>9, <1>12, <2>1, <2>7, <3>1, <3>4
      <4>2. With(m, type, t)[type].regions = t
        BY <1>2, <2>4, WithIs
      <4>3. RemoveRegion(t, slot) = q0
        BY <2>2, <3>2, <3>3
      <4>4. With(m, type, q0) = m
        BY <1>1, <1>2, WithSelf
      <4>5. R = Result("fail", m)
        BY <4>1, <4>2, <4>3, <4>4
      <4> QED BY <1>1, <1>8, <3>1, <3>4, <4>5
    <3>5. CASE doubled.rc # "fail"
      <4>1. R = doubled
        BY <1>9, <1>12, <2>1, <2>7, <3>1, <3>5
      <4>2. Len(t) >= 1 /\ Len(t) <= Len(q0) + 1 /\ Len(t) = max
        BY <1>2, <2>2, <3>1
      <4>3. AddsRow(m, type, b, e, t)
        BY <1>1, <2>2, <2>3, <4>2 DEF AddsRow
      <4> QED BY <1>1, <1>7, <1>8, <3>1, <3>5, <4>1, <4>2, <4>3
    <3> QED BY <3>4, <3>5
  <2> QED BY <2>5, <2>6, <2>7
<1> QED BY <1>5, <1>10, <1>11, <1>12

(* A row put back.                                                         *)
LEMMA RestoredIs ==
  ASSUME NEW S, NEW q \in Seq(S), NEW i \in 1 .. Len(q), NEW e \in S, NEW f, f = q[i]
  PROVE  [[q EXCEPT ![i] = e] EXCEPT ![i] = f] = q
<1>1. PICK p : p = [q EXCEPT ![i] = e]
  OBVIOUS
<1>2. /\ p \in Seq(S) /\ Len(p) = Len(q)
      /\ \A j \in 1 .. Len(q) : j # i => p[j] = q[j]
  <2>1. /\ [q EXCEPT ![i] = e] \in Seq(S) /\ Len([q EXCEPT ![i] = e]) = Len(q)
        /\ \A j \in 1 .. Len(q) : j # i => [q EXCEPT ![i] = e][j] = q[j]
    BY ReplaceIs
  <2> QED BY <1>1, <2>1
<1>3. f \in S /\ i \in 1 .. Len(p)
  BY <1>2, ElementOfSeq
<1>4. PICK r : r = [p EXCEPT ![i] = f]
  OBVIOUS
<1>5. /\ r \in Seq(S) /\ Len(r) = Len(p) /\ r[i] = f
      /\ \A j \in 1 .. Len(p) : j # i => r[j] = p[j]
  <2>1. /\ [p EXCEPT ![i] = f] \in Seq(S) /\ Len([p EXCEPT ![i] = f]) = Len(p)
        /\ [p EXCEPT ![i] = f][i] = f
        /\ \A j \in 1 .. Len(p) : j # i => [p EXCEPT ![i] = f][j] = p[j]
    BY <1>2, <1>3, ReplaceIs
  <2> QED BY <1>4, <2>1
<1>6. Len(r) = Len(q) /\ \A j \in 1 .. Len(q) : r[j] = q[j]
  BY <1>2, <1>5
<1>7. \A j \in 1 .. Len(r) : r[j] = q[j]
  BY <1>6
<1>8. r = q
  BY <1>5, <1>6, <1>7, SeqEqual
<1> QED BY <1>1, <1>4, <1>8

(* The body of __memblock_remove, with split what adding the rest of a     *)
(* region comes to.                                                        *)
TakesOut(m, type, b, e, q) ==
  /\ Canon(q) /\ Len(q) <= Len(m[type].regions)
  /\ Len(m[type].regions) >= 1 => Len(q) >= 1
  /\ Minused(q, m[type].regions, b, e)

(* The range lies inside a row, which is shortened to what is below it;    *)
(* the rest, e .. z - 1, is to be added again.                             *)
Splits(m, type, b, e, split, short, z) ==
  /\ Canon(short) /\ Len(short) = Len(m[type].regions) /\ m[type].max >= 2
  /\ z \in Nat /\ e < z /\ z <= Top
  /\ Minused(short, m[type].regions, b, z)
  /\ \A p : Plused(p, short, e, z) => Minused(p, m[type].regions, b, e)
  /\ Shortened(m, type, b, e) = With(m, type, short)
  /\ RestEnd(m, type, b, e) = z
  /\ split.rc # "fail" => RemoveBody(m, type, b, e, split) = split
  /\ (split.rc = "fail" /\ split.m = With(m, type, short))
        => RemoveBody(m, type, b, e, split) = Result("fail", m)

(* The body of __memblock_remove: the range is out, or a region is to be   *)
(* split and what is left above it added again.                            *)
LEMMA RemoveBodyIs ==
  ASSUME NEW m, Sound(m), NEW type \in Types, NEW b \in Nat, NEW e \in Nat, b < e, e <= Top,
         NoneAt(m[type].regions, e), NEW split
  PROVE  \/ \E q : /\ TakesOut(m, type, b, e, q)
                   /\ RemoveBody(m, type, b, e, split) = Result("ok", With(m, type, q))
         \/ \E short, z : Splits(m, type, b, e, split, short, z)
<1>1. PICK q0, max, s : q0 = m[type].regions /\ max = m[type].max /\ s = Walked(q0, b, e)
  OBVIOUS
<1>2. m \in Tables /\ Canon(q0) /\ q0 \in Regions /\ max \in Nat /\ Len(q0) \in Nat
      /\ ((max = 0 /\ q0 = <<>>) \/ (max >= 2 /\ Len(q0) >= 1 /\ Len(q0) < max))
  BY <1>1, TableOf, LenProperties DEF Sound, Roomy, Canon
<1>3. PICK R : R = RemoveBody(m, type, b, e, split)
  OBVIOUS
<1>4. R = IF s.over # "split" THEN Result("ok", With(m, type, s.regions))
          ELSE IF split.rc # "fail" THEN split
          ELSE Result("fail", With(m, type, [split.m[type].regions EXCEPT ![s.i] = s.regions[s.i]]))
  BY <1>1, <1>3 DEF RemoveBody
<1>5. CASE max = 0 /\ q0 = <<>>
  <2>1. s.regions = q0 /\ s.over = "no"
    BY <1>1, <1>5, WalkedNone
  <2>2. R = Result("ok", With(m, type, q0))
    BY <1>4, <2>1
  <2>3. Minused(q0, q0, b, e)
    <3>1. Len(q0) = 0
      BY <1>5
    <3>2. \A x \in Nat : ~Covers(q0, x)
      BY <3>1 DEF Covers
    <3> QED BY <3>2 DEF Minused
  <2>4. TakesOut(m, type, b, e, q0)
    BY <1>1, <1>2, <2>3 DEF TakesOut
  <2> QED BY <1>3, <2>2, <2>4
<1>6. CASE max >= 2 /\ Len(q0) >= 1 /\ Len(q0) < max
  <2>1. /\ s \in Cut /\ Canon(s.regions) /\ Len(s.regions) <= Len(q0) /\ Len(s.regions) >= 1
        /\ s.over = "split" => /\ s.regions = q0 /\ s.i \in 1 .. Len(q0)
                               /\ q0[s.i].base < b /\ e < q0[s.i].base + q0[s.i].size
        /\ s.over # "split" => Minused(s.regions, q0, b, e)
    BY <1>1, <1>2, <1>6, WalkedIs
  <2>2. CASE s.over # "split"
    <3>1. R = Result("ok", With(m, type, s.regions))
      BY <1>4, <2>2
    <3>2. TakesOut(m, type, b, e, s.regions)
      BY <1>1, <2>1, <2>2 DEF TakesOut
    <3> QED BY <1>3, <3>1, <3>2
  <2>3. CASE s.over = "split"
    <3>1. PICK i : i = s.i
      OBVIOUS
    <3>2. s.regions = q0 /\ i \in 1 .. Len(q0) /\ q0[i].base < b /\ e < q0[i].base + q0[i].size
      BY <2>1, <2>3, <3>1
    <3>3. /\ q0[i] \in Row /\ q0[i].base \in Nat /\ q0[i].size \in Nat
          /\ q0[i].base + q0[i].size <= Top /\ End(q0[i]) = q0[i].base + q0[i].size
      BY <1>2, <3>2, RowIs
    <3>4. PICK r, short, z : /\ r = Region(q0[i].base, b - q0[i].base)
                             /\ short = [q0 EXCEPT ![i] = r]
                             /\ z = q0[i].base + q0[i].size
      OBVIOUS
    <3>5. b < q0[i].base + q0[i].size /\ r = Region(q0[i].base, b - q0[i].base)
      BY <3>2, <3>3, <3>4
    <3>6. /\ Canon([q0 EXCEPT ![i] = r]) /\ Len([q0 EXCEPT ![i] = r]) = Len(q0)
          /\ \A j \in 1 .. Len(q0) : j # i => [q0 EXCEPT ![i] = r][j] = q0[j]
          /\ Minused([q0 EXCEPT ![i] = r], q0, b, q0[i].base + q0[i].size)
      BY <1>2, <3>2, <3>5, ShortenedIs
    <3>7. Canon(short) /\ Len(short) = Len(q0) /\ Minused(short, q0, b, z)
      BY <3>4, <3>6
    <3>8. z \in Nat /\ e < z /\ z <= Top
      BY <3>2, <3>3, <3>4
    <3>9. Shortened(m, type, b, e) = With(m, type, short)
      BY <1>1, <3>1, <3>2, <3>4 DEF Shortened
    <3>10. RestEnd(m, type, b, e) = z
      BY <1>1, <3>1, <3>2, <3>3, <3>4 DEF RestEnd
    <3>11. ASSUME NEW x \in Nat, b <= x, x < z PROVE Covers(q0, x)
      <4>1. q0[i].base <= x /\ x < q0[i].base + q0[i].size
        BY <3>2, <3>3, <3>4, <3>11
      <4> QED BY <3>2, <4>1 DEF Covers, Within
    <3>12. ASSUME NEW p, Plused(p, short, e, z) PROVE Minused(p, q0, b, e)
      <4> SUFFICES ASSUME NEW x \in Nat
                   PROVE  Covers(p, x) <=> (Covers(q0, x) /\ ~(b <= x /\ x < e))
        BY DEF Minused
      <4>1. Covers(p, x) <=> (Covers(short, x) \/ (e <= x /\ x < z))
        BY <3>12 DEF Plused
      <4>2. Covers(short, x) <=> (Covers(q0, x) /\ ~(b <= x /\ x < z))
        BY <3>7 DEF Minused
      <4>3. CASE e <= x /\ x < z
        <5>1. b <= x /\ ~(x < e)
          BY <4>3
        <5>2. Covers(q0, x)
          BY <3>11, <4>3, <5>1
        <5> QED BY <4>1, <4>3, <5>1, <5>2
      <4>4. CASE ~(e <= x /\ x < z)
        <5>1. (b <= x /\ x < z) <=> (b <= x /\ x < e)
          BY <3>8, <4>4
        <5> QED BY <4>1, <4>2, <4>4, <5>1
      <4> QED BY <4>3, <4>4
    <3>13. ASSUME split.rc = "fail", split.m = With(m, type, short) PROVE R = Result("fail", m)
      <4>1. R = Result("fail", With(m, type, [split.m[type].regions EXCEPT ![i] = q0[i]]))
        BY <1>4, <2>3, <3>1, <3>2, <3>13
      <4>2. short \in Regions
        BY <3>7, RegionsRow DEF Canon
      <4>3. split.m[type].regions = short
        BY <1>2, <3>13, <4>2, WithIs
      <4>4. [short EXCEPT ![i] = q0[i]] = q0
        <5>1. q0 \in Seq(Row) /\ r \in Row
          <6>1. b - q0[i].base \in Nat
            BY <3>2, <3>3
          <6> QED BY <1>2, <3>3, <3>4, <6>1 DEF Canon, Region, Row
        <5>2. PICK f : f = q0[i]
          OBVIOUS
        <5>3. [[q0 EXCEPT ![i] = r] EXCEPT ![i] = f] = q0
          BY <3>2, <5>1, <5>2, RestoredIs
        <5> QED BY <3>4, <5>2, <5>3
      <4>5. With(m, type, q0) = m
        BY <1>1, <1>2, WithSelf
      <4> QED BY <4>1, <4>3, <4>4, <4>5
    <3>14. split.rc # "fail" => R = split
      BY <1>4, <2>3
    <3>15. Splits(m, type, b, e, split, short, z)
      BY <1>1, <1>3, <1>6, <3>7, <3>8, <3>9, <3>10, <3>12, <3>13, <3>14 DEF Splits
    <3> QED BY <3>15
  <2> QED BY <2>2, <2>3
<1> QED BY <1>2, <1>5, <1>6

(* The greatest aligned number below one.                                  *)
LEMMA AlignDownIs ==
  ASSUME NEW a \in Nat, NEW align \in Aligns
  PROVE  /\ AlignDown(a, align) \in Nat /\ AlignDown(a, align) <= a
         /\ AlignDown(a, align) % align = 0
         /\ \A b \in Nat : b % align = 0 /\ b <= a => b <= AlignDown(a, align)
<1>1. CASE align = 1
  BY <1>1 DEF AlignDown
<1>2. CASE align = 2
  BY <1>2 DEF AlignDown
<1> QED BY <1>1, <1>2 DEF Aligns

(* memblock_overlaps_region finds a region that meets the range, if any.   *)
Clear(q, b, e) == \A x \in Nat : ~(b <= x /\ x < e /\ Covers(q, x))

(* memblock_overlaps_region names a row that is hit, or none is.           *)
LEMMA OverlapsIs ==
  ASSUME NEW q, Canon(q), NEW b \in Nat, NEW n \in Nat, n >= 1
  PROVE  /\ OverlapsRegion(q, b, n) \in 0 .. Len(q)
         /\ OverlapsRegion(q, b, n) = 0 <=> Clear(q, b, b + n)
         /\ OverlapsRegion(q, b, n) # 0 =>
              /\ b < q[OverlapsRegion(q, b, n)].base + q[OverlapsRegion(q, b, n)].size
              /\ q[OverlapsRegion(q, b, n)].base < b + n
              /\ q[OverlapsRegion(q, b, n)].size > 0
<1> DEFINE H == Hits(q, b, n)
<1>1. Len(q) \in Nat
  BY LenProperties DEF Canon
<1>2. H \in SUBSET Nat /\ H \subseteq 1 .. Len(q)
  BY <1>1 DEF Hits
<1>3. \A i \in 1 .. Len(q) : i \in H <=> (b < q[i].base + q[i].size /\ q[i].base < b + n)
  BY RowIs DEF Hits
<1>4. OverlapsRegion(q, b, n) = IF H = {} THEN 0 ELSE Min(H)
  BY DEF OverlapsRegion
<1> HIDE DEF H
<1>5. ASSUME NEW i \in H
      PROVE  i \in 1 .. Len(q) /\ q[i].size > 0 /\ \E x \in Nat : b <= x /\ x < b + n /\ Covers(q, x)
  <2>1. i \in 1 .. Len(q)
    BY <1>2
  <2>2. q[i].base \in Nat /\ q[i].size \in Nat /\ b < q[i].base + q[i].size /\ q[i].base < b + n
    BY <1>3, <2>1, RowIs
  <2>3. q[i].size > 0
    <3>1. ASSUME q[i].size = 0 PROVE FALSE
      <4>1. q[i].base = 0
        <5>1. q[i].size > 0 \/ q = <<Filler>>
          BY <2>1 DEF Canon
        <5>2. q = <<Filler>>
          BY <3>1, <5>1
        <5>3. i = 1
          BY <2>1, <5>2, FillerIs
        <5> QED BY <5>2, <5>3, FillerIs
      <4> QED BY <2>2, <3>1, <4>1
    <3> QED BY <2>2, <3>1
  <2>4. PICK x \in Nat : x = IF b < q[i].base THEN q[i].base ELSE b
    BY <2>2
  <2>5. b <= x /\ x < b + n /\ q[i].base <= x /\ x < q[i].base + q[i].size
    BY <2>2, <2>3, <2>4
  <2>6. Covers(q, x)
    BY <2>1, <2>5 DEF Covers, Within
  <2> QED BY <2>1, <2>3, <2>5, <2>6
<1>6. CASE H = {}
  <2>1. Clear(q, b, b + n)
    <3> SUFFICES ASSUME NEW x \in Nat, b <= x, x < b + n, Covers(q, x) PROVE FALSE
      BY DEF Clear
    <3>1. PICK i \in 1 .. Len(q) : Within(q[i], x)
      BY DEF Covers
    <3>2. q[i].base \in Nat /\ q[i].size \in Nat /\ q[i].base <= x /\ x < q[i].base + q[i].size
      BY <3>1, RowIs DEF Within
    <3>3. b < q[i].base + q[i].size /\ q[i].base < b + n
      BY <3>2
    <3> QED BY <1>3, <1>6, <3>3
  <2> QED BY <1>1, <1>4, <1>6, <2>1
<1>7. CASE H # {}
  <2>1. PICK j : j = Min(H)
    OBVIOUS
  <2>2. j \in H
    BY <1>2, <1>7, <2>1, LeastNat
  <2>3. j \in 1 .. Len(q) /\ j # 0 /\ q[j].size > 0 /\ b < q[j].base + q[j].size /\ q[j].base < b + n
    BY <1>1, <1>3, <1>5, <2>2
  <2>4. ~Clear(q, b, b + n)
    BY <1>5, <2>2 DEF Clear
  <2>5. OverlapsRegion(q, b, n) = j
    BY <1>4, <1>7, <2>1
  <2> QED BY <1>1, <2>3, <2>4, <2>5
<1> QED BY <1>6, <1>7

-----------------------------------------------------------------------------
(* A place to find: aligned, in the range, and free.                       *)
Place(q, low, end, n, align, b) ==
  /\ b \in Nat /\ b % align = 0 /\ low <= b /\ b + n <= end
  /\ Clear(q, b, b + n)

SearchStopped(q, low, n, base) ==
  \/ base < low
  \/ OverlapsRegion(q, base, n) = 0
  \/ q[OverlapsRegion(q, base, n)].base < n

(* After k turns no place is above, and the regions hit are below k.       *)
Searching(q, low, end, n, align, k) ==
  {base \in Nat :
     /\ base + n <= end /\ base % align = 0
     /\ \A b \in Nat : Place(q, low, end, n, align, b) => b <= base
     /\ SearchStopped(q, low, n, base) \/ OverlapsRegion(q, base, n) <= Len(q) - k}

(* One jump of the search, and no free place is jumped over.               *)
LEMMA SearchDownTurn ==
  ASSUME NEW q, Canon(q), NEW low \in Nat, NEW end \in Nat, NEW n \in Nat, n >= 1,
         NEW align \in Aligns, NEW k \in Nat, NEW base \in Searching(q, low, end, n, align, k)
  PROVE  SearchDown(q, low, n, align)[base] \in Searching(q, low, end, n, align, k + 1)
<1>1. /\ base \in Nat /\ base + n <= end /\ base % align = 0
      /\ \A b \in Nat : Place(q, low, end, n, align, b) => b <= base
      /\ SearchStopped(q, low, n, base) \/ OverlapsRegion(q, base, n) <= Len(q) - k
  BY DEF Searching
<1>2. PICK j, t : j = OverlapsRegion(q, base, n) /\ t = SearchDown(q, low, n, align)[base]
  OBVIOUS
<1>3. t = IF SearchStopped(q, low, n, base) THEN base ELSE AlignDown(q[j].base - n, align)
  BY <1>1, <1>2 DEF SearchDown, SearchStopped
<1>4. CASE SearchStopped(q, low, n, base)
  <2>1. t = base
    BY <1>3, <1>4
  <2> QED BY <1>1, <1>2, <1>4, <2>1 DEF Searching
<1>5. CASE ~SearchStopped(q, low, n, base)
  <2>1. j # 0 /\ ~(base < low) /\ ~(q[j].base < n) /\ j <= Len(q) - k
    BY <1>1, <1>2, <1>5 DEF SearchStopped
  <2>2. /\ OverlapsRegion(q, base, n) \in 0 .. Len(q)
        /\ OverlapsRegion(q, base, n) # 0 =>
              /\ base < q[OverlapsRegion(q, base, n)].base + q[OverlapsRegion(q, base, n)].size
              /\ q[OverlapsRegion(q, base, n)].base < base + n
              /\ q[OverlapsRegion(q, base, n)].size > 0
    BY <1>1, OverlapsIs
  <2>3. Len(q) \in Nat
    BY LenProperties DEF Canon
  <2>4. j \in 1 .. Len(q) /\ base < q[j].base + q[j].size /\ q[j].base < base + n /\ q[j].size > 0
    BY <1>2, <2>1, <2>2, <2>3
  <2>5. q[j].base \in Nat /\ q[j].size \in Nat
    BY <2>4, RowIs
  <2>6. PICK a \in Nat : a = q[j].base - n
    BY <2>1, <2>5
  <2>7. t = AlignDown(a, align)
    BY <1>3, <1>5, <2>6
  <2>8. /\ AlignDown(a, align) \in Nat /\ AlignDown(a, align) <= a
        /\ AlignDown(a, align) % align = 0
        /\ \A b \in Nat : b % align = 0 /\ b <= a => b <= AlignDown(a, align)
    BY AlignDownIs
  <2>9. t \in Nat /\ t <= a /\ t % align = 0 /\ \A b \in Nat : b % align = 0 /\ b <= a => b <= t
    BY <2>7, <2>8
  <2>10. t + n <= q[j].base /\ t + n <= end
    BY <1>1, <2>4, <2>5, <2>6, <2>9
  <2>11. ASSUME NEW b \in Nat, Place(q, low, end, n, align, b) PROVE b <= t
    <3>1. b <= base /\ b % align = 0 /\ Clear(q, b, b + n)
      BY <1>1, <2>11 DEF Place
    <3>2. ~(q[j].base < b + n)
      <4>1. ASSUME q[j].base < b + n PROVE FALSE
        <5>1. PICK x \in Nat : x = IF b < q[j].base THEN q[j].base ELSE b
          BY <2>5
        <5>2. b <= x /\ x < b + n /\ q[j].base <= x /\ x < q[j].base + q[j].size
          <6>1. PICK c \in Nat : c = q[j].base
            BY <2>5
          <6>2. PICK z \in Nat : z = q[j].size
            BY <2>5
          <6>3. /\ base \in Nat /\ b <= base /\ base < c + z /\ c < b + n /\ z > 0 /\ n >= 1
                /\ x = IF b < c THEN c ELSE b
            BY <1>1, <2>4, <2>5, <3>1, <4>1, <5>1, <6>1, <6>2
          <6>4. b <= x /\ x < b + n /\ c <= x /\ x < c + z
            BY ONLY <6>3, b \in Nat, n \in Nat, c \in Nat, z \in Nat, x \in Nat
          <6> QED BY <6>1, <6>2, <6>4
        <5>3. Covers(q, x)
          BY <2>4, <5>2 DEF Covers, Within
        <5> QED BY <3>1, <5>2, <5>3 DEF Clear
      <4> QED BY <4>1
    <3>3. b <= a
      BY <2>5, <2>6, <3>2
    <3> QED BY <2>9, <3>1, <3>3
  <2>12. OverlapsRegion(q, t, n) <= Len(q) - (k + 1)
    <3>1. PICK h : h = OverlapsRegion(q, t, n)
      OBVIOUS
    <3>2. /\ OverlapsRegion(q, t, n) \in 0 .. Len(q)
          /\ OverlapsRegion(q, t, n) # 0 =>
                /\ t < q[OverlapsRegion(q, t, n)].base + q[OverlapsRegion(q, t, n)].size
                /\ q[OverlapsRegion(q, t, n)].base < t + n
                /\ q[OverlapsRegion(q, t, n)].size > 0
      BY <2>9, OverlapsIs
    <3>3. h \in 0 .. Len(q) /\ (h # 0 => q[h].base < t + n)
      BY <3>1, <3>2
    <3>4. h < j
      <4>1. ASSUME h >= j PROVE FALSE
        <5>1. h # 0 /\ h \in 1 .. Len(q)
          BY <2>3, <2>4, <3>3, <4>1
        <5>2. q[h].base \in Nat /\ q[h].base < q[j].base
          BY <2>5, <2>9, <2>10, <3>3, <5>1, RowIs
        <5>3. CASE h = j
          BY <5>2, <5>3, <2>5
        <5>4. CASE j < h
          <6>1. q[j].base + q[j].size < q[h].base
            BY <2>4, <5>1, <5>4, RowsApart
          <6> QED BY <2>5, <5>2, <6>1
        <5> QED BY <2>4, <4>1, <5>1, <5>3, <5>4
      <4> QED BY <2>4, <3>3, <4>1
    <3> QED BY <2>1, <2>3, <2>4, <3>1, <3>3, <3>4
  <2> QED BY <1>2, <2>9, <2>10, <2>11, <2>12 DEF Searching
<1> QED BY <1>4, <1>5

(* The loop as a whole: the highest place, or none.                        *)
LEMMA FindRegionIs ==
  ASSUME NEW q, Canon(q), NEW start \in Nat, NEW end \in Nat, NEW n \in Nat, n >= 1,
         NEW align \in Aligns, NEW low, low = IF start = 0 THEN 1 ELSE start
  PROVE  /\ FindRegion(q, start, end, n, align) \in Nat
         /\ FindRegion(q, start, end, n, align) # 0 =>
              Place(q, low, end, n, align, FindRegion(q, start, end, n, align))
         /\ \A b \in Nat : Place(q, low, end, n, align, b)
                              => b <= FindRegion(q, start, end, n, align)
<1>0. low \in Nat /\ low >= 1
  OBVIOUS
<1>1. PICK base : base = Iterate(SearchDown(q, low, n, align), AlignDown(end - n, align), Len(q))
  OBVIOUS
<1>2. FindRegion(q, start, end, n, align) =
        IF end < n \/ base < low \/ OverlapsRegion(q, base, n) # 0 THEN 0 ELSE base
  BY <1>1 DEF FindRegion, PageSize, Error
<1>3. CASE end < n
  <2>1. FindRegion(q, start, end, n, align) = 0
    BY <1>2, <1>3
  <2>2. \A b \in Nat : ~Place(q, low, end, n, align, b)
    BY <1>3 DEF Place
  <2> QED BY <2>1, <2>2
<1>4. CASE ~(end < n)
  <2>1. PICK a \in Nat : a = end - n
    BY <1>4
  <2>2. PICK s0 : s0 = AlignDown(a, align)
    OBVIOUS
  <2>3. s0 \in Nat /\ s0 <= a /\ s0 % align = 0 /\ \A b \in Nat : b % align = 0 /\ b <= a => b <= s0
    BY <2>2, AlignDownIs
  <2>4. Len(q) \in Nat
    BY LenProperties DEF Canon
  <2> DEFINE G == [k \in 0 .. Len(q) |-> Searching(q, low, end, n, align, k)]
  <2>5. s0 \in Searching(q, low, end, n, align, 0)
    <3>1. s0 + n <= end
      BY <2>1, <2>3
    <3>2. ASSUME NEW b \in Nat, Place(q, low, end, n, align, b) PROVE b <= s0
      <4>1. b % align = 0 /\ b <= a
        BY <2>1, <3>2 DEF Place
      <4> QED BY <2>3, <4>1
    <3>3. OverlapsRegion(q, s0, n) <= Len(q) - 0
      <4>1. OverlapsRegion(q, s0, n) \in 0 .. Len(q)
        BY <2>3, OverlapsIs
      <4> QED BY <2>4, <4>1
    <3> QED BY <2>3, <3>1, <3>2, <3>3 DEF Searching
  <2>6. ASSUME NEW k \in 0 .. Len(q) - 1, NEW x \in G[k]
        PROVE  SearchDown(q, low, n, align)[x] \in G[k + 1]
    <3>1. k \in Nat /\ k \in 0 .. Len(q) /\ k + 1 \in 0 .. Len(q)
      BY <2>4
    <3>2. x \in Searching(q, low, end, n, align, k)
      BY <3>1
    <3>3. SearchDown(q, low, n, align)[x] \in Searching(q, low, end, n, align, k + 1)
      BY <1>0, <3>1, <3>2, SearchDownTurn
    <3> QED BY <3>1, <3>3
  <2>7. s0 \in G[0] /\ G[Len(q)] = Searching(q, low, end, n, align, Len(q))
    BY <2>4, <2>5
  <2> HIDE DEF G
  <2>8. Iterate(SearchDown(q, low, n, align), s0, Len(q)) \in G[Len(q)]
    BY <2>4, <2>6, <2>7, IterateKeeps
  <2>9. base \in Searching(q, low, end, n, align, Len(q))
    BY <1>1, <2>1, <2>2, <2>7, <2>8
  <2>10. /\ base \in Nat /\ base + n <= end /\ base % align = 0
         /\ \A b \in Nat : Place(q, low, end, n, align, b) => b <= base
         /\ SearchStopped(q, low, n, base) \/ OverlapsRegion(q, base, n) <= Len(q) - Len(q)
    BY <2>9 DEF Searching
  <2>11. PICK j : j = OverlapsRegion(q, base, n)
    OBVIOUS
  <2>12. /\ OverlapsRegion(q, base, n) \in 0 .. Len(q)
         /\ OverlapsRegion(q, base, n) = 0 <=> Clear(q, base, base + n)
         /\ OverlapsRegion(q, base, n) # 0 =>
              /\ base < q[OverlapsRegion(q, base, n)].base + q[OverlapsRegion(q, base, n)].size
              /\ q[OverlapsRegion(q, base, n)].base < base + n
              /\ q[OverlapsRegion(q, base, n)].size > 0
    BY <2>10, OverlapsIs
  <2>13. SearchStopped(q, low, n, base)
    <3>1. ASSUME j <= Len(q) - Len(q) PROVE j = 0
      BY <2>4, <2>11, <2>12, <3>1
    <3> QED BY <2>10, <2>11, <3>1 DEF SearchStopped
  <2>14. CASE base < low
    <3>1. FindRegion(q, start, end, n, align) = 0
      BY <1>2, <2>14
    <3>2. ASSUME NEW b \in Nat, Place(q, low, end, n, align, b) PROVE FALSE
      BY <1>0, <2>10, <2>14, <3>2 DEF Place
    <3> QED BY <3>1, <3>2
  <2>15. CASE ~(base < low) /\ j = 0
    <3>1. FindRegion(q, start, end, n, align) = base
      BY <1>2, <1>4, <2>11, <2>15
    <3>2. Clear(q, base, base + n) /\ low <= base
      BY <1>0, <2>10, <2>11, <2>12, <2>15
    <3>3. Place(q, low, end, n, align, base)
      BY <2>10, <3>2 DEF Place
    <3> QED BY <2>10, <3>1, <3>3
  <2>16. CASE ~(base < low) /\ j # 0
    <3>1. FindRegion(q, start, end, n, align) = 0
      BY <1>2, <2>11, <2>16
    <3>2. j \in 1 .. Len(q) /\ q[j].base < n /\ base < q[j].base + q[j].size /\ q[j].size > 0
      BY <2>4, <2>11, <2>12, <2>13, <2>16 DEF SearchStopped
    <3>3. q[j].base \in Nat /\ q[j].size \in Nat
      BY <3>2, RowIs
    <3>4. ASSUME NEW b \in Nat, Place(q, low, end, n, align, b) PROVE FALSE
      <4>1. b <= base /\ Clear(q, b, b + n)
        BY <2>10, <3>4 DEF Place
      <4>2. PICK x \in Nat : x = IF b < q[j].base THEN q[j].base ELSE b
        BY <3>3
      <4>3. b <= x /\ x < b + n /\ q[j].base <= x /\ x < q[j].base + q[j].size
        BY <2>10, <3>2, <3>3, <4>1, <4>2
      <4>4. Covers(q, x)
        BY <3>2, <4>3 DEF Covers, Within
      <4> QED BY <4>1, <4>3, <4>4 DEF Clear
    <3> QED BY <3>1, <3>4
  <2> QED BY <2>14, <2>15, <2>16
<1> QED BY <1>3, <1>4

(* The greater and the lesser of two numbers.                              *)
LEMMA OfTwo ==
  ASSUME NEW a \in Nat, NEW b \in Nat
  PROVE  /\ Max({a, b}) = IF a >= b THEN a ELSE b
         /\ Min({a, b}) = IF a <= b THEN a ELSE b
<1>1. PICK S : S = {a, b}
  OBVIOUS
<1>2. S \in SUBSET Nat /\ S # {} /\ a \in S /\ b \in S /\ \A k \in S : k = a \/ k = b
  BY <1>1
<1>3. PICK n \in Nat : a <= n /\ b <= n
  <2>1. a + b \in Nat /\ a <= a + b /\ b <= a + b
    OBVIOUS
  <2> QED BY <2>1
<1>4. \A k \in S : k <= n
  BY <1>2, <1>3
<1>5. Max(S) \in S /\ \A k \in S : k <= Max(S)
  BY <1>2, <1>4, GreatestNat
<1>6. Min(S) \in S /\ \A k \in S : Min(S) <= k
  BY <1>2, LeastNat
<1>7. PICK x, y : x = Max(S) /\ y = Min(S)
  OBVIOUS
<1>8. (x = a \/ x = b) /\ a <= x /\ b <= x /\ (y = a \/ y = b) /\ y <= a /\ y <= b
  BY <1>2, <1>5, <1>6, <1>7
<1>9. x = IF a >= b THEN a ELSE b
  BY <1>8
<1>10. y = IF a <= b THEN a ELSE b
  BY <1>8
<1> QED BY <1>1, <1>7, <1>9, <1>10

(* A range that is covered lies in one region.                             *)
LEMMA InOneRow ==
  ASSUME NEW q, Canon(q), NEW b \in Nat, NEW e \in Nat, b < e,
         \A x \in Nat : b <= x /\ x < e => Covers(q, x)
  PROVE  \E i \in 1 .. Len(q) : q[i].base <= b /\ e <= q[i].base + q[i].size /\ q[i].size > 0
<1>1. PICK i \in 1 .. Len(q) : Within(q[i], b)
  BY DEF Covers
<1>2. q[i].base \in Nat /\ q[i].size \in Nat /\ q[i].base <= b /\ b < q[i].base + q[i].size
  BY <1>1, RowIs DEF Within
<1>3. e <= q[i].base + q[i].size
  <2>1. ASSUME q[i].base + q[i].size < e PROVE FALSE
    <3>1. PICK x \in Nat : x = q[i].base + q[i].size
      BY <1>2
    <3>2. Covers(q, x)
      BY <1>2, <2>1, <3>1
    <3>3. PICK j \in 1 .. Len(q) : Within(q[j], x)
      BY <3>2 DEF Covers
    <3>4. q[j].base \in Nat /\ q[j].size \in Nat /\ q[j].base <= x /\ x < q[j].base + q[j].size
      BY <3>3, RowIs DEF Within
    <3>5. CASE j = i
      BY <3>1, <3>4, <3>5
    <3>6. CASE i < j
      <4>1. q[i].base + q[i].size < q[j].base
        BY <3>6, RowsApart
      <4> QED BY <3>1, <3>4, <4>1
    <3>7. CASE j < i
      <4>1. q[j].base + q[j].size < q[i].base
        BY <3>7, RowsApart
      <4> QED BY <1>2, <3>1, <3>4, <4>1
    <3>8. i \in Nat /\ j \in Nat
      BY RowIs
    <3> QED BY <3>5, <3>6, <3>7, <3>8
  <2> QED BY <1>2, <2>1
<1>4. q[i].size > 0
  BY <1>2
<1> QED BY <1>2, <1>3, <1>4

(* memblock_find_base: the highest spot of free memory, or none.           *)
Spot(m, bound, n, align, b) ==
  /\ b \in Nat /\ b >= 1 /\ b % align = 0 /\ b + n <= bound
  /\ \A x \in Nat : b <= x /\ x < b + n =>
        Covers(m.memory.regions, x) /\ ~Covers(m.reserved.regions, x)

(* memblock_find_base answers with the highest spot, or with 0 when there  *)
(* is none.                                                                *)
LEMMA FindBaseIs ==
  ASSUME NEW m \in Tables, Canon(m.memory.regions), Canon(m.reserved.regions),
         NEW n \in Nat, n >= 1, NEW align \in Aligns, NEW end \in Nat,
         NEW bound, bound = IF end = 0 THEN m.limit ELSE end
  PROVE  /\ FindBase(m, n, align, 0, end) \in Nat
         /\ FindBase(m, n, align, 0, end) # 0 =>
              Spot(m, bound, n, align, FindBase(m, n, align, 0, end))
         /\ \A b \in Nat : Spot(m, bound, n, align, b) => b <= FindBase(m, n, align, 0, end)
<1>1. PICK p, q : p = m.memory.regions /\ q = m.reserved.regions
  OBVIOUS
<1>2. Canon(p) /\ Canon(q) /\ Len(p) \in Nat /\ bound \in Nat
  BY <1>1, LenProperties DEF Canon, Tables
<1> DEFINE bottom(i) == p[i].base
           top(i) == IF p[i].base + p[i].size <= bound THEN p[i].base + p[i].size ELSE bound
           found(i) == IF bottom(i) >= top(i) THEN 0 ELSE FindRegion(q, bottom(i), top(i), n, align)
           ends == {i \in 1 .. Len(p) : p[i].size >= n /\ found(i) # 0}
           F == FindBase(m, n, align, 0, end)
<1>3. ASSUME NEW i \in 1 .. Len(p)
      PROVE  /\ p[i].base \in Nat /\ p[i].size \in Nat /\ End(p[i]) = p[i].base + p[i].size
             /\ Max({p[i].base, 0}) = bottom(i)
             /\ Min({End(p[i]), bound}) = top(i)
             /\ p[i].size >= n => ~(End(p[i]) <= 0)
             /\ bottom(i) \in Nat /\ top(i) \in Nat
  <2>1. p[i].base \in Nat /\ p[i].size \in Nat /\ End(p[i]) = p[i].base + p[i].size
    BY <1>2, RowIs
  <2>2. PICK a, z \in Nat : a = p[i].base /\ z = End(p[i])
    BY <2>1
  <2>3. a \in Nat
    BY <2>1, <2>2
  <2>4. Max({a, 0}) = IF a >= 0 THEN a ELSE 0
    BY <2>3, OfTwo
  <2>5. Min({z, bound}) = IF z <= bound THEN z ELSE bound
    BY <1>2, <2>2, OfTwo
  <2>6. p[i].size >= n => ~(End(p[i]) <= 0)
    BY <2>1
  <2> QED BY <1>2, <2>1, <2>2, <2>3, <2>4, <2>5, <2>6
<1>4. ends = {i \in 1 .. Len(p) :
                p[i].size >= n /\
                  (End(p[i]) <= 0 \/
                     (IF Max({p[i].base, 0}) >= Min({End(p[i]), bound}) THEN Error
                      ELSE FindRegion(q, Max({p[i].base, 0}), Min({End(p[i]), bound}), n, align))
                         # Error)}
  BY <1>3 DEF Error
<1>5. F = IF ends = {} \/ End(p[Max(ends)]) <= 0 THEN Error
          ELSE IF Max({p[Max(ends)].base, 0}) >= Min({End(p[Max(ends)]), bound}) THEN Error
          ELSE FindRegion(q, Max({p[Max(ends)].base, 0}), Min({End(p[Max(ends)]), bound}), n, align)
  <2>1. (IF end = Accessible THEN m.limit ELSE end) = bound
    BY DEF Accessible
  <2>2. m.memory.regions = p /\ m.reserved.regions = q
    BY <1>1
  <2> DEFINE L(i) == FindRegion(q, Max({p[i].base, 0}), Min({End(p[i]), bound}), n, align)
             there(i) == IF Max({p[i].base, 0}) >= Min({End(p[i]), bound}) THEN Error ELSE L(i)
             all == {i \in 1 .. Len(p) : p[i].size >= n /\ (End(p[i]) <= 0 \/ there(i) # Error)}
  <2>3. F = IF all = {} \/ End(p[Max(all)]) <= 0 THEN Error ELSE there(Max(all))
    BY <2>1, <2>2, ZenonT(60) DEF FindBase
  <2>4. ends = all
    BY <1>4
  <2> QED BY <2>3, <2>4, Zenon
<1>6. ends \in SUBSET Nat /\ \A k \in ends : k \in 1 .. Len(p) /\ k <= Len(p)
  BY <1>2
<1>7. ASSUME NEW i \in 1 .. Len(p), p[i].size >= n
      PROVE  /\ found(i) \in Nat
             /\ found(i) # 0 => Spot(m, bound, n, align, found(i)) /\ p[i].base <= found(i)
             /\ \A b \in Nat :
                  (Spot(m, bound, n, align, b) /\ p[i].base <= b /\ b + n <= p[i].base + p[i].size)
                     => (b <= found(i) /\ found(i) # 0)
  <2>1. PICK a, z \in Nat : a = bottom(i) /\ z = top(i)
    BY <1>3
  <2>3. z = IF p[i].base + p[i].size <= bound THEN p[i].base + p[i].size ELSE bound
    BY <2>1
  <2>30. p[i].base = a /\ p[i].base \in Nat /\ p[i].size \in Nat
    BY <1>2, <2>1, RowIs
  <2>2. a \in Nat /\ p[i].base = a /\ p[i].size \in Nat /\ z <= bound /\ z <= p[i].base + p[i].size
    BY ONLY <1>2, <2>3, <2>30
  <2>4. PICK low, f : low = (IF a = 0 THEN 1 ELSE a) /\ f = FindRegion(q, a, z, n, align)
    OBVIOUS
  <2>5. /\ FindRegion(q, a, z, n, align) \in Nat
        /\ FindRegion(q, a, z, n, align) # 0 => Place(q, low, z, n, align, FindRegion(q, a, z, n, align))
        /\ \A b \in Nat : Place(q, low, z, n, align, b) => b <= FindRegion(q, a, z, n, align)
    BY <1>2, <2>2, <2>4, FindRegionIs
  <2>6. found(i) = IF a >= z THEN 0 ELSE f
    BY <2>1, <2>4
  <2> HIDE DEF found, bottom, top
  <2>7. low \in Nat /\ low >= 1 /\ a <= low
    BY <2>2, <2>4
  <2>8. ASSUME NEW b \in Nat, Spot(m, bound, n, align, b), a <= b, b + n <= p[i].base + p[i].size
        PROVE  Place(q, low, z, n, align, b) /\ ~(a >= z) /\ b >= 1
    <3>1. b >= 1 /\ b % align = 0 /\ b + n <= bound
      BY <2>8 DEF Spot
    <3>2. Clear(q, b, b + n)
      BY <1>1, <2>8 DEF Spot, Clear
    <3>3. low <= b
      BY <2>2, <2>4, <2>8, <3>1
    <3>4. b + n <= z
      BY <2>3, <2>8, <3>1
    <3>5. ~(a >= z)
      BY <2>2, <2>8, <3>4
    <3> QED BY <3>1, <3>2, <3>3, <3>4, <3>5 DEF Place
  <2>9. ASSUME NEW b \in Nat, Place(q, low, z, n, align, b)
        PROVE  Spot(m, bound, n, align, b) /\ a <= b
    <3>1. b % align = 0 /\ low <= b /\ b + n <= z /\ Clear(q, b, b + n)
      BY <2>9 DEF Place
    <3>2. b >= 1 /\ b + n <= bound /\ a <= b
      BY <1>2, <2>2, <2>7, <3>1
    <3>3. ASSUME NEW x \in Nat, b <= x, x < b + n
          PROVE  Covers(m.memory.regions, x) /\ ~Covers(m.reserved.regions, x)
      <4>1. p[i].base <= x /\ x < p[i].base + p[i].size
        BY <2>2, <3>1, <3>2, <3>3
      <4>2. Covers(p, x)
        BY <4>1 DEF Covers, Within
      <4>3. ~Covers(q, x)
        BY <3>1, <3>3 DEF Clear
      <4> QED BY <1>1, <4>2, <4>3
    <3> QED BY <3>1, <3>2, <3>3 DEF Spot
  <2>10. found(i) \in Nat
    BY <2>4, <2>5, <2>6
  <2>11. ASSUME found(i) # 0 PROVE Spot(m, bound, n, align, found(i)) /\ p[i].base <= found(i)
    <3>1. found(i) = f /\ f # 0 /\ f \in Nat
      BY <2>4, <2>5, <2>6, <2>11
    <3>2. Place(q, low, z, n, align, f)
      BY <2>4, <2>5, <3>1
    <3> QED BY <2>2, <2>9, <3>1, <3>2
  <2>12. ASSUME NEW b \in Nat, Spot(m, bound, n, align, b), p[i].base <= b,
                b + n <= p[i].base + p[i].size
         PROVE  b <= found(i) /\ found(i) # 0
    <3>1. Place(q, low, z, n, align, b) /\ ~(a >= z) /\ b >= 1
      BY <2>2, <2>8, <2>12
    <3>2. found(i) = f /\ b <= f /\ f \in Nat
      BY <2>4, <2>5, <2>6, <3>1
    <3> QED BY <3>1, <3>2
  <2>13. \A b \in Nat :
           (Spot(m, bound, n, align, b) /\ p[i].base <= b /\ b + n <= p[i].base + p[i].size)
              => (b <= found(i) /\ found(i) # 0)
    BY ONLY <2>12
  <2>14. found(i) # 0 => Spot(m, bound, n, align, found(i)) /\ p[i].base <= found(i)
    BY ONLY <2>11
  <2> QED BY ONLY <2>10, <2>13, <2>14
<1>8. ASSUME NEW b \in Nat, Spot(m, bound, n, align, b)
      PROVE  \E i \in ends : p[i].base <= b /\ b + n <= p[i].base + p[i].size
  <2>1. \A x \in Nat : b <= x /\ x < b + n => Covers(p, x)
    BY <1>1, <1>8 DEF Spot
  <2>2. b + n \in Nat /\ b < b + n
    OBVIOUS
  <2>3. PICK i \in 1 .. Len(p) : p[i].base <= b /\ b + n <= p[i].base + p[i].size
    BY <1>2, <2>1, <2>2, InOneRow
  <2>4. p[i].size >= n
    <3>1. p[i].base \in Nat /\ p[i].size \in Nat
      BY <1>2, RowIs
    <3> QED BY ONLY <2>3, <3>1, b \in Nat, n \in Nat
  <2>5. found(i) # 0
    BY <1>7, <1>8, <2>3, <2>4
  <2> QED BY <2>3, <2>4, <2>5
<1>9. CASE ends = {}
  <2>1. F = 0
    <3> HIDE DEF ends
    <3> QED BY <1>5, <1>9 DEF Error
  <2>2. \A b \in Nat : ~Spot(m, bound, n, align, b)
    <3> HIDE DEF ends
    <3> QED BY <1>8, <1>9
  <2> HIDE DEF F, ends
  <2> QED BY <2>1, <2>2 DEF F
<1>10. CASE ends # {}
  <2>1. PICK M : M = Max(ends)
    OBVIOUS
  <2>2. M \in ends /\ \A k \in ends : k <= M
    <3> HIDE DEF ends
    <3> QED BY <1>2, <1>6, <1>10, <2>1, GreatestNat
  <2>3. M \in 1 .. Len(p) /\ p[M].size >= n /\ found(M) # 0
    BY <2>2
  <2>4. F = found(M)
    <3>1. F = IF End(p[M]) <= 0 THEN Error
              ELSE IF Max({p[M].base, 0}) >= Min({End(p[M]), bound}) THEN Error
              ELSE FindRegion(q, Max({p[M].base, 0}), Min({End(p[M]), bound}), n, align)
      <4> HIDE DEF ends, F
      <4> QED BY <1>5, <1>10, <2>1
    <3>2. ~(End(p[M]) <= 0) /\ Max({p[M].base, 0}) = bottom(M) /\ Min({End(p[M]), bound}) = top(M)
      BY <1>3, <2>3
    <3> HIDE DEF F, bottom, top
    <3> QED BY <3>1, <3>2 DEF Error
  <2>5. F \in Nat /\ F # 0 /\ Spot(m, bound, n, align, F) /\ p[M].base <= F
    <3> HIDE DEF F, found
    <3> QED BY <1>7, <2>3, <2>4
  <2>6. ASSUME NEW b \in Nat, Spot(m, bound, n, align, b) PROVE b <= F
    <3>1. PICK i \in ends : p[i].base <= b /\ b + n <= p[i].base + p[i].size
      BY <1>8, <2>6
    <3>2. i \in 1 .. Len(p) /\ i <= M /\ p[i].size >= n
      BY <2>2, <3>1
    <3>3. CASE i = M
      <4> HIDE DEF F, found, ends
      <4> QED BY <1>7, <2>3, <2>4, <2>6, <3>1, <3>3
    <3>4. CASE i < M
      <4>1. p[i].base + p[i].size < p[M].base
        BY <1>2, <2>3, <3>2, <3>4, RowsApart
      <4>2. p[i].base \in Nat /\ p[i].size \in Nat /\ p[M].base \in Nat
        BY <1>2, <2>3, <3>2, RowIs
      <4> HIDE DEF F
      <4> QED BY <2>5, <3>1, <4>1, <4>2
    <3>5. i \in Nat /\ M \in Nat
      BY <1>2, <2>3, <3>2, RowIs
    <3> QED BY <3>2, <3>3, <3>4, <3>5
  <2> HIDE DEF F
  <2> QED BY <2>5, <2>6 DEF F
<1> QED BY <1>9, <1>10

(* What the tables occupy: pages of their own that are reserved, which     *)
(* only a table that has grown has.                                        *)
Owns(m, x) == \E type \in Types : m[type].array = x

Arrayed(m) ==
  /\ \A type \in Types :
        \/ m[type].array \in {Static, Slab}
        \/ m[type].array \in 1 .. Top - 1 /\ m[type].max >= 4
  /\ m.memory.array # m.reserved.array \/ m.memory.array \in {Static, Slab}

Kept(m) ==
  /\ Arrayed(m)
  /\ \A x \in Nat : Owns(m, x) => Covers(m.reserved.regions, x)

(* Growing makes n of m: the arrays move to free memory, and nothing but   *)
(* arrays that are left is given back.                                     *)
Settled(m, n) ==
  /\ Sound(n) /\ Kept(n)
  /\ n.limit = m.limit /\ n.canResize = m.canResize
  /\ n.memory.regions = m.memory.regions
  /\ \A type \in Types : n[type].max = 0 <=> m[type].max = 0
  /\ ~m.canResize => \A type \in Types : n[type].array = m[type].array
  /\ \A x \in Nat : (Owns(n, x) /\ ~Owns(m, x)) =>
        (Covers(m.memory.regions, x) /\ ~Covers(m.reserved.regions, x))
  /\ \A x \in Nat : (Covers(n.reserved.regions, x) /\ ~Covers(m.reserved.regions, x)) => Owns(n, x)
  /\ \A x \in Nat : (Covers(m.reserved.regions, x) /\ ~Covers(n.reserved.regions, x)) => Owns(m, x)

(* Nothing is left behind when the reserved table grows.                   *)
Exactly(m, n) ==
  /\ n.memory = m.memory
  /\ \A x \in Nat : (Owns(m, x) /\ ~Owns(n, x)) => ~Covers(n.reserved.regions, x)

(* What the model calls the arrays nobody reserved, and the error.         *)
LEMMA ConstantsAre ==
  Static = 0 - 1 /\ Slab = 0 - 2 /\ Static \in Int /\ Slab \in Int /\ ArraySize = 1 /\ Error = 0
  BY DEF Static, Slab, ArraySize, Error

(* A page is occupied by one of the two arrays.                            *)
LEMMA OwnsEither ==
  ASSUME NEW m, NEW x
  PROVE  Owns(m, x) <=> (m.memory.array = x \/ m.reserved.array = x)
  BY DEF Owns, Types

(* A table that does not grow stays where it is.                           *)
LEMMA SettledSelf ==
  ASSUME NEW m, Sound(m), Kept(m)
  PROVE  Settled(m, m) /\ Exactly(m, m)
  BY DEF Settled, Exactly

(* A row of the reserved table begins only above a page it covers.         *)
LEMMA NoneAfter ==
  ASSUME NEW q, Canon(q), NEW x \in Nat, Covers(q, x)
  PROVE  NoneAt(q, x + 1)
<1>1. PICK i \in 1 .. Len(q) : Within(q[i], x)
  BY DEF Covers
<1>2. q[i].base \in Nat /\ q[i].size \in Nat /\ q[i].base <= x /\ x < q[i].base + q[i].size /\ i \in Nat
  BY <1>1, RowIs DEF Within
<1>3. ASSUME NEW j \in 1 .. Len(q), q[j].base = x + 1 PROVE FALSE
  <2>1. q[j].base \in Nat /\ q[j].size \in Nat /\ j \in Nat
    BY RowIs
  <2>2. CASE j = i
    BY <1>2, <1>3, <2>2
  <2>3. CASE i < j
    <3>1. q[i].base + q[i].size < q[j].base
      BY <2>3, RowsApart
    <3> QED BY <1>2, <1>3, <3>1
  <2>4. CASE j < i
    <3>1. q[j].base + q[j].size < q[i].base
      BY <2>4, RowsApart
    <3> QED BY <1>2, <1>3, <2>1, <3>1
  <2> QED BY <1>2, <2>1, <2>2, <2>3, <2>4
<1> QED BY <1>3 DEF NoneAt

(* A page a canonical table covers is one of the address space.            *)
LEMMA CoveredBelow ==
  ASSUME NEW q, Canon(q), NEW x \in Nat, Covers(q, x)
  PROVE  x < Top
<1>1. PICK i \in 1 .. Len(q) : Within(q[i], x)
  BY DEF Covers
<1>2. q[i].base \in Nat /\ q[i].size \in Nat /\ q[i].base <= x /\ x < q[i].base + q[i].size
      /\ q[i].base + q[i].size <= Top
  BY <1>1, RowIs DEF Within
<1> QED BY <1>2, Numbers

(* Where the array of a table that grows goes.                             *)
LEMMA NewArrayIs ==
  ASSUME NEW m \in Tables, Canon(m.memory.regions), Canon(m.reserved.regions), NewArray(m) # 0
  PROVE  /\ NewArray(m) \in Nat /\ NewArray(m) >= 1 /\ NewArray(m) < Top
         /\ Covers(m.memory.regions, NewArray(m)) /\ ~Covers(m.reserved.regions, NewArray(m))
<1>1. PICK a, bound : a = FindBase(m, 1, 1, 0, 0) /\ bound = IF 0 = 0 THEN m.limit ELSE 0
  OBVIOUS
<1>2. 1 \in Aligns
  BY DEF Aligns
<1>3. /\ FindBase(m, 1, 1, 0, 0) \in Nat
      /\ FindBase(m, 1, 1, 0, 0) # 0 => Spot(m, bound, 1, 1, FindBase(m, 1, 1, 0, 0))
  BY <1>1, <1>2, FindBaseIs
<1>4. NewArray(m) = a
  BY <1>1 DEF NewArray, ArraySize, Accessible
<1>5. a \in Nat /\ Spot(m, bound, 1, 1, a)
  BY <1>1, <1>3, <1>4
<1>6. a >= 1 /\ Covers(m.memory.regions, a) /\ ~Covers(m.reserved.regions, a)
  <2>1. a < a + 1
    BY <1>5
  <2> QED BY <1>5, <2>1 DEF Spot
<1> QED BY <1>4, <1>5, <1>6, CoveredBelow

(* The reserved table is full.                                             *)
Full(m, type) ==
  /\ m \in Tables /\ Kept(m)
  /\ Canon(m.memory.regions) /\ Canon(m.reserved.regions)
  /\ \A other \in Types : other # type => Roomy(m[other])
  /\ Len(m[type].regions) = m[type].max /\ m[type].max >= 2

(* The same, said of each table.                                           *)
LEMMA WithIsOne ==
  ASSUME NEW m \in Tables, NEW q \in Regions
  PROVE  /\ With(m, "reserved", q) \in Tables
         /\ With(m, "reserved", q).reserved.regions = q
         /\ With(m, "reserved", q).reserved.max = m.reserved.max
         /\ With(m, "reserved", q).reserved.array = m.reserved.array
         /\ With(m, "reserved", q).memory = m.memory
         /\ With(m, "reserved", q).limit = m.limit
         /\ With(m, "reserved", q).canResize = m.canResize
<1>1. PICK R \in Types, M \in Types : R = "reserved" /\ M = "memory" /\ M # R
  BY DEF Types
<1>2. PICK n : n = With(m, R, q)
  OBVIOUS
<1>3. /\ n \in Tables /\ n.limit = m.limit /\ n.canResize = m.canResize
      /\ n[R].regions = q /\ n[R].max = m[R].max /\ n[R].array = m[R].array /\ n[M] = m[M]
  BY <1>1, <1>2, WithIs
<1>4. /\ n.reserved.regions = q /\ n.reserved.max = m.reserved.max
      /\ n.reserved.array = m.reserved.array /\ n.memory = m.memory
  BY <1>1, <1>3
<1>5. n = With(m, "reserved", q)
  BY <1>1, <1>2
<1> QED BY <1>3, <1>4, <1>5

(* The reserved table moved to its new array.                              *)
LEMMA MovedIsOne ==
  ASSUME NEW m \in Tables, NEW a \in Int
  PROVE  /\ Moved(m, "reserved", a) \in Tables
         /\ Moved(m, "reserved", a).reserved.regions = m.reserved.regions
         /\ Moved(m, "reserved", a).reserved.max = 2 * m.reserved.max
         /\ Moved(m, "reserved", a).reserved.array = a
         /\ Moved(m, "reserved", a).memory = m.memory
         /\ Moved(m, "reserved", a).limit = m.limit
         /\ Moved(m, "reserved", a).canResize = m.canResize
<1>1. PICK R \in Types, M \in Types : R = "reserved" /\ M = "memory" /\ M # R
  BY DEF Types
<1>2. PICK n : n = Moved(m, R, a)
  OBVIOUS
<1>3. /\ n \in Tables /\ n.limit = m.limit /\ n.canResize = m.canResize
      /\ n[R].regions = m[R].regions /\ n[R].max = 2 * m[R].max /\ n[R].array = a /\ n[M] = m[M]
  BY <1>1, <1>2, MovedIs
<1>4. /\ n.reserved.regions = m.reserved.regions /\ n.reserved.max = 2 * m.reserved.max
      /\ n.reserved.array = a /\ n.memory = m.memory
  BY <1>1, <1>3
<1>5. n = Moved(m, "reserved", a)
  BY <1>1, <1>2
<1> QED BY <1>3, <1>4, <1>5

(* The memory table moved to its new array.                                *)
LEMMA MovedIsMemory ==
  ASSUME NEW m \in Tables, NEW a \in Int
  PROVE  /\ Moved(m, "memory", a) \in Tables
         /\ Moved(m, "memory", a).memory.regions = m.memory.regions
         /\ Moved(m, "memory", a).memory.max = 2 * m.memory.max
         /\ Moved(m, "memory", a).memory.array = a
         /\ Moved(m, "memory", a).reserved = m.reserved
         /\ Moved(m, "memory", a).limit = m.limit
         /\ Moved(m, "memory", a).canResize = m.canResize
<1>1. PICK R \in Types, M \in Types : R = "reserved" /\ M = "memory" /\ M # R
  BY DEF Types
<1>2. PICK n : n = Moved(m, M, a)
  OBVIOUS
<1>3. /\ n \in Tables /\ n.limit = m.limit /\ n.canResize = m.canResize
      /\ n[M].regions = m[M].regions /\ n[M].max = 2 * m[M].max /\ n[M].array = a /\ n[R] = m[R]
  BY <1>1, <1>2, MovedIs
<1>4. /\ n.memory.regions = m.memory.regions /\ n.memory.max = 2 * m.memory.max
      /\ n.memory.array = a /\ n.reserved = m.reserved
  BY <1>1, <1>3
<1>5. n = Moved(m, "memory", a)
  BY <1>1, <1>2
<1> QED BY <1>3, <1>4, <1>5

(* The tables once the reserved one has its new array a, with the          *)
(* reservations q.                                                         *)
LEMMA GrownReserved ==
  ASSUME NEW m, Full(m, "reserved"), m.canResize, NEW a \in Int, NEW q, Canon(q), Len(q) >= 1,
         Len(q) < 2 * m.reserved.max,
         a = Slab \/ (a \in 1 .. Top - 1 /\ Covers(m.memory.regions, a)
                        /\ ~Covers(m.reserved.regions, a) /\ Covers(q, a)),
         \A x \in Nat : x # a => (Covers(q, x) => Covers(m.reserved.regions, x)),
         \A x \in Nat : (Covers(m.reserved.regions, x) /\ ~Covers(q, x)) => x = m.reserved.array,
         a = Slab => q = m.reserved.regions
  PROVE  Settled(m, With(Moved(m, "reserved", a), "reserved", q))
<1>1. PICK n, n1 : n1 = Moved(m, "reserved", a) /\ n = With(n1, "reserved", q)
  OBVIOUS
<1>2. "reserved" \in Types /\ "memory" \in Types /\ "memory" # "reserved"
      /\ \A type \in Types : type = "memory" \/ type = "reserved"
  BY DEF Types
<1>3. m \in Tables /\ Kept(m) /\ Canon(m.memory.regions) /\ Roomy(m.memory) /\ m.reserved.max >= 2
  BY <1>2 DEF Full
<1>4. /\ n1 \in Tables /\ n1.reserved.max = 2 * m.reserved.max /\ n1.reserved.array = a
      /\ n1.memory = m.memory /\ n1.limit = m.limit /\ n1.canResize = m.canResize
  BY <1>1, <1>3, MovedIsOne
<1>5. q \in Regions
  BY RegionsRow DEF Canon
<1>6. /\ n \in Tables /\ n.reserved.regions = q /\ n.reserved.max = n1.reserved.max
      /\ n.reserved.array = a /\ n.memory = m.memory /\ n.limit = m.limit
      /\ n.canResize = m.canResize
  <2>1. /\ n \in Tables /\ n.reserved.regions = q /\ n.reserved.max = n1.reserved.max
        /\ n.reserved.array = n1.reserved.array /\ n.memory = n1.memory /\ n.limit = n1.limit
        /\ n.canResize = n1.canResize
    BY <1>1, <1>4, <1>5, WithIsOne
  <2> QED BY <1>4, <2>1
<1>7. m.reserved.max \in Nat /\ 2 * m.reserved.max \in Nat /\ 2 * m.reserved.max >= 4
      /\ n.reserved.max = 2 * m.reserved.max
  <2>1. m.reserved.max \in Nat
    BY <1>2, <1>3, TableOf
  <2> QED BY <1>3, <1>4, <1>6, <2>1
<1>8. Sound(n)
  <2>1. Roomy(n.reserved)
    BY <1>6, <1>7 DEF Roomy
  <2> QED BY <1>2, <1>3, <1>6, <2>1 DEF Sound
<1>9. \A x \in Nat : Owns(n, x) <=> (m.memory.array = x \/ a = x)
  BY <1>6, OwnsEither
<1>10. \A x \in Nat : Owns(m, x) <=> (m.memory.array = x \/ m.reserved.array = x)
  BY OwnsEither
<1>11. \A x \in Nat : x # Slab
  BY ConstantsAre
<1>12. Arrayed(m) /\ \A x \in Nat : Owns(m, x) => Covers(m.reserved.regions, x)
  BY <1>3 DEF Kept
<1>13. /\ m.memory.array \in {Static, Slab} \/ (m.memory.array \in 1 .. Top - 1 /\ m.memory.max >= 4)
       /\ m.memory.array # m.reserved.array \/ m.memory.array \in {Static, Slab}
  BY <1>2, <1>12 DEF Arrayed
<1>14. m.memory.array \in 1 .. Top - 1 =>
         m.memory.array \in Nat /\ m.memory.array # m.reserved.array
         /\ Covers(m.reserved.regions, m.memory.array)
  <2> SUFFICES ASSUME m.memory.array \in 1 .. Top - 1
               PROVE  m.memory.array \in Nat /\ m.memory.array # m.reserved.array
                      /\ Covers(m.reserved.regions, m.memory.array)
    OBVIOUS
  <2>1. m.memory.array \in Nat
    BY Numbers
  <2>2. m.memory.array \notin {Static, Slab}
    BY ConstantsAre, Numbers
  <2> QED BY <1>10, <1>12, <1>13, <2>1, <2>2
<1>15. a # Slab => a \in Nat
  BY Numbers
<1>16. Kept(n)
  <2>1. n.memory.array # n.reserved.array \/ n.memory.array \in {Static, Slab}
    <3>1. CASE m.memory.array \in {Static, Slab}
      BY <1>6, <3>1
    <3>2. CASE m.memory.array \in 1 .. Top - 1
      <4>1. m.memory.array # a
        BY <1>11, <1>14, <3>2
      <4> QED BY <1>6, <4>1
    <3> QED BY <1>13, <3>1, <3>2
  <2>2. n.memory.array \in {Static, Slab} \/ (n.memory.array \in 1 .. Top - 1 /\ n.memory.max >= 4)
    BY <1>6, <1>13
  <2>3. n.reserved.array \in {Static, Slab} \/ (n.reserved.array \in 1 .. Top - 1 /\ n.reserved.max >= 4)
    BY <1>6, <1>7
  <2>4. Arrayed(n)
    BY <1>2, <2>1, <2>2, <2>3 DEF Arrayed
  <2>5. ASSUME NEW x \in Nat, Owns(n, x) PROVE Covers(q, x)
    <3>1. CASE x = a
      BY <1>11, <3>1
    <3>2. CASE x = m.memory.array
      <4>1. x \notin {Static, Slab}
        BY ConstantsAre
      <4>2. Covers(m.reserved.regions, x) /\ x # m.reserved.array
        BY <1>13, <1>14, <3>2, <4>1
      <4> QED BY <4>2
    <3> QED BY <1>9, <2>5, <3>1, <3>2
  <2> QED BY <1>6, <2>4, <2>5 DEF Kept
<1>17. \A type \in Types : n[type].max = 0 <=> m[type].max = 0
  <2>1. ~(n.reserved.max = 0) /\ ~(m.reserved.max = 0)
    BY <1>3, <1>7
  <2> QED BY <1>2, <1>6, <2>1
<1>18. ASSUME NEW x \in Nat, Owns(n, x), ~Owns(m, x)
       PROVE  Covers(m.memory.regions, x) /\ ~Covers(m.reserved.regions, x)
  <2>1. x = a /\ x # Slab
    BY <1>9, <1>10, <1>11, <1>18
  <2> QED BY <2>1
<1>19. ASSUME NEW x \in Nat, Covers(q, x), ~Covers(m.reserved.regions, x) PROVE Owns(n, x)
  BY <1>9, <1>19
<1>20. ASSUME NEW x \in Nat, Covers(m.reserved.regions, x), ~Covers(q, x) PROVE Owns(m, x)
  BY <1>10, <1>20
<1>21. n.memory.regions = m.memory.regions /\ n.reserved.regions = q
  BY <1>6
<1>22. Settled(m, n)
  BY <1>6, <1>8, <1>16, <1>17, <1>18, <1>19, <1>20, <1>21 DEF Settled
<1> QED BY <1>1, <1>22

(* The reserved table grows by itself: what the calls it makes would in    *)
(* turn come to if they had to grow it again, d1 and d2, does not matter.  *)
DoubledAlone(m, k, d1, d2) ==
  LET a == NewArray(m)
      own == AddBody(Moved(m, "reserved", a), "reserved", a, a + ArraySize, d1)
      old == m.reserved.array
  IN DoubleBody(m, "reserved", k, own,
       RemoveBody(own.m, "reserved", old, old + ArraySize,
         AddBody(Shortened(own.m, "reserved", old, old + ArraySize), "reserved",
                 old + ArraySize, RestEnd(own.m, "reserved", old, old + ArraySize), d2)))

(* Where a table with room for two more regions takes one in.              *)
Lands(m, type, b, e, d) ==
  \E q : /\ AddsRow(m, type, b, e, q) /\ Len(q) < m[type].max
         /\ AddBody(m, type, b, e, d) = Result("ok", With(m, type, q))

(* It takes the region in without growing.                                 *)
LEMMA RoomForOne ==
  ASSUME NEW m, Sound(m), NEW type \in Types, NEW b \in Nat, NEW e \in Nat, b < e, e <= Top,
         NEW d, m[type].max # 0, Len(m[type].regions) + 1 < m[type].max
  PROVE  Lands(m, type, b, e, d)
<1>2. \/ \E q : /\ AddsRow(m, type, b, e, q) /\ Len(q) < m[type].max
                /\ AddBody(m, type, b, e, d) = Result("ok", With(m, type, q))
      \/ /\ m[type].max = 0 \/ (d.rc = "fail" /\ Len(m[type].regions) + 1 = m[type].max)
         /\ AddBody(m, type, b, e, d) = Result("fail", m)
      \/ /\ d.rc # "fail" /\ Len(m[type].regions) + 1 = m[type].max
         /\ \E q : /\ AddsRow(m, type, b, e, q) /\ Len(q) = m[type].max
                   /\ Added(m, type, b, e) = With(m, type, q)
         /\ AddBody(m, type, b, e, d) = d
  <2>1. Landed(m, type, b, e, d)
    BY AddBodyIs
  <2> QED BY <2>1 DEF Landed
<1>3. PICK max, len : max = m[type].max /\ len = Len(m[type].regions)
  OBVIOUS
<1>4. max \in Nat /\ len \in Nat
  <2>1. m[type].regions \in Regions /\ m[type].max \in Nat
    BY TableOf DEF Sound
  <2> QED BY <1>3, <2>1, LenProperties DEF Regions
<1>5. ~(len + 1 = max)
  BY <1>3, <1>4
<1> QED BY <1>2, <1>3, <1>5 DEF Lands

(* The two parts of a result.                                              *)
LEMMA ResultIs ==
  ASSUME NEW rc, NEW m
  PROVE  Result(rc, m).rc = rc /\ Result(rc, m).m = m
  BY DEF Result

(* Tables with other rows, as many as there is room for.                   *)
LEMMA SoundWith ==
  ASSUME NEW m, Sound(m), NEW type \in Types, NEW q, Canon(q), m[type].max >= 2,
         Len(q) >= 1, Len(q) < m[type].max
  PROVE  Sound(With(m, type, q))
<1>1. m \in Tables /\ q \in Regions
  BY RegionsRow DEF Sound, Canon
<1>2. PICK n : n = With(m, type, q)
  OBVIOUS
<1>3. /\ n \in Tables /\ n[type].regions = q /\ n[type].max = m[type].max
      /\ \A other \in Types : other # type => n[other] = m[other]
  BY <1>1, <1>2, WithIs
<1>4. ASSUME NEW other \in Types PROVE Canon(n[other].regions) /\ Roomy(n[other])
  <2>1. CASE other = type
    BY <1>3, <2>1 DEF Roomy
  <2>2. CASE other # type
    BY <1>3, <2>2 DEF Sound
  <2> QED BY <2>1, <2>2
<1>5. Sound(n)
  BY <1>3, <1>4 DEF Sound
<1> QED BY <1>2, <1>5

(* Taking one covered page out of a reserved table with room for more.     *)
LEMMA FreedIs ==
  ASSUME NEW m, Sound(m), NEW x \in Nat, Covers(m.reserved.regions, x), NEW d,
         m.reserved.max >= 2, Len(m.reserved.regions) + 1 < m.reserved.max
  PROVE  \E q : /\ Canon(q) /\ Len(q) >= 1 /\ Len(q) < m.reserved.max
                /\ Minused(q, m.reserved.regions, x, x + 1)
                /\ RemoveBody(m, "reserved", x, x + ArraySize,
                      AddBody(Shortened(m, "reserved", x, x + ArraySize), "reserved",
                              x + ArraySize, RestEnd(m, "reserved", x, x + ArraySize), d))
                     = Result("ok", With(m, "reserved", q))
<1>1. PICK type \in Types : type = "reserved"
  BY DEF Types
<1>2. PICK q0, max : q0 = m[type].regions /\ max = m[type].max
  OBVIOUS
<1>3. /\ q0 = m.reserved.regions /\ max = m.reserved.max /\ m \in Tables
      /\ Canon(q0) /\ max \in Nat /\ max >= 2 /\ Len(q0) \in Nat /\ Len(q0) >= 1
      /\ Len(q0) + 1 < max
  <2>1. q0 = m.reserved.regions /\ max = m.reserved.max /\ m \in Tables /\ Canon(q0)
    BY <1>1, <1>2 DEF Sound
  <2>2. max \in Nat /\ Len(q0) \in Nat
    BY <1>2, <2>1, TableOf, LenProperties DEF Canon
  <2>3. Len(q0) # 0
    <3> SUFFICES ASSUME Len(q0) = 0 PROVE FALSE
      OBVIOUS
    <3>1. ~Covers(q0, x)
      BY DEF Covers
    <3> QED BY <2>1, <3>1
  <2> QED BY <2>1, <2>2, <2>3
<1>4. PICK e : e = x + 1
  OBVIOUS
<1>5. e \in Nat /\ x < e /\ e <= Top /\ NoneAt(q0, e)
  <2>1. x < Top
    BY <1>3, CoveredBelow
  <2>2. NoneAt(q0, x + 1)
    BY <1>3, NoneAfter
  <2> QED BY <1>4, <2>1, <2>2, Numbers
<1>6. PICK short0, z0, split :
        /\ short0 = Shortened(m, type, x, e) /\ z0 = RestEnd(m, type, x, e)
        /\ split = AddBody(short0, type, e, z0, d)
  OBVIOUS
<1>7. PICK F : F = RemoveBody(m, type, x, e, split)
  OBVIOUS
<1>8. RemoveBody(m, "reserved", x, x + ArraySize,
                      AddBody(Shortened(m, "reserved", x, x + ArraySize), "reserved",
                              x + ArraySize, RestEnd(m, "reserved", x, x + ArraySize), d)) = F
  BY <1>1, <1>4, <1>6, <1>7 DEF ArraySize
<1>9. \/ \E q : /\ TakesOut(m, type, x, e, q)
                /\ RemoveBody(m, type, x, e, split) = Result("ok", With(m, type, q))
      \/ \E short, z : Splits(m, type, x, e, split, short, z)
  <2>1. NoneAt(m[type].regions, e) /\ e \in Nat /\ x < e /\ e <= Top
    BY <1>2, <1>5
  <2> QED BY <2>1, RemoveBodyIs
<1>10. CASE \E q : /\ TakesOut(m, type, x, e, q)
                   /\ RemoveBody(m, type, x, e, split) = Result("ok", With(m, type, q))
  <2>1. PICK q : /\ TakesOut(m, type, x, e, q)
                 /\ RemoveBody(m, type, x, e, split) = Result("ok", With(m, type, q))
    BY <1>10
  <2>2. Canon(q) /\ Len(q) <= Len(q0) /\ Len(q) >= 1 /\ Minused(q, q0, x, e)
    BY <1>2, <1>3, <2>1 DEF TakesOut
  <2>3. Len(q) \in Nat
    BY <2>2, LenProperties DEF Canon
  <2>4. Len(q) < max
    BY <1>3, <2>2, <2>3
  <2>5. F = Result("ok", With(m, "reserved", q))
    BY <1>1, <1>7, <2>1
  <2>6. Minused(q, m.reserved.regions, x, x + 1) /\ Len(q) < m.reserved.max
    BY <1>3, <1>4, <2>2, <2>4
  <2> QED BY <1>8, <2>2, <2>5, <2>6
<1>11. CASE \E short, z : Splits(m, type, x, e, split, short, z)
  <2>1. PICK short, z :
              /\ Canon(short) /\ Len(short) = Len(q0)
              /\ z \in Nat /\ e < z /\ z <= Top
              /\ \A p : Plused(p, short, e, z) => Minused(p, q0, x, e)
              /\ Shortened(m, type, x, e) = With(m, type, short)
              /\ RestEnd(m, type, x, e) = z
              /\ split.rc # "fail" => RemoveBody(m, type, x, e, split) = split
    BY <1>2, <1>11 DEF Splits
  <2>2. PICK n : n = With(m, type, short)
    OBVIOUS
  <2>3. short \in Regions
    BY <2>1, RegionsRow DEF Canon
  <2>4. n \in Tables /\ n[type].regions = short /\ n[type].max = max
    BY <1>2, <1>3, <2>2, <2>3, WithIs
  <2>5. Len(short) >= 1 /\ Len(short) < m[type].max /\ m[type].max >= 2
    BY <1>2, <1>3, <2>1
  <2>6. Sound(n)
    BY <2>1, <2>2, <2>5, SoundWith
  <2>7. split = AddBody(n, type, e, z, d)
    BY <1>6, <2>1, <2>2
  <2>8. n[type].max # 0 /\ Len(n[type].regions) + 1 < n[type].max
    BY <1>3, <2>1, <2>4
  <2>9. PICK q : /\ AddsRow(n, type, e, z, q) /\ Len(q) < n[type].max
                 /\ AddBody(n, type, e, z, d) = Result("ok", With(n, type, q))
    <3>1. e \in Nat /\ z \in Nat /\ e < z /\ z <= Top
      BY <1>5, <2>1
    <3>2. Lands(n, type, e, z, d)
      BY <2>6, <2>8, <3>1, RoomForOne
    <3> QED BY <3>2 DEF Lands
  <2>10. Canon(q) /\ Len(q) >= 1 /\ Len(q) < max /\ Plused(q, short, e, z)
    BY <2>4, <2>9 DEF AddsRow
  <2>11. With(n, type, q) = With(m, type, q)
    <3>1. q \in Regions
      BY <2>10, RegionsRow DEF Canon
    <3> QED BY <1>3, <2>2, <2>3, <3>1, WithTwice
  <2>12. split = Result("ok", With(m, type, q)) /\ split.rc # "fail"
    BY <2>7, <2>9, <2>11, ResultIs
  <2>13. F = Result("ok", With(m, type, q))
    BY <1>7, <2>1, <2>12
  <2>14. Minused(q, q0, x, e)
    BY <2>1, <2>10
  <2>15. F = Result("ok", With(m, "reserved", q))
    BY <1>1, <2>13
  <2>16. Minused(q, m.reserved.regions, x, x + 1) /\ Len(q) < m.reserved.max
    BY <1>3, <1>4, <2>10, <2>14
  <2> QED BY <1>8, <2>10, <2>15, <2>16
<1> QED BY <1>9, <1>10, <1>11

(* What the reserved table comes to when it is full and is to grow.        *)
LEMMA GrowReserved ==
  ASSUME NEW m, Full(m, "reserved"), NEW k, NEW d1, NEW d2
  PROVE  \/ DoubledAlone(m, k, d1, d2) = Result("fail", m)
         \/ \E n : /\ DoubledAlone(m, k, d1, d2) = Result("ok", n)
                   /\ m.canResize /\ Settled(m, n)
                   /\ k # "some" => Exactly(m, n)
<1>1. PICK type \in Types : type = "reserved"
  BY DEF Types
<1>2. PICK a, old, q0, max : /\ a = NewArray(m) /\ old = m.reserved.array
                             /\ q0 = m.reserved.regions /\ max = m.reserved.max
  OBVIOUS
<1>3. /\ m \in Tables /\ Kept(m) /\ Canon(m.memory.regions) /\ Canon(q0)
      /\ Len(q0) = max /\ max >= 2 /\ max \in Nat
  <2>1. /\ m \in Tables /\ Kept(m) /\ Canon(m.memory.regions) /\ Canon(q0)
        /\ Len(q0) = max /\ max >= 2
    BY <1>2 DEF Full
  <2>2. m[type].max \in Nat
    BY <2>1, TableOf
  <2> QED BY <1>1, <1>2, <2>1, <2>2
<1>4. PICK own, freed, R :
        /\ own = AddBody(Moved(m, type, a), type, a, a + ArraySize, d1)
        /\ freed = RemoveBody(own.m, type, old, old + ArraySize,
                     AddBody(Shortened(own.m, type, old, old + ArraySize), type,
                        old + ArraySize, RestEnd(own.m, type, old, old + ArraySize), d2))
        /\ R = DoubleBody(m, type, k, own, freed)
  OBVIOUS
<1>5. DoubledAlone(m, k, d1, d2) = R
  BY <1>1, <1>2, <1>4 DEF DoubledAlone
<1>6. R = IF ~m.canResize \/ k = "none" THEN Result("fail", m)
          ELSE IF k = "some" THEN Result("ok", Moved(m, type, Slab))
          ELSE IF a = 0 THEN Result("fail", m)
          ELSE IF own.rc = "fail" THEN Result("bug", own.m)
          ELSE IF own.rc # "ok" \/ old \in {Static, Slab} THEN own
          ELSE IF freed.rc = "fail" THEN Result("ok", freed.m)
          ELSE freed
  BY <1>1, <1>2, <1>4 DEF DoubleBody, Error
<1>7. CASE ~m.canResize \/ k = "none"
  BY <1>5, <1>6, <1>7
<1>8. CASE m.canResize /\ k # "none" /\ k = "some"
  <2>1. PICK n : n = Moved(m, type, Slab)
    OBVIOUS
  <2>2. R = Result("ok", n)
    BY <1>6, <1>8, <2>1
  <2>3. n \in Tables /\ n[type].regions = q0
    <3>1. m[type].regions = q0
      BY <1>1, <1>2
    <3> QED BY <1>3, <2>1, <3>1, ConstantsAre, MovedIs
  <2>4. With(n, type, q0) = n
    BY <2>3, WithSelf
  <2>5. PICK slabbed : slabbed = Slab
    OBVIOUS
  <2>6. n = With(Moved(m, "reserved", slabbed), "reserved", q0)
    BY <1>1, <2>1, <2>4, <2>5
  <2>7. Len(q0) >= 1 /\ Len(q0) < 2 * m.reserved.max
    BY <1>2, <1>3
  <2>8. /\ \A x \in Nat : x # slabbed => (Covers(q0, x) => Covers(m.reserved.regions, x))
        /\ \A x \in Nat : (Covers(m.reserved.regions, x) /\ ~Covers(q0, x)) => x = m.reserved.array
    BY <1>2
  <2>9. slabbed \in Int
    BY <2>5, ConstantsAre
  <2>10. Settled(m, With(Moved(m, "reserved", slabbed), "reserved", q0))
    BY ONLY Full(m, "reserved"), <1>2, <1>3, <1>8, <2>5, <2>7, <2>8, <2>9, GrownReserved
  <2> QED BY <1>5, <1>8, <2>2, <2>6, <2>10
<1>9. CASE m.canResize /\ k # "none" /\ k # "some" /\ a = 0
  BY <1>5, <1>6, <1>9
<1>10. CASE m.canResize /\ k # "none" /\ k # "some" /\ a # 0
  <2>1. /\ a \in Nat /\ a >= 1 /\ a < Top
        /\ Covers(m.memory.regions, a) /\ ~Covers(q0, a)
    <3>1. Canon(m.reserved.regions) /\ NewArray(m) # 0
      BY <1>2, <1>3, <1>10
    <3>2. /\ NewArray(m) \in Nat /\ NewArray(m) >= 1 /\ NewArray(m) < Top
          /\ Covers(m.memory.regions, NewArray(m)) /\ ~Covers(m.reserved.regions, NewArray(m))
      BY <1>3, <3>1, NewArrayIs
    <3> QED BY <1>2, <3>2
  <2>2. PICK n1 : n1 = Moved(m, type, a)
    OBVIOUS
  <2>3. /\ n1 \in Tables /\ n1[type].regions = q0 /\ n1[type].max = 2 * max
        /\ n1.reserved.regions = q0 /\ n1.reserved.max = 2 * max /\ n1.memory = m.memory
    <3>1. a \in Int
      BY <2>1
    <3>2. /\ Moved(m, "reserved", a) \in Tables
          /\ Moved(m, "reserved", a).reserved.regions = m.reserved.regions
          /\ Moved(m, "reserved", a).reserved.max = 2 * m.reserved.max
          /\ Moved(m, "reserved", a).memory = m.memory
      BY <1>3, <3>1, MovedIsOne
    <3>3. n1 = Moved(m, "reserved", a) /\ n1[type] = n1.reserved
      BY <1>1, <2>2
    <3> QED BY <1>2, <3>2, <3>3
  <2>4. Sound(n1)
    <3>1. Roomy(n1.reserved)
      <4>1. 2 * max >= 2 /\ Len(q0) >= 1 /\ Len(q0) < 2 * max
        BY <1>3
      <4> QED BY <2>3, <4>1 DEF Roomy
    <3>2. Roomy(n1.memory) /\ Canon(n1.memory.regions)
      BY <1>3, <2>3 DEF Full, Types
    <3> QED BY <1>3, <2>3, <3>1, <3>2 DEF Sound, Types
  <2>5. n1[type].max # 0 /\ Len(n1[type].regions) + 1 < n1[type].max
    BY <1>3, <2>3
  <2>6. PICK e : e = a + ArraySize /\ e = a + 1 /\ e \in Nat /\ a < e /\ e <= Top
    BY <2>1, Numbers, ConstantsAre
  <2>7. PICK q : /\ AddsRow(n1, type, a, e, q) /\ Len(q) < n1[type].max
                 /\ AddBody(n1, type, a, e, d1) = Result("ok", With(n1, type, q))
    <3>1. Lands(n1, type, a, e, d1)
      BY <2>1, <2>4, <2>5, <2>6, RoomForOne
    <3> QED BY <3>1 DEF Lands
  <2>8. /\ Canon(q) /\ Len(q) >= 1 /\ Len(q) <= max + 1 /\ Len(q) < 2 * max /\ Len(q) \in Nat
        /\ \A x \in Nat : Covers(q, x) <=> (Covers(q0, x) \/ x = a)
    <3>1. /\ Canon(q) /\ Len(q) >= 1 /\ Len(q) <= max + 1 /\ Len(q) < 2 * max
          /\ Plused(q, q0, a, e)
      BY <1>3, <2>3, <2>7 DEF AddsRow
    <3>2. \A x \in Nat : (a <= x /\ x < e) <=> x = a
      BY <2>1, <2>6
    <3>3. Len(q) \in Nat
      BY <3>1, LenProperties DEF Canon
    <3> QED BY <3>1, <3>2, <3>3 DEF Plused
  <2>9. PICK n2 : n2 = With(n1, type, q)
    OBVIOUS
  <2>10. own = Result("ok", n2) /\ own.rc = "ok" /\ own.m = n2
    BY <1>4, <2>2, <2>6, <2>7, <2>9, ResultIs
  <2>11. n2 = With(Moved(m, "reserved", a), "reserved", q)
    BY <1>1, <2>2, <2>9
  <2>12. a # Slab /\ a \in Int /\ a \in 1 .. Top - 1
    BY <2>1, ConstantsAre, Numbers
  <2>13. ASSUME NEW q2, Canon(q2), Len(q2) >= 1, Len(q2) < 2 * max,
                \A x \in Nat : Covers(q2, x) <=> ((Covers(q0, x) \/ x = a) /\ x # old),
                R = Result("ok", With(Moved(m, "reserved", a), "reserved", q2))
         PROVE  \E n : /\ R = Result("ok", n) /\ Settled(m, n) /\ Exactly(m, n)
    <3>1. Covers(q2, a)
      <4>1. CASE old \in Nat
        <5>1. Owns(m, old)
          BY <1>2, OwnsEither
        <5>2. Covers(q0, old)
          BY <1>2, <1>3, <4>1, <5>1 DEF Kept
        <5> QED BY <2>1, <2>13, <5>2
      <4>2. CASE old \notin Nat
        BY <2>1, <2>13, <4>2
      <4> QED BY <4>1, <4>2
    <3>2. /\ \A x \in Nat : x # a => (Covers(q2, x) => Covers(m.reserved.regions, x))
          /\ \A x \in Nat : (Covers(m.reserved.regions, x) /\ ~Covers(q2, x)) => x = m.reserved.array
      BY <1>2, <2>13
    <3>3. Len(q2) < 2 * m.reserved.max
      BY <1>2, <2>13
    <3>4. Settled(m, With(Moved(m, "reserved", a), "reserved", q2))
      BY ONLY Full(m, "reserved"), <1>2, <1>10, <2>1, <2>12, <2>13, <3>1, <3>2, <3>3, GrownReserved
    <3>5. PICK n : n = With(Moved(m, "reserved", a), "reserved", q2)
      OBVIOUS
    <3>6. n.memory = m.memory /\ n.reserved.regions = q2 /\ n.reserved.array = a
      <4>1. PICK o1 : o1 = Moved(m, "reserved", a)
        OBVIOUS
      <4>2. o1 \in Tables /\ o1.memory = m.memory /\ o1.reserved.array = a
        BY <1>3, <2>12, <4>1, MovedIsOne
      <4>3. q2 \in Regions
        BY <2>13, RegionsRow DEF Canon
      <4>4. n = With(o1, "reserved", q2)
        BY <3>5, <4>1
      <4> QED BY <4>2, <4>3, <4>4, WithIsOne
    <3>7. ASSUME NEW x \in Nat, Owns(m, x), ~Owns(n, x) PROVE ~Covers(q2, x)
      <4>1. x = old
        BY <1>2, <3>6, <3>7, OwnsEither
      <4> QED BY <2>13, <4>1
    <3>8. Exactly(m, n)
      BY <3>6, <3>7 DEF Exactly
    <3> QED BY <2>13, <3>4, <3>5, <3>8
  <2>14. CASE old \in {Static, Slab}
    <3>1. R = own
      BY <1>6, <1>10, <2>10, <2>14
    <3>2. R = Result("ok", With(Moved(m, "reserved", a), "reserved", q))
      BY <2>10, <2>11, <3>1
    <3>3. \A x \in Nat : x # old
      BY <2>14, ConstantsAre
    <3>4. \A x \in Nat : Covers(q, x) <=> ((Covers(q0, x) \/ x = a) /\ x # old)
      BY <2>8, <3>3
    <3>5. \E n : /\ R = Result("ok", n) /\ Settled(m, n) /\ Exactly(m, n)
      BY <2>8, <2>13, <3>2, <3>4
    <3> QED BY <1>5, <1>10, <3>5
  <2>15. CASE old \notin {Static, Slab}
    <3>1. old \in 1 .. Top - 1 /\ old \in Nat /\ max >= 4 /\ Covers(q0, old)
      <4>1. old \in 1 .. Top - 1 /\ max >= 4
        BY <1>2, <1>3, <2>15 DEF Kept, Arrayed, Types
      <4>2. old \in Nat /\ Owns(m, old)
        BY <1>2, <4>1, OwnsEither, Numbers
      <4> QED BY <1>2, <1>3, <4>1, <4>2 DEF Kept
    <3>2. Sound(n2) /\ n2.reserved.regions = q /\ n2.reserved.max = 2 * max /\ n2 \in Tables
      <4>1. n1[type].max >= 2
        BY <1>3, <2>3
      <4>2. Sound(With(n1, type, q))
        BY <2>4, <2>7, <2>8, <4>1, SoundWith
      <4>3. n2 = With(n1, "reserved", q) /\ q \in Regions
        BY <1>1, <2>8, <2>9, RegionsRow DEF Canon
      <4>4. n2.reserved.regions = q /\ n2.reserved.max = n1.reserved.max /\ n2 \in Tables
        BY <2>3, <4>3, WithIsOne
      <4> QED BY <2>3, <2>9, <4>2, <4>4
    <3>3. Covers(n2.reserved.regions, old)
      BY <2>8, <3>1, <3>2
    <3>4. n2.reserved.max >= 2 /\ Len(n2.reserved.regions) + 1 < n2.reserved.max
      BY <1>3, <2>8, <3>1, <3>2
    <3>5. PICK q2 : /\ Canon(q2) /\ Len(q2) >= 1 /\ Len(q2) < n2.reserved.max
                    /\ Minused(q2, n2.reserved.regions, old, old + 1)
                    /\ RemoveBody(n2, "reserved", old, old + ArraySize,
                          AddBody(Shortened(n2, "reserved", old, old + ArraySize), "reserved",
                              old + ArraySize, RestEnd(n2, "reserved", old, old + ArraySize), d2))
                         = Result("ok", With(n2, "reserved", q2))
      BY <3>1, <3>2, <3>3, <3>4, FreedIs
    <3>6. freed = Result("ok", With(n2, "reserved", q2))
      BY <1>1, <1>4, <2>10, <3>5
    <3>7. With(n2, "reserved", q2) = With(Moved(m, "reserved", a), "reserved", q2)
      <4>1. q \in Regions /\ q2 \in Regions
        BY <2>8, <3>5, RegionsRow DEF Canon
      <4>2. With(With(n1, type, q), type, q2) = With(n1, type, q2)
        BY <2>3, <4>1, WithTwice
      <4> QED BY <1>1, <2>2, <2>9, <4>2
    <3>8. R = Result("ok", With(Moved(m, "reserved", a), "reserved", q2))
      <4>1. freed.rc = "ok"
        BY <3>6, ResultIs
      <4>2. R = freed
        BY <1>6, <1>10, <2>10, <2>15, <4>1
      <4> QED BY <3>6, <3>7, <4>2
    <3>9. \A x \in Nat : Covers(q2, x) <=> ((Covers(q0, x) \/ x = a) /\ x # old)
      <4> SUFFICES ASSUME NEW x \in Nat
                   PROVE  Covers(q2, x) <=> ((Covers(q0, x) \/ x = a) /\ x # old)
        OBVIOUS
      <4>1. Covers(q2, x) <=> (Covers(q, x) /\ ~(old <= x /\ x < old + 1))
        BY <3>2, <3>5 DEF Minused
      <4>2. (old <= x /\ x < old + 1) <=> x = old
        BY <3>1
      <4> QED BY <2>8, <4>1, <4>2
    <3>10. Len(q2) < 2 * max
      BY <3>2, <3>5
    <3>11. \E n : /\ R = Result("ok", n) /\ Settled(m, n) /\ Exactly(m, n)
      BY <2>13, <3>5, <3>8, <3>9, <3>10
    <3> QED BY <1>5, <1>10, <3>11
  <2> QED BY <2>14, <2>15
<1> QED BY <1>7, <1>8, <1>9, <1>10

(* What a call that adds b .. e - 1 to the table type of m may come to.    *)
GivesAdded(m, type, b, e, k, n) ==
  \E q : /\ AddsRow(m, type, b, e, q)
         /\ Settled(With(m, type, q), n)
         /\ k # "some" => Exactly(With(m, type, q), n)

(* And one that takes it out.                                              *)
GivesRemoved(m, type, b, e, k, n) ==
  \E q : /\ Canon(q) /\ Minused(q, m[type].regions, b, e)
         /\ Settled(With(m, type, q), n)
         /\ k # "some" => Exactly(With(m, type, q), n)

(* Only the rows of a table changed: its array is where it was.            *)
LEMMA OwnsWith ==
  ASSUME NEW m \in Tables, NEW type \in Types, NEW q \in Regions
  PROVE  /\ \A x : Owns(With(m, type, q), x) <=> Owns(m, x)
         /\ Arrayed(m) => Arrayed(With(m, type, q))
<1>1. PICK n : n = With(m, type, q)
  OBVIOUS
<1>2. /\ n[type].max = m[type].max /\ n[type].array = m[type].array
      /\ \A other \in Types : other # type => n[other] = m[other]
  BY <1>1, WithIs
<1>3. \A other \in Types : n[other].max = m[other].max /\ n[other].array = m[other].array
  BY <1>2
<1>4. \A x : Owns(n, x) <=> Owns(m, x)
  BY <1>3 DEF Owns
<1>5. n.memory.array = m.memory.array /\ n.reserved.array = m.reserved.array
  BY <1>3 DEF Types
<1>6. Arrayed(m) => Arrayed(n)
  BY <1>3, <1>5 DEF Arrayed
<1> QED BY <1>1, <1>4, <1>6

(* Adding to the reserved table, which grows by itself when it is full.    *)
LEMMA AddReserved ==
  ASSUME NEW m, Sound(m), Arrayed(m), NEW b \in Nat, NEW e \in Nat, b < e, e <= Top,
         NEW k, NEW d1, NEW d2,
         \A x \in Nat : Owns(m, x) => (Covers(m.reserved.regions, x) \/ (b <= x /\ x < e))
  PROVE  \/ AddBody(m, "reserved", b, e, DoubledAlone(Added(m, "reserved", b, e), k, d1, d2))
              = Result("fail", m)
         \/ \E n : /\ GivesAdded(m, "reserved", b, e, k, n)
                   /\ AddBody(m, "reserved", b, e,
                              DoubledAlone(Added(m, "reserved", b, e), k, d1, d2))
                        = Result("ok", n)
<1>1. PICK type \in Types, M \in Types : type = "reserved" /\ M = "memory" /\ M # type
  BY DEF Types
<1>2. PICK d, R : /\ d = DoubledAlone(Added(m, type, b, e), k, d1, d2)
                  /\ R = AddBody(m, type, b, e, d)
  OBVIOUS
<1>3. R = AddBody(m, "reserved", b, e, DoubledAlone(Added(m, "reserved", b, e), k, d1, d2))
  BY <1>1, <1>2
<1>4. SUFFICES \/ R = Result("fail", m)
               \/ \E n : GivesAdded(m, type, b, e, k, n) /\ R = Result("ok", n)
  BY <1>1, <1>3
<1>5. m \in Tables
  BY DEF Sound
<1>6. ASSUME NEW q, AddsRow(m, type, b, e, q)
      PROVE  /\ Kept(With(m, type, q)) /\ q \in Regions /\ Canon(q)
             /\ With(m, type, q).reserved.regions = q
             /\ With(m, type, q).reserved.max = m[type].max
             /\ With(m, type, q).memory = m.memory
             /\ With(m, type, q) \in Tables
  <2>1. Canon(q) /\ q \in Regions /\ Plused(q, m[type].regions, b, e)
    BY <1>6, RegionsRow DEF AddsRow, Canon
  <2>2. PICK n : n = With(m, type, q)
    OBVIOUS
  <2>3. n.reserved.regions = q /\ n \in Tables /\ n.memory = m.memory
        /\ n.reserved.max = m[type].max
    <3>1. n = With(m, "reserved", q)
      BY <1>1, <2>2
    <3>2. n.reserved.regions = q /\ n \in Tables /\ n.memory = m.memory
          /\ n.reserved.max = m.reserved.max
      BY <1>5, <2>1, <3>1, WithIsOne
    <3> QED BY <1>1, <3>2
  <2>4. Arrayed(n) /\ \A x : Owns(n, x) <=> Owns(m, x)
    BY <1>5, <2>1, <2>2, OwnsWith
  <2>5. ASSUME NEW x \in Nat, Owns(n, x) PROVE Covers(q, x)
    <3>1. Covers(m.reserved.regions, x) \/ (b <= x /\ x < e)
      BY <2>4, <2>5
    <3> QED BY <1>1, <2>1, <3>1 DEF Plused
  <2>6. Kept(n)
    BY <2>3, <2>4, <2>5 DEF Kept
  <2> QED BY <2>1, <2>2, <2>3, <2>6
<1>7. PICK max, len : max = m[type].max /\ len = Len(m[type].regions)
  OBVIOUS
<1>8. \/ \E q : /\ AddsRow(m, type, b, e, q) /\ Len(q) < m[type].max
                /\ AddBody(m, type, b, e, d) = Result("ok", With(m, type, q))
      \/ /\ m[type].max = 0 \/ (d.rc = "fail" /\ Len(m[type].regions) + 1 = m[type].max)
         /\ AddBody(m, type, b, e, d) = Result("fail", m)
      \/ /\ d.rc # "fail" /\ Len(m[type].regions) + 1 = m[type].max
         /\ \E q : /\ AddsRow(m, type, b, e, q) /\ Len(q) = m[type].max
                   /\ Added(m, type, b, e) = With(m, type, q)
         /\ AddBody(m, type, b, e, d) = d
  <2>1. Landed(m, type, b, e, d)
    BY AddBodyIs
  <2> QED BY <2>1 DEF Landed
<1>9. CASE \E q : /\ AddsRow(m, type, b, e, q) /\ Len(q) < m[type].max
                  /\ AddBody(m, type, b, e, d) = Result("ok", With(m, type, q))
  <2>1. PICK q : /\ AddsRow(m, type, b, e, q) /\ Len(q) < m[type].max
                 /\ AddBody(m, type, b, e, d) = Result("ok", With(m, type, q))
    BY <1>9
  <2>2. PICK n : n = With(m, type, q)
    OBVIOUS
  <2>3. Kept(n) /\ Canon(q)
    BY <1>6, <2>1, <2>2
  <2>4. Len(q) >= 1 /\ Len(q) < m[type].max
    BY <2>1 DEF AddsRow
  <2>5. m[type].max >= 2
    <3>1. m[type].max \in Nat /\ Len(q) \in Nat
      BY <1>5, <2>3, TableOf, LenProperties DEF Canon
    <3> QED BY <2>4, <3>1
  <2>6. Sound(n)
    BY <2>2, <2>3, <2>4, <2>5, SoundWith
  <2>7. Settled(n, n) /\ Exactly(n, n)
    BY <2>3, <2>6, SettledSelf
  <2>8. GivesAdded(m, type, b, e, k, n)
    BY <2>1, <2>2, <2>7 DEF GivesAdded
  <2>9. R = Result("ok", n)
    BY <1>2, <2>1, <2>2
  <2> QED BY <2>8, <2>9
<1>10. CASE AddBody(m, type, b, e, d) = Result("fail", m)
  BY <1>2, <1>10
<1>11. CASE /\ d.rc # "fail" /\ Len(m[type].regions) + 1 = m[type].max
            /\ \E q : /\ AddsRow(m, type, b, e, q) /\ Len(q) = m[type].max
                      /\ Added(m, type, b, e) = With(m, type, q)
            /\ AddBody(m, type, b, e, d) = d
  <2>1. PICK q : /\ AddsRow(m, type, b, e, q) /\ Len(q) = m[type].max
                 /\ Added(m, type, b, e) = With(m, type, q)
    BY <1>11
  <2>2. PICK n : n = With(m, type, q)
    OBVIOUS
  <2>3. /\ Kept(n) /\ Canon(q) /\ n.reserved.regions = q /\ n.reserved.max = m[type].max
        /\ n.memory = m.memory /\ n \in Tables
    BY <1>6, <2>1, <2>2
  <2>4. m[type].max >= 2
    <3>1. m[type].max \in Nat /\ len \in Nat
      BY <1>5, <1>7, TableOf, LenProperties DEF Regions
    <3>2. m[type].max # 0
      BY <1>7, <1>11, <3>1
    <3>3. Roomy(m[type])
      BY DEF Sound
    <3> QED BY <3>2, <3>3 DEF Roomy
  <2>5. Canon(n.memory.regions) /\ Roomy(n.memory)
    <3>1. Canon(m[M].regions) /\ Roomy(m[M])
      BY DEF Sound
    <3> QED BY <1>1, <2>3, <3>1
  <2>6. Full(n, "reserved")
    <3>1. \A other \in Types : other # "reserved" => Roomy(n[other])
      BY <2>5 DEF Types
    <3>2. Len(n.reserved.regions) = n.reserved.max /\ n.reserved.max >= 2 /\ Canon(n.reserved.regions)
      BY <2>1, <2>3, <2>4
    <3> QED BY <2>3, <2>5, <3>1, <3>2 DEF Full
  <2>7. d = DoubledAlone(n, k, d1, d2)
    BY <1>2, <2>1, <2>2
  <2>8. \/ DoubledAlone(n, k, d1, d2) = Result("fail", n)
        \/ \E o : /\ DoubledAlone(n, k, d1, d2) = Result("ok", o)
                  /\ n.canResize /\ Settled(n, o)
                  /\ k # "some" => Exactly(n, o)
    BY <2>6, GrowReserved
  <2>9. d # Result("fail", n)
    BY <1>11, ResultIs
  <2>10. PICK o : /\ d = Result("ok", o) /\ Settled(n, o)
                  /\ k # "some" => Exactly(n, o)
    BY <2>7, <2>8, <2>9
  <2>11. GivesAdded(m, type, b, e, k, o)
    BY <2>1, <2>2, <2>10 DEF GivesAdded
  <2>12. R = Result("ok", o)
    BY <1>2, <1>11, <2>10
  <2> QED BY <2>11, <2>12
<1> QED BY <1>8, <1>9, <1>10, <1>11

(* Adding to tables whose rows were just replaced: what it gives is what   *)
(* it would give of the tables before.                                     *)
LEMMA GivesThrough ==
  ASSUME NEW m \in Tables, NEW type \in Types, NEW short, Canon(short), NEW b, NEW e, NEW z,
         \A p : Plused(p, short, e, z) => Minused(p, m[type].regions, b, e),
         NEW k, NEW n, GivesAdded(With(m, type, short), type, e, z, k, n)
  PROVE  GivesRemoved(m, type, b, e, k, n)
<1>1. PICK o : o = With(m, type, short)
  OBVIOUS
<1>2. short \in Regions
  BY RegionsRow DEF Canon
<1>3. o[type].regions = short
  BY <1>1, <1>2, WithIs
<1>4. PICK q : /\ AddsRow(o, type, e, z, q)
               /\ Settled(With(o, type, q), n)
               /\ k # "some" => Exactly(With(o, type, q), n)
  BY <1>1 DEF GivesAdded
<1>5. Canon(q) /\ Plused(q, short, e, z)
  BY <1>3, <1>4 DEF AddsRow
<1>6. With(o, type, q) = With(m, type, q)
  <2>1. q \in Regions
    BY <1>5, RegionsRow DEF Canon
  <2> QED BY <1>1, <1>2, <2>1, WithTwice
<1> QED BY <1>4, <1>5, <1>6 DEF GivesRemoved

(* Taking out of the reserved table.                                       *)
LEMMA RemoveReserved ==
  ASSUME NEW m, Sound(m), Kept(m), NEW b \in Nat, NEW e \in Nat, b < e, e <= Top,
         NoneAt(m.reserved.regions, e), NEW k, NEW d1, NEW d2,
         \A x \in Nat : (b <= x /\ x < e) => ~Owns(m, x),
         NEW split,
         split = AddBody(Shortened(m, "reserved", b, e), "reserved", e,
                    RestEnd(m, "reserved", b, e),
                    DoubledAlone(Added(Shortened(m, "reserved", b, e), "reserved", e,
                                       RestEnd(m, "reserved", b, e)), k, d1, d2))
  PROVE  \/ RemoveBody(m, "reserved", b, e, split) = Result("fail", m)
         \/ \E n : /\ GivesRemoved(m, "reserved", b, e, k, n)
                   /\ RemoveBody(m, "reserved", b, e, split) = Result("ok", n)
<1>1. PICK type \in Types, M \in Types : type = "reserved" /\ M = "memory" /\ M # type
  BY DEF Types
<1>2. PICK R : R = RemoveBody(m, type, b, e, split)
  OBVIOUS
<1>3. R = RemoveBody(m, "reserved", b, e, split)
  BY <1>1, <1>2
<1>4. SUFFICES \/ R = Result("fail", m)
               \/ \E n : GivesRemoved(m, type, b, e, k, n) /\ R = Result("ok", n)
  BY <1>1, <1>3
<1>5. m \in Tables
  BY DEF Sound
<1>6. PICK q0, max : q0 = m[type].regions /\ max = m[type].max
  OBVIOUS
<1>7. /\ NoneAt(q0, e) /\ Canon(q0) /\ Roomy(m[type]) /\ q0 = m.reserved.regions
      /\ max = m.reserved.max
  BY <1>1, <1>6 DEF Sound
<1>8. max \in Nat /\ Len(q0) \in Nat
  BY <1>5, <1>6, <1>7, TableOf, LenProperties DEF Canon
<1>9. \/ \E q : /\ TakesOut(m, type, b, e, q)
                /\ RemoveBody(m, type, b, e, split) = Result("ok", With(m, type, q))
      \/ \E short, z : Splits(m, type, b, e, split, short, z)
  BY <1>6, <1>7, RemoveBodyIs
<1>10. ASSUME NEW q, Canon(q), NEW z, z \in Nat, e <= z, Minused(q, q0, b, z)
       PROVE  /\ q \in Regions /\ With(m, type, q).reserved.regions = q
              /\ With(m, type, q) \in Tables /\ Arrayed(With(m, type, q))
              /\ \A x \in Nat : Owns(With(m, type, q), x) => (Covers(q, x) \/ (e <= x /\ x < z))
  <2>1. q \in Regions
    BY <1>10, RegionsRow DEF Canon
  <2>2. PICK n : n = With(m, type, q)
    OBVIOUS
  <2>3. n.reserved.regions = q /\ n \in Tables
    <3>1. n = With(m, "reserved", q)
      BY <1>1, <2>2
    <3> QED BY <1>5, <2>1, <3>1, WithIsOne
  <2>4. Arrayed(n) /\ \A x : Owns(n, x) <=> Owns(m, x)
    <3>1. Arrayed(m)
      BY DEF Kept
    <3> QED BY <1>5, <2>1, <2>2, <3>1, OwnsWith
  <2>5. ASSUME NEW x \in Nat, Owns(n, x) PROVE Covers(q, x) \/ (e <= x /\ x < z)
    <3>1. Owns(m, x)
      BY <2>4, <2>5
    <3>2. Covers(q0, x) /\ ~(b <= x /\ x < e)
      BY <1>7, <3>1 DEF Kept
    <3>3. Covers(q, x) <=> (Covers(q0, x) /\ ~(b <= x /\ x < z))
      BY <1>10 DEF Minused
    <3> QED BY <1>10, <3>2, <3>3
  <2> QED BY <2>1, <2>2, <2>3, <2>4, <2>5
<1>11. CASE \E q : /\ TakesOut(m, type, b, e, q)
                   /\ RemoveBody(m, type, b, e, split) = Result("ok", With(m, type, q))
  <2>1. PICK q : /\ TakesOut(m, type, b, e, q)
                 /\ RemoveBody(m, type, b, e, split) = Result("ok", With(m, type, q))
    BY <1>11
  <2>2. PICK n : n = With(m, type, q)
    OBVIOUS
  <2>3. Canon(q) /\ Len(q) <= Len(q0) /\ Minused(q, q0, b, e) /\ (Len(q0) >= 1 => Len(q) >= 1)
    BY <1>6, <2>1 DEF TakesOut
  <2>4. /\ q \in Regions /\ n.reserved.regions = q /\ n \in Tables /\ Arrayed(n)
        /\ \A x \in Nat : Owns(n, x) => (Covers(q, x) \/ (e <= x /\ x < e))
    BY <1>10, <2>2, <2>3
  <2>5. Kept(n)
    <3>1. \A x \in Nat : Owns(n, x) => Covers(q, x)
      BY <2>4
    <3> QED BY <2>4, <3>1 DEF Kept
  <2>6. Sound(n)
    <3>1. CASE max = 0 /\ q0 = <<>>
      <4>1. Len(q) = 0
        <5>1. Len(q0) = 0 /\ Len(q) \in Nat
          BY <2>3, <3>1, LenProperties DEF Canon
        <5> QED BY <2>3, <5>1
      <4>2. q = q0
        BY <2>3, <3>1, <4>1, EmptySeq DEF Canon
      <4>3. n = m
        BY <1>5, <1>6, <2>2, <4>2, WithSelf
      <4> QED BY <4>3
    <3>2. CASE max >= 2 /\ Len(q0) >= 1 /\ Len(q0) < max
      <4>1. Len(q) \in Nat
        BY <2>3, LenProperties DEF Canon
      <4>2. Len(q) >= 1 /\ Len(q) < m[type].max /\ m[type].max >= 2
        BY <1>6, <1>8, <2>3, <3>2, <4>1
      <4> QED BY <2>2, <2>3, <4>2, SoundWith
    <3> QED BY <1>6, <1>7, <3>1, <3>2 DEF Roomy
  <2>7. Settled(n, n) /\ Exactly(n, n)
    BY <2>5, <2>6, SettledSelf
  <2>8. GivesRemoved(m, type, b, e, k, n)
    BY <1>6, <2>2, <2>3, <2>7 DEF GivesRemoved
  <2>9. R = Result("ok", n)
    BY <1>2, <2>1, <2>2
  <2> QED BY <2>8, <2>9
<1>12. CASE \E short, z : Splits(m, type, b, e, split, short, z)
  <2>1. PICK short, z : Splits(m, type, b, e, split, short, z)
    BY <1>12
  <2>2. /\ Canon(short) /\ Len(short) = Len(q0) /\ max >= 2
        /\ z \in Nat /\ e < z /\ z <= Top
        /\ Minused(short, q0, b, z)
        /\ \A p : Plused(p, short, e, z) => Minused(p, q0, b, e)
        /\ Shortened(m, type, b, e) = With(m, type, short)
        /\ RestEnd(m, type, b, e) = z
        /\ split.rc # "fail" => RemoveBody(m, type, b, e, split) = split
        /\ (split.rc = "fail" /\ split.m = With(m, type, short))
                    => RemoveBody(m, type, b, e, split) = Result("fail", m)
    BY <1>6, <2>1 DEF Splits
  <2>3. PICK o : o = With(m, type, short)
    OBVIOUS
  <2>4. /\ short \in Regions /\ o.reserved.regions = short /\ o \in Tables /\ Arrayed(o)
        /\ \A x \in Nat : Owns(o, x) => (Covers(short, x) \/ (e <= x /\ x < z))
    BY <1>10, <2>2, <2>3
  <2>5. Sound(o)
    <3>1. Len(q0) >= 1 /\ Len(q0) < max
      BY <1>6, <1>7, <2>2 DEF Roomy
    <3>2. Len(short) >= 1 /\ Len(short) < m[type].max /\ m[type].max >= 2
      BY <1>6, <2>2, <3>1
    <3> QED BY <2>2, <2>3, <3>2, SoundWith
  <2>6. split = AddBody(o, "reserved", e, z, DoubledAlone(Added(o, "reserved", e, z), k, d1, d2))
    BY <1>1, <2>2, <2>3
  <2>7. \A x \in Nat : Owns(o, x) => (Covers(o.reserved.regions, x) \/ (e <= x /\ x < z))
    BY <2>4
  <2>8. \/ AddBody(o, "reserved", e, z, DoubledAlone(Added(o, "reserved", e, z), k, d1, d2))
              = Result("fail", o)
        \/ \E n : /\ GivesAdded(o, "reserved", e, z, k, n)
                   /\ AddBody(o, "reserved", e, z,
                              DoubledAlone(Added(o, "reserved", e, z), k, d1, d2))
                        = Result("ok", n)
    BY <2>2, <2>4, <2>5, <2>7, AddReserved
  <2>9. CASE split = Result("fail", o)
    <3>1. split.rc = "fail" /\ split.m = With(m, type, short)
      BY <2>3, <2>9, ResultIs
    <3> QED BY <1>2, <2>2, <3>1
  <2>10. CASE \E n : GivesAdded(o, "reserved", e, z, k, n) /\ split = Result("ok", n)
    <3>1. PICK n : GivesAdded(o, type, e, z, k, n) /\ split = Result("ok", n)
      BY <1>1, <2>10
    <3>2. split.rc # "fail"
      BY <3>1, ResultIs
    <3>3. R = Result("ok", n)
      BY <1>2, <2>2, <3>1, <3>2
    <3>4. \A p : Plused(p, short, e, z) => Minused(p, m[type].regions, b, e)
      BY <1>6, <2>2
    <3>5. GivesRemoved(m, type, b, e, k, n)
      BY <1>5, <2>2, <2>3, <3>1, <3>4, GivesThrough
    <3> QED BY <3>3, <3>5
  <2> QED BY <2>6, <2>8, <2>9, <2>10
<1> QED BY <1>9, <1>11, <1>12

(* The reserved table grows alone, at whatever depth.                      *)
LEMMA DoubleOnceIs ==
  ASSUME NEW m, NEW k
  PROVE  \E d1, d2 : DoubleOnce(m, "reserved", k) = DoubledAlone(m, k, d1, d2)
<1>1. PICK a, n1, d1 : /\ a = NewArray(m) /\ n1 = Moved(m, "reserved", a)
                       /\ d1 = Result("deep", n1)
  OBVIOUS
<1>2. PICK own : own = AddBody(n1, "reserved", a, a + ArraySize, d1)
  OBVIOUS
<1>3. PICK o : o = m.reserved.array
  OBVIOUS
<1>4. PICK sh, d2 : sh = Shortened(own.m, "reserved", o, o + ArraySize) /\ d2 = Result("deep", sh)
  OBVIOUS
<1>5. DoubledAlone(m, k, d1, d2) = DoubleBody(m, "reserved", k, own,
        RemoveBody(own.m, "reserved", o, o + ArraySize,
          AddBody(sh, "reserved", o + ArraySize,
                  RestEnd(own.m, "reserved", o, o + ArraySize), d2)))
  BY <1>1, <1>2, <1>3, <1>4 DEF DoubledAlone
<1>6. AddOnce(n1, "reserved", a, a + ArraySize, k) = own
  BY <1>1, <1>2 DEF AddOnce
<1>7. RemoveOnce(own.m, "reserved", o, o + ArraySize, k)
        = RemoveBody(own.m, "reserved", o, o + ArraySize,
            AddBody(sh, "reserved", o + ArraySize,
                    RestEnd(own.m, "reserved", o, o + ArraySize), d2))
  BY <1>4 DEF RemoveOnce, AddOnce
<1>8. DoubleOnce(m, "reserved", k) = DoubleBody(m, "reserved", k, own,
        RemoveOnce(own.m, "reserved", o, o + ArraySize, k))
  BY <1>1, <1>3, <1>6 DEF DoubleOnce, FreeOldOnce
<1>9. DoubleOnce(m, "reserved", k) = DoubledAlone(m, k, d1, d2)
  BY <1>5, <1>7, <1>8
<1> QED BY <1>9

(* One level further out, too, the reserved table grows as it does alone.  *)
LEMMA DoubleTwiceIs ==
  ASSUME NEW m, NEW k
  PROVE  \E d1, d2 : DoubleTwice(m, "reserved", k) = DoubledAlone(m, k, d1, d2)
<1>1. PICK a, n1, d1 : /\ a = NewArray(m) /\ n1 = Moved(m, "reserved", a)
                       /\ d1 = DoubleOnce(Added(n1, "reserved", a, a + ArraySize), "reserved", k)
  OBVIOUS
<1>2. PICK own : own = AddBody(n1, "reserved", a, a + ArraySize, d1)
  OBVIOUS
<1>3. PICK o : o = m.reserved.array
  OBVIOUS
<1>4. PICK sh, z, d2 : /\ sh = Shortened(own.m, "reserved", o, o + ArraySize)
                       /\ z = RestEnd(own.m, "reserved", o, o + ArraySize)
                       /\ d2 = DoubleOnce(Added(sh, "reserved", o + ArraySize, z), "reserved", k)
  OBVIOUS
<1>5. DoubledAlone(m, k, d1, d2) = DoubleBody(m, "reserved", k, own,
        RemoveBody(own.m, "reserved", o, o + ArraySize,
          AddBody(sh, "reserved", o + ArraySize, z, d2)))
  BY <1>1, <1>2, <1>3, <1>4 DEF DoubledAlone
<1>6. AddTwice(n1, "reserved", a, a + ArraySize, k) = own
  BY <1>1, <1>2 DEF AddTwice
<1>7. RemoveTwice(own.m, "reserved", o, o + ArraySize, k)
        = RemoveBody(own.m, "reserved", o, o + ArraySize,
            AddBody(sh, "reserved", o + ArraySize, z, d2))
  BY <1>4 DEF RemoveTwice, AddTwice
<1>8. DoubleTwice(m, "reserved", k) = DoubleBody(m, "reserved", k, own,
        RemoveTwice(own.m, "reserved", o, o + ArraySize, k))
  BY <1>1, <1>3, <1>6 DEF DoubleTwice, FreeOldTwice
<1>9. DoubleTwice(m, "reserved", k) = DoubledAlone(m, k, d1, d2)
  BY <1>5, <1>7, <1>8
<1> QED BY <1>9

(* Adding to the reserved table from within growing the memory table, and  *)
(* taking out of it.                                                       *)
LEMMA AddTwiceIs ==
  ASSUME NEW m, Sound(m), Arrayed(m), NEW b \in Nat, NEW e \in Nat, b < e, e <= Top, NEW k,
         \A x \in Nat : Owns(m, x) => (Covers(m.reserved.regions, x) \/ (b <= x /\ x < e))
  PROVE  \/ AddTwice(m, "reserved", b, e, k) = Result("fail", m)
         \/ \E n : /\ GivesAdded(m, "reserved", b, e, k, n)
                   /\ AddTwice(m, "reserved", b, e, k) = Result("ok", n)
<1>1. PICK o : o = Added(m, "reserved", b, e)
  OBVIOUS
<1>2. PICK d1, d2 : DoubleOnce(o, "reserved", k) = DoubledAlone(o, k, d1, d2)
  BY DoubleOnceIs
<1>3. AddTwice(m, "reserved", b, e, k)
        = AddBody(m, "reserved", b, e, DoubledAlone(Added(m, "reserved", b, e), k, d1, d2))
  BY <1>1, <1>2 DEF AddTwice
<1>4. \/ AddBody(m, "reserved", b, e, DoubledAlone(Added(m, "reserved", b, e), k, d1, d2))
              = Result("fail", m)
      \/ \E n : /\ GivesAdded(m, "reserved", b, e, k, n)
                /\ AddBody(m, "reserved", b, e,
                           DoubledAlone(Added(m, "reserved", b, e), k, d1, d2))
                     = Result("ok", n)
  BY AddReserved
<1> QED BY <1>3, <1>4

(* __memblock_remove within a growth: the range is free, or nothing is     *)
(* changed.                                                                *)
LEMMA RemoveTwiceIs ==
  ASSUME NEW m, Sound(m), Kept(m), NEW b \in Nat, NEW e \in Nat, b < e, e <= Top,
         NoneAt(m.reserved.regions, e), NEW k,
         \A x \in Nat : (b <= x /\ x < e) => ~Owns(m, x)
  PROVE  \/ RemoveTwice(m, "reserved", b, e, k) = Result("fail", m)
         \/ \E n : /\ GivesRemoved(m, "reserved", b, e, k, n)
                   /\ RemoveTwice(m, "reserved", b, e, k) = Result("ok", n)
<1>1. PICK o, z : o = Shortened(m, "reserved", b, e) /\ z = RestEnd(m, "reserved", b, e)
  OBVIOUS
<1>2. PICK u : u = Added(o, "reserved", e, z)
  OBVIOUS
<1>3. PICK d1, d2 : DoubleOnce(u, "reserved", k) = DoubledAlone(u, k, d1, d2)
  BY DoubleOnceIs
<1>4. PICK split : split = AddBody(Shortened(m, "reserved", b, e), "reserved", e,
                    RestEnd(m, "reserved", b, e),
                    DoubledAlone(Added(Shortened(m, "reserved", b, e), "reserved", e,
                                       RestEnd(m, "reserved", b, e)), k, d1, d2))
  OBVIOUS
<1>5. split = AddBody(o, "reserved", e, z, DoubledAlone(u, k, d1, d2))
  BY <1>1, <1>2, <1>4
<1>6. RemoveTwice(m, "reserved", b, e, k) = RemoveBody(m, "reserved", b, e, split)
  BY <1>1, <1>2, <1>3, <1>5 DEF RemoveTwice, AddTwice
<1>7. \/ RemoveBody(m, "reserved", b, e, split) = Result("fail", m)
      \/ \E n : /\ GivesRemoved(m, "reserved", b, e, k, n)
                /\ RemoveBody(m, "reserved", b, e, split) = Result("ok", n)
  BY <1>4, RemoveReserved
<1> QED BY <1>6, <1>7

(* Tables n1 that a grown table settled in, then a page freed and settled  *)
(* again: settled all along.                                               *)
LEMMA SettledThen ==
  ASSUME NEW m \in Tables, NEW n1 \in Tables, NEW n2, Settled(m, n1), m.canResize, Kept(m),
         NEW old \in Nat, Owns(m, old), ~Owns(n1, old),
         NEW k, k # "some", GivesRemoved(n1, "reserved", old, old + 1, k, n2)
  PROVE  Settled(m, n2)
<1>1. PICK q2 : /\ Canon(q2) /\ Minused(q2, n1.reserved.regions, old, old + 1)
                /\ Settled(With(n1, "reserved", q2), n2)
                /\ Exactly(With(n1, "reserved", q2), n2)
  BY DEF GivesRemoved
<1>2. PICK w : w = With(n1, "reserved", q2)
  OBVIOUS
<1>3. q2 \in Regions
  BY <1>1, RegionsRow DEF Canon
<1>4. /\ w \in Tables /\ w.reserved.regions = q2 /\ w.reserved.max = n1.reserved.max
      /\ w.reserved.array = n1.reserved.array /\ w.memory = n1.memory
      /\ w.limit = n1.limit /\ w.canResize = n1.canResize
  BY <1>2, <1>3, WithIsOne
<1>5. \A x \in Nat : Owns(w, x) <=> Owns(n1, x)
  BY <1>4, OwnsEither
<1>6. \A x \in Nat : Covers(q2, x) <=> (Covers(n1.reserved.regions, x) /\ x # old)
  <2> SUFFICES ASSUME NEW x \in Nat
               PROVE  Covers(q2, x) <=> (Covers(n1.reserved.regions, x) /\ x # old)
    OBVIOUS
  <2>1. Covers(q2, x) <=> (Covers(n1.reserved.regions, x) /\ ~(old <= x /\ x < old + 1))
    BY <1>1 DEF Minused
  <2>2. (old <= x /\ x < old + 1) <=> x = old
    OBVIOUS
  <2> QED BY <2>1, <2>2
<1>7. /\ Sound(n2) /\ Kept(n2) /\ n2.limit = w.limit /\ n2.canResize = w.canResize
      /\ n2.memory.regions = w.memory.regions
      /\ \A type \in Types : n2[type].max = 0 <=> w[type].max = 0
      /\ \A x \in Nat : (Owns(n2, x) /\ ~Owns(w, x)) =>
            (Covers(w.memory.regions, x) /\ ~Covers(w.reserved.regions, x))
      /\ \A x \in Nat : (Covers(n2.reserved.regions, x) /\ ~Covers(w.reserved.regions, x)) => Owns(n2, x)
      /\ \A x \in Nat : (Covers(w.reserved.regions, x) /\ ~Covers(n2.reserved.regions, x)) => Owns(w, x)
  BY <1>1, <1>2 DEF Settled
<1>8. \A x \in Nat : (Owns(w, x) /\ ~Owns(n2, x)) => ~Covers(n2.reserved.regions, x)
  BY <1>1, <1>2 DEF Exactly
<1>9. /\ n1.limit = m.limit /\ n1.canResize = m.canResize
      /\ n1.memory.regions = m.memory.regions
      /\ \A type \in Types : n1[type].max = 0 <=> m[type].max = 0
      /\ \A x \in Nat : (Owns(n1, x) /\ ~Owns(m, x)) =>
            (Covers(m.memory.regions, x) /\ ~Covers(m.reserved.regions, x))
      /\ \A x \in Nat : (Covers(n1.reserved.regions, x) /\ ~Covers(m.reserved.regions, x)) => Owns(n1, x)
      /\ \A x \in Nat : (Covers(m.reserved.regions, x) /\ ~Covers(n1.reserved.regions, x)) => Owns(m, x)
  BY DEF Settled
<1>10. \A type \in Types : n2[type].max = 0 <=> m[type].max = 0
  <2>1. \A type \in Types : w[type].max = n1[type].max
    BY <1>4 DEF Types
  <2> QED BY <1>7, <1>9, <2>1
<1>11. ASSUME NEW x \in Nat, Owns(n2, x), ~Owns(m, x)
       PROVE  Covers(m.memory.regions, x) /\ ~Covers(m.reserved.regions, x)
  <2>1. CASE Owns(n1, x)
    BY <1>9, <1>11, <2>1
  <2>2. CASE ~Owns(n1, x)
    <3>1. Covers(m.memory.regions, x) /\ ~Covers(q2, x)
      BY <1>4, <1>5, <1>7, <1>9, <1>11, <2>2
    <3>2. ~Covers(n1.reserved.regions, x)
      BY <1>6, <1>11, <3>1
    <3> QED BY <1>9, <1>11, <3>1, <3>2
  <2> QED BY <2>1, <2>2
<1>12. ASSUME NEW x \in Nat, Covers(n2.reserved.regions, x), ~Covers(m.reserved.regions, x)
       PROVE  Owns(n2, x)
  <2>1. CASE Covers(q2, x)
    BY <1>5, <1>6, <1>8, <1>9, <1>12, <2>1
  <2>2. CASE ~Covers(q2, x)
    BY <1>4, <1>7, <1>12, <2>2
  <2> QED BY <2>1, <2>2
<1>13. ASSUME NEW x \in Nat, Covers(m.reserved.regions, x), ~Covers(n2.reserved.regions, x)
       PROVE  Owns(m, x)
  <2>1. CASE Covers(q2, x)
    BY <1>4, <1>5, <1>7, <1>9, <1>13, <2>1
  <2>2. CASE ~Covers(q2, x)
    BY <1>6, <1>9, <1>13, <2>2
  <2> QED BY <2>1, <2>2
<1>14. n2.limit = m.limit /\ n2.canResize = m.canResize /\ n2.memory.regions = m.memory.regions
  BY <1>4, <1>7, <1>9
<1> QED BY <1>7, <1>10, <1>11, <1>12, <1>13, <1>14 DEF Settled

(* What the memory table comes to when it is full and is to grow.          *)
LEMMA GrowMemory ==
  ASSUME NEW m, Full(m, "memory"), NEW k
  PROVE  \/ DoubleTwice(m, "memory", k) = Result("fail", m)
         \/ \E n : DoubleTwice(m, "memory", k) = Result("bug", n)
         \/ \E n : /\ DoubleTwice(m, "memory", k) = Result("ok", n)
                   /\ m.canResize /\ Settled(m, n)
<1>1. PICK type \in Types : type = "memory"
  BY DEF Types
<1>2. PICK a, old, q0, max : /\ a = NewArray(m) /\ old = m.memory.array
                             /\ q0 = m.reserved.regions /\ max = m.memory.max
  OBVIOUS
<1>3. /\ m \in Tables /\ Kept(m) /\ Canon(m.memory.regions) /\ Canon(q0) /\ Roomy(m.reserved)
      /\ Len(m.memory.regions) = max /\ max >= 2 /\ max \in Nat
  <2>1. /\ m \in Tables /\ Kept(m) /\ Canon(m.memory.regions) /\ Canon(q0) /\ Roomy(m.reserved)
        /\ Len(m.memory.regions) = max /\ max >= 2
    BY <1>2 DEF Full, Types
  <2>2. m[type].max \in Nat
    BY <2>1, TableOf
  <2> QED BY <1>1, <1>2, <2>1, <2>2
<1>4. PICK own, freed, R :
        /\ own = AddTwice(Moved(m, "memory", a), "reserved", a, a + ArraySize, k)
        /\ freed = RemoveTwice(own.m, "reserved", old, old + ArraySize, k)
        /\ R = DoubleBody(m, "memory", k, own, freed)
  OBVIOUS
<1>5. DoubleTwice(m, "memory", k) = R
  BY <1>2, <1>4 DEF DoubleTwice, FreeOldTwice
<1>6. R = IF ~m.canResize \/ k = "none" THEN Result("fail", m)
          ELSE IF k = "some" THEN Result("ok", Moved(m, "memory", Slab))
          ELSE IF a = 0 THEN Result("fail", m)
          ELSE IF own.rc = "fail" THEN Result("bug", own.m)
          ELSE IF own.rc # "ok" \/ old \in {Static, Slab} THEN own
          ELSE IF freed.rc = "fail" THEN Result("ok", freed.m)
          ELSE freed
  BY <1>2, <1>4 DEF DoubleBody, Error
<1>7. /\ m.memory.array \in {Static, Slab} \/ (m.memory.array \in 1 .. Top - 1 /\ max >= 4)
      /\ m.reserved.array \in {Static, Slab} \/ (m.reserved.array \in 1 .. Top - 1 /\ m.reserved.max >= 4)
      /\ m.memory.array # m.reserved.array \/ m.memory.array \in {Static, Slab}
      /\ \A x \in Nat : Owns(m, x) => Covers(q0, x)
  BY <1>2, <1>3 DEF Kept, Arrayed, Types
<1>8. 2 * max \in Nat /\ 2 * max >= 4 /\ Len(m.memory.regions) >= 1
      /\ Len(m.memory.regions) < 2 * max /\ 2 * max # 0 /\ max # 0
  BY <1>3
<1>9. ASSUME NEW c \in Int, c = Slab \/ (c \in 1 .. Top - 1 /\ ~Covers(q0, c))
      PROVE  /\ Sound(Moved(m, "memory", c)) /\ Arrayed(Moved(m, "memory", c))
             /\ Moved(m, "memory", c).reserved = m.reserved
             /\ Moved(m, "memory", c).memory.regions = m.memory.regions
             /\ Moved(m, "memory", c).memory.array = c
             /\ Moved(m, "memory", c).limit = m.limit
             /\ Moved(m, "memory", c).canResize = m.canResize
             /\ \A t \in Types : Moved(m, "memory", c)[t].max = 0 <=> m[t].max = 0
             /\ Moved(m, "memory", c) \in Tables
  <2>1. PICK n : n = Moved(m, "memory", c)
    OBVIOUS
  <2>2. /\ n \in Tables /\ n.memory.regions = m.memory.regions /\ n.memory.max = 2 * max
        /\ n.memory.array = c /\ n.reserved = m.reserved /\ n.limit = m.limit
        /\ n.canResize = m.canResize
    <3>1. m \in Tables /\ m.memory.max = max
      BY <1>2, <1>3
    <3>2. /\ Moved(m, "memory", c) \in Tables
          /\ Moved(m, "memory", c).memory.regions = m.memory.regions
          /\ Moved(m, "memory", c).memory.max = 2 * m.memory.max
          /\ Moved(m, "memory", c).memory.array = c
          /\ Moved(m, "memory", c).reserved = m.reserved
          /\ Moved(m, "memory", c).limit = m.limit
          /\ Moved(m, "memory", c).canResize = m.canResize
      BY <3>1, MovedIsMemory
    <3> QED BY <2>1, <3>1, <3>2
  <2>3. Roomy(n.memory)
    BY <1>8, <2>2 DEF Roomy
  <2>4. Sound(n)
    BY <1>2, <1>3, <2>2, <2>3 DEF Sound, Types
  <2>5. c = m.reserved.array => c = Slab
    <3> SUFFICES ASSUME c = m.reserved.array, c \in 1 .. Top - 1, ~Covers(q0, c) PROVE FALSE
      BY <1>9
    <3>1. c \in Nat /\ Owns(m, c)
      BY Numbers, OwnsEither
    <3> QED BY <1>7, <3>1
  <2>6. Arrayed(n)
    <3>1. n.memory.array \in {Static, Slab} \/ (n.memory.array \in 1 .. Top - 1 /\ n.memory.max >= 4)
      BY <1>8, <1>9, <2>2
    <3>2. n.reserved.array \in {Static, Slab} \/ (n.reserved.array \in 1 .. Top - 1 /\ n.reserved.max >= 4)
      BY <1>7, <2>2
    <3>3. n.memory.array # n.reserved.array \/ n.memory.array \in {Static, Slab}
      BY <2>2, <2>5
    <3> QED BY <3>1, <3>2, <3>3 DEF Arrayed, Types
  <2>7. \A t \in Types : n[t].max = 0 <=> m[t].max = 0
    BY <1>2, <1>8, <2>2 DEF Types
  <2> QED BY <2>1, <2>2, <2>4, <2>6, <2>7
<1>10. CASE ~m.canResize \/ k = "none"
  BY <1>5, <1>6, <1>10
<1>11. CASE m.canResize /\ k # "none" /\ k = "some"
  <2>1. PICK c \in Int : c = Slab
    BY ConstantsAre
  <2>2. PICK n : n = Moved(m, "memory", c)
    OBVIOUS
  <2>3. R = Result("ok", n)
    BY <1>6, <1>11, <2>1, <2>2
  <2>4. /\ Sound(n) /\ Arrayed(n) /\ n.reserved = m.reserved /\ n.memory.regions = m.memory.regions
        /\ n.memory.array = c /\ n.limit = m.limit /\ n.canResize = m.canResize
        /\ \A t \in Types : n[t].max = 0 <=> m[t].max = 0
    BY <1>9, <2>1, <2>2
  <2>5. \A x \in Nat : x # c
    BY <2>1, ConstantsAre
  <2>6. \A x \in Nat : Owns(n, x) => Owns(m, x)
    BY <2>4, <2>5, OwnsEither
  <2>7. Kept(n)
    BY <1>2, <1>7, <2>4, <2>6 DEF Kept
  <2>8. Settled(m, n)
    BY <1>11, <2>4, <2>6, <2>7 DEF Settled
  <2> QED BY <1>5, <1>11, <2>3, <2>8
<1>12. CASE m.canResize /\ k # "none" /\ k # "some" /\ a = 0
  BY <1>5, <1>6, <1>12
<1>13. CASE m.canResize /\ k # "none" /\ k # "some" /\ a # 0
  <2>1. /\ a \in Nat /\ a >= 1 /\ a < Top
        /\ Covers(m.memory.regions, a) /\ ~Covers(q0, a)
    <3>1. Canon(m.reserved.regions) /\ NewArray(m) # 0
      BY <1>2, <1>3, <1>13
    <3>2. /\ NewArray(m) \in Nat /\ NewArray(m) >= 1 /\ NewArray(m) < Top
          /\ Covers(m.memory.regions, NewArray(m)) /\ ~Covers(m.reserved.regions, NewArray(m))
      BY <1>3, <3>1, NewArrayIs
    <3> QED BY <1>2, <3>2
  <2>2. PICK o : o = Moved(m, "memory", a)
    OBVIOUS
  <2>3. a \in Int /\ a \in 1 .. Top - 1
    BY <2>1, Numbers
  <2>4. /\ Sound(o) /\ Arrayed(o) /\ o.reserved = m.reserved /\ o.memory.regions = m.memory.regions
        /\ o.memory.array = a /\ o.limit = m.limit /\ o.canResize = m.canResize
        /\ (\A t \in Types : o[t].max = 0 <=> m[t].max = 0) /\ o \in Tables
    BY <1>9, <2>1, <2>2, <2>3
  <2>5. \A x \in Nat : Owns(o, x) <=> (x = a \/ x = m.reserved.array)
    BY <2>4, OwnsEither
  <2>6. \A x \in Nat : Owns(m, x) <=> (x = old \/ x = m.reserved.array)
    BY <1>2, OwnsEither
  <2>7. PICK e : e = a + ArraySize /\ e = a + 1 /\ e \in Nat /\ a < e /\ e <= Top
    BY <2>1, Numbers, ConstantsAre
  <2>8. \A x \in Nat : Owns(o, x) => (Covers(o.reserved.regions, x) \/ (a <= x /\ x < e))
    <3> SUFFICES ASSUME NEW x \in Nat, Owns(o, x)
                 PROVE  Covers(o.reserved.regions, x) \/ (a <= x /\ x < e)
      OBVIOUS
    <3>1. CASE x = a
      BY <2>7, <3>1
    <3>2. CASE x = m.reserved.array
      BY <1>2, <1>7, <2>4, <2>6, <3>2
    <3> QED BY <2>5, <3>1, <3>2
  <2>9. \/ AddTwice(o, "reserved", a, e, k) = Result("fail", o)
        \/ \E n : /\ GivesAdded(o, "reserved", a, e, k, n)
                  /\ AddTwice(o, "reserved", a, e, k) = Result("ok", n)
    BY <2>1, <2>4, <2>7, <2>8, AddTwiceIs
  <2>10. own = AddTwice(o, "reserved", a, e, k)
    BY <1>4, <2>2, <2>7
  <2>11. CASE own = Result("fail", o)
    <3>1. own.rc = "fail"
      BY <2>11, ResultIs
    <3>2. R = Result("bug", own.m)
      BY <1>6, <1>13, <3>1
    <3> QED BY <1>5, <3>2
  <2>12. CASE \E n : GivesAdded(o, "reserved", a, e, k, n) /\ own = Result("ok", n)
    <3>1. PICK n1 : GivesAdded(o, "reserved", a, e, k, n1) /\ own = Result("ok", n1)
      BY <2>12
    <3>2. own.rc = "ok" /\ own.m = n1
      BY <3>1, ResultIs
    <3>3. PICK q : /\ AddsRow(o, "reserved", a, e, q)
                   /\ Settled(With(o, "reserved", q), n1)
                   /\ Exactly(With(o, "reserved", q), n1)
      BY <1>13, <3>1 DEF GivesAdded
    <3>4. PICK w : w = With(o, "reserved", q)
      OBVIOUS
    <3>5. Canon(q) /\ q \in Regions /\ \A x \in Nat : Covers(q, x) <=> (Covers(q0, x) \/ x = a)
      <4>1. Canon(q) /\ Plused(q, q0, a, e)
        BY <1>2, <2>4, <3>3 DEF AddsRow
      <4>2. \A x \in Nat : (a <= x /\ x < e) <=> x = a
        BY <2>1, <2>7
      <4>3. q \in Regions
        BY <4>1, RegionsRow DEF Canon
      <4> QED BY <4>1, <4>2, <4>3 DEF Plused
    <3>6. /\ w \in Tables /\ w.reserved.regions = q /\ w.reserved.max = o.reserved.max
          /\ w.reserved.array = o.reserved.array /\ w.memory = o.memory
          /\ w.limit = o.limit /\ w.canResize = o.canResize
      BY <2>4, <3>4, <3>5, WithIsOne
    <3>7. \A x \in Nat : Owns(w, x) <=> (x = a \/ x = m.reserved.array)
      BY <2>4, <3>6, OwnsEither
    <3>8. /\ Sound(n1) /\ Kept(n1) /\ n1.limit = w.limit /\ n1.canResize = w.canResize
          /\ n1.memory.regions = w.memory.regions
          /\ \A t \in Types : n1[t].max = 0 <=> w[t].max = 0
          /\ \A x \in Nat : (Owns(n1, x) /\ ~Owns(w, x)) =>
                (Covers(w.memory.regions, x) /\ ~Covers(w.reserved.regions, x))
          /\ \A x \in Nat : (Covers(n1.reserved.regions, x) /\ ~Covers(w.reserved.regions, x)) => Owns(n1, x)
          /\ \A x \in Nat : (Covers(w.reserved.regions, x) /\ ~Covers(n1.reserved.regions, x)) => Owns(w, x)
      BY <3>3, <3>4 DEF Settled
    <3>9. n1.memory = w.memory
      BY <3>3, <3>4 DEF Exactly
    <3>10. Owns(n1, a)
      BY <2>1, <2>4, <3>6, <3>9, OwnsEither
    <3>11. \A t \in Types : n1[t].max = 0 <=> m[t].max = 0
      <4>1. \A t \in Types : w[t].max = o[t].max
        BY <3>6 DEF Types
      <4> QED BY <2>4, <3>8, <4>1
    <3>12. ASSUME NEW x \in Nat, Owns(n1, x), ~Owns(m, x)
           PROVE  Covers(m.memory.regions, x) /\ ~Covers(m.reserved.regions, x)
      <4>1. CASE x = a
        BY <1>2, <2>1, <4>1
      <4>2. CASE x # a
        <5>1. ~Owns(w, x)
          BY <2>6, <3>7, <3>12, <4>2
        <5> QED BY <1>2, <2>4, <3>5, <3>6, <3>8, <3>12, <5>1
      <4> QED BY <4>1, <4>2
    <3>13. ASSUME NEW x \in Nat, Covers(n1.reserved.regions, x), ~Covers(m.reserved.regions, x)
           PROVE  Owns(n1, x)
      BY <1>2, <3>5, <3>6, <3>8, <3>10, <3>13
    <3>14. ASSUME NEW x \in Nat, Covers(m.reserved.regions, x), ~Covers(n1.reserved.regions, x)
           PROVE  Owns(m, x)
      <4>1. Owns(w, x) /\ x # a
        BY <1>2, <2>1, <3>5, <3>6, <3>8, <3>14
      <4> QED BY <2>6, <3>7, <4>1
    <3>15. n1.limit = m.limit /\ n1.canResize = m.canResize /\ n1.memory.regions = m.memory.regions
      BY <2>4, <3>6, <3>8
    <3>16. Settled(m, n1)
      BY <1>13, <3>8, <3>11, <3>12, <3>13, <3>14, <3>15 DEF Settled
    <3>17. CASE old \in {Static, Slab}
      <4>1. R = own
        BY <1>6, <1>13, <3>2, <3>17
      <4> QED BY <1>5, <1>13, <3>1, <3>16, <4>1
    <3>18. CASE old \notin {Static, Slab}
      <4>1. old \in 1 .. Top - 1 /\ old # m.reserved.array
        BY <1>2, <1>7, <3>18
      <4>2. old \in Nat /\ old < Top /\ Owns(m, old)
        BY <2>6, <4>1, Numbers
      <4>3. Covers(q0, old) /\ old # a
        BY <1>7, <2>1, <4>2
      <4>4. ~Owns(w, old)
        BY <3>7, <4>1, <4>2, <4>3
      <4>5. Covers(n1.reserved.regions, old) /\ ~Owns(n1, old)
        BY <3>5, <3>6, <3>8, <4>2, <4>3, <4>4
      <4>6. PICK f : f = old + ArraySize /\ f = old + 1 /\ f \in Nat /\ old < f /\ f <= Top
        BY <4>2, Numbers, ConstantsAre
      <4>7. NoneAt(n1.reserved.regions, f)
        <5>1. Canon(n1.reserved.regions)
          BY <3>8 DEF Sound, Types
        <5> QED BY <4>2, <4>5, <4>6, <5>1, NoneAfter
      <4>8. \A x \in Nat : (old <= x /\ x < f) => ~Owns(n1, x)
        <5>1. \A x \in Nat : (old <= x /\ x < f) => x = old
          BY <4>2, <4>6
        <5> QED BY <4>5, <5>1
      <4>9. \/ RemoveTwice(n1, "reserved", old, f, k) = Result("fail", n1)
            \/ \E n : /\ GivesRemoved(n1, "reserved", old, f, k, n)
                      /\ RemoveTwice(n1, "reserved", old, f, k) = Result("ok", n)
        BY <3>8, <4>2, <4>6, <4>7, <4>8, RemoveTwiceIs
      <4>10. freed = RemoveTwice(n1, "reserved", old, f, k)
        BY <1>4, <3>2, <4>6
      <4>11. R = IF freed.rc = "fail" THEN Result("ok", freed.m) ELSE freed
        BY <1>6, <1>13, <3>2, <3>18
      <4>12. CASE freed = Result("fail", n1)
        <5>1. R = Result("ok", n1)
          BY <4>11, <4>12, ResultIs
        <5> QED BY <1>5, <1>13, <3>16, <5>1
      <4>13. CASE \E n : GivesRemoved(n1, "reserved", old, f, k, n) /\ freed = Result("ok", n)
        <5>1. PICK n2 : GivesRemoved(n1, "reserved", old, f, k, n2) /\ freed = Result("ok", n2)
          BY <4>13
        <5>2. freed.rc = "ok"
          BY <5>1, ResultIs
        <5>3. R = Result("ok", n2)
          BY <4>11, <5>1, <5>2
        <5>4. GivesRemoved(n1, "reserved", old, old + 1, k, n2) /\ n1 \in Tables
          BY <3>8, <4>6, <5>1 DEF Sound
        <5>5. Settled(m, n2)
          BY <1>3, <1>13, <3>16, <4>2, <4>5, <5>4, SettledThen
        <5> QED BY <1>5, <1>13, <5>3, <5>5
      <4> QED BY <4>9, <4>10, <4>12, <4>13
    <3> QED BY <3>17, <3>18
  <2> QED BY <2>9, <2>10, <2>11, <2>12
<1> QED BY <1>10, <1>11, <1>12, <1>13

(* What a whole call makes of the tables.                                  *)
Adds(m, type, b, e, n) ==
  \E q : AddsRow(m, type, b, e, q) /\ Settled(With(m, type, q), n)

Removes(m, type, b, e, n) ==
  \E q : Canon(q) /\ Minused(q, m[type].regions, b, e) /\ Settled(With(m, type, q), n)

(* memblock_reserve: the range is reserved, or nothing is changed.         *)
LEMMA AddRegionReserved ==
  ASSUME NEW m, Sound(m), Kept(m), NEW b \in Nat, NEW e \in Nat, b < e, e <= Top, NEW k
  PROVE  \/ AddRegion(m, "reserved", b, e, k) = Result("fail", m)
         \/ \E n : /\ Adds(m, "reserved", b, e, n)
                   /\ AddRegion(m, "reserved", b, e, k) = Result("ok", n)
<1>1. PICK o : o = Added(m, "reserved", b, e)
  OBVIOUS
<1>2. PICK d1, d2 : DoubleTwice(o, "reserved", k) = DoubledAlone(o, k, d1, d2)
  BY DoubleTwiceIs
<1>3. AddRegion(m, "reserved", b, e, k)
        = AddBody(m, "reserved", b, e, DoubledAlone(Added(m, "reserved", b, e), k, d1, d2))
  BY <1>1, <1>2 DEF AddRegion
<1>4. Arrayed(m) /\ \A x \in Nat : Owns(m, x) => (Covers(m.reserved.regions, x) \/ (b <= x /\ x < e))
  BY DEF Kept
<1>5. \/ AddBody(m, "reserved", b, e, DoubledAlone(Added(m, "reserved", b, e), k, d1, d2))
              = Result("fail", m)
      \/ \E n : /\ GivesAdded(m, "reserved", b, e, k, n)
                /\ AddBody(m, "reserved", b, e,
                           DoubledAlone(Added(m, "reserved", b, e), k, d1, d2))
                     = Result("ok", n)
  BY <1>4, AddReserved
<1>6. \A n : GivesAdded(m, "reserved", b, e, k, n) => Adds(m, "reserved", b, e, n)
  BY DEF GivesAdded, Adds
<1> QED BY <1>3, <1>5, <1>6

(* memblock_free: the range is free, or nothing is changed.                *)
LEMMA RemoveRangeReserved ==
  ASSUME NEW m, Sound(m), Kept(m), NEW b \in Nat, NEW e \in Nat, b < e, e <= Top,
         NoneAt(m.reserved.regions, e), NEW k,
         \A x \in Nat : (b <= x /\ x < e) => ~Owns(m, x)
  PROVE  \/ RemoveRange(m, "reserved", b, e, k) = Result("fail", m)
         \/ \E n : /\ Removes(m, "reserved", b, e, n)
                   /\ RemoveRange(m, "reserved", b, e, k) = Result("ok", n)
<1>1. PICK o, z : o = Shortened(m, "reserved", b, e) /\ z = RestEnd(m, "reserved", b, e)
  OBVIOUS
<1>2. PICK u : u = Added(o, "reserved", e, z)
  OBVIOUS
<1>3. PICK d1, d2 : DoubleTwice(u, "reserved", k) = DoubledAlone(u, k, d1, d2)
  BY DoubleTwiceIs
<1>4. PICK split : split = AddBody(Shortened(m, "reserved", b, e), "reserved", e,
                    RestEnd(m, "reserved", b, e),
                    DoubledAlone(Added(Shortened(m, "reserved", b, e), "reserved", e,
                                       RestEnd(m, "reserved", b, e)), k, d1, d2))
  OBVIOUS
<1>5. split = AddBody(o, "reserved", e, z, DoubledAlone(u, k, d1, d2))
  BY <1>1, <1>2, <1>4
<1>6. RemoveRange(m, "reserved", b, e, k) = RemoveBody(m, "reserved", b, e, split)
  BY <1>1, <1>2, <1>3, <1>5 DEF RemoveRange, AddRegion
<1>7. \/ RemoveBody(m, "reserved", b, e, split) = Result("fail", m)
      \/ \E n : /\ GivesRemoved(m, "reserved", b, e, k, n)
                /\ RemoveBody(m, "reserved", b, e, split) = Result("ok", n)
  BY <1>4, RemoveReserved
<1>8. \A n : GivesRemoved(m, "reserved", b, e, k, n) => Removes(m, "reserved", b, e, n)
  BY DEF GivesRemoved, Removes
<1> QED BY <1>6, <1>7, <1>8

(* Other rows in the memory table change nothing about the reserved one.   *)
LEMMA WithMemory ==
  ASSUME NEW m \in Tables, Kept(m), NEW type \in Types, type = "memory", NEW q, Canon(q)
  PROVE  /\ q \in Regions /\ Kept(With(m, type, q)) /\ With(m, type, q) \in Tables
         /\ With(m, type, q).memory.regions = q
         /\ With(m, type, q).memory.max = m[type].max
         /\ With(m, type, q).reserved = m.reserved
<1>0. PICK M \in Types : M = "reserved" /\ M # type
  BY DEF Types
<1>1. PICK n : n = With(m, type, q)
  OBVIOUS
<1>2. q \in Regions
  BY RegionsRow DEF Canon
<1>3. /\ n \in Tables /\ n[type].regions = q /\ n[type].max = m[type].max
      /\ \A other \in Types : other # type => n[other] = m[other]
  BY <1>1, <1>2, WithIs
<1>4. n.memory.regions = q /\ n.memory.max = m[type].max
  <2>1. n.memory = n[type]
    OBVIOUS
  <2> QED BY <1>3, <2>1
<1>5. n.reserved = m.reserved
  <2>1. n[M] = m[M]
    BY <1>0, <1>3
  <2> QED BY <1>0, <2>1
<1>6. Arrayed(n) /\ \A x : Owns(n, x) <=> Owns(m, x)
  <2>1. Arrayed(m)
    BY DEF Kept
  <2> QED BY <1>1, <1>2, <2>1, OwnsWith
<1>7. Kept(n)
  BY <1>5, <1>6 DEF Kept
<1> QED BY <1>1, <1>2, <1>3, <1>4, <1>5, <1>7

(* memblock_add: the range is memory, or nothing is changed, or a BUG_ON   *)
(* fires.                                                                  *)
LEMMA AddRegionMemory ==
  ASSUME NEW m, Sound(m), Kept(m), NEW type \in Types, type = "memory",
         NEW b \in Nat, NEW e \in Nat, b < e, e <= Top, NEW k
  PROVE  \/ AddRegion(m, type, b, e, k) = Result("fail", m)
         \/ \E n : AddRegion(m, type, b, e, k) = Result("bug", n)
         \/ \E n : /\ Adds(m, type, b, e, n)
                   /\ AddRegion(m, type, b, e, k) = Result("ok", n)
<1>1. PICK d : d = DoubleTwice(Added(m, type, b, e), type, k)
  OBVIOUS
<1>2. PICK R : R = AddBody(m, type, b, e, d)
  OBVIOUS
<1>3. R = AddRegion(m, type, b, e, k)
  BY <1>1, <1>2 DEF AddRegion
<1>4. m \in Tables
  BY DEF Sound
<1>5. \/ \E q : /\ AddsRow(m, type, b, e, q) /\ Len(q) < m[type].max
                /\ AddBody(m, type, b, e, d) = Result("ok", With(m, type, q))
      \/ /\ m[type].max = 0 \/ (d.rc = "fail" /\ Len(m[type].regions) + 1 = m[type].max)
         /\ AddBody(m, type, b, e, d) = Result("fail", m)
      \/ /\ d.rc # "fail" /\ Len(m[type].regions) + 1 = m[type].max
         /\ \E q : /\ AddsRow(m, type, b, e, q) /\ Len(q) = m[type].max
                   /\ Added(m, type, b, e) = With(m, type, q)
         /\ AddBody(m, type, b, e, d) = d
  <2>1. Landed(m, type, b, e, d)
    BY AddBodyIs
  <2> QED BY <2>1 DEF Landed
<1>6. CASE \E q : /\ AddsRow(m, type, b, e, q) /\ Len(q) < m[type].max
                  /\ AddBody(m, type, b, e, d) = Result("ok", With(m, type, q))
  <2>1. PICK q : /\ AddsRow(m, type, b, e, q) /\ Len(q) < m[type].max
                 /\ AddBody(m, type, b, e, d) = Result("ok", With(m, type, q))
    BY <1>6
  <2>2. PICK n : n = With(m, type, q)
    OBVIOUS
  <2>3. Canon(q) /\ Len(q) >= 1
    BY <2>1 DEF AddsRow
  <2>4. m[type].max >= 2
    <3>1. m[type].max \in Nat /\ Len(q) \in Nat
      BY <1>4, <2>3, TableOf, LenProperties DEF Canon
    <3>2. m[type].max # 0 /\ Roomy(m[type])
      BY <2>1, <2>3, <3>1 DEF Sound
    <3> QED BY <3>2 DEF Roomy
  <2>5. Sound(n)
    BY <2>1, <2>2, <2>3, <2>4, SoundWith
  <2>6. Kept(n)
    BY <1>4, <2>2, <2>3, WithMemory
  <2>7. Settled(n, n)
    BY <2>5, <2>6, SettledSelf
  <2>8. Adds(m, type, b, e, n)
    BY <2>1, <2>2, <2>7 DEF Adds
  <2>9. R = Result("ok", n)
    BY <1>2, <2>1, <2>2
  <2> QED BY <1>3, <2>8, <2>9
<1>7. CASE AddBody(m, type, b, e, d) = Result("fail", m)
  BY <1>2, <1>3, <1>7
<1>8. CASE /\ d.rc # "fail" /\ Len(m[type].regions) + 1 = m[type].max
           /\ \E q : /\ AddsRow(m, type, b, e, q) /\ Len(q) = m[type].max
                     /\ Added(m, type, b, e) = With(m, type, q)
           /\ AddBody(m, type, b, e, d) = d
  <2>1. PICK q : /\ AddsRow(m, type, b, e, q) /\ Len(q) = m[type].max
                 /\ Added(m, type, b, e) = With(m, type, q)
    BY <1>8
  <2>2. PICK n : n = With(m, type, q)
    OBVIOUS
  <2>3. Canon(q) /\ Len(q) >= 1
    BY <2>1 DEF AddsRow
  <2>4. /\ n \in Tables /\ Kept(n) /\ n.memory.regions = q /\ n.memory.max = m[type].max
        /\ n.reserved = m.reserved
    BY <1>4, <2>2, <2>3, WithMemory
  <2>5. m[type].max >= 2
    <3>1. m[type].max \in Nat /\ Len(m[type].regions) \in Nat
      BY <1>4, TableOf, LenProperties DEF Regions
    <3>2. m[type].max # 0 /\ Roomy(m[type])
      BY <1>8, <3>1 DEF Sound
    <3> QED BY <3>2 DEF Roomy
  <2>6. Canon(m.reserved.regions) /\ Roomy(m.reserved)
    BY DEF Sound, Types
  <2>7. Full(n, "memory")
    <3>1. \A other \in Types : other # "memory" => Roomy(n[other])
      BY <2>4, <2>6 DEF Types
    <3>2. Len(n.memory.regions) = n.memory.max /\ n.memory.max >= 2
          /\ Canon(n.memory.regions) /\ Canon(n.reserved.regions)
      BY <2>1, <2>3, <2>4, <2>5, <2>6
    <3> QED BY <2>4, <3>1, <3>2 DEF Full
  <2>8. d = DoubleTwice(n, "memory", k)
    BY <1>1, <2>1, <2>2
  <2>9. \/ DoubleTwice(n, "memory", k) = Result("fail", n)
        \/ \E o : DoubleTwice(n, "memory", k) = Result("bug", o)
        \/ \E o : /\ DoubleTwice(n, "memory", k) = Result("ok", o)
                  /\ n.canResize /\ Settled(n, o)
    BY <2>7, GrowMemory
  <2>10. d # Result("fail", n)
    BY <1>8, ResultIs
  <2>11. R = d
    BY <1>2, <1>8
  <2>12. CASE \E o : d = Result("bug", o)
    BY <1>3, <2>11, <2>12
  <2>13. CASE \E o : d = Result("ok", o) /\ Settled(n, o)
    <3>1. PICK o : d = Result("ok", o) /\ Settled(n, o)
      BY <2>13
    <3>2. Adds(m, type, b, e, o)
      BY <2>1, <2>2, <3>1 DEF Adds
    <3> QED BY <1>3, <2>11, <3>1, <3>2
  <2> QED BY <2>8, <2>9, <2>10, <2>12, <2>13
<1> QED BY <1>5, <1>6, <1>7, <1>8

(* memblock_remove: the range is not memory, or nothing is changed, or a   *)
(* BUG_ON fires.                                                           *)
LEMMA RemoveRangeMemory ==
  ASSUME NEW m, Sound(m), Kept(m), NEW type \in Types, type = "memory",
         NEW b \in Nat, NEW e \in Nat, b < e, e <= Top,
         NoneAt(m[type].regions, e), NEW k
  PROVE  \/ RemoveRange(m, type, b, e, k) = Result("fail", m)
         \/ \E n : RemoveRange(m, type, b, e, k) = Result("bug", n)
         \/ \E n : /\ Removes(m, type, b, e, n)
                   /\ RemoveRange(m, type, b, e, k) = Result("ok", n)
<1>1. PICK split : split = AddRegion(Shortened(m, type, b, e), type, e, RestEnd(m, type, b, e), k)
  OBVIOUS
<1>2. PICK R : R = RemoveBody(m, type, b, e, split)
  OBVIOUS
<1>3. R = RemoveRange(m, type, b, e, k)
  BY <1>1, <1>2 DEF RemoveRange
<1>4. m \in Tables
  BY DEF Sound
<1>5. PICK q0, max : q0 = m[type].regions /\ max = m[type].max
  OBVIOUS
<1>6. max \in Nat /\ Len(q0) \in Nat /\ Canon(q0) /\ Roomy(m[type])
  BY <1>4, <1>5, TableOf, LenProperties DEF Canon, Sound
<1>7. \/ \E q : /\ TakesOut(m, type, b, e, q)
                /\ RemoveBody(m, type, b, e, split) = Result("ok", With(m, type, q))
      \/ \E short, z : Splits(m, type, b, e, split, short, z)
  BY RemoveBodyIs
<1>8. CASE \E q : /\ TakesOut(m, type, b, e, q)
                  /\ RemoveBody(m, type, b, e, split) = Result("ok", With(m, type, q))
  <2>1. PICK q : /\ TakesOut(m, type, b, e, q)
                 /\ RemoveBody(m, type, b, e, split) = Result("ok", With(m, type, q))
    BY <1>8
  <2>2. PICK n : n = With(m, type, q)
    OBVIOUS
  <2>3. Canon(q) /\ Len(q) <= Len(q0) /\ Minused(q, q0, b, e) /\ (Len(q0) >= 1 => Len(q) >= 1)
    BY <1>5, <2>1 DEF TakesOut
  <2>4. Kept(n)
    BY <1>4, <2>2, <2>3, WithMemory
  <2>5. Sound(n)
    <3>1. CASE max = 0 /\ q0 = <<>>
      <4>1. Len(q) = 0
        <5>1. Len(q0) = 0 /\ Len(q) \in Nat
          BY <2>3, <3>1, LenProperties DEF Canon
        <5> QED BY <2>3, <5>1
      <4>2. q = q0
        BY <2>3, <3>1, <4>1, EmptySeq DEF Canon
      <4>3. n = m
        BY <1>4, <1>5, <2>2, <4>2, WithSelf
      <4> QED BY <4>3
    <3>2. CASE max >= 2 /\ Len(q0) >= 1 /\ Len(q0) < max
      <4>1. Len(q) \in Nat
        BY <2>3, LenProperties DEF Canon
      <4>2. Len(q) >= 1 /\ Len(q) < m[type].max /\ m[type].max >= 2
        BY <1>5, <1>6, <2>3, <3>2, <4>1
      <4> QED BY <2>2, <2>3, <4>2, SoundWith
    <3> QED BY <1>5, <1>6, <3>1, <3>2 DEF Roomy
  <2>6. Settled(n, n)
    BY <2>4, <2>5, SettledSelf
  <2>7. Removes(m, type, b, e, n)
    BY <1>5, <2>2, <2>3, <2>6 DEF Removes
  <2>8. R = Result("ok", n)
    BY <1>2, <2>1, <2>2
  <2> QED BY <1>3, <2>7, <2>8
<1>9. CASE \E short, z : Splits(m, type, b, e, split, short, z)
  <2>1. PICK short, z : Splits(m, type, b, e, split, short, z)
    BY <1>9
  <2>2. /\ Canon(short) /\ Len(short) = Len(q0) /\ max >= 2
        /\ z \in Nat /\ e < z /\ z <= Top
        /\ \A p : Plused(p, short, e, z) => Minused(p, q0, b, e)
        /\ Shortened(m, type, b, e) = With(m, type, short)
        /\ RestEnd(m, type, b, e) = z
        /\ split.rc # "fail" => RemoveBody(m, type, b, e, split) = split
        /\ (split.rc = "fail" /\ split.m = With(m, type, short))
                    => RemoveBody(m, type, b, e, split) = Result("fail", m)
    BY <1>5, <2>1 DEF Splits
  <2>3. PICK o : o = With(m, type, short)
    OBVIOUS
  <2>4. Kept(o) /\ short \in Regions /\ o \in Tables
    BY <1>4, <2>2, <2>3, WithMemory
  <2>5. Sound(o)
    <3>1. Len(q0) >= 1 /\ Len(q0) < max
      BY <1>5, <1>6, <2>2 DEF Roomy
    <3>2. Len(short) >= 1 /\ Len(short) < m[type].max /\ m[type].max >= 2
      BY <1>5, <2>2, <3>1
    <3> QED BY <2>2, <2>3, <3>2, SoundWith
  <2>6. split = AddRegion(o, type, e, z, k)
    BY <1>1, <2>2, <2>3
  <2>7. \/ AddRegion(o, type, e, z, k) = Result("fail", o)
        \/ \E n : AddRegion(o, type, e, z, k) = Result("bug", n)
        \/ \E n : /\ Adds(o, type, e, z, n)
                  /\ AddRegion(o, type, e, z, k) = Result("ok", n)
    BY <2>2, <2>4, <2>5, AddRegionMemory
  <2>8. CASE split = Result("fail", o)
    <3>1. split.rc = "fail" /\ split.m = With(m, type, short)
      BY <2>3, <2>8, ResultIs
    <3> QED BY <1>2, <1>3, <2>2, <3>1
  <2>9. CASE \E n : split = Result("bug", n)
    <3>1. split.rc # "fail"
      BY <2>9, ResultIs
    <3> QED BY <1>2, <1>3, <2>2, <2>9, <3>1
  <2>10. CASE \E n : Adds(o, type, e, z, n) /\ split = Result("ok", n)
    <3>1. PICK n : Adds(o, type, e, z, n) /\ split = Result("ok", n)
      BY <2>10
    <3>2. split.rc # "fail"
      BY <3>1, ResultIs
    <3>3. R = Result("ok", n)
      BY <1>2, <2>2, <3>1, <3>2
    <3>4. PICK q : AddsRow(o, type, e, z, q) /\ Settled(With(o, type, q), n)
      BY <3>1 DEF Adds
    <3>5. Canon(q) /\ Plused(q, short, e, z)
      <4>1. o[type].regions = short
        BY <1>4, <2>3, <2>4, WithIs
      <4> QED BY <3>4, <4>1 DEF AddsRow
    <3>6. With(o, type, q) = With(m, type, q)
      <4>1. q \in Regions
        BY <3>5, RegionsRow DEF Canon
      <4> QED BY <1>4, <2>3, <2>4, <4>1, WithTwice
    <3>7. Removes(m, type, b, e, n)
      BY <1>5, <2>2, <3>4, <3>5, <3>6 DEF Removes
    <3> QED BY <1>3, <3>3, <3>7
  <2> QED BY <2>6, <2>7, <2>8, <2>9, <2>10
<1> QED BY <1>7, <1>8, <1>9

(* Cutting the memory off where the limit is used up.                      *)
Counting(q, k) ==
  {s \in [i : Nat, left : Nat] :
     /\ s.i >= 1 /\ s.i <= Len(q) + 1 /\ s.left >= 1
     /\ s.i > k \/ s.left <= q[s.i].size}

(* One turn of the loop that counts the limit down.                        *)
LEMMA CountDownTurn ==
  ASSUME NEW q, Canon(q), NEW k \in 0 .. Len(q) - 1, NEW s \in Counting(q, k)
  PROVE  CountDown(q)[s] \in Counting(q, k + 1)
<1>1. PICK i, left : i = s.i /\ left = s.left
  OBVIOUS
<1>2. /\ s \in [i : Nat, left : Nat] /\ i \in Nat /\ left \in Nat
      /\ i >= 1 /\ i <= Len(q) + 1 /\ left >= 1 /\ (i > k \/ left <= q[i].size)
  BY <1>1 DEF Counting
<1>3. Len(q) \in Nat /\ k \in Nat /\ k + 1 <= Len(q)
  <2>1. Len(q) \in Nat
    BY LenProperties DEF Canon
  <2> QED BY <2>1
<1>4. PICK t : t = CountDown(q)[s]
  OBVIOUS
<1>5. t = IF i > Len(q) \/ left <= q[i].size THEN s
          ELSE [i |-> i + 1, left |-> left - q[i].size]
  BY <1>1, <1>2, <1>4 DEF CountDown
<1>6. CASE i > Len(q) \/ left <= q[i].size
  <2>1. t = s
    BY <1>5, <1>6
  <2>2. i > k + 1 \/ left <= q[i].size
    BY <1>2, <1>3, <1>6
  <2> QED BY <1>1, <1>2, <1>4, <2>1, <2>2 DEF Counting
<1>7. CASE ~(i > Len(q)) /\ ~(left <= q[i].size)
  <2>1. t = [i |-> i + 1, left |-> left - q[i].size]
    BY <1>5, <1>7
  <2>2. i \in 1 .. Len(q) /\ i > k
    BY <1>2, <1>3, <1>7
  <2>3. q[i].size \in Nat
    BY <2>2, RowIs
  <2>4. left - q[i].size \in Nat /\ left - q[i].size >= 1
    BY <1>2, <1>7, <2>3
  <2>5. t \in [i : Nat, left : Nat] /\ t.i = i + 1 /\ t.left = left - q[i].size
    BY <1>2, <2>1, <2>4
  <2>6. t.i >= 1 /\ t.i <= Len(q) + 1 /\ t.left >= 1 /\ t.i > k + 1
    BY <1>2, <1>3, <2>2, <2>4, <2>5
  <2> QED BY <1>4, <2>5, <2>6 DEF Counting
<1> QED BY <1>6, <1>7

(* The first rows of a table, the last of them shortened.                  *)
Prefix(q, i, left) == Append(SubSeq(q, 1, i - 1), Region(q[i].base, left))

(* The rows up to the one the limit ends in cover what lies below it.      *)
LEMMA PrefixIs ==
  ASSUME NEW q, Canon(q), NEW i \in 1 .. Len(q), NEW left \in Nat, left >= 1, left <= q[i].size
  PROVE  /\ Canon(Prefix(q, i, left)) /\ Len(Prefix(q, i, left)) = i
         /\ End(Prefix(q, i, left)[i]) = q[i].base + left
         /\ \A x \in Nat : Covers(Prefix(q, i, left), x) <=> (Covers(q, x) /\ x < q[i].base + left)
<1>0. PICK r, p : r = Region(q[i].base, left) /\ p = Prefix(q, i, left)
  OBVIOUS
<1>1. q \in Seq(Row) /\ Len(q) \in Nat /\ i \in Nat /\ i >= 1 /\ i <= Len(q)
  BY LenProperties DEF Canon
<1>2. q[i].base \in Nat /\ q[i].size \in Nat /\ q[i].base + q[i].size <= Top
  BY RowIs
<1>3. r \in Row /\ r.base = q[i].base /\ r.size = left
  BY <1>0, <1>2 DEF Region, Row
<1>4. PICK h : h = SubSeq(q, 1, i - 1)
  OBVIOUS
<1>5. h \in Seq(Row) /\ Len(h) = i - 1 /\ \A j \in 1 .. i - 1 : h[j] = q[j]
  <2>1. PICK n \in Nat : n = i - 1
    BY <1>1
  <2>2. 1 \in Nat /\ 1 >= 1 /\ n <= Len(q) /\ 1 <= n + 1
    BY <1>1, <2>1
  <2>3. /\ SubSeq(q, 1, n) \in Seq(Row)
        /\ Len(SubSeq(q, 1, n)) = n + 1 - 1
        /\ \A j \in 1 .. n + 1 - 1 : SubSeq(q, 1, n)[j] = q[1 + j - 1]
    BY <1>1, <2>2, SubIs
  <2>4. \A j \in 1 .. n : SubSeq(q, 1, n)[j] = q[j]
    <3> SUFFICES ASSUME NEW j \in 1 .. n PROVE SubSeq(q, 1, n)[j] = q[j]
      OBVIOUS
    <3>1. 1 + j - 1 = j /\ j \in 1 .. n + 1 - 1
      OBVIOUS
    <3> QED BY <2>3, <3>1
  <2>5. h = SubSeq(q, 1, n) /\ n + 1 - 1 = i - 1
    BY <1>4, <2>1
  <2> QED BY <2>1, <2>3, <2>4, <2>5
<1>6. p \in Seq(Row) /\ Len(p) = i /\ p[i] = r /\ \A j \in 1 .. i - 1 : p[j] = q[j]
  <2>1. /\ Append(h, r) \in Seq(Row) /\ Len(Append(h, r)) = Len(h) + 1
        /\ Append(h, r)[Len(h) + 1] = r
        /\ \A j \in 1 .. Len(h) : Append(h, r)[j] = h[j]
    BY <1>3, <1>5, AppendProperties
  <2>2. Len(h) + 1 = i
    BY <1>1, <1>5
  <2>3. p = Append(h, r)
    BY <1>0, <1>4 DEF Prefix
  <2> QED BY <1>5, <2>1, <2>2, <2>3
<1>7. \A j \in 1 .. i : p[j].base = q[j].base /\ p[j].size >= 1 /\ p[j].size <= q[j].size
  <2> SUFFICES ASSUME NEW j \in 1 .. i
               PROVE  p[j].base = q[j].base /\ p[j].size >= 1 /\ p[j].size <= q[j].size
    OBVIOUS
  <2>1. CASE j = i
    BY <1>3, <1>6, <2>1
  <2>2. CASE j # i
    <3>1. j \in 1 .. i - 1 /\ j \in 1 .. Len(q) /\ j < i
      BY <1>1, <2>2
    <3>2. q[j].size > 0 /\ q[j].size \in Nat
      BY <3>1, RowsApart, RowIs
    <3> QED BY <1>6, <3>1, <3>2
  <2> QED BY <2>1, <2>2
<1>8. ASSUME NEW j \in 1 .. Len(p)
      PROVE  /\ j \in 1 .. Len(q) /\ q[j].base \in Nat /\ q[j].size \in Nat
             /\ q[j].base + q[j].size <= Top
             /\ p[j].base = q[j].base /\ p[j].size >= 1 /\ p[j].size <= q[j].size
             /\ p[j].size \in Nat
  <2>1. j \in 1 .. Len(q) /\ j \in 1 .. i
    BY <1>1, <1>6
  <2>2. p[j] \in Row
    BY <1>6, ElementOfSeq
  <2>3. p[j].size \in Nat
    BY <2>2 DEF Row
  <2> QED BY <1>7, <2>1, <2>3, RowIs
<1>9. \A j \in 1 .. Len(p) : p[j].base + p[j].size <= Top /\ p[j].size > 0
  <2> SUFFICES ASSUME NEW j \in 1 .. Len(p)
               PROVE  p[j].base + p[j].size <= Top /\ p[j].size > 0
    OBVIOUS
  <2>1. PICK pb, ps, qb, qs : pb = p[j].base /\ ps = p[j].size /\ qb = q[j].base /\ qs = q[j].size
    OBVIOUS
  <2>2. /\ qb \in Nat /\ qs \in Nat /\ qb + qs <= Top /\ pb = qb /\ ps >= 1 /\ ps <= qs /\ ps \in Nat
    BY <1>8, <2>1
  <2>3. pb + ps <= Top /\ ps > 0
    BY <2>2, Numbers
  <2> QED BY <2>1, <2>3
<1>10. ASSUME NEW j \in 1 .. Len(p), NEW l \in 1 .. Len(p), j < l
       PROVE  p[j].base + p[j].size < p[l].base
  <2>1. q[j].base + q[j].size < q[l].base
    BY <1>8, <1>10, RowsApart
  <2>2. PICK pb, ps, qb, qs, lb : /\ pb = p[j].base /\ ps = p[j].size
                                  /\ qb = q[j].base /\ qs = q[j].size /\ lb = q[l].base
    OBVIOUS
  <2>3. qb \in Nat /\ qs \in Nat /\ pb = qb /\ ps <= qs /\ ps \in Nat /\ lb \in Nat /\ p[l].base = lb
    <3>1. p[j].base = q[j].base /\ p[j].size <= q[j].size /\ p[j].size \in Nat
          /\ q[j].base \in Nat /\ q[j].size \in Nat
      BY <1>8
    <3>2. p[l].base = q[l].base /\ q[l].base \in Nat
      BY <1>8
    <3>3. qb \in Nat /\ qs \in Nat
      BY <2>2, <3>1
    <3>4. pb = qb /\ ps \in Nat
      BY <2>2, <3>1
    <3>5. ps <= qs
      BY <2>2, <3>1
    <3>6. lb \in Nat /\ p[l].base = lb
      BY <2>2, <3>2
    <3> QED BY <3>3, <3>4, <3>5, <3>6
  <2>4. pb + ps < lb
    <3>1. qb + qs < lb
      BY <2>1, <2>2
    <3> QED BY <2>3, <3>1
  <2> QED BY <2>2, <2>3, <2>4
<1>11. Canon(p)
  BY <1>6, <1>9, <1>10 DEF Canon
<1>12. End(p[i]) = q[i].base + left
  <2>1. r.base + r.size = q[i].base + left /\ r.base + r.size <= Top
    BY <1>2, <1>3, Numbers
  <2>2. End(r) = r.base + r.size
    BY <1>3, <2>1, EndIs
  <2> QED BY <1>6, <2>1, <2>2
<1>13. ASSUME NEW x \in Nat, Covers(p, x) PROVE Covers(q, x) /\ x < q[i].base + left
  <2>1. PICK j \in 1 .. Len(p) : Within(p[j], x)
    BY <1>13 DEF Covers
  <2>2. p[j].base <= x /\ x < p[j].base + p[j].size
    BY <2>1 DEF Within
  <2>3. q[j].base <= x /\ x < q[j].base + q[j].size /\ j \in 1 .. Len(q)
    BY <1>8, <2>2
  <2>4. x < q[i].base + left
    <3>1. CASE j = i
      BY <1>3, <1>6, <2>2, <3>1
    <3>2. CASE j # i
      <4>1. j < i
        BY <1>1, <1>6, <3>2
      <4>2. q[j].base + q[j].size < q[i].base
        BY <2>3, <4>1, RowsApart
      <4> QED BY <1>2, <1>8, <2>3, <4>2
    <3> QED BY <3>1, <3>2
  <2> QED BY <2>3, <2>4 DEF Covers, Within
<1>14. ASSUME NEW x \in Nat, Covers(q, x), x < q[i].base + left PROVE Covers(p, x)
  <2>1. PICK j \in 1 .. Len(q) : Within(q[j], x)
    BY <1>14 DEF Covers
  <2>2. q[j].base <= x /\ x < q[j].base + q[j].size /\ q[j].base \in Nat /\ q[j].size \in Nat
    BY <2>1, RowIs DEF Within
  <2>3. CASE j = i
    <3>1. Within(p[i], x) /\ i \in 1 .. Len(p)
      BY <1>1, <1>3, <1>6, <1>14, <2>2, <2>3 DEF Within
    <3> QED BY <3>1 DEF Covers
  <2>4. CASE j < i
    <3>1. j \in 1 .. i - 1 /\ j \in 1 .. Len(p)
      BY <1>1, <1>6, <2>4
    <3>2. Within(p[j], x)
      BY <1>6, <2>1, <3>1
    <3> QED BY <3>1, <3>2 DEF Covers
  <2>5. CASE i < j
    <3>1. q[i].base + q[i].size < q[j].base
      BY <2>5, RowsApart
    <3> QED BY <1>2, <1>14, <2>2, <3>1
  <2> QED BY <1>1, <2>3, <2>4, <2>5
<1> QED BY <1>0, <1>6, <1>11, <1>12, <1>13, <1>14

(* The memory a limit leaves: all of it below the end of the last row.     *)
LEMMA TruncatedIs ==
  ASSUME NEW q, Canon(q), Len(q) >= 1, NEW limit \in Nat, limit >= 1,
         NEW p, p = Truncated(q, limit)
  PROVE  /\ Canon(p) /\ Len(p) >= 1 /\ Len(p) <= Len(q)
         /\ End(p[Len(p)]) \in Nat /\ End(p[Len(p)]) <= Top
         /\ \A x \in Nat : Covers(p, x) <=> (Covers(q, x) /\ x < End(p[Len(p)]))
<1>1. PICK n : n = Len(q)
  OBVIOUS
<1>2. n \in Nat /\ n >= 1
  BY <1>1, LenProperties DEF Canon
<1>3. PICK s0 : s0 = [i |-> 1, left |-> limit]
  OBVIOUS
<1>4. PICK s : s = Iterate(CountDown(q), s0, n)
  OBVIOUS
<1> DEFINE G == [k \in 0 .. n |-> Counting(q, k)]
<1>5. s0 \in Counting(q, 0)
  BY <1>1, <1>2, <1>3 DEF Counting
<1>6. ASSUME NEW k \in 0 .. n - 1, NEW x \in G[k] PROVE CountDown(q)[x] \in G[k + 1]
  <2>1. k \in 0 .. n /\ k + 1 \in 0 .. n /\ k \in 0 .. Len(q) - 1
    BY <1>1, <1>2
  <2>2. x \in Counting(q, k)
    BY <2>1
  <2>3. CountDown(q)[x] \in Counting(q, k + 1)
    BY <2>1, <2>2, CountDownTurn
  <2> QED BY <2>1, <2>3
<1>7. s0 \in G[0] /\ G[n] = Counting(q, n)
  BY <1>2, <1>5
<1> HIDE DEF G
<1>8. Iterate(CountDown(q), s0, n) \in G[n]
  BY <1>2, <1>6, <1>7, IterateKeeps
<1>9. PICK i, left : i = s.i /\ left = s.left
  OBVIOUS
<1>10. /\ i \in Nat /\ left \in Nat /\ i >= 1 /\ i <= n + 1 /\ left >= 1
       /\ i > n \/ left <= q[i].size
  BY <1>1, <1>4, <1>7, <1>8, <1>9 DEF Counting
<1>11. p = IF i > Len(q) THEN q ELSE Append(SubSeq(q, 1, i - 1), Region(q[i].base, left))
  BY <1>1, <1>3, <1>4, <1>9 DEF Truncated
<1>12. CASE i > Len(q)
  <2>1. p = q
    BY <1>11, <1>12
  <2>2. n \in 1 .. Len(q)
    BY <1>1, <1>2
  <2>3. q[n].base \in Nat /\ q[n].size \in Nat /\ q[n].base + q[n].size <= Top
        /\ End(q[n]) = q[n].base + q[n].size
    BY <2>2, RowIs
  <2>4. ASSUME NEW x \in Nat, Covers(q, x) PROVE x < End(q[n])
    <3>1. PICK j \in 1 .. Len(q) : Within(q[j], x)
      BY <2>4 DEF Covers
    <3>2. q[j].base <= x /\ x < q[j].base + q[j].size /\ q[j].base \in Nat /\ q[j].size \in Nat
      BY <3>1, RowIs DEF Within
    <3>3. CASE j = n
      BY <2>3, <3>2, <3>3
    <3>4. CASE j # n
      <4>1. j < n
        BY <1>1, <1>2, <3>4
      <4>2. q[j].base + q[j].size < q[n].base
        BY <2>2, <4>1, RowsApart
      <4>3. PICK c \in Nat : c = q[n].base
        BY <2>3
      <4>4. PICK z \in Nat : z = q[n].size
        BY <2>3
      <4>5. PICK t \in Nat : t = q[j].base + q[j].size
        BY <3>2
      <4>6. x < t /\ t < c /\ End(q[n]) = c + z
        BY <2>3, <3>2, <4>2, <4>3, <4>4, <4>5
      <4>7. x < c + z
        BY ONLY <4>6, x \in Nat, t \in Nat, c \in Nat, z \in Nat
      <4> QED BY <4>6, <4>7
    <3> QED BY <3>3, <3>4
  <2> QED BY <1>1, <1>2, <2>1, <2>3, <2>4
<1>13. CASE ~(i > Len(q))
  <2>1. PICK r : r = Region(q[i].base, left)
    OBVIOUS
  <2>2. p = Append(SubSeq(q, 1, i - 1), r)
    BY <1>11, <1>13, <2>1
  <2>3. i \in 1 .. Len(q) /\ left <= q[i].size
    BY <1>1, <1>2, <1>10, <1>13
  <2>4. /\ Canon(p) /\ Len(p) = i /\ End(p[i]) = q[i].base + left
        /\ \A x \in Nat : Covers(p, x) <=> (Covers(q, x) /\ x < q[i].base + left)
    <3> DEFINE P == Prefix(q, i, left)
    <3>1. /\ Canon(P) /\ Len(P) = i /\ End(P[i]) = q[i].base + left
          /\ \A x \in Nat : Covers(P, x) <=> (Covers(q, x) /\ x < q[i].base + left)
      BY ONLY Canon(q), <1>10, <2>3, PrefixIs
    <3>2. p = P
      BY <2>1, <2>2 DEF Prefix
    <3> HIDE DEF P
    <3> QED BY <3>1, <3>2
  <2>5. q[i].base + left \in Nat /\ q[i].base + left <= Top
    <3>1. q[i].base \in Nat /\ q[i].size \in Nat /\ q[i].base + q[i].size <= Top
      BY <2>3, RowIs
    <3>2. PICK b, z : b = q[i].base /\ z = q[i].size
      OBVIOUS
    <3>3. b + left \in Nat /\ b + left <= Top
      BY <1>10, <2>3, <3>1, <3>2, Numbers
    <3> QED BY <3>2, <3>3
  <2> QED BY <1>1, <1>2, <1>10, <2>3, <2>4, <2>5
<1> QED BY <1>12, <1>13

(* Cutting the reservations off at top.                                    *)
Ended(p, i, top) == \A j \in 1 .. Len(p) : j < i => p[j].base + p[j].size <= top

SameBelow(p, q, top) == \A x \in Nat : x < top => (Covers(p, x) <=> Covers(q, x))

Trimming(q, top, k) ==
  {s \in [i : Nat, regions : Regions] :
     /\ Canon(s.regions) /\ Len(s.regions) >= 1 /\ Len(s.regions) <= Len(q) /\ s.i >= 1
     /\ Ended(s.regions, s.i, top)
     /\ SameBelow(s.regions, q, top)
     /\ \/ s.i > Len(s.regions)
        \/ s.regions = <<Filler>> /\ s.i = 1
        \/ Len(s.regions) - s.i <= Len(q) - 1 - k}

(* A row cut off at an address covers what it covered below.               *)
LEMMA CutOffIs ==
  ASSUME NEW r \in Row, r.base + r.size <= Top, NEW top \in Nat
  PROVE  /\ CutOff(r, top) \in Row /\ CutOff(r, top).base = r.base
         /\ CutOff(r, top).base + CutOff(r, top).size <= r.base + r.size
         /\ CutOff(r, top).size > 0 => CutOff(r, top).base + CutOff(r, top).size <= top
         /\ \A x \in Nat : x < top => (Within(CutOff(r, top), x) <=> Within(r, x))
         /\ r.size = 0 => CutOff(r, top).size = 0
<1>1. PICK b, z, c : b = r.base /\ z = r.size /\ c = CutOff(r, top)
  OBVIOUS
<1>2. b \in Nat /\ z \in Nat /\ b + z <= Top
  BY <1>1 DEF Row
<1>3. End(r) = b + z
  BY <1>1, EndIs
<1>4. PICK n : n = IF b > top THEN 0 ELSE IF b + z > top THEN top - b ELSE z
  OBVIOUS
<1>5. c = Region(b, n)
  BY <1>1, <1>3, <1>4 DEF CutOff
<1>6. n \in Nat /\ n <= z /\ (n > 0 => b + n <= top) /\ (z = 0 => n = 0)
  BY <1>2, <1>4
<1>7. c \in Row /\ c.base = b /\ c.size = n
  BY <1>2, <1>5, <1>6 DEF Region, Row
<1>8. ASSUME NEW x \in Nat, x < top PROVE (b <= x /\ x < b + n) <=> (b <= x /\ x < b + z)
  BY <1>2, <1>4, <1>8
<1>9. \A x \in Nat : x < top => (Within(c, x) <=> Within(r, x))
  BY <1>1, <1>7, <1>8 DEF Within
<1>10. c.base + c.size <= r.base + r.size
  BY <1>1, <1>2, <1>6, <1>7
<1>11. c.size > 0 => c.base + c.size <= top
  BY <1>6, <1>7
<1>12. r.size = 0 => c.size = 0
  BY <1>1, <1>6, <1>7
<1> QED BY <1>1, <1>7, <1>9, <1>10, <1>11, <1>12

(* One turn of the loop that cuts the reservations off.                    *)
LEMMA CutNextTurn ==
  ASSUME NEW q, Canon(q), NEW top \in Nat, NEW k \in Nat, NEW s \in Trimming(q, top, k)
  PROVE  CutNext(top)[s] \in Trimming(q, top, k + 1)
<1>1. PICK i, Q : i = s.i /\ Q = s.regions
  OBVIOUS
<1>2. /\ s \in [i : Nat, regions : Regions] /\ i \in Nat /\ i >= 1
      /\ Canon(Q) /\ Len(Q) >= 1 /\ Len(Q) <= Len(q) /\ Ended(Q, i, top) /\ SameBelow(Q, q, top)
      /\ i > Len(Q) \/ (Q = <<Filler>> /\ i = 1) \/ Len(Q) - i <= Len(q) - 1 - k
  BY <1>1 DEF Trimming
<1>3. Len(q) \in Nat /\ Len(Q) \in Nat /\ Q \in Seq(Row)
  BY <1>2, LenProperties DEF Canon
<1>4. PICK t, c : t = CutNext(top)[s] /\ c = CutOff(Q[i], top)
  OBVIOUS
<1>5. t = IF i > Len(Q) THEN s
          ELSE IF c.size = 0 THEN [s EXCEPT !.regions = RemoveRegion(Q, i)]
          ELSE [i |-> i + 1, regions |-> [Q EXCEPT ![i] = c]]
  BY <1>1, <1>2, <1>4 DEF CutNext
<1>6. CASE i > Len(Q)
  BY <1>1, <1>2, <1>4, <1>5, <1>6 DEF Trimming
<1>7. ASSUME ~(i > Len(Q))
      PROVE  /\ i \in 1 .. Len(Q)
             /\ Q[i] \in Row /\ Q[i].base \in Nat /\ Q[i].size \in Nat
             /\ Q[i].base + Q[i].size <= Top
             /\ c \in Row /\ c.base = Q[i].base
             /\ c.base + c.size <= Q[i].base + Q[i].size
             /\ c.size > 0 => c.base + c.size <= top
             /\ \A x \in Nat : x < top => (Within(c, x) <=> Within(Q[i], x))
             /\ Q[i].size = 0 => c.size = 0
  <2>1. i \in 1 .. Len(Q)
    BY <1>2, <1>3, <1>7
  <2>2. Q[i] \in Row /\ Q[i].base \in Nat /\ Q[i].size \in Nat /\ Q[i].base + Q[i].size <= Top
    BY <1>2, <2>1, RowIs
  <2> QED BY <1>4, <2>1, <2>2, CutOffIs
<1>8. CASE ~(i > Len(Q)) /\ c.size = 0
  <2>1. PICK p : p = RemoveRegion(Q, i)
    OBVIOUS
  <2>2. t = [s EXCEPT !.regions = p]
    BY <1>5, <1>8, <2>1
  <2>3. i \in 1 .. Len(Q)
    BY <1>7, <1>8
  <2>4. /\ Canon(p)
        /\ p = <<Filler>> \/ Len(p) = Len(Q) - 1
        /\ Len(p) >= 1
        /\ p = <<Filler>> => i = 1
        /\ p # <<Filler>> =>
              /\ \A j \in 1 .. i - 1 : p[j] = Q[j]
              /\ \A j \in i .. Len(Q) - 1 : p[j] = Q[j + 1]
        /\ \A x \in Nat : Covers(p, x) <=> \E j \in 1 .. Len(Q) : j # i /\ Within(Q[j], x)
    BY <1>2, <2>1, <2>3, CanonRemove
  <2>5. p \in Regions /\ t \in [i : Nat, regions : Regions] /\ t.i = i /\ t.regions = p
    <3>1. p \in Regions
      BY <2>4, RegionsRow DEF Canon
    <3> QED BY <1>1, <1>2, <2>2, <3>1
  <2>6. SameBelow(p, q, top)
    <3> SUFFICES ASSUME NEW x \in Nat, x < top PROVE Covers(p, x) <=> Covers(q, x)
      BY DEF SameBelow
    <3>1. Covers(Q, x) <=> Covers(q, x)
      BY <1>2 DEF SameBelow
    <3>2. ~Within(Q[i], x)
      <4>1. Within(c, x) <=> Within(Q[i], x)
        BY <1>7, <1>8
      <4>2. c.base \in Nat /\ c.size = 0
        BY <1>7, <1>8
      <4>3. ~Within(c, x)
        BY <4>2 DEF Within
      <4> QED BY <4>1, <4>3
    <3>3. Covers(Q, x) <=> \E j \in 1 .. Len(Q) : j # i /\ Within(Q[j], x)
      BY <3>2 DEF Covers
    <3> QED BY <2>4, <3>1, <3>3
  <2>7. Len(p) \in Nat
    BY <2>4, LenProperties DEF Canon
  <2>8. CASE p = <<Filler>>
    <3>1. i = 1 /\ Len(p) <= Len(q) /\ Len(p) >= 1
      <4>1. Len(p) = 1
        BY <2>8, FillerIs
      <4> QED BY <1>2, <1>3, <2>4, <2>8, <4>1
    <3>2. Ended(p, i, top)
      <4>1. \A j \in 1 .. Len(p) : ~(j < i)
        BY <3>1
      <4> QED BY <4>1 DEF Ended
    <3> QED BY <1>4, <2>4, <2>5, <2>6, <2>8, <3>1, <3>2 DEF Trimming
  <2>9. CASE p # <<Filler>>
    <3>1. Len(p) = Len(Q) - 1 /\ Len(p) <= Len(q)
      BY <1>2, <1>3, <2>4, <2>9
    <3>2. Ended(p, i, top)
      <4> SUFFICES ASSUME NEW j \in 1 .. Len(p), j < i PROVE p[j].base + p[j].size <= top
        BY DEF Ended
      <4>1. j \in 1 .. i - 1 /\ j \in 1 .. Len(Q)
        BY <1>2, <1>3, <3>1
      <4>2. p[j] = Q[j] /\ Q[j].base + Q[j].size <= top
        BY <1>2, <2>4, <2>9, <4>1 DEF Ended
      <4> QED BY <4>2
    <3>3. Q # <<Filler>>
      <4>1. Len(Q) # 1
        BY <1>3, <2>4, <3>1
      <4> QED BY <4>1, FillerIs
    <3>4. Len(p) - i <= Len(q) - 1 - (k + 1)
      BY <1>2, <1>3, <1>8, <3>1, <3>3
    <3> QED BY <1>2, <1>4, <2>4, <2>5, <2>6, <3>1, <3>2, <3>4 DEF Trimming
  <2> QED BY <2>8, <2>9
<1>9. CASE ~(i > Len(Q)) /\ ~(c.size = 0)
  <2>1. PICK p : p = [Q EXCEPT ![i] = c]
    OBVIOUS
  <2>2. t = [i |-> i + 1, regions |-> p]
    BY <1>5, <1>9, <2>1
  <2>3. /\ i \in 1 .. Len(Q) /\ c \in Row /\ c.base = Q[i].base /\ c.size > 0
        /\ c.base \in Nat /\ c.size \in Nat
        /\ c.base + c.size <= Q[i].base + Q[i].size
        /\ Q[i].base + Q[i].size <= Top /\ Q[i].base \in Nat /\ Q[i].size \in Nat
        /\ c.base + c.size <= top /\ Q[i].size # 0
    <3>1. c.size \in Nat /\ c.base \in Nat
      BY <1>7, <1>9 DEF Row
    <3>2. c.size > 0
      BY <1>9, <3>1
    <3> QED BY <1>7, <1>9, <3>1, <3>2
  <2>4. c.base + c.size <= Top
    BY <2>3, Numbers
  <2>5. ASSUME NEW j \in 1 .. Len(Q), j < i PROVE Q[j].base + Q[j].size < c.base
    BY <1>2, <2>3, <2>5, RowsApart
  <2>6. ASSUME NEW j \in 1 .. Len(Q), j > i PROVE c.base + c.size < Q[j].base
    <3>1. i < j
      BY <2>3, <2>6
    <3>2. Q[i].base + Q[i].size < Q[j].base
      BY <1>2, <2>3, <3>1, RowsApart
    <3>3. Q[j].base \in Nat
      BY <1>2, RowIs
    <3> QED BY <2>3, <3>2, <3>3
  <2>7. /\ Canon(p) /\ Len(p) = Len(Q) /\ p[i] = c
        /\ \A j \in 1 .. Len(Q) : j # i => p[j] = Q[j]
    <3>1. /\ Canon([Q EXCEPT ![i] = c])
          /\ Len([Q EXCEPT ![i] = c]) = Len(Q)
          /\ [Q EXCEPT ![i] = c][i] = c
          /\ \A j \in 1 .. Len(Q) : j # i => [Q EXCEPT ![i] = c][j] = Q[j]
      BY ONLY <1>2, <2>3, <2>4, <2>5, <2>6, CanonReplace
    <3> QED BY <2>1, <3>1
  <2>8. p \in Regions /\ t \in [i : Nat, regions : Regions] /\ t.i = i + 1 /\ t.regions = p
    <3>1. p \in Regions
      BY <2>7, RegionsRow DEF Canon
    <3> QED BY <1>2, <2>2, <3>1
  <2>9. SameBelow(p, q, top)
    <3> SUFFICES ASSUME NEW x \in Nat, x < top PROVE Covers(p, x) <=> Covers(q, x)
      BY DEF SameBelow
    <3>1. Covers(Q, x) <=> Covers(q, x)
      BY <1>2 DEF SameBelow
    <3>2. Within(p[i], x) <=> Within(Q[i], x)
      BY <1>7, <1>9, <2>7
    <3>3. \A j \in 1 .. Len(Q) : Within(p[j], x) <=> Within(Q[j], x)
      BY <2>7, <3>2
    <3> QED BY <2>7, <3>1, <3>3 DEF Covers
  <2>10. Ended(p, i + 1, top)
    <3> SUFFICES ASSUME NEW j \in 1 .. Len(p), j < i + 1 PROVE p[j].base + p[j].size <= top
      BY DEF Ended
    <3>1. CASE j = i
      BY <2>3, <2>7, <3>1
    <3>2. CASE j # i
      <4>1. j < i /\ j \in 1 .. Len(Q)
        BY <1>2, <2>7, <3>2
      <4>2. Q[j].base + Q[j].size <= top
        BY <1>2, <4>1 DEF Ended
      <4> QED BY <2>7, <3>2, <4>1, <4>2
    <3> QED BY <3>1, <3>2
  <2>11. Q # <<Filler>>
    <3>1. Q[i].size # 0
      BY <2>3
    <3> SUFFICES ASSUME Q = <<Filler>> PROVE FALSE
      OBVIOUS
    <3>2. i = 1
      BY <2>3, FillerIs
    <3> QED BY <3>1, <3>2, FillerIs
  <2>12. Len(p) - (i + 1) <= Len(q) - 1 - (k + 1)
    BY <1>2, <1>3, <1>9, <2>7, <2>11
  <2>13. i + 1 >= 1
    BY <1>2
  <2> QED BY <1>2, <1>4, <2>7, <2>8, <2>9, <2>10, <2>12, <2>13 DEF Trimming
<1> QED BY <1>6, <1>8, <1>9

(* The reservations cut off at an address: all of them below it.           *)
LEMMA TrimmedIs ==
  ASSUME NEW q, Canon(q), Len(q) >= 1, NEW top \in Nat, NEW s,
         s = Iterate(CutNext(top), [i |-> 1, regions |-> q], Len(q))
  PROVE  /\ Canon(s.regions) /\ Len(s.regions) >= 1 /\ Len(s.regions) <= Len(q)
         /\ \A x \in Nat : Covers(s.regions, x) <=> (Covers(q, x) /\ x < top)
<1>1. PICK n : n = Len(q)
  OBVIOUS
<1>2. n \in Nat /\ n >= 1
  BY <1>1, LenProperties DEF Canon
<1>3. PICK s0 : s0 = [i |-> 1, regions |-> q]
  OBVIOUS
<1> DEFINE G == [k \in 0 .. n |-> Trimming(q, top, k)]
<1>4. s0 \in Trimming(q, top, 0)
  <2>1. q \in Regions
    BY RegionsRow DEF Canon
  <2>2. s0 \in [i : Nat, regions : Regions] /\ s0.i = 1 /\ s0.regions = q
    BY <1>3, <2>1
  <2>3. Ended(q, 1, top)
    <3>1. \A j \in 1 .. Len(q) : ~(j < 1)
      OBVIOUS
    <3> QED BY <3>1 DEF Ended
  <2>4. SameBelow(q, q, top)
    BY DEF SameBelow
  <2>5. Len(q) - 1 <= Len(q) - 1 - 0 /\ Len(q) <= Len(q) /\ 1 >= 1
    BY <1>1, <1>2
  <2> QED BY <2>2, <2>3, <2>4, <2>5 DEF Trimming
<1>5. ASSUME NEW k \in 0 .. n - 1, NEW x \in G[k] PROVE CutNext(top)[x] \in G[k + 1]
  <2>1. k \in 0 .. n /\ k + 1 \in 0 .. n /\ k \in Nat
    BY <1>2
  <2>2. x \in Trimming(q, top, k)
    BY <2>1
  <2>3. CutNext(top)[x] \in Trimming(q, top, k + 1)
    BY <2>1, <2>2, CutNextTurn
  <2> QED BY <2>1, <2>3
<1>6. s0 \in G[0] /\ G[n] = Trimming(q, top, n)
  BY <1>2, <1>4
<1> HIDE DEF G
<1>7. Iterate(CutNext(top), s0, n) \in G[n]
  BY <1>2, <1>5, <1>6, IterateKeeps
<1>8. s \in Trimming(q, top, n)
  BY <1>1, <1>3, <1>6, <1>7
<1>9. PICK i, Q : i = s.i /\ Q = s.regions
  OBVIOUS
<1>10. /\ i \in Nat /\ i >= 1
       /\ Canon(Q) /\ Len(Q) >= 1 /\ Len(Q) <= Len(q) /\ Ended(Q, i, top) /\ SameBelow(Q, q, top)
       /\ i > Len(Q) \/ (Q = <<Filler>> /\ i = 1) \/ Len(Q) - i <= Len(q) - 1 - n
  BY <1>8, <1>9 DEF Trimming
<1>11. Len(Q) \in Nat
  BY <1>10, LenProperties DEF Canon
<1>12. i > Len(Q) \/ Q = <<Filler>>
  BY <1>1, <1>2, <1>10, <1>11
<1>13. ASSUME NEW x \in Nat, Covers(Q, x) PROVE x < top
  <2>1. Q # <<Filler>>
    BY <1>13, FillerIs
  <2>2. PICK j \in 1 .. Len(Q) : Within(Q[j], x)
    BY <1>13 DEF Covers
  <2>3. Q[j].base <= x /\ x < Q[j].base + Q[j].size /\ Q[j].base \in Nat /\ Q[j].size \in Nat
    BY <1>10, <2>2, RowIs DEF Within
  <2>4. j < i
    BY <1>10, <1>11, <1>12, <2>1
  <2>5. Q[j].base + Q[j].size <= top
    BY <1>10, <2>4 DEF Ended
  <2> QED BY <2>3, <2>5
<1>14. \A x \in Nat : Covers(Q, x) <=> (Covers(q, x) /\ x < top)
  BY <1>10, <1>13 DEF SameBelow
<1> QED BY <1>9, <1>10, <1>14

(* The tables between two calls.                                           *)
Good(m) ==
  /\ Sound(m) /\ Kept(m)
  /\ m.limit \in 0 .. Anywhere /\ m.canResize \in BOOLEAN
  /\ m.memory.max = 0 <=> m.reserved.max = 0
  /\ ~m.canResize => \A type \in Types : m[type].array = Static

(* A call and the growth it brings leave the tables good.                  *)
LEMMA GoodSettled ==
  ASSUME NEW m, Good(m), NEW type \in Types, NEW q, Canon(q), NEW n,
         Settled(With(m, type, q), n)
  PROVE  Good(n)
<1>1. m \in Tables /\ q \in Regions
  BY RegionsRow DEF Good, Sound, Canon
<1>2. PICK w : w = With(m, type, q)
  OBVIOUS
<1>3. /\ w[type].max = m[type].max /\ w[type].array = m[type].array
      /\ \A other \in Types : other # type => w[other] = m[other]
      /\ w.limit = m.limit /\ w.canResize = m.canResize
  BY <1>1, <1>2, WithIs
<1>4. \A other \in Types : w[other].max = m[other].max /\ w[other].array = m[other].array
  BY <1>3
<1>5. /\ Sound(n) /\ Kept(n)
      /\ n.limit = w.limit /\ n.canResize = w.canResize
      /\ \A other \in Types : n[other].max = 0 <=> w[other].max = 0
      /\ ~w.canResize => \A other \in Types : n[other].array = w[other].array
  BY <1>2 DEF Settled
<1>6. n.limit \in 0 .. Anywhere /\ n.canResize \in BOOLEAN
  BY <1>3, <1>5 DEF Good
<1>7. \A other \in Types : n[other].max = 0 <=> m[other].max = 0
  BY <1>4, <1>5
<1>8. n.memory.max = 0 <=> n.reserved.max = 0
  BY <1>7 DEF Good, Types
<1>9. ~n.canResize => \A other \in Types : n[other].array = Static
  BY <1>3, <1>4, <1>5 DEF Good
<1> QED BY <1>5, <1>6, <1>8, <1>9 DEF Good

(* So does adding a range.                                                 *)
LEMMA AddsGood ==
  ASSUME NEW m, Good(m), NEW type \in Types, NEW b, NEW e, NEW n, Adds(m, type, b, e, n)
  PROVE  Good(n)
<1>1. PICK q : AddsRow(m, type, b, e, q) /\ Settled(With(m, type, q), n)
  BY DEF Adds
<1>2. Canon(q)
  BY <1>1 DEF AddsRow
<1> QED BY <1>1, <1>2, GoodSettled

(* So does taking one out.                                                 *)
LEMMA RemovesGood ==
  ASSUME NEW m, Good(m), NEW type \in Types, NEW b, NEW e, NEW n, Removes(m, type, b, e, n)
  PROVE  Good(n)
BY GoodSettled DEF Removes

(* A call, for either table.                                               *)
LEMMA AddRegionIs ==
  ASSUME NEW m, Good(m), NEW type \in Types, NEW b \in Nat, NEW e \in Nat, b < e, e <= Top, NEW k
  PROVE  \/ AddRegion(m, type, b, e, k) = Result("fail", m)
         \/ \E n : AddRegion(m, type, b, e, k) = Result("bug", n)
         \/ \E n : /\ Adds(m, type, b, e, n)
                   /\ AddRegion(m, type, b, e, k) = Result("ok", n)
<1>1. Sound(m) /\ Kept(m)
  BY DEF Good
<1>2. CASE type = "memory"
  BY <1>1, <1>2, AddRegionMemory
<1>3. CASE type = "reserved"
  <2>1. \/ AddRegion(m, "reserved", b, e, k) = Result("fail", m)
        \/ \E n : /\ Adds(m, "reserved", b, e, n)
                  /\ AddRegion(m, "reserved", b, e, k) = Result("ok", n)
    BY <1>1, AddRegionReserved
  <2> QED BY <1>3, <2>1
<1> QED BY <1>2, <1>3 DEF Types

(* The same for a range that is taken out.                                 *)
LEMMA RemoveRangeIs ==
  ASSUME NEW m, Good(m), NEW type \in Types, NEW b \in Nat, NEW e \in Nat, b < e, e <= Top, NEW k,
         NoneAt(m[type].regions, e),
         type = "reserved" => \A x \in Nat : (b <= x /\ x < e) => ~Owns(m, x)
  PROVE  \/ RemoveRange(m, type, b, e, k) = Result("fail", m)
         \/ \E n : RemoveRange(m, type, b, e, k) = Result("bug", n)
         \/ \E n : /\ Removes(m, type, b, e, n)
                   /\ RemoveRange(m, type, b, e, k) = Result("ok", n)
<1>1. Sound(m) /\ Kept(m)
  BY DEF Good
<1>2. CASE type = "memory"
  BY <1>1, <1>2, RemoveRangeMemory
<1>3. CASE type = "reserved"
  <2>1. NoneAt(m.reserved.regions, e) /\ \A x \in Nat : (b <= x /\ x < e) => ~Owns(m, x)
    BY <1>3
  <2>2. \/ RemoveRange(m, "reserved", b, e, k) = Result("fail", m)
        \/ \E n : /\ Removes(m, "reserved", b, e, n)
                  /\ RemoveRange(m, "reserved", b, e, k) = Result("ok", n)
    BY <1>1, <2>1, RemoveRangeReserved
  <2> QED BY <1>3, <2>2
<1> QED BY <1>2, <1>3 DEF Types

(* Aligning up makes no number smaller.                                    *)
LEMMA AlignUpIs ==
  ASSUME NEW a \in Nat, NEW align \in Aligns
  PROVE  AlignUp(a, align) \in Nat /\ AlignUp(a, align) >= a
<1>1. align = 1 \/ align = 2
  BY DEF Aligns
<1>2. CASE align = 1
  <2>1. AlignUp(a, align) = (a + 1 - 1) - ((a + 1 - 1) % 1)
    BY <1>2 DEF AlignUp, AlignDown
  <2>2. (a + 1 - 1) % 1 = 0
    OBVIOUS
  <2> QED BY <2>1, <2>2
<1>3. CASE align = 2
  <2>1. AlignUp(a, align) = (a + 2 - 1) - ((a + 2 - 1) % 2)
    BY <1>3 DEF AlignUp, AlignDown
  <2>2. (a + 2 - 1) % 2 \in 0 .. 1
    OBVIOUS
  <2> QED BY <2>1, <2>2
<1> QED BY <1>1, <1>2, <1>3

(* Memory below Top, reserved: what an allocation comes to.                *)
Takes(m, n) ==
  \E b, e \in Nat : b < e /\ e <= Top /\ Adds(m, "reserved", b, e, n)

(* memblock_alloc_nid, region after region.                                *)
Nidding(m) ==
  {s \in Nid : /\ s.i >= 1
               /\ \/ s.rc = "fail" /\ s.m = m
                  \/ s.rc = "ok" /\ Takes(m, s.m)}

(* One region tried: an allocation, or the tables as they were.            *)
LEMMA NidTurn ==
  ASSUME NEW m, Good(m), NEW n \in Nat, n >= 1, NEW align \in Aligns, NEW k, NEW s \in Nidding(m)
  PROVE  NidRegion(n, align, k)[s] \in Nidding(m)
<1>1. PICK i, rc : i = s.i /\ rc = s.rc
  OBVIOUS
<1>2. /\ s \in Nid /\ i \in Nat /\ i >= 1
      /\ (rc = "fail" /\ s.m = m) \/ (rc = "ok" /\ Takes(m, s.m))
  BY <1>1 DEF Nidding, Nid
<1>3. /\ Sound(m) /\ Kept(m) /\ m \in Tables
      /\ Canon(m.memory.regions) /\ Canon(m.reserved.regions)
  BY DEF Good, Sound, Types
<1>4. PICK P, Q : P = m.memory.regions /\ Q = m.reserved.regions
  OBVIOUS
<1>5. Canon(P) /\ Canon(Q) /\ Len(P) \in Nat
  BY <1>3, <1>4, LenProperties DEF Canon
<1>6. PICK t : t = NidRegion(n, align, k)[s]
  OBVIOUS
<1>7. CASE rc # "fail"
  <2>1. t = s
    BY <1>1, <1>2, <1>6, <1>7 DEF NidRegion, NidAt, NidFound
  <2> QED BY <1>6, <2>1
<1>8. CASE rc = "fail"
  <2>1. s.m = m
    BY <1>2, <1>8
  <2>2. PICK r, start, found, result :
          /\ r = P[i] /\ start = AlignUp(r.base, align)
          /\ found = FindRegion(Q, start, End(r), n, align)
          /\ result = AddRegion(m, "reserved", found, found + n, k)
    OBVIOUS
  <2>3. t = IF i > Len(P) THEN s
            ELSE IF start >= End(r) \/ found = 0 THEN [s EXCEPT !.i = @ + 1]
            ELSE [i |-> i + 1, m |-> result.m, rc |-> result.rc]
    BY <1>1, <1>2, <1>4, <1>6, <1>8, <2>1, <2>2 DEF NidRegion, NidAt, NidFound, Error
  <2>4. CASE i > Len(P)
    BY <1>6, <2>3, <2>4
  <2>5. CASE ~(i > Len(P)) /\ (start >= End(r) \/ found = 0)
    <3>1. t = [s EXCEPT !.i = @ + 1]
      BY <2>3, <2>5
    <3>2. t \in Nid /\ t.i = i + 1 /\ t.rc = rc /\ t.m = m
      BY <1>1, <1>2, <2>1, <3>1 DEF Nid
    <3>3. t.i >= 1
      BY <1>2, <3>2
    <3> QED BY <1>6, <1>8, <3>2, <3>3 DEF Nidding
  <2>6. CASE ~(i > Len(P)) /\ ~(start >= End(r)) /\ found # 0
    <3>1. i \in 1 .. Len(P)
      BY <1>2, <1>5, <2>6
    <3>2. /\ r.base \in Nat /\ r.size \in Nat /\ r.base + r.size <= Top
          /\ End(r) = r.base + r.size
      BY <1>5, <2>2, <3>1, RowIs
    <3>3. PICK e \in Nat : e = End(r) /\ e <= Top
      BY <3>2
    <3>4. start \in Nat
      BY <2>2, <3>2, AlignUpIs
    <3>5. PICK low : low = IF start = 0 THEN 1 ELSE start
      OBVIOUS
    <3>6. /\ FindRegion(Q, start, e, n, align) \in Nat
          /\ FindRegion(Q, start, e, n, align) # 0 =>
               Place(Q, low, e, n, align, FindRegion(Q, start, e, n, align))
      BY <1>5, <3>4, <3>5, FindRegionIs
    <3>7. found \in Nat /\ Place(Q, low, e, n, align, found)
      BY <2>2, <2>6, <3>3, <3>6
    <3>8. found + n \in Nat /\ found < found + n /\ found + n <= Top
      <4>1. found + n <= e
        BY <3>7 DEF Place
      <4> QED BY <3>3, <3>7, <4>1, Numbers
    <3>9. \/ AddRegion(m, "reserved", found, found + n, k) = Result("fail", m)
          \/ \E o : /\ Adds(m, "reserved", found, found + n, o)
                    /\ AddRegion(m, "reserved", found, found + n, k) = Result("ok", o)
      BY <1>3, <3>7, <3>8, AddRegionReserved
    <3>10. t = [i |-> i + 1, m |-> result.m, rc |-> result.rc]
      BY <2>3, <2>6
    <3>11. i + 1 \in Nat /\ i + 1 >= 1
      BY <1>2
    <3>12. CASE result = Result("fail", m)
      <4>1. t \in Nid /\ t.i = i + 1 /\ t.rc = "fail" /\ t.m = m
        BY <1>3, <3>10, <3>11, <3>12, ResultIs DEF Nid
      <4> QED BY <1>6, <3>11, <4>1 DEF Nidding
    <3>13. CASE \E o : Adds(m, "reserved", found, found + n, o) /\ result = Result("ok", o)
      <4>1. PICK o : Adds(m, "reserved", found, found + n, o) /\ result = Result("ok", o)
        BY <3>13
      <4>2. o \in Tables
        <5>1. PICK q : Settled(With(m, "reserved", q), o)
          BY <4>1 DEF Adds
        <5> QED BY <5>1 DEF Settled, Sound
      <4>3. t \in Nid /\ t.i = i + 1 /\ t.rc = "ok" /\ t.m = o
        BY <3>10, <3>11, <4>1, <4>2, ResultIs DEF Nid
      <4>4. Takes(m, o)
        BY <3>7, <3>8, <4>1 DEF Takes
      <4> QED BY <1>6, <3>11, <4>3, <4>4 DEF Nidding
    <3> QED BY <2>2, <3>9, <3>12, <3>13
  <2> QED BY <2>4, <2>5, <2>6
<1> QED BY <1>7, <1>8

(* memblock_alloc_nid: an allocation, or the tables as they were.          *)
LEMMA FindNidIs ==
  ASSUME NEW m, Good(m), NEW n \in Nat, n >= 1, NEW align \in Aligns, NEW k
  PROVE  \/ FindNid(m, n, align, k).rc = "fail" /\ FindNid(m, n, align, k).m = m
         \/ FindNid(m, n, align, k).rc = "ok" /\ Takes(m, FindNid(m, n, align, k).m)
<1>1. m \in Tables /\ Len(m.memory.regions) \in Nat
  <2>1. m \in Tables /\ Canon(m.memory.regions)
    BY DEF Good, Sound, Types
  <2> QED BY <2>1, LenProperties DEF Canon
<1>2. PICK c : c = Len(m.memory.regions)
  OBVIOUS
<1>3. PICK s0 : s0 = [i |-> 1, m |-> m, rc |-> "fail"]
  OBVIOUS
<1> DEFINE G == [j \in 0 .. c |-> Nidding(m)]
<1>4. s0 \in Nidding(m)
  BY <1>1, <1>3 DEF Nidding, Nid
<1>5. ASSUME NEW j \in 0 .. c - 1, NEW x \in G[j] PROVE NidRegion(n, align, k)[x] \in G[j + 1]
  <2>1. j \in 0 .. c /\ j + 1 \in 0 .. c
    BY <1>1, <1>2
  <2>2. x \in Nidding(m)
    BY <2>1
  <2>3. NidRegion(n, align, k)[x] \in Nidding(m)
    BY <2>2, NidTurn
  <2> QED BY <2>1, <2>3
<1>6. s0 \in G[0] /\ G[c] = Nidding(m)
  BY <1>1, <1>2, <1>4
<1> HIDE DEF G
<1>7. Iterate(NidRegion(n, align, k), s0, c) \in G[c]
  BY <1>1, <1>2, <1>5, <1>6, IterateKeeps
<1>8. PICK s : s = FindNid(m, n, align, k)
  OBVIOUS
<1>9. s \in Nidding(m)
  BY <1>2, <1>3, <1>6, <1>7, <1>8 DEF FindNid
<1> QED BY <1>8, <1>9 DEF Nidding

(* What any operation makes of the tables.                                 *)
Same(m, n) ==
  /\ \A type \in Types : \A x \in Nat :
        Covers(n[type].regions, x) <=> Covers(m[type].regions, x)
  /\ \A x \in Nat : Owns(n, x) <=> Owns(m, x)

Cuts(m, n) ==
  \E top \in 0 .. Top :
     /\ \A type \in Types : \A x \in Nat :
           Covers(n[type].regions, x) <=> (Covers(m[type].regions, x) /\ x < top)
     /\ \A x \in Nat : Owns(n, x) <=> Owns(m, x)

Frees(m, type, b, e, n) ==
  /\ Removes(m, type, b, e, n)
  /\ type = "reserved" => \A x \in Nat : (b <= x /\ x < e) => ~Owns(m, x)

Changes(m, n) ==
  \/ Same(m, n)
  \/ Cuts(m, n)
  \/ \E type \in Types : \E b, e \in Nat :
        b < e /\ e <= Top /\ (Adds(m, type, b, e, n) \/ Frees(m, type, b, e, n))

Outcomes == {"no", "bug", "panic", "loop"}

Turned ==
  Good(mb') /\ Changes(mb, mb') /\ stuck' \in Outcomes /\ slab' = slab

(* No change is one of the changes.                                        *)
LEMMA SameSelf ==
  ASSUME NEW m
  PROVE  Changes(m, m)
BY DEF Changes, Same

(* A step that leaves the tables alone.                                    *)
LEMMA StaysTurned ==
  ASSUME Good(mb), mb' = mb, stuck' \in Outcomes, slab' = slab
  PROVE  Turned
BY SameSelf DEF Turned

(* A step that commits what a call results in.                             *)
LEMMA CommitTurned ==
  ASSUME Good(mb), NEW R, Commit(R),
         \/ R = Result("fail", mb)
         \/ \E n : R = Result("bug", n)
         \/ \E n : Good(n) /\ Changes(mb, n) /\ R = Result("ok", n)
  PROVE  Turned
<1>1. /\ mb' = IF R.rc \in {"ok", "fail"} THEN R.m ELSE mb
      /\ stuck' = IF R.rc \in {"ok", "fail"} THEN "no" ELSE R.rc
      /\ slab' = slab
  BY DEF Commit
<1>2. CASE R = Result("fail", mb)
  <2>1. mb' = mb /\ stuck' = "no"
    BY <1>1, <1>2, ResultIs
  <2> QED BY <1>1, <2>1, StaysTurned DEF Outcomes
<1>3. CASE \E n : R = Result("bug", n)
  <2>1. mb' = mb /\ stuck' = "bug"
    BY <1>1, <1>3, ResultIs
  <2> QED BY <1>1, <2>1, StaysTurned DEF Outcomes
<1>4. CASE \E n : Good(n) /\ Changes(mb, n) /\ R = Result("ok", n)
  <2>1. PICK n : Good(n) /\ Changes(mb, n) /\ R = Result("ok", n)
    BY <1>4
  <2>2. mb' = n /\ stuck' = "no"
    BY <1>1, <2>1, ResultIs
  <2> QED BY <1>1, <2>1, <2>2 DEF Turned, Outcomes
<1> QED BY <1>2, <1>3, <1>4

(* An allocation is one of the changes, and leaves the tables good.        *)
LEMMA TakesChanges ==
  ASSUME NEW m, Good(m), NEW n, Takes(m, n)
  PROVE  Good(n) /\ Changes(m, n)
<1>1. PICK b \in Nat, e \in Nat : b < e /\ e <= Top /\ Adds(m, "reserved", b, e, n)
  BY DEF Takes
<1>2. "reserved" \in Types
  BY DEF Types
<1>3. Good(n)
  BY <1>1, <1>2, AddsGood
<1>4. Changes(m, n)
  BY <1>1, <1>2 DEF Changes
<1> QED BY <1>3, <1>4

(* memblock_init makes two tables that hold nothing.                       *)
LEMMA SetUpTurned ==
  ASSUME Good(mb), SetUp
  PROVE  Turned
<1>1. PICK m, n, t : m = mb /\ n = mb' /\ t = NewTable
  OBVIOUS
<1>2. /\ m.memory.max = 0 /\ n = [m EXCEPT !.memory = t, !.reserved = t, !.limit = Anywhere]
      /\ slab' = slab /\ stuck' = stuck /\ stuck = "no"
  BY <1>1 DEF SetUp
<1>3. /\ Sound(m) /\ Kept(m) /\ m.reserved.max = 0 /\ m \in Tables /\ m.canResize \in BOOLEAN
      /\ Roomy(m.memory) /\ Roomy(m.reserved)
  BY <1>1, <1>2 DEF Good, Sound, Types
<1>4. m.memory.regions = <<>> /\ m.reserved.regions = <<>>
  BY <1>2, <1>3 DEF Roomy
<1>5. t \in Table /\ t.regions = <<Filler>> /\ t.max = InitRegions /\ t.array = Static
  <2>1. <<Filler>> \in Regions
    BY FillerIs, RegionsRow DEF Canon
  <2>2. InitRegions \in Nat /\ Static \in Int
    BY Numbers, ConstantsAre
  <2> QED BY <1>1, <2>1, <2>2 DEF NewTable, Table
<1>6. Anywhere \in Nat
  BY Numbers DEF Anywhere
<1>7. /\ n \in Tables /\ n.memory = t /\ n.reserved = t /\ n.limit = Anywhere
      /\ n.canResize = m.canResize
  BY <1>2, <1>3, <1>5, <1>6 DEF Tables
<1>8. Canon(t.regions) /\ Roomy(t)
  <2>1. Canon(t.regions) /\ Len(t.regions) = 1
    BY <1>5, FillerIs
  <2> QED BY <1>5, <2>1, Numbers DEF Roomy
<1>9. Sound(n)
  BY <1>7, <1>8 DEF Sound, Types
<1>10. \A x \in Nat : ~Owns(n, x)
  <2>1. \A x \in Nat : x # Static
    BY ConstantsAre
  <2> QED BY <1>5, <1>7, <2>1, OwnsEither
<1>11. \A x \in Nat : ~Owns(m, x)
  <2>1. \A x \in Nat : x \notin {Static, Slab}
    BY ConstantsAre
  <2>2. m.memory.array \in {Static, Slab} /\ m.reserved.array \in {Static, Slab}
    BY <1>2, <1>3 DEF Kept, Arrayed, Types
  <2> QED BY <2>1, <2>2, OwnsEither
<1>12. Arrayed(n)
  BY <1>5, <1>7 DEF Arrayed, Types
<1>13. Kept(n)
  BY <1>10, <1>12 DEF Kept
<1>14. Good(n)
  <2>1. n.limit \in 0 .. Anywhere
    BY <1>6, <1>7
  <2>2. \A type \in Types : n[type].array = Static
    BY <1>5, <1>7 DEF Types
  <2>3. n.memory.max = 0 <=> n.reserved.max = 0
    BY <1>7
  <2> QED BY <1>3, <1>7, <1>9, <1>13, <2>1, <2>2, <2>3 DEF Good
<1>15. \A x \in Nat : ~Covers(<<>>, x)
  BY DEF Covers
<1>16. Same(m, n)
  <2>1. \A x \in Nat : ~Covers(t.regions, x)
    BY <1>5, FillerIs
  <2>2. \A type \in Types : \A x \in Nat : ~Covers(n[type].regions, x) /\ ~Covers(m[type].regions, x)
    BY <1>4, <1>7, <1>15, <2>1 DEF Types
  <2> QED BY <1>10, <1>11, <2>2 DEF Same
<1> QED BY <1>1, <1>2, <1>14, <1>16 DEF Turned, Changes, Outcomes

(* The tables stay, the limit or the right to resize changes.              *)
LEMMA SettingTurned ==
  ASSUME Good(mb), mb' \in Tables, mb'.memory = mb.memory, mb'.reserved = mb.reserved,
         mb'.limit \in 0 .. Anywhere, mb'.canResize \in BOOLEAN, mb.canResize => mb'.canResize,
         stuck' \in Outcomes, slab' = slab
  PROVE  Turned
<1>1. PICK m, n : m = mb /\ n = mb'
  OBVIOUS
<1>2. \A type \in Types : n[type] = m[type]
  BY <1>1 DEF Types
<1>3. Sound(n)
  BY <1>1, <1>2 DEF Good, Sound
<1>4. \A x : Owns(n, x) <=> Owns(m, x)
  BY <1>2 DEF Owns
<1>5. Kept(n)
  <2>1. Arrayed(m) /\ \A x \in Nat : Owns(m, x) => Covers(m.reserved.regions, x)
    BY <1>1 DEF Good, Kept
  <2>2. Arrayed(n)
    BY <1>1, <1>2, <2>1 DEF Arrayed
  <2> QED BY <1>1, <1>4, <2>1, <2>2 DEF Kept
<1>6. Good(n)
  BY <1>1, <1>2, <1>3, <1>5 DEF Good
<1>7. Same(m, n)
  BY <1>2, <1>4 DEF Same
<1> QED BY <1>1, <1>6, <1>7 DEF Turned, Changes

(* memblock_analyze lets the tables grow from then on.                     *)
LEMMA AnalyzeTurned ==
  ASSUME Good(mb), Analyze
  PROVE  Turned
<1>1. PICK m : m = mb
  OBVIOUS
<1>2. m \in Tables /\ m.limit \in 0 .. Anywhere
  BY <1>1 DEF Good, Sound
<1>3. mb' = [m EXCEPT !.canResize = TRUE] /\ slab' = slab /\ stuck' = stuck /\ stuck = "no"
  BY <1>1 DEF Analyze
<1>4. /\ mb' \in Tables /\ mb'.memory = m.memory /\ mb'.reserved = m.reserved
      /\ mb'.limit = m.limit /\ mb'.canResize = TRUE
  BY <1>2, <1>3 DEF Tables
<1> QED BY <1>1, <1>2, <1>3, <1>4, SettingTurned DEF Outcomes

(* memblock_set_current_limit sets the limit, nothing else.                *)
LEMMA SetCurrentLimitTurned ==
  ASSUME Good(mb), SetCurrentLimit
  PROVE  Turned
<1>1. PICK m : m = mb
  OBVIOUS
<1>2. m \in Tables /\ m.canResize \in BOOLEAN
  BY <1>1 DEF Good, Sound
<1>3. PICK limit \in {Top - 2, Anywhere} : mb' = [m EXCEPT !.limit = limit]
  BY <1>1 DEF SetCurrentLimit
<1>4. limit \in 0 .. Anywhere /\ limit \in Nat
  BY Numbers DEF Anywhere
<1>5. /\ mb' \in Tables /\ mb'.memory = m.memory /\ mb'.reserved = m.reserved
      /\ mb'.limit = limit /\ mb'.canResize = m.canResize
  BY <1>2, <1>3, <1>4 DEF Tables
<1>6. slab' = slab /\ stuck' = stuck /\ stuck = "no"
  BY DEF SetCurrentLimit
<1> QED BY <1>1, <1>2, <1>4, <1>5, <1>6, SettingTurned DEF Outcomes

(* A range a caller names.                                                 *)
LEMMA AskedIs ==
  ASSUME NEW r \in Asked
  PROVE  r[1] \in Nat /\ r[2] \in Nat /\ r[1] + r[2] \in Nat /\ r[1] < r[1] + r[2] /\ r[1] + r[2] <= Top
<1>1. r \in Ranges
  BY MemblockAssumption
<1>2. r \in Pages \X (1 .. Top) /\ r[1] + r[2] <= Top
  BY <1>1 DEF Ranges
<1>3. r[1] \in Nat /\ r[2] \in Nat /\ r[2] >= 1
  BY <1>2, Numbers DEF Pages
<1> QED BY <1>2, <1>3

(* memblock_add and memblock_reserve.                                      *)
LEMMA AddOrReserveTurned ==
  ASSUME Good(mb), AddOrReserve
  PROVE  Turned
<1>1. PICK type \in Types, r \in Asked, k \in Kmalloc :
         Commit(AddRegion(mb, type, r[1], r[1] + r[2], k))
  BY DEF AddOrReserve
<1>2. PICK b \in Nat, e \in Nat : b = r[1] /\ e = r[1] + r[2] /\ b < e /\ e <= Top
  BY AskedIs
<1>3. PICK R : R = AddRegion(mb, type, b, e, k)
  OBVIOUS
<1>4. Commit(R)
  BY <1>1, <1>2, <1>3
<1>5. \/ R = Result("fail", mb)
      \/ \E n : R = Result("bug", n)
      \/ \E n : Adds(mb, type, b, e, n) /\ R = Result("ok", n)
  BY <1>2, <1>3, AddRegionIs
<1>6. ASSUME NEW n, Adds(mb, type, b, e, n) PROVE Good(n) /\ Changes(mb, n)
  <2>1. Good(n)
    BY <1>6, AddsGood
  <2>2. Changes(mb, n)
    BY <1>2, <1>6 DEF Changes
  <2> QED BY <2>1, <2>2
<1>7. \/ R = Result("fail", mb)
      \/ \E n : R = Result("bug", n)
      \/ \E n : Good(n) /\ Changes(mb, n) /\ R = Result("ok", n)
  BY <1>5, <1>6
<1> QED BY <1>4, <1>7, CommitTurned

(* What the tables occupy, within the pages.                               *)
LEMMA OwnIs ==
  ASSUME Good(mb)
  PROVE  \A x \in Nat : x \in Own <=> Owns(mb, x)
<1> SUFFICES ASSUME NEW x \in Nat PROVE x \in Own <=> Owns(mb, x)
  OBVIOUS
<1>1. Owns(mb, x) => x < Top
  <2> SUFFICES ASSUME Owns(mb, x) PROVE x < Top
    OBVIOUS
  <2>1. Covers(mb.reserved.regions, x)
    BY DEF Good, Kept
  <2>2. Canon(mb.reserved.regions)
    BY DEF Good, Sound, Types
  <2> QED BY <2>1, <2>2, CoveredBelow
<1>2. x \in Pages <=> x < Top
  BY Numbers DEF Pages
<1> QED BY <1>1, <1>2 DEF Own, Owns

(* memblock_remove and memblock_free, of a range that does not end where a *)
(* region begins.                                                          *)
LEMMA RemoveOrFreeTurned ==
  ASSUME Good(mb), RemoveOrFree, ~Abutting
  PROVE  Turned
<1>1. PICK type \in Types, r \in Asked, k \in Kmalloc :
         /\ \A i \in 1 .. Len(mb[type].regions) : mb[type].regions[i].base # r[1] + r[2]
         /\ type = "reserved" => Own \cap (r[1] .. r[1] + r[2] - 1) = {}
         /\ Commit(RemoveRange(mb, type, r[1], r[1] + r[2], k))
  BY DEF RemoveOrFree
<1>2. PICK b \in Nat, e \in Nat : b = r[1] /\ e = r[1] + r[2] /\ b < e /\ e <= Top
  BY AskedIs
<1>3. NoneAt(mb[type].regions, e)
  BY <1>1, <1>2 DEF NoneAt
<1>4. type = "reserved" => \A x \in Nat : (b <= x /\ x < e) => ~Owns(mb, x)
  <2> SUFFICES ASSUME type = "reserved", NEW x \in Nat, b <= x, x < e PROVE ~Owns(mb, x)
    OBVIOUS
  <2>1. r[1] \in Nat /\ r[2] \in Nat /\ r[1] <= x /\ x < r[1] + r[2]
    BY <1>2, AskedIs
  <2>2. x \in r[1] .. r[1] + r[2] - 1
    BY ONLY <2>1, x \in Nat
  <2>3. Own \cap (r[1] .. r[1] + r[2] - 1) = {}
    BY <1>1
  <2>4. x \notin Own
    BY <2>2, <2>3, Zenon
  <2> QED BY <2>4, OwnIs
<1>5. PICK R : R = RemoveRange(mb, type, b, e, k)
  OBVIOUS
<1>6. Commit(R)
  BY <1>1, <1>2, <1>5
<1>7. \/ R = Result("fail", mb)
      \/ \E n : R = Result("bug", n)
      \/ \E n : Removes(mb, type, b, e, n) /\ R = Result("ok", n)
  BY <1>2, <1>3, <1>4, <1>5, RemoveRangeIs
<1>8. ASSUME NEW n, Removes(mb, type, b, e, n) PROVE Good(n) /\ Changes(mb, n)
  <2>1. Good(n)
    BY <1>8, RemovesGood
  <2>2. Frees(mb, type, b, e, n)
    BY <1>4, <1>8 DEF Frees
  <2>3. Changes(mb, n)
    BY <1>2, <2>2 DEF Changes
  <2> QED BY <2>1, <2>3
<1>9. \/ R = Result("fail", mb)
      \/ \E n : R = Result("bug", n)
      \/ \E n : Good(n) /\ Changes(mb, n) /\ R = Result("ok", n)
  BY <1>7, <1>8
<1> QED BY <1>6, <1>9, CommitTurned

(* memblock_alloc_base takes free memory or panics.                        *)
LEMMA AllocOrPanicTurned ==
  ASSUME Good(mb), NEW size \in Nat, size >= 1, NEW align \in Aligns, NEW max \in Nat, NEW k,
         AllocOrPanic(mb, size, align, max, k)
  PROVE  Turned
<1>1. PICK m : m = mb
  OBVIOUS
<1>2. PICK n, found, R : /\ n = AlignUp(size, align)
                         /\ found = FindBase(m, n, align, 0, max)
                         /\ R = AddRegion(m, "reserved", found, found + n, k)
  OBVIOUS
<1>3. IF found # 0 /\ R.rc # "fail" THEN Commit(R)
      ELSE stuck' = "panic" /\ (mb' = IF found = 0 THEN m ELSE R.m) /\ slab' = slab
  BY <1>1, <1>2 DEF AllocOrPanic, Error
<1>4. n \in Nat /\ n >= 1
  <2>1. AlignUp(size, align) \in Nat /\ AlignUp(size, align) >= size
    BY AlignUpIs
  <2> QED BY <1>2, <2>1
<1>5. Sound(m) /\ Kept(m) /\ m \in Tables /\ Canon(m.memory.regions) /\ Canon(m.reserved.regions)
  BY <1>1 DEF Good, Sound, Types
<1>6. PICK bound : bound = IF max = 0 THEN m.limit ELSE max
  OBVIOUS
<1>7. /\ FindBase(m, n, align, 0, max) \in Nat
      /\ FindBase(m, n, align, 0, max) # 0 => Spot(m, bound, n, align, FindBase(m, n, align, 0, max))
  BY <1>4, <1>5, <1>6, FindBaseIs
<1>8. CASE found = 0
  <2>1. mb' = mb /\ stuck' = "panic" /\ slab' = slab
    BY <1>1, <1>3, <1>8
  <2> QED BY <2>1, StaysTurned DEF Outcomes
<1>9. CASE found # 0
  <2>1. found \in Nat /\ Spot(m, bound, n, align, found)
    BY <1>2, <1>7, <1>9
  <2>2. PICK e \in Nat : e = found + n
    BY <1>4, <2>1
  <2>3. found < e
    BY <1>4, <2>1, <2>2
  <2>4. e <= Top
    <3>1. PICK x \in Nat : x = e - 1
      BY <2>1, <2>2, <2>3
    <3>2. found <= x /\ x < found + n
      BY <2>1, <2>2, <2>3, <3>1
    <3>3. Covers(m.memory.regions, x)
      BY <2>1, <3>2 DEF Spot
    <3>4. x < Top
      BY <1>5, <3>3, CoveredBelow
    <3> QED BY <3>1, <3>4, Numbers
  <2>5. \/ AddRegion(m, "reserved", found, e, k) = Result("fail", m)
        \/ \E o : /\ Adds(m, "reserved", found, e, o)
                  /\ AddRegion(m, "reserved", found, e, k) = Result("ok", o)
    BY <1>5, <2>1, <2>3, <2>4, AddRegionReserved
  <2>6. R = AddRegion(m, "reserved", found, e, k)
    BY <1>2, <2>2
  <2>7. CASE R = Result("fail", m)
    <3>1. mb' = mb /\ stuck' = "panic" /\ slab' = slab
      BY <1>1, <1>3, <1>9, <2>7, ResultIs
    <3> QED BY <3>1, StaysTurned DEF Outcomes
  <2>8. CASE \E o : Adds(m, "reserved", found, e, o) /\ R = Result("ok", o)
    <3>1. PICK o : Adds(m, "reserved", found, e, o) /\ R = Result("ok", o)
      BY <2>8
    <3>2. Commit(R)
      BY <1>3, <1>9, <3>1, ResultIs
    <3>3. Takes(m, o)
      BY <2>1, <2>3, <2>4, <3>1 DEF Takes
    <3>4. Good(o) /\ Changes(mb, o)
      BY <1>1, <3>3, TakesChanges
    <3> QED BY <3>1, <3>2, <3>4, CommitTurned
  <2> QED BY <2>5, <2>6, <2>7, <2>8
<1> QED BY <1>8, <1>9

(* memblock_alloc and its kin.                                             *)
LEMMA AllocBaseTurned ==
  ASSUME Good(mb), AllocBase
  PROVE  Turned
<1>1. PICK size \in 1 .. 2, align \in Aligns, max \in {Accessible, Top \div 2}, k \in Kmalloc :
         AllocOrPanic(mb, size, align, max, k)
  BY DEF AllocBase
<1>2. size \in Nat /\ size >= 1
  OBVIOUS
<1>3. max \in Nat
  BY Numbers DEF Accessible
<1> QED BY <1>1, <1>2, <1>3, AllocOrPanicTurned

(* memblock_alloc_nid and memblock_alloc_try_nid.                          *)
LEMMA AllocNidTurned ==
  ASSUME Good(mb), AllocNid
  PROVE  Turned
<1>1. PICK size \in 1 .. 2, align \in Aligns, try \in BOOLEAN, k \in Kmalloc :
         \E result \in {FindNid(mb, AlignUp(size, align), align, k)} :
         IF result.rc = "fail" /\ try THEN AllocOrPanic(result.m, size, align, Anywhere, k)
         ELSE Commit(result)
  BY DEF AllocNid
<1>2. PICK n, R : n = AlignUp(size, align) /\ R = FindNid(mb, n, align, k)
  OBVIOUS
<1>3. IF R.rc = "fail" /\ try THEN AllocOrPanic(R.m, size, align, Anywhere, k) ELSE Commit(R)
  BY <1>1, <1>2
<1>4. size \in Nat /\ size >= 1
  OBVIOUS
<1>5. n \in Nat /\ n >= 1
  <2>1. AlignUp(size, align) \in Nat /\ AlignUp(size, align) >= size
    BY <1>4, AlignUpIs
  <2> QED BY <1>2, <1>4, <2>1
<1>6. \/ R.rc = "fail" /\ R.m = mb
      \/ R.rc = "ok" /\ Takes(mb, R.m)
  BY <1>2, <1>5, FindNidIs
<1>7. CASE R.rc = "fail" /\ R.m = mb /\ try
  <2>1. AllocOrPanic(mb, size, align, Anywhere, k)
    BY <1>3, <1>7
  <2>2. Anywhere \in Nat
    BY Numbers DEF Anywhere
  <2> QED BY <1>4, <2>1, <2>2, AllocOrPanicTurned
<1>8. CASE R.rc = "fail" /\ R.m = mb /\ ~try
  <2>1. Commit(R)
    BY <1>3, <1>8
  <2>2. mb' = mb /\ stuck' = "no" /\ slab' = slab
    BY <1>8, <2>1 DEF Commit
  <2> QED BY <2>2, StaysTurned DEF Outcomes
<1>9. CASE R.rc = "ok" /\ Takes(mb, R.m)
  <2>1. Commit(R)
    BY <1>3, <1>9
  <2>2. mb' = R.m /\ stuck' = "no" /\ slab' = slab
    BY <1>9, <2>1 DEF Commit
  <2>3. Good(R.m) /\ Changes(mb, R.m)
    BY <1>9, TakesChanges
  <2> QED BY <2>2, <2>3 DEF Turned, Outcomes
<1> QED BY <1>6, <1>7, <1>8, <1>9

(* Both tables cut off at the end of the memory that is left.              *)
LEMMA CutsGood ==
  ASSUME NEW m, Good(m), ~m.canResize, m.memory.max > 0, NEW top \in Nat, top <= Top,
         NEW p, Canon(p), Len(p) >= 1, Len(p) <= Len(m.memory.regions),
         \A x \in Nat : Covers(p, x) <=> (Covers(m.memory.regions, x) /\ x < top),
         NEW r, Canon(r), Len(r) >= 1, Len(r) <= Len(m.reserved.regions),
         \A x \in Nat : Covers(r, x) <=> (Covers(m.reserved.regions, x) /\ x < top),
         NEW n, n = With(With(m, "memory", p), "reserved", r)
  PROVE  Good(n) /\ Cuts(m, n)
<1>1. PICK w : w = With(m, "memory", p)
  OBVIOUS
<1>2. n = With(w, "reserved", r)
  BY <1>1
<1>3. /\ m \in Tables /\ Sound(m) /\ Arrayed(m) /\ m.memory.max \in Nat /\ m.reserved.max \in Nat
      /\ m.memory.max = 0 <=> m.reserved.max = 0
      /\ Roomy(m.memory) /\ Roomy(m.reserved)
  BY DEF Good, Sound, Types, Kept, Tables, Table
<1>4. /\ m.memory.max >= 2 /\ Len(p) < m.memory.max
      /\ m.reserved.max >= 2 /\ Len(r) < m.reserved.max
  <2>1. Len(p) \in Nat /\ Len(r) \in Nat
    BY LenProperties DEF Canon
  <2>2. Len(m.memory.regions) \in Nat /\ Len(m.reserved.regions) \in Nat
    BY LenProperties DEF Good, Sound, Types, Canon
  <2>3. m.memory.max >= 2 /\ Len(m.memory.regions) < m.memory.max
    BY <1>3 DEF Roomy
  <2>4. m.reserved.max >= 2 /\ Len(m.reserved.regions) < m.reserved.max
    BY <1>3 DEF Roomy
  <2> QED BY <1>3, <2>1, <2>2, <2>3, <2>4
<1>5. "memory" \in Types /\ "reserved" \in Types /\ "memory" # "reserved"
  BY DEF Types
<1>6. p \in Regions /\ r \in Regions
  BY RegionsRow DEF Canon
<1>7. /\ w \in Tables /\ w.memory.regions = p /\ w.memory.array = m.memory.array
      /\ w.memory.max = m.memory.max /\ w.reserved = m.reserved
      /\ w.limit = m.limit /\ w.canResize = m.canResize
  BY <1>1, <1>3, <1>5, <1>6, WithIs
<1>8. Sound(w)
  <2>1. m["memory"].max >= 2 /\ Len(p) < m["memory"].max
    BY <1>4
  <2> QED BY <1>1, <1>3, <1>5, <2>1, SoundWith
<1>9. Sound(n)
  <2>1. w["reserved"].max >= 2 /\ Len(r) < w["reserved"].max
    BY <1>4, <1>7
  <2> QED BY <1>2, <1>5, <1>8, <2>1, SoundWith
<1>10. /\ n \in Tables /\ n.reserved.regions = r /\ n.reserved.array = m.reserved.array
       /\ n.reserved.max = m.reserved.max /\ n.memory = w.memory
       /\ n.limit = m.limit /\ n.canResize = m.canResize
  BY <1>2, <1>5, <1>6, <1>7, WithIs
<1>11. m.memory.array = Static /\ m.reserved.array = Static
  BY DEF Good, Types
<1>12. n.memory.array = Static /\ n.reserved.array = Static
  BY <1>7, <1>10, <1>11
<1>13. \A x \in Nat : ~Owns(m, x) /\ ~Owns(n, x)
  <2>1. \A x \in Nat : x # Static
    BY ConstantsAre
  <2> QED BY <1>11, <1>12, <2>1, OwnsEither
<1>14. Kept(n)
  BY <1>12, <1>13 DEF Kept, Arrayed, Types
<1>15. Good(n)
  <2>1. n.limit \in 0 .. Anywhere /\ n.canResize \in BOOLEAN
    BY <1>10 DEF Good
  <2>2. n.memory.max = 0 <=> n.reserved.max = 0
    BY <1>3, <1>7, <1>10
  <2>3. \A type \in Types : n[type].array = Static
    BY <1>12 DEF Types
  <2> QED BY <1>9, <1>14, <2>1, <2>2, <2>3 DEF Good
<1>16. Cuts(m, n)
  <2>1. top \in 0 .. Top
    BY Numbers
  <2>2. n.memory.regions = p /\ n.reserved.regions = r
    BY <1>7, <1>10
  <2>3. \A type \in Types : \A x \in Nat :
          Covers(n[type].regions, x) <=> (Covers(m[type].regions, x) /\ x < top)
    BY <2>2 DEF Types
  <2>4. \A x \in Nat : Owns(n, x) <=> Owns(m, x)
    BY <1>13
  <2> QED BY <2>1, <2>3, <2>4 DEF Cuts
<1> QED BY <1>15, <1>16

(* memblock_enforce_memory_limit cuts both tables off at one address.      *)
LEMMA EnforceMemoryLimitTurned ==
  ASSUME Good(mb), EnforceMemoryLimit
  PROVE  Turned
<1>1. PICK limit \in 1 .. Top :
         LET memory == Truncated(mb.memory.regions, limit)
             reserved == mb.reserved.regions
             s == Iterate(CutNext(End(memory[Len(memory)])), [i |-> 1, regions |-> reserved],
                          Len(reserved))
         IN /\ mb' = With(With(mb, "memory", memory), "reserved", s.regions)
            /\ stuck' = IF s.i > Len(s.regions) THEN "no" ELSE "loop"
  BY DEF EnforceMemoryLimit
<1>2. mb.memory.max > 0 /\ ~mb.canResize /\ slab' = slab
  BY DEF EnforceMemoryLimit
<1>3. PICK p : p = Truncated(mb.memory.regions, limit)
  OBVIOUS
<1>4. PICK top : top = End(p[Len(p)])
  OBVIOUS
<1>5. PICK s : s = Iterate(CutNext(top), [i |-> 1, regions |-> mb.reserved.regions],
                           Len(mb.reserved.regions))
  OBVIOUS
<1>6. /\ mb' = With(With(mb, "memory", p), "reserved", s.regions)
      /\ stuck' = IF s.i > Len(s.regions) THEN "no" ELSE "loop"
  BY <1>1, <1>3, <1>4, <1>5
<1>7. /\ Canon(mb.memory.regions) /\ Canon(mb.reserved.regions)
      /\ Roomy(mb.memory) /\ Roomy(mb.reserved)
      /\ mb.memory.max = 0 <=> mb.reserved.max = 0
  BY DEF Good, Sound, Types
<1>8. Len(mb.memory.regions) >= 1 /\ Len(mb.reserved.regions) >= 1
  <2>1. mb.memory.max # 0
    BY <1>2
  <2> QED BY <1>7, <2>1 DEF Roomy
<1>9. limit \in Nat /\ limit >= 1
  BY Numbers
<1>10. /\ Canon(p) /\ Len(p) >= 1 /\ Len(p) <= Len(mb.memory.regions)
       /\ top \in Nat /\ top <= Top
       /\ \A x \in Nat : Covers(p, x) <=> (Covers(mb.memory.regions, x) /\ x < top)
  BY <1>3, <1>4, <1>7, <1>8, <1>9, TruncatedIs
<1>11. PICK r : r = s.regions
  OBVIOUS
<1>12. /\ Canon(r) /\ Len(r) >= 1 /\ Len(r) <= Len(mb.reserved.regions)
       /\ \A x \in Nat : Covers(r, x) <=> (Covers(mb.reserved.regions, x) /\ x < top)
  BY <1>5, <1>7, <1>8, <1>10, <1>11, TrimmedIs
<1>13. mb' = With(With(mb, "memory", p), "reserved", r)
  BY <1>6, <1>11
<1>14. Good(mb') /\ Cuts(mb, mb')
  BY <1>2, <1>10, <1>12, <1>13, CutsGood
<1>15. stuck' \in Outcomes
  BY <1>6 DEF Outcomes
<1> QED BY <1>2, <1>14, <1>15 DEF Turned, Changes

-----------------------------------------------------------------------------
(* The inductive invariant.                                                *)
MemblockInv == Good(mb) /\ stuck \in Outcomes /\ slab \in BOOLEAN

(* Every operation keeps the tables good and changes them by one of the    *)
(* changes.                                                                *)
LEMMA NextTurned ==
  ASSUME ~Abutting, MemblockInv, MemblockNext
  PROVE  Turned
<1> USE DEF MemblockInv
<1>1. CASE SetUp  BY <1>1, SetUpTurned
<1>2. CASE Analyze  BY <1>2, AnalyzeTurned
<1>3. CASE SetCurrentLimit  BY <1>3, SetCurrentLimitTurned
<1>4. CASE AddOrReserve  BY <1>4, AddOrReserveTurned
<1>5. CASE RemoveOrFree  BY <1>5, RemoveOrFreeTurned
<1>6. CASE AllocBase  BY <1>6, AllocBaseTurned
<1>7. CASE AllocNid  BY <1>7, AllocNidTurned
<1>8. CASE EnforceMemoryLimit  BY <1>8, EnforceMemoryLimitTurned
<1> QED BY <1>1, <1>2, <1>3, <1>4, <1>5, <1>6, <1>7, <1>8 DEF MemblockNext

(* The invariant holds of tables that are not set up.                      *)
LEMMA MemblockInitInv == MemblockInit => MemblockInv
<1> SUFFICES ASSUME MemblockInit PROVE MemblockInv
  OBVIOUS
<1>1. PICK t, m : t = NoTable /\ m = mb
  OBVIOUS
<1>2. /\ m = [memory |-> t, reserved |-> t, limit |-> 0, canResize |-> FALSE]
      /\ slab \in BOOLEAN /\ stuck = "no"
  BY <1>1 DEF MemblockInit
<1>3. t.regions = <<>> /\ t.max = 0 /\ t.array = Static /\ t \in Table
  <2>1. <<>> \in Regions
    BY DEF Regions
  <2>2. Static \in Int
    BY ConstantsAre
  <2> QED BY <1>1, <2>1, <2>2 DEF NoTable, Table
<1>4. /\ m \in Tables /\ m.memory = t /\ m.reserved = t /\ m.limit = 0 /\ m.canResize = FALSE
  BY <1>2, <1>3 DEF Tables
<1>5. Canon(t.regions)
  <2>1. <<>> \in Seq(Row) /\ Len(<<>>) = 0
    OBVIOUS
  <2>2. \A i \in 1 .. Len(<<>>) : FALSE
    BY <2>1
  <2> QED BY <1>3, <2>1, <2>2 DEF Canon
<1>6. Roomy(t)
  BY <1>3 DEF Roomy
<1>7. Sound(m)
  BY <1>4, <1>5, <1>6 DEF Sound, Types
<1>8. \A x \in Nat : ~Owns(m, x)
  <2>1. \A x \in Nat : x # Static
    BY ConstantsAre
  <2> QED BY <1>3, <1>4, <2>1, OwnsEither
<1>9. Kept(m)
  BY <1>3, <1>4, <1>8 DEF Kept, Arrayed, Types
<1>10. Good(m)
  <2>1. m.limit \in 0 .. Anywhere
    BY <1>4, Numbers DEF Anywhere
  <2>2. \A type \in Types : m[type].array = Static
    BY <1>3, <1>4 DEF Types
  <2> QED BY <1>4, <1>7, <1>9, <2>1, <2>2 DEF Good
<1> QED BY <1>1, <1>2, <1>10 DEF MemblockInv, Outcomes

(* The invariant is inductive.                                             *)
LEMMA MemblockStep ==
  ASSUME ~Abutting, MemblockInv, [MemblockNext]_memblockVars
  PROVE  MemblockInv'
<1>1. CASE MemblockNext
  BY <1>1, NextTurned DEF MemblockInv, Turned
<1>2. CASE UNCHANGED memblockVars
  <2>1. mb' = mb /\ slab' = slab /\ stuck' = stuck
    BY <1>2 DEF memblockVars
  <2> QED BY <2>1 DEF MemblockInv
<1> QED BY <1>1, <1>2

(* The inductive invariant has the tables canonical.                       *)
LEMMA TypedFromInv == MemblockInv => TablesTyped
<1> SUFFICES ASSUME MemblockInv PROVE TablesTyped
  OBVIOUS
<1>1. slab \in BOOLEAN /\ stuck \in {"no", "bug", "panic", "loop"}
  BY DEF MemblockInv, Outcomes
<1>2. mb.canResize \in BOOLEAN /\ mb.limit \in 0 .. Anywhere
  BY DEF MemblockInv, Good
<1>3. ASSUME NEW type \in Types
      PROVE  /\ \A i \in 1 .. Len(mb[type].regions) :
                  /\ mb[type].regions[i] \in [base : 0 .. Top - 1, size : 0 .. Top]
                  /\ mb[type].regions[i].base + mb[type].regions[i].size <= Top
             /\ mb[type].max > 0 => Len(mb[type].regions) \in 1 .. mb[type].max - 1
  <2>1. PICK t, q : t = mb[type] /\ q = t.regions
    OBVIOUS
  <2>2. Canon(q) /\ Roomy(t) /\ t.max \in Nat
    BY <2>1 DEF MemblockInv, Good, Sound, Tables, Table, Types
  <2>3. ASSUME NEW i \in 1 .. Len(q)
        PROVE  q[i] \in [base : 0 .. Top - 1, size : 0 .. Top] /\ q[i].base + q[i].size <= Top
    <3>1. PICK r : r = q[i]
      OBVIOUS
    <3>2. PICK b \in Nat : b = r.base
      BY <2>2, <3>1, RowIs
    <3>3. PICK z \in Nat : z = r.size
      BY <2>2, <3>1, RowIs
    <3>4. b + z <= Top /\ r \in Row
      BY <2>2, <3>1, <3>2, <3>3, RowIs
    <3>5. z > 0 \/ q = <<Filler>>
      BY <2>2, <3>1, <3>3 DEF Canon
    <3>6. b < Top
      <4>1. CASE z > 0
        BY <3>4, <4>1, Numbers
      <4>2. CASE q = <<Filler>>
        <5>1. r = Filler
          <6>1. i = 1
            BY <4>2
          <6> QED BY <3>1, <4>2, <6>1
        <5>2. b = 0
          BY <3>2, <5>1 DEF Filler, Region
        <5> QED BY <5>2, Numbers
      <4> QED BY <3>5, <4>1, <4>2
    <3>7. b \in 0 .. Top - 1 /\ z \in 0 .. Top
      BY <3>4, <3>6, Numbers
    <3> QED BY <3>1, <3>2, <3>3, <3>4, <3>7 DEF Row
  <2>4. t.max > 0 => Len(q) \in 1 .. t.max - 1
    <3> SUFFICES ASSUME t.max > 0 PROVE Len(q) \in 1 .. t.max - 1
      OBVIOUS
    <3>1. Len(q) \in Nat
      BY <2>2, LenProperties DEF Canon
    <3>2. t.max # 0
      BY <2>2
    <3>3. Len(q) >= 1 /\ Len(q) < t.max
      BY <2>1, <2>2, <3>2 DEF Roomy
    <3> QED BY <2>2, <3>1, <3>3
  <2> QED BY <2>1, <2>3, <2>4
<1> QED BY <1>1, <1>2, <1>3 DEF TablesTyped

(* Canonical rows, with room for one more, are what TablesCanonical asks   *)
(* for.                                                                    *)
LEMMA CanonicalFromInv == MemblockInv => TablesCanonical
<1> SUFFICES ASSUME MemblockInv PROVE TablesCanonical
  OBVIOUS
<1>1. ASSUME NEW type \in Types, NEW q, q = mb[type].regions
      PROVE  /\ \A i \in 1 .. Len(q) - 1 : End(q[i]) < q[i + 1].base
             /\ \A i \in 1 .. Len(q) : q[i].size = 0 => Len(q) = 1
  <2>1. Canon(q)
    BY <1>1 DEF MemblockInv, Good, Sound
  <2>2. PICK c \in Nat : c = Len(q)
    BY <2>1, LenProperties DEF Canon
  <2>3. ASSUME NEW i \in 1 .. c - 1 PROVE End(q[i]) < q[i + 1].base
    <3>1. i \in 1 .. c /\ i + 1 \in 1 .. c /\ i < i + 1
      BY <2>2
    <3>2. q[i].base + q[i].size < q[i + 1].base
      BY <2>1, <2>2, <3>1 DEF Canon
    <3> QED BY <2>1, <2>2, <3>1, <3>2, RowIs
  <2>4. ASSUME NEW i \in 1 .. c, q[i].size = 0 PROVE c = 1
    <3>1. q = <<Filler>>
      BY <2>1, <2>2, <2>4 DEF Canon
    <3> QED BY <2>2, <3>1
  <2> QED BY <2>2, <2>3, <2>4
<1> QED BY <1>1, TypedFromInv DEF TablesCanonical

(* Both tables stay in their canonical form.                               *)
THEOREM MemblockTablesStayCanonical ==
  ASSUME ~Abutting
  PROVE  MemblockSpec => []TablesCanonical
<1>1. MemblockInit => MemblockInv
  BY MemblockInitInv
<1>2. MemblockInv /\ [MemblockNext]_memblockVars => MemblockInv'
  BY MemblockStep
<1>3. MemblockInv => TablesCanonical
  BY CanonicalFromInv
<1> QED BY <1>1, <1>2, <1>3, PTL DEF MemblockSpec

(* The addresses of a table, as a set.                                     *)
LEMMA CoveredIs ==
  ASSUME NEW q, Canon(q)
  PROVE  \A x : x \in Covered(q) <=> (x \in Nat /\ Covers(q, x))
<1> SUFFICES ASSUME NEW x PROVE x \in Covered(q) <=> (x \in Nat /\ Covers(q, x))
  OBVIOUS
<1>1. x \in Covered(q) <=> \E i \in 1 .. Len(q) : x \in q[i].base .. q[i].base + q[i].size - 1
  BY DEF Covered
<1>2. ASSUME NEW i \in 1 .. Len(q)
      PROVE  x \in q[i].base .. q[i].base + q[i].size - 1 <=> (x \in Nat /\ Within(q[i], x))
  <2>1. PICK b \in Nat : b = q[i].base
    BY RowIs
  <2>2. PICK z \in Nat : z = q[i].size
    BY RowIs
  <2>3. x \in b .. b + z - 1 <=> (x \in Nat /\ b <= x /\ x < b + z)
    OBVIOUS
  <2> QED BY <2>1, <2>2, <2>3 DEF Within
<1> QED BY <1>1, <1>2 DEF Covers

(* The places memblock_find_base may answer with are its spots.            *)
LEMMA PlacesAreSpots ==
  ASSUME NEW m, Canon(m.memory.regions), Canon(m.reserved.regions),
         NEW n \in Nat, n >= 1, NEW align, NEW bound \in Nat, NEW b \in Nat
  PROVE  (/\ b \in Pages \ {0} /\ b % align = 0 /\ b + n <= bound
          /\ b .. b + n - 1 \subseteq Covered(m.memory.regions) \ Covered(m.reserved.regions))
         <=> Spot(m, bound, n, align, b)
<1>1. b .. b + n - 1 \subseteq Covered(m.memory.regions) \ Covered(m.reserved.regions)
      <=> \A x \in Nat : b <= x /\ x < b + n =>
             Covers(m.memory.regions, x) /\ ~Covers(m.reserved.regions, x)
  <2>1. \A x \in Nat : x \in b .. b + n - 1 <=> (b <= x /\ x < b + n)
    OBVIOUS
  <2>2. \A x \in b .. b + n - 1 : x \in Nat
    OBVIOUS
  <2>3. b .. b + n - 1 \subseteq Covered(m.memory.regions) \ Covered(m.reserved.regions)
        <=> \A x \in b .. b + n - 1 :
               x \in Covered(m.memory.regions) /\ x \notin Covered(m.reserved.regions)
    OBVIOUS
  <2>4. \A x : x \in Covered(m.memory.regions) <=> (x \in Nat /\ Covers(m.memory.regions, x))
    BY CoveredIs
  <2>5. \A x : x \in Covered(m.reserved.regions) <=> (x \in Nat /\ Covers(m.reserved.regions, x))
    BY CoveredIs
  <2> QED BY <2>1, <2>2, <2>3, <2>4, <2>5
<1>2. ASSUME \A x \in Nat : b <= x /\ x < b + n =>
                Covers(m.memory.regions, x) /\ ~Covers(m.reserved.regions, x)
      PROVE  b < Top
  <2>1. b <= b /\ b < b + n
    OBVIOUS
  <2>2. Covers(m.memory.regions, b)
    BY <1>2, <2>1
  <2> QED BY <2>2, CoveredBelow
<1>3. b < Top => (b \in Pages \ {0} <=> b >= 1)
  BY Numbers DEF Pages
<1>4. b \in Pages \ {0} => b >= 1
  BY Numbers DEF Pages
<1> QED BY <1>1, <1>2, <1>3, <1>4 DEF Spot

(* A member that none exceeds is the maximum.                              *)
LEMMA GreatestOf ==
  ASSUME NEW S \in SUBSET Nat, NEW n \in S, \A k \in S : k <= n
  PROVE  Max(S) = n
<1>1. n \in Nat /\ S # {}
  OBVIOUS
<1>2. Max(S) \in S /\ \A k \in S : k <= Max(S)
  BY <1>1, GreatestNat
<1>3. PICK M \in Nat : M = Max(S)
  BY <1>2
<1>4. M <= n /\ n <= M
  BY <1>2, <1>3
<1>5. M = n
  BY <1>1, <1>4
<1> QED BY <1>3, <1>5

(* The maximum of the spots is what memblock_find_base finds.              *)
LEMMA FindsTheTop ==
  ASSUME NEW m \in Tables, Canon(m.memory.regions), Canon(m.reserved.regions),
         NEW n \in Nat, n >= 1, NEW align \in Aligns, NEW end \in Nat,
         NEW bound, bound = IF end = 0 THEN m.limit ELSE end,
         NEW places \in SUBSET Nat,
         \A b \in Nat : b \in places <=> Spot(m, bound, n, align, b)
  PROVE  FindBase(m, n, align, 0, end) = IF places = {} THEN 0 ELSE Max(places)
<1>1. PICK F : F = FindBase(m, n, align, 0, end)
  OBVIOUS
<1>2. /\ FindBase(m, n, align, 0, end) \in Nat
      /\ FindBase(m, n, align, 0, end) # 0 =>
           Spot(m, bound, n, align, FindBase(m, n, align, 0, end))
      /\ \A b \in Nat : Spot(m, bound, n, align, b) => b <= FindBase(m, n, align, 0, end)
  BY FindBaseIs
<1>3. /\ F \in Nat
      /\ F # 0 => Spot(m, bound, n, align, F)
      /\ \A b \in Nat : Spot(m, bound, n, align, b) => b <= F
  BY <1>1, <1>2
<1>4. \A b \in places : b <= F
  BY <1>3
<1>5. CASE F = 0
  <2>1. ASSUME NEW b \in places PROVE FALSE
    <3>1. b \in Nat /\ Spot(m, bound, n, align, b)
      BY <2>1
    <3>2. b <= 0 /\ b >= 1
      BY <1>3, <1>5, <3>1 DEF Spot
    <3> QED BY <3>1, <3>2
  <2> QED BY <1>1, <1>5, <2>1
<1>6. CASE F # 0
  <2>1. F \in places
    BY <1>3, <1>6
  <2>2. Max(places) = F
    BY <1>4, <2>1, GreatestOf
  <2> QED BY <1>1, <2>1, <2>2
<1> QED BY <1>5, <1>6

Places(m, bound, n, align) ==
  {b \in Pages \ {0} :
     /\ b % align = 0 /\ b + n <= bound
     /\ b .. b + n - 1 \subseteq Covered(m.memory.regions) \ Covered(m.reserved.regions)}

(* memblock_find_base is exact in tables that are good.                    *)
LEMMA TopDownFromInv == MemblockInv => FindIsTopDown
<1> SUFFICES ASSUME MemblockInv PROVE FindIsTopDown
  OBVIOUS
<1>1. /\ mb \in Tables /\ Canon(mb.memory.regions) /\ Canon(mb.reserved.regions)
      /\ mb.limit \in Nat
  BY DEF MemblockInv, Good, Sound, Types, Tables
<1>2. ASSUME NEW n \in 1 .. 3, NEW align \in Aligns, NEW end \in {Accessible, Top - 1},
             NEW bound, bound = IF end = Accessible THEN mb.limit ELSE end,
             NEW places, places = Places(mb, bound, n, align)
      PROVE  FindBase(mb, n, align, 0, end) = IF places = {} THEN Error ELSE Max(places)
  <2>1. n \in Nat /\ n >= 1
    OBVIOUS
  <2>2. end \in Nat
    BY Numbers DEF Accessible
  <2>3. bound = IF end = 0 THEN mb.limit ELSE end
    BY <1>2 DEF Accessible
  <2>4. bound \in Nat
    BY <1>1, <2>2, <2>3
  <2>6. places \in SUBSET Nat
    BY <1>2, Numbers DEF Places, Pages
  <2>7. ASSUME NEW b \in Nat PROVE b \in places <=> Spot(mb, bound, n, align, b)
    <3>1. (/\ b \in Pages \ {0} /\ b % align = 0 /\ b + n <= bound
           /\ b .. b + n - 1 \subseteq Covered(mb.memory.regions) \ Covered(mb.reserved.regions))
          <=> Spot(mb, bound, n, align, b)
      BY <1>1, <2>1, <2>4, PlacesAreSpots
    <3>2. b \in places
          <=> (/\ b \in Pages \ {0} /\ b % align = 0 /\ b + n <= bound
               /\ b .. b + n - 1 \subseteq Covered(mb.memory.regions) \ Covered(mb.reserved.regions))
      BY <1>2 DEF Places
    <3> QED BY <3>1, <3>2
  <2>8. FindBase(mb, n, align, 0, end) = IF places = {} THEN 0 ELSE Max(places)
    BY <1>1, <2>1, <2>2, <2>3, <2>6, <2>7, FindsTheTop
  <2> QED BY <2>8 DEF Error
<1>3. ASSUME NEW n \in 1 .. 3, NEW align \in Aligns, NEW end \in {Accessible, Top - 1}
      PROVE  LET bound == IF end = Accessible THEN mb.limit ELSE end IN
             FindBase(mb, n, align, 0, end) =
               IF Places(mb, bound, n, align) = {} THEN Error ELSE Max(Places(mb, bound, n, align))
  BY <1>2
<1> QED BY <1>3, Zenon DEF FindIsTopDown, Places

(* No aligned number lies between a number and what it is aligned up to.   *)
LEMMA AlignUpLeast ==
  ASSUME NEW a \in Nat, NEW align \in Aligns, NEW b \in Nat, b >= a, b % align = 0
  PROVE  b >= AlignUp(a, align)
<1>1. align \in Nat /\ align >= 1 /\ (align = 1 \/ align = 2)
  BY DEF Aligns
<1>2. CASE align = 1
  <2>1. AlignUp(a, align) = (a + 1 - 1) - ((a + 1 - 1) % 1)
    BY <1>2 DEF AlignUp, AlignDown
  <2>2. (a + 1 - 1) % 1 = 0
    OBVIOUS
  <2> QED BY <2>1, <2>2
<1>3. CASE align = 2
  <2>1. AlignUp(a, align) = (a + 2 - 1) - ((a + 2 - 1) % 2)
    BY <1>3 DEF AlignUp, AlignDown
  <2>2. b % 2 = 0
    BY <1>3
  <2>3. b = a => (a + 2 - 1) % 2 = 1
    BY <2>2
  <2>4. (a + 2 - 1) % 2 \in 0 .. 1
    OBVIOUS
  <2> QED BY <2>1, <2>3, <2>4
<1> QED BY <1>1, <1>2, <1>3

(* The places of a region where memblock_find_region may put a range.      *)
RegionFree(q, r) == (r.base .. End(r) - 1) \ Covered(q)
RegionPlaces(q, r, n, align) ==
  {b \in RegionFree(q, r) \ {0} : b % align = 0 /\ b .. b + n - 1 \subseteq RegionFree(q, r)}

(* They are those it looks for from the aligned start of the region.       *)
LEMMA RegionPlacesAre ==
  ASSUME NEW q, Canon(q), NEW r \in Row, NEW e \in Nat, End(r) = e,
         NEW n \in Nat, n >= 1, NEW align \in Aligns,
         NEW low, low = IF AlignUp(r.base, align) = 0 THEN 1 ELSE AlignUp(r.base, align),
         NEW b \in Nat
  PROVE  b \in RegionPlaces(q, r, n, align) <=> Place(q, low, e, n, align, b)
<1>1. PICK a \in Nat : a = r.base
  BY DEF Row
<1>2. PICK s \in Nat : s = AlignUp(a, align) /\ s >= a
  BY AlignUpIs
<1>3. low = IF s = 0 THEN 1 ELSE s
  BY <1>1, <1>2
<1>4. \A x : x \in RegionFree(q, r) <=> (x \in Nat /\ a <= x /\ x < e /\ ~Covers(q, x))
  <2>1. \A x : x \in r.base .. End(r) - 1 <=> (x \in Nat /\ a <= x /\ x < e)
    BY <1>1
  <2>2. \A x : x \in Covered(q) <=> (x \in Nat /\ Covers(q, x))
    BY CoveredIs
  <2> QED BY <2>1, <2>2 DEF RegionFree
<1>5. ASSUME b \in RegionPlaces(q, r, n, align) PROVE Place(q, low, e, n, align, b)
  <2>1. b \in RegionFree(q, r) /\ b # 0 /\ b % align = 0
    BY <1>5 DEF RegionPlaces
  <2>2. \A x \in b .. b + n - 1 : x \in RegionFree(q, r)
    BY <1>5 DEF RegionPlaces
  <2>3. a <= b
    BY <1>4, <2>1
  <2>4. s <= b
    BY <1>2, <2>1, <2>3, AlignUpLeast
  <2>5. low <= b
    BY <1>3, <2>1, <2>4
  <2>6. b + n <= e
    <3>1. PICK y \in Nat : y = b + n - 1
      OBVIOUS
    <3>2. y \in b .. b + n - 1
      BY <3>1
    <3>3. y < e
      BY <1>4, <2>2, <3>2
    <3> QED BY <3>1, <3>3
  <2>7. Clear(q, b, b + n)
    <3> SUFFICES ASSUME NEW x \in Nat, b <= x, x < b + n PROVE ~Covers(q, x)
      BY DEF Clear
    <3>1. x \in b .. b + n - 1
      OBVIOUS
    <3> QED BY <1>4, <2>2, <3>1
  <2> QED BY <2>1, <2>5, <2>6, <2>7 DEF Place
<1>6. ASSUME Place(q, low, e, n, align, b) PROVE b \in RegionPlaces(q, r, n, align)
  <2>1. b % align = 0 /\ low <= b /\ b + n <= e
    BY <1>6 DEF Place
  <2>2. a <= b /\ b # 0
    BY <1>2, <1>3, <2>1
  <2>3. ASSUME NEW x \in b .. b + n - 1 PROVE x \in RegionFree(q, r)
    <3>1. x \in Nat /\ b <= x /\ x < b + n
      OBVIOUS
    <3>2. ~Covers(q, x)
      BY <1>6, <3>1 DEF Place, Clear
    <3>3. a <= x /\ x < e
      BY <2>1, <2>2, <3>1
    <3> QED BY <1>4, <3>1, <3>2, <3>3
  <2>4. b \in b .. b + n - 1
    OBVIOUS
  <2> QED BY <2>1, <2>2, <2>3, <2>4 DEF RegionPlaces
<1> QED BY <1>5, <1>6

(* memblock_find_region is exact in every region of the memory.            *)
LEMMA FindsInRegionFromInv == MemblockInv => FindsInRegion
<1> SUFFICES ASSUME MemblockInv PROVE FindsInRegion
  OBVIOUS
<1>1. PICK p, q : p = mb.memory.regions /\ q = mb.reserved.regions
  OBVIOUS
<1>2. Canon(p) /\ Canon(q)
  BY <1>1 DEF MemblockInv, Good, Sound, Types
<1>3. ASSUME NEW i \in 1 .. Len(p), NEW n \in 1 .. 3, NEW align \in Aligns
      PROVE  FindRegion(q, AlignUp(p[i].base, align), End(p[i]), n, align)
               = IF RegionPlaces(q, p[i], n, align) = {} THEN 0
                 ELSE Max(RegionPlaces(q, p[i], n, align))
  <2>1. p[i] \in Row /\ p[i].base \in Nat /\ End(p[i]) \in Nat
    BY <1>2, RowIs
  <2>2. PICK e \in Nat : e = End(p[i])
    BY <2>1
  <2>3. PICK start \in Nat : start = AlignUp(p[i].base, align)
    BY <2>1, AlignUpIs
  <2>4. PICK low : low = IF start = 0 THEN 1 ELSE start
    OBVIOUS
  <2>5. n \in Nat /\ n >= 1
    OBVIOUS
  <2>6. PICK places : places = RegionPlaces(q, p[i], n, align)
    OBVIOUS
  <2>7. \A b \in Nat : b \in places <=> Place(q, low, e, n, align, b)
    <3> SUFFICES ASSUME NEW b \in Nat PROVE b \in places <=> Place(q, low, e, n, align, b)
      OBVIOUS
    <3>1. low = IF AlignUp(p[i].base, align) = 0 THEN 1 ELSE AlignUp(p[i].base, align)
      BY <2>3, <2>4
    <3>2. b \in RegionPlaces(q, p[i], n, align) <=> Place(q, low, e, n, align, b)
      BY <1>2, <2>1, <2>2, <2>5, <3>1, RegionPlacesAre
    <3> QED BY <2>6, <3>2
  <2>8. places \in SUBSET Nat
    <3>1. p[i].base .. End(p[i]) - 1 \subseteq Nat
      BY <2>1
    <3> QED BY <2>6, <3>1 DEF RegionPlaces, RegionFree
  <2>9. PICK F : F = FindRegion(q, start, e, n, align)
    OBVIOUS
  <2>10. /\ FindRegion(q, start, e, n, align) \in Nat
         /\ FindRegion(q, start, e, n, align) # 0 =>
              Place(q, low, e, n, align, FindRegion(q, start, e, n, align))
         /\ \A b \in Nat : Place(q, low, e, n, align, b)
                              => b <= FindRegion(q, start, e, n, align)
    BY <1>2, <2>4, <2>5, FindRegionIs
  <2>11. /\ F \in Nat /\ (F # 0 => F \in places)
         /\ \A b \in places : b <= F /\ b # 0
    <3>1. F \in Nat /\ (F # 0 => Place(q, low, e, n, align, F))
      BY <2>9, <2>10
    <3>2. ASSUME NEW b \in places PROVE b <= F /\ b # 0
      <4>1. b \in Nat /\ Place(q, low, e, n, align, b)
        BY <2>7, <2>8
      <4>2. b <= F
        BY <2>9, <2>10, <4>1
      <4>3. b # 0
        BY <2>6 DEF RegionPlaces
      <4> QED BY <4>2, <4>3
    <3>3. F # 0 => F \in places
      BY <2>7, <3>1
    <3> QED BY <3>1, <3>2, <3>3
  <2>12. F = IF places = {} THEN 0 ELSE Max(places)
    <3>1. CASE F = 0
      <4>1. ASSUME NEW b \in places PROVE FALSE
        <5>1. b \in Nat /\ b <= 0 /\ b # 0
          BY <2>8, <2>11, <3>1
        <5> QED BY <5>1
      <4> QED BY <3>1, <4>1
    <3>2. CASE F # 0
      <4>1. F \in places /\ \A b \in places : b <= F
        BY <2>11, <3>2
      <4>2. Max(places) = F
        BY <2>8, <4>1, GreatestOf
      <4> QED BY <4>1, <4>2
    <3> QED BY <3>1, <3>2
  <2> QED BY <2>2, <2>3, <2>6, <2>9, <2>12
<1>4. ASSUME NEW i \in 1 .. Len(mb.memory.regions), NEW n \in 1 .. 3, NEW align \in Aligns
      PROVE  FindRegion(mb.reserved.regions, AlignUp(mb.memory.regions[i].base, align),
                        End(mb.memory.regions[i]), n, align)
               = IF RegionPlaces(mb.reserved.regions, mb.memory.regions[i], n, align) = {} THEN Error
                 ELSE Max(RegionPlaces(mb.reserved.regions, mb.memory.regions[i], n, align))
  <2>1. i \in 1 .. Len(p)
    BY <1>1
  <2>2. FindRegion(q, AlignUp(p[i].base, align), End(p[i]), n, align)
               = IF RegionPlaces(q, p[i], n, align) = {} THEN 0
                 ELSE Max(RegionPlaces(q, p[i], n, align))
    BY <1>3, <2>1
  <2> QED BY <1>1, <2>2, Zenon DEF Error
<1> QED BY <1>4, Zenon DEF FindsInRegion, RegionPlaces, RegionFree

-----------------------------------------------------------------------------
(* memblock_search: the row that holds the address stays in between, and   *)
(* there is less and less in between.                                      *)
Held(q, a, left, right) == \A j \in 1 .. Len(q) : Within(q[j], a) => left < j /\ j <= right

Halving(q, a, k) ==
  {h \in Halves : /\ h.left <= h.right /\ h.right <= Len(q)
                  /\ Held(q, a, h.left, h.right)
                  /\ h.left < h.right /\ ~Within(q[Mid(h) + 1], a) => h.right - h.left + k <= Len(q)}

(* An address within a row, as memblock_search asks for it.                *)
LEMMA HoldsIs ==
  ASSUME NEW q, Canon(q), NEW i \in 1 .. Len(q), NEW a \in Nat
  PROVE  Holds(q[i], a) <=> Within(q[i], a)
BY RowIs DEF Holds, Within

(* One halving: the row that holds the address stays in between.           *)
LEMMA NarrowTurn ==
  ASSUME NEW q, Canon(q), NEW a \in Nat, NEW k \in Nat, NEW h \in Halving(q, a, k)
  PROVE  Narrow(q, a)[h] \in Halving(q, a, k + 1)
<1>1. PICK n \in Nat : n = Len(q)
  BY LenProperties DEF Canon
<1>2. PICK l \in Nat : l = h.left
  BY DEF Halving, Halves
<1>3. PICK r \in Nat : r = h.right
  BY DEF Halving, Halves
<1>4. PICK m : m = Mid(h)
  OBVIOUS
<1>5. /\ h \in Halves /\ l <= r /\ r <= n /\ Held(q, a, l, r)
      /\ l < r /\ ~Within(q[m + 1], a) => r - l + k <= n
  BY <1>1, <1>2, <1>3, <1>4 DEF Halving
<1>6. PICK t : t = Narrow(q, a)[h]
  OBVIOUS
<1>7. t = IF l >= r \/ Holds(q[m + 1], a) THEN h
          ELSE IF a < q[m + 1].base THEN [h EXCEPT !.right = m]
          ELSE [h EXCEPT !.left = m + 1]
  BY <1>2, <1>3, <1>4, <1>5, <1>6 DEF Narrow
<1>8. CASE l >= r
  <2>1. t = h
    BY <1>7, <1>8
  <2>2. ~(l < r)
    BY <1>8
  <2> QED BY <1>1, <1>2, <1>3, <1>4, <1>5, <1>6, <2>1, <2>2 DEF Halving
<1>9. CASE l < r
  <2>1. m \in Nat /\ l <= m /\ m < r
    <3>1. m = (l + r) \div 2
      BY <1>2, <1>3, <1>4 DEF Mid
    <3> QED BY <1>9, <3>1
  <2>2. PICK i : i = m + 1
    OBVIOUS
  <2>3. i \in 1 .. Len(q) /\ i \in Nat /\ l < i /\ i <= r
    BY <1>1, <1>5, <2>1, <2>2
  <2>4. Holds(q[i], a) <=> Within(q[i], a)
    BY <2>3, HoldsIs
  <2>5. CASE Within(q[i], a)
    <3>1. t = h
      BY <1>7, <2>2, <2>4, <2>5
    <3> QED BY <1>1, <1>2, <1>3, <1>4, <1>5, <1>6, <2>2, <2>5, <3>1 DEF Halving
  <2>6. CASE ~Within(q[i], a) /\ a < q[i].base
    <3>1. t = [h EXCEPT !.right = m]
      BY <1>7, <1>9, <2>2, <2>4, <2>6
    <3>2. t \in Halves /\ t.left = l /\ t.right = m
      BY <1>2, <1>5, <2>1, <3>1 DEF Halves
    <3>3. Held(q, a, l, m)
      <4> SUFFICES ASSUME NEW j \in 1 .. Len(q), Within(q[j], a) PROVE l < j /\ j <= m
        BY DEF Held
      <4>1. l < j
        BY <1>5 DEF Held
      <4>2. j \in Nat /\ q[j].base \in Nat /\ q[j].size \in Nat /\ q[j].base <= a
        BY RowIs DEF Within
      <4>3. q[i].base \in Nat /\ q[i].size \in Nat
        BY <2>3, RowIs
      <4>4. j # i
        BY <2>6
      <4>5. ~(i < j)
        <5> SUFFICES ASSUME i < j PROVE FALSE
          OBVIOUS
        <5>1. q[i].base + q[i].size < q[j].base
          BY <2>3, RowsApart
        <5> QED BY <2>6, <4>2, <4>3, <5>1
      <4>6. j <= m
        BY <2>1, <2>2, <4>2, <4>4, <4>5
      <4> QED BY <4>1, <4>6
    <3>4. m - l + (k + 1) <= n /\ l <= m /\ m <= n
      BY <1>5, <1>9, <2>1, <2>2, <2>6
    <3> QED BY <1>1, <1>6, <3>2, <3>3, <3>4 DEF Halving
  <2>7. CASE ~Within(q[i], a) /\ ~(a < q[i].base)
    <3>1. t = [h EXCEPT !.left = i]
      BY <1>7, <1>9, <2>2, <2>4, <2>7
    <3>2. t \in Halves /\ t.left = i /\ t.right = r
      BY <1>3, <1>5, <2>3, <3>1 DEF Halves
    <3>3. Held(q, a, i, r)
      <4> SUFFICES ASSUME NEW j \in 1 .. Len(q), Within(q[j], a) PROVE i < j /\ j <= r
        BY DEF Held
      <4>1. j <= r
        BY <1>5 DEF Held
      <4>2. j \in Nat /\ q[j].base \in Nat /\ q[j].size \in Nat /\ a < q[j].base + q[j].size
        BY RowIs DEF Within
      <4>3. q[i].base \in Nat /\ q[i].size \in Nat
        BY <2>3, RowIs
      <4>4. j # i
        BY <2>7
      <4>5. q[i].base + q[i].size <= a
        BY <2>7, <4>3 DEF Within
      <4>6. ~(j < i)
        <5> SUFFICES ASSUME j < i PROVE FALSE
          OBVIOUS
        <5>1. q[j].base + q[j].size < q[i].base
          BY <2>3, RowsApart
        <5>2. PICK u, v, w \in Nat : u = q[j].base + q[j].size /\ v = q[i].base /\ w = q[i].size
          BY <4>2, <4>3
        <5>3. a < u /\ v + w <= a /\ u < v
          BY <4>2, <4>5, <5>1, <5>2
        <5>4. v <= a
          BY ONLY <5>3, v \in Nat, w \in Nat, a \in Nat
        <5> QED BY ONLY <5>3, <5>4, u \in Nat, v \in Nat, a \in Nat
      <4> QED BY <2>3, <4>1, <4>2, <4>4, <4>6
    <3>4. r - i + (k + 1) <= n /\ i <= r
      BY <1>5, <1>9, <2>1, <2>2, <2>3, <2>7
    <3> QED BY <1>1, <1>5, <1>6, <3>2, <3>3, <3>4 DEF Halving
  <2> QED BY <2>5, <2>6, <2>7
<1> QED BY <1>8, <1>9

(* memblock_search finds the row that holds the address, if one does.      *)
LEMMA SearchIs ==
  ASSUME NEW q, Canon(q), NEW a \in Nat, NEW i, i = Search(q, a, Len(q))
  PROVE  \/ i = 0 /\ ~Covers(q, a)
         \/ i \in 1 .. Len(q) /\ Within(q[i], a)
<1>1. PICK n \in Nat : n = Len(q)
  BY LenProperties DEF Canon
<1>2. PICK h0 : h0 = [left |-> 0, right |-> n]
  OBVIOUS
<1>3. PICK h : h = Iterate(Narrow(q, a), h0, n)
  OBVIOUS
<1> DEFINE G == [k \in 0 .. n |-> Halving(q, a, k)]
<1>4. h0 \in Halving(q, a, 0)
  <2>1. h0 \in Halves /\ h0.left = 0 /\ h0.right = n
    BY <1>2 DEF Halves
  <2>2. Held(q, a, 0, n)
    BY <1>1 DEF Held
  <2>3. n - 0 + 0 <= n /\ 0 <= n
    OBVIOUS
  <2> QED BY <1>1, <2>1, <2>2, <2>3 DEF Halving
<1>5. ASSUME NEW k \in 0 .. n - 1, NEW x \in G[k] PROVE Narrow(q, a)[x] \in G[k + 1]
  <2>1. k \in 0 .. n /\ k + 1 \in 0 .. n /\ k \in Nat
    OBVIOUS
  <2>2. x \in Halving(q, a, k)
    BY <2>1
  <2>3. Narrow(q, a)[x] \in Halving(q, a, k + 1)
    BY <2>1, <2>2, NarrowTurn
  <2> QED BY <2>1, <2>3
<1>6. h0 \in G[0] /\ G[n] = Halving(q, a, n)
  BY <1>4
<1> HIDE DEF G
<1>7. h \in Halving(q, a, n)
  BY <1>3, <1>5, <1>6, IterateKeeps
<1>8. PICK l \in Nat : l = h.left
  BY <1>7 DEF Halving, Halves
<1>9. PICK r \in Nat : r = h.right
  BY <1>7 DEF Halving, Halves
<1>10. PICK m : m = Mid(h)
  OBVIOUS
<1>11. /\ l <= r /\ r <= n /\ Held(q, a, l, r)
       /\ l < r /\ ~Within(q[m + 1], a) => r - l + n <= n
  BY <1>1, <1>7, <1>8, <1>9, <1>10 DEF Halving
<1>12. i = IF l < r THEN m + 1 ELSE 0
  BY <1>1, <1>2, <1>3, <1>8, <1>9, <1>10 DEF Search
<1>13. CASE l < r
  <2>1. m = (l + r) \div 2
    BY <1>8, <1>9, <1>10 DEF Mid
  <2>2. m \in Nat /\ m < r
    BY <1>13, <2>1
  <2>3. i = m + 1 /\ i \in 1 .. n
    BY <1>11, <1>12, <1>13, <2>2
  <2>4. ~(r - l + n <= n)
    BY <1>13
  <2>5. Within(q[i], a)
    BY <1>11, <1>13, <2>3, <2>4
  <2> QED BY <1>1, <2>3, <2>5
<1>14. CASE ~(l < r)
  <2>1. i = 0
    BY <1>12, <1>14
  <2>2. ASSUME NEW j \in 1 .. Len(q), Within(q[j], a) PROVE FALSE
    <3>1. l < j /\ j <= r /\ j \in Nat
      BY <1>11, <2>2 DEF Held
    <3> QED BY <1>14, <3>1
  <2> QED BY <2>1, <2>2 DEF Covers
<1> QED BY <1>13, <1>14

(* memblock_is_memory and memblock_is_reserved are exact.                  *)
LEMMA IsInIs ==
  ASSUME NEW q, Canon(q), NEW a \in Nat
  PROVE  IsIn(q, a) <=> a \in Covered(q)
<1>1. PICK i : i = Search(q, a, Len(q))
  OBVIOUS
<1>2. \/ i = 0 /\ ~Covers(q, a)
      \/ i \in 1 .. Len(q) /\ Within(q[i], a)
  BY <1>1, SearchIs
<1>3. i # 0 <=> Covers(q, a)
  <2>1. CASE i = 0 /\ ~Covers(q, a)
    BY <2>1
  <2>2. CASE i \in 1 .. Len(q) /\ Within(q[i], a)
    <3>1. i # 0
      BY <2>2
    <3>2. Covers(q, a)
      BY <2>2 DEF Covers
    <3> QED BY <3>1, <3>2
  <2> QED BY <1>2, <2>1, <2>2
<1>4. IsIn(q, a) <=> i # 0
  BY <1>1 DEF IsIn
<1> QED BY <1>3, <1>4, CoveredIs

(* memblock_is_region_memory is exact: a range that is covered lies in one *)
(* row.                                                                    *)
LEMMA IsRegionMemoryIs ==
  ASSUME NEW q, Canon(q), NEW b \in Nat, NEW z \in Nat, z >= 1
  PROVE  IsRegionMemory(q, b, z) <=> b .. b + z - 1 \subseteq Covered(q)
<1>1. PICK i : i = Search(q, b, Len(q))
  OBVIOUS
<1>2. \/ i = 0 /\ ~Covers(q, b)
      \/ i \in 1 .. Len(q) /\ Within(q[i], b)
  BY <1>1, SearchIs
<1>3. IsRegionMemory(q, b, z) <=> (i # 0 /\ q[i].base <= b /\ End(q[i]) >= b + z)
  BY <1>1 DEF IsRegionMemory
<1>4. b .. b + z - 1 \subseteq Covered(q) <=> \A x \in Nat : b <= x /\ x < b + z => Covers(q, x)
  <2>1. \A x \in Nat : x \in b .. b + z - 1 <=> (b <= x /\ x < b + z)
    OBVIOUS
  <2>2. \A x \in b .. b + z - 1 : x \in Nat
    OBVIOUS
  <2> QED BY <2>1, <2>2, CoveredIs
<1>5. CASE i = 0 /\ ~Covers(q, b)
  <2>1. ~IsRegionMemory(q, b, z)
    BY <1>3, <1>5
  <2>2. b <= b /\ b < b + z
    OBVIOUS
  <2> QED BY <1>4, <1>5, <2>1, <2>2
<1>6. CASE i \in 1 .. Len(q) /\ Within(q[i], b)
  <2>1. PICK c \in Nat : c = q[i].base
    BY <1>6, RowIs
  <2>2. PICK s \in Nat : s = q[i].size
    BY <1>6, RowIs
  <2>3. End(q[i]) = c + s
    BY <1>6, <2>1, <2>2, RowIs
  <2>4. i # 0 /\ c <= b /\ b < c + s /\ i \in Nat
    BY <1>6, <2>1, <2>2 DEF Within
  <2>5. IsRegionMemory(q, b, z) <=> b + z <= c + s
    BY <1>3, <2>1, <2>3, <2>4
  <2>6. ASSUME b + z <= c + s PROVE \A x \in Nat : b <= x /\ x < b + z => Covers(q, x)
    <3> SUFFICES ASSUME NEW x \in Nat, b <= x, x < b + z PROVE Covers(q, x)
      OBVIOUS
    <3>1. c <= x /\ x < c + s
      BY <2>4, <2>6
    <3> QED BY <1>6, <2>1, <2>2, <3>1 DEF Covers, Within
  <2>7. ASSUME \A x \in Nat : b <= x /\ x < b + z => Covers(q, x) PROVE b + z <= c + s
    <3>1. b < b + z /\ b + z \in Nat
      OBVIOUS
    <3>2. PICK e \in Nat : e = b + z
      BY <3>1
    <3>3. \A x \in Nat : b <= x /\ x < e => Covers(q, x)
      BY <2>7, <3>2
    <3>4. PICK j \in 1 .. Len(q) : q[j].base <= b /\ e <= q[j].base + q[j].size /\ q[j].size > 0
      BY <3>1, <3>2, <3>3, InOneRow
    <3>5. q[j].base \in Nat /\ q[j].size \in Nat /\ j \in Nat
      BY RowIs
    <3>6. ~(i < j)
      <4> SUFFICES ASSUME i < j PROVE FALSE
        OBVIOUS
      <4>1. q[i].base + q[i].size < q[j].base
        BY <1>6, RowsApart
      <4>2. PICK u \in Nat : u = c + s
        OBVIOUS
      <4>3. PICK v \in Nat : v = q[j].base
        BY <3>5
      <4>4. b < u /\ v <= b
        BY <2>4, <3>4, <4>2, <4>3
      <4>5. u < v
        BY <2>1, <2>2, <4>1, <4>2, <4>3
      <4> QED BY ONLY <4>4, <4>5, u \in Nat, v \in Nat, b \in Nat
    <3>7. ~(j < i)
      <4> SUFFICES ASSUME j < i PROVE FALSE
        OBVIOUS
      <4>1. q[j].base + q[j].size < q[i].base
        BY <1>6, RowsApart
      <4>2. PICK u \in Nat : u = q[j].base + q[j].size
        BY <3>5
      <4>3. e <= u /\ u < c
        BY <2>1, <3>4, <4>1, <4>2
      <4>4. b < e
        BY <3>1, <3>2
      <4> QED BY ONLY <2>4, <4>3, <4>4, e \in Nat, u \in Nat, c \in Nat, b \in Nat
    <3>8. j = i
      BY <2>4, <3>5, <3>6, <3>7
    <3> QED BY <2>1, <2>2, <3>2, <3>4, <3>8
  <2> QED BY <1>4, <2>5, <2>6, <2>7
<1> QED BY <1>2, <1>5, <1>6

(* All three answers, and memblock_find_base's, are exact in tables that   *)
(* are good.                                                               *)
LEMMA SearchExactFromInv == MemblockInv => SearchExact
<1> SUFFICES ASSUME MemblockInv PROVE SearchExact
  OBVIOUS
<1>1. \A type \in Types : Canon(mb[type].regions)
  BY DEF MemblockInv, Good, Sound
<1>2. ASSUME NEW type \in Types, NEW a \in Pages
      PROVE  IsIn(mb[type].regions, a) <=> a \in Covered(mb[type].regions)
  <2>1. a \in Nat
    BY Numbers DEF Pages
  <2> QED BY <1>1, <2>1, IsInIs
<1>3. ASSUME NEW r \in Ranges
      PROVE  IsRegionMemory(mb.memory.regions, r[1], r[2])
                <=> r[1] .. r[1] + r[2] - 1 \subseteq Covered(mb.memory.regions)
  <2>1. r[1] \in Nat /\ r[2] \in Nat /\ r[2] >= 1
    BY <1>3, Numbers DEF Ranges, Pages
  <2>2. Canon(mb.memory.regions)
    BY <1>1 DEF Types
  <2> QED BY <2>1, <2>2, IsRegionMemoryIs
<1> QED BY <1>2, <1>3, TopDownFromInv, FindsInRegionFromInv DEF SearchExact

(* Binary search and the top-down search of memblock.c answer exactly,     *)
(* always (SearchExact).                                                   *)
THEOREM MemblockSearchIsExact ==
  ASSUME ~Abutting
  PROVE  MemblockSpec => []SearchExact
<1>1. MemblockInit => MemblockInv
  BY MemblockInitInv
<1>2. MemblockInv /\ [MemblockNext]_memblockVars => MemblockInv'
  BY MemblockStep
<1>3. MemblockInv => SearchExact
  BY SearchExactFromInv
<1> QED BY <1>1, <1>2, <1>3, PTL DEF MemblockSpec

(* The address map the tables m stand for.                                 *)
Mem(m) == Covered(m.memory.regions)
Res(m) == Covered(m.reserved.regions)
OwnOf(m) == {m[type].array : type \in Types} \cap Pages
PageRange(b, e) == {x \in Nat : b <= x /\ x < e}

(* The two sets of addresses.                                              *)
LEMMA MapIs ==
  ASSUME NEW m, Canon(m.memory.regions), Canon(m.reserved.regions)
  PROVE  /\ \A x : x \in Mem(m) <=> (x \in Nat /\ Covers(m.memory.regions, x))
         /\ \A x : x \in Res(m) <=> (x \in Nat /\ Covers(m.reserved.regions, x))
BY CoveredIs DEF Mem, Res

(* What the arrays occupy lies in the address space.                       *)
LEMMA OwnOfIs ==
  ASSUME NEW m, Good(m)
  PROVE  \A x : x \in OwnOf(m) <=> (x \in Nat /\ Owns(m, x))
<1> SUFFICES ASSUME NEW x PROVE x \in OwnOf(m) <=> (x \in Nat /\ Owns(m, x))
  OBVIOUS
<1>1. x \in Nat /\ Owns(m, x) => x \in Pages
  <2> SUFFICES ASSUME x \in Nat, Owns(m, x) PROVE x \in Pages
    OBVIOUS
  <2>1. Covers(m.reserved.regions, x)
    BY DEF Good, Kept
  <2>2. Canon(m.reserved.regions)
    BY DEF Good, Sound, Types
  <2>3. x < Top
    BY <2>1, <2>2, CoveredBelow
  <2> QED BY <2>3, Numbers DEF Pages
<1>2. x \in Pages => x \in Nat
  BY Numbers DEF Pages
<1>3. x \in OwnOf(m) <=> (x \in Pages /\ Owns(m, x))
  BY DEF OwnOf, Owns
<1> QED BY <1>1, <1>2, <1>3

(* Growing is the map's Settle, w being the tables with the caller's       *)
(* change done.                                                            *)
Settles(m, w, n) ==
  /\ Mem(n) = Mem(w)
  /\ OwnOf(n) \in SUBSET (Pages \cup {Top})
  /\ OwnOf(n) \ OwnOf(m) \subseteq Mem(w) \ Res(w)
  /\ \E back \in SUBSET (OwnOf(m) \ OwnOf(n)) :
        Res(n) = (Res(w) \ back) \cup (OwnOf(n) \ OwnOf(m))

(* Growth costs free memory and gives back what it can.                    *)
LEMMA SettledSettles ==
  ASSUME NEW m, Good(m), NEW n, Good(n), NEW w, Settled(w, n),
         Canon(w.memory.regions), Canon(w.reserved.regions),
         \A x \in Nat : Owns(w, x) <=> Owns(m, x),
         \A x \in Nat : Owns(m, x) => Covers(w.reserved.regions, x)
  PROVE  Settles(m, w, n)
<1>1. Canon(n.memory.regions) /\ Canon(n.reserved.regions)
  BY DEF Good, Sound, Types
<1>2. /\ \A x : x \in Mem(w) <=> (x \in Nat /\ Covers(w.memory.regions, x))
      /\ \A x : x \in Res(w) <=> (x \in Nat /\ Covers(w.reserved.regions, x))
  BY MapIs
<1>3. \A x : x \in Res(n) <=> (x \in Nat /\ Covers(n.reserved.regions, x))
  BY <1>1, MapIs
<1>4. \A x : x \in OwnOf(m) <=> (x \in Nat /\ Owns(m, x))
  BY OwnOfIs
<1>5. \A x : x \in OwnOf(n) <=> (x \in Nat /\ Owns(n, x))
  BY OwnOfIs
<1>6. Mem(n) = Mem(w)
  BY DEF Settled, Mem
<1>7. OwnOf(n) \in SUBSET (Pages \cup {Top})
  BY DEF OwnOf
<1>8. \A x \in Nat : (Owns(n, x) /\ ~Owns(m, x)) =>
         (Covers(w.memory.regions, x) /\ ~Covers(w.reserved.regions, x))
  BY DEF Settled
<1>9. OwnOf(n) \ OwnOf(m) \subseteq Mem(w) \ Res(w)
  BY <1>2, <1>4, <1>5, <1>8
<1>10. \A x \in Nat : (Covers(n.reserved.regions, x) /\ ~Covers(w.reserved.regions, x)) => Owns(n, x)
  BY DEF Settled
<1>11. \A x \in Nat : (Covers(w.reserved.regions, x) /\ ~Covers(n.reserved.regions, x)) => Owns(m, x)
  BY DEF Settled
<1>12. \A x \in Nat : Owns(n, x) => Covers(n.reserved.regions, x)
  BY DEF Good, Kept
<1>13. PICK back : back = Res(w) \ Res(n)
  OBVIOUS
<1>14. back \in SUBSET (OwnOf(m) \ OwnOf(n))
  BY <1>2, <1>3, <1>4, <1>5, <1>11, <1>12, <1>13
<1>15. \A x : x \in OwnOf(m) => x \in Res(w)
  BY <1>2, <1>4
<1>16. \A x : x \in OwnOf(n) => x \in Res(n)
  BY <1>3, <1>5, <1>12
<1>17. \A x : x \in Res(n) /\ x \notin Res(w) => x \in OwnOf(n)
  BY <1>2, <1>3, <1>5, <1>10
<1>18. Res(n) = (Res(w) \ back) \cup (OwnOf(n) \ OwnOf(m))
  BY <1>13, <1>15, <1>16, <1>17
<1> QED BY <1>6, <1>7, <1>9, <1>14, <1>18 DEF Settles

(* A range added to the tables is added to the map.                        *)
LEMMA AddsSettles ==
  ASSUME NEW m, Good(m), NEW n, Good(n), NEW type \in Types, NEW b \in Nat, NEW e \in Nat,
         Adds(m, type, b, e, n)
  PROVE  \E w : /\ Settles(m, w, n)
                /\ type = "memory" => Mem(w) = Mem(m) \cup PageRange(b, e) /\ Res(w) = Res(m)
                /\ type = "reserved" => Mem(w) = Mem(m) /\ Res(w) = Res(m) \cup PageRange(b, e)
<1>1. PICK q : AddsRow(m, type, b, e, q) /\ Settled(With(m, type, q), n)
  BY DEF Adds
<1>2. /\ Canon(q) /\ m \in Tables /\ Canon(m.memory.regions) /\ Canon(m.reserved.regions)
      /\ \A x \in Nat : Owns(m, x) => Covers(m.reserved.regions, x)
  BY <1>1 DEF AddsRow, Good, Sound, Types, Kept
<1>3. PICK w : w = With(m, type, q)
  OBVIOUS
<1>4. q \in Regions
  BY <1>2, RegionsRow DEF Canon
<1>5. /\ w[type].regions = q /\ \A other \in Types : other # type => w[other] = m[other]
      /\ \A x : Owns(w, x) <=> Owns(m, x)
  BY <1>2, <1>3, <1>4, WithIs, OwnsWith
<1>6. \A x \in Nat : Covers(q, x) <=> (Covers(m[type].regions, x) \/ (b <= x /\ x < e))
  BY <1>1 DEF AddsRow, Plused
<1>7. \A x : x \in Covered(q) <=> (x \in Nat /\ Covers(q, x))
  BY <1>2, CoveredIs
<1>8. \A x : x \in Mem(m) <=> (x \in Nat /\ Covers(m.memory.regions, x))
  BY <1>2, MapIs
<1>9. \A x : x \in Res(m) <=> (x \in Nat /\ Covers(m.reserved.regions, x))
  BY <1>2, MapIs
<1>10. Settled(w, n)
  BY <1>1, <1>3
<1>11. CASE type = "memory"
  <2>1. w.memory.regions = q /\ w.reserved = m.reserved
    BY <1>5, <1>11 DEF Types
  <2>2. Settles(m, w, n)
    BY <1>2, <1>5, <1>10, <2>1, SettledSettles
  <2>3. Res(w) = Res(m)
    BY <2>1 DEF Res
  <2>4. \A x \in Nat : Covers(q, x) <=> (Covers(m.memory.regions, x) \/ (b <= x /\ x < e))
    BY <1>6, <1>11
  <2>5. Mem(w) = Mem(m) \cup PageRange(b, e)
    <3>1. Mem(w) = Covered(q)
      BY <2>1 DEF Mem
    <3>2. \A x : x \in Covered(q) <=> x \in Mem(m) \cup PageRange(b, e)
      BY <1>7, <1>8, <2>4 DEF PageRange
    <3> QED BY <3>1, <3>2
  <2> QED BY <1>11, <2>2, <2>3, <2>5
<1>12. CASE type = "reserved"
  <2>1. w.reserved.regions = q /\ w.memory = m.memory
    BY <1>5, <1>12 DEF Types
  <2>4. \A x \in Nat : Covers(q, x) <=> (Covers(m.reserved.regions, x) \/ (b <= x /\ x < e))
    BY <1>6, <1>12
  <2>2. Settles(m, w, n)
    BY <1>2, <1>5, <1>10, <2>1, <2>4, SettledSettles
  <2>3. Mem(w) = Mem(m)
    BY <2>1 DEF Mem
  <2>5. Res(w) = Res(m) \cup PageRange(b, e)
    <3>1. Res(w) = Covered(q)
      BY <2>1 DEF Res
    <3>2. \A x : x \in Covered(q) <=> x \in Res(m) \cup PageRange(b, e)
      BY <1>7, <1>9, <2>4 DEF PageRange
    <3> QED BY <3>1, <3>2
  <2> QED BY <1>12, <2>2, <2>3, <2>5
<1> QED BY <1>11, <1>12 DEF Types

(* A range taken out of the tables is taken out of the map.                *)
LEMMA FreesSettles ==
  ASSUME NEW m, Good(m), NEW n, Good(n), NEW type \in Types, NEW b \in Nat, NEW e \in Nat,
         Frees(m, type, b, e, n)
  PROVE  \E w : /\ Settles(m, w, n)
                /\ type = "memory" => Mem(w) = Mem(m) \ PageRange(b, e) /\ Res(w) = Res(m)
                /\ type = "reserved" => Mem(w) = Mem(m) /\ Res(w) = Res(m) \ PageRange(b, e)
<1>1. PICK q : Canon(q) /\ Minused(q, m[type].regions, b, e) /\ Settled(With(m, type, q), n)
  BY DEF Frees, Removes
<1>2. /\ m \in Tables /\ Canon(m.memory.regions) /\ Canon(m.reserved.regions)
      /\ \A x \in Nat : Owns(m, x) => Covers(m.reserved.regions, x)
  BY DEF Good, Sound, Types, Kept
<1>3. PICK w : w = With(m, type, q)
  OBVIOUS
<1>4. q \in Regions
  BY <1>1, RegionsRow DEF Canon
<1>5. /\ w[type].regions = q /\ \A other \in Types : other # type => w[other] = m[other]
      /\ \A x : Owns(w, x) <=> Owns(m, x)
  BY <1>2, <1>3, <1>4, WithIs, OwnsWith
<1>6. \A x \in Nat : Covers(q, x) <=> (Covers(m[type].regions, x) /\ ~(b <= x /\ x < e))
  BY <1>1 DEF Minused
<1>7. \A x : x \in Covered(q) <=> (x \in Nat /\ Covers(q, x))
  BY <1>1, CoveredIs
<1>8. \A x : x \in Mem(m) <=> (x \in Nat /\ Covers(m.memory.regions, x))
  BY <1>2, MapIs
<1>9. \A x : x \in Res(m) <=> (x \in Nat /\ Covers(m.reserved.regions, x))
  BY <1>2, MapIs
<1>10. Settled(w, n)
  BY <1>1, <1>3
<1>11. CASE type = "memory"
  <2>1. w.memory.regions = q /\ w.reserved = m.reserved
    BY <1>5, <1>11 DEF Types
  <2>2. Settles(m, w, n)
    BY <1>1, <1>2, <1>5, <1>10, <2>1, SettledSettles
  <2>3. Res(w) = Res(m)
    BY <2>1 DEF Res
  <2>4. \A x \in Nat : Covers(q, x) <=> (Covers(m.memory.regions, x) /\ ~(b <= x /\ x < e))
    BY <1>6, <1>11
  <2>5. Mem(w) = Mem(m) \ PageRange(b, e)
    <3>1. Mem(w) = Covered(q)
      BY <2>1 DEF Mem
    <3>2. \A x : x \in Covered(q) <=> x \in Mem(m) \ PageRange(b, e)
      BY <1>7, <1>8, <2>4 DEF PageRange
    <3> QED BY <3>1, <3>2
  <2> QED BY <1>11, <2>2, <2>3, <2>5
<1>12. CASE type = "reserved"
  <2>1. w.reserved.regions = q /\ w.memory = m.memory
    BY <1>5, <1>12 DEF Types
  <2>2. \A x \in Nat : Covers(q, x) <=> (Covers(m.reserved.regions, x) /\ ~(b <= x /\ x < e))
    BY <1>6, <1>12
  <2>3. \A x \in Nat : (b <= x /\ x < e) => ~Owns(m, x)
    BY <1>12 DEF Frees
  <2>4. \A x \in Nat : Owns(m, x) => Covers(w.reserved.regions, x)
    BY <1>2, <2>1, <2>2, <2>3
  <2>5. Settles(m, w, n)
    BY <1>1, <1>2, <1>5, <1>10, <2>1, <2>4, SettledSettles
  <2>6. Mem(w) = Mem(m)
    BY <2>1 DEF Mem
  <2>7. Res(w) = Res(m) \ PageRange(b, e)
    <3>1. Res(w) = Covered(q)
      BY <2>1 DEF Res
    <3>2. \A x : x \in Covered(q) <=> x \in Res(m) \ PageRange(b, e)
      BY <1>7, <1>9, <2>2 DEF PageRange
    <3> QED BY <3>1, <3>2
  <2> QED BY <1>12, <2>5, <2>6, <2>7
<1> QED BY <1>11, <1>12 DEF Types

-----------------------------------------------------------------------------
(* A step of the tables is a step of the map, or none.                     *)
LEMMA MapNow ==
  /\ Covered(mb.memory.regions) = Mem(mb) /\ Covered(mb.reserved.regions) = Res(mb)
  /\ Own = OwnOf(mb)
BY DEF Mem, Res, OwnOf, Own

(* The map after a step.                                                   *)
LEMMA MapNext ==
  /\ Covered(mb.memory.regions)' = Mem(mb') /\ Covered(mb.reserved.regions)' = Res(mb')
  /\ Own' = OwnOf(mb')
BY DEF Mem, Res, OwnOf, Own

(* The map knows the range.                                                *)
LEMMA RangeNamed ==
  ASSUME NEW b \in Nat, NEW e \in Nat, b < e, e <= Top
  PROVE  PageRange(b, e) \in AddressSets!Ranges
<1>1. PICK z \in Nat : z = e - 1
  OBVIOUS
<1>2. b \in Pages \cup {Top} /\ z \in Pages \cup {Top}
  BY <1>1, Numbers DEF Pages
<1>3. PageRange(b, e) = b .. z
  <2>1. \A x : x \in PageRange(b, e) <=> x \in b .. z
    BY <1>1 DEF PageRange
  <2> QED BY <2>1
<1> QED BY <1>2, <1>3 DEF AddressSets!Ranges

(* Tables that settle are a map that settles.                              *)
LEMMA SettlesStep ==
  ASSUME NEW w, Settles(mb, w, mb'), NEW A, NEW B, A = Mem(w), B = Res(w)
  PROVE  AddressSets!Settle(A, B)
<1>1. /\ Mem(mb') = A
      /\ OwnOf(mb') \in SUBSET (Pages \cup {Top})
      /\ OwnOf(mb') \ OwnOf(mb) \subseteq A \ B
      /\ \E back \in SUBSET (OwnOf(mb) \ OwnOf(mb')) :
           Res(mb') = (B \ back) \cup (OwnOf(mb') \ OwnOf(mb))
  BY DEF Settles
<1> QED BY <1>1, MapNow, MapNext DEF AddressSets!Settle

(* memblock_add and memblock_reserve, allocations included, are Add and    *)
(* Reserve.                                                                *)
LEMMA AddsStep ==
  ASSUME Good(mb), Good(mb'), NEW type \in Types, NEW b \in Nat, NEW e \in Nat, b < e, e <= Top,
         Adds(mb, type, b, e, mb')
  PROVE  AddressSets!Next
<1>1. PICK R : R = PageRange(b, e)
  OBVIOUS
<1>2. R \in AddressSets!Ranges
  BY <1>1, RangeNamed
<1>3. PICK w : /\ Settles(mb, w, mb')
               /\ type = "memory" => Mem(w) = Mem(mb) \cup R /\ Res(w) = Res(mb)
               /\ type = "reserved" => Mem(w) = Mem(mb) /\ Res(w) = Res(mb) \cup R
  BY <1>1, AddsSettles
<1>4. CASE type = "memory"
  <2>1. AddressSets!Settle(Covered(mb.memory.regions) \cup R, Covered(mb.reserved.regions))
    BY <1>3, <1>4, MapNow, SettlesStep
  <2>2. AddressSets!Add(R)
    BY <2>1 DEF AddressSets!Add
  <2> QED BY <1>2, <2>2 DEF AddressSets!Next
<1>5. CASE type = "reserved"
  <2>1. AddressSets!Settle(Covered(mb.memory.regions), Covered(mb.reserved.regions) \cup R)
    BY <1>3, <1>5, MapNow, SettlesStep
  <2>2. AddressSets!Reserve(R)
    BY <2>1 DEF AddressSets!Reserve
  <2> QED BY <1>2, <2>2 DEF AddressSets!Next
<1> QED BY <1>4, <1>5 DEF Types

(* memblock_remove and memblock_free are Remove and Free.                  *)
LEMMA FreesStep ==
  ASSUME Good(mb), Good(mb'), NEW type \in Types, NEW b \in Nat, NEW e \in Nat, b < e, e <= Top,
         Frees(mb, type, b, e, mb')
  PROVE  AddressSets!Next
<1>1. PICK R : R = PageRange(b, e)
  OBVIOUS
<1>2. R \in AddressSets!Ranges
  BY <1>1, RangeNamed
<1>3. PICK w : /\ Settles(mb, w, mb')
               /\ type = "memory" => Mem(w) = Mem(mb) \ R /\ Res(w) = Res(mb)
               /\ type = "reserved" => Mem(w) = Mem(mb) /\ Res(w) = Res(mb) \ R
  BY <1>1, FreesSettles
<1>4. CASE type = "memory"
  <2>1. AddressSets!Settle(Covered(mb.memory.regions) \ R, Covered(mb.reserved.regions))
    BY <1>3, <1>4, MapNow, SettlesStep
  <2>2. AddressSets!Remove(R)
    BY <2>1 DEF AddressSets!Remove
  <2> QED BY <1>2, <2>2 DEF AddressSets!Next
<1>5. CASE type = "reserved"
  <2>1. AddressSets!Settle(Covered(mb.memory.regions), Covered(mb.reserved.regions) \ R)
    BY <1>3, <1>5, MapNow, SettlesStep
  <2>2. AddressSets!Free(R)
    BY <2>1 DEF AddressSets!Free
  <2> QED BY <1>2, <2>2 DEF AddressSets!Next
<1> QED BY <1>4, <1>5 DEF Types

(* memblock_enforce_memory_limit is Limit.                                 *)
LEMMA CutsStep ==
  ASSUME Good(mb), Good(mb'), Cuts(mb, mb')
  PROVE  AddressSets!Next
<1>1. PICK m, n : m = mb /\ n = mb'
  OBVIOUS
<1>2. PICK top \in 0 .. Top :
        /\ \A type \in Types : \A x \in Nat :
              Covers(n[type].regions, x) <=> (Covers(m[type].regions, x) /\ x < top)
        /\ \A x \in Nat : Owns(n, x) <=> Owns(m, x)
  BY <1>1 DEF Cuts
<1>3. top \in Pages \cup {Top}
  BY Numbers DEF Pages
<1>4. /\ Good(m) /\ Good(n)
      /\ Canon(m.memory.regions) /\ Canon(m.reserved.regions)
      /\ Canon(n.memory.regions) /\ Canon(n.reserved.regions)
  BY <1>1 DEF Good, Sound, Types
<1>5. Mem(n) = {a \in Mem(m) : a < top}
  <2>1. \A x \in Nat : Covers(n.memory.regions, x) <=> (Covers(m.memory.regions, x) /\ x < top)
    BY <1>2 DEF Types
  <2>2. \A x : x \in Mem(m) <=> (x \in Nat /\ Covers(m.memory.regions, x))
    BY <1>4, MapIs
  <2>3. \A x : x \in Mem(n) <=> (x \in Nat /\ Covers(n.memory.regions, x))
    BY <1>4, MapIs
  <2> QED BY <2>1, <2>2, <2>3
<1>6. Res(n) = {a \in Res(m) : a < top}
  <2>1. \A x \in Nat : Covers(n.reserved.regions, x) <=> (Covers(m.reserved.regions, x) /\ x < top)
    BY <1>2 DEF Types
  <2>2. \A x : x \in Res(m) <=> (x \in Nat /\ Covers(m.reserved.regions, x))
    BY <1>4, MapIs
  <2>3. \A x : x \in Res(n) <=> (x \in Nat /\ Covers(n.reserved.regions, x))
    BY <1>4, MapIs
  <2> QED BY <2>1, <2>2, <2>3
<1>7. OwnOf(n) = OwnOf(m)
  BY <1>2, <1>4, OwnOfIs
<1>8. /\ Mem(mb') = {a \in Mem(mb) : a < top}
      /\ Res(mb') = {a \in Res(mb) : a < top}
      /\ OwnOf(mb') = OwnOf(mb)
  BY <1>1, <1>5, <1>6, <1>7
<1>9. AddressSets!Limit(top)
  BY <1>8, MapNow, MapNext DEF AddressSets!Limit
<1> QED BY <1>3, <1>9 DEF AddressSets!Next

MapStays ==
  UNCHANGED <<Covered(mb.memory.regions), Covered(mb.reserved.regions), Own>>

(* Tables that hold the same leave the map alone.                          *)
LEMMA SameStays ==
  ASSUME Good(mb), Good(mb'), Same(mb, mb')
  PROVE  MapStays
<1>1. PICK m, n : m = mb /\ n = mb'
  OBVIOUS
<1>2. /\ \A type \in Types : \A x \in Nat :
            Covers(n[type].regions, x) <=> Covers(m[type].regions, x)
      /\ \A x \in Nat : Owns(n, x) <=> Owns(m, x)
  BY <1>1 DEF Same
<1>3. /\ Good(m) /\ Good(n)
      /\ Canon(m.memory.regions) /\ Canon(m.reserved.regions)
      /\ Canon(n.memory.regions) /\ Canon(n.reserved.regions)
  BY <1>1 DEF Good, Sound, Types
<1>4. /\ \A x : x \in Mem(m) <=> (x \in Nat /\ Covers(m.memory.regions, x))
      /\ \A x : x \in Res(m) <=> (x \in Nat /\ Covers(m.reserved.regions, x))
  BY <1>3, MapIs
<1>5. /\ \A x : x \in Mem(n) <=> (x \in Nat /\ Covers(n.memory.regions, x))
      /\ \A x : x \in Res(n) <=> (x \in Nat /\ Covers(n.reserved.regions, x))
  BY <1>3, MapIs
<1>6. Mem(n) = Mem(m) /\ Res(n) = Res(m)
  BY <1>2, <1>4, <1>5 DEF Types
<1>7. OwnOf(n) = OwnOf(m)
  BY <1>2, <1>3, OwnOfIs
<1> QED BY <1>1, <1>6, <1>7, MapNow, MapNext DEF MapStays

(* Each change of the tables is a step of the map, or none.                *)
LEMMA ChangesMap ==
  ASSUME Good(mb), Good(mb'), Changes(mb, mb')
  PROVE  AddressSets!Next \/ MapStays
<1>1. CASE Same(mb, mb')
  BY <1>1, SameStays
<1>2. CASE Cuts(mb, mb')
  BY <1>2, CutsStep
<1>3. CASE \E type \in Types : \E b, e \in Nat :
             b < e /\ e <= Top /\ (Adds(mb, type, b, e, mb') \/ Frees(mb, type, b, e, mb'))
  <2>1. PICK type \in Types : \E b, e \in Nat :
           b < e /\ e <= Top /\ (Adds(mb, type, b, e, mb') \/ Frees(mb, type, b, e, mb'))
    BY <1>3
  <2>2. PICK b \in Nat, e \in Nat :
           b < e /\ e <= Top /\ (Adds(mb, type, b, e, mb') \/ Frees(mb, type, b, e, mb'))
    BY <2>1
  <2> QED BY <2>2, AddsStep, FreesStep
<1> QED BY <1>1, <1>2, <1>3 DEF Changes

(* Tables that are not set up are the empty map.                           *)
LEMMA MapStarts == MemblockInit => AddressSets!Init
<1> SUFFICES ASSUME MemblockInit PROVE AddressSets!Init
  OBVIOUS
<1>1. Good(mb)
  BY MemblockInitInv DEF MemblockInv
<1>2. mb.memory = NoTable /\ mb.reserved = NoTable
  BY DEF MemblockInit
<1>3. NoTable.regions = <<>> /\ NoTable.array = Static
  BY DEF NoTable
<1>4. Covered(<<>>) = {}
  <2>1. Len(<<>>) = 0
    OBVIOUS
  <2>2. 1 .. Len(<<>>) = {}
    BY <2>1
  <2> QED BY <2>2 DEF Covered
<1>5. Own = {}
  <2>1. \A x \in Nat : x # Static
    BY ConstantsAre
  <2>2. \A x \in Pages : x \in Nat
    BY Numbers DEF Pages
  <2>3. \A type \in Types : mb[type].array = Static
    BY <1>2, <1>3 DEF Types
  <2> QED BY <2>1, <2>2, <2>3 DEF Own
<1> QED BY <1>2, <1>3, <1>4, <1>5 DEF AddressSets!Init

(* The tables of memblock.c implement two sets of addresses, for any       *)
(* address space, initial table size and calls (ImplementsAddressMap).     *)
THEOREM MemblockImplementsAddressMap ==
  ASSUME ~Abutting
  PROVE  MemblockSpec => ImplementsAddressMap
<1>1. MemblockInit => MemblockInv
  BY MemblockInitInv
<1>2. MemblockInv /\ [MemblockNext]_memblockVars => MemblockInv'
  BY MemblockStep
<1>3. MemblockInit => AddressSets!Init
  BY MapStarts
<1>4. MemblockInv /\ [MemblockNext]_memblockVars =>
        [AddressSets!Next]_<<Covered(mb.memory.regions), Covered(mb.reserved.regions), Own>>
  <2> SUFFICES ASSUME MemblockInv, [MemblockNext]_memblockVars
               PROVE  AddressSets!Next \/ MapStays
    BY DEF MapStays
  <2>1. CASE MemblockNext
    <3>1. Turned
      BY <2>1, NextTurned
    <3>2. Good(mb) /\ Good(mb') /\ Changes(mb, mb')
      BY <3>1 DEF Turned, MemblockInv
    <3> QED BY <3>2, ChangesMap
  <2>2. CASE UNCHANGED memblockVars
    <3>1. mb' = mb
      BY <2>2 DEF memblockVars
    <3>2. MapStays
      BY <3>1 DEF MapStays, Own
    <3> QED BY <3>2
  <2> QED BY <2>1, <2>2
<1> QED BY <1>1, <1>2, <1>3, <1>4, PTL DEF MemblockSpec, ImplementsAddressMap, AddressSets!Spec

=============================================================================
