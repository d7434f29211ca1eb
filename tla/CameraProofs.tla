---------------------------- MODULE CameraProofs ----------------------------
(***************************************************************************)
(* The safety properties of CameraHal: the frames lent to the encoder, the *)
(* collisions of the two threads, the back pressure and the exposure, for  *)
(* any cameras, windows, settings, thresholds and numbers of frames.       *)
(***************************************************************************)
EXTENDS CameraHal, SequenceTheorems, WellFoundedInduction, TLAPS

CbPcs == {"idle", "push", "post", "return", "drop", "make", "hand over", "handed", "format",
          "dequeue", "lock", "enqueue", "signal", "request", "run"}
CbRecs == [pc : CbPcs, mem : Nat, win : Windows \cup {None, "draw"}]

AppPcs == {"idle", "erase", "sweep", "sweepRel", "clear", "clearRel", "dropData", "nullData",
           "library", "torchOff", "torchSignal", "torchRequest", "torchWait"}
AppRecs == [pc : AppPcs, i : Nat]

Faults == {"no", "vector", "double release", "stale data", "null window", "null overlay"}

Types ==
    /\ camera \in Cameras /\ asked \in Int
    /\ sent \in Seq(Nat) /\ live \subseteq Nat /\ slipped \subseteq Nat /\ held \subseteq Nat
    /\ window \in Windows \cup {None}
    /\ prevDropped \in BOOLEAN
    /\ cb \in CbRecs /\ app \in AppRecs
    /\ fault \in Faults

(* The library calls back only while the device is open, and the            *)
(* application's index is in the vector, or just behind it.                 *)
Position ==
    /\ ~At("idle") => dev = "open"
    /\ AppAt("erase") => app.i \in 1 .. Len(sent)
    /\ Walking => app.i \in 1 .. Len(sent) + 1

(* What the encoder may be behind by, while a frame is on its way to it.    *)
Lag ==
    /\ Len(sent) <= Hard + 1
    /\ At("push") => Len(sent) <= Hard
    /\ lastVideo # "dropped too"
    /\ lastVideo = "dropped" => prevDropped

(* Whose the memory of the last data message is.                            *)
DataOwned ==
    Alive =>
        /\ clientData = "freed" => AppAt("nullData") \/ At("make")
        /\ At("hand over") => clientData = "live" \/ app.pc \in {"nullData", "library"}

(* A frame that is taken but not yet pushed, and who will get it.           *)
InFlight == IF At("push") THEN {cb.mem} ELSE {}
Coming == IF At("push") \/ At("post") THEN {cb.mem} ELSE {}

FramesKept ==
    /\ live = (ToSet(sent) \ Swept) \cup slipped \cup InFlight
    /\ IsInjective(sent)
    /\ slipped \cap ToSet(sent) = {}
    /\ InFlight \cap (ToSet(sent) \cup slipped) = {}
    /\ live \ slipped \subseteq held \cup Coming

(* The window whose buffer the callback thread holds.                       *)
Holding == IF Drawing THEN {cb.win} ELSE {}

WindowsKept ==
    /\ out \subseteq replaced \cup Holding
    /\ Drawing => window = cb.win \/ cb.win \in replaced

Exposed == offset = ExposureOffset(asked)

IInv ==
    /\ Types /\ Position /\ Lag /\ DataOwned /\ FaultsNeedTwo /\ Exposed
    /\ Alive => FramesKept /\ WindowsKept

-----------------------------------------------------------------------------
(* A set of naturals that has an element has a least one.                   *)
LEMMA LeastNat ==
  ASSUME NEW S \in SUBSET Nat, S # {}
  PROVE  Min(S) \in S
<1>1. PICK m \in S : \A k \in S : ~(<<k, m>> \in OpToRel(<, Nat))
  BY WFMin, NatLessThanWellFounded
<1>2. \A k \in S : ~(k < m)
  BY <1>1 DEF OpToRel
<1>3. \E x \in S : \A k \in S : x <= k
  BY <1>2
<1> QED BY <1>3 DEF Min

(* The memory that is taken is one that is not in use.                      *)
LEMMA TakenUnused ==
  ASSUME Types, Unused # {}
  PROVE  Min(Unused) \in Nat \ (live \cup held \cup ToSet(sent))
<1>1. Frames[camera] \in Nat
  BY BoundAssumption DEF Types
<1>2. Unused \in SUBSET Nat
  BY <1>1 DEF Unused
<1>3. Min(Unused) \in Unused
  BY <1>2, LeastNat
<1> QED BY <1>2, <1>3 DEF Unused

(* What push_back does to the frames of the vector.                         *)
LEMMA PushedBack ==
  ASSUME NEW s \in Seq(Nat), NEW m \in Nat, IsInjective(s), m \notin ToSet(s)
  PROVE  /\ Append(s, m) \in Seq(Nat) /\ Len(Append(s, m)) = Len(s) + 1
         /\ ToSet(Append(s, m)) = ToSet(s) \cup {m}
         /\ IsInjective(Append(s, m))
         /\ \A i \in 1 .. Len(s) : Append(s, m)[i] = s[i]
         /\ \A i \in 1 .. Len(s) + 1 : SubSeq(Append(s, m), 1, i - 1) = SubSeq(s, 1, i - 1)
<1> DEFINE t == Append(s, m)
<1>1. t \in Seq(Nat) /\ Len(t) = Len(s) + 1 /\ t[Len(s) + 1] = m
  BY AppendProperties
<1>2. \A i \in 1 .. Len(s) : t[i] = s[i]
  BY AppendProperties
<1>3. DOMAIN t = 1 .. Len(s) + 1 /\ DOMAIN s = 1 .. Len(s) /\ Len(s) \in Nat
  BY <1>1, LenProperties
<1> HIDE DEF t
<1>4. ToSet(t) = ToSet(s) \cup {m}
  <2>1. ASSUME NEW x \in ToSet(t) PROVE x \in ToSet(s) \cup {m}
    <3>1. PICK i \in 1 .. Len(s) + 1 : x = t[i]
      BY <2>1, <1>3 DEF ToSet
    <3>2. CASE i = Len(s) + 1
      BY <3>1, <3>2, <1>1
    <3>3. CASE i # Len(s) + 1
      <4>1. i \in 1 .. Len(s) /\ x = s[i]
        BY <3>1, <3>3, <1>2, <1>3
      <4> QED BY <4>1, <1>3 DEF ToSet
    <3> QED BY <3>2, <3>3
  <2>2. ASSUME NEW x \in ToSet(s) PROVE x \in ToSet(t)
    <3>1. PICK i \in 1 .. Len(s) : x = s[i]
      BY <2>2, <1>3 DEF ToSet
    <3>2. i \in 1 .. Len(s) + 1 /\ x = t[i]
      BY <3>1, <1>2, <1>3
    <3> QED BY <3>2, <1>3 DEF ToSet
  <2>3. m \in ToSet(t)
    <3>1. Len(s) + 1 \in DOMAIN t
      BY <1>3
    <3> QED BY <3>1, <1>1 DEF ToSet
  <2> QED BY <2>1, <2>2, <2>3
<1>5. IsInjective(t)
  <2> SUFFICES ASSUME NEW a \in DOMAIN t, NEW b \in DOMAIN t, t[a] = t[b]
               PROVE  a = b
    BY DEF IsInjective
  <2>1. ASSUME NEW i \in 1 .. Len(s) PROVE t[i] # m
    BY <2>1, <1>2, <1>3 DEF ToSet
  <2>2. CASE a = Len(s) + 1 \/ b = Len(s) + 1
    BY <2>1, <2>2, <1>1, <1>3
  <2>3. CASE a # Len(s) + 1 /\ b # Len(s) + 1
    <3>1. a \in DOMAIN s /\ b \in DOMAIN s /\ s[a] = s[b]
      BY <2>3, <1>2, <1>3
    <3> QED BY <3>1 DEF IsInjective
  <2> QED BY <2>2, <2>3
<1>6. ASSUME NEW i \in 1 .. Len(s) + 1 PROVE SubSeq(t, 1, i - 1) = SubSeq(s, 1, i - 1)
  <2>1. \A j \in 1 .. i - 1 : t[j] = s[j] /\ t[j] \in Nat /\ s[j] \in Nat
    BY <1>2, <1>3, ElementOfSeq
  <2>2. /\ SubSeq(t, 1, i - 1) \in Seq(Nat) /\ Len(SubSeq(t, 1, i - 1)) = i - 1
        /\ \A j \in 1 .. i - 1 : SubSeq(t, 1, i - 1)[j] = t[j]
    BY <2>1, <1>3, SubSeqProperties
  <2>3. /\ SubSeq(s, 1, i - 1) \in Seq(Nat) /\ Len(SubSeq(s, 1, i - 1)) = i - 1
        /\ \A j \in 1 .. i - 1 : SubSeq(s, 1, i - 1)[j] = s[j]
    BY <2>1, <1>3, SubSeqProperties
  <2> QED BY <2>1, <2>2, <2>3, SeqEqual
<1> QED BY <1>1, <1>2, <1>4, <1>5, <1>6 DEF t

(* What the sweep has passed and what is before it.                         *)
LEMMA SplitAt ==
  ASSUME NEW s \in Seq(Nat), IsInjective(s), NEW i \in 1 .. Len(s) + 1
  PROVE  /\ ToSet(SubSeq(s, 1, i - 1)) = {s[j] : j \in 1 .. i - 1}
         /\ ToSet(SubSeq(s, i, Len(s))) = {s[j] : j \in i .. Len(s)}
         /\ ToSet(s) = {s[j] : j \in 1 .. i - 1} \cup {s[j] : j \in i .. Len(s)}
         /\ {s[j] : j \in 1 .. i - 1} \cap {s[j] : j \in i .. Len(s)} = {}
<1>1. DOMAIN s = 1 .. Len(s) /\ Len(s) \in Nat /\ \A j \in 1 .. Len(s) : s[j] \in Nat
  BY LenProperties, ElementOfSeq
<1>2. ToSet(SubSeq(s, 1, i - 1)) = {s[j] : j \in 1 .. i - 1}
  <2> DEFINE t == SubSeq(s, 1, i - 1)
  <2>1. /\ t \in Seq(Nat) /\ Len(t) = i - 1
        /\ \A j \in 1 .. i - 1 : t[j] = s[j]
    BY <1>1, SubSeqProperties
  <2>2. DOMAIN t = 1 .. i - 1
    BY <2>1, LenProperties
  <2> HIDE DEF t
  <2>3. ToSet(t) = {s[j] : j \in 1 .. i - 1}
    BY <2>1, <2>2 DEF ToSet
  <2> QED BY <2>3 DEF t
<1>3. ToSet(SubSeq(s, i, Len(s))) = {s[j] : j \in i .. Len(s)}
  <2> DEFINE t == SubSeq(s, i, Len(s))
             n == Len(s) - i + 1
  <2>1. /\ t \in Seq(Nat) /\ Len(t) = n /\ n \in Nat
        /\ \A j \in 1 .. n : t[j] = s[i + j - 1]
    <3>1. i \in Int /\ Len(s) \in Int /\ \A j \in i .. Len(s) : s[j] \in Nat
      BY <1>1
    <3>2. /\ t \in Seq(Nat) /\ Len(t) = IF i <= Len(s) THEN Len(s) - i + 1 ELSE 0
          /\ \A j \in 1 .. Len(s) - i + 1 : t[j] = s[i + j - 1]
      BY <3>1, SubSeqProperties
    <3> QED BY <3>2, <1>1
  <2>2. DOMAIN t = 1 .. n
    BY <2>1, LenProperties
  <2> HIDE DEF t
  <2>3. ASSUME NEW x \in ToSet(t) PROVE x \in {s[j] : j \in i .. Len(s)}
    <3>1. PICK j \in 1 .. n : x = s[i + j - 1]
      BY <2>1, <2>2 DEF ToSet
    <3>2. i + j - 1 \in i .. Len(s)
      BY <1>1
    <3> QED BY <3>1, <3>2
  <2>4. ASSUME NEW k \in i .. Len(s) PROVE s[k] \in ToSet(t)
    <3>1. k - i + 1 \in 1 .. n /\ i + (k - i + 1) - 1 = k
      BY <1>1
    <3>2. t[k - i + 1] = s[k]
      BY <2>1, <3>1
    <3> QED BY <3>1, <3>2, <2>2 DEF ToSet
  <2> QED BY <2>3, <2>4 DEF t
<1>4. ToSet(s) = {s[j] : j \in 1 .. i - 1} \cup {s[j] : j \in i .. Len(s)}
  <2>1. 1 .. Len(s) = (1 .. i - 1) \cup (i .. Len(s))
    BY <1>1
  <2> QED BY <1>1, <2>1 DEF ToSet
<1>5. {s[j] : j \in 1 .. i - 1} \cap {s[j] : j \in i .. Len(s)} = {}
  <2> SUFFICES ASSUME NEW j \in 1 .. i - 1, NEW k \in i .. Len(s), s[j] = s[k]
               PROVE  FALSE
    OBVIOUS
  <2>1. j \in DOMAIN s /\ k \in DOMAIN s /\ j # k
    BY <1>1
  <2> QED BY <2>1 DEF IsInjective
<1> QED BY <1>2, <1>3, <1>4, <1>5

(* What erase does to the frames of the vector.                             *)
LEMMA Erased ==
  ASSUME NEW s \in Seq(Nat), IsInjective(s), NEW i \in 1 .. Len(s)
  PROVE  /\ RemoveAt(s, i) \in Seq(Nat) /\ Len(RemoveAt(s, i)) = Len(s) - 1
         /\ ToSet(RemoveAt(s, i)) = ToSet(s) \ {s[i]}
         /\ IsInjective(RemoveAt(s, i))
<1>1. DOMAIN s = 1 .. Len(s) /\ Len(s) \in Nat /\ \A j \in 1 .. Len(s) : s[j] \in Nat
  BY LenProperties, ElementOfSeq
<1> DEFINE a == SubSeq(s, 1, i - 1)
           b == SubSeq(s, i + 1, Len(s))
           t == a \o b
<1>2. /\ a \in Seq(Nat) /\ Len(a) = i - 1
      /\ \A j \in 1 .. i - 1 : a[j] = s[j]
  BY <1>1, SubSeqProperties
<1>3. /\ b \in Seq(Nat) /\ Len(b) = Len(s) - i
      /\ \A j \in 1 .. Len(s) - i : b[j] = s[i + j]
  <2>1. i + 1 \in Int /\ Len(s) \in Int /\ \A j \in i + 1 .. Len(s) : s[j] \in Nat
    BY <1>1
  <2>2. /\ b \in Seq(Nat) /\ Len(b) = IF i + 1 <= Len(s) THEN Len(s) - (i + 1) + 1 ELSE 0
        /\ \A j \in 1 .. Len(s) - (i + 1) + 1 : b[j] = s[i + 1 + j - 1]
    BY <2>1, SubSeqProperties
  <2> HIDE DEF b
  <2>3. Len(b) = Len(s) - i
    <3>1. Len(s) \in Nat /\ i \in Nat /\ i <= Len(s)
      BY <1>1
    <3>2. CASE i + 1 <= Len(s)
      BY <3>1, <3>2, <2>2
    <3>3. CASE ~(i + 1 <= Len(s))
      BY <3>1, <3>3, <2>2
    <3> QED BY <3>2, <3>3
  <2>4. ASSUME NEW j \in 1 .. Len(s) - i PROVE b[j] = s[i + j]
    <3>1. j \in 1 .. Len(s) - (i + 1) + 1 /\ i + 1 + j - 1 = i + j
      BY <1>1
    <3> QED BY <3>1, <2>2
  <2> QED BY <2>2, <2>3, <2>4
<1> HIDE DEF a, b
<1>4. /\ t \in Seq(Nat) /\ Len(t) = Len(s) - 1
      /\ \A j \in 1 .. Len(s) - 1 : t[j] = IF j < i THEN s[j] ELSE s[j + 1]
  <2>1. /\ t \in Seq(Nat) /\ Len(t) = Len(a) + Len(b)
        /\ \A j \in 1 .. Len(a) + Len(b) : t[j] = IF j <= Len(a) THEN a[j] ELSE b[j - Len(a)]
    BY <1>2, <1>3, ConcatProperties
  <2>2. Len(a) + Len(b) = Len(s) - 1
    BY <1>1, <1>2, <1>3
  <2>3. ASSUME NEW j \in 1 .. Len(s) - 1 PROVE t[j] = IF j < i THEN s[j] ELSE s[j + 1]
    <3>1. CASE j < i
      <4>1. j \in 1 .. i - 1 /\ j <= Len(a)
        BY <3>1, <1>1, <1>2
      <4> QED BY <4>1, <3>1, <2>1, <2>2, <1>2
    <3>2. CASE ~(j < i)
      <4>1. ~(j <= Len(a)) /\ j - Len(a) = j - i + 1 /\ j - i + 1 \in 1 .. Len(s) - i /\ i + (j - i + 1) = j + 1
        BY <3>2, <1>1, <1>2
      <4>2. t[j] = b[j - i + 1]
        BY <4>1, <2>1, <2>2
      <4>3. b[j - i + 1] = s[j + 1]
        BY <4>1, <1>3
      <4> QED BY <4>2, <4>3, <3>2
    <3> QED BY <3>1, <3>2
  <2> QED BY <2>1, <2>2, <2>3
<1> HIDE DEF t
<1>5. DOMAIN t = 1 .. Len(s) - 1
  BY <1>4, LenProperties
<1>6. ASSUME NEW x \in ToSet(t) PROVE x \in ToSet(s) \ {s[i]}
  <2>1. PICK j \in 1 .. Len(s) - 1 : x = t[j]
    BY <1>5 DEF ToSet
  <2>2. PICK k \in 1 .. Len(s) : x = s[k] /\ k # i
    BY <2>1, <1>1, <1>4
  <2>3. x # s[i]
    BY <2>2, <1>1 DEF IsInjective
  <2> QED BY <2>2, <2>3, <1>1 DEF ToSet
<1>7. ASSUME NEW x \in ToSet(s), x # s[i] PROVE x \in ToSet(t)
  <2>1. PICK k \in 1 .. Len(s) : x = s[k] /\ k # i
    BY <1>1, <1>7 DEF ToSet
  <2>2. CASE k < i
    <3>1. k \in 1 .. Len(s) - 1 /\ t[k] = x
      BY <2>1, <2>2, <1>1, <1>4
    <3> QED BY <3>1, <1>5 DEF ToSet
  <2>3. CASE k > i
    <3>1. k - 1 \in 1 .. Len(s) - 1 /\ t[k - 1] = s[(k - 1) + 1] /\ (k - 1) + 1 = k
      BY <2>1, <2>3, <1>1, <1>4
    <3> QED BY <3>1, <2>1, <1>5 DEF ToSet
  <2> QED BY <2>1, <2>2, <2>3
<1>8. IsInjective(t)
  <2> SUFFICES ASSUME NEW j \in 1 .. Len(s) - 1, NEW k \in 1 .. Len(s) - 1, t[j] = t[k]
               PROVE  j = k
    BY <1>5 DEF IsInjective
  <2> DEFINE up(n) == IF n < i THEN n ELSE n + 1
  <2>1. up(j) \in DOMAIN s /\ up(k) \in DOMAIN s
    BY <1>1
  <2>2. t[j] = s[up(j)] /\ t[k] = s[up(k)]
    BY <1>4
  <2>3. up(j) = up(k)
    BY <2>1, <2>2 DEF IsInjective
  <2> QED BY <2>3
<1>9. ToSet(t) = ToSet(s) \ {s[i]}
  BY <1>6, <1>7
<1> QED BY <1>4, <1>8, <1>9 DEF t, a, b, RemoveAt

(* Where a step of the callback thread finds it and where it leaves it.     *)
LEMMA CallbackMoves ==
  ASSUME Types
  PROVE  /\ VideoTaken => At("idle") /\ cb'.pc = "push" /\ cb'.mem = Min(Unused)
         /\ VideoPush => At("push") /\ cb'.pc = "post" /\ cb'.mem = cb.mem
         /\ VideoPost => At("post") /\ cb'.pc = "return"
         /\ VideoReturn => At("return") /\ cb'.pc = "idle"
         /\ PreviewData => At("idle") /\ cb'.pc = "drop"
         /\ PictureData => At("idle") /\ cb'.pc = "drop"
         /\ OverlayFrame => At("idle") /\ cb'.pc = "format"
         /\ DataDrop => At("drop") /\ cb'.pc = "make"
         /\ DataMake => At("make") /\ \/ cb'.pc = "hand over" /\ clientData' = "live"
                                      \/ cb'.pc = "handed" /\ clientData' = "null"
         /\ DataPost => At("hand over") /\ cb'.pc = "handed"
         /\ DataDone => At("handed") /\ cb'.pc \in {"idle", "dequeue", "signal"}
         /\ OverlayFormat => At("format") /\ cb'.pc = "dequeue"
         /\ Dequeue => At("dequeue") /\ \/ cb'.pc = "idle" /\ out' = out
                                        \/ /\ window # None
                                           /\ cb'.pc = "lock" /\ cb'.win = window
                                           /\ out' = out \cup {window}
         /\ LockBuffer => At("lock") /\ \/ cb'.pc = "enqueue" /\ cb'.win = cb.win /\ out' = out
                                        \/ cb'.pc = "idle" /\ out' = out \ {window}
         /\ Enqueue => At("enqueue") /\ cb'.pc = "idle" /\ out' = out \ {window}
         /\ ScheduleSignals => At("signal") /\ cb'.pc = "request"
         /\ ScheduleRequests => At("request") /\ cb'.pc = "run"
         /\ ScheduleRuns => At("run") /\ cb'.pc = "idle"
<1>1. ASSUME VideoTaken PROVE At("idle") /\ cb'.pc = "push" /\ cb'.mem = Min(Unused)
  BY <1>1 DEF VideoTaken, Idle, At, Calling
<1>2. ASSUME VideoPush PROVE At("push") /\ cb'.pc = "post" /\ cb'.mem = cb.mem
  BY <1>2 DEF VideoPush, At, CbGoes, Types, CbRecs
<1>3. ASSUME VideoPost PROVE At("post") /\ cb'.pc = "return"
  BY <1>3 DEF VideoPost, At, CbGoes, Types, CbRecs
<1>4. ASSUME VideoReturn PROVE At("return") /\ cb'.pc = "idle"
  BY <1>4 DEF VideoReturn, At, CbEnds, Idle
<1>5. ASSUME PreviewData PROVE At("idle") /\ cb'.pc = "drop"
  BY <1>5 DEF PreviewData, Idle, At, Calling
<1>6. ASSUME PictureData PROVE At("idle") /\ cb'.pc = "drop"
  BY <1>6 DEF PictureData, Idle, At, Calling
<1>7. ASSUME OverlayFrame PROVE At("idle") /\ cb'.pc = "format"
  BY <1>7 DEF OverlayFrame, Idle, At, Calling
<1>8. ASSUME DataDrop PROVE At("drop") /\ cb'.pc = "make"
  BY <1>8 DEF DataDrop, At, CbGoes, Types, CbRecs
<1>9. ASSUME DataMake PROVE At("make") /\ \/ cb'.pc = "hand over" /\ clientData' = "live"
                                          \/ cb'.pc = "handed" /\ clientData' = "null"
  <2>1. CASE CbGoes("hand over") /\ clientData' = "live"
    BY <1>9, <2>1 DEF DataMake, CbGoes, Types, CbRecs
  <2>2. CASE CbGoes("handed") /\ clientData' = "null"
    BY <1>9, <2>2 DEF DataMake, CbGoes, Types, CbRecs
  <2> QED BY <1>9, <2>1, <2>2 DEF DataMake
<1>10. ASSUME DataPost PROVE At("hand over") /\ cb'.pc = "handed"
  BY <1>10 DEF DataPost, At, CbGoes, Types, CbRecs
<1>11. ASSUME DataDone PROVE At("handed") /\ cb'.pc \in {"idle", "dequeue", "signal"}
  BY <1>11 DEF DataDone, At, CbEnds, CbGoes, Idle, Types, CbRecs
<1>12. ASSUME OverlayFormat PROVE At("format") /\ cb'.pc = "dequeue"
  BY <1>12 DEF OverlayFormat, At, CbGoes, Types, CbRecs
<1>13. ASSUME Dequeue PROVE At("dequeue") /\ \/ cb'.pc = "idle" /\ out' = out
                                             \/ /\ window # None
                                                /\ cb'.pc = "lock" /\ cb'.win = window
                                                /\ out' = out \cup {window}
  <2>1. CASE CbEnds /\ UNCHANGED out
    BY <1>13, <2>1 DEF Dequeue, CbEnds, Idle
  <2>2. CASE /\ window # None /\ cb' = [Idle EXCEPT !.pc = "lock", !.win = window]
             /\ out' = out \cup {window}
    <3>1. cb'.pc = "lock" /\ cb'.win = window
      BY <2>2 DEF Idle
    <3> QED BY <1>13, <2>2, <3>1 DEF Dequeue
  <2> QED BY <1>13, <2>1, <2>2 DEF Dequeue
<1>14. ASSUME LockBuffer PROVE At("lock") /\ \/ cb'.pc = "enqueue" /\ cb'.win = cb.win /\ out' = out
                                             \/ cb'.pc = "idle" /\ out' = out \ {window}
  <2>1. CASE CbGoes("enqueue") /\ UNCHANGED out
    <3>1. cb'.pc = "enqueue" /\ cb'.win = cb.win
      BY <2>1 DEF CbGoes, Types, CbRecs
    <3> QED BY <1>14, <2>1, <3>1 DEF LockBuffer
  <2>2. CASE CbEnds /\ out' = out \ {window}
    <3>1. cb'.pc = "idle"
      BY <2>2 DEF CbEnds, Idle
    <3> QED BY <1>14, <2>2, <3>1 DEF LockBuffer
  <2> QED BY <1>14, <2>1, <2>2 DEF LockBuffer
<1>15. ASSUME Enqueue PROVE At("enqueue") /\ cb'.pc = "idle" /\ out' = out \ {window}
  BY <1>15 DEF Enqueue, At, CbEnds, Idle
<1>16. ASSUME ScheduleSignals PROVE At("signal") /\ cb'.pc = "request"
  BY <1>16 DEF ScheduleSignals, At, CbGoes, Types, CbRecs
<1>17. ASSUME ScheduleRequests PROVE At("request") /\ cb'.pc = "run"
  BY <1>17 DEF ScheduleRequests, At, CbGoes, Types, CbRecs
<1>18. ASSUME ScheduleRuns PROVE At("run") /\ cb'.pc = "idle"
  BY <1>18 DEF ScheduleRuns, At, CbEnds, Idle
<1> QED BY <1>1, <1>2, <1>3, <1>4, <1>5, <1>6, <1>7, <1>8, <1>9, <1>10, <1>11, <1>12, <1>13,
   <1>14, <1>15, <1>16, <1>17, <1>18

(* The other steps, among them all of the application, leave it alone.      *)
LEMMA CallbackStays ==
  ASSUME \/ VideoDropped \/ VideoNoMemory \/ NotifyFocus \/ TorchThread \/ Open
         \/ SetPreviewWindow \/ StartRecording \/ StopRecording \/ ReleaseRecordingFrame
         \/ DisableVideoFrames \/ TakePicture \/ CancelPicture \/ SetCameraParameters
         \/ Release \/ Close \/ EraseFrame \/ SweepFrame \/ SweepEnds \/ ClearFrames
         \/ ReleaseData \/ ReleaseNulls \/ ReleaseLibrary \/ DestroyTorchOff
         \/ DestroySignals \/ DestroyRequests \/ DestroyWaits
  PROVE  cb' = cb
<1>1. CASE \/ VideoDropped \/ VideoNoMemory \/ NotifyFocus \/ TorchThread
  BY <1>1 DEF VideoDropped, VideoNoMemory, NotifyFocus, TorchThread
<1>2. CASE \/ Open \/ SetPreviewWindow \/ StartRecording \/ StopRecording
         \/ ReleaseRecordingFrame \/ DisableVideoFrames \/ TakePicture \/ CancelPicture
         \/ SetCameraParameters \/ Release \/ Close
  BY <1>2 DEF Open, SetPreviewWindow, StartRecording, StopRecording, ReleaseRecordingFrame,
     DisableVideoFrames, TakePicture, CancelPicture, SetCameraParameters, Release, Close, Quiet
<1>3. CASE \/ EraseFrame \/ SweepFrame \/ SweepEnds \/ ClearFrames \/ ReleaseData \/ ReleaseNulls
         \/ ReleaseLibrary \/ DestroyTorchOff \/ DestroySignals \/ DestroyRequests
         \/ DestroyWaits
  BY <1>3 DEF EraseFrame, SweepFrame, SweepEnds, ClearFrames, ReleaseData, ReleaseNulls,
     ReleaseLibrary, DestroyTorchOff, DestroySignals, DestroyRequests, DestroyWaits, Quiet,
     NotTorch
<1> QED BY <1>1, <1>2, <1>3

(* The steps of the library and the calls that take one step leave the      *)
(* application where it is.                                                 *)
LEMMA ApplicationStays ==
  ASSUME \/ VideoDropped \/ VideoTaken \/ VideoNoMemory \/ PreviewData \/ PictureData
         \/ OverlayFrame \/ NotifyFocus \/ VideoPush \/ VideoPost \/ VideoReturn \/ DataDrop
         \/ DataMake \/ DataPost \/ DataDone \/ OverlayFormat \/ Dequeue \/ LockBuffer
         \/ Enqueue \/ ScheduleSignals \/ ScheduleRequests \/ ScheduleRuns \/ TorchThread
         \/ Open \/ SetPreviewWindow \/ StartRecording \/ StopRecording \/ TakePicture
         \/ CancelPicture \/ SetCameraParameters \/ Close
  PROVE  app' = app
<1>1. CASE \/ VideoDropped \/ VideoTaken \/ VideoNoMemory \/ PreviewData \/ PictureData
         \/ OverlayFrame \/ NotifyFocus \/ VideoPush \/ VideoPost \/ VideoReturn
  BY <1>1 DEF VideoDropped, VideoTaken, VideoNoMemory, PreviewData, PictureData, OverlayFrame,
     NotifyFocus, VideoPush, VideoPost, VideoReturn, Unread
<1>2. CASE \/ DataDrop \/ DataMake \/ DataPost \/ DataDone \/ OverlayFormat \/ Dequeue
         \/ LockBuffer \/ Enqueue
  BY <1>2 DEF DataDrop, DataMake, DataPost, DataDone, OverlayFormat, Dequeue, LockBuffer,
     Enqueue, Unread, Undrawn
<1>3. CASE \/ ScheduleSignals \/ ScheduleRequests \/ ScheduleRuns \/ TorchThread
  BY <1>3 DEF ScheduleSignals, ScheduleRequests, ScheduleRuns, TorchThread
<1>4. CASE \/ Open \/ SetPreviewWindow \/ StartRecording \/ StopRecording \/ TakePicture
         \/ CancelPicture \/ SetCameraParameters \/ Close
  BY <1>4 DEF Open, SetPreviewWindow, StartRecording, StopRecording, TakePicture, CancelPicture,
     SetCameraParameters, Close
<1> QED BY <1>1, <1>2, <1>3, <1>4

(* Where the other steps find the application and where they leave it.      *)
LEMMA ApplicationMoves ==
  ASSUME Types
  PROVE  /\ ReleaseRecordingFrame => AppAt("idle")
         /\ DisableVideoFrames => AppAt("idle") /\ app' = [pc |-> "sweep", i |-> 1]
         /\ Release => AppAt("idle") /\ app' = [pc |-> "sweepRel", i |-> 1]
         /\ EraseFrame => AppAt("erase") /\ app' = Ready
         /\ SweepFrame => InSweep /\ app'.pc = app.pc /\ app'.i = app.i + 1
         /\ SweepEnds => InSweep /\ app'.pc \in {"clear", "clearRel"} /\ app'.i = app.i
         /\ ClearFrames => app.pc \in {"clear", "clearRel"} /\ app' \in {Ready, [pc |-> "dropData", i |-> 1]}
         /\ ReleaseData => AppAt("dropData") /\ app' = [pc |-> "nullData", i |-> 1]
         /\ ReleaseNulls => AppAt("nullData") /\ app' = [pc |-> "library", i |-> 1]
         /\ ReleaseLibrary => AppAt("library") /\ app' = [pc |-> "torchOff", i |-> 1]
         /\ DestroyTorchOff => AppAt("torchOff") /\ app' = [pc |-> "torchSignal", i |-> 1]
         /\ DestroySignals => AppAt("torchSignal") /\ app' = [pc |-> "torchRequest", i |-> 1]
         /\ DestroyRequests => AppAt("torchRequest") /\ app' = [pc |-> "torchWait", i |-> 1]
         /\ DestroyWaits => AppAt("torchWait") /\ app' = Ready
<1>1. ASSUME ReleaseRecordingFrame PROVE AppAt("idle")
  BY <1>1 DEF ReleaseRecordingFrame, Free
<1>2. ASSUME DisableVideoFrames PROVE AppAt("idle") /\ app' = [pc |-> "sweep", i |-> 1]
  BY <1>2 DEF DisableVideoFrames, AppGoes, Free
<1>3. ASSUME Release PROVE AppAt("idle") /\ app' = [pc |-> "sweepRel", i |-> 1]
  BY <1>3 DEF Release, AppGoes, Free
<1>4. ASSUME EraseFrame PROVE AppAt("erase") /\ app' = Ready
  BY <1>4 DEF EraseFrame, AppEnds
<1>5. ASSUME SweepFrame PROVE InSweep /\ app'.pc = app.pc /\ app'.i = app.i + 1
  BY <1>5 DEF SweepFrame, Types, AppRecs
<1>6. ASSUME SweepEnds PROVE InSweep /\ app'.pc \in {"clear", "clearRel"} /\ app'.i = app.i
  BY <1>6 DEF SweepEnds, InSweep, Types, AppRecs
<1>7. ASSUME ClearFrames PROVE app.pc \in {"clear", "clearRel"} /\ app' \in {Ready, [pc |-> "dropData", i |-> 1]}
  BY <1>7 DEF ClearFrames, AppGoes, AppEnds
<1>8. ASSUME ReleaseData PROVE AppAt("dropData") /\ app' = [pc |-> "nullData", i |-> 1]
  BY <1>8 DEF ReleaseData, AppGoes
<1>9. ASSUME ReleaseNulls PROVE AppAt("nullData") /\ app' = [pc |-> "library", i |-> 1]
  BY <1>9 DEF ReleaseNulls, AppGoes
<1>10. ASSUME ReleaseLibrary PROVE AppAt("library") /\ app' = [pc |-> "torchOff", i |-> 1]
  BY <1>10 DEF ReleaseLibrary, AppGoes
<1>11. ASSUME DestroyTorchOff PROVE AppAt("torchOff") /\ app' = [pc |-> "torchSignal", i |-> 1]
  BY <1>11 DEF DestroyTorchOff, AppGoes
<1>12. ASSUME DestroySignals PROVE AppAt("torchSignal") /\ app' = [pc |-> "torchRequest", i |-> 1]
  BY <1>12 DEF DestroySignals, AppGoes
<1>13. ASSUME DestroyRequests PROVE AppAt("torchRequest") /\ app' = [pc |-> "torchWait", i |-> 1]
  BY <1>13 DEF DestroyRequests, AppGoes
<1>14. ASSUME DestroyWaits PROVE AppAt("torchWait") /\ app' = Ready
  BY <1>14 DEF DestroyWaits, AppEnds
<1> QED BY <1>1, <1>2, <1>3, <1>4, <1>5, <1>6, <1>7, <1>8, <1>9, <1>10, <1>11, <1>12, <1>13,
   <1>14
(* The thresholds are naturals.                                             *)
LEMMA Thresholds == Throttle \in Nat /\ Soft \in Nat /\ Hard \in Nat /\ Throttle <= Soft /\ Soft <= Hard
BY ThresholdAssumption

(* The encoder never falls behind by more.                                  *)
LEMMA LagKept ==
  ASSUME IInv, Next
  PROVE  Lag'
<1> DEFINE Calm == /\ UNCHANGED <<sent, lastVideo, prevDropped>>
                   /\ cb' = cb \/ cb'.pc # "push"
<1>1. Types /\ Position
  BY DEF IInv
<1>2. Calm => Lag'
  <2> SUFFICES ASSUME Calm PROVE Lag'
    OBVIOUS
  <2>1. cb'.pc = "push" => cb.pc = "push"
    OBVIOUS
  <2>2. Lag /\ sent' = sent /\ lastVideo' = lastVideo /\ prevDropped' = prevDropped
    BY DEF IInv
  <2> HIDE DEF Calm
  <2> QED BY <2>1, <2>2 DEF Lag, At
<1>3. CASE VideoDropped
  <2>1. Len(sent) \in Nat /\ Lag
    BY <1>1, LenProperties DEF Types, IInv
  <2>2. /\ prevDropped' = TRUE /\ sent' = sent /\ cb' = cb /\ MustDrop(Len(sent))
        /\ lastVideo' = IF lastVideo = "dropped" /\ Len(sent) <= Hard
                          THEN "dropped too" ELSE "dropped"
    BY <1>3 DEF VideoDropped, frameVars
  <2>3. ASSUME lastVideo = "dropped" PROVE Len(sent) > Hard
    <3>1. prevDropped = TRUE
      BY <2>1, <2>3, <1>1 DEF Lag, Types
    <3>2. Len(sent) > Hard
      BY <2>2, <3>1 DEF MustDrop
    <3> QED BY <3>2
  <2>4. lastVideo' = "dropped"
    <3>1. ~(lastVideo = "dropped" /\ Len(sent) <= Hard)
      BY <2>1, <2>3, Thresholds
    <3> QED BY <2>2, <3>1
  <2> QED BY <2>1, <2>2, <2>4 DEF Lag, At
<1>4. CASE VideoTaken
  <2>1. Len(sent) \in Nat /\ Lag
    BY <1>1, LenProperties DEF Types, IInv
  <2>2. sent' = sent /\ lastVideo' = lastVideo /\ prevDropped' = prevDropped /\ ~MustDrop(Len(sent))
    BY <1>4 DEF VideoTaken, videoVars
  <2>3. Len(sent) <= Hard
    BY <2>1, <2>2, Thresholds DEF MustDrop
  <2> QED BY <2>1, <2>2, <2>3 DEF Lag
<1>5. CASE VideoNoMemory
  <2>1. lastVideo' = "failed" /\ sent' = sent /\ cb' = cb
    BY <1>5 DEF VideoNoMemory
  <2> QED BY <2>1 DEF IInv, Lag, At
<1>6. ASSUME PreviewData \/ PictureData \/ OverlayFrame \/ NotifyFocus
      PROVE  Calm
  <2>1. UNCHANGED <<sent, lastVideo, prevDropped>>
    BY <1>6 DEF PreviewData, PictureData, OverlayFrame, NotifyFocus, frameVars, videoVars,
       Unread, NotTorch
  <2>2. cb' = cb \/ cb'.pc # "push"
    BY <1>6, <1>1, CallbackMoves, CallbackStays
  <2> QED BY <2>1, <2>2
<1>7. CASE VideoPush
  <2>1. /\ At("push") /\ cb' = [cb EXCEPT !.pc = "post"]
        /\ lastVideo' = lastVideo /\ prevDropped' = prevDropped
        /\ sent' = Append(sent, cb.mem) \/ sent' = sent
    BY <1>7 DEF VideoPush, CbGoes, videoVars
  <2>2. cb.mem \in Nat /\ cb'.pc = "post"
    BY <2>1, <1>1 DEF Types, CbRecs
  <2>3. Len(sent) \in Nat /\ Lag /\ sent \in Seq(Nat)
    BY <1>1, LenProperties DEF Types, IInv
  <2>4. Len(sent') = Len(sent) \/ Len(sent') = Len(sent) + 1
    BY <2>1, <2>2, <2>3, AppendProperties
  <2>5. Len(sent) <= Hard
    BY <2>1, <2>3 DEF Lag
  <2>6. Len(sent') <= Hard + 1
    BY <2>3, <2>4, <2>5, Thresholds
  <2> QED BY <2>1, <2>2, <2>3, <2>6 DEF Lag, At
<1>8. CASE VideoReturn
  <2>1. prevDropped' = FALSE /\ lastVideo' = "sent" /\ sent' = sent /\ cb'.pc = "idle"
    BY <1>8 DEF VideoReturn, frameVars, CbEnds, Idle
  <2> QED BY <2>1 DEF IInv, Lag, At
<1>9. ASSUME VideoPost
      PROVE  Calm
  <2>1. UNCHANGED <<sent, lastVideo, prevDropped>>
    BY <1>9 DEF VideoPost, videoVars
  <2>2. cb' = cb \/ cb'.pc # "push"
    BY <1>9, <1>1, CallbackMoves, CallbackStays
  <2> QED BY <2>1, <2>2
<1>10. ASSUME DataDrop \/ DataMake \/ DataPost \/ DataDone \/ OverlayFormat
       PROVE  Calm
  <2>1. UNCHANGED <<sent, lastVideo, prevDropped>>
    BY <1>10 DEF DataDrop, DataMake, DataPost, DataDone, OverlayFormat, Unread, frameVars,
       videoVars
  <2>2. cb' = cb \/ cb'.pc # "push"
    BY <1>10, <1>1, CallbackMoves, CallbackStays
  <2> QED BY <2>1, <2>2
<1>11. ASSUME Dequeue \/ LockBuffer \/ Enqueue
       PROVE  Calm
  <2>1. UNCHANGED <<sent, lastVideo, prevDropped>>
    BY <1>11 DEF Dequeue, LockBuffer, Enqueue, Undrawn, frameVars, videoVars
  <2>2. cb' = cb \/ cb'.pc # "push"
    BY <1>11, <1>1, CallbackMoves, CallbackStays
  <2> QED BY <2>1, <2>2
<1>12. ASSUME ScheduleSignals \/ ScheduleRequests \/ ScheduleRuns \/ TorchThread
       PROVE  Calm
  <2>1. UNCHANGED <<sent, lastVideo, prevDropped>>
    BY <1>12 DEF ScheduleSignals, ScheduleRequests, ScheduleRuns, TorchThread, NotTorch,
       frameVars, videoVars
  <2>2. cb' = cb \/ cb'.pc # "push"
    BY <1>12, <1>1, CallbackMoves, CallbackStays
  <2> QED BY <2>1, <2>2
<1>13. CASE StartRecording
  <2>1. prevDropped' = FALSE /\ lastVideo' = None /\ sent' = sent /\ cb' = cb
    BY <1>13 DEF StartRecording, Quiet
  <2> QED BY <2>1 DEF IInv, Lag, At, None
<1>14. ASSUME Open \/ SetPreviewWindow \/ StopRecording
       PROVE  Calm
  <2>1. UNCHANGED <<sent, lastVideo, prevDropped>>
    BY <1>14 DEF Open, SetPreviewWindow, StopRecording, videoVars, frameVars
  <2>2. cb' = cb \/ cb'.pc # "push"
    BY <1>14, <1>1, CallbackMoves, CallbackStays
  <2> QED BY <2>1, <2>2
<1>15. CASE EraseFrame
  <2>1. sent' = RemoveAt(sent, app.i) /\ cb' = cb /\ UNCHANGED <<lastVideo, prevDropped>>
    BY <1>15 DEF EraseFrame, Quiet, videoVars
  <2>2. sent \in Seq(Nat) /\ IsInjective(sent) /\ app.i \in 1 .. Len(sent)
    BY <1>15, <1>1 DEF EraseFrame, Types, Position, IInv, FramesKept
  <2>3. Len(sent') = Len(sent) - 1 /\ Len(sent) \in Nat
    BY <2>1, <2>2, Erased, LenProperties
  <2>4. Lag /\ Len(sent) <= Hard + 1
    BY DEF IInv, Lag
  <2>5. Len(sent') <= Hard + 1 /\ (Len(sent) <= Hard => Len(sent') <= Hard)
    BY <2>3, <2>4, Thresholds
  <2> QED BY <2>1, <2>4, <2>5 DEF Lag, At
<1>16. ASSUME ReleaseRecordingFrame \/ DisableVideoFrames \/ TakePicture \/ CancelPicture
              \/ SetCameraParameters
       PROVE  Calm
  <2>1. UNCHANGED <<sent, lastVideo, prevDropped>>
    BY <1>16 DEF ReleaseRecordingFrame, DisableVideoFrames, TakePicture, CancelPicture,
       SetCameraParameters, videoVars
  <2>2. cb' = cb \/ cb'.pc # "push"
    BY <1>16, <1>1, CallbackMoves, CallbackStays
  <2> QED BY <2>1, <2>2
<1>17. CASE ClearFrames
  <2>1. sent' = <<>> /\ cb' = cb /\ UNCHANGED <<lastVideo, prevDropped>>
    BY <1>17 DEF ClearFrames, videoVars
  <2>2. Len(sent') = 0 /\ 0 <= Hard /\ 0 <= Hard + 1
    BY <2>1, Thresholds
  <2> QED BY <2>1, <2>2 DEF IInv, Lag, At
<1>18. CASE Close
  <2>1. sent' = <<>> /\ cb' = cb /\ UNCHANGED <<lastVideo, prevDropped>>
    BY <1>18 DEF Close, videoVars
  <2>2. Len(sent') = 0 /\ 0 <= Hard /\ 0 <= Hard + 1
    BY <2>1, Thresholds
  <2> QED BY <2>1, <2>2 DEF IInv, Lag, At
<1>19. ASSUME SweepFrame \/ SweepEnds \/ Release
       PROVE  Calm
  <2>1. UNCHANGED <<sent, lastVideo, prevDropped>>
    BY <1>19 DEF SweepFrame, SweepEnds, Release, videoVars
  <2>2. cb' = cb \/ cb'.pc # "push"
    BY <1>19, <1>1, CallbackMoves, CallbackStays
  <2> QED BY <2>1, <2>2
<1>20. ASSUME ReleaseData \/ ReleaseNulls \/ ReleaseLibrary
       PROVE  Calm
  <2>1. UNCHANGED <<sent, lastVideo, prevDropped>>
    BY <1>20 DEF ReleaseData, ReleaseNulls, ReleaseLibrary, frameVars, videoVars
  <2>2. cb' = cb \/ cb'.pc # "push"
    BY <1>20, <1>1, CallbackMoves, CallbackStays
  <2> QED BY <2>1, <2>2
<1>21. ASSUME DestroyTorchOff \/ DestroySignals \/ DestroyRequests \/ DestroyWaits
       PROVE  Calm
  <2>1. UNCHANGED <<sent, lastVideo, prevDropped>>
    BY <1>21 DEF DestroyTorchOff, DestroySignals, DestroyRequests, DestroyWaits, NotTorch,
       frameVars, videoVars
  <2>2. cb' = cb \/ cb'.pc # "push"
    BY <1>21, <1>1, CallbackMoves, CallbackStays
  <2> QED BY <2>1, <2>2
<1> QED BY <1>2, <1>3, <1>4, <1>5, <1>6, <1>7, <1>8, <1>9, <1>10, <1>11, <1>12, <1>13, <1>14,
   <1>15, <1>16, <1>17, <1>18, <1>19, <1>20, <1>21 DEF Next, CallbackNext, CallbackGoesOn, AppNext, AppGoesOn

(* Nothing moves in a process that is dead.                                 *)
LEMMA StepLives == Next => Alive
<1>1. ASSUME VideoDropped \/ VideoTaken \/ VideoNoMemory \/ PreviewData \/ PictureData
             \/ OverlayFrame \/ NotifyFocus
      PROVE  Alive
  BY <1>1 DEF VideoDropped, VideoTaken, VideoNoMemory, PreviewData, PictureData, OverlayFrame,
     NotifyFocus, Calling, Free
<1>2. ASSUME VideoPush \/ VideoPost \/ VideoReturn
      PROVE  Alive
  BY <1>2 DEF VideoPush, VideoPost, VideoReturn, Calling, Free
<1>3. ASSUME DataDrop \/ DataMake \/ DataPost \/ DataDone \/ OverlayFormat
      PROVE  Alive
  BY <1>3 DEF DataDrop, DataMake, DataPost, DataDone, OverlayFormat, Calling, Free
<1>4. ASSUME Dequeue \/ LockBuffer \/ Enqueue
      PROVE  Alive
  BY <1>4 DEF Dequeue, LockBuffer, Enqueue, Calling, Free
<1>5. ASSUME ScheduleSignals \/ ScheduleRequests \/ ScheduleRuns \/ TorchThread
      PROVE  Alive
  BY <1>5 DEF ScheduleSignals, ScheduleRequests, ScheduleRuns, TorchThread, Calling, Free
<1>6. ASSUME Open \/ SetPreviewWindow \/ StartRecording \/ StopRecording
      PROVE  Alive
  BY <1>6 DEF Open, SetPreviewWindow, StartRecording, StopRecording, Calling, Free
<1>7. ASSUME ReleaseRecordingFrame \/ EraseFrame \/ DisableVideoFrames \/ TakePicture
             \/ CancelPicture \/ SetCameraParameters
      PROVE  Alive
  BY <1>7 DEF ReleaseRecordingFrame, EraseFrame, DisableVideoFrames, TakePicture, CancelPicture,
     SetCameraParameters, Calling, Free
<1>8. ASSUME SweepFrame \/ SweepEnds \/ ClearFrames \/ Release \/ Close
      PROVE  Alive
  BY <1>8 DEF SweepFrame, SweepEnds, ClearFrames, Release, Close, Calling, Free
<1>9. ASSUME ReleaseData \/ ReleaseNulls \/ ReleaseLibrary
      PROVE  Alive
  BY <1>9 DEF ReleaseData, ReleaseNulls, ReleaseLibrary, Calling, Free
<1>10. ASSUME DestroyTorchOff \/ DestroySignals \/ DestroyRequests \/ DestroyWaits
       PROVE  Alive
  BY <1>10 DEF DestroyTorchOff, DestroySignals, DestroyRequests, DestroyWaits, Calling, Free
<1> QED BY <1>1, <1>2, <1>3, <1>4, <1>5, <1>6, <1>7, <1>8, <1>9, <1>10 DEF Next, CallbackNext, CallbackGoesOn, AppNext, AppGoesOn

(* The records of the two threads stay in shape.                            *)
LEMMA CallbackGoing ==
  ASSUME Types
  PROVE  /\ \A pc \in CbPcs : CbGoes(pc) => cb' \in CbRecs
         /\ CbEnds => cb' \in CbRecs
<1>1. ASSUME NEW pc \in CbPcs, CbGoes(pc) PROVE cb' \in CbRecs
  BY <1>1 DEF CbGoes, CbRecs, Types
<1>2. ASSUME CbEnds PROVE cb' \in CbRecs
  BY <1>2 DEF CbEnds, CbRecs, CbPcs, Idle
<1> QED BY <1>1, <1>2

(* Every step leaves the callback thread a record of its own shape.         *)
LEMMA CallbackTyped == ASSUME IInv, Next PROVE cb' \in CbRecs
<1>1. Types /\ cb \in CbRecs
  BY DEF IInv, Types
<1>2. ASSUME VideoTaken PROVE cb' \in CbRecs
  <2>1. cb' = [Idle EXCEPT !.pc = "push", !.mem = Min(Unused)] /\ Min(Unused) \in Nat
    BY <1>1, <1>2, TakenUnused DEF VideoTaken
  <2> QED BY <2>1 DEF Idle, CbRecs, CbPcs
<1>3. ASSUME VideoPush PROVE cb' \in CbRecs
  BY <1>3, <1>1, CallbackGoing
     DEF VideoPush, CbPcs
<1>4. ASSUME VideoPost PROVE cb' \in CbRecs
  BY <1>4, <1>1, CallbackGoing
     DEF VideoPost, CbPcs
<1>5. ASSUME VideoReturn PROVE cb' \in CbRecs
  BY <1>5, <1>1, CallbackGoing
     DEF VideoReturn, CbPcs
<1>6. ASSUME PreviewData PROVE cb' \in CbRecs
  BY <1>6, <1>1
     DEF PreviewData, Idle, CbRecs, CbPcs
<1>7. ASSUME PictureData PROVE cb' \in CbRecs
  BY <1>7, <1>1
     DEF PictureData, Idle, CbRecs, CbPcs
<1>8. ASSUME OverlayFrame PROVE cb' \in CbRecs
  BY <1>8, <1>1
     DEF OverlayFrame, Idle, CbRecs, CbPcs
<1>9. ASSUME DataDrop PROVE cb' \in CbRecs
  BY <1>9, <1>1, CallbackGoing
     DEF DataDrop, CbPcs
<1>10. ASSUME DataPost PROVE cb' \in CbRecs
  BY <1>10, <1>1, CallbackGoing
     DEF DataPost, CbPcs
<1>11. ASSUME OverlayFormat PROVE cb' \in CbRecs
  BY <1>11, <1>1, CallbackGoing
     DEF OverlayFormat, CbPcs
<1>12. ASSUME Enqueue PROVE cb' \in CbRecs
  BY <1>12, <1>1, CallbackGoing
     DEF Enqueue, CbPcs
<1>13. ASSUME ScheduleSignals PROVE cb' \in CbRecs
  BY <1>13, <1>1, CallbackGoing
     DEF ScheduleSignals, CbPcs
<1>14. ASSUME ScheduleRequests PROVE cb' \in CbRecs
  BY <1>14, <1>1, CallbackGoing
     DEF ScheduleRequests, CbPcs
<1>15. ASSUME ScheduleRuns PROVE cb' \in CbRecs
  BY <1>15, <1>1, CallbackGoing
     DEF ScheduleRuns, CbPcs
<1>16. ASSUME DataMake PROVE cb' \in CbRecs
  <2>1. CbGoes("hand over") \/ CbGoes("handed")
    BY <1>16 DEF DataMake
  <2> QED BY <1>1, <2>1, CallbackGoing DEF CbPcs
<1>17. ASSUME DataDone PROVE cb' \in CbRecs
  <2>1. CbEnds \/ CbGoes("dequeue") \/ CbGoes("signal")
    BY <1>17 DEF DataDone
  <2> QED BY <1>1, <2>1, CallbackGoing DEF CbPcs
<1>18. ASSUME LockBuffer PROVE cb' \in CbRecs
  <2>1. CbEnds \/ CbGoes("enqueue")
    BY <1>18 DEF LockBuffer
  <2> QED BY <1>1, <2>1, CallbackGoing DEF CbPcs
<1>19. ASSUME Dequeue PROVE cb' \in CbRecs
  <2>1. CbEnds \/ (cb' = [Idle EXCEPT !.pc = "lock", !.win = window])
    BY <1>19 DEF Dequeue
  <2>2. CASE CbEnds
    BY <1>1, <2>2, CallbackGoing
  <2>3. CASE cb' = [Idle EXCEPT !.pc = "lock", !.win = window]
    BY <1>1, <2>3 DEF Idle, CbRecs, CbPcs, Types
  <2> QED BY <2>1, <2>2, <2>3
<1> QED BY <1>1, <1>2, <1>3, <1>4, <1>5, <1>6, <1>7, <1>8, <1>9, <1>10, <1>11, <1>12, <1>13,
   <1>14, <1>15, <1>16, <1>17, <1>18, <1>19, CallbackStays
   DEF Next, CallbackNext, CallbackGoesOn, AppNext, AppGoesOn

(* So does the application's.                                               *)
LEMMA ApplicationTyped == ASSUME IInv, Next PROVE app' \in AppRecs
<1>1. Types /\ app \in AppRecs
  BY DEF IInv, Types
<1>2. Ready \in AppRecs /\ \A pc \in AppPcs : [pc |-> pc, i |-> 1] \in AppRecs
  BY DEF Ready, AppRecs, AppPcs
<1>3. ASSUME ReleaseRecordingFrame PROVE app' \in AppRecs
  <2>1. CASE app' = app
    BY <1>1, <2>1
  <2>2. CASE \E i \in DOMAIN sent : app' = [pc |-> "erase", i |-> i]
    <3>1. DOMAIN sent \subseteq Nat
      BY <1>1, LenProperties DEF Types
    <3> QED BY <2>2, <3>1 DEF AppRecs, AppPcs
  <2> QED BY <1>3, <2>1, <2>2 DEF ReleaseRecordingFrame
<1>4. ASSUME SweepFrame PROVE app' \in AppRecs
  BY <1>1, <1>4 DEF SweepFrame, AppRecs
<1>5. ASSUME SweepEnds PROVE app' \in AppRecs
  <2>1. app' = [app EXCEPT !.pc = "clear"] \/ app' = [app EXCEPT !.pc = "clearRel"]
    <3>1. CASE app.pc = "sweep"
      BY <1>1, <1>5, <3>1 DEF SweepEnds, AppRecs
    <3>2. CASE app.pc # "sweep"
      BY <1>1, <1>5, <3>2 DEF SweepEnds, AppRecs
    <3> QED BY <3>1, <3>2
  <2>2. CASE app' = [app EXCEPT !.pc = "clear"]
    BY <1>1, <2>2 DEF AppRecs, AppPcs
  <2>3. CASE app' = [app EXCEPT !.pc = "clearRel"]
    BY <1>1, <2>3 DEF AppRecs, AppPcs
  <2> QED BY <2>1, <2>2, <2>3
<1>6. ASSUME ClearFrames PROVE app' \in AppRecs
  BY <1>1, <1>2, <1>6, ApplicationMoves DEF AppPcs
<1>7. ASSUME DisableVideoFrames \/ Release \/ EraseFrame PROVE app' \in AppRecs
  BY <1>1, <1>2, <1>7, ApplicationMoves DEF AppPcs
<1>8. ASSUME ReleaseData \/ ReleaseNulls \/ ReleaseLibrary PROVE app' \in AppRecs
  BY <1>1, <1>2, <1>8, ApplicationMoves DEF AppPcs
<1>9. ASSUME DestroyTorchOff \/ DestroySignals \/ DestroyRequests \/ DestroyWaits PROVE app' \in AppRecs
  BY <1>1, <1>2, <1>9, ApplicationMoves DEF AppPcs
<1> QED BY <1>1, <1>3, <1>4, <1>5, <1>6, <1>7, <1>8, <1>9, ApplicationStays
   DEF Next, CallbackNext, CallbackGoesOn, AppNext, AppGoesOn

(* A step of a process that lives dies only where the threads collide.      *)
LEMMA FaultsKept ==
  ASSUME IInv, Next
  PROVE  fault' \in Faults /\ FaultsNeedTwo'
<1> DEFINE Calm == fault' = fault /\ Alive
<1>1. Types /\ Position
  BY DEF IInv
<1>2. Calm => fault' \in Faults /\ FaultsNeedTwo'
  BY DEF Alive, FaultsNeedTwo, Faults
<1>3. ASSUME VideoDropped \/ VideoTaken \/ VideoNoMemory \/ PreviewData \/ PictureData
             \/ OverlayFrame \/ NotifyFocus
      PROVE  Calm
  <2>1. UNCHANGED <<fault>>
    BY <1>3 DEF VideoDropped, VideoTaken, VideoNoMemory, PreviewData, PictureData, OverlayFrame,
       NotifyFocus, NotTorch
  <2>2. Alive
    BY <1>3 DEF VideoDropped, VideoTaken, VideoNoMemory, PreviewData, PictureData, OverlayFrame,
       NotifyFocus, Calling, Free, Alive
  <2> QED BY <2>1, <2>2
<1>4. CASE VideoPush
  <2>1. fault' = "no" \/ (fault' = "vector" /\ Walking)
    BY <1>4 DEF VideoPush, Alive
  <2>2. app' = app
    BY <1>4, ApplicationStays
  <2> QED BY <2>1, <2>2 DEF FaultsNeedTwo, Faults, Walking, AppAt
<1>5. ASSUME VideoPost \/ VideoReturn
      PROVE  Calm
  <2>1. UNCHANGED <<fault>>
    BY <1>5 DEF VideoPost, VideoReturn
  <2>2. Alive
    BY <1>5 DEF VideoPost, VideoReturn, Calling, Free, Alive
  <2> QED BY <2>1, <2>2
<1>6. CASE DataDrop
  <2>1. fault' = IF clientData = "freed" THEN "double release" ELSE "no"
    BY <1>6 DEF DataDrop
  <2>2. app' = app /\ At("drop") /\ Alive
    BY <1>6 DEF DataDrop, Unread
  <2>3. clientData = "freed" => AppAt("nullData")
    BY <2>2 DEF IInv, DataOwned, At
  <2> QED BY <2>1, <2>2, <2>3 DEF FaultsNeedTwo, Faults, AppAt
<1>7. CASE DataPost
  <2>1. fault' = IF clientData = "live" THEN "no" ELSE "stale data"
    BY <1>7 DEF DataPost
  <2>2. app' = app /\ At("hand over") /\ Alive
    BY <1>7 DEF DataPost, Unread
  <2>3. clientData = "live" \/ app.pc \in {"nullData", "library"}
    BY <2>2 DEF IInv, DataOwned
  <2> QED BY <2>1, <2>2, <2>3 DEF FaultsNeedTwo, Faults
<1>8. CASE OverlayFormat
  <2>1. fault' = (IF overlay THEN "no" ELSE "null overlay") /\ overlay' = overlay
    BY <1>8 DEF OverlayFormat, Unread
  <2> QED BY <2>1 DEF FaultsNeedTwo, Faults
<1>9. ASSUME DataMake \/ DataDone
      PROVE  Calm
  <2>1. UNCHANGED <<fault>>
    BY <1>9 DEF DataMake, DataDone
  <2>2. Alive
    BY <1>9 DEF DataMake, DataDone, Calling, Free, Alive
  <2> QED BY <2>1, <2>2
<1>10. CASE LockBuffer
  <2>1. fault' = (IF window = None THEN "null window" ELSE "no") /\ window' = window
    BY <1>10 DEF LockBuffer, Undrawn, deviceVars
  <2> QED BY <2>1 DEF FaultsNeedTwo, Faults
<1>11. CASE Enqueue
  <2>1. fault' = (IF window = None THEN "null window" ELSE "no") /\ window' = window
    BY <1>11 DEF Enqueue, Undrawn, deviceVars
  <2> QED BY <2>1 DEF FaultsNeedTwo, Faults
<1>12. ASSUME Dequeue
       PROVE  Calm
  <2>1. UNCHANGED <<fault>>
    BY <1>12 DEF Dequeue
  <2>2. Alive
    BY <1>12 DEF Dequeue, Calling, Free, Alive
  <2> QED BY <2>1, <2>2
<1>13. ASSUME ScheduleSignals \/ ScheduleRequests \/ ScheduleRuns \/ TorchThread
       PROVE  Calm
  <2>1. UNCHANGED <<fault>>
    BY <1>13 DEF ScheduleSignals, ScheduleRequests, ScheduleRuns, TorchThread, NotTorch
  <2>2. Alive
    BY <1>13 DEF ScheduleSignals, ScheduleRequests, ScheduleRuns, TorchThread, Calling, Free,
       Alive
  <2> QED BY <2>1, <2>2
<1>14. ASSUME Open \/ SetPreviewWindow \/ StartRecording \/ StopRecording
       PROVE  Calm
  <2>1. UNCHANGED <<fault>>
    BY <1>14 DEF Open, SetPreviewWindow, StartRecording, StopRecording, Quiet
  <2>2. Alive
    BY <1>14 DEF Open, SetPreviewWindow, StartRecording, StopRecording, Calling, Free, Alive
  <2> QED BY <2>1, <2>2
<1>15. ASSUME ReleaseRecordingFrame \/ EraseFrame \/ DisableVideoFrames \/ TakePicture
              \/ CancelPicture \/ SetCameraParameters
       PROVE  Calm
  <2>1. UNCHANGED <<fault>>
    BY <1>15 DEF ReleaseRecordingFrame, EraseFrame, DisableVideoFrames, TakePicture,
       CancelPicture, SetCameraParameters, Quiet
  <2>2. Alive
    BY <1>15 DEF ReleaseRecordingFrame, EraseFrame, DisableVideoFrames, TakePicture,
       CancelPicture, SetCameraParameters, Calling, Free, Alive
  <2> QED BY <2>1, <2>2
<1>16. ASSUME SweepFrame \/ SweepEnds \/ ClearFrames \/ Release \/ Close
       PROVE  Calm
  <2>1. UNCHANGED <<fault>>
    BY <1>16 DEF SweepFrame, SweepEnds, ClearFrames, Release, Close, Quiet
  <2>2. Alive
    BY <1>16 DEF SweepFrame, SweepEnds, ClearFrames, Release, Close, Calling, Free, Alive
  <2> QED BY <2>1, <2>2
<1>17. CASE ReleaseData
  <2>1. fault' = IF clientData = "freed" THEN "double release" ELSE "no"
    BY <1>17 DEF ReleaseData
  <2>2. app'.pc = "nullData"
    BY <1>1, <1>17, ApplicationMoves
  <2> QED BY <2>1, <2>2 DEF FaultsNeedTwo, Faults
<1>18. ASSUME ReleaseNulls \/ ReleaseLibrary
       PROVE  Calm
  <2>1. UNCHANGED <<fault>>
    BY <1>18 DEF ReleaseNulls, ReleaseLibrary, Quiet
  <2>2. Alive
    BY <1>18 DEF ReleaseNulls, ReleaseLibrary, Calling, Free, Alive
  <2> QED BY <2>1, <2>2
<1>19. ASSUME DestroyTorchOff \/ DestroySignals \/ DestroyRequests \/ DestroyWaits
       PROVE  Calm
  <2>1. UNCHANGED <<fault>>
    BY <1>19 DEF DestroyTorchOff, DestroySignals, DestroyRequests, DestroyWaits, NotTorch
  <2>2. Alive
    BY <1>19 DEF DestroyTorchOff, DestroySignals, DestroyRequests, DestroyWaits, Calling, Free,
       Alive
  <2> QED BY <2>1, <2>2
<1> QED BY <1>2, <1>3, <1>4, <1>5, <1>6, <1>7, <1>8, <1>9, <1>10, <1>11, <1>12, <1>13, <1>14,
   <1>15, <1>16, <1>17, <1>18, <1>19 DEF Next, CallbackNext, CallbackGoesOn, AppNext, AppGoesOn

(* The library has the offset of what was asked.                            *)
LEMMA ExposedKept ==
  ASSUME IInv, Next
  PROVE  asked' \in Int /\ Exposed'
<1> DEFINE Calm == UNCHANGED <<asked, offset>>
<1>1. Types /\ Position
  BY DEF IInv
<1>2. Calm => asked' \in Int /\ Exposed'
  BY <1>1 DEF IInv, Exposed, Types
<1>3. ASSUME VideoDropped \/ VideoTaken \/ VideoNoMemory \/ PreviewData \/ PictureData
             \/ OverlayFrame \/ NotifyFocus
      PROVE  Calm
  <2>1. UNCHANGED <<asked, offset>>
    BY <1>3 DEF VideoDropped, VideoTaken, VideoNoMemory, PreviewData, PictureData, OverlayFrame,
       NotifyFocus, paramVars, Unread, NotTorch
  <2> QED BY <2>1
<1>4. ASSUME VideoPush \/ VideoPost \/ VideoReturn
      PROVE  Calm
  <2>1. UNCHANGED <<asked, offset>>
    BY <1>4 DEF VideoPush, VideoPost, VideoReturn, paramVars
  <2> QED BY <2>1
<1>5. ASSUME DataDrop \/ DataMake \/ DataPost \/ DataDone \/ OverlayFormat
      PROVE  Calm
  <2>1. UNCHANGED <<asked, offset>>
    BY <1>5 DEF DataDrop, DataMake, DataPost, DataDone, OverlayFormat, Unread, paramVars
  <2> QED BY <2>1
<1>6. ASSUME Dequeue \/ LockBuffer \/ Enqueue
      PROVE  Calm
  <2>1. UNCHANGED <<asked, offset>>
    BY <1>6 DEF Dequeue, LockBuffer, Enqueue, Undrawn, paramVars
  <2> QED BY <2>1
<1>7. ASSUME ScheduleSignals \/ ScheduleRequests \/ ScheduleRuns \/ TorchThread
      PROVE  Calm
  <2>1. UNCHANGED <<asked, offset>>
    BY <1>7 DEF ScheduleSignals, ScheduleRequests, ScheduleRuns, TorchThread, NotTorch,
       paramVars
  <2> QED BY <2>1
<1>8. CASE Open
  <2>1. asked' = 0 /\ offset' = 0
    BY <1>8 DEF Open, NewWrapper
  <2>2. Sign(0) = 1 /\ Abs(0) = 0 /\ Round(0, 3) = 0
    BY DEF Round, Sign, Abs
  <2>3. ExposureOffset(0) = 0
    <3>1. Even(0)
      BY <2>2 DEF Even
    <3> QED BY <3>1, <2>2 DEF ExposureOffset
  <2> QED BY <2>1, <2>3 DEF Exposed
<1>9. ASSUME SetPreviewWindow \/ StartRecording \/ StopRecording
      PROVE  Calm
  <2>1. UNCHANGED <<asked, offset>>
    BY <1>9 DEF SetPreviewWindow, StartRecording, StopRecording, paramVars
  <2> QED BY <2>1
<1>10. CASE SetCameraParameters
  <2>1. PICK s \in Settings[camera] : SetParameters(s[1], s[2], s[3])
    BY <1>10 DEF SetCameraParameters
  <2>2. s[3] \in Int
    BY <1>1, BoundAssumption DEF Types
  <2>3. asked' = s[3] /\ offset' = ExposureOffset(s[3])
    BY <2>1 DEF SetParameters
  <2> QED BY <2>2, <2>3 DEF Exposed
<1>11. ASSUME ReleaseRecordingFrame \/ EraseFrame \/ DisableVideoFrames \/ TakePicture
              \/ CancelPicture
       PROVE  Calm
  <2>1. UNCHANGED <<asked, offset>>
    BY <1>11 DEF ReleaseRecordingFrame, EraseFrame, DisableVideoFrames, TakePicture,
       CancelPicture, paramVars
  <2> QED BY <2>1
<1>12. ASSUME SweepFrame \/ SweepEnds \/ ClearFrames \/ Release \/ Close
       PROVE  Calm
  <2>1. UNCHANGED <<asked, offset>>
    BY <1>12 DEF SweepFrame, SweepEnds, ClearFrames, Release, Close, paramVars
  <2> QED BY <2>1
<1>13. ASSUME ReleaseData \/ ReleaseNulls \/ ReleaseLibrary
       PROVE  Calm
  <2>1. UNCHANGED <<asked, offset>>
    BY <1>13 DEF ReleaseData, ReleaseNulls, ReleaseLibrary, paramVars
  <2> QED BY <2>1
<1>14. ASSUME DestroyTorchOff \/ DestroySignals \/ DestroyRequests \/ DestroyWaits
       PROVE  Calm
  <2>1. UNCHANGED <<asked, offset>>
    BY <1>14 DEF DestroyTorchOff, DestroySignals, DestroyRequests, DestroyWaits, NotTorch,
       paramVars
  <2> QED BY <2>1
<1> QED BY <1>2, <1>3, <1>4, <1>5, <1>6, <1>7, <1>8, <1>9, <1>10, <1>11, <1>12, <1>13, <1>14 DEF Next, CallbackNext, CallbackGoesOn, AppNext, AppGoesOn

(* The last message's data stays accounted for.                             *)
LEMMA DataKept ==
  ASSUME IInv, Next
  PROVE  DataOwned'
<1> DEFINE Calm == /\ UNCHANGED clientData
                   /\ cb' = cb \/ {cb.pc, cb'.pc} \cap {"make", "hand over"} = {}
                   /\ app' = app \/ {app.pc, app'.pc} \cap {"nullData", "library"} = {}
<1>1. Types /\ Position
  BY DEF IInv
<1>2. Calm => DataOwned'
  <2> SUFFICES ASSUME Calm PROVE DataOwned'
    OBVIOUS
  <2>1. (cb.pc = "make" <=> cb'.pc = "make") /\ (cb.pc = "hand over" <=> cb'.pc = "hand over")
    OBVIOUS
  <2>2. (app.pc = "nullData" <=> app'.pc = "nullData") /\ (app.pc = "library" <=> app'.pc = "library")
    OBVIOUS
  <2>3. DataOwned /\ clientData' = clientData
    BY DEF IInv
  <2>4. Alive
    BY StepLives
  <2> HIDE DEF Calm
  <2> QED BY <2>1, <2>2, <2>3, <2>4 DEF DataOwned, At, AppAt
<1>3. ASSUME VideoDropped \/ VideoTaken \/ VideoNoMemory \/ PreviewData \/ PictureData
             \/ OverlayFrame \/ NotifyFocus
      PROVE  Calm
  <2>1. UNCHANGED clientData
    BY <1>3 DEF VideoDropped, VideoTaken, VideoNoMemory, PreviewData, PictureData, OverlayFrame,
       NotifyFocus, deviceVars, NotTorch
  <2>2. cb' = cb \/ {cb.pc, cb'.pc} \cap {"make", "hand over"} = {}
    BY <1>3, <1>1, CallbackMoves, CallbackStays DEF At
  <2>3. app' = app \/ {app.pc, app'.pc} \cap {"nullData", "library"} = {}
    BY <1>3, <1>1, ApplicationMoves, ApplicationStays DEF AppAt, Ready, InSweep
  <2> QED BY <2>1, <2>2, <2>3
<1>4. ASSUME VideoPush \/ VideoPost \/ VideoReturn
      PROVE  Calm
  <2>1. UNCHANGED clientData
    BY <1>4 DEF VideoPush, VideoPost, VideoReturn, deviceVars
  <2>2. cb' = cb \/ {cb.pc, cb'.pc} \cap {"make", "hand over"} = {}
    BY <1>4, <1>1, CallbackMoves, CallbackStays DEF At
  <2>3. app' = app \/ {app.pc, app'.pc} \cap {"nullData", "library"} = {}
    BY <1>4, <1>1, ApplicationMoves, ApplicationStays DEF AppAt, Ready, InSweep
  <2> QED BY <2>1, <2>2, <2>3
<1>5. CASE DataDrop
  <2>1. /\ cb'.pc = "make" /\ app' = app
    BY <1>1, <1>5, CallbackMoves, ApplicationStays
  <2> QED BY <2>1 DEF DataOwned, At
<1>6. CASE DataMake
  <2>1. app' = app /\ (clientData' = "live" \/ cb'.pc # "hand over") /\ clientData' # "freed"
    BY <1>1, <1>6, CallbackMoves, ApplicationStays
  <2> QED BY <2>1 DEF DataOwned, At
<1>7. CASE DataPost
  <2>1. cb'.pc = "handed" /\ app' = app /\ clientData' = clientData /\ At("hand over") /\ Alive
    BY <1>1, <1>7, CallbackMoves, ApplicationStays DEF DataPost
  <2> QED BY <2>1 DEF IInv, DataOwned, At, AppAt
<1>8. ASSUME DataDone \/ OverlayFormat
      PROVE  Calm
  <2>1. UNCHANGED clientData
    BY <1>8 DEF DataDone, OverlayFormat
  <2>2. cb' = cb \/ {cb.pc, cb'.pc} \cap {"make", "hand over"} = {}
    BY <1>8, <1>1, CallbackMoves, CallbackStays DEF At
  <2>3. app' = app \/ {app.pc, app'.pc} \cap {"nullData", "library"} = {}
    BY <1>8, <1>1, ApplicationMoves, ApplicationStays DEF AppAt, Ready, InSweep
  <2> QED BY <2>1, <2>2, <2>3
<1>9. ASSUME Dequeue \/ LockBuffer \/ Enqueue
      PROVE  Calm
  <2>1. UNCHANGED clientData
    BY <1>9 DEF Dequeue, LockBuffer, Enqueue, Undrawn, deviceVars
  <2>2. cb' = cb \/ {cb.pc, cb'.pc} \cap {"make", "hand over"} = {}
    BY <1>9, <1>1, CallbackMoves, CallbackStays DEF At
  <2>3. app' = app \/ {app.pc, app'.pc} \cap {"nullData", "library"} = {}
    BY <1>9, <1>1, ApplicationMoves, ApplicationStays DEF AppAt, Ready, InSweep
  <2> QED BY <2>1, <2>2, <2>3
<1>10. ASSUME ScheduleSignals \/ ScheduleRequests \/ ScheduleRuns \/ TorchThread
       PROVE  Calm
  <2>1. UNCHANGED clientData
    BY <1>10 DEF ScheduleSignals, ScheduleRequests, ScheduleRuns, TorchThread, NotTorch,
       deviceVars
  <2>2. cb' = cb \/ {cb.pc, cb'.pc} \cap {"make", "hand over"} = {}
    BY <1>10, <1>1, CallbackMoves, CallbackStays DEF At
  <2>3. app' = app \/ {app.pc, app'.pc} \cap {"nullData", "library"} = {}
    BY <1>10, <1>1, ApplicationMoves, ApplicationStays DEF AppAt, Ready, InSweep
  <2> QED BY <2>1, <2>2, <2>3
<1>11. CASE Open
  <2>1. clientData' = "null" /\ cb' = cb /\ At("idle")
    BY <1>1, <1>11, CallbackStays DEF Open, Position
  <2> QED BY <2>1 DEF DataOwned, At
<1>12. ASSUME SetPreviewWindow \/ StartRecording \/ StopRecording
       PROVE  Calm
  <2>1. UNCHANGED clientData
    BY <1>12 DEF SetPreviewWindow, StartRecording, StopRecording, deviceVars
  <2>2. cb' = cb \/ {cb.pc, cb'.pc} \cap {"make", "hand over"} = {}
    BY <1>12, <1>1, CallbackMoves, CallbackStays DEF At
  <2>3. app' = app \/ {app.pc, app'.pc} \cap {"nullData", "library"} = {}
    BY <1>12, <1>1, ApplicationMoves, ApplicationStays DEF AppAt, Ready, InSweep
  <2> QED BY <2>1, <2>2, <2>3
<1>13. ASSUME ReleaseRecordingFrame \/ EraseFrame \/ DisableVideoFrames \/ TakePicture
              \/ CancelPicture \/ SetCameraParameters
       PROVE  Calm
  <2>1. UNCHANGED clientData
    BY <1>13 DEF ReleaseRecordingFrame, EraseFrame, DisableVideoFrames, TakePicture,
       CancelPicture, SetCameraParameters, deviceVars
  <2>2. cb' = cb \/ {cb.pc, cb'.pc} \cap {"make", "hand over"} = {}
    BY <1>13, <1>1, CallbackMoves, CallbackStays DEF At
  <2>3. app' = app \/ {app.pc, app'.pc} \cap {"nullData", "library"} = {}
    BY <1>13, <1>1, ApplicationMoves, ApplicationStays DEF AppAt, Ready, InSweep
  <2> QED BY <2>1, <2>2, <2>3
<1>14. CASE Close
  <2>1. clientData' = "null" /\ cb' = cb /\ At("idle")
    BY <1>1, <1>14, CallbackStays DEF Close, Position
  <2> QED BY <2>1 DEF DataOwned, At
<1>15. ASSUME SweepFrame \/ SweepEnds \/ ClearFrames \/ Release
       PROVE  Calm
  <2>1. UNCHANGED clientData
    BY <1>15 DEF SweepFrame, SweepEnds, ClearFrames, Release, deviceVars
  <2>2. cb' = cb \/ {cb.pc, cb'.pc} \cap {"make", "hand over"} = {}
    BY <1>15, <1>1, CallbackMoves, CallbackStays DEF At
  <2>3. app' = app \/ {app.pc, app'.pc} \cap {"nullData", "library"} = {}
    BY <1>15, <1>1, ApplicationMoves, ApplicationStays DEF AppAt, Ready, InSweep
  <2> QED BY <2>1, <2>2, <2>3
<1>16. CASE ReleaseData
  <2>1. app'.pc = "nullData"
    BY <1>1, <1>16, ApplicationMoves
  <2> QED BY <2>1 DEF DataOwned, AppAt
<1>17. CASE ReleaseNulls
  <2>1. app'.pc = "library" /\ clientData' = "null"
    BY <1>1, <1>17, ApplicationMoves DEF ReleaseNulls
  <2> QED BY <2>1 DEF DataOwned
<1>18. CASE ReleaseLibrary
  <2>1. clientData' = clientData /\ cb' = cb /\ At("idle") /\ AppAt("library") /\ Alive
    BY <1>18, CallbackStays DEF ReleaseLibrary
  <2> QED BY <2>1 DEF IInv, DataOwned, At, AppAt
<1>19. ASSUME DestroyTorchOff \/ DestroySignals \/ DestroyRequests \/ DestroyWaits
       PROVE  Calm
  <2>1. UNCHANGED clientData
    BY <1>19 DEF DestroyTorchOff, DestroySignals, DestroyRequests, DestroyWaits, NotTorch,
       deviceVars
  <2>2. cb' = cb \/ {cb.pc, cb'.pc} \cap {"make", "hand over"} = {}
    BY <1>19, <1>1, CallbackMoves, CallbackStays DEF At
  <2>3. app' = app \/ {app.pc, app'.pc} \cap {"nullData", "library"} = {}
    BY <1>19, <1>1, ApplicationMoves, ApplicationStays DEF AppAt, Ready, InSweep
  <2> QED BY <2>1, <2>2, <2>3
<1> QED BY <1>2, <1>3, <1>4, <1>5, <1>6, <1>7, <1>8, <1>9, <1>10, <1>11, <1>12, <1>13, <1>14,
   <1>15, <1>16, <1>17, <1>18, <1>19 DEF Next, CallbackNext, CallbackGoesOn, AppNext, AppGoesOn

(* The library calls back only while the device is open.                    *)
LEMMA DeviceKept ==
  ASSUME IInv, Next
  PROVE  cb'.pc # "idle" => dev' = "open"
<1> DEFINE Calm == /\ dev' = dev
                   /\ cb'.pc = "idle" \/ cb.pc # "idle" \/ dev = "open"
<1>1. Types /\ Position
  BY DEF IInv
<1>2. Calm => (cb'.pc # "idle" => dev' = "open")
  BY <1>1 DEF Position, At
<1>3. ASSUME VideoDropped \/ VideoTaken \/ VideoNoMemory \/ PreviewData \/ PictureData
             \/ OverlayFrame \/ NotifyFocus
      PROVE  Calm
  <2>1. dev' = dev
    BY <1>3 DEF VideoDropped, VideoTaken, VideoNoMemory, PreviewData, PictureData, OverlayFrame,
       NotifyFocus, deviceVars, Unread, NotTorch
  <2>2. cb'.pc = "idle" \/ cb.pc # "idle" \/ dev = "open"
    BY <1>3 DEF VideoDropped, VideoTaken, VideoNoMemory, PreviewData, PictureData, OverlayFrame,
       NotifyFocus, Calling
  <2> QED BY <2>1, <2>2
<1>4. ASSUME VideoPush \/ VideoPost \/ VideoReturn
      PROVE  Calm
  <2>1. dev' = dev
    BY <1>4 DEF VideoPush, VideoPost, VideoReturn, deviceVars
  <2>2. cb'.pc = "idle" \/ cb.pc # "idle" \/ dev = "open"
    BY <1>4, <1>1, CallbackMoves, CallbackStays DEF At
  <2> QED BY <2>1, <2>2
<1>5. ASSUME DataDrop \/ DataMake \/ DataPost \/ DataDone \/ OverlayFormat
      PROVE  Calm
  <2>1. dev' = dev
    BY <1>5 DEF DataDrop, DataMake, DataPost, DataDone, OverlayFormat, Unread
  <2>2. cb'.pc = "idle" \/ cb.pc # "idle" \/ dev = "open"
    BY <1>5, <1>1, CallbackMoves, CallbackStays DEF At
  <2> QED BY <2>1, <2>2
<1>6. ASSUME Dequeue \/ LockBuffer \/ Enqueue
      PROVE  Calm
  <2>1. dev' = dev
    BY <1>6 DEF Dequeue, LockBuffer, Enqueue, Undrawn, deviceVars
  <2>2. cb'.pc = "idle" \/ cb.pc # "idle" \/ dev = "open"
    BY <1>6, <1>1, CallbackMoves, CallbackStays DEF At
  <2> QED BY <2>1, <2>2
<1>7. ASSUME ScheduleSignals \/ ScheduleRequests \/ ScheduleRuns \/ TorchThread
      PROVE  Calm
  <2>1. dev' = dev
    BY <1>7 DEF ScheduleSignals, ScheduleRequests, ScheduleRuns, TorchThread, NotTorch,
       deviceVars
  <2>2. cb'.pc = "idle" \/ cb.pc # "idle" \/ dev = "open"
    BY <1>7, <1>1, CallbackMoves, CallbackStays DEF At
  <2> QED BY <2>1, <2>2
<1>8. CASE Open
  <2>1. At("idle") /\ cb' = cb
    BY <1>1, <1>8, CallbackStays DEF Open, Position
  <2> QED BY <2>1 DEF At
<1>9. ASSUME SetPreviewWindow \/ StartRecording \/ StopRecording
      PROVE  Calm
  <2>1. dev' = dev
    BY <1>9 DEF SetPreviewWindow, StartRecording, StopRecording, deviceVars
  <2>2. cb'.pc = "idle" \/ cb.pc # "idle" \/ dev = "open"
    BY <1>9, CallbackStays
  <2> QED BY <2>1, <2>2
<1>10. ASSUME ReleaseRecordingFrame \/ EraseFrame \/ DisableVideoFrames \/ TakePicture
              \/ CancelPicture \/ SetCameraParameters
       PROVE  Calm
  <2>1. dev' = dev
    BY <1>10 DEF ReleaseRecordingFrame, EraseFrame, DisableVideoFrames, TakePicture,
       CancelPicture, SetCameraParameters, deviceVars
  <2>2. cb'.pc = "idle" \/ cb.pc # "idle" \/ dev = "open"
    BY <1>10, CallbackStays
  <2> QED BY <2>1, <2>2
<1>11. CASE Close
  <2>1. At("idle") /\ cb' = cb
    BY <1>1, <1>11, CallbackStays DEF Close, Position
  <2> QED BY <2>1 DEF At
<1>12. ASSUME SweepFrame \/ SweepEnds \/ ClearFrames \/ Release
       PROVE  Calm
  <2>1. dev' = dev
    BY <1>12 DEF SweepFrame, SweepEnds, ClearFrames, Release, deviceVars
  <2>2. cb'.pc = "idle" \/ cb.pc # "idle" \/ dev = "open"
    BY <1>12, CallbackStays
  <2> QED BY <2>1, <2>2
<1>13. CASE ReleaseLibrary
  <2>1. At("idle") /\ cb' = cb
    BY <1>13, CallbackStays DEF ReleaseLibrary
  <2> QED BY <2>1 DEF At
<1>14. ASSUME ReleaseData \/ ReleaseNulls
       PROVE  Calm
  <2>1. dev' = dev
    BY <1>14 DEF ReleaseData, ReleaseNulls
  <2>2. cb'.pc = "idle" \/ cb.pc # "idle" \/ dev = "open"
    BY <1>14, CallbackStays
  <2> QED BY <2>1, <2>2
<1>15. ASSUME DestroyTorchOff \/ DestroySignals \/ DestroyRequests \/ DestroyWaits
       PROVE  Calm
  <2>1. dev' = dev
    BY <1>15 DEF DestroyTorchOff, DestroySignals, DestroyRequests, DestroyWaits, NotTorch,
       deviceVars
  <2>2. cb'.pc = "idle" \/ cb.pc # "idle" \/ dev = "open"
    BY <1>15, CallbackStays
  <2> QED BY <2>1, <2>2
<1> QED BY <1>2, <1>3, <1>4, <1>5, <1>6, <1>7, <1>8, <1>9, <1>10, <1>11, <1>12, <1>13, <1>14,
   <1>15 DEF Next, CallbackNext, CallbackGoesOn, AppNext, AppGoesOn

(* The application's index stays in the vector.                             *)
LEMMA IndexKept ==
  ASSUME IInv, Next
  PROVE  /\ AppAt("erase")' => app'.i \in 1 .. Len(sent')
         /\ Walking' => app'.i \in 1 .. Len(sent') + 1
<1> DEFINE Calm == /\ sent' = sent
                   /\ app' = app
<1>1. Types /\ Position
  BY DEF IInv
<1>2. Calm => (/\ AppAt("erase")' => app'.i \in 1 .. Len(sent')
               /\ Walking' => app'.i \in 1 .. Len(sent') + 1)
  BY <1>1 DEF Position, AppAt, Walking
<1>3. ASSUME VideoDropped \/ VideoTaken \/ VideoNoMemory \/ PreviewData \/ PictureData
             \/ OverlayFrame \/ NotifyFocus
      PROVE  Calm
  <2>1. sent' = sent
    BY <1>3 DEF VideoDropped, VideoTaken, VideoNoMemory, PreviewData, PictureData, OverlayFrame,
       NotifyFocus, frameVars, Unread, NotTorch
  <2>2. app' = app
    BY <1>3, <1>1, ApplicationStays
  <2> QED BY <2>1, <2>2
<1>4. CASE VideoPush
  <2>1. app' = app /\ cb.mem \in Nat /\ sent \in Seq(Nat) /\ Len(sent) \in Nat
    BY <1>1, <1>4, ApplicationStays, LenProperties DEF Types, CbRecs
  <2>2. sent' = Append(sent, cb.mem) \/ sent' = sent
    BY <1>4 DEF VideoPush
  <2>3. Len(sent') = Len(sent) + 1 \/ Len(sent') = Len(sent)
    BY <2>1, <2>2, AppendProperties
  <2>4. ASSUME AppAt("erase") PROVE app'.i \in 1 .. Len(sent')
    <3>1. app.i \in 1 .. Len(sent)
      BY <1>1, <2>4 DEF Position
    <3> QED BY <2>1, <2>3, <3>1
  <2>5. ASSUME Walking PROVE app'.i \in 1 .. Len(sent') + 1
    <3>1. app.i \in 1 .. Len(sent) + 1
      BY <1>1, <2>5 DEF Position
    <3> QED BY <2>1, <2>3, <3>1
  <2> QED BY <2>1, <2>4, <2>5 DEF AppAt, Walking
<1>5. ASSUME VideoPost \/ VideoReturn
      PROVE  Calm
  <2>1. sent' = sent
    BY <1>5 DEF VideoPost, VideoReturn, frameVars
  <2>2. app' = app
    BY <1>5, <1>1, ApplicationStays
  <2> QED BY <2>1, <2>2
<1>6. ASSUME DataDrop \/ DataMake \/ DataPost \/ DataDone \/ OverlayFormat
      PROVE  Calm
  <2>1. sent' = sent
    BY <1>6 DEF DataDrop, DataMake, DataPost, DataDone, OverlayFormat, Unread, frameVars
  <2>2. app' = app
    BY <1>6, <1>1, ApplicationStays
  <2> QED BY <2>1, <2>2
<1>7. ASSUME Dequeue \/ LockBuffer \/ Enqueue
      PROVE  Calm
  <2>1. sent' = sent
    BY <1>7 DEF Dequeue, LockBuffer, Enqueue, Undrawn, frameVars
  <2>2. app' = app
    BY <1>7, <1>1, ApplicationStays
  <2> QED BY <2>1, <2>2
<1>8. ASSUME ScheduleSignals \/ ScheduleRequests \/ ScheduleRuns \/ TorchThread
      PROVE  Calm
  <2>1. sent' = sent
    BY <1>8 DEF ScheduleSignals, ScheduleRequests, ScheduleRuns, TorchThread, NotTorch,
       frameVars
  <2>2. app' = app
    BY <1>8, <1>1, ApplicationStays
  <2> QED BY <2>1, <2>2
<1>9. ASSUME Open \/ SetPreviewWindow \/ StartRecording \/ StopRecording
      PROVE  Calm
  <2>1. sent' = sent
    BY <1>9 DEF Open, SetPreviewWindow, StartRecording, StopRecording, frameVars
  <2>2. app' = app
    BY <1>9, <1>1, ApplicationStays
  <2> QED BY <2>1, <2>2
<1>10. CASE ReleaseRecordingFrame
  <2>1. sent' = sent /\ sent \in Seq(Nat) /\ DOMAIN sent = 1 .. Len(sent) /\ Len(sent) \in Nat
    BY <1>1, <1>10, LenProperties DEF ReleaseRecordingFrame, Types
  <2>2. CASE app' = app
    BY <1>1, <2>1, <2>2 DEF Position, AppAt, Walking
  <2>3. CASE \E i \in DOMAIN sent : app' = [pc |-> "erase", i |-> i]
    <3>1. PICK i \in 1 .. Len(sent) : app' = [pc |-> "erase", i |-> i]
      BY <2>1, <2>3
    <3>2. app'.i \in 1 .. Len(sent') /\ app'.i \in 1 .. Len(sent') + 1
      BY <2>1, <3>1
    <3> QED BY <3>2
  <2> QED BY <1>10, <2>2, <2>3 DEF ReleaseRecordingFrame
<1>11. CASE EraseFrame
  <2>1. app'.pc \notin {"erase", "sweep", "sweepRel", "clear", "clearRel"}
    BY <1>1, <1>11, ApplicationMoves DEF Ready
  <2> QED BY <2>1 DEF AppAt, Walking
<1>12. CASE DisableVideoFrames
  <2>1. app' = [pc |-> "sweep", i |-> 1] /\ sent' = sent
    BY <1>1, <1>12, ApplicationMoves DEF DisableVideoFrames
  <2>2. Len(sent) \in Nat
    BY <1>1, LenProperties DEF Types
  <2>3. app'.i \in 1 .. Len(sent') + 1 /\ app'.pc # "erase"
    BY <2>1, <2>2
  <2> QED BY <2>3 DEF AppAt
<1>13. ASSUME TakePicture \/ CancelPicture \/ SetCameraParameters
       PROVE  Calm
  <2>1. sent' = sent
    BY <1>13 DEF TakePicture, CancelPicture, SetCameraParameters
  <2>2. app' = app
    BY <1>13, <1>1, ApplicationStays
  <2> QED BY <2>1, <2>2
<1>14. CASE SweepFrame
  <2>1. /\ app'.pc = app.pc /\ app'.i = app.i + 1 /\ InSweep
        /\ sent' = sent /\ app.i <= Len(sent)
    BY <1>1, <1>14, ApplicationMoves DEF SweepFrame
  <2>2. Len(sent) \in Nat /\ app.i \in 1 .. Len(sent) + 1
    BY <1>1, <2>1, LenProperties DEF Types, Position, InSweep, Walking
  <2>3. app'.i \in 1 .. Len(sent') + 1 /\ app'.pc # "erase"
    <3>1. app'.pc # "erase"
      BY <2>1 DEF InSweep
    <3>2. app'.i \in 1 .. Len(sent') + 1
      BY <2>1, <2>2
    <3> QED BY <3>1, <3>2
  <2> QED BY <2>3 DEF AppAt
<1>15. CASE SweepEnds
  <2>1. app'.pc \in {"clear", "clearRel"} /\ app'.i = app.i /\ InSweep /\ sent' = sent
    BY <1>1, <1>15, ApplicationMoves DEF SweepEnds
  <2>2. app.i \in 1 .. Len(sent) + 1
    BY <1>1, <2>1 DEF Position, InSweep, Walking
  <2> QED BY <2>1, <2>2 DEF AppAt
<1>16. CASE ClearFrames
  <2>1. app'.pc \notin {"erase", "sweep", "sweepRel", "clear", "clearRel"}
    BY <1>1, <1>16, ApplicationMoves DEF Ready
  <2> QED BY <2>1 DEF AppAt, Walking
<1>17. CASE Release
  <2>1. app' = [pc |-> "sweepRel", i |-> 1] /\ sent' = sent
    BY <1>1, <1>17, ApplicationMoves DEF Release
  <2>2. Len(sent) \in Nat
    BY <1>1, LenProperties DEF Types
  <2>3. app'.i \in 1 .. Len(sent') + 1 /\ app'.pc # "erase"
    BY <2>1, <2>2
  <2> QED BY <2>3 DEF AppAt
<1>18. CASE Close
  <2>1. app' = app /\ AppAt("idle")
    BY <1>18, ApplicationStays DEF Close
  <2> QED BY <2>1 DEF AppAt, Walking
<1>19. CASE ReleaseData
  <2>1. app'.pc \notin {"erase", "sweep", "sweepRel", "clear", "clearRel"}
    BY <1>1, <1>19, ApplicationMoves
  <2> QED BY <2>1 DEF AppAt, Walking
<1>20. CASE ReleaseNulls
  <2>1. app'.pc \notin {"erase", "sweep", "sweepRel", "clear", "clearRel"}
    BY <1>1, <1>20, ApplicationMoves
  <2> QED BY <2>1 DEF AppAt, Walking
<1>21. CASE ReleaseLibrary
  <2>1. app'.pc \notin {"erase", "sweep", "sweepRel", "clear", "clearRel"}
    BY <1>1, <1>21, ApplicationMoves
  <2> QED BY <2>1 DEF AppAt, Walking
<1>22. CASE DestroyTorchOff
  <2>1. app'.pc \notin {"erase", "sweep", "sweepRel", "clear", "clearRel"}
    BY <1>1, <1>22, ApplicationMoves
  <2> QED BY <2>1 DEF AppAt, Walking
<1>23. CASE DestroySignals
  <2>1. app'.pc \notin {"erase", "sweep", "sweepRel", "clear", "clearRel"}
    BY <1>1, <1>23, ApplicationMoves
  <2> QED BY <2>1 DEF AppAt, Walking
<1>24. CASE DestroyRequests
  <2>1. app'.pc \notin {"erase", "sweep", "sweepRel", "clear", "clearRel"}
    BY <1>1, <1>24, ApplicationMoves
  <2> QED BY <2>1 DEF AppAt, Walking
<1>25. CASE DestroyWaits
  <2>1. app'.pc \notin {"erase", "sweep", "sweepRel", "clear", "clearRel"}
    BY <1>1, <1>25, ApplicationMoves DEF Ready
  <2> QED BY <2>1 DEF AppAt, Walking
<1> QED BY <1>2, <1>3, <1>4, <1>5, <1>6, <1>7, <1>8, <1>9, <1>10, <1>11, <1>12, <1>13, <1>14,
   <1>15, <1>16, <1>17, <1>18, <1>19, <1>20, <1>21, <1>22, <1>23, <1>24, <1>25 DEF Next, CallbackNext, CallbackGoesOn, AppNext, AppGoesOn

(* The device's own fields stay in their types.                             *)
LEMMA DeviceTyped ==
  ASSUME IInv, Next
  PROVE  /\ camera' \in Cameras /\ window' \in Windows \cup {None}
         /\ prevDropped' \in BOOLEAN
<1> DEFINE Calm == UNCHANGED <<camera, window, prevDropped>>
<1>1. Types /\ Position
  BY DEF IInv
<1>2. Calm => (/\ camera' \in Cameras /\ window' \in Windows \cup {None}
               /\ prevDropped' \in BOOLEAN)
  BY <1>1 DEF Types
<1>3. CASE VideoDropped
  <2>1. UNCHANGED <<camera, window>> /\ prevDropped' = TRUE
    BY <1>3 DEF VideoDropped, deviceVars
  <2> QED BY <1>1, <2>1 DEF Types
<1>4. ASSUME VideoTaken \/ VideoNoMemory \/ PreviewData \/ PictureData \/ OverlayFrame
             \/ NotifyFocus
      PROVE  Calm
  <2>1. UNCHANGED <<camera, window, prevDropped>>
    BY <1>4 DEF VideoTaken, VideoNoMemory, PreviewData, PictureData, OverlayFrame, NotifyFocus,
       deviceVars, videoVars, Unread, NotTorch
  <2> QED BY <2>1
<1>5. CASE VideoReturn
  <2>1. UNCHANGED <<camera, window>> /\ prevDropped' = FALSE
    BY <1>5 DEF VideoReturn, deviceVars
  <2> QED BY <1>1, <2>1 DEF Types
<1>6. ASSUME VideoPush \/ VideoPost
      PROVE  Calm
  <2>1. UNCHANGED <<camera, window, prevDropped>>
    BY <1>6 DEF VideoPush, VideoPost, deviceVars, videoVars
  <2> QED BY <2>1
<1>7. ASSUME DataDrop \/ DataMake \/ DataPost \/ DataDone \/ OverlayFormat
      PROVE  Calm
  <2>1. UNCHANGED <<camera, window, prevDropped>>
    BY <1>7 DEF DataDrop, DataMake, DataPost, DataDone, OverlayFormat, Unread, videoVars
  <2> QED BY <2>1
<1>8. ASSUME Dequeue \/ LockBuffer \/ Enqueue
      PROVE  Calm
  <2>1. UNCHANGED <<camera, window, prevDropped>>
    BY <1>8 DEF Dequeue, LockBuffer, Enqueue, Undrawn, deviceVars, videoVars
  <2> QED BY <2>1
<1>9. ASSUME ScheduleSignals \/ ScheduleRequests \/ ScheduleRuns \/ TorchThread
      PROVE  Calm
  <2>1. UNCHANGED <<camera, window, prevDropped>>
    BY <1>9 DEF ScheduleSignals, ScheduleRequests, ScheduleRuns, TorchThread, NotTorch,
       deviceVars, videoVars
  <2> QED BY <2>1
<1>10. CASE Open
  <2>1. UNCHANGED <<camera, prevDropped>> /\ window' = None
    BY <1>10 DEF Open, Quiet, videoVars
  <2> QED BY <1>1, <2>1 DEF Types
<1>11. CASE SetPreviewWindow
  <2>1. UNCHANGED <<camera, prevDropped>>
    BY <1>11 DEF SetPreviewWindow, videoVars
  <2>2. window' \in Windows \cup {None}
    BY <1>11 DEF SetPreviewWindow
  <2> QED BY <1>1, <2>1, <2>2 DEF Types
<1>12. CASE StartRecording
  <2>1. UNCHANGED <<camera, window>> /\ prevDropped' = FALSE
    BY <1>12 DEF StartRecording, Quiet, deviceVars
  <2> QED BY <1>1, <2>1 DEF Types
<1>13. ASSUME StopRecording
       PROVE  Calm
  <2>1. UNCHANGED <<camera, window, prevDropped>>
    BY <1>13 DEF StopRecording, Quiet, deviceVars
  <2> QED BY <2>1
<1>14. ASSUME ReleaseRecordingFrame \/ EraseFrame \/ DisableVideoFrames \/ TakePicture
              \/ CancelPicture \/ SetCameraParameters
       PROVE  Calm
  <2>1. UNCHANGED <<camera, window, prevDropped>>
    BY <1>14 DEF ReleaseRecordingFrame, EraseFrame, DisableVideoFrames, TakePicture,
       CancelPicture, SetCameraParameters, Quiet, deviceVars, videoVars
  <2> QED BY <2>1
<1>15. CASE Close
  <2>1. UNCHANGED <<camera, prevDropped>> /\ window' = None
    BY <1>15 DEF Close, videoVars
  <2> QED BY <1>1, <2>1 DEF Types
<1>16. ASSUME SweepFrame \/ SweepEnds \/ ClearFrames \/ Release
       PROVE  Calm
  <2>1. UNCHANGED <<camera, window, prevDropped>>
    BY <1>16 DEF SweepFrame, SweepEnds, ClearFrames, Release, Quiet, deviceVars, videoVars
  <2> QED BY <2>1
<1>17. ASSUME ReleaseData \/ ReleaseNulls \/ ReleaseLibrary
       PROVE  Calm
  <2>1. UNCHANGED <<camera, window, prevDropped>>
    BY <1>17 DEF ReleaseData, ReleaseNulls, ReleaseLibrary, videoVars, Quiet
  <2> QED BY <2>1
<1>18. ASSUME DestroyTorchOff \/ DestroySignals \/ DestroyRequests \/ DestroyWaits
       PROVE  Calm
  <2>1. UNCHANGED <<camera, window, prevDropped>>
    BY <1>18 DEF DestroyTorchOff, DestroySignals, DestroyRequests, DestroyWaits, NotTorch,
       deviceVars, videoVars
  <2> QED BY <2>1
<1> QED BY <1>2, <1>3, <1>4, <1>5, <1>6, <1>7, <1>8, <1>9, <1>10, <1>11, <1>12, <1>13, <1>14,
   <1>15, <1>16, <1>17, <1>18 DEF Next, CallbackNext, CallbackGoesOn, AppNext, AppGoesOn

(* So do the frames.                                                        *)
LEMMA FramesTyped ==
  ASSUME IInv, Next
  PROVE  /\ sent' \in Seq(Nat) /\ live' \subseteq Nat
         /\ slipped' \subseteq Nat /\ held' \subseteq Nat
<1> DEFINE Calm == UNCHANGED <<sent, live, slipped, held>>
<1>1. Types /\ Position
  BY DEF IInv
<1>2. Calm => (/\ sent' \in Seq(Nat) /\ live' \subseteq Nat
               /\ slipped' \subseteq Nat /\ held' \subseteq Nat)
  BY <1>1 DEF Types
<1>3. CASE VideoTaken
  <2>1. sent' = sent /\ slipped' = slipped /\ held' = held /\ live' = live \cup {Min(Unused)}
    BY <1>3 DEF VideoTaken
  <2>2. Min(Unused) \in Nat
    BY <1>1, <1>3, TakenUnused DEF VideoTaken
  <2> QED BY <1>1, <2>1, <2>2 DEF Types
<1>4. ASSUME VideoDropped \/ VideoNoMemory \/ PreviewData \/ PictureData \/ OverlayFrame
             \/ NotifyFocus
      PROVE  Calm
  <2>1. UNCHANGED <<sent, live, slipped, held>>
    BY <1>4 DEF VideoDropped, VideoNoMemory, PreviewData, PictureData, OverlayFrame,
       NotifyFocus, frameVars, Unread, NotTorch
  <2> QED BY <2>1
<1>5. CASE VideoPush
  <2>1. live' = live /\ slipped' = slipped /\ held' = held
    BY <1>5 DEF VideoPush
  <2>2. cb.mem \in Nat /\ sent \in Seq(Nat)
    BY <1>1 DEF Types, CbRecs
  <2>3. sent' \in Seq(Nat)
    BY <1>5, <2>2, AppendProperties DEF VideoPush
  <2> QED BY <1>1, <2>1, <2>3 DEF Types
<1>6. CASE VideoPost
  <2>1. sent' = sent /\ live' = live /\ slipped' = slipped /\ held' = held \cup {cb.mem}
    BY <1>6 DEF VideoPost
  <2>2. cb.mem \in Nat
    BY <1>1 DEF Types, CbRecs
  <2> QED BY <1>1, <2>1, <2>2 DEF Types
<1>7. ASSUME VideoReturn
      PROVE  Calm
  <2>1. UNCHANGED <<sent, live, slipped, held>>
    BY <1>7 DEF VideoReturn, frameVars
  <2> QED BY <2>1
<1>8. ASSUME DataDrop \/ DataMake \/ DataPost \/ DataDone \/ OverlayFormat
      PROVE  Calm
  <2>1. UNCHANGED <<sent, live, slipped, held>>
    BY <1>8 DEF DataDrop, DataMake, DataPost, DataDone, OverlayFormat, Unread, frameVars
  <2> QED BY <2>1
<1>9. ASSUME Dequeue \/ LockBuffer \/ Enqueue
      PROVE  Calm
  <2>1. UNCHANGED <<sent, live, slipped, held>>
    BY <1>9 DEF Dequeue, LockBuffer, Enqueue, Undrawn, frameVars
  <2> QED BY <2>1
<1>10. ASSUME ScheduleSignals \/ ScheduleRequests \/ ScheduleRuns \/ TorchThread
       PROVE  Calm
  <2>1. UNCHANGED <<sent, live, slipped, held>>
    BY <1>10 DEF ScheduleSignals, ScheduleRequests, ScheduleRuns, TorchThread, NotTorch,
       frameVars
  <2> QED BY <2>1
<1>11. ASSUME Open \/ SetPreviewWindow \/ StartRecording \/ StopRecording
       PROVE  Calm
  <2>1. UNCHANGED <<sent, live, slipped, held>>
    BY <1>11 DEF Open, SetPreviewWindow, StartRecording, StopRecording, Quiet, frameVars
  <2> QED BY <2>1
<1>12. CASE ReleaseRecordingFrame
  <2>1. sent' = sent /\ slipped' = slipped /\ held' \subseteq held /\ live' \subseteq live
    BY <1>12 DEF ReleaseRecordingFrame, Quiet
  <2> QED BY <1>1, <2>1 DEF Types
<1>13. CASE EraseFrame
  <2>1. live' = live /\ slipped' = slipped /\ held' = held /\ sent' = RemoveAt(sent, app.i)
    BY <1>13 DEF EraseFrame, Quiet
  <2>2. sent \in Seq(Nat) /\ IsInjective(sent) /\ app.i \in 1 .. Len(sent)
    BY <1>13, <1>1 DEF EraseFrame, Types, Position, IInv, FramesKept
  <2>3. sent' \in Seq(Nat)
    BY <2>1, <2>2, Erased
  <2> QED BY <1>1, <2>1, <2>3 DEF Types
<1>14. ASSUME DisableVideoFrames \/ TakePicture \/ CancelPicture \/ SetCameraParameters
       PROVE  Calm
  <2>1. UNCHANGED <<sent, live, slipped, held>>
    BY <1>14 DEF DisableVideoFrames, TakePicture, CancelPicture, SetCameraParameters, Quiet
  <2> QED BY <2>1
<1>15. CASE SweepFrame
  <2>1. sent' = sent /\ slipped' = slipped /\ held' = held /\ live' \subseteq live
    BY <1>15 DEF SweepFrame, Quiet
  <2> QED BY <1>1, <2>1 DEF Types
<1>16. CASE ClearFrames
  <2>1. /\ live' = live /\ held' = held /\ sent' = <<>>
        /\ slipped' = slipped \cup ToSet(SubSeq(sent, app.i, Len(sent)))
    BY <1>16 DEF ClearFrames
  <2>2. ToSet(SubSeq(sent, app.i, Len(sent))) \subseteq ToSet(sent)
    BY <1>1, <1>16, SplitAt DEF ClearFrames, Walking, Types, Position, IInv, FramesKept
  <2>3. ToSet(sent) \subseteq Nat
    BY <1>1, ElementOfSeq, LenProperties DEF ToSet, Types
  <2>4. slipped' \subseteq Nat
    <3>1. slipped \subseteq Nat
      BY <1>1 DEF Types
    <3> QED BY <2>1, <2>2, <2>3, <3>1
  <2>5. sent' \in Seq(Nat)
    BY <2>1
  <2> QED BY <1>1, <2>1, <2>4, <2>5 DEF Types
<1>17. CASE Close
  <2>1. sent' = <<>> /\ live' = {} /\ slipped' = {} /\ held' = {}
    BY <1>17 DEF Close
  <2> QED BY <2>1
<1>18. ASSUME SweepEnds \/ Release
       PROVE  Calm
  <2>1. UNCHANGED <<sent, live, slipped, held>>
    BY <1>18 DEF SweepEnds, Release, Quiet
  <2> QED BY <2>1
<1>19. ASSUME ReleaseData \/ ReleaseNulls \/ ReleaseLibrary
       PROVE  Calm
  <2>1. UNCHANGED <<sent, live, slipped, held>>
    BY <1>19 DEF ReleaseData, ReleaseNulls, ReleaseLibrary, frameVars, Quiet
  <2> QED BY <2>1
<1>20. ASSUME DestroyTorchOff \/ DestroySignals \/ DestroyRequests \/ DestroyWaits
       PROVE  Calm
  <2>1. UNCHANGED <<sent, live, slipped, held>>
    BY <1>20 DEF DestroyTorchOff, DestroySignals, DestroyRequests, DestroyWaits, NotTorch,
       frameVars
  <2> QED BY <2>1
<1> QED BY <1>2, <1>3, <1>4, <1>5, <1>6, <1>7, <1>8, <1>9, <1>10, <1>11, <1>12, <1>13, <1>14,
   <1>15, <1>16, <1>17, <1>18, <1>19, <1>20 DEF Next, CallbackNext, CallbackGoesOn, AppNext, AppGoesOn

(* Every buffer stays accounted for.                                        *)
LEMMA WindowsAreKept ==
  ASSUME IInv, Next
  PROVE  WindowsKept'
<1> DEFINE Calm == /\ UNCHANGED <<out, replaced, window>>
                   /\ cb' = cb \/ {cb.pc, cb'.pc} \cap {"lock", "enqueue"} = {}
<1>1. Types /\ Position /\ WindowsKept
  BY StepLives DEF IInv
<1>2. Calm => WindowsKept'
  <2> SUFFICES ASSUME Calm PROVE WindowsKept'
    OBVIOUS
  <2>1. WindowsKept /\ UNCHANGED <<out, replaced, window>>
    BY StepLives DEF IInv
  <2>2. CASE cb' = cb
    BY <2>1, <2>2 DEF WindowsKept, Holding, Drawing
  <2>3. CASE cb' # cb
    <3>1. cb.pc \notin {"lock", "enqueue"} /\ cb'.pc \notin {"lock", "enqueue"}
      BY <2>3
    <3> HIDE DEF Calm
    <3> QED BY <2>1, <3>1 DEF WindowsKept, Holding, Drawing
  <2> QED BY <2>2, <2>3
<1>3. ASSUME VideoDropped \/ VideoTaken \/ VideoNoMemory \/ PreviewData \/ PictureData
             \/ OverlayFrame \/ NotifyFocus
      PROVE  Calm
  <2>1. UNCHANGED <<out, replaced, window>>
    BY <1>3 DEF VideoDropped, VideoTaken, VideoNoMemory, PreviewData, PictureData, OverlayFrame,
       NotifyFocus, deviceVars, drawVars, Unread, NotTorch
  <2>2. cb' = cb \/ {cb.pc, cb'.pc} \cap {"lock", "enqueue"} = {}
    BY <1>3, <1>1, CallbackMoves, CallbackStays DEF At
  <2> QED BY <2>1, <2>2
<1>4. ASSUME VideoPush \/ VideoPost \/ VideoReturn
      PROVE  Calm
  <2>1. UNCHANGED <<out, replaced, window>>
    BY <1>4 DEF VideoPush, VideoPost, VideoReturn, deviceVars, drawVars
  <2>2. cb' = cb \/ {cb.pc, cb'.pc} \cap {"lock", "enqueue"} = {}
    BY <1>4, <1>1, CallbackMoves, CallbackStays DEF At
  <2> QED BY <2>1, <2>2
<1>5. ASSUME DataDrop \/ DataMake \/ DataPost \/ DataDone \/ OverlayFormat
      PROVE  Calm
  <2>1. UNCHANGED <<out, replaced, window>>
    BY <1>5 DEF DataDrop, DataMake, DataPost, DataDone, OverlayFormat, Unread, drawVars
  <2>2. cb' = cb \/ {cb.pc, cb'.pc} \cap {"lock", "enqueue"} = {}
    BY <1>5, <1>1, CallbackMoves, CallbackStays DEF At
  <2> QED BY <2>1, <2>2
<1>6. CASE Dequeue
  <2>1. /\ At("dequeue") /\ UNCHANGED <<replaced, window>>
        /\ \/ cb'.pc = "idle" /\ out' = out
           \/ cb'.pc = "lock" /\ cb'.win = window /\ out' = out \cup {window}
    BY <1>1, <1>6, CallbackMoves DEF Dequeue, Undrawn, deviceVars
  <2>2. out \subseteq replaced
    BY <1>1, <2>1 DEF WindowsKept, Holding, Drawing, At
  <2>3. CASE cb'.pc = "idle" /\ out' = out
    BY <2>1, <2>2, <2>3 DEF WindowsKept, Holding, Drawing
  <2>4. CASE cb'.pc = "lock" /\ cb'.win = window /\ out' = out \cup {window}
    BY <2>1, <2>2, <2>4 DEF WindowsKept, Holding, Drawing
  <2> QED BY <2>1, <2>3, <2>4
<1>7. CASE LockBuffer
  <2>1. /\ At("lock") /\ UNCHANGED <<replaced, window>>
        /\ \/ cb'.pc = "enqueue" /\ cb'.win = cb.win /\ out' = out
           \/ cb'.pc = "idle" /\ out' = out \ {window}
    BY <1>1, <1>7, CallbackMoves DEF LockBuffer, Undrawn, deviceVars
  <2>2. out \subseteq replaced \cup {cb.win} /\ (window = cb.win \/ cb.win \in replaced)
    BY <1>1, <2>1 DEF WindowsKept, Holding, Drawing, At
  <2>3. CASE cb'.pc = "enqueue" /\ cb'.win = cb.win /\ out' = out
    BY <2>1, <2>2, <2>3 DEF WindowsKept, Holding, Drawing
  <2>4. CASE cb'.pc = "idle" /\ out' = out \ {window}
    BY <2>1, <2>2, <2>4 DEF WindowsKept, Holding, Drawing
  <2> QED BY <2>1, <2>3, <2>4
<1>8. CASE Enqueue
  <2>1. /\ At("enqueue") /\ UNCHANGED <<replaced, window>>
        /\ cb'.pc = "idle" /\ out' = out \ {window}
    BY <1>1, <1>8, CallbackMoves DEF Enqueue, Undrawn, deviceVars
  <2>2. out \subseteq replaced \cup {cb.win} /\ (window = cb.win \/ cb.win \in replaced)
    BY <1>1, <2>1 DEF WindowsKept, Holding, Drawing, At
  <2> QED BY <2>1, <2>2 DEF WindowsKept, Holding, Drawing
<1>9. ASSUME ScheduleSignals \/ ScheduleRequests \/ ScheduleRuns \/ TorchThread
      PROVE  Calm
  <2>1. UNCHANGED <<out, replaced, window>>
    BY <1>9 DEF ScheduleSignals, ScheduleRequests, ScheduleRuns, TorchThread, NotTorch,
       deviceVars, drawVars
  <2>2. cb' = cb \/ {cb.pc, cb'.pc} \cap {"lock", "enqueue"} = {}
    BY <1>9, <1>1, CallbackMoves, CallbackStays DEF At
  <2> QED BY <2>1, <2>2
<1>10. CASE Open
  <2>1. UNCHANGED <<out, replaced>> /\ cb' = cb /\ At("idle")
    BY <1>1, <1>10, CallbackStays DEF Open, Quiet, drawVars, Position
  <2> QED BY <1>1, <2>1 DEF WindowsKept, Holding, Drawing, At
<1>11. CASE SetPreviewWindow
  <2>1. out' = out /\ cb' = cb
    BY <1>11, CallbackStays DEF SetPreviewWindow
  <2>2. replaced' = IF Drawing /\ window' # cb.win THEN replaced \cup {cb.win} ELSE replaced
    BY <1>11 DEF SetPreviewWindow
  <2>3. Holding' = Holding /\ (Drawing' <=> Drawing)
    BY <2>1 DEF Holding, Drawing
  <2>4. replaced \subseteq replaced'
    BY <2>2
  <2>5. out' \subseteq replaced' \cup Holding'
    BY <1>1, <2>1, <2>3, <2>4 DEF WindowsKept
  <2>6. Drawing => window' = cb.win \/ cb.win \in replaced'
    BY <2>2
  <2> QED BY <2>1, <2>3, <2>5, <2>6 DEF WindowsKept
<1>12. ASSUME StartRecording \/ StopRecording
       PROVE  Calm
  <2>1. UNCHANGED <<out, replaced, window>>
    BY <1>12 DEF StartRecording, StopRecording, Quiet, deviceVars, drawVars
  <2>2. cb' = cb \/ {cb.pc, cb'.pc} \cap {"lock", "enqueue"} = {}
    BY <1>12, <1>1, CallbackMoves, CallbackStays DEF At
  <2> QED BY <2>1, <2>2
<1>13. ASSUME ReleaseRecordingFrame \/ EraseFrame \/ DisableVideoFrames \/ TakePicture
              \/ CancelPicture \/ SetCameraParameters
       PROVE  Calm
  <2>1. UNCHANGED <<out, replaced, window>>
    BY <1>13 DEF ReleaseRecordingFrame, EraseFrame, DisableVideoFrames, TakePicture,
       CancelPicture, SetCameraParameters, Quiet, deviceVars, drawVars
  <2>2. cb' = cb \/ {cb.pc, cb'.pc} \cap {"lock", "enqueue"} = {}
    BY <1>13, <1>1, CallbackMoves, CallbackStays DEF At
  <2> QED BY <2>1, <2>2
<1>14. CASE Close
  <2>1. out' = {} /\ cb' = cb /\ At("idle")
    BY <1>1, <1>14, CallbackStays DEF Close, Position
  <2> QED BY <2>1 DEF WindowsKept, Holding, Drawing, At
<1>15. ASSUME SweepFrame \/ SweepEnds \/ ClearFrames \/ Release
       PROVE  Calm
  <2>1. UNCHANGED <<out, replaced, window>>
    BY <1>15 DEF SweepFrame, SweepEnds, ClearFrames, Release, Quiet, deviceVars, drawVars
  <2>2. cb' = cb \/ {cb.pc, cb'.pc} \cap {"lock", "enqueue"} = {}
    BY <1>15, <1>1, CallbackMoves, CallbackStays DEF At
  <2> QED BY <2>1, <2>2
<1>16. ASSUME ReleaseData \/ ReleaseNulls \/ ReleaseLibrary
       PROVE  Calm
  <2>1. UNCHANGED <<out, replaced, window>>
    BY <1>16 DEF ReleaseData, ReleaseNulls, ReleaseLibrary, drawVars, Quiet
  <2>2. cb' = cb \/ {cb.pc, cb'.pc} \cap {"lock", "enqueue"} = {}
    BY <1>16, <1>1, CallbackMoves, CallbackStays DEF At
  <2> QED BY <2>1, <2>2
<1>17. ASSUME DestroyTorchOff \/ DestroySignals \/ DestroyRequests \/ DestroyWaits
       PROVE  Calm
  <2>1. UNCHANGED <<out, replaced, window>>
    BY <1>17 DEF DestroyTorchOff, DestroySignals, DestroyRequests, DestroyWaits, NotTorch,
       deviceVars, drawVars
  <2>2. cb' = cb \/ {cb.pc, cb'.pc} \cap {"lock", "enqueue"} = {}
    BY <1>17, <1>1, CallbackMoves, CallbackStays DEF At
  <2> QED BY <2>1, <2>2
<1> QED BY <1>2, <1>3, <1>4, <1>5, <1>6, <1>7, <1>8, <1>9, <1>10, <1>11, <1>12, <1>13, <1>14,
   <1>15, <1>16, <1>17 DEF Next, CallbackNext, CallbackGoesOn, AppNext, AppGoesOn

(* What is swept was in the vector.                                         *)
LEMMA SweptIn == Types /\ Position /\ FramesKept => Swept \subseteq ToSet(sent)
<1> SUFFICES ASSUME Types, Position, FramesKept PROVE Swept \subseteq ToSet(sent)
  OBVIOUS
<1>1. sent \in Seq(Nat) /\ DOMAIN sent = 1 .. Len(sent) /\ IsInjective(sent)
  BY LenProperties DEF Types, FramesKept
<1>2. CASE AppAt("erase")
  <2>1. Swept = {sent[app.i]} /\ app.i \in DOMAIN sent
    BY <1>1, <1>2 DEF Swept, Position, AppAt, Walking
  <2> QED BY <2>1 DEF ToSet
<1>3. CASE Walking /\ ~AppAt("erase")
  <2>1. Swept = ToSet(SubSeq(sent, 1, app.i - 1)) /\ app.i \in 1 .. Len(sent) + 1
    BY <1>3 DEF Swept, Position
  <2> QED BY <1>1, <2>1, SplitAt
<1>4. CASE ~Walking
  BY <1>4 DEF Swept
<1> QED BY <1>2, <1>3, <1>4

(* While the process lives, every frame stays accounted for.                *)
LEMMA FramesAreKept ==
  ASSUME IInv, Next, Alive'
  PROVE  FramesKept'
<1> DEFINE Calm == /\ UNCHANGED <<sent, live, slipped, held>>
                   /\ cb' = cb \/ {cb.pc, cb'.pc} \cap {"push", "post"} = {}
                   /\ app' = app \/ ~(Walking \/ Walking')
<1>1. Types /\ Position /\ FramesKept
  BY StepLives DEF IInv
<1>2. Calm => FramesKept'
  <2> SUFFICES ASSUME Calm PROVE FramesKept'
    OBVIOUS
  <2>1. InFlight' = InFlight /\ Coming' = Coming
    BY DEF InFlight, Coming, At
  <2>2. Swept' = Swept
    BY DEF Swept, Walking, AppAt
  <2>3. UNCHANGED <<sent, live, slipped, held>>
    OBVIOUS
  <2> HIDE DEF Calm
  <2> QED BY <1>1, <2>1, <2>2, <2>3 DEF FramesKept
<1>3. CASE VideoTaken
  <2>1. /\ UNCHANGED <<sent, slipped, held, app>> /\ live' = live \cup {Min(Unused)}
        /\ At("idle") /\ cb'.pc = "push" /\ cb'.mem = Min(Unused)
    BY <1>1, <1>3, CallbackMoves DEF VideoTaken
  <2>2. Min(Unused) \notin live \cup held \cup ToSet(sent)
    BY <1>1, <1>3, TakenUnused DEF VideoTaken
  <2>3. InFlight = {} /\ InFlight' = {Min(Unused)} /\ Coming = {} /\ Coming' = {Min(Unused)}
    BY <2>1 DEF InFlight, Coming, At
  <2>4. Swept' = Swept
    BY <2>1 DEF Swept, Walking, AppAt
  <2> DEFINE m == Min(Unused)
  <2> HIDE DEF m
  <2>5. live' = (ToSet(sent) \ Swept) \cup slipped \cup {m}
    BY <1>1, <2>1, <2>3 DEF FramesKept, m
  <2>6. m \notin ToSet(sent) \cup slipped
    BY <1>1, <2>2 DEF FramesKept, m
  <2>7. live' \ slipped \subseteq held \cup {m}
    BY <1>1, <2>1, <2>3 DEF FramesKept, m
  <2> QED BY <1>1, <2>1, <2>3, <2>4, <2>5, <2>6, <2>7 DEF FramesKept, m
<1>4. ASSUME VideoDropped \/ VideoNoMemory \/ PreviewData \/ PictureData \/ OverlayFrame
             \/ NotifyFocus
      PROVE  Calm
  <2>1. UNCHANGED <<sent, live, slipped, held>>
    BY <1>4 DEF VideoDropped, VideoNoMemory, PreviewData, PictureData, OverlayFrame,
       NotifyFocus, frameVars, Unread, NotTorch
  <2>2. cb' = cb \/ {cb.pc, cb'.pc} \cap {"push", "post"} = {}
    BY <1>4, <1>1, CallbackMoves, CallbackStays DEF At
  <2>3. app' = app \/ ~(Walking \/ Walking')
    BY <1>4, <1>1, ApplicationMoves, ApplicationStays DEF Walking, AppAt, Ready
  <2> QED BY <2>1, <2>2, <2>3
<1>5. CASE VideoPush
  <2>1. /\ UNCHANGED <<live, slipped, held, app>>
        /\ At("push") /\ cb'.pc = "post" /\ cb'.mem = cb.mem
    BY <1>1, <1>5, CallbackMoves, ApplicationStays DEF VideoPush
  <2>2. sent' = Append(sent, cb.mem)
    BY <1>5 DEF VideoPush, Alive
  <2>3. InFlight = {cb.mem} /\ InFlight' = {} /\ Coming = {cb.mem} /\ Coming' = {cb.mem}
    BY <2>1 DEF InFlight, Coming, At
  <2>4. cb.mem \in Nat /\ cb.mem \notin ToSet(sent) \cup slipped
    BY <1>1, <2>3 DEF FramesKept, Types, CbRecs
  <2>5. sent \in Seq(Nat) /\ IsInjective(sent) /\ DOMAIN sent = 1 .. Len(sent)
    BY <1>1, LenProperties DEF FramesKept, Types
  <2>6. /\ ToSet(sent') = ToSet(sent) \cup {cb.mem} /\ IsInjective(sent')
        /\ \A i \in 1 .. Len(sent) : sent'[i] = sent[i]
        /\ \A i \in 1 .. Len(sent) + 1 : SubSeq(sent', 1, i - 1) = SubSeq(sent, 1, i - 1)
    BY <2>2, <2>4, <2>5, PushedBack
  <2>7. Swept' = Swept
    BY <1>1, <2>1, <2>6 DEF Swept, Walking, AppAt, Position
  <2>8. Swept \subseteq ToSet(sent)
    BY <1>1, SweptIn
  <2>9. live' = (ToSet(sent') \ Swept) \cup slipped
    BY <1>1, <2>1, <2>3, <2>4, <2>6, <2>8 DEF FramesKept
  <2>10. slipped \cap ToSet(sent') = {}
    BY <1>1, <2>4, <2>6 DEF FramesKept
  <2> QED BY <1>1, <2>1, <2>3, <2>6, <2>7, <2>9, <2>10 DEF FramesKept
<1>6. CASE VideoPost
  <2>1. /\ UNCHANGED <<sent, live, slipped, app>> /\ held' = held \cup {cb.mem}
        /\ At("post") /\ cb'.pc = "return"
    BY <1>1, <1>6, CallbackMoves, ApplicationStays DEF VideoPost
  <2>2. InFlight = {} /\ InFlight' = {} /\ Coming = {cb.mem} /\ Coming' = {}
    BY <2>1 DEF InFlight, Coming, At
  <2>3. Swept' = Swept
    BY <2>1 DEF Swept, Walking, AppAt
  <2> QED BY <1>1, <2>1, <2>2, <2>3 DEF FramesKept
<1>7. ASSUME VideoReturn
      PROVE  Calm
  <2>1. UNCHANGED <<sent, live, slipped, held>>
    BY <1>7 DEF VideoReturn, frameVars
  <2>2. cb' = cb \/ {cb.pc, cb'.pc} \cap {"push", "post"} = {}
    BY <1>7, <1>1, CallbackMoves, CallbackStays DEF At
  <2>3. app' = app \/ ~(Walking \/ Walking')
    BY <1>7, <1>1, ApplicationMoves, ApplicationStays DEF Walking, AppAt, Ready
  <2> QED BY <2>1, <2>2, <2>3
<1>8. ASSUME DataDrop \/ DataMake \/ DataPost \/ DataDone \/ OverlayFormat
      PROVE  Calm
  <2>1. UNCHANGED <<sent, live, slipped, held>>
    BY <1>8 DEF DataDrop, DataMake, DataPost, DataDone, OverlayFormat, Unread, frameVars
  <2>2. cb' = cb \/ {cb.pc, cb'.pc} \cap {"push", "post"} = {}
    BY <1>8, <1>1, CallbackMoves, CallbackStays DEF At
  <2>3. app' = app \/ ~(Walking \/ Walking')
    BY <1>8, <1>1, ApplicationMoves, ApplicationStays DEF Walking, AppAt, Ready
  <2> QED BY <2>1, <2>2, <2>3
<1>9. ASSUME Dequeue \/ LockBuffer \/ Enqueue
      PROVE  Calm
  <2>1. UNCHANGED <<sent, live, slipped, held>>
    BY <1>9 DEF Dequeue, LockBuffer, Enqueue, Undrawn, frameVars
  <2>2. cb' = cb \/ {cb.pc, cb'.pc} \cap {"push", "post"} = {}
    BY <1>9, <1>1, CallbackMoves, CallbackStays DEF At
  <2>3. app' = app \/ ~(Walking \/ Walking')
    BY <1>9, <1>1, ApplicationMoves, ApplicationStays DEF Walking, AppAt, Ready
  <2> QED BY <2>1, <2>2, <2>3
<1>10. ASSUME ScheduleSignals \/ ScheduleRequests \/ ScheduleRuns \/ TorchThread
       PROVE  Calm
  <2>1. UNCHANGED <<sent, live, slipped, held>>
    BY <1>10 DEF ScheduleSignals, ScheduleRequests, ScheduleRuns, TorchThread, NotTorch,
       frameVars
  <2>2. cb' = cb \/ {cb.pc, cb'.pc} \cap {"push", "post"} = {}
    BY <1>10, <1>1, CallbackMoves, CallbackStays DEF At
  <2>3. app' = app \/ ~(Walking \/ Walking')
    BY <1>10, <1>1, ApplicationMoves, ApplicationStays DEF Walking, AppAt, Ready
  <2> QED BY <2>1, <2>2, <2>3
<1>11. ASSUME Open \/ SetPreviewWindow \/ StartRecording \/ StopRecording
       PROVE  Calm
  <2>1. UNCHANGED <<sent, live, slipped, held>>
    BY <1>11 DEF Open, SetPreviewWindow, StartRecording, StopRecording, Quiet, frameVars
  <2>2. cb' = cb \/ {cb.pc, cb'.pc} \cap {"push", "post"} = {}
    BY <1>11, <1>1, CallbackMoves, CallbackStays DEF At
  <2>3. app' = app \/ ~(Walking \/ Walking')
    BY <1>11, <1>1, ApplicationMoves, ApplicationStays DEF Walking, AppAt, Ready
  <2> QED BY <2>1, <2>2, <2>3
<1>12. CASE ReleaseRecordingFrame
  <2>1. UNCHANGED <<sent, slipped, cb>> /\ AppAt("idle")
    BY <1>12 DEF ReleaseRecordingFrame, Quiet, Free
  <2>2. InFlight' = InFlight /\ Coming' = Coming /\ InFlight \subseteq Coming
    BY <2>1 DEF InFlight, Coming, At
  <2>3. Swept = {}
    BY <2>1 DEF Swept, Walking, AppAt
  <2>4. PICK m \in held :
          /\ held' = held \ {m}
          /\ \/ \E i \in DOMAIN sent :
                  /\ sent[i] = m /\ live' = live \ {m}
                  /\ app' = [pc |-> "erase", i |-> i]
             \/ m \notin ToSet(sent) /\ UNCHANGED <<live, app>>
    BY <1>12 DEF ReleaseRecordingFrame
  <2>5. live = ToSet(sent) \cup slipped \cup InFlight
    BY <1>1, <2>3 DEF FramesKept
  <2>6. CASE \E i \in DOMAIN sent : /\ sent[i] = m /\ live' = live \ {m}
                                    /\ app' = [pc |-> "erase", i |-> i]
    <3>1. PICK i \in DOMAIN sent : /\ sent[i] = m /\ live' = live \ {m}
                                   /\ app' = [pc |-> "erase", i |-> i]
      BY <2>6
    <3>2. Swept' = {m}
      BY <2>1, <3>1 DEF Swept, Walking, AppAt
    <3>3. m \in ToSet(sent)
      BY <3>1 DEF ToSet
    <3>4. m \notin slipped \cup InFlight
      BY <1>1, <3>3 DEF FramesKept
    <3>5. live' = (ToSet(sent) \ {m}) \cup slipped \cup InFlight
      BY <2>5, <3>1, <3>4
    <3>6. live' \ slipped \subseteq held' \cup Coming
      BY <1>1, <2>4, <3>1 DEF FramesKept
    <3> QED BY <1>1, <2>1, <2>2, <3>2, <3>5, <3>6 DEF FramesKept
  <2>7. CASE m \notin ToSet(sent) /\ UNCHANGED <<live, app>>
    <3>1. Swept' = {}
      BY <2>1, <2>7 DEF Swept, Walking, AppAt
    <3>2. live \ slipped \subseteq held' \cup Coming
      BY <1>1, <2>2, <2>4, <2>5, <2>7 DEF FramesKept
    <3> QED BY <1>1, <2>1, <2>2, <2>3, <2>7, <3>1, <3>2 DEF FramesKept
  <2> QED BY <2>4, <2>6, <2>7
<1>13. CASE EraseFrame
  <2>1. /\ UNCHANGED <<live, slipped, held, cb>> /\ sent' = RemoveAt(sent, app.i)
        /\ AppAt("erase") /\ app' = Ready
    BY <1>1, <1>13, ApplicationMoves DEF EraseFrame, Quiet
  <2>2. InFlight' = InFlight /\ Coming' = Coming
    BY <2>1 DEF InFlight, Coming, At
  <2>3. Swept = {sent[app.i]} /\ Swept' = {}
    BY <2>1 DEF Swept, Walking, AppAt, Ready
  <2>4. sent \in Seq(Nat) /\ IsInjective(sent) /\ app.i \in 1 .. Len(sent)
    BY <1>1, <2>1 DEF Types, Position, FramesKept
  <2>5. ToSet(sent') = ToSet(sent) \ Swept /\ IsInjective(sent')
    BY <2>1, <2>3, <2>4, Erased
  <2> QED BY <1>1, <2>1, <2>2, <2>3, <2>5 DEF FramesKept
<1>14. CASE DisableVideoFrames
  <2>1. /\ UNCHANGED <<sent, live, slipped, held, cb>>
        /\ AppAt("idle") /\ app' = [pc |-> "sweep", i |-> 1]
    BY <1>1, <1>14, ApplicationMoves DEF DisableVideoFrames, Quiet
  <2>2. InFlight' = InFlight /\ Coming' = Coming
    BY <2>1 DEF InFlight, Coming, At
  <2>3. sent \in Seq(Nat) /\ IsInjective(sent) /\ 1 \in 1 .. Len(sent) + 1
    BY <1>1, LenProperties DEF Types, FramesKept
  <2>4. Swept = {} /\ Swept' = ToSet(SubSeq(sent, 1, 1 - 1))
    BY <2>1 DEF Swept, Walking, AppAt
  <2>5. ToSet(SubSeq(sent, 1, 1 - 1)) = {sent[j] : j \in 1 .. 1 - 1}
    BY <2>3, SplitAt
  <2>6. Swept' = {}
    BY <2>4, <2>5
  <2> QED BY <1>1, <2>1, <2>2, <2>4, <2>6 DEF FramesKept
<1>15. ASSUME TakePicture \/ CancelPicture \/ SetCameraParameters
       PROVE  Calm
  <2>1. UNCHANGED <<sent, live, slipped, held>>
    BY <1>15 DEF TakePicture, CancelPicture, SetCameraParameters, Quiet
  <2>2. cb' = cb \/ {cb.pc, cb'.pc} \cap {"push", "post"} = {}
    BY <1>15, <1>1, CallbackMoves, CallbackStays DEF At
  <2>3. app' = app \/ ~(Walking \/ Walking')
    BY <1>15, <1>1, ApplicationMoves, ApplicationStays DEF Walking, AppAt, Ready
  <2> QED BY <2>1, <2>2, <2>3
<1>16. CASE SweepFrame
  <2>1. /\ UNCHANGED <<sent, slipped, held, cb>> /\ live' = live \ {sent[app.i]}
        /\ InSweep /\ app'.pc = app.pc /\ app'.i = app.i + 1 /\ app.i <= Len(sent)
    BY <1>1, <1>16, ApplicationMoves DEF SweepFrame, Quiet
  <2>2. InFlight' = InFlight /\ Coming' = Coming
    BY <2>1 DEF InFlight, Coming, At
  <2>3. sent \in Seq(Nat) /\ IsInjective(sent) /\ app.i \in 1 .. Len(sent) + 1 /\ Len(sent) \in Nat
    BY <1>1, <2>1, LenProperties DEF Types, Position, FramesKept, InSweep, Walking
  <2>4. app.i \in 1 .. Len(sent) /\ app.i + 1 \in 1 .. Len(sent) + 1 /\ (app.i + 1) - 1 = app.i
    BY <2>1, <2>3
  <2> DEFINE x == sent[app.i]
  <2>5. Swept = ToSet(SubSeq(sent, 1, app.i - 1)) /\ Swept' = ToSet(SubSeq(sent, 1, (app.i + 1) - 1))
    BY <2>1 DEF Swept, Walking, AppAt, InSweep
  <2>6. Swept = {sent[j] : j \in 1 .. app.i - 1} /\ Swept' = {sent[j] : j \in 1 .. (app.i + 1) - 1}
    BY <2>3, <2>4, <2>5, SplitAt
  <2>7. Swept' = Swept \cup {x}
    <3>1. 1 .. app.i = (1 .. app.i - 1) \cup {app.i}
      BY <2>3
    <3> QED BY <2>4, <2>6, <3>1
  <2>8. x \in ToSet(sent)
    BY <2>3, <2>4, LenProperties DEF ToSet
  <2> HIDE DEF x
  <2>9. x \notin slipped \cup InFlight
    BY <1>1, <2>8 DEF FramesKept
  <2>10. live' = (ToSet(sent) \ Swept') \cup slipped \cup InFlight
    BY <1>1, <2>1, <2>7, <2>9 DEF FramesKept, x
  <2>11. live' \ slipped \subseteq held \cup Coming
    BY <1>1, <2>1 DEF FramesKept
  <2> QED BY <1>1, <2>1, <2>2, <2>10, <2>11 DEF FramesKept
<1>17. CASE SweepEnds
  <2>1. /\ UNCHANGED <<sent, live, slipped, held, cb>>
        /\ InSweep /\ app'.pc \in {"clear", "clearRel"} /\ app'.i = app.i
    BY <1>1, <1>17, ApplicationMoves DEF SweepEnds, Quiet
  <2>2. InFlight' = InFlight /\ Coming' = Coming
    BY <2>1 DEF InFlight, Coming, At
  <2>3. Swept' = Swept
    BY <2>1 DEF Swept, Walking, AppAt, InSweep
  <2> QED BY <1>1, <2>1, <2>2, <2>3 DEF FramesKept
<1>18. CASE ClearFrames
  <2> DEFINE rest == ToSet(SubSeq(sent, app.i, Len(sent)))
  <2>1. /\ live' = live /\ held' = held /\ cb' = cb /\ sent' = <<>> /\ slipped' = slipped \cup rest
        /\ app.pc \in {"clear", "clearRel"} /\ app' \in {Ready, [pc |-> "dropData", i |-> 1]}
    BY <1>1, <1>18, ApplicationMoves DEF ClearFrames
  <2>2. InFlight' = InFlight /\ Coming' = Coming
    BY <2>1 DEF InFlight, Coming, At
  <2>3. Swept = ToSet(SubSeq(sent, 1, app.i - 1)) /\ Swept' = {}
    BY <2>1 DEF Swept, Walking, AppAt, Ready
  <2>4. sent \in Seq(Nat) /\ IsInjective(sent) /\ app.i \in 1 .. Len(sent) + 1
    BY <1>1, <2>1 DEF Types, Position, FramesKept, Walking
  <2>5. ToSet(sent) = Swept \cup rest /\ Swept \cap rest = {}
    BY <2>3, <2>4, SplitAt
  <2> HIDE DEF rest
  <2>6. ToSet(sent') = {} /\ IsInjective(sent')
    BY <2>1 DEF ToSet, IsInjective
  <2>7. live = slipped' \cup InFlight
    BY <1>1, <2>1, <2>5 DEF FramesKept
  <2>8. InFlight \cap slipped' = {}
    BY <1>1, <2>1, <2>5 DEF FramesKept
  <2>9. live \ slipped' \subseteq held \cup Coming
    BY <1>1, <2>1 DEF FramesKept
  <2> QED BY <2>1, <2>2, <2>3, <2>6, <2>7, <2>8, <2>9 DEF FramesKept
<1>19. CASE Release
  <2>1. /\ UNCHANGED <<sent, live, slipped, held, cb>>
        /\ AppAt("idle") /\ app' = [pc |-> "sweepRel", i |-> 1]
    BY <1>1, <1>19, ApplicationMoves DEF Release, Quiet
  <2>2. InFlight' = InFlight /\ Coming' = Coming
    BY <2>1 DEF InFlight, Coming, At
  <2>3. sent \in Seq(Nat) /\ IsInjective(sent) /\ 1 \in 1 .. Len(sent) + 1
    BY <1>1, LenProperties DEF Types, FramesKept
  <2>4. Swept = {} /\ Swept' = ToSet(SubSeq(sent, 1, 1 - 1))
    BY <2>1 DEF Swept, Walking, AppAt
  <2>5. ToSet(SubSeq(sent, 1, 1 - 1)) = {sent[j] : j \in 1 .. 1 - 1}
    BY <2>3, SplitAt
  <2>6. Swept' = {}
    BY <2>4, <2>5
  <2> QED BY <1>1, <2>1, <2>2, <2>4, <2>6 DEF FramesKept
<1>20. CASE Close
  <2>1. /\ live' = {} /\ slipped' = {} /\ held' = {} /\ sent' = <<>>
        /\ At("idle") /\ cb' = cb
    BY <1>1, <1>20, CallbackStays DEF Close, Position
  <2>2. InFlight' = {}
    BY <2>1 DEF InFlight, At
  <2>3. ToSet(sent') = {} /\ IsInjective(sent')
    BY <2>1 DEF ToSet, IsInjective
  <2> QED BY <2>1, <2>2, <2>3 DEF FramesKept
<1>21. ASSUME ReleaseData \/ ReleaseNulls \/ ReleaseLibrary
       PROVE  Calm
  <2>1. UNCHANGED <<sent, live, slipped, held>>
    BY <1>21 DEF ReleaseData, ReleaseNulls, ReleaseLibrary, frameVars, Quiet
  <2>2. cb' = cb \/ {cb.pc, cb'.pc} \cap {"push", "post"} = {}
    BY <1>21, <1>1, CallbackMoves, CallbackStays DEF At
  <2>3. app' = app \/ ~(Walking \/ Walking')
    BY <1>21, <1>1, ApplicationMoves, ApplicationStays DEF Walking, AppAt, Ready
  <2> QED BY <2>1, <2>2, <2>3
<1>22. ASSUME DestroyTorchOff \/ DestroySignals \/ DestroyRequests \/ DestroyWaits
       PROVE  Calm
  <2>1. UNCHANGED <<sent, live, slipped, held>>
    BY <1>22 DEF DestroyTorchOff, DestroySignals, DestroyRequests, DestroyWaits, NotTorch,
       frameVars
  <2>2. cb' = cb \/ {cb.pc, cb'.pc} \cap {"push", "post"} = {}
    BY <1>22, <1>1, CallbackMoves, CallbackStays DEF At
  <2>3. app' = app \/ ~(Walking \/ Walking')
    BY <1>22, <1>1, ApplicationMoves, ApplicationStays DEF Walking, AppAt, Ready
  <2> QED BY <2>1, <2>2, <2>3
<1> QED BY <1>2, <1>3, <1>4, <1>5, <1>6, <1>7, <1>8, <1>9, <1>10, <1>11, <1>12, <1>13, <1>14,
   <1>15, <1>16, <1>17, <1>18, <1>19, <1>20, <1>21, <1>22 DEF Next, CallbackNext, CallbackGoesOn, AppNext, AppGoesOn
-----------------------------------------------------------------------------
(* The process starts with nothing lent, nothing drawn and nothing asked.   *)
LEMMA InitInv == Init => IInv
<1> SUFFICES ASSUME Init PROVE IInv
  OBVIOUS
<1>1. /\ camera \in Cameras /\ asked = 0 /\ offset = 0 /\ dev = "closed"
      /\ window = None /\ clientData = "null" /\ fault = "no"
      /\ sent = <<>> /\ live = {} /\ held = {} /\ slipped = {}
      /\ prevDropped = FALSE /\ lastVideo = None
      /\ out = {} /\ replaced = {} /\ cb = Idle /\ app = Ready
  BY DEF Init, WrapperInit
<1>2. cb.pc = "idle" /\ app.pc = "idle" /\ Idle \in CbRecs /\ Ready \in AppRecs
  BY <1>1 DEF Idle, Ready, CbRecs, AppRecs, CbPcs, AppPcs
<1>3. sent \in Seq(Nat) /\ Len(sent) = 0 /\ ToSet(sent) = {} /\ IsInjective(sent)
  BY <1>1 DEF ToSet, IsInjective
<1>4. Types
  <2>1. cb \in CbRecs /\ app \in AppRecs /\ fault \in Faults
    BY <1>1, <1>2 DEF Faults
  <2>2. sent \in Seq(Nat) /\ live \subseteq Nat /\ slipped \subseteq Nat /\ held \subseteq Nat
    BY <1>1
  <2>3. asked \in Int
    BY <1>1
  <2>4. window \in Windows \cup {None}
    BY <1>1
  <2>5. prevDropped \in BOOLEAN
    BY <1>1
  <2> QED BY <1>1, <2>1, <2>2, <2>3, <2>4, <2>5 DEF Types
<1>5. Position
  BY <1>2 DEF Position, At, AppAt, Walking
<1>6. Lag
  <2>1. 0 <= Hard + 1
    BY Thresholds
  <2> QED BY <1>1, <1>2, <1>3, <2>1 DEF Lag, At, None
<1>7. DataOwned
  BY <1>1, <1>2 DEF DataOwned, At
<1>8. FaultsNeedTwo
  BY <1>1 DEF FaultsNeedTwo
<1>9. Exposed
  <2>1. Sign(0) = 1 /\ Abs(0) = 0 /\ Round(0, 3) = 0
    BY DEF Round, Sign, Abs
  <2>2. Even(0)
    BY <2>1 DEF Even
  <2> QED BY <1>1, <2>1, <2>2 DEF Exposed, ExposureOffset
<1>10. FramesKept
  <2>1. InFlight = {} /\ Coming = {} /\ Swept = {}
    BY <1>2 DEF InFlight, Coming, Swept, At, Walking
  <2> QED BY <1>1, <1>3, <2>1 DEF FramesKept
<1>11. WindowsKept
  BY <1>1, <1>2 DEF WindowsKept, Holding, Drawing
<1> QED BY <1>4, <1>5, <1>6, <1>7, <1>8, <1>9, <1>10, <1>11 DEF IInv

(* Every step keeps the invariant.                                          *)
LEMMA NextInv == IInv /\ Next => IInv'
<1> SUFFICES ASSUME IInv, Next PROVE IInv'
  OBVIOUS
<1>1. Types'
  BY DeviceTyped, FramesTyped, CallbackTyped, ApplicationTyped, FaultsKept, ExposedKept DEF Types
<1>2. Position'
  BY DeviceKept, IndexKept DEF Position, At
<1> QED BY <1>1, <1>2, LagKept, DataKept, FaultsKept, ExposedKept, FramesAreKept, WindowsAreKept
        DEF IInv

(* So does a step of something else.                                        *)
LEMMA StutterInv == IInv /\ UNCHANGED vars => IInv'
<1> SUFFICES ASSUME IInv, UNCHANGED vars PROVE IInv'
  OBVIOUS
<1>1. UNCHANGED <<camera, asked, offset, dev, window, overlay, clientData, sent, live, held, slipped,
                  prevDropped, lastVideo, out, replaced, cb, app, fault>>
  BY DEF vars, paramVars, deviceVars, frameVars, videoVars, drawVars
<1>2. Types' /\ Position'
  BY <1>1 DEF IInv, Types, Position, At, AppAt, Walking
<1>3. Lag'
  BY <1>1 DEF IInv, Lag, At
<1>4. DataOwned' /\ FaultsNeedTwo' /\ Exposed'
  BY <1>1 DEF IInv, DataOwned, FaultsNeedTwo, Exposed, At, AppAt, Alive, Walking
<1>5. (Alive' <=> Alive) /\ Swept' = Swept /\ InFlight' = InFlight /\ Coming' = Coming
  BY <1>1 DEF Alive, Swept, InFlight, Coming, At, AppAt, Walking
<1>6. FramesKept => FramesKept'
  BY <1>1, <1>5 DEF FramesKept
<1>7. WindowsKept => WindowsKept'
  BY <1>1 DEF WindowsKept, Holding, Drawing
<1> QED BY <1>2, <1>3, <1>4, <1>5, <1>6, <1>7 DEF IInv

(* The inductive invariant holds.                                           *)
THEOREM CameraInvariant == Spec => []IInv
<1>1. IInv /\ [Next]_vars => IInv'
  BY NextInv, StutterInv
<1> QED BY <1>1, InitInv, PTL DEF Spec

-----------------------------------------------------------------------------
(* At most one frame more than the hard threshold is with the encoder, and  *)
(* below the threshold no two consecutive frames are dropped                *)
(* (dataTimestampCallback).                                                 *)
THEOREM EncoderKeepsUp == Spec => []Backpressure
<1>1. IInv => Backpressure
  BY DEF IInv, Lag, Backpressure
<1> QED BY <1>1, CameraInvariant, PTL

(* The process dies only where the application's call and the library's     *)
(* message meet: of the vector while it is swept, of data that is being     *)
(* released, of a window or an overlay that is taken away.                  *)
THEOREM DiesOnlyOfCollisions == Spec => []FaultsNeedTwo
<1>1. IInv => FaultsNeedTwo
  BY DEF IInv
<1> QED BY <1>1, CameraInvariant, PTL

(* While the process lives no frame is lost or released twice, and every    *)
(* preview buffer goes back to its window unless that was replaced          *)
(* (releaseCameraFrames, processPreviewData).                               *)
THEOREM NoFrameIsLost == Spec => []FramesAccounted
<1>1. IInv => FramesAccounted
  BY DEF IInv, FramesKept, WindowsKept, Holding, InFlight, Coming, FramesAccounted
<1> QED BY <1>1, CameraInvariant, PTL

-----------------------------------------------------------------------------
(* Rounding a third, and rounding what is a multiple already.               *)
LEMMA Thirds ==
  ASSUME NEW e \in Int
  PROVE  /\ Round(e, 3) \in Int
         /\ 3 * Round(e, 3) - e <= 1 /\ e - 3 * Round(e, 3) <= 1
<1>1. CASE e < 0
  <2>1. Sign(e) = -1 /\ Abs(e) = -e
    BY <1>1 DEF Sign, Abs
  <2>2. Round(e, 3) = -((2 * (-e) + 3) \div 6)
    BY <2>1 DEF Round
  <2> QED BY <1>1, <2>2
<1>2. CASE ~(e < 0)
  <2>1. Sign(e) = 1 /\ Abs(e) = e
    BY <1>2 DEF Sign, Abs
  <2>2. Round(e, 3) = (2 * e + 3) \div 6
    BY <2>1 DEF Round
  <2> QED BY <1>2, <2>2
<1> QED BY <1>1, <1>2

(* A whole number of steps is read back as it is.                           *)
LEMMA Wholes ==
  ASSUME NEW r \in Int
  PROVE  Round(3 * r, 3) = r /\ Round(3 * (100 * r), 100) = 3 * r
<1>1. CASE r < 0
  <2>1. /\ Sign(3 * r) = -1 /\ Abs(3 * r) = -3 * r
        /\ Sign(3 * (100 * r)) = -1 /\ Abs(3 * (100 * r)) = -300 * r
    BY <1>1 DEF Sign, Abs
  <2>2. Round(3 * r, 3) = -((2 * (-3 * r) + 3) \div 6)
    BY <2>1 DEF Round
  <2>3. Round(3 * (100 * r), 100) = -((2 * (-300 * r) + 100) \div 200)
    BY <2>1 DEF Round
  <2> QED BY <1>1, <2>2, <2>3
<1>2. CASE ~(r < 0)
  <2>1. /\ Sign(3 * r) = 1 /\ Abs(3 * r) = 3 * r
        /\ Sign(3 * (100 * r)) = 1 /\ Abs(3 * (100 * r)) = 300 * r
    BY <1>2 DEF Sign, Abs
  <2>2. Round(3 * r, 3) = (2 * (3 * r) + 3) \div 6
    BY <2>1 DEF Round
  <2>3. Round(3 * (100 * r), 100) = (2 * (300 * r) + 100) \div 200
    BY <2>1 DEF Round
  <2> QED BY <1>2, <2>2, <2>3
<1> QED BY <1>1, <1>2

(* Two decimals are enough to read back what was written.                   *)
LEMMA Decimals ==
  ASSUME NEW e \in Int
  PROVE  Round(3 * Round(100 * e, 3), 100) = e
<1> DEFINE q == Round(100 * e, 3)
<1>1. CASE e < 0
  <2>1. Sign(100 * e) = -1 /\ Abs(100 * e) = -100 * e
    BY <1>1 DEF Sign, Abs
  <2>2. q = -((2 * (-100 * e) + 3) \div 6)
    BY <2>1 DEF Round
  <2>3. q \in Int /\ q < 0 /\ 3 * q - 100 * e <= 3 /\ 100 * e - 3 * q <= 3
    BY <1>1, <2>2
  <2> HIDE DEF q
  <2>4. Sign(3 * q) = -1 /\ Abs(3 * q) = -3 * q
    BY <2>3 DEF Sign, Abs
  <2>5. Round(3 * q, 100) = -((2 * (-3 * q) + 100) \div 200)
    <3> DEFINE a == Abs(3 * q)
    <3>1. Round(3 * q, 100) = Sign(3 * q) * ((2 * a + 100) \div 200)
      BY DEF Round
    <3> HIDE DEF a
    <3>2. 2 * a + 100 = 2 * (-3 * q) + 100
      BY <2>4 DEF a
    <3>3. (2 * a + 100) \div 200 = (2 * (-3 * q) + 100) \div 200
      BY <3>2
    <3>4. (2 * (-3 * q) + 100) \div 200 \in Int
      BY <2>3
    <3> QED BY <2>4, <3>1, <3>3, <3>4
  <2>6. Round(3 * q, 100) = e
    BY <1>1, <2>3, <2>5
  <2> QED BY <2>6 DEF q
<1>2. CASE ~(e < 0)
  <2>1. Sign(100 * e) = 1 /\ Abs(100 * e) = 100 * e
    BY <1>2 DEF Sign, Abs
  <2>2. q = (2 * (100 * e) + 3) \div 6
    BY <2>1 DEF Round
  <2>3. q \in Int /\ q >= 0 /\ 3 * q - 100 * e <= 3 /\ 100 * e - 3 * q <= 3
    BY <1>2, <2>2
  <2> HIDE DEF q
  <2>4. Sign(3 * q) = 1 /\ Abs(3 * q) = 3 * q
    BY <2>3 DEF Sign, Abs
  <2>5. Round(3 * q, 100) = (2 * (3 * q) + 100) \div 200
    <3> DEFINE a == Abs(3 * q)
    <3>1. Round(3 * q, 100) = Sign(3 * q) * ((2 * a + 100) \div 200)
      BY DEF Round
    <3> HIDE DEF a
    <3>2. 2 * a + 100 = 2 * (3 * q) + 100
      BY <2>4 DEF a
    <3>3. (2 * a + 100) \div 200 = (2 * (3 * q) + 100) \div 200
      BY <3>2
    <3>4. (2 * (3 * q) + 100) \div 200 \in Int
      BY <2>3
    <3> QED BY <2>4, <3>1, <3>3, <3>4
  <2>6. Round(3 * q, 100) = e
    BY <1>2, <2>3, <2>5
  <2> QED BY <2>6 DEF q
<1> QED BY <1>1, <1>2

(* What is read back after an exposure is set is at most one step from it,  *)
(* and is itself read back unchanged.                                       *)
LEMMA ReadBack ==
  ASSUME NEW e \in Int
  PROVE  LET got == ExposureParam(ExposureOffset(e)) IN
         /\ Abs(got - e) <= 1
         /\ ExposureParam(ExposureOffset(got)) = got
<1> DEFINE got == ExposureParam(ExposureOffset(e))
           r == Round(e, 3)
<1>1. CASE Even(e)
  <2>1. r \in Int /\ 3 * r - e <= 1 /\ e - 3 * r <= 1
    BY Thirds
  <2>2. ExposureOffset(e) = 100 * r
    BY <1>1 DEF ExposureOffset
  <2> HIDE DEF r
  <2>3. got = 3 * r
    BY <2>1, <2>2, Wholes DEF ExposureParam
  <2>4. Abs(3 * r - e) <= 1
    BY <2>1 DEF Abs
  <2>5. Round(3 * r, 3) = r /\ 3 * r \in Int
    BY <2>1, Wholes
  <2>6. Even(3 * r)
    <3>1. 20 * (3 * r - 3 * r) < 3
      BY <2>1
    <3> QED BY <2>5, <3>1 DEF Even
  <2>7. ExposureOffset(3 * r) = 100 * r
    BY <2>5, <2>6 DEF ExposureOffset
  <2>8. ExposureParam(ExposureOffset(3 * r)) = 3 * r
    BY <2>1, <2>7, Wholes DEF ExposureParam
  <2> HIDE DEF got
  <2>9. Abs(got - e) <= 1 /\ ExposureParam(ExposureOffset(got)) = got
    BY <2>3, <2>4, <2>8
  <2> QED BY <2>9 DEF got
<1>2. CASE ~Even(e)
  <2>1. ExposureOffset(e) = Round(100 * e, 3)
    BY <1>2 DEF ExposureOffset
  <2>2. got = e
    BY <2>1, Decimals DEF ExposureParam
  <2>3. Abs(e - e) <= 1
    BY DEF Abs
  <2>4. ExposureParam(ExposureOffset(e)) = e
    BY <2>2
  <2> HIDE DEF got
  <2>5. Abs(got - e) <= 1 /\ ExposureParam(ExposureOffset(got)) = got
    BY <2>2, <2>3, <2>4
  <2> QED BY <2>5 DEF got
<1> QED BY <1>1, <1>2

(* An application that writes back the exposure it reads does not drift     *)
(* (setParameters, getParameters).                                          *)
THEOREM ExposureDoesNotDrift == Spec => []ExposureSettles
<1>1. IInv => ExposureSettles
  <2> SUFFICES ASSUME IInv PROVE ExposureSettles
    OBVIOUS
  <2>1. asked \in Int /\ offset = ExposureOffset(asked)
    BY DEF IInv, Types, Exposed
  <2> QED BY <2>1, ReadBack DEF ExposureSettles
<1> QED BY <1>1, CameraInvariant, PTL
=============================================================================
