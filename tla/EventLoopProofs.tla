-------------------------- MODULE EventLoopProofs --------------------------
(***************************************************************************)
(* Proofs about the two programs that serve events in one thread, charge   *)
(* only mode and the network switcher, for any delays of the alarms, any   *)
(* number of events and any length of the queues.                          *)
(*                                                                         *)
(* The network switcher (NwSwitch!SettledAgrees): that the service counts  *)
(* a mode as switched when it asks for it makes prior and target the same  *)
(* at every step.  While no request failed, what was asked last is that    *)
(* mode: the last request on its way, or when there is none the modem's    *)
(* mode, and every answer stores it.                                       *)
(*                                                                         *)
(* Charge only mode (AlarmsFitDisplay, LongPressIsHeld): setting an alarm  *)
(* that is not in the list, cancelling, taking out the first and a tick    *)
(* keep the list in the order of time with each handler once, and change   *)
(* the set of handlers in it as one would expect.  The steps then speak of *)
(* that set only: each takes it from one stage of the display to another.  *)
(* What alarm_cancel and alarm_set_relative return is proved by induction  *)
(* in the form that a set of naturals has a least element.                 *)
(***************************************************************************)
EXTENDS ChargeOnly, NwSwitch, SequenceTheorems, WellFoundedInduction, TLAPS

-----------------------------------------------------------------------------
(* The network switcher.                                                   *)
NwTypes ==
  /\ service \in {"none", "created", "started"}
  /\ mPhone \in BOOLEAN /\ receiver \in BOOLEAN /\ timer \in BOOLEAN
  /\ mInAirplanMode \in BOOLEAN /\ mPriorSimAbsent \in BOOLEAN /\ mNewSimAbsent \in BOOLEAN
  /\ cardAbsent \in BOOLEAN /\ airplane \in BOOLEAN /\ absentTag \in BOOLEAN /\ odd \in BOOLEAN
  /\ mPriorNwMode \in Modes /\ setting \in Modes /\ modem \in Modes
  /\ requests \in Seq(Modes) /\ answers \in Seq(BOOLEAN)

(* What the steps of a life leave: a service without a receiver has read   *)
(* nothing, and one without a phone has asked for nothing.                 *)
Lifetime ==
  /\ mPhone => receiver
  /\ receiver => ~timer
  /\ service = "none" => ~receiver /\ ~timer
  /\ ~receiver => ~mPriorSimAbsent /\ ~mNewSimAbsent /\ ~mInAirplanMode
  /\ ~mPhone => requests = <<>> /\ answers = <<>> /\ setting = modem /\ ~odd

OneMode == mPriorNwMode = mTargetNwMode

(* A phone known to be without a card is not meant to be in a GSM mode. *)
CardKnown ==
  mPhone /\ mPriorSimAbsent /\ ~mInAirplanMode => mTargetNwMode \notin Gsm

UnderWay ==
  mPhone /\ ~odd =>
    /\ \A i \in 1 .. Len(answers) : answers[i]
    /\ requests # <<>> => requests[Len(requests)] = mTargetNwMode
    /\ requests = <<>> => modem = mTargetNwMode
    /\ requests = <<>> /\ answers = <<>> => setting = mTargetNwMode
    /\ requests # <<>> \/ answers # <<>> => mNwModeChangeType # "none"

SwitchInv == NwTypes /\ Lifetime /\ OneMode /\ CardKnown /\ UnderWay

-----------------------------------------------------------------------------
(* The last element of a sequence whose head is taken. *)
LEMMA LastOfTail ==
  ASSUME NEW S, NEW s \in Seq(S), s # <<>>
  PROVE  /\ Tail(s) \in Seq(S)
         /\ Len(Tail(s)) = Len(s) - 1
         /\ Tail(s) = <<>> <=> Len(s) = 1
         /\ \A i \in 1 .. Len(Tail(s)) : Tail(s)[i] = s[i + 1]
         /\ Head(s) = s[1] /\ Head(s) \in S
         /\ Tail(s) # <<>> => Tail(s)[Len(Tail(s))] = s[Len(s)]
<1>1. Tail(s) \in Seq(S) /\ Len(Tail(s)) = Len(s) - 1
      /\ \A i \in 1 .. Len(Tail(s)) : Tail(s)[i] = s[i + 1]
  BY HeadTailProperties
<1>2. Tail(s) = <<>> <=> Len(s) = 1
  <2>1. Tail(s) = <<>> <=> Len(Tail(s)) = 0
    BY <1>1, EmptySeq
  <2>2. Len(s) \in Nat
    BY LenProperties
  <2> QED BY <1>1, <2>1, <2>2
<1>3. Head(s) = s[1] /\ Head(s) \in S
  BY HeadTailProperties
<1>4. ASSUME Tail(s) # <<>> PROVE Tail(s)[Len(Tail(s))] = s[Len(s)]
  <2>1. Len(Tail(s)) \in Nat /\ Len(Tail(s)) # 0 /\ Len(s) \in Nat
    BY <1>1, <1>4, EmptySeq, LenProperties
  <2> QED BY <2>1, <1>1
<1> QED BY <1>1, <1>2, <1>3, <1>4

(* The last element of a sequence to which one is added. *)
LEMMA LastOfAppend ==
  ASSUME NEW S, NEW s \in Seq(S), NEW e \in S
  PROVE  /\ Append(s, e) \in Seq(S) /\ Append(s, e) # <<>>
         /\ Len(Append(s, e)) = Len(s) + 1
         /\ \A i \in 1 .. Len(s) : Append(s, e)[i] = s[i]
         /\ Append(s, e)[Len(Append(s, e))] = e
         /\ Append(s, e)[Len(s) + 1] = e
<1>1. Append(s, e) \in Seq(S) /\ Len(Append(s, e)) = Len(s) + 1
      /\ (\A i \in 1 .. Len(s) : Append(s, e)[i] = s[i])
      /\ Append(s, e)[Len(s) + 1] = e
  BY AppendProperties
<1>2. Len(s) \in Nat
  BY LenProperties
<1>3. Append(s, e) # <<>>
  BY <1>1, <1>2, EmptySeq
<1> QED BY <1>1, <1>3

(* TargetMode is a mode, and with no card not one of GSM's. *)
LEMMA TargetIsRight ==
  ASSUME NEW absent \in BOOLEAN, NEW prior \in Modes
  PROVE  /\ TargetMode(absent, prior) \in Modes
         /\ absent => TargetMode(absent, prior) \notin Gsm
         /\ prior # TargetMode(absent, prior) => ChangeType(absent, prior) # "none"
         /\ mNwModeChangeType # "none" => ChangeType(absent, prior) # "none"
  BY DEF TargetMode, ChangeType, Modes, Gsm, Cdma

(* What processModeSwitch leaves, given fields in which prior and target   *)
(* are one mode, and requests and answers that lead to it.                 *)
LEMMA SwitchKeeps ==
  ASSUME NwTypes,
         NEW up \in BOOLEAN, NEW inAir \in BOOLEAN,
         NEW pAbs \in BOOLEAN, NEW nAbs \in BOOLEAN, NEW mode \in Modes,
         ProcessModeSwitch(up, inAir, pAbs, nAbs, mode, mode),
         mPhone' <=> up, mInAirplanMode' = inAir,
         UNCHANGED <<setting, modem, answers, odd>>,
         ~up => requests = <<>>,
         up /\ ~odd =>
           /\ \A i \in 1 .. Len(answers) : answers[i]
           /\ requests # <<>> => requests[Len(requests)] = mode
           /\ requests = <<>> => modem = mode
           /\ requests = <<>> /\ answers = <<>> => setting = mode
           /\ requests # <<>> \/ answers # <<>> => mNwModeChangeType # "none"
  PROVE  /\ mPriorSimAbsent' \in BOOLEAN /\ mNewSimAbsent' \in BOOLEAN
         /\ absentTag' \in BOOLEAN /\ mPriorNwMode' \in Modes /\ requests' \in Seq(Modes)
         /\ OneMode' /\ CardKnown' /\ UnderWay'
         /\ ~up => requests' = <<>> /\ mPriorSimAbsent' = pAbs /\ mNewSimAbsent' = nAbs
<1>1. CASE ~up \/ inAir
  <2>1. /\ mPriorSimAbsent' = pAbs /\ mNewSimAbsent' = nAbs
        /\ mPriorNwMode' = mode /\ mTargetNwMode' = mode
        /\ UNCHANGED <<mNwModeChangeType, absentTag, requests>>
    BY <1>1 DEF ProcessModeSwitch
  <2>2. OneMode' /\ CardKnown'
    BY <1>1, <2>1 DEF OneMode, CardKnown
  <2>3. UnderWay'
    BY <2>1 DEF UnderWay
  <2> QED BY <1>1, <2>1, <2>2, <2>3 DEF NwTypes
<1>2. CASE up /\ ~inAir
  <2>1. /\ mNewSimAbsent' = cardAbsent /\ absentTag' = cardAbsent /\ mPriorSimAbsent' = cardAbsent
    BY <1>2 DEF ProcessModeSwitch
  <2>2. CASE NeedsSwitch(pAbs, cardAbsent, mode)
    <3> DEFINE target == TargetMode(cardAbsent, mode)
    <3>1. /\ mTargetNwMode' = target /\ mPriorNwMode' = target
          /\ mNwModeChangeType' = ChangeType(cardAbsent, mode)
          /\ requests' = IF mode # target THEN Append(requests, target) ELSE requests
      BY <1>2, <2>2 DEF ProcessModeSwitch
    <3>2. /\ target \in Modes
          /\ cardAbsent => target \notin Gsm
          /\ mode # target => mNwModeChangeType' # "none"
          /\ mNwModeChangeType # "none" => mNwModeChangeType' # "none"
      BY <3>1, TargetIsRight DEF NwTypes
    <3> HIDE DEF target
    <3>3. OneMode' /\ CardKnown'
      BY <2>1, <3>1, <3>2 DEF OneMode, CardKnown
    <3>4. CASE mode = target
      <4>1. requests' = requests
        BY <3>1, <3>4
      <4>2. UnderWay'
        BY <1>2, <3>1, <3>2, <3>4, <4>1 DEF UnderWay
      <4> QED BY <1>2, <2>1, <3>1, <3>2, <3>3, <4>1, <4>2 DEF NwTypes
    <3>5. CASE mode # target
      <4>1. requests' = Append(requests, target)
        BY <3>1, <3>5
      <4>2. /\ requests' \in Seq(Modes) /\ requests' # <<>>
            /\ requests'[Len(requests')] = target
        BY <3>2, <4>1, LastOfAppend DEF NwTypes
      <4>3. UnderWay'
        BY <1>2, <3>1, <3>2, <3>5, <4>2 DEF UnderWay
      <4> QED BY <1>2, <2>1, <3>1, <3>2, <3>3, <4>2, <4>3 DEF NwTypes
    <3> QED BY <3>4, <3>5
  <2>3. CASE ~NeedsSwitch(pAbs, cardAbsent, mode)
    <3>1. /\ mTargetNwMode' = mode /\ mPriorNwMode' = mode
          /\ UNCHANGED <<mNwModeChangeType, requests>>
      BY <1>2, <2>3 DEF ProcessModeSwitch
    <3>2. OneMode' /\ CardKnown'
      BY <2>1, <2>3, <3>1 DEF OneMode, CardKnown, NeedsSwitch
    <3>3. UnderWay'
      BY <1>2, <3>1 DEF UnderWay
    <3> QED BY <1>2, <2>1, <3>1, <3>2, <3>3 DEF NwTypes
  <2> QED BY <2>2, <2>3
<1> QED BY <1>1, <1>2

-----------------------------------------------------------------------------
(* onCreate reads setting, airplane mode and tag, or nothing. *)
LEMMA CreateKeeps == SwitchInv /\ Create => SwitchInv'
<1> SUFFICES ASSUME SwitchInv, Create PROVE SwitchInv'
  OBVIOUS
<1>1. /\ service = "none" /\ service' = "created" /\ ~mPhone /\ ~receiver
      /\ requests = <<>> /\ answers = <<>> /\ setting = modem /\ ~odd
      /\ ~mPriorSimAbsent /\ ~mNewSimAbsent /\ ~mInAirplanMode
      /\ UNCHANGED <<mNwModeChangeType, world, stored, requests, answers, events, odd>>
  BY DEF SwitchInv, Lifetime, Create
<1>2. CASE phone = "ready"
  <2>1. /\ timer' = FALSE /\ mPhone' = TRUE /\ receiver' = TRUE
        /\ mInAirplanMode' = airplane
        /\ mPriorSimAbsent' = InitPrior(mPriorSimAbsent)
        /\ mNewSimAbsent' = InitPrior(mNewSimAbsent)
        /\ mPriorNwMode' = setting /\ mTargetNwMode' = setting
    BY <1>2 DEF Create, Waits, Registers, Reads, SwitchInv, NwTypes
  <2>2. NwTypes'
    BY <1>1, <2>1 DEF SwitchInv, NwTypes, InitPrior, world, stored
  <2>3. Lifetime'
    BY <1>1, <2>1 DEF Lifetime
  <2>4. OneMode' /\ CardKnown'
    BY <1>1, <2>1 DEF OneMode, CardKnown, InitPrior, SwitchInv, NwTypes
  <2>5. UnderWay'
    BY <1>1, <2>1, EmptySeq DEF UnderWay, world, stored
  <2> QED BY <2>2, <2>3, <2>4, <2>5 DEF SwitchInv
<1>3. CASE phone # "ready"
  <2>1. /\ mPhone' = FALSE /\ mInAirplanMode' = FALSE
        /\ mPriorSimAbsent' = FALSE /\ mNewSimAbsent' = FALSE
        /\ mPriorNwMode' = mPriorNwMode /\ mTargetNwMode' = mTargetNwMode
    BY <1>1, <1>3 DEF Create, Waits, Registers, Reads, InitPrior, SwitchInv, NwTypes
  <2>2. timer' \in BOOLEAN /\ receiver' \in BOOLEAN /\ (receiver' => ~timer')
    <3>1. receiver = FALSE
      BY <1>1 DEF SwitchInv, NwTypes
    <3>2. CASE Waits
      BY <3>1, <3>2 DEF Waits
    <3>3. CASE Registers
      BY <3>3 DEF Registers
    <3> QED BY <3>2, <3>3 DEF Create
  <2>3. NwTypes'
    BY <1>1, <2>1, <2>2 DEF SwitchInv, NwTypes, world, stored
  <2>4. Lifetime'
    BY <1>1, <2>1, <2>2 DEF Lifetime, world, stored
  <2>5. OneMode' /\ CardKnown' /\ UnderWay'
    BY <2>1 DEF OneMode, CardKnown, UnderWay, SwitchInv
  <2> QED BY <2>3, <2>4, <2>5 DEF SwitchInv
<1> QED BY <1>2, <1>3

(* onStart, the mode switch with the fields as they are. *)
LEMMA StartKeeps == SwitchInv /\ Start => SwitchInv'
<1> SUFFICES ASSUME SwitchInv, Start PROVE SwitchInv'
  OBVIOUS
<1>1. /\ service = "created" /\ service' = "started"
      /\ UNCHANGED <<mPhone, receiver, timer, mInAirplanMode, world, setting, answers, odd>>
      /\ ProcessModeSwitch(mPhone, mInAirplanMode, mPriorSimAbsent, mNewSimAbsent,
                           mPriorNwMode, mPriorNwMode)
  BY DEF Start, SwitchInv, OneMode
<1>2. UNCHANGED <<setting, modem, answers, odd>> /\ UNCHANGED <<cardAbsent, airplane>>
  BY <1>1 DEF world
<1>3. /\ mPriorSimAbsent' \in BOOLEAN /\ mNewSimAbsent' \in BOOLEAN
      /\ absentTag' \in BOOLEAN /\ mPriorNwMode' \in Modes /\ requests' \in Seq(Modes)
      /\ OneMode' /\ CardKnown' /\ UnderWay'
      /\ ~mPhone => requests' = <<>> /\ mPriorSimAbsent' = mPriorSimAbsent
                                     /\ mNewSimAbsent' = mNewSimAbsent
  <2>1. ~mPhone => requests = <<>>
    BY DEF SwitchInv, Lifetime
  <2>2. mPhone /\ ~odd =>
           /\ \A i \in 1 .. Len(answers) : answers[i]
           /\ requests # <<>> => requests[Len(requests)] = mPriorNwMode
           /\ requests = <<>> => modem = mPriorNwMode
           /\ requests = <<>> /\ answers = <<>> => setting = mPriorNwMode
           /\ requests # <<>> \/ answers # <<>> => mNwModeChangeType # "none"
    BY DEF SwitchInv, UnderWay, OneMode
  <2>3. /\ mPhone \in BOOLEAN /\ mInAirplanMode \in BOOLEAN /\ mPriorSimAbsent \in BOOLEAN
        /\ mNewSimAbsent \in BOOLEAN /\ mPriorNwMode \in Modes /\ NwTypes
    BY DEF SwitchInv, NwTypes
  <2>4. (mPhone' <=> mPhone) /\ mInAirplanMode' = mInAirplanMode
    BY <1>1
  <2> QED BY <1>1, <1>2, <2>1, <2>2, <2>3, <2>4, SwitchKeeps
<1>4. NwTypes'
  BY <1>1, <1>2, <1>3 DEF SwitchInv, NwTypes
<1>5. Lifetime'
  BY <1>1, <1>2, <1>3 DEF SwitchInv, Lifetime
<1> QED BY <1>3, <1>4, <1>5 DEF SwitchInv

(* The timer found a phone, or waits again. *)
LEMMA TimeOutKeeps == SwitchInv /\ TimeOut => SwitchInv'
<1> SUFFICES ASSUME SwitchInv, TimeOut PROVE SwitchInv'
  OBVIOUS
<1> DEFINE prior == IF Reads THEN setting ELSE mPriorNwMode
           inAir == IF Reads THEN airplane ELSE mInAirplanMode
           pAbs == InitPrior(mPriorSimAbsent)
           nAbs == InitPrior(mNewSimAbsent)
           up == phone = "ready"
<1>1. /\ timer /\ ~receiver /\ ~mPhone /\ service # "none"
      /\ requests = <<>> /\ answers = <<>> /\ setting = modem /\ ~odd
      /\ ~mPriorSimAbsent /\ ~mNewSimAbsent /\ ~mInAirplanMode
      /\ UNCHANGED <<service, world, setting, answers, odd>>
  BY DEF SwitchInv, Lifetime, TimeOut
<1>2. UNCHANGED <<setting, modem, answers, odd>> /\ UNCHANGED <<service, cardAbsent, airplane>>
  BY <1>1 DEF world
<1>3. mInAirplanMode' = inAir /\ ProcessModeSwitch(up, inAir, pAbs, nAbs, prior, prior)
  BY DEF TimeOut, SwitchInv, OneMode, Reads
<1>4. /\ timer' \in BOOLEAN /\ receiver' \in BOOLEAN /\ mPhone' = up
      /\ receiver' => ~timer'
      /\ up => receiver'
  <2>1. receiver = FALSE /\ mPhone = FALSE
    BY <1>1 DEF SwitchInv, NwTypes
  <2>2. CASE Waits
    BY <2>1, <2>2 DEF Waits
  <2>3. CASE Registers
    BY <2>3 DEF Registers
  <2> QED BY <2>2, <2>3 DEF TimeOut
<1>5. /\ prior \in Modes /\ inAir \in BOOLEAN /\ pAbs \in BOOLEAN /\ nAbs \in BOOLEAN /\ NwTypes
  BY DEF SwitchInv, NwTypes, InitPrior
<1>6. /\ ~up => ~pAbs /\ ~nAbs /\ ~inAir
      /\ up => prior = setting
  BY <1>1 DEF InitPrior, Reads
<1> HIDE DEF prior, inAir, pAbs, nAbs
<1>7. /\ mPriorSimAbsent' \in BOOLEAN /\ mNewSimAbsent' \in BOOLEAN
      /\ absentTag' \in BOOLEAN /\ mPriorNwMode' \in Modes /\ requests' \in Seq(Modes)
      /\ OneMode' /\ CardKnown' /\ UnderWay'
      /\ ~up => requests' = <<>> /\ mPriorSimAbsent' = pAbs /\ mNewSimAbsent' = nAbs
  <2>1. up /\ ~odd =>
           /\ \A i \in 1 .. Len(answers) : answers[i]
           /\ requests # <<>> => requests[Len(requests)] = prior
           /\ requests = <<>> => modem = prior
           /\ requests = <<>> /\ answers = <<>> => setting = prior
           /\ requests # <<>> \/ answers # <<>> => mNwModeChangeType # "none"
    BY <1>1, <1>6, EmptySeq
  <2>2. up \in BOOLEAN /\ (mPhone' <=> up) /\ (~up => requests = <<>>)
    BY <1>1, <1>4
  <2> HIDE DEF up
  <2> QED BY <1>2, <1>3, <1>5, <2>1, <2>2, SwitchKeeps
<1>8. NwTypes'
  BY <1>2, <1>3, <1>4, <1>5, <1>7 DEF NwTypes
<1>9. Lifetime'
  <2>1. /\ mPhone' => receiver'
        /\ receiver' => ~timer'
        /\ service' # "none"
    BY <1>1, <1>2, <1>4
  <2>2. ~receiver' => ~mPriorSimAbsent' /\ ~mNewSimAbsent' /\ ~mInAirplanMode'
    BY <1>3, <1>4, <1>6, <1>7
  <2>3. ~mPhone' => requests' = <<>> /\ answers' = <<>> /\ setting' = modem' /\ ~odd'
    BY <1>1, <1>2, <1>4, <1>7
  <2> QED BY <2>1, <2>2, <2>3 DEF Lifetime
<1> QED BY <1>7, <1>8, <1>9 DEF SwitchInv

(* An answer stores the mode asked for last, whichever request it is for. *)
LEMMA ResultKeeps == SwitchInv /\ HandleResult => SwitchInv'
<1> SUFFICES ASSUME SwitchInv, HandleResult PROVE SwitchInv'
  OBVIOUS
<1>1. /\ answers # <<>> /\ answers' = Tail(answers)
      /\ setting' = IF Head(answers) /\ mNwModeChangeType # "none" THEN mTargetNwMode ELSE setting
      /\ UNCHANGED <<life, memory, world, absentTag, requests, intents, events, odd>>
  BY DEF HandleResult
<1>2. /\ UNCHANGED <<service, mPhone, receiver, timer>>
      /\ UNCHANGED <<mInAirplanMode, mPriorSimAbsent, mNewSimAbsent, mPriorNwMode,
                     mTargetNwMode, mNwModeChangeType>>
      /\ UNCHANGED <<cardAbsent, airplane, modem, absentTag, requests, odd>>
  BY <1>1 DEF life, memory, world
<1>3. mPhone
  BY <1>1 DEF SwitchInv, Lifetime
<1>4. /\ answers' \in Seq(BOOLEAN) /\ Len(answers') = Len(answers) - 1 /\ Len(answers) \in Nat
      /\ \A i \in 1 .. Len(answers') : answers'[i] = answers[i + 1]
      /\ Head(answers) = answers[1] /\ Len(answers) # 0
  BY <1>1, LastOfTail, EmptySeq, LenProperties DEF SwitchInv, NwTypes
<1>5. NwTypes'
  <2>1. setting' \in Modes
    BY <1>1 DEF SwitchInv, NwTypes, OneMode
  <2> QED BY <1>2, <1>4, <2>1 DEF SwitchInv, NwTypes
<1>6. Lifetime' /\ OneMode' /\ CardKnown'
  BY <1>2, <1>3 DEF SwitchInv, Lifetime, OneMode, CardKnown
<1>7. UnderWay'
  <2> SUFFICES ASSUME ~odd
               PROVE  /\ \A i \in 1 .. Len(answers') : answers'[i]
                      /\ requests # <<>> => requests[Len(requests)] = mTargetNwMode
                      /\ requests = <<>> => modem = mTargetNwMode
                      /\ setting' = mTargetNwMode
                      /\ mNwModeChangeType # "none"
    BY <1>2 DEF UnderWay
  <2>1. /\ \A i \in 1 .. Len(answers) : answers[i]
        /\ requests # <<>> => requests[Len(requests)] = mTargetNwMode
        /\ requests = <<>> => modem = mTargetNwMode
        /\ mNwModeChangeType # "none"
    BY <1>1, <1>3 DEF SwitchInv, UnderWay
  <2>2. Head(answers)
    <3>1. 1 \in 1 .. Len(answers)
      BY <1>4
    <3>2. answers[1]
      BY <2>1, <3>1, Zenon
    <3> QED BY <1>4, <3>2
  <2>3. setting' = mTargetNwMode
    BY <1>1, <2>1, <2>2
  <2>4. \A i \in 1 .. Len(answers') : answers'[i]
    BY <1>4, <2>1
  <2> QED BY <2>1, <2>3, <2>4
<1> QED BY <1>5, <1>6, <1>7 DEF SwitchInv

(* What airplane mode's coming and the card's changes write. *)
LEMMA AirplaneOnKeeps == SwitchInv /\ AirplaneOn => SwitchInv'
<1> SUFFICES ASSUME SwitchInv, AirplaneOn PROVE SwitchInv'
  OBVIOUS
<1>1. /\ receiver /\ mInAirplanMode' = TRUE /\ mPriorSimAbsent' = mNewSimAbsent
      /\ absentTag' \in {mNewSimAbsent, absentTag}
      /\ UNCHANGED <<service, mPhone, receiver, timer>>
      /\ UNCHANGED <<mNewSimAbsent, mPriorNwMode, mTargetNwMode, mNwModeChangeType>>
      /\ UNCHANGED <<cardAbsent, airplane, modem, setting, requests, answers, odd>>
  BY DEF AirplaneOn, Take, life, world
<1>2. NwTypes'
  BY <1>1 DEF SwitchInv, NwTypes
<1>3. Lifetime' /\ OneMode' /\ CardKnown' /\ UnderWay'
  BY <1>1 DEF SwitchInv, Lifetime, OneMode, CardKnown, UnderWay
<1> QED BY <1>2, <1>3 DEF SwitchInv

(* Airplane mode ends: the switch once more. *)
LEMMA AirplaneOffKeeps == SwitchInv /\ AirplaneOff => SwitchInv'
<1> SUFFICES ASSUME SwitchInv, AirplaneOff PROVE SwitchInv'
  OBVIOUS
<1>1. /\ receiver /\ mInAirplanMode' = FALSE
      /\ UNCHANGED <<service, mPhone, receiver, timer>>
      /\ UNCHANGED <<cardAbsent, airplane, modem, setting, answers, odd>>
      /\ ProcessModeSwitch(mPhone, FALSE, mPriorSimAbsent, mNewSimAbsent,
                           mPriorNwMode, mPriorNwMode)
  BY DEF AirplaneOff, Take, SwitchInv, OneMode, life, world
<1>2. UNCHANGED <<setting, modem, answers, odd>>
  BY <1>1
<1>3. /\ mPriorSimAbsent' \in BOOLEAN /\ mNewSimAbsent' \in BOOLEAN
      /\ absentTag' \in BOOLEAN /\ mPriorNwMode' \in Modes /\ requests' \in Seq(Modes)
      /\ OneMode' /\ CardKnown' /\ UnderWay'
      /\ ~mPhone => requests' = <<>>
  <2>1. ~mPhone => requests = <<>>
    BY DEF SwitchInv, Lifetime
  <2>2. mPhone /\ ~odd =>
           /\ \A i \in 1 .. Len(answers) : answers[i]
           /\ requests # <<>> => requests[Len(requests)] = mPriorNwMode
           /\ requests = <<>> => modem = mPriorNwMode
           /\ requests = <<>> /\ answers = <<>> => setting = mPriorNwMode
           /\ requests # <<>> \/ answers # <<>> => mNwModeChangeType # "none"
    BY DEF SwitchInv, UnderWay, OneMode
  <2>3. /\ mPhone \in BOOLEAN /\ FALSE \in BOOLEAN /\ mPriorSimAbsent \in BOOLEAN
        /\ mNewSimAbsent \in BOOLEAN /\ mPriorNwMode \in Modes /\ NwTypes
    BY DEF SwitchInv, NwTypes
  <2>4. (mPhone' <=> mPhone) /\ mInAirplanMode' = FALSE
    BY <1>1
  <2> QED BY ZenonT(40), <1>1, <1>2, <2>1, <2>2, <2>3, <2>4, SwitchKeeps
<1>4. NwTypes'
  BY <1>1, <1>3 DEF SwitchInv, NwTypes
<1>5. Lifetime'
  BY <1>1, <1>3 DEF SwitchInv, Lifetime
<1> QED BY <1>3, <1>4, <1>5 DEF SwitchInv

(* ACTION_SIM_STATE_CHANGED is handled. *)
LEMMA SimChangedKeeps == SwitchInv /\ SimChanged => SwitchInv'
<1> SUFFICES ASSUME SwitchInv, SimChanged PROVE SwitchInv'
  OBVIOUS
<1>1. /\ receiver
      /\ mNewSimAbsent' \in {mNewSimAbsent, cardAbsent} /\ absentTag' \in {absentTag, cardAbsent}
      /\ UNCHANGED <<service, mPhone, receiver, timer>>
      /\ UNCHANGED <<mInAirplanMode, mPriorSimAbsent, mPriorNwMode, mTargetNwMode,
                     mNwModeChangeType>>
      /\ UNCHANGED <<cardAbsent, airplane, modem, setting, requests, answers, odd>>
  BY DEF SimChanged, Take, life, world
<1>2. NwTypes'
  BY <1>1 DEF SwitchInv, NwTypes
<1>3. Lifetime' /\ OneMode' /\ CardKnown' /\ UnderWay'
  BY <1>1 DEF SwitchInv, Lifetime, OneMode, CardKnown, UnderWay
<1> QED BY <1>2, <1>3 DEF SwitchInv

(* A process that is gone leaves what is stored, and the new phone puts    *)
(* the modem there.                                                        *)
LEMMA GoneKeeps == SwitchInv /\ Gone => SwitchInv'
<1> SUFFICES ASSUME SwitchInv, Gone PROVE SwitchInv'
  OBVIOUS
<1>1. /\ service' = "none" /\ mPhone' = FALSE /\ receiver' = FALSE /\ timer' = FALSE
      /\ mInAirplanMode' = FALSE /\ mPriorSimAbsent' = FALSE /\ mNewSimAbsent' = FALSE
      /\ mPriorNwMode' = "gsm" /\ mTargetNwMode' = "gsm"
      /\ requests' = <<>> /\ answers' = <<>> /\ modem' = setting /\ setting' = setting
      /\ odd' = FALSE
      /\ cardAbsent' = cardAbsent /\ airplane' = airplane /\ absentTag' = absentTag
  BY DEF Gone, stored
<1>2. <<>> \in Seq(Modes) /\ <<>> \in Seq(BOOLEAN) /\ "gsm" \in Modes
  BY EmptySeq DEF Modes, Gsm
<1>3. NwTypes'
  BY <1>1, <1>2 DEF SwitchInv, NwTypes
<1>4. Lifetime'
  BY <1>1 DEF Lifetime
<1>5. OneMode' /\ CardKnown' /\ UnderWay'
  BY <1>1 DEF OneMode, CardKnown, UnderWay
<1> QED BY <1>3, <1>4, <1>5 DEF SwitchInv

(* The phone, the user and the card write nothing of the service's. *)
LEMMA OutsideKeeps == SwitchInv /\ (PhoneReady \/ SwitchAirplane \/ MoveCard) => SwitchInv'
<1> SUFFICES ASSUME SwitchInv, PhoneReady \/ SwitchAirplane \/ MoveCard PROVE SwitchInv'
  OBVIOUS
<1>1. /\ cardAbsent' \in BOOLEAN /\ airplane' \in BOOLEAN
      /\ UNCHANGED <<service, mPhone, receiver, timer>>
      /\ UNCHANGED <<mInAirplanMode, mPriorSimAbsent, mNewSimAbsent, mPriorNwMode,
                     mTargetNwMode, mNwModeChangeType>>
      /\ UNCHANGED <<modem, setting, absentTag, requests, answers, odd>>
  BY DEF SwitchInv, NwTypes, PhoneReady, SwitchAirplane, MoveCard, Send, life, memory, world, stored,
         traffic
<1>2. NwTypes'
  BY <1>1 DEF SwitchInv, NwTypes
<1>3. Lifetime' /\ OneMode' /\ CardKnown' /\ UnderWay'
  BY <1>1 DEF SwitchInv, Lifetime, OneMode, CardKnown, UnderWay
<1> QED BY <1>2, <1>3 DEF SwitchInv

(* The modem takes the mode of the oldest request, or fails. *)
LEMMA ModemKeeps == SwitchInv /\ ModemServes => SwitchInv'
<1> SUFFICES ASSUME SwitchInv, ModemServes PROVE SwitchInv'
  OBVIOUS
<1>1. /\ requests # <<>> /\ requests' = Tail(requests)
      /\ UNCHANGED <<service, mPhone, receiver, timer>>
      /\ UNCHANGED <<mInAirplanMode, mPriorSimAbsent, mNewSimAbsent, mPriorNwMode,
                     mTargetNwMode, mNwModeChangeType>>
      /\ UNCHANGED <<cardAbsent, airplane, setting, absentTag>>
  BY DEF ModemServes, life, memory, stored
<1>2. PICK done \in BOOLEAN :
        /\ answers' = Append(answers, done)
        /\ done => modem' = Head(requests) /\ odd' = odd
        /\ ~done => odd' = TRUE /\ modem' = modem
  BY DEF ModemServes
<1>3. mPhone
  BY <1>1 DEF SwitchInv, Lifetime
<1>4. /\ requests' \in Seq(Modes)
      /\ requests' = <<>> <=> Len(requests) = 1
      /\ Head(requests) = requests[1] /\ Head(requests) \in Modes
      /\ requests' # <<>> => requests'[Len(requests')] = requests[Len(requests)]
  BY <1>1, LastOfTail DEF SwitchInv, NwTypes
<1>5. /\ answers' \in Seq(BOOLEAN) /\ answers' # <<>> /\ Len(answers') = Len(answers) + 1
      /\ \A i \in 1 .. Len(answers) : answers'[i] = answers[i]
      /\ answers'[Len(answers) + 1] = done
      /\ Len(answers) \in Nat
  BY <1>2, LastOfAppend, LenProperties DEF SwitchInv, NwTypes
<1>6. NwTypes'
  <2>1. odd' \in BOOLEAN /\ modem' \in Modes
    BY <1>2, <1>4 DEF SwitchInv, NwTypes
  <2> QED BY <1>1, <1>4, <1>5, <2>1 DEF SwitchInv, NwTypes
<1>7. Lifetime' /\ OneMode' /\ CardKnown'
  BY <1>1, <1>3 DEF SwitchInv, Lifetime, OneMode, CardKnown
<1>8. UnderWay'
  <2> SUFFICES ASSUME ~odd'
               PROVE  /\ \A i \in 1 .. Len(answers') : answers'[i]
                      /\ requests' # <<>> => requests'[Len(requests')] = mTargetNwMode
                      /\ requests' = <<>> => modem' = mTargetNwMode
                      /\ mNwModeChangeType # "none"
    BY <1>1, <1>5 DEF UnderWay
  <2>1. done /\ ~odd /\ modem' = Head(requests)
    BY <1>2
  <2>2. /\ \A i \in 1 .. Len(answers) : answers[i]
        /\ requests[Len(requests)] = mTargetNwMode
        /\ mNwModeChangeType # "none"
    BY <1>1, <1>3, <2>1 DEF SwitchInv, UnderWay
  <2>3. \A i \in 1 .. Len(answers') : answers'[i]
    <3> TAKE i \in 1 .. Len(answers')
    <3>1. CASE i = Len(answers) + 1
      BY <1>5, <2>1, <3>1
    <3>2. CASE i \in 1 .. Len(answers)
      BY <1>5, <2>2, <3>2
    <3> QED BY <1>5, <3>1, <3>2
  <2>4. requests' = <<>> => modem' = mTargetNwMode
    BY <1>4, <2>1, <2>2
  <2> QED BY <1>4, <2>2, <2>3, <2>4
<1> QED BY <1>6, <1>7, <1>8 DEF SwitchInv

(* A mode the user chooses counts as odd only for a service with a phone. *)
LEMMA UserKeeps == SwitchInv /\ UserChooses => SwitchInv'
<1> SUFFICES ASSUME SwitchInv, UserChooses PROVE SwitchInv'
  OBVIOUS
<1>1. /\ requests = <<>> /\ answers = <<>>
      /\ setting' \in Modes /\ modem' = setting' /\ odd' = mPhone
      /\ UNCHANGED <<service, mPhone, receiver, timer>>
      /\ UNCHANGED <<mInAirplanMode, mPriorSimAbsent, mNewSimAbsent, mPriorNwMode,
                     mTargetNwMode, mNwModeChangeType>>
      /\ UNCHANGED <<cardAbsent, airplane, absentTag, requests, answers>>
  BY DEF UserChooses, life, memory, traffic
<1>2. NwTypes'
  BY <1>1 DEF SwitchInv, NwTypes
<1>3. Lifetime' /\ OneMode' /\ CardKnown' /\ UnderWay'
  BY <1>1 DEF SwitchInv, Lifetime, OneMode, CardKnown, UnderWay
<1> QED BY <1>2, <1>3 DEF SwitchInv

-----------------------------------------------------------------------------
(* SettledAgrees: whatever the user, the card, the modem and crashes do,   *)
(* once all is answered and no request failed, modem, setting and service  *)
(* agree on the mode, and a phone known to be without a card is not in a   *)
(* GSM mode.                                                               *)
THEOREM ModesAgree == SwitchSpec => []SettledAgrees
<1>1. SwitchInit => SwitchInv
  <2> SUFFICES ASSUME SwitchInit PROVE SwitchInv
    OBVIOUS
  <2>1. <<>> \in Seq(Modes) /\ <<>> \in Seq(BOOLEAN) /\ "gsm" \in Modes
    BY EmptySeq DEF Modes, Gsm
  <2>2. NwTypes
    BY <2>1 DEF SwitchInit, Fresh, NwTypes
  <2>3. Lifetime /\ OneMode /\ CardKnown /\ UnderWay
    BY DEF SwitchInit, Fresh, Lifetime, OneMode, CardKnown, UnderWay
  <2> QED BY <2>2, <2>3 DEF SwitchInv
<1>2. SwitchInv /\ [SwitchNext]_switchVars => SwitchInv'
  <2> SUFFICES ASSUME SwitchInv, [SwitchNext]_switchVars PROVE SwitchInv'
    OBVIOUS
  <2>1. CASE UNCHANGED switchVars
    BY <2>1 DEF switchVars, life, memory, world, stored, traffic, SwitchInv, NwTypes, Lifetime, OneMode,
                CardKnown, UnderWay
  <2>2. ASSUME NullPhone \/ Crash PROVE SwitchInv'
    BY <2>2, GoneKeeps DEF NullPhone, Crash
  <2> QED BY <2>1, <2>2, CreateKeeps, StartKeeps, TimeOutKeeps, ResultKeeps, AirplaneOnKeeps,
             AirplaneOffKeeps, SimChangedKeeps, OutsideKeeps, ModemKeeps, UserKeeps
          DEF SwitchNext, Service
<1>3. SwitchInv => SettledAgrees
  BY DEF SwitchInv, OneMode, CardKnown, UnderWay, SettledAgrees, Settled
<1> QED BY <1>1, <1>2, <1>3, PTL DEF SwitchSpec

-----------------------------------------------------------------------------
(* Charge only mode: the list of alarms.                                   *)
Names(q) == {q[i].f : i \in DOMAIN q}

(* The list as the program keeps it: what it has, and in which order.      *)
InTime(q)  == \A i \in DOMAIN q : q[i].left <= Delay[q[i].f]
Ordered(q) == \A i, j \in DOMAIN q : i < j => q[i].f # q[j].f /\ q[i].left <= q[j].left
ListOK(q)  == q \in Seq(Alarms) /\ InTime(q) /\ Ordered(q)

(* Each handler has one delay. *)
LEMMA DelayIs == DOMAIN Delay = Handlers /\ \A f \in Handlers : Delay[f] \in Nat \ {0}
<1>1. DOMAIN Delay = Handlers
  BY DEF Delay, Handlers, Animation, Dim, Blank, LongPress
<1>2. Delay[Animation] = AnimationTicks
  BY DEF Delay, Handlers, Animation, Dim, Blank, LongPress
<1>3. Delay[Dim] = BrightTicks
  BY DEF Delay, Handlers, Animation, Dim, Blank, LongPress
<1>4. Delay[Blank] = DimTicks
  BY DEF Delay, Handlers, Animation, Dim, Blank, LongPress
<1>5. Delay[LongPress] = LongPressTicks
  BY DEF Delay, Handlers, Animation, Dim, Blank, LongPress
<1> HIDE DEF Handlers
<1> QED BY <1>1, <1>2, <1>3, <1>4, <1>5, TicksAssumption DEF Handlers

(* The alarms of a list. *)
LEMMA AlarmAt ==
  ASSUME NEW q \in Seq(Alarms), NEW i \in 1 .. Len(q)
  PROVE  q[i] \in Alarms /\ q[i].f \in Handlers /\ q[i].left \in Nat /\ Delay[q[i].f] \in Nat
<1>1. q[i] \in Alarms
  BY ElementOfSeq
<1>2. q[i].f \in Handlers /\ q[i].left \in Nat
  BY <1>1 DEF Alarms
<1> QED BY <1>1, <1>2, DelayIs

(* Induction over the naturals, for a set of them.                         *)
LEMMA Inductive ==
  ASSUME NEW P, 0 \in P, \A n \in Nat : n \in P => n + 1 \in P
  PROVE  Nat \subseteq P
<1> DEFINE Out == {n \in Nat : n \notin P}
<1> SUFFICES ASSUME Out # {} PROVE FALSE
  OBVIOUS
<1>1. PICK m \in Out : \A k \in Out : ~(<<k, m>> \in OpToRel(<, Nat))
  <2>1. Out \subseteq Nat
    OBVIOUS
  <2> HIDE DEF Out
  <2> QED BY <2>1, WFMin, NatLessThanWellFounded
<1>2. \A k \in Out : ~(k < m)
  <2>1. Out \subseteq Nat
    OBVIOUS
  <2> HIDE DEF Out
  <2> QED BY <1>1, <2>1 DEF OpToRel
<1>3. m \in Nat /\ m \notin P /\ m # 0
  OBVIOUS
<1>4. m - 1 \in Nat /\ m - 1 + 1 = m
  BY <1>3
<1>5. m - 1 \in P
  <2>1. ASSUME m - 1 \in Out PROVE FALSE
    BY <1>2, <1>3, <1>4, <2>1
  <2> QED BY <1>4, <2>1
<1> QED BY <1>3, <1>4, <1>5

(* A set of naturals that has an element has a least one.                  *)
LEMMA LeastNat ==
  ASSUME NEW S \in SUBSET Nat, S # {}
  PROVE  Min(S) \in S /\ \A k \in S : Min(S) <= k
<1>1. PICK m \in S : \A k \in S : ~(<<k, m>> \in OpToRel(<, Nat))
  BY WFMin, NatLessThanWellFounded
<1>2. \A k \in S : ~(k < m)
  BY <1>1 DEF OpToRel
<1>3. \E x \in S : \A k \in S : x <= k
  BY <1>2
<1> QED BY <1>3 DEF Min

-----------------------------------------------------------------------------
(* An element put at place k moves those from k on one further.            *)
LEMMA InsertIs ==
  ASSUME NEW S, NEW q \in Seq(S), NEW k \in 1 .. Len(q) + 1, NEW e \in S
  PROVE  /\ InsertAt(q, k, e) \in Seq(S)
         /\ Len(InsertAt(q, k, e)) = Len(q) + 1
         /\ \A i \in 1 .. k - 1 : InsertAt(q, k, e)[i] = q[i]
         /\ InsertAt(q, k, e)[k] = e
         /\ \A i \in k + 1 .. Len(q) + 1 : InsertAt(q, k, e)[i] = q[i - 1]
<1> DEFINE a == SubSeq(q, 1, k - 1)  b == << e >>  c == SubSeq(q, k, Len(q))  r == InsertAt(q, k, e)
<1>1. Len(q) \in Nat /\ k \in Nat /\ k >= 1 /\ k <= Len(q) + 1 /\ \A i \in 1 .. Len(q) : q[i] \in S
  BY LenProperties, ElementOfSeq
<1>2. a \in Seq(S) /\ Len(a) = k - 1 /\ \A i \in 1 .. k - 1 : a[i] = q[i]
  <2>1. \A i \in 1 .. k - 1 : q[i] \in S
    BY <1>1
  <2>2. 1 \in Int /\ k - 1 \in Int /\ (IF 1 <= k - 1 THEN k - 1 - 1 + 1 ELSE 0) = k - 1
    BY <1>1
  <2>3. /\ a \in Seq(S)
        /\ Len(a) = IF 1 <= k - 1 THEN k - 1 - 1 + 1 ELSE 0
        /\ \A i \in 1 .. k - 1 - 1 + 1 : a[i] = q[1 + i - 1]
    BY <2>1, <2>2, SubSeqProperties
  <2> QED BY <1>1, <2>2, <2>3
<1>3. c \in Seq(S) /\ Len(c) = Len(q) + 1 - k /\ \A i \in 1 .. Len(q) + 1 - k : c[i] = q[k + i - 1]
  <2>1. \A i \in k .. Len(q) : q[i] \in S
    BY <1>1
  <2>2. k \in Int /\ Len(q) \in Int
        /\ (IF k <= Len(q) THEN Len(q) - k + 1 ELSE 0) = Len(q) + 1 - k
    BY <1>1
  <2>3. /\ c \in Seq(S)
        /\ Len(c) = IF k <= Len(q) THEN Len(q) - k + 1 ELSE 0
        /\ \A i \in 1 .. Len(q) - k + 1 : c[i] = q[k + i - 1]
    BY <2>1, <2>2, SubSeqProperties
  <2> QED BY <1>1, <2>2, <2>3
<1>4. b \in Seq(S) /\ Len(b) = 1 /\ b[1] = e
  OBVIOUS
<1>5. r = (a \o b) \o c
  BY DEF InsertAt
<1> HIDE DEF a, b, c, r
<1> DEFINE t == a \o b
<1>6. /\ t \in Seq(S) /\ Len(t) = k
      /\ \A i \in 1 .. k : t[i] = IF i <= k - 1 THEN a[i] ELSE b[i - (k - 1)]
  <2>1. /\ t \in Seq(S) /\ Len(t) = Len(a) + Len(b)
        /\ \A i \in 1 .. Len(a) + Len(b) : t[i] = IF i <= Len(a) THEN a[i] ELSE b[i - Len(a)]
    BY <1>2, <1>4, ConcatProperties
  <2>2. Len(a) + Len(b) = k /\ Len(a) = k - 1
    BY <1>1, <1>2, <1>4
  <2> QED BY <2>1, <2>2
<1> HIDE DEF t
<1>7. /\ r \in Seq(S) /\ Len(r) = Len(q) + 1
      /\ \A i \in 1 .. Len(q) + 1 : r[i] = IF i <= k THEN t[i] ELSE c[i - k]
  <2>3. r = t \o c
    BY <1>5 DEF t
  <2>1. /\ r \in Seq(S) /\ Len(r) = Len(t) + Len(c)
        /\ \A i \in 1 .. Len(t) + Len(c) : r[i] = IF i <= Len(t) THEN t[i] ELSE c[i - Len(t)]
    BY <1>3, <1>6, <2>3, ConcatProperties
  <2>2. Len(t) + Len(c) = Len(q) + 1 /\ Len(t) = k
    BY <1>1, <1>3, <1>6
  <2> QED BY <2>1, <2>2
<1>8. ASSUME NEW i \in 1 .. k - 1 PROVE r[i] = q[i]
  <2>1. i \in 1 .. Len(q) + 1 /\ i \in 1 .. k /\ i <= k /\ i <= k - 1
    BY <1>1
  <2> QED BY <1>2, <1>6, <1>7, <2>1
<1>9. r[k] = e
  <2>1. k \in 1 .. Len(q) + 1 /\ k \in 1 .. k /\ k <= k /\ ~(k <= k - 1) /\ k - (k - 1) = 1
    BY <1>1
  <2> QED BY <1>4, <1>6, <1>7, <2>1
<1>10. ASSUME NEW i \in k + 1 .. Len(q) + 1 PROVE r[i] = q[i - 1]
  <2>1. /\ i \in 1 .. Len(q) + 1 /\ ~(i <= k) /\ i - k \in 1 .. Len(q) + 1 - k
        /\ k + (i - k) - 1 = i - 1
    BY <1>1
  <2> QED BY <1>3, <1>7, <2>1
<1> QED BY <1>7, <1>8, <1>9, <1>10 DEF r

(* A later alarm put behind a list. *)
LEMMA AppendOK ==
  ASSUME NEW q, ListOK(q), NEW e \in Alarms, e.left <= Delay[e.f],
         \A i \in 1 .. Len(q) : q[i].f # e.f /\ q[i].left <= e.left
  PROVE  ListOK(Append(q, e)) /\ Names(Append(q, e)) = Names(q) \cup {e.f}
<1> DEFINE r == Append(q, e)  n == Len(q)
<1>1. q \in Seq(Alarms) /\ n \in Nat /\ DOMAIN q = 1 .. n
  BY LenProperties DEF ListOK
<1>2. r \in Seq(Alarms) /\ Len(r) = n + 1 /\ (\A i \in 1 .. n : r[i] = q[i]) /\ r[n + 1] = e
  BY <1>1, AppendProperties
<1>3. DOMAIN r = 1 .. n + 1
  BY <1>2, LenProperties
<1> HIDE DEF r, n
<1>4. \A i \in 1 .. n + 1 : i \in 1 .. n \/ i = n + 1
  BY <1>1
<1>5. InTime(r)
  BY <1>1, <1>2, <1>3, <1>4 DEF InTime, ListOK
<1>6. Ordered(r)
  <2> SUFFICES ASSUME NEW i \in 1 .. n + 1, NEW j \in 1 .. n + 1, i < j
               PROVE  r[i].f # r[j].f /\ r[i].left <= r[j].left
    BY <1>3 DEF Ordered
  <2>1. i \in 1 .. n
    BY <1>1
  <2>2. CASE j \in 1 .. n
    BY <1>1, <1>2, <2>1, <2>2 DEF Ordered, ListOK
  <2>3. CASE j = n + 1
    BY <1>2, <2>1, <2>3 DEF n
  <2> QED BY <1>4, <2>2, <2>3
<1>7. Names(r) = Names(q) \cup {e.f}
  <2>1. \A i \in 1 .. n : i \in 1 .. n + 1
    BY <1>1
  <2>2. n + 1 \in 1 .. n + 1
    BY <1>1
  <2> QED BY <1>1, <1>2, <1>3, <1>4, <2>1, <2>2 DEF Names
<1> QED BY <1>2, <1>5, <1>6, <1>7 DEF ListOK, r

(* f on 0 .. n begins with a and goes on by step. *)
Goes(f, a, step, S, n) ==
  /\ f \in [0 .. n -> S]
  /\ f[0] = a
  /\ \A i \in 1 .. n : f[i] = step[<<i, f[i - 1]>>]

(* There is a function that begins with a and goes on by step.             *)
LEMMA Recursion ==
  ASSUME NEW S, NEW a \in S, NEW step \in [Nat \X S -> S], NEW n \in Nat
  PROVE  \E f : Goes(f, a, step, S, n)
<1> DEFINE P == {k \in Nat : \E f : Goes(f, a, step, S, k)}
<1>1. 0 \in P
  <2> DEFINE f == [i \in 0 .. 0 |-> a]
  <2>1. f \in [0 .. 0 -> S] /\ f[0] = a
    OBVIOUS
  <2>2. 1 .. 0 = {}
    OBVIOUS
  <2>3. Goes(f, a, step, S, 0)
    BY <2>1, <2>2 DEF Goes
  <2> QED BY <2>3
<1>2. ASSUME NEW k \in Nat, k \in P PROVE k + 1 \in P
  <2>1. PICK f : Goes(f, a, step, S, k)
    BY <1>2
  <2>2. f \in [0 .. k -> S] /\ f[0] = a
    BY <2>1 DEF Goes
  <2> DEFINE g == [i \in 0 .. k + 1 |-> IF i = k + 1 THEN step[<<i, f[i - 1]>>] ELSE f[i]]
  <2>3. ASSUME NEW i \in 0 .. k + 1 PROVE g[i] \in S
    <3>1. CASE i = k + 1
      <4>1. i - 1 \in 0 .. k
        BY <3>1
      <4>2. <<i, f[i - 1]>> \in Nat \X S
        BY <2>2, <4>1
      <4> QED BY <3>1, <4>2
    <3>2. CASE i # k + 1
      <4>1. i \in 0 .. k
        BY <3>2
      <4> QED BY <2>2, <3>2, <4>1
    <3> QED BY <3>1, <3>2
  <2>4. g \in [0 .. k + 1 -> S]
    BY <2>3
  <2>5. g[0] = a
    BY <2>2
  <2>6. ASSUME NEW i \in 1 .. k + 1 PROVE g[i] = step[<<i, g[i - 1]>>]
    <3>1. i - 1 \in 0 .. k + 1 /\ i - 1 # k + 1 /\ i \in 0 .. k + 1
      OBVIOUS
    <3>2. g[i - 1] = f[i - 1]
      BY <3>1
    <3>3. CASE i = k + 1
      BY <3>1, <3>2, <3>3
    <3>4. CASE i # k + 1
      <4>1. i \in 1 .. k /\ g[i] = f[i]
        BY <3>1, <3>4
      <4> QED BY <2>1, <3>2, <4>1 DEF Goes
    <3> QED BY <3>3, <3>4
  <2>7. Goes(g, a, step, S, k + 1)
    <3> HIDE DEF g
    <3> QED BY <2>4, <2>5, <2>6 DEF Goes
  <2>8. k + 1 \in Nat
    OBVIOUS
  <2> HIDE DEF g
  <2> QED BY <2>7, <2>8
<1>3. n \in P
  <2> HIDE DEF P
  <2> QED BY <1>1, <1>2, Inductive
<1> QED BY <1>3

(* What alarm_cancel has kept of the first i alarms. *)
LEMMA KeptIs ==
  ASSUME NEW q \in Seq(Alarms), NEW h \in Handlers
  PROVE  /\ Kept(q, h) \in [0 .. Len(q) -> Seq(Alarms)]
         /\ Kept(q, h)[0] = <<>>
         /\ \A i \in 1 .. Len(q) :
              Kept(q, h)[i] = IF q[i].f = h THEN Kept(q, h)[i - 1] ELSE Append(Kept(q, h)[i - 1], q[i])
<1> DEFINE n == Len(q)
           S == Seq(Alarms)
           On(i, s) == IF q[i].f = h THEN s ELSE Append(s, q[i])
           step == [x \in Nat \X S |-> IF x[1] \in 1 .. n THEN On(x[1], x[2]) ELSE <<>>]
           Keeps(k) == k = [i \in 0 .. n |->
                              IF i = 0 THEN <<>> ELSE IF q[i].f = h THEN k[i - 1]
                                                      ELSE Append(k[i - 1], q[i])]
           kept == Kept(q, h)
<1>1. n \in Nat /\ (\A i \in 1 .. n : q[i] \in Alarms) /\ <<>> \in S
  BY LenProperties, ElementOfSeq, EmptySeq
<1>2. step \in [Nat \X S -> S]
  <2>1. ASSUME NEW x \in Nat \X S, x[1] \in 1 .. n PROVE On(x[1], x[2]) \in S
    <3>1. x[2] \in S /\ q[x[1]] \in Alarms
      BY <1>1, <2>1
    <3>2. Append(x[2], q[x[1]]) \in S
      BY <3>1, AppendProperties
    <3> QED BY <3>1, <3>2
  <2> HIDE DEF On, S
  <2> QED BY <1>1, <2>1
<1>3. PICK k : Goes(k, <<>>, step, S, n)
  <2> HIDE DEF n, S, step, Keeps, On
  <2> QED BY <1>1, <1>2, Recursion
<1>4. k \in [0 .. n -> S] /\ k[0] = <<>>
  <2> HIDE DEF n, S, step, Keeps, On
  <2> QED BY <1>3 DEF Goes
<1>5. ASSUME NEW i \in 1 .. n PROVE k[i] = On(i, k[i - 1])
  <2>1. i - 1 \in 0 .. n /\ i \in Nat
    BY <1>1
  <2>2. k[i] = step[<<i, k[i - 1]>>]
    <3> HIDE DEF n, S, step, Keeps, On
    <3> QED BY <1>3 DEF Goes
  <2>3. k[i - 1] \in S
    <3> HIDE DEF n, S, step, Keeps, On
    <3> QED BY <1>4, <2>1
  <2>4. <<i, k[i - 1]>> \in Nat \X S
    BY <2>1, <2>3
  <2> HIDE DEF n, S, On
  <2> QED BY <2>2, <2>4
<1>6. Keeps(k)
  <2>1. ASSUME NEW i \in 0 .. n
        PROVE  k[i] = IF i = 0 THEN <<>> ELSE IF q[i].f = h THEN k[i - 1]
                                              ELSE Append(k[i - 1], q[i])
    <3>1. CASE i = 0
      BY <1>4, <3>1
    <3>2. CASE i # 0
      <4>1. i \in 1 .. n
        BY <1>1, <3>2
      <4> QED BY <1>5, <3>2, <4>1
    <3> QED BY <3>1, <3>2
  <2> HIDE DEF n, S, step
  <2> QED BY <1>4, <2>1
<1>7. Keeps(kept)
  <2> HIDE DEF step
  <2> QED BY <1>6, Zenon DEF Kept
<1> HIDE DEF kept, step, S, On
<1>8. /\ DOMAIN kept = 0 .. n
      /\ \A i \in 0 .. n : kept[i] = IF i = 0 THEN <<>> ELSE IF q[i].f = h THEN kept[i - 1]
                                                             ELSE Append(kept[i - 1], q[i])
  BY <1>7
<1> HIDE DEF n, Keeps
<1>9. kept[0] = <<>>
  BY <1>1, <1>8
<1>10. ASSUME NEW i \in 1 .. n
       PROVE  kept[i] = IF q[i].f = h THEN kept[i - 1] ELSE Append(kept[i - 1], q[i])
  <2>1. i \in 0 .. n /\ i # 0
    BY <1>1
  <2> QED BY <1>8, <2>1
<1> DEFINE P == {i \in Nat : i \in 0 .. n => kept[i] \in S}
<1>11. Nat \subseteq P
  <2>1. 0 \in P
    BY <1>1, <1>9
  <2>2. ASSUME NEW i \in Nat, i \in P PROVE i + 1 \in P
    <3>1. ASSUME i + 1 \in 0 .. n PROVE kept[i + 1] \in S
      <4>1. i \in 0 .. n /\ i + 1 \in 1 .. n /\ i + 1 - 1 = i
        BY <1>1, <3>1
      <4>2. kept[i] \in S /\ q[i + 1] \in Alarms
        BY <1>1, <2>2, <4>1
      <4>3. Append(kept[i], q[i + 1]) \in S
        BY <4>2, AppendProperties DEF S
      <4> QED BY <1>10, <4>1, <4>2, <4>3
    <3>2. i + 1 \in Nat
      OBVIOUS
    <3> QED BY <3>1, <3>2
  <2> HIDE DEF P
  <2> QED BY <2>1, <2>2, Inductive
<1>12. kept \in [0 .. n -> S]
  <2>1. kept = [i \in 0 .. n |-> kept[i]]
    BY <1>7 DEF Keeps
  <2>2. \A i \in 0 .. n : kept[i] \in S
    BY <1>1, <1>11
  <2> QED BY <2>1, <2>2
<1> QED BY <1>9, <1>10, <1>12 DEF kept, n, S

(* Cancelling a handler leaves the others, in their order. *)
LEMMA CancelOK ==
  ASSUME NEW q, ListOK(q), NEW h \in Handlers
  PROVE  ListOK(AlarmCancel(q, h)) /\ Names(AlarmCancel(q, h)) = Names(q) \ {h}
<1> DEFINE n == Len(q)  kept == Kept(q, h)
           Some(i) == {q[j].f : j \in 1 .. i}
<1>1. q \in Seq(Alarms) /\ n \in Nat /\ DOMAIN q = 1 .. n /\ \A i \in 1 .. n : q[i] \in Alarms
  BY LenProperties, ElementOfSeq DEF ListOK
<1>2. /\ kept \in [0 .. n -> Seq(Alarms)]
      /\ kept[0] = <<>>
      /\ \A i \in 1 .. n :
           kept[i] = IF q[i].f = h THEN kept[i - 1] ELSE Append(kept[i - 1], q[i])
  BY <1>1, KeptIs
<1>3. AlarmCancel(q, h) = kept[n]
  BY <1>1 DEF AlarmCancel
<1> HIDE DEF n, kept
<1> DEFINE Good(i) == /\ ListOK(kept[i])
                      /\ Names(kept[i]) = Some(i) \ {h}
                      /\ \A j \in 1 .. Len(kept[i]) : \E k \in 1 .. i : kept[i][j] = q[k]
           P == {i \in Nat : i \in 0 .. n => Good(i)}
<1>4. Nat \subseteq P
  <2>1. 0 \in P
    <3>1. ListOK(<<>>) /\ Names(<<>>) = {} /\ Len(<<>>) = 0
      BY EmptySeq DEF ListOK, InTime, Ordered, Names
    <3>2. 1 .. 0 = {}
      OBVIOUS
    <3>3. Some(0) = {}
      BY <3>2
    <3> HIDE DEF Some
    <3>4. Good(0)
      BY <1>2, <3>1, <3>2, <3>3
    <3> QED BY <3>4
  <2>2. ASSUME NEW i \in Nat, i \in P PROVE i + 1 \in P
    <3>1. ASSUME i + 1 \in 0 .. n PROVE Good(i + 1)
      <4>1. /\ i \in 0 .. n /\ i + 1 \in 1 .. n /\ i + 1 - 1 = i
            /\ \A k \in 1 .. i : k \in 1 .. n /\ k \in 1 .. i + 1 /\ k < i + 1
            /\ \A k \in 1 .. i + 1 : k \in 1 .. i \/ k = i + 1
            /\ i + 1 \in 1 .. i + 1
        BY <1>1, <3>1
      <4>2. Good(i)
        BY <2>2, <4>1
      <4>3. Some(i + 1) = Some(i) \cup {q[i + 1].f}
        BY <4>1
      <4> DEFINE s == kept[i]  t == kept[i + 1]  e == q[i + 1]
      <4>4. t = IF e.f = h THEN s ELSE Append(s, e)
        BY <1>2, <4>1
      <4>5. CASE e.f = h
        <5>1. t = s
          BY <4>4, <4>5
        <5>2. ListOK(t) /\ Names(t) = Some(i) \ {h}
          <6> HIDE DEF s, t, Some
          <6> QED BY <4>2, <5>1 DEF s
        <5>3. Names(t) = Some(i + 1) \ {h}
          <6> HIDE DEF t, Some
          <6> QED BY <4>3, <4>5, <5>2
        <5>4. ASSUME NEW j \in 1 .. Len(t) PROVE \E k \in 1 .. i + 1 : t[j] = q[k]
          <6> HIDE DEF Some
          <6> QED BY <4>1, <4>2, <5>1, <5>4
        <5> QED BY <5>2, <5>3, <5>4
      <4>6. CASE e.f # h
        <5>1. t = Append(s, e)
          BY <4>4, <4>6
        <5>2. ListOK(s) /\ Names(s) = Some(i) \ {h}
          BY <4>2
        <5>3. ASSUME NEW j \in 1 .. Len(s) PROVE s[j].f # e.f /\ s[j].left <= e.left
          <6>1. PICK k \in 1 .. i : s[j] = q[k]
            BY <4>2
          <6>2. k \in DOMAIN q /\ i + 1 \in DOMAIN q /\ k < i + 1
            BY <1>1, <4>1
          <6> HIDE DEF s, t, Some
          <6> QED BY <6>1, <6>2 DEF ListOK, Ordered
        <5>4. e \in Alarms /\ e.left <= Delay[e.f]
          BY <1>1, <4>1 DEF ListOK, InTime
        <5> HIDE DEF s, t, e, Some
        <5>5. ListOK(t) /\ Names(t) = Names(s) \cup {e.f}
          BY <5>1, <5>2, <5>3, <5>4, AppendOK
        <5>6. Names(t) = Some(i + 1) \ {h}
          BY <4>3, <4>6, <5>2, <5>5 DEF e
        <5>7. ASSUME NEW j \in 1 .. Len(t) PROVE \E k \in 1 .. i + 1 : t[j] = q[k]
          <6>1. /\ s \in Seq(Alarms) /\ Len(t) = Len(s) + 1 /\ t[Len(s) + 1] = e
                /\ \A l \in 1 .. Len(s) : t[l] = s[l]
            BY <5>1, <5>2, <5>4, AppendProperties DEF ListOK
          <6>2. Len(s) \in Nat
            BY <6>1, LenProperties
          <6>3. j \in 1 .. Len(s) \/ j = Len(s) + 1
            BY <6>1, <6>2
          <6>4. CASE j = Len(s) + 1
            BY <4>1, <6>1, <6>4 DEF e
          <6>5. CASE j \in 1 .. Len(s)
            <7>1. PICK k \in 1 .. i : s[j] = q[k]
              BY <4>2, <6>5 DEF s
            <7> QED BY <4>1, <6>1, <6>5, <7>1
          <6> QED BY <6>3, <6>4, <6>5
        <5> QED BY <5>5, <5>6, <5>7 DEF t
      <4> QED BY <4>5, <4>6
    <3>2. i + 1 \in Nat
      OBVIOUS
    <3> HIDE DEF Good
    <3> QED BY <3>1, <3>2
  <2> HIDE DEF P
  <2> QED BY <2>1, <2>2, Inductive
<1>5. Good(n)
  <2>1. n \in P /\ n \in 0 .. n
    BY <1>1, <1>4
  <2> HIDE DEF Good
  <2> QED BY <2>1
<1>6. Some(n) = Names(q)
  BY <1>1 DEF Names
<1> HIDE DEF Some
<1> QED BY <1>3, <1>5, <1>6

-----------------------------------------------------------------------------
(* What a list of alarms has at each place. *)
LEMMA ListHas ==
  ASSUME NEW q, ListOK(q)
  PROVE  /\ q \in Seq(Alarms) /\ Len(q) \in Nat /\ DOMAIN q = 1 .. Len(q)
         /\ \A i \in 1 .. Len(q) :
              /\ q[i] \in Alarms /\ q[i].f \in Handlers /\ q[i].left \in Nat
              /\ q[i].left <= Delay[q[i].f]
         /\ \A i, j \in 1 .. Len(q) : i < j => q[i].f # q[j].f /\ q[i].left <= q[j].left
<1>1. q \in Seq(Alarms) /\ Len(q) \in Nat /\ DOMAIN q = 1 .. Len(q)
  BY LenProperties DEF ListOK
<1> QED BY <1>1, AlarmAt DEF ListOK, InTime, Ordered

(* The empty list, with which the program starts. *)
LEMMA EmptyOK == ListOK(<<>>) /\ Names(<<>>) = {}
BY EmptySeq DEF ListOK, InTime, Ordered, Names

(* Setting an alarm that is not in the list puts it in its place.          *)
LEMMA SetOK ==
  ASSUME NEW q, ListOK(q), NEW h \in Handlers, h \notin Names(q)
  PROVE  ListOK(AlarmSet(q, h)) /\ Names(AlarmSet(q, h)) = Names(q) \cup {h}
<1> DEFINE n == Len(q)  d == Delay[h]
           Later == {i \in DOMAIN q : q[i].left > d} \cup {n + 1}
           k == Min(Later)
           e == [f |-> h, left |-> d]
           r == InsertAt(q, k, e)
<1>1. /\ q \in Seq(Alarms) /\ n \in Nat /\ DOMAIN q = 1 .. n
      /\ \A i \in 1 .. n : /\ q[i].f \in Handlers /\ q[i].left \in Nat
                           /\ q[i].left <= Delay[q[i].f]
      /\ \A i, j \in 1 .. n : i < j => q[i].f # q[j].f /\ q[i].left <= q[j].left
  BY ListHas
<1>2. d \in Nat /\ e \in Alarms /\ e.f = h /\ e.left = d
  BY DelayIs DEF Alarms
<1>3. \A i \in 1 .. n : q[i].f # h
  BY <1>1 DEF Names
<1>4. r = AlarmSet(q, h)
  BY <1>1 DEF AlarmSet
<1> HIDE DEF n, d, e, r
<1>5. Later \in SUBSET Nat /\ Later # {}
  BY <1>1
<1>6. k \in Later /\ \A i \in Later : k <= i
  <2> HIDE DEF Later
  <2> QED BY <1>5, LeastNat
<1>7. k \in 1 .. n + 1
  BY <1>1, <1>6
<1>8. ASSUME NEW i \in 1 .. n, i < k PROVE q[i].left <= d
  <2>1. i \notin Later
    <3> HIDE DEF Later, k
    <3>1. i \in Nat /\ k \in Nat
      BY <1>1, <1>7
    <3> QED BY <1>6, <1>8, <3>1
  <2> QED BY <1>1, <1>2, <2>1
<1>9. ASSUME NEW i \in 1 .. n, k <= i PROVE d <= q[i].left
  <2>1. k \in 1 .. n
    BY <1>1, <1>7, <1>9
  <2>2. q[k].left > d
    <3>1. k # n + 1
      BY <1>1, <2>1
    <3> QED BY <1>6, <3>1
  <2> HIDE DEF k, Later
  <2>3. k = i \/ k < i
    BY <1>1, <1>9, <2>1
  <2>4. q[k].left <= q[i].left
    BY <1>1, <2>1, <2>3
  <2> QED BY <1>1, <1>2, <2>1, <2>2, <2>4
<1> HIDE DEF k, Later
<1>10. /\ r \in Seq(Alarms) /\ Len(r) = n + 1
       /\ \A i \in 1 .. k - 1 : r[i] = q[i]
       /\ r[k] = e
       /\ \A i \in k + 1 .. n + 1 : r[i] = q[i - 1]
  <2>1. Len(q) = n /\ k \in 1 .. Len(q) + 1
    BY <1>7 DEF n
  <2>2. /\ InsertAt(q, k, e) \in Seq(Alarms)
        /\ Len(InsertAt(q, k, e)) = Len(q) + 1
        /\ \A i \in 1 .. k - 1 : InsertAt(q, k, e)[i] = q[i]
        /\ InsertAt(q, k, e)[k] = e
        /\ \A i \in k + 1 .. Len(q) + 1 : InsertAt(q, k, e)[i] = q[i - 1]
    <3>1. q \in Seq(Alarms)
      BY <1>1
    <3>2. e \in Alarms
      BY <1>2
    <3>3. ASSUME NEW p \in 1 .. Len(q) + 1, NEW x \in Alarms
          PROVE  /\ InsertAt(q, p, x) \in Seq(Alarms)
                 /\ Len(InsertAt(q, p, x)) = Len(q) + 1
                 /\ \A i \in 1 .. p - 1 : InsertAt(q, p, x)[i] = q[i]
                 /\ InsertAt(q, p, x)[p] = x
                 /\ \A i \in p + 1 .. Len(q) + 1 : InsertAt(q, p, x)[i] = q[i - 1]
      BY <3>1, <3>3, InsertIs
    <3> QED BY <2>1, <3>2, <3>3
  <2> QED BY <2>1, <2>2 DEF r
<1>11. DOMAIN r = 1 .. n + 1
  BY <1>10, LenProperties
<1>12. ASSUME NEW i \in 1 .. n + 1
       PROVE  \/ i < k /\ i \in 1 .. n /\ r[i] = q[i]
              \/ i = k /\ r[i] = e
              \/ k < i /\ i - 1 \in 1 .. n /\ k <= i - 1 /\ r[i] = q[i - 1]
  <2>1. CASE i < k
    <3>1. i \in 1 .. k - 1 /\ i \in 1 .. n
      BY <1>1, <1>7, <2>1
    <3> QED BY <1>10, <2>1, <3>1
  <2>2. CASE i = k
    BY <1>10, <2>2
  <2>3. CASE k < i
    <3>1. i \in k + 1 .. n + 1 /\ i - 1 \in 1 .. n /\ k <= i - 1
      BY <1>1, <1>7, <2>3
    <3> QED BY <1>10, <2>3, <3>1
  <2> QED BY <1>1, <1>7, <2>1, <2>2, <2>3
<1>13. InTime(r)
  <2> SUFFICES ASSUME NEW i \in 1 .. n + 1 PROVE r[i].left <= Delay[r[i].f]
    BY <1>11 DEF InTime
  <2>1. CASE i < k /\ i \in 1 .. n /\ r[i] = q[i]
    BY <1>1, <2>1
  <2>2. CASE i = k /\ r[i] = e
    BY <1>2, <2>2 DEF d
  <2>3. CASE k < i /\ i - 1 \in 1 .. n /\ k <= i - 1 /\ r[i] = q[i - 1]
    BY <1>1, <2>3
  <2> QED BY <1>12, <2>1, <2>2, <2>3
<1>14. Ordered(r)
  <2> SUFFICES ASSUME NEW i \in 1 .. n + 1, NEW j \in 1 .. n + 1, i < j
               PROVE  r[i].f # r[j].f /\ r[i].left <= r[j].left
    BY <1>11 DEF Ordered
  <2>1. CASE i < k /\ i \in 1 .. n /\ r[i] = q[i]
    <3>1. CASE j < k /\ j \in 1 .. n /\ r[j] = q[j]
      BY <1>1, <2>1, <3>1
    <3>2. CASE j = k /\ r[j] = e
      BY <1>2, <1>3, <1>8, <2>1, <3>2
    <3>3. CASE k < j /\ j - 1 \in 1 .. n /\ k <= j - 1 /\ r[j] = q[j - 1]
      <4>1. i < j - 1
        BY <1>7, <2>1, <3>3
      <4> QED BY <1>1, <2>1, <3>3, <4>1
    <3> QED BY <1>12, <3>1, <3>2, <3>3
  <2>2. CASE i = k /\ r[i] = e
    <3>1. k < j /\ j - 1 \in 1 .. n /\ k <= j - 1 /\ r[j] = q[j - 1]
      <4>1. ~(j < k) /\ j # k
        BY <1>7, <2>2
      <4> QED BY <1>12, <4>1
    <3> QED BY <1>2, <1>3, <1>9, <2>2, <3>1
  <2>3. CASE k < i /\ i - 1 \in 1 .. n /\ k <= i - 1 /\ r[i] = q[i - 1]
    <3>1. k < j /\ j - 1 \in 1 .. n /\ k <= j - 1 /\ r[j] = q[j - 1]
      <4>1. ~(j < k) /\ j # k
        BY <1>7, <2>3
      <4> QED BY <1>12, <4>1
    <3>2. i - 1 < j - 1
      OBVIOUS
    <3> QED BY <1>1, <2>3, <3>1, <3>2
  <2> QED BY <1>12, <2>1, <2>2, <2>3
<1>15. Names(r) = Names(q) \cup {h}
  <2>1. ASSUME NEW i \in 1 .. n + 1 PROVE r[i].f \in Names(q) \cup {h}
    <3>1. CASE i = k /\ r[i] = e
      BY <1>2, <3>1
    <3>2. CASE \E j \in 1 .. n : r[i] = q[j]
      BY <1>1, <3>2 DEF Names
    <3> QED BY <1>12, <3>1, <3>2
  <2>2. h \in Names(r)
    <3>1. k \in DOMAIN r /\ r[k].f = h
      BY <1>2, <1>7, <1>10, <1>11
    <3> QED BY <3>1 DEF Names
  <2>3. ASSUME NEW i \in 1 .. n PROVE q[i].f \in Names(r)
    <3>1. CASE i < k
      <4>1. i \in 1 .. k - 1 /\ i \in 1 .. n + 1
        BY <1>1, <1>7, <3>1
      <4>2. i \in DOMAIN r /\ r[i] = q[i]
        BY <1>10, <1>11, <4>1
      <4> QED BY <4>2 DEF Names
    <3>2. CASE ~(i < k)
      <4>1. i + 1 \in k + 1 .. n + 1 /\ i + 1 \in 1 .. n + 1 /\ i + 1 - 1 = i
        BY <1>1, <1>7, <3>2
      <4>2. i + 1 \in DOMAIN r /\ r[i + 1] = q[i]
        BY <1>10, <1>11, <4>1
      <4> QED BY <4>2 DEF Names
    <3> QED BY <3>1, <3>2
  <2>4. Names(r) \subseteq Names(q) \cup {h}
    BY <1>11, <2>1 DEF Names
  <2>5. Names(q) \subseteq Names(r)
    BY <1>1, <2>3 DEF Names
  <2> QED BY <2>2, <2>4, <2>5
<1>16. ListOK(r)
  BY <1>10, <1>13, <1>14 DEF ListOK
<1> QED BY <1>4, <1>15, <1>16

(* alarm_process takes the first alarm out, and no other of its handler is left. *)
LEMMA TailOK ==
  ASSUME NEW q, ListOK(q), q # <<>>
  PROVE  /\ Head(q).f \in Names(q)
         /\ ListOK(Tail(q)) /\ Names(Tail(q)) = Names(q) \ {Head(q).f}
<1> DEFINE n == Len(q)  r == Tail(q)
<1>1. /\ q \in Seq(Alarms) /\ n \in Nat /\ DOMAIN q = 1 .. n
      /\ \A i \in 1 .. n : /\ q[i].f \in Handlers /\ q[i].left \in Nat
                           /\ q[i].left <= Delay[q[i].f]
      /\ \A i, j \in 1 .. n : i < j => q[i].f # q[j].f /\ q[i].left <= q[j].left
  BY ListHas
<1>2. /\ Head(q) = q[1] /\ r \in Seq(Alarms) /\ Len(r) = n - 1
      /\ \A i \in 1 .. n - 1 : r[i] = q[i + 1]
  BY <1>1, HeadTailProperties
<1>3. n >= 1 /\ 1 \in DOMAIN q
  <2>1. n # 0
    BY <1>1, EmptySeq
  <2> QED BY <1>1, <2>1
<1>4. DOMAIN r = 1 .. n - 1
  BY <1>2, LenProperties
<1> HIDE DEF n, r
<1>5. \A i \in 1 .. n - 1 : i + 1 \in 1 .. n /\ 1 < i + 1 /\ 1 \in 1 .. n
  BY <1>1, <1>3
<1>6. InTime(r)
  BY <1>1, <1>2, <1>4, <1>5 DEF InTime
<1>7. Ordered(r)
  <2> SUFFICES ASSUME NEW i \in 1 .. n - 1, NEW j \in 1 .. n - 1, i < j
               PROVE  r[i].f # r[j].f /\ r[i].left <= r[j].left
    BY <1>4 DEF Ordered
  <2>1. i + 1 \in 1 .. n /\ j + 1 \in 1 .. n /\ i + 1 < j + 1
    BY <1>5
  <2> QED BY <1>1, <1>2, <2>1
<1>8. Names(r) = Names(q) \ {Head(q).f}
  <2>1. ASSUME NEW i \in 1 .. n - 1 PROVE r[i].f \in Names(q) /\ r[i].f # Head(q).f
    <3>1. i + 1 \in DOMAIN q /\ r[i] = q[i + 1] /\ q[1].f # q[i + 1].f
      BY <1>1, <1>2, <1>5
    <3> QED BY <1>2, <3>1 DEF Names
  <2>2. ASSUME NEW i \in 1 .. n, q[i].f # Head(q).f PROVE q[i].f \in Names(r)
    <3>1. i # 1
      BY <1>2, <2>2
    <3>2. i - 1 \in 1 .. n - 1 /\ i - 1 + 1 = i
      BY <1>1, <3>1
    <3>3. i - 1 \in DOMAIN r /\ r[i - 1] = q[i]
      BY <1>2, <1>4, <3>2
    <3> QED BY <3>3 DEF Names
  <2>3. Names(r) \subseteq Names(q) \ {Head(q).f}
    BY <1>4, <2>1 DEF Names
  <2>4. Names(q) \ {Head(q).f} \subseteq Names(r)
    BY <1>1, <2>2 DEF Names
  <2> QED BY <2>3, <2>4
<1>9. Head(q).f \in Names(q)
  BY <1>2, <1>3 DEF Names
<1> QED BY <1>2, <1>6, <1>7, <1>8, <1>9 DEF ListOK, r

(* The list after one tick. *)
Ticked(q) == [i \in DOMAIN q |-> [q[i] EXCEPT !.left = IF @ = 0 THEN 0 ELSE @ - 1]]

(* Time passes for all alarms alike. *)
LEMMA TickOK ==
  ASSUME NEW q, ListOK(q)
  PROVE  ListOK(Ticked(q)) /\ Names(Ticked(q)) = Names(q)
<1> DEFINE n == Len(q)  r == Ticked(q)
<1>1. /\ q \in Seq(Alarms) /\ n \in Nat /\ DOMAIN q = 1 .. n
      /\ \A i \in 1 .. n : /\ q[i] \in Alarms /\ q[i].f \in Handlers /\ q[i].left \in Nat
                           /\ q[i].left <= Delay[q[i].f]
      /\ \A i, j \in 1 .. n : i < j => q[i].f # q[j].f /\ q[i].left <= q[j].left
  BY ListHas
<1> HIDE DEF n
<1>2. DOMAIN r = 1 .. n
  BY <1>1 DEF Ticked
<1>3. ASSUME NEW i \in 1 .. n
      PROVE  /\ r[i] \in Alarms /\ r[i].f = q[i].f
             /\ r[i].left = IF q[i].left = 0 THEN 0 ELSE q[i].left - 1
  <2> DEFINE a == q[i]
  <2>1. r[i] = [a EXCEPT !.left = IF @ = 0 THEN 0 ELSE @ - 1]
    BY <1>1 DEF Ticked
  <2>2. a \in Alarms /\ a.left \in Nat
    BY <1>1
  <2> HIDE DEF a, r
  <2>3. (IF a.left = 0 THEN 0 ELSE a.left - 1) \in Nat
    BY <2>2
  <2> QED BY <2>1, <2>2, <2>3 DEF Alarms, a
<1>4. r \in Seq(Alarms)
  <2>1. r = [i \in 1 .. n |-> r[i]]
    BY <1>1 DEF Ticked
  <2>2. \A i \in 1 .. n : r[i] \in Alarms
    BY <1>3
  <2> HIDE DEF r
  <2>3. r \in [1 .. n -> Alarms]
    BY <2>1, <2>2
  <2> QED BY <1>1, <2>3, SeqDef
<1> HIDE DEF r
<1>5. InTime(r)
  <2> SUFFICES ASSUME NEW i \in 1 .. n PROVE r[i].left <= Delay[r[i].f]
    BY <1>2 DEF InTime
  <2>1. PICK a \in Nat : a = q[i].left
    BY <1>1
  <2>2. PICK d \in Nat : d = Delay[q[i].f]
    BY <1>1, DelayIs
  <2>3. a <= d
    BY <1>1, <2>1, <2>2
  <2>4. r[i].left = (IF a = 0 THEN 0 ELSE a - 1) /\ Delay[r[i].f] = d
    BY <1>3, <2>1, <2>2
  <2> QED BY <2>3, <2>4
<1>6. Ordered(r)
  <2> SUFFICES ASSUME NEW i \in 1 .. n, NEW j \in 1 .. n, i < j
               PROVE  r[i].f # r[j].f /\ r[i].left <= r[j].left
    BY <1>2 DEF Ordered
  <2>1. PICK a \in Nat : a = q[i].left
    BY <1>1
  <2>2. PICK b \in Nat : b = q[j].left
    BY <1>1
  <2>3. a <= b /\ q[i].f # q[j].f
    BY <1>1, <2>1, <2>2
  <2>4. r[i].left = (IF a = 0 THEN 0 ELSE a - 1) /\ r[j].left = (IF b = 0 THEN 0 ELSE b - 1)
    BY <1>3, <2>1, <2>2
  <2>5. r[i].left <= r[j].left
    BY <2>3, <2>4
  <2> QED BY <1>3, <2>3, <2>5
<1>7. Names(r) = Names(q)
  BY <1>1, <1>2, <1>3 DEF Names
<1> QED BY <1>4, <1>5, <1>6, <1>7 DEF ListOK, r

(* An alarm is pending if its handler is in the list. *)
LEMMA PendingIs ==
  ASSUME NEW q, NEW h
  PROVE  Pending(q, h) # {} <=> h \in Names(q)
BY DEF Pending, Names

-----------------------------------------------------------------------------
(* The invariant.  The user can only press a key that is up, so its events *)
(* alternate and the last tells how the key is; thus while the reboot's    *)
(* alarm is set the next event of the key is its release, and a press that *)
(* is read never finds that alarm in the list.                             *)
Plain ==
  /\ pc \in {"start", "loop", "process", "exit"}
  /\ shutdown \in BOOLEAN /\ powerup \in BOOLEAN /\ quit \in BOOLEAN /\ lit \in BOOLEAN
  /\ plugged \in BOOLEAN /\ voltOk \in BOOLEAN /\ held \in BOOLEAN
  /\ brightness \in {0, 40, 80, 100}
  /\ power \in {"on", "off", "restarted"}
  /\ otherKeys \in 0 .. MaxKeys
  /\ uevent \in {"none", "cpcap_battery", "other"}

KeysAlternate ==
  /\ powerKeys \in Seq({"down", "up"})
  /\ \A i \in 1 .. Len(powerKeys) - 1 : powerKeys[i] # powerKeys[i + 1]
  /\ powerKeys # <<>> => (powerKeys[Len(powerKeys)] = "down" <=> held)

KeyEnds ==
  LongPress \in Names(alarms) => IF powerKeys = <<>> THEN held ELSE powerKeys[1] = "up"

Started == pc = "start" => Names(alarms) = {}

ChargeInv ==
  Plain /\ ListOK(alarms) /\ DisplayInStage /\ KeysAlternate /\ KeyEnds /\ Started

(* What is displayed, given the handlers of the display that are set. *)
Stage(D) ==
  \/ ~lit /\ brightness = 0  /\ D = {}
  \/ lit  /\ brightness = 80 /\ D = {Animation, Dim}
  \/ lit  /\ brightness = 40 /\ D = {Animation, Blank}
  \/ lit  /\ D = {} /\ ReleaseComes

(* The stage in terms of the handlers in the list. *)
LEMMA StageIs ==
  DisplayInStage <=> (pc \in {"loop", "process"} /\ power = "on" => Stage(Names(alarms) \ {LongPress}))
BY DEF DisplayInStage, DisplayAlarms, Stage, Names

(* The same of the next state. *)
LEMMA StageIsNext ==
  DisplayInStage' <=>
    (pc' \in {"loop", "process"} /\ power' = "on" => Stage(Names(alarms) \ {LongPress})')
BY DEF DisplayInStage, DisplayAlarms, Stage, Names

(* The four handlers are different. *)
LEMMA FourHandlers ==
  /\ Handlers = {Animation, Dim, Blank, LongPress}
  /\ Animation # Dim /\ Animation # Blank /\ Animation # LongPress
  /\ Dim # Blank /\ Dim # LongPress /\ Blank # LongPress
BY DEF Handlers, Animation, Dim, Blank, LongPress

(* A list has no other handlers. *)
LEMMA NamesAre == ASSUME NEW q, ListOK(q) PROVE Names(q) \subseteq Handlers
<1>1. DOMAIN q = 1 .. Len(q) /\ \A i \in 1 .. Len(q) : q[i].f \in Handlers
  BY ListHas
<1> QED BY <1>1 DEF Names

(* The invariant says that the list is in order and fits the display.      *)
LEMMA ChargeInvFits == ChargeInv => AlarmsFitDisplay
<1> SUFFICES ASSUME ChargeInv PROVE AlarmsFitDisplay
  OBVIOUS
<1>1. /\ DOMAIN alarms = 1 .. Len(alarms) /\ Len(alarms) \in Nat
      /\ \A i \in 1 .. Len(alarms) : /\ alarms[i].f \in Handlers /\ alarms[i].left \in Nat
                                     /\ alarms[i].left <= Delay[alarms[i].f]
      /\ \A i, j \in 1 .. Len(alarms) :
           i < j => alarms[i].f # alarms[j].f /\ alarms[i].left <= alarms[j].left
  BY ListHas DEF ChargeInv
<1>2. \A i \in DOMAIN alarms :
        alarms[i].f \in Handlers /\ alarms[i].left \in 0 .. Delay[alarms[i].f]
  BY <1>1, DelayIs
<1>3. Plain /\ powerKeys \in Seq({"down", "up"})
  BY DEF ChargeInv, KeysAlternate
<1>4. TypeOK
  <2>1. {shutdown, powerup, quit, lit, plugged, voltOk, held} \subseteq BOOLEAN
    BY <1>3 DEF Plain
  <2> QED BY <1>2, <1>3, <2>1 DEF TypeOK, Plain
<1>5. AlarmsInOrder
  BY <1>1 DEF AlarmsInOrder
<1> QED BY <1>4, <1>5 DEF AlarmsFitDisplay, ChargeInv

(* And that the reboot is set only while the key's release is to come.     *)
LEMMA ChargeInvHeld == ChargeInv => LongPressIsHeld
<1> SUFFICES ASSUME ChargeInv, LongPress \in Names(alarms) PROVE ReleaseComes
  BY PendingIs DEF LongPressIsHeld
<1>1. CASE powerKeys = <<>>
  BY <1>1 DEF ChargeInv, KeyEnds, ReleaseComes
<1>2. CASE powerKeys # <<>>
  <2>1. powerKeys[1] = "up"
    BY <1>2 DEF ChargeInv, KeyEnds
  <2>2. powerKeys \in Seq({"down", "up"})
    BY DEF ChargeInv, KeysAlternate
  <2>3. 1 \in DOMAIN powerKeys
    BY <1>2, <2>2, EmptySeq, LenProperties
  <2> QED BY <2>1, <2>3 DEF ReleaseComes
<1> QED BY <1>1, <1>2

(* A step that leaves the key alone and does not set the reboot's alarm.   *)
LEMMA Settles ==
  ASSUME ChargeInv, Plain', ListOK(alarms'), DisplayInStage',
         LongPress \in Names(alarms') => LongPress \in Names(alarms),
         pc' = "start" => Names(alarms') = {},
         UNCHANGED <<held, powerKeys>>
  PROVE  ChargeInv'
<1>1. KeysAlternate'
  BY DEF ChargeInv, KeysAlternate
<1>2. KeyEnds'
  <2> SUFFICES ASSUME LongPress \in Names(alarms')
               PROVE  IF powerKeys' = <<>> THEN held' ELSE powerKeys'[1] = "up"
    BY DEF KeyEnds, LongPress, Names
  <2> QED BY DEF ChargeInv, KeyEnds
<1>3. ListOK(alarms)'
  BY DEF ListOK, InTime, Ordered, Alarms, Delay, Handlers, Animation, Dim, Blank, LongPress
<1>4. Started'
  BY DEF Started, Names
<1> QED BY <1>1, <1>2, <1>3, <1>4 DEF ChargeInv

-----------------------------------------------------------------------------
(* The functions the handlers call *)

(* The cycle of the display begins: bright, with the animation running.    *)
LEMMA StartsDisplay ==
  ASSUME NEW q, ListOK(q), Animation \notin Names(q), Dim \notin Names(q), StartDisplay(q)
  PROVE  /\ lit' = TRUE /\ brightness' = 80
         /\ ListOK(alarms') /\ Names(alarms') = Names(q) \cup {Animation, Dim}
<1> DEFINE r == AlarmSet(q, Dim)
<1>1. ListOK(r) /\ Names(r) = Names(q) \cup {Dim}
  BY SetOK, FourHandlers
<1>2. Animation \notin Names(r) /\ Animation \in Handlers
  BY <1>1, FourHandlers
<1> HIDE DEF r
<1>3. ListOK(AlarmSet(r, Animation)) /\ Names(AlarmSet(r, Animation)) = Names(r) \cup {Animation}
  BY <1>1, <1>2, SetOK
<1> QED BY <1>1, <1>3 DEF StartDisplay, r

(* The display goes dark, or the phone is switched off. *)
LEMMA BlanksDisplay ==
  ASSUME NEW q, ListOK(q), NEW off, BlankDisplay(q, off)
  PROVE  /\ brightness' = 0
         /\ ListOK(alarms') /\ Names(alarms') = Names(q) \ {Animation}
         /\ (power' = "off" /\ lit' = lit) \/ (power' = power /\ lit' = FALSE)
<1>1. ListOK(AlarmCancel(q, Animation)) /\ Names(AlarmCancel(q, Animation)) = Names(q) \ {Animation}
  BY CancelOK, FourHandlers
<1>2. /\ brightness' = 0
      /\ alarms' = AlarmCancel(q, Animation)
      /\ (power' = "off" /\ lit' = lit) \/ (power' = power /\ lit' = FALSE)
  BY DEF BlankDisplay
<1>3. ListOK(alarms') /\ Names(alarms') = Names(q) \ {Animation}
  BY <1>1, <1>2
<1> QED BY <1>2, <1>3

(* A look at the charger leaves the display as it is, or ends the cycle.   *)
LEMMA PowerEventDoes ==
  ASSUME NEW q, ListOK(q), PowerEvent(q)
  PROVE  /\ ListOK(alarms')
         /\ \/ /\ Names(alarms') = Names(q)
               /\ lit' = lit /\ brightness' = brightness /\ power' = power
               /\ shutdown' = shutdown
            \/ /\ Names(alarms') = Names(q) \ {Blank, Dim, Animation}
               /\ brightness' = 0 /\ shutdown' = TRUE
               /\ (power' = "off" /\ lit' = lit) \/ (power' = power /\ lit' = FALSE)
         /\ powerup' \in BOOLEAN /\ quit' = quit
<1>1. powerup' \in BOOLEAN /\ quit' = quit
  BY DEF PowerEvent
<1>2. CASE /\ shutdown' = TRUE
           /\ BlankDisplay(AlarmCancel(AlarmCancel(q, Blank), Dim), TRUE)
  <2> DEFINE r == AlarmCancel(q, Blank)  s == AlarmCancel(r, Dim)
  <2>1. ListOK(r) /\ Names(r) = Names(q) \ {Blank}
    BY CancelOK, FourHandlers
  <2> HIDE DEF r
  <2>2. ListOK(s) /\ Names(s) = Names(r) \ {Dim}
    BY <2>1, CancelOK, FourHandlers
  <2>3. BlankDisplay(s, TRUE)
    BY <1>2 DEF r
  <2> HIDE DEF s
  <2>4. /\ brightness' = 0
        /\ ListOK(alarms') /\ Names(alarms') = Names(s) \ {Animation}
        /\ (power' = "off" /\ lit' = lit) \/ (power' = power /\ lit' = FALSE)
    BY <2>2, <2>3, BlanksDisplay
  <2>5. Names(alarms') = Names(q) \ {Blank, Dim, Animation}
    BY <2>1, <2>2, <2>4
  <2> QED BY <1>1, <1>2, <2>4, <2>5
<1>3. CASE alarms' = q /\ UNCHANGED <<shutdown, display, power>>
  BY <1>1, <1>3 DEF display
<1> QED BY <1>2, <1>3 DEF PowerEvent

(* A key that wakes up the display starts the cycle or ends it at once.    *)
LEMMA WakesUp ==
  ASSUME NEW q, ListOK(q), WakeupKey(q)
  PROVE  /\ ListOK(alarms')
         /\ \/ /\ lit' = TRUE /\ brightness' = 80 /\ power' = power
               /\ Names(alarms') = (Names(q) \ {Blank}) \cup {Animation, Dim}
            \/ /\ brightness' = 0 /\ Names(alarms') = Names(q) \ {Blank, Dim, Animation}
               /\ (power' = "off" /\ lit' = lit) \/ (power' = power /\ lit' = FALSE)
<1> DEFINE p == AlarmCancel(q, Blank)  r == AlarmCancel(p, Animation)  s == AlarmCancel(r, Dim)
<1>1. ListOK(p) /\ Names(p) = Names(q) \ {Blank}
  BY CancelOK, FourHandlers
<1> HIDE DEF p
<1>2. ListOK(r) /\ Names(r) = Names(p) \ {Animation}
  BY <1>1, CancelOK, FourHandlers
<1>3. \/ Pending(r, Dim) # {} /\ BlankDisplay(AlarmCancel(r, Dim), shutdown)
      \/ Pending(r, Dim) = {} /\ StartDisplay(r) /\ UNCHANGED power
  BY DEF WakeupKey, p
<1> HIDE DEF r
<1>4. CASE BlankDisplay(s, shutdown)
  <2>1. ListOK(s) /\ Names(s) = Names(r) \ {Dim}
    BY <1>2, CancelOK, FourHandlers
  <2> HIDE DEF s
  <2>2. /\ brightness' = 0
        /\ ListOK(alarms') /\ Names(alarms') = Names(s) \ {Animation}
        /\ (power' = "off" /\ lit' = lit) \/ (power' = power /\ lit' = FALSE)
    BY <1>4, <2>1, BlanksDisplay
  <2>3. Names(alarms') = Names(q) \ {Blank, Dim, Animation}
    BY <1>1, <1>2, <2>1, <2>2
  <2> QED BY <2>2, <2>3
<1>5. CASE Pending(r, Dim) = {} /\ StartDisplay(r) /\ UNCHANGED power
  <2>1. Dim \notin Names(r) /\ Animation \notin Names(r)
    BY <1>2, <1>5, PendingIs
  <2>2. /\ lit' = TRUE /\ brightness' = 80
        /\ ListOK(alarms') /\ Names(alarms') = Names(r) \cup {Animation, Dim}
    BY <1>2, <1>5, <2>1, StartsDisplay
  <2>3. Names(alarms') = (Names(q) \ {Blank}) \cup {Animation, Dim}
    BY <1>1, <1>2, <2>2
  <2> QED BY <1>5, <2>2, <2>3
<1> QED BY <1>3, <1>4, <1>5

-----------------------------------------------------------------------------
(* The steps *)

(* The cycle begins with the program. *)
LEMMA StartupKeeps == ChargeInv /\ Startup => ChargeInv'
<1> SUFFICES ASSUME ChargeInv, Startup PROVE ChargeInv'
  OBVIOUS
<1>1. Plain /\ ListOK(alarms) /\ Names(alarms) = {} /\ pc = "start" /\ power = "on"
  BY DEF ChargeInv, Started, Startup, At
<1>2. /\ powerup' = voltOk /\ shutdown' = ~plugged
      /\ quit' = quit /\ plugged' = plugged /\ voltOk' = voltOk /\ held' = held
      /\ powerKeys' = powerKeys /\ otherKeys' = otherKeys /\ uevent' = uevent
  BY DEF Startup, keys
<1>3. CASE power' = "off" /\ UNCHANGED <<pc, alarms, display>>
  <2>1. pc' = pc /\ alarms' = alarms /\ lit' = lit /\ brightness' = brightness /\ power' = "off"
    BY <1>3 DEF display
  <2>2. Plain'
    BY <1>1, <1>2, <2>1 DEF Plain
  <2>3. DisplayInStage'
    BY <2>1, StageIsNext
  <2> QED BY <1>1, <1>2, <2>1, <2>2, <2>3, Settles
<1>4. CASE pc' = "loop" /\ StartDisplay(alarms) /\ UNCHANGED power
  <2>1. /\ lit' = TRUE /\ brightness' = 80
        /\ ListOK(alarms') /\ Names(alarms') = Names(alarms) \cup {Animation, Dim}
    BY <1>1, <1>4, StartsDisplay
  <2>2. Plain'
    BY <1>1, <1>2, <1>4, <2>1 DEF Plain
  <2>3. Names(alarms') = {Animation, Dim}
    BY <1>1, <2>1
  <2>4. Names(alarms)' \ {LongPress} = {Animation, Dim}
    BY <2>3, FourHandlers DEF Names
  <2>5. DisplayInStage'
    BY <2>1, <2>4, StageIsNext DEF Stage, LongPress, Animation, Dim, Blank
  <2>6. LongPress \notin Names(alarms')
    BY <2>3, FourHandlers
  <2> QED BY <1>2, <1>4, <2>1, <2>2, <2>5, <2>6, Settles
<1> QED BY <1>3, <1>4 DEF Startup

(* The program looks whether to end and what is due. *)
LEMMA MainKeeps == ChargeInv /\ (Exit \/ CallAlarmProcess \/ AlarmsDone) => ChargeInv'
<1> SUFFICES ASSUME ChargeInv, Exit \/ CallAlarmProcess \/ AlarmsDone PROVE ChargeInv'
  OBVIOUS
<1>1. Plain /\ ListOK(alarms) /\ DisplayInStage
  BY DEF ChargeInv
<1>2. /\ alarms' = alarms /\ shutdown' = shutdown /\ powerup' = powerup /\ quit' = quit
      /\ lit' = lit /\ power' = power /\ plugged' = plugged /\ voltOk' = voltOk
      /\ held' = held /\ powerKeys' = powerKeys /\ otherKeys' = otherKeys /\ uevent' = uevent
  BY DEF Exit, CallAlarmProcess, AlarmsDone, flags, display, keys
<1>3. CASE pc' = "exit" /\ brightness' = 100
  <2>1. Plain'
    BY <1>1, <1>2, <1>3 DEF Plain
  <2>2. DisplayInStage'
    BY <1>3, StageIsNext
  <2> QED BY <1>1, <1>2, <1>3, <2>1, <2>2, Settles
<1>4. CASE pc \in {"loop", "process"} /\ pc' \in {"loop", "process"} /\ brightness' = brightness
  <2>1. Plain'
    BY <1>1, <1>2, <1>4 DEF Plain
  <2>2. DisplayInStage'
    BY <1>1, <1>2, <1>4 DEF DisplayInStage, DisplayAlarms, ReleaseComes
  <2> QED BY <1>1, <1>2, <1>4, <2>1, <2>2, Settles
<1> QED BY <1>3, <1>4 DEF Exit, CallAlarmProcess, AlarmsDone, At, display

(* Whether the key is to be released does not change. *)
LEMMA SameRelease ==
  ASSUME UNCHANGED <<held, powerKeys>> PROVE ReleaseComes' <=> ReleaseComes
BY DEF ReleaseComes

(* What is displayed after a look at the charger, if it fitted before.     *)
LEMMA PowerEventFits ==
  ASSUME ChargeInv, NEW q, ListOK(q), Names(q) = Names(alarms), PowerEvent(q),
         pc \in {"loop", "process"}, power = "on",
         UNCHANGED <<pc, plugged, voltOk, held, powerKeys, otherKeys>>,
         uevent' \in {"none", "cpcap_battery", "other"}
  PROVE  ChargeInv'
<1>1. Plain /\ ListOK(alarms) /\ Stage(Names(alarms) \ {LongPress})
  BY StageIs DEF ChargeInv
<1>2. /\ ListOK(alarms')
      /\ \/ /\ Names(alarms') = Names(q)
            /\ lit' = lit /\ brightness' = brightness /\ power' = power
            /\ shutdown' = shutdown
         \/ /\ Names(alarms') = Names(q) \ {Blank, Dim, Animation}
            /\ brightness' = 0 /\ shutdown' = TRUE
            /\ (power' = "off" /\ lit' = lit) \/ (power' = power /\ lit' = FALSE)
      /\ powerup' \in BOOLEAN /\ quit' = quit
  BY PowerEventDoes
<1>3. ReleaseComes' <=> ReleaseComes
  BY SameRelease
<1>4. CASE /\ Names(alarms') = Names(q)
           /\ lit' = lit /\ brightness' = brightness /\ power' = power
           /\ shutdown' = shutdown
  <2>1. Plain'
    BY <1>1, <1>2, <1>4 DEF Plain
  <2>2. Names(alarms)' = Names(alarms)
    BY <1>4 DEF Names
  <2>3. Stage(Names(alarms) \ {LongPress})'
    BY <1>1, <1>3, <1>4, <2>2 DEF Stage, Animation, Dim, Blank, LongPress
  <2>4. DisplayInStage'
    BY <2>3, StageIsNext
  <2> QED BY <1>2, <1>4, <2>1, <2>4, Settles
<1>5. CASE /\ Names(alarms') = Names(q) \ {Blank, Dim, Animation}
           /\ brightness' = 0 /\ shutdown' = TRUE
           /\ (power' = "off" /\ lit' = lit) \/ (power' = power /\ lit' = FALSE)
  <2>1. Plain'
    <3>1. lit' \in BOOLEAN /\ power' \in {"on", "off", "restarted"}
      BY <1>1, <1>5 DEF Plain
    <3> QED BY <1>1, <1>2, <1>5, <3>1 DEF Plain
  <2>2. Names(alarms') \ {LongPress} = {}
    BY <1>1, <1>5, NamesAre, FourHandlers
  <2>3. DisplayInStage'
    <3>1. CASE power' = "off"
      BY <3>1, StageIsNext
    <3>2. CASE lit' = FALSE
      <4>1. Names(alarms)' \ {LongPress} = {}
        BY <2>2 DEF Names
      <4>2. Stage(Names(alarms) \ {LongPress})'
        BY <1>5, <3>2, <4>1 DEF Stage, LongPress
      <4> QED BY <4>2, StageIsNext
    <3> QED BY <1>5, <3>1, <3>2
  <2> QED BY <1>2, <1>5, <2>1, <2>3, Settles
<1> QED BY <1>2, <1>4, <1>5

(* One alarm that is due is run. *)
LEMMA RunAlarmKeeps == ChargeInv /\ RunAlarm => ChargeInv'
<1> SUFFICES ASSUME ChargeInv, RunAlarm PROVE ChargeInv'
  OBVIOUS
<1> DEFINE f == Head(alarms).f  q == Tail(alarms)
<1>1. /\ Plain /\ ListOK(alarms) /\ Stage(Names(alarms) \ {LongPress})
      /\ pc = "process" /\ power = "on" /\ alarms # <<>>
  BY StageIs DEF ChargeInv, RunAlarm, At, Due
<1>2. /\ pc' = pc /\ plugged' = plugged /\ voltOk' = voltOk /\ held' = held
      /\ powerKeys' = powerKeys /\ otherKeys' = otherKeys /\ uevent' = uevent
  BY DEF RunAlarm, keys
<1>3. f \in Names(alarms) /\ ListOK(q) /\ Names(q) = Names(alarms) \ {f}
  BY <1>1, TailOK
<1>4. \/ f = Animation /\ AnimationAlarm(q)
      \/ f = Dim       /\ DimAlarm(q)
      \/ f = Blank     /\ BlankAlarm(q)
      \/ f = LongPress /\ LongPressAlarm(q)
  BY DEF RunAlarm
<1>5. ReleaseComes' <=> ReleaseComes
  BY <1>2, SameRelease
<1> HIDE DEF f, q
<1>6. CASE f = Animation /\ AnimationAlarm(q)
  <2> DEFINE r == AlarmSet(q, Animation)
  <2>1. ListOK(r) /\ Names(r) = Names(q) \cup {Animation}
    BY <1>3, <1>6, SetOK, FourHandlers
  <2>2. PowerEvent(r)
    BY <1>6 DEF AnimationAlarm
  <2> HIDE DEF r
  <2>3. Names(r) = Names(alarms)
    BY <1>3, <1>6, <2>1
  <2>4. uevent' \in {"none", "cpcap_battery", "other"}
    BY <1>1, <1>2 DEF Plain
  <2> QED BY <1>1, <1>2, <2>1, <2>2, <2>3, <2>4, PowerEventFits
<1>7. CASE f = Dim /\ DimAlarm(q)
  <2>1. lit /\ Names(alarms) \ {LongPress} = {Animation, Dim}
    BY <1>1, <1>3, <1>7, FourHandlers DEF Stage
  <2>2. Names(q) \ {LongPress} = {Animation}
    BY <1>3, <1>7, <2>1, FourHandlers
  <2>3. ListOK(AlarmSet(q, Blank)) /\ Names(AlarmSet(q, Blank)) = Names(q) \cup {Blank}
    BY <1>3, <2>2, SetOK, FourHandlers
  <2>4. /\ brightness' = 40 /\ alarms' = AlarmSet(q, Blank) /\ lit' = lit /\ power' = power
        /\ shutdown' = shutdown /\ powerup' = powerup /\ quit' = quit
    BY <1>7 DEF DimAlarm, flags
  <2>5. ListOK(alarms') /\ Names(alarms') = Names(q) \cup {Blank}
    BY <2>3, <2>4
  <2>6. Names(alarms)' \ {LongPress} = {Animation, Blank}
    <3>1. Names(alarms)' = Names(alarms')
      BY DEF Names
    <3> QED BY <2>2, <2>5, <3>1, FourHandlers
  <2>7. Stage(Names(alarms) \ {LongPress})'
    BY <2>1, <2>4, <2>6 DEF Stage, Animation, Dim, Blank, LongPress
  <2>8. Plain'
    BY <1>1, <1>2, <2>4 DEF Plain
  <2>9. LongPress \in Names(alarms') => LongPress \in Names(alarms)
    BY <1>3, <2>5, FourHandlers
  <2>10. DisplayInStage'
    BY <2>7, StageIsNext
  <2>11. pc' # "start"
    BY <1>1, <1>2
  <2> QED BY <1>2, <2>5, <2>8, <2>9, <2>10, <2>11, Settles
<1>8. CASE f = Blank /\ BlankAlarm(q)
  <2>1. Names(alarms) \ {LongPress} = {Animation, Blank}
    BY <1>1, <1>3, <1>8, FourHandlers DEF Stage
  <2>2. Names(q) \ {LongPress} = {Animation}
    BY <1>3, <1>8, <2>1, FourHandlers
  <2>3. BlankDisplay(q, shutdown)
    BY <1>8 DEF BlankAlarm
  <2>4. /\ brightness' = 0
        /\ ListOK(alarms') /\ Names(alarms') = Names(q) \ {Animation}
        /\ (power' = "off" /\ lit' = lit) \/ (power' = power /\ lit' = FALSE)
    BY <1>3, <2>3, BlanksDisplay
  <2>5. shutdown' = shutdown /\ powerup' = powerup /\ quit' = quit
    BY <1>8 DEF BlankAlarm, flags
  <2>6. Names(alarms)' \ {LongPress} = {}
    <3>1. Names(alarms)' = Names(alarms')
      BY DEF Names
    <3> QED BY <2>2, <2>4, <3>1
  <2>7. Plain'
    <3>1. lit' \in BOOLEAN /\ power' \in {"on", "off", "restarted"}
      BY <1>1, <2>4 DEF Plain
    <3>2. shutdown' \in BOOLEAN /\ powerup' \in BOOLEAN /\ quit' \in BOOLEAN
      BY <1>1, <2>5 DEF Plain
    <3> QED BY <1>1, <1>2, <2>4, <3>1, <3>2 DEF Plain
  <2>8. DisplayInStage'
    <3>1. CASE power' = "off"
      BY <3>1, StageIsNext
    <3>2. CASE lit' = FALSE
      <4>1. Stage(Names(alarms) \ {LongPress})'
        BY <2>4, <2>6, <3>2 DEF Stage, LongPress
      <4> QED BY <4>1, StageIsNext
    <3> QED BY <2>4, <3>1, <3>2
  <2>9. LongPress \in Names(alarms') => LongPress \in Names(alarms)
    BY <1>3, <2>4
  <2>10. pc' # "start"
    BY <1>1, <1>2
  <2> QED BY <1>2, <2>4, <2>7, <2>8, <2>9, <2>10, Settles
<1>9. CASE f = LongPress /\ LongPressAlarm(q)
  <2> DEFINE a == AlarmCancel(q, Blank)  b == AlarmCancel(a, Dim)  c == AlarmCancel(b, Animation)
  <2>1. ListOK(a) /\ Names(a) = Names(q) \ {Blank}
    BY <1>3, CancelOK, FourHandlers
  <2> HIDE DEF a
  <2>2. ListOK(b) /\ Names(b) = Names(a) \ {Dim}
    BY <2>1, CancelOK, FourHandlers
  <2> HIDE DEF b
  <2>3. ListOK(c) /\ Names(c) = Names(b) \ {Animation}
    BY <2>2, CancelOK, FourHandlers
  <2>4. /\ alarms' = c
        /\ shutdown' = shutdown /\ powerup' = powerup /\ lit' = lit /\ brightness' = brightness
    BY <1>9 DEF LongPressAlarm, display, a, b
  <2> HIDE DEF c
  <2>5. Names(c) = {}
    BY <1>1, <1>3, <1>9, <2>1, <2>2, <2>3, NamesAre, FourHandlers
  <2>6. ListOK(alarms') /\ Names(alarms') = {}
    BY <2>3, <2>4, <2>5
  <2>7. Plain'
    <3>1. quit' \in BOOLEAN /\ power' \in {"on", "off", "restarted"}
      BY <1>1, <1>9, Zenon DEF Plain, LongPressAlarm
    <3> QED BY <1>1, <1>2, <2>4, <3>1 DEF Plain
  <2>8. ReleaseComes
    <3>1. LongPressIsHeld /\ LongPress \in Names(alarms)
      BY <1>3, <1>9, ChargeInvHeld
    <3> QED BY <3>1, PendingIs DEF LongPressIsHeld
  <2>9. Names(alarms)' \ {LongPress} = {}
    BY <2>6 DEF Names
  <2>10. Stage(Names(alarms) \ {LongPress})'
    BY <1>1, <1>5, <2>4, <2>8, <2>9, FourHandlers DEF Stage, LongPress
  <2>11. DisplayInStage'
    BY <2>10, StageIsNext
  <2>12. pc' # "start"
    BY <1>1, <1>2
  <2> QED BY <1>2, <2>6, <2>7, <2>11, <2>12, Settles
<1> QED BY <1>4, <1>6, <1>7, <1>8, <1>9

(* What a sequence of the key's events has without the first. *)
LEMMA KeyTail ==
  ASSUME NEW p \in Seq({"down", "up"}), p # <<>>
  PROVE  /\ Len(p) \in Nat \ {0} /\ Head(p) = p[1] /\ p[1] \in {"down", "up"}
         /\ DOMAIN p = 1 .. Len(p)
         /\ Tail(p) \in Seq({"down", "up"}) /\ Len(Tail(p)) = Len(p) - 1
         /\ DOMAIN Tail(p) = 1 .. Len(p) - 1
         /\ \A i \in 1 .. Len(p) - 1 : Tail(p)[i] = p[i + 1]
         /\ Tail(p) = <<>> <=> Len(p) = 1
<1> DEFINE S == {"down", "up"}
<1>1. p \in Seq(S) /\ Len(p) \in Nat /\ DOMAIN p = 1 .. Len(p) /\ Len(p) # 0
  BY LenProperties, EmptySeq
<1> HIDE DEF S
<1>2. /\ Head(p) = p[1] /\ Tail(p) \in Seq(S) /\ Len(Tail(p)) = Len(p) - 1
      /\ \A i \in 1 .. Len(p) - 1 : Tail(p)[i] = p[i + 1]
  BY <1>1, HeadTailProperties
<1>3. p[1] \in S
  <2>1. 1 \in 1 .. Len(p)
    BY <1>1
  <2> QED BY <1>1, <2>1, ElementOfSeq
<1>4. DOMAIN Tail(p) = 1 .. Len(p) - 1
  BY <1>2, LenProperties
<1>5. Tail(p) = <<>> <=> Len(p) = 1
  <2>1. Tail(p) = <<>> <=> Len(Tail(p)) = 0
    BY <1>2, EmptySeq
  <2> QED BY <1>1, <1>2, <2>1
<1> QED BY <1>1, <1>2, <1>3, <1>4, <1>5 DEF S

(* One event of the key is read; when it is down the key is not awaited.   *)
LEMMA KeyRead ==
  ASSUME KeysAlternate, powerKeys # <<>>, powerKeys' = Tail(powerKeys), held' = held
  PROVE  /\ KeysAlternate'
         /\ powerKeys[1] = "down" =>
              /\ IF powerKeys' = <<>> THEN held' ELSE powerKeys'[1] = "up"
              /\ ReleaseComes => ReleaseComes'
<1> DEFINE p == powerKeys  n == Len(powerKeys)  r == Tail(powerKeys)
<1>1. /\ p \in Seq({"down", "up"})
      /\ \A i \in 1 .. n - 1 : p[i] # p[i + 1]
      /\ p[n] = "down" <=> held
  BY DEF KeysAlternate
<1>2. /\ n \in Nat \ {0} /\ p[1] \in {"down", "up"} /\ DOMAIN p = 1 .. n
      /\ r \in Seq({"down", "up"}) /\ Len(r) = n - 1
      /\ DOMAIN r = 1 .. n - 1
      /\ \A i \in 1 .. n - 1 : r[i] = p[i + 1]
      /\ r = <<>> <=> n = 1
  BY <1>1, KeyTail
<1>3. powerKeys' = r /\ powerKeys = p
  OBVIOUS
<1> HIDE DEF p, n, r
<1>4. \A i \in 1 .. Len(r) - 1 : r[i] # r[i + 1]
  <2> SUFFICES ASSUME NEW i \in 1 .. n - 2 PROVE r[i] # r[i + 1]
    BY <1>2
  <2>1. i \in 1 .. n - 1 /\ i + 1 \in 1 .. n - 1
    BY <1>2
  <2> QED BY <1>1, <1>2, <2>1
<1>5. r # <<>> => (r[Len(r)] = "down" <=> held)
  <2> SUFFICES ASSUME r # <<>> PROVE r[Len(r)] = "down" <=> held
    OBVIOUS
  <2>1. n - 1 \in 1 .. n - 1 /\ n - 1 + 1 = n
    BY <1>2
  <2>2. r[n - 1] = p[n]
    BY <1>2, <2>1
  <2> QED BY <1>1, <1>2, <2>2
<1>6. KeysAlternate'
  BY <1>2, <1>3, <1>4, <1>5 DEF KeysAlternate
<1>7. ASSUME p[1] = "down" PROVE IF r = <<>> THEN held ELSE r[1] = "up"
  <2>1. CASE n = 1
    BY <1>1, <1>2, <1>7, <2>1
  <2>2. CASE n # 1
    <3>1. 1 \in 1 .. n - 1 /\ 1 + 1 \in 1 .. n
      BY <1>2, <2>2
    <3>2. p[1 + 1] \in {"down", "up"} /\ p[1] # p[1 + 1]
      BY <1>1, <1>2, <3>1, ElementOfSeq, n = Len(p) DEF n, p
    <3> QED BY <1>2, <1>7, <2>2, <3>1, <3>2
  <2> QED BY <2>1, <2>2
<1>8. ASSUME p[1] = "down", ReleaseComes PROVE ReleaseComes'
  <2>1. CASE held
    BY <2>1 DEF ReleaseComes
  <2>2. CASE \E i \in DOMAIN p : p[i] = "up"
    <3>1. PICK i \in 1 .. n : p[i] = "up"
      BY <1>2, <2>2
    <3>2. i # 1
      BY <1>8, <3>1
    <3>3. i - 1 \in 1 .. n - 1 /\ i - 1 + 1 = i
      BY <1>2, <3>2
    <3>4. i - 1 \in DOMAIN r /\ r[i - 1] = "up"
      BY <1>2, <3>1, <3>3
    <3> QED BY <1>3, <3>4 DEF ReleaseComes
  <2> QED BY <1>3, <1>8, <2>1, <2>2 DEF ReleaseComes
<1> QED BY <1>3, <1>6, <1>7, <1>8

(* An event of the power key is read. *)
LEMMA GetPowerKeyKeeps == ChargeInv /\ GetPowerKey => ChargeInv'
<1> SUFFICES ASSUME ChargeInv, GetPowerKey PROVE ChargeInv'
  OBVIOUS
<1>1. /\ Plain /\ ListOK(alarms) /\ Stage(Names(alarms) \ {LongPress})
      /\ pc = "loop" /\ power = "on" /\ KeysAlternate /\ KeyEnds
  BY StageIs DEF ChargeInv, GetPowerKey, Polling, At
<1>2. /\ pc' = pc /\ plugged' = plugged /\ voltOk' = voltOk /\ held' = held
      /\ otherKeys' = otherKeys /\ uevent' = uevent
      /\ powerKeys # <<>> /\ powerKeys' = Tail(powerKeys)
  BY DEF GetPowerKey
<1>3. Head(powerKeys) = powerKeys[1]
  BY <1>1, <1>2, KeyTail DEF KeysAlternate
<1>4. /\ KeysAlternate'
      /\ powerKeys[1] = "down" =>
           /\ IF powerKeys' = <<>> THEN held' ELSE powerKeys'[1] = "up"
           /\ ReleaseComes => ReleaseComes'
  BY <1>1, <1>2, KeyRead
<1>5. ListOK(alarms)' <=> ListOK(alarms')
  BY DEF ListOK, InTime, Ordered, Alarms, Delay, Handlers, Animation, Dim, Blank, LongPress
<1>6. Names(alarms)' = Names(alarms')
  BY DEF Names
<1>7. Started'
  BY <1>1, <1>2 DEF Started
<1>8. CASE powerKeys[1] = "down" /\ PowerKeyDown
  <2>1. LongPress \notin Names(alarms)
    BY <1>1, <1>2, <1>8 DEF KeyEnds
  <2>2. /\ shutdown' = shutdown /\ powerup' = powerup /\ quit' = quit
        /\ lit' = lit /\ brightness' = brightness /\ power' = power
        /\ alarms' = AlarmSet(alarms, LongPress) \/ alarms' = alarms
    BY <1>8 DEF PowerKeyDown, flags, display
  <2>3. ListOK(AlarmSet(alarms, LongPress))
        /\ Names(AlarmSet(alarms, LongPress)) = Names(alarms) \cup {LongPress}
    BY <1>1, <2>1, SetOK, FourHandlers
  <2>4. ListOK(alarms') /\ Names(alarms') \ {LongPress} = Names(alarms) \ {LongPress}
    <3>1. CASE alarms' = AlarmSet(alarms, LongPress)
      BY <2>3, <3>1
    <3>2. CASE alarms' = alarms
      BY <1>1, <3>2
    <3> QED BY <2>2, <3>1, <3>2
  <2>5. Plain'
    BY <1>1, <1>2, <2>2 DEF Plain
  <2>6. Stage(Names(alarms) \ {LongPress})'
    <3>1. (Names(alarms) \ {LongPress})' = Names(alarms) \ {LongPress}
      BY <1>6, <2>4 DEF LongPress
    <3> QED BY <1>1, <1>4, <1>8, <2>2, <3>1 DEF Stage, Animation, Dim, Blank, LongPress
  <2>7. DisplayInStage'
    BY <2>6, StageIsNext
  <2>8. KeyEnds'
    BY <1>4, <1>8 DEF KeyEnds
  <2> QED BY <1>4, <1>5, <1>7, <2>4, <2>5, <2>7, <2>8 DEF ChargeInv
<1>9. CASE powerKeys[1] = "up" /\ PowerKeyUp
  <2> DEFINE q == AlarmCancel(alarms, LongPress)
  <2>1. ListOK(q) /\ Names(q) = Names(alarms) \ {LongPress}
    BY <1>1, CancelOK, FourHandlers
  <2>2. /\ WakeupKey(q)
        /\ shutdown' = shutdown /\ powerup' = powerup /\ quit' = quit
    BY <1>9 DEF PowerKeyUp, flags
  <2> HIDE DEF q
  <2>3. /\ ListOK(alarms')
        /\ \/ /\ lit' = TRUE /\ brightness' = 80 /\ power' = power
              /\ Names(alarms') = (Names(q) \ {Blank}) \cup {Animation, Dim}
           \/ /\ brightness' = 0 /\ Names(alarms') = Names(q) \ {Blank, Dim, Animation}
              /\ (power' = "off" /\ lit' = lit) \/ (power' = power /\ lit' = FALSE)
    BY <2>1, <2>2, WakesUp
  <2>4. LongPress \notin Names(alarms')
    BY <2>1, <2>3, FourHandlers
  <2>5. KeyEnds'
    <3>1. LongPress \notin Names(alarms)'
      BY <1>6, <2>4
    <3> QED BY <3>1 DEF KeyEnds, LongPress
  <2>6. CASE /\ lit' = TRUE /\ brightness' = 80 /\ power' = power
             /\ Names(alarms') = (Names(q) \ {Blank}) \cup {Animation, Dim}
    <3>1. Plain'
      BY <1>1, <1>2, <2>2, <2>6 DEF Plain
    <3>2. Names(alarms') \ {LongPress} = {Animation, Dim}
      BY <1>1, <2>1, <2>6, NamesAre, FourHandlers
    <3>3. Stage(Names(alarms) \ {LongPress})'
      <4>1. (Names(alarms) \ {LongPress})' = {Animation, Dim}
        BY <1>6, <3>2 DEF LongPress
      <4> QED BY <2>6, <4>1 DEF Stage, Animation, Dim, Blank, LongPress
    <3>4. DisplayInStage'
      BY <3>3, StageIsNext
    <3> QED BY <1>4, <1>5, <1>7, <2>3, <2>5, <3>1, <3>4 DEF ChargeInv
  <2>7. CASE /\ brightness' = 0 /\ Names(alarms') = Names(q) \ {Blank, Dim, Animation}
             /\ (power' = "off" /\ lit' = lit) \/ (power' = power /\ lit' = FALSE)
    <3>1. Plain'
      <4>1. lit' \in BOOLEAN /\ power' \in {"on", "off", "restarted"}
        BY <1>1, <2>7 DEF Plain
      <4>2. shutdown' \in BOOLEAN /\ powerup' \in BOOLEAN /\ quit' \in BOOLEAN
        BY <1>1, <2>2 DEF Plain
      <4> QED BY <1>1, <1>2, <2>7, <4>1, <4>2 DEF Plain
    <3>2. Names(alarms') \ {LongPress} = {}
      BY <1>1, <2>1, <2>7, NamesAre, FourHandlers
    <3>3. DisplayInStage'
      <4>1. CASE power' = "off"
        BY <4>1, StageIsNext
      <4>2. CASE lit' = FALSE
        <5>1. Names(alarms)' \ {LongPress} = {}
          BY <1>6, <3>2
        <5>2. Stage(Names(alarms) \ {LongPress})'
          BY <2>7, <4>2, <5>1 DEF Stage, LongPress
        <5> QED BY <5>2, StageIsNext
      <4> QED BY <2>7, <4>1, <4>2
    <3> QED BY <1>4, <1>5, <1>7, <2>3, <2>5, <3>1, <3>3 DEF ChargeInv
  <2> QED BY <2>3, <2>6, <2>7
<1> QED BY <1>3, <1>8, <1>9 DEF GetPowerKey

(* Any other key starts the cycle. *)
LEMMA GetOtherKeyKeeps == ChargeInv /\ GetOtherKey => ChargeInv'
<1> SUFFICES ASSUME ChargeInv, GetOtherKey PROVE ChargeInv'
  OBVIOUS
<1> DEFINE a == AlarmCancel(alarms, Blank)  b == AlarmCancel(a, Dim)  c == AlarmCancel(b, Animation)
<1>1. Plain /\ ListOK(alarms) /\ pc = "loop" /\ power = "on"
  BY DEF ChargeInv, GetOtherKey, Polling, At
<1>2. /\ pc' = pc /\ plugged' = plugged /\ voltOk' = voltOk /\ held' = held
      /\ powerKeys' = powerKeys /\ uevent' = uevent
      /\ shutdown' = shutdown /\ powerup' = powerup /\ quit' = quit /\ power' = power
      /\ StartDisplay(c)
  BY DEF GetOtherKey, WakeupKey2, flags
<1>3. otherKeys' \in 0 .. MaxKeys
  <2>1. PICK k \in Int : k = otherKeys /\ k \in 0 .. MaxKeys
    BY <1>1 DEF Plain
  <2>2. k > 0 /\ otherKeys' = k - 1
    BY <2>1 DEF GetOtherKey
  <2> QED BY <2>1, <2>2, TicksAssumption
<1>4. ListOK(a) /\ Names(a) = Names(alarms) \ {Blank}
  BY <1>1, CancelOK, FourHandlers
<1> HIDE DEF a
<1>5. ListOK(b) /\ Names(b) = Names(a) \ {Dim}
  BY <1>4, CancelOK, FourHandlers
<1> HIDE DEF b
<1>6. ListOK(c) /\ Names(c) = Names(b) \ {Animation}
  BY <1>5, CancelOK, FourHandlers
<1> HIDE DEF c
<1>7. /\ lit' = TRUE /\ brightness' = 80
      /\ ListOK(alarms') /\ Names(alarms') = Names(c) \cup {Animation, Dim}
  <2>1. Animation \notin Names(c) /\ Dim \notin Names(c)
    BY <1>5, <1>6
  <2> QED BY <1>2, <1>6, <2>1, StartsDisplay
<1>8. Plain'
  BY <1>1, <1>2, <1>3, <1>7 DEF Plain
<1>9. Names(alarms') \ {LongPress} = {Animation, Dim}
  BY <1>1, <1>4, <1>5, <1>6, <1>7, NamesAre, FourHandlers
<1>10. Stage(Names(alarms) \ {LongPress})'
  <2>1. (Names(alarms) \ {LongPress})' = {Animation, Dim}
    BY <1>9 DEF Names, LongPress
  <2> QED BY <1>7, <2>1 DEF Stage, Animation, Dim, Blank, LongPress
<1>11. DisplayInStage'
  BY <1>10, StageIsNext
<1>12. LongPress \in Names(alarms') => LongPress \in Names(alarms)
  BY <1>4, <1>5, <1>6, <1>7, FourHandlers
<1>13. pc' # "start"
  BY <1>1, <1>2
<1> QED BY <1>2, <1>7, <1>8, <1>11, <1>12, <1>13, Settles

(* What does not touch the list, the display or the power key. *)
LEMMA AsBefore ==
  ASSUME ChargeInv, Plain', UNCHANGED <<pc, alarms, lit, brightness, power, held, powerKeys>>
  PROVE  ChargeInv'
<1>1. ListOK(alarms) /\ DisplayInStage /\ Started
  BY DEF ChargeInv
<1>2. DisplayInStage'
  BY <1>1 DEF DisplayInStage, DisplayAlarms, ReleaseComes
<1>3. pc' = "start" => Names(alarms') = {}
  BY <1>1 DEF Started
<1> QED BY <1>1, <1>2, <1>3, Settles

(* An uevent is read. *)
LEMMA GetUeventKeeps == ChargeInv /\ GetUevent => ChargeInv'
<1> SUFFICES ASSUME ChargeInv, GetUevent PROVE ChargeInv'
  OBVIOUS
<1>1. Plain /\ ListOK(alarms) /\ pc = "loop" /\ power = "on"
  BY DEF ChargeInv, GetUevent, Polling, At
<1>2. /\ pc' = pc /\ plugged' = plugged /\ voltOk' = voltOk /\ held' = held
      /\ powerKeys' = powerKeys /\ otherKeys' = otherKeys /\ uevent' = "none"
  BY DEF GetUevent, keys
<1>3. CASE PowerEvent(alarms)
  BY <1>1, <1>2, <1>3, PowerEventFits
<1>4. CASE UNCHANGED <<alarms, flags, display, power>>
  <2>1. Plain'
    BY <1>1, <1>2, <1>4 DEF Plain, flags, display
  <2> QED BY <1>2, <1>4, <2>1, AsBefore DEF display
<1> QED BY <1>3, <1>4 DEF GetUevent

(* The user presses the power key, which was up, so that a release is the  *)
(* last event that waits.                                                  *)
LEMMA PressPowerKeeps == ChargeInv /\ PressPower => ChargeInv'
<1> SUFFICES ASSUME ChargeInv, PressPower PROVE ChargeInv'
  OBVIOUS
<1> DEFINE p == powerKeys  n == Len(powerKeys)  r == Append(powerKeys, "down")  S == {"down", "up"}
<1>1. /\ Plain /\ ListOK(alarms) /\ DisplayInStage /\ KeysAlternate /\ KeyEnds /\ Started
      /\ ~held /\ held' = TRUE /\ powerKeys' = r
      /\ pc' = pc /\ alarms' = alarms /\ shutdown' = shutdown /\ powerup' = powerup
      /\ quit' = quit /\ lit' = lit /\ brightness' = brightness /\ power' = power
      /\ plugged' = plugged /\ voltOk' = voltOk /\ otherKeys' = otherKeys /\ uevent' = uevent
  BY DEF ChargeInv, PressPower, flags, display
<1>2. /\ p \in Seq(S) /\ n \in Nat
      /\ \A i \in 1 .. n - 1 : p[i] # p[i + 1]
      /\ p # <<>> => (p[n] = "down" <=> held)
  BY <1>1, LenProperties DEF KeysAlternate
<1>3. /\ r \in Seq(S) /\ Len(r) = n + 1 /\ (\A i \in 1 .. n : r[i] = p[i]) /\ r[n + 1] = "down"
  BY <1>2, AppendProperties
<1>4. r # <<>> /\ (p = <<>> <=> n = 0)
  BY <1>2, <1>3, EmptySeq
<1> HIDE DEF r, n, p, S
<1>5. ASSUME NEW i \in 1 .. n PROVE r[i] # r[i + 1]
  <2>1. CASE i = n
    <3>1. p[n] # "down"
      BY <1>1, <1>2, <1>4, <2>1
    <3> QED BY <1>3, <2>1, <3>1
  <2>2. CASE i # n
    <3>1. i \in 1 .. n - 1 /\ i + 1 \in 1 .. n
      BY <1>2, <2>2
    <3> QED BY <1>2, <1>3, <3>1
  <2> QED BY <2>1, <2>2
<1>6. KeysAlternate'
  <2>1. Len(r) - 1 = n
    BY <1>2, <1>3
  <2> QED BY <1>1, <1>3, <1>5, <2>1 DEF KeysAlternate, S
<1>7. KeyEnds'
  <2> SUFFICES ASSUME LongPress \in Names(alarms)
               PROVE  r[1] = "up"
    BY <1>1, <1>4 DEF KeyEnds, LongPress, Names
  <2>1. p # <<>> /\ p[1] = "up"
    BY <1>1 DEF KeyEnds, p
  <2>2. 1 \in 1 .. n
    BY <1>2, <1>4, <2>1
  <2> QED BY <1>3, <2>1, <2>2
<1>8. DisplayInStage'
  <2>1. ReleaseComes'
    BY <1>1 DEF ReleaseComes
  <2> QED BY <1>1, <2>1 DEF DisplayInStage, DisplayAlarms
<1>9. Plain'
  BY <1>1 DEF Plain
<1> QED BY <1>1, <1>6, <1>7, <1>8, <1>9
        DEF ChargeInv, Started, ListOK, InTime, Ordered, Names, Alarms, Delay, Handlers, Animation, Dim, Blank, LongPress

(* He releases it, and the release waits to be read. *)
LEMMA ReleasePowerKeeps == ChargeInv /\ ReleasePower => ChargeInv'
<1> SUFFICES ASSUME ChargeInv, ReleasePower PROVE ChargeInv'
  OBVIOUS
<1> DEFINE p == powerKeys  n == Len(powerKeys)  r == Append(powerKeys, "up")  S == {"down", "up"}
<1>1. /\ Plain /\ ListOK(alarms) /\ DisplayInStage /\ KeysAlternate /\ KeyEnds /\ Started
      /\ held /\ held' = FALSE /\ powerKeys' = r
      /\ pc' = pc /\ alarms' = alarms /\ shutdown' = shutdown /\ powerup' = powerup
      /\ quit' = quit /\ lit' = lit /\ brightness' = brightness /\ power' = power
      /\ plugged' = plugged /\ voltOk' = voltOk /\ otherKeys' = otherKeys /\ uevent' = uevent
  BY DEF ChargeInv, ReleasePower, flags, display
<1>2. /\ p \in Seq(S) /\ n \in Nat
      /\ \A i \in 1 .. n - 1 : p[i] # p[i + 1]
      /\ p # <<>> => (p[n] = "down" <=> held)
  BY <1>1, LenProperties DEF KeysAlternate
<1>3. /\ r \in Seq(S) /\ Len(r) = n + 1 /\ (\A i \in 1 .. n : r[i] = p[i]) /\ r[n + 1] = "up"
  BY <1>2, AppendProperties
<1>4. r # <<>> /\ (p = <<>> <=> n = 0) /\ n + 1 \in DOMAIN r
  BY <1>2, <1>3, EmptySeq, LenProperties
<1> HIDE DEF r, n, p, S
<1>5. ASSUME NEW i \in 1 .. n PROVE r[i] # r[i + 1]
  <2>1. CASE i = n
    <3>1. p[n] = "down"
      BY <1>1, <1>2, <1>4, <2>1
    <3> QED BY <1>3, <2>1, <3>1
  <2>2. CASE i # n
    <3>1. i \in 1 .. n - 1 /\ i + 1 \in 1 .. n
      BY <1>2, <2>2
    <3> QED BY <1>2, <1>3, <3>1
  <2> QED BY <2>1, <2>2
<1>6. KeysAlternate'
  <2>1. Len(r) - 1 = n
    BY <1>2, <1>3
  <2> QED BY <1>1, <1>3, <1>5, <2>1 DEF KeysAlternate, S
<1>7. KeyEnds'
  <2> SUFFICES ASSUME LongPress \in Names(alarms)
               PROVE  r[1] = "up"
    BY <1>1, <1>4 DEF KeyEnds, LongPress, Names
  <2>1. CASE n = 0
    BY <1>3, <2>1
  <2>2. CASE n # 0
    <3>1. p[1] = "up"
      BY <1>1, <1>4, <2>2 DEF KeyEnds, p
    <3>2. 1 \in 1 .. n
      BY <1>2, <2>2
    <3> QED BY <1>3, <3>1, <3>2
  <2> QED BY <2>1, <2>2
<1>8. DisplayInStage'
  <2>1. ReleaseComes'
    BY <1>1, <1>3, <1>4 DEF ReleaseComes
  <2> QED BY <1>1, <2>1 DEF DisplayInStage, DisplayAlarms
<1>9. Plain'
  <2>1. held' \in BOOLEAN
    BY <1>1
  <2> QED BY <1>1, <2>1 DEF Plain
<1> QED BY <1>1, <1>6, <1>7, <1>8, <1>9
        DEF ChargeInv, Started, ListOK, InTime, Ordered, Names, Alarms, Delay, Handlers, Animation, Dim, Blank, LongPress

(* What else happens outside the program. *)
LEMMA OutsideKeepsCharge ==
  ChargeInv /\ (PressOther \/ Charger \/ Battery \/ OtherUevent) => ChargeInv'
<1> SUFFICES ASSUME ChargeInv, PressOther \/ Charger \/ Battery \/ OtherUevent PROVE ChargeInv'
  OBVIOUS
<1>1. Plain
  BY DEF ChargeInv
<1>2. /\ pc' = pc /\ alarms' = alarms /\ shutdown' = shutdown /\ powerup' = powerup
      /\ quit' = quit /\ lit' = lit /\ brightness' = brightness /\ power' = power
      /\ held' = held /\ powerKeys' = powerKeys
  BY DEF PressOther, Charger, Battery, OtherUevent, flags, display, keys
<1>3. /\ plugged' \in BOOLEAN /\ voltOk' \in BOOLEAN
      /\ uevent' \in {"none", "cpcap_battery", "other"}
  BY <1>1 DEF Plain, PressOther, Charger, Battery, OtherUevent, keys
<1>4. otherKeys' \in 0 .. MaxKeys
  <2>1. CASE otherKeys' = otherKeys
    BY <1>1, <2>1 DEF Plain
  <2>2. CASE PressOther
    <3>1. PICK k \in Int : k = otherKeys /\ k \in 0 .. MaxKeys
      BY <1>1 DEF Plain
    <3>2. k < MaxKeys /\ otherKeys' = k + 1
      BY <2>2, <3>1 DEF PressOther
    <3> QED BY <3>1, <3>2, TicksAssumption
  <2> QED BY <2>1, <2>2 DEF Charger, Battery, OtherUevent, keys
<1>5. Plain'
  BY <1>1, <1>2, <1>3, <1>4 DEF Plain
<1> QED BY <1>2, <1>5, AsBefore

(* Time passes. *)
LEMMA TickKeeps == ChargeInv /\ Tick => ChargeInv'
<1> SUFFICES ASSUME ChargeInv, Tick PROVE ChargeInv'
  OBVIOUS
<1>1. Plain /\ ListOK(alarms) /\ DisplayInStage /\ Started
  BY DEF ChargeInv
<1>2. /\ pc' = pc /\ shutdown' = shutdown /\ powerup' = powerup /\ quit' = quit
      /\ lit' = lit /\ brightness' = brightness /\ power' = power
      /\ held' = held /\ powerKeys' = powerKeys /\ otherKeys' = otherKeys
      /\ plugged' = plugged /\ voltOk' = voltOk /\ uevent' = uevent
  BY DEF Tick, flags, display, keys
<1>3. alarms' = Ticked(alarms)
  BY DEF Tick, Ticked
<1>4. ListOK(alarms') /\ Names(alarms') = Names(alarms)
  BY <1>1, <1>3, TickOK
<1>5. Plain'
  BY <1>1, <1>2 DEF Plain
<1>6. DisplayInStage'
  <2>1. Names(alarms)' = Names(alarms)
    BY <1>4 DEF Names
  <2>2. DisplayAlarms' = DisplayAlarms
    BY <2>1 DEF DisplayAlarms, Names, LongPress
  <2> QED BY <1>1, <1>2, <2>2 DEF DisplayInStage, ReleaseComes
<1>7. pc' = "start" => Names(alarms') = {}
  BY <1>1, <1>2, <1>4 DEF Started
<1> QED BY <1>2, <1>4, <1>5, <1>6, <1>7, Settles

-----------------------------------------------------------------------------
(* The invariant holds from the start and every step keeps it. *)
LEMMA ChargeInvHolds == Spec => []ChargeInv
<1>1. Init => ChargeInv
  <2> SUFFICES ASSUME Init PROVE ChargeInv
    OBVIOUS
  <2>1. ListOK(alarms) /\ Names(alarms) = {}
    BY EmptyOK DEF Init
  <2>2. Plain
    <3>1. otherKeys \in 0 .. MaxKeys
      BY TicksAssumption DEF Init
    <3>2. /\ shutdown \in BOOLEAN /\ powerup \in BOOLEAN /\ quit \in BOOLEAN /\ lit \in BOOLEAN
          /\ plugged \in BOOLEAN /\ voltOk \in BOOLEAN /\ held \in BOOLEAN
      BY DEF Init
    <3>3. /\ pc \in {"start", "loop", "process", "exit"}
          /\ brightness \in {0, 40, 80, 100}
          /\ power \in {"on", "off", "restarted"}
          /\ uevent \in {"none", "cpcap_battery", "other"}
      BY DEF Init
    <3> QED BY <3>1, <3>2, <3>3 DEF Plain
  <2>3. KeysAlternate
    BY EmptySeq DEF Init, KeysAlternate
  <2> QED BY <2>1, <2>2, <2>3 DEF Init, ChargeInv, DisplayInStage, KeyEnds, Started
<1>2. ChargeInv /\ [Next]_vars => ChargeInv'
  <2> SUFFICES ASSUME ChargeInv, [Next]_vars PROVE ChargeInv'
    OBVIOUS
  <2>1. CASE Startup
    BY <2>1, StartupKeeps
  <2>2. CASE Exit \/ CallAlarmProcess \/ AlarmsDone
    BY <2>2, MainKeeps
  <2>3. CASE RunAlarm
    BY <2>3, RunAlarmKeeps
  <2>4. CASE GetPowerKey
    BY <2>4, GetPowerKeyKeeps
  <2>5. CASE GetOtherKey
    BY <2>5, GetOtherKeyKeeps
  <2>6. CASE GetUevent
    BY <2>6, GetUeventKeeps
  <2>7. CASE PressPower
    BY <2>7, PressPowerKeeps
  <2>8. CASE ReleasePower
    BY <2>8, ReleasePowerKeeps
  <2>9. CASE PressOther \/ Charger \/ Battery \/ OtherUevent
    BY <2>9, OutsideKeepsCharge
  <2>10. CASE Tick
    BY <2>10, TickKeeps
  <2>11. CASE UNCHANGED vars
    <3>1. Plain'
      BY <2>11 DEF ChargeInv, Plain, vars, flags, display, keys
    <3> QED BY <2>11, <3>1, AsBefore DEF vars, flags, display, keys
  <2> QED BY <2>1, <2>2, <2>3, <2>4, <2>5, <2>6, <2>7, <2>8, <2>9, <2>10, <2>11
          DEF Next, Main, Outside, Press
<1> QED BY <1>1, <1>2, PTL DEF Spec

(* The alarms are in order, each handler once, and they are those of the   *)
(* stage the display is in, whatever alarms one call of alarm_process runs *)
(* and cancels, with keys and looks at the charger between (alarm.c,       *)
(* main.c: screen_brightness_animation_*, power_event).                    *)
THEOREM AlarmsAndDisplay == Spec => []AlarmsFitDisplay
<1>1. Spec => []ChargeInv
  BY ChargeInvHolds
<1>2. ChargeInv => AlarmsFitDisplay
  BY ChargeInvFits
<1> QED BY <1>1, <1>2, PTL

(* The reboot of a long press is set only while the key is down or its     *)
(* release waits to be read (main.c: power_key_alarm, ev_get's order of    *)
(* the key's events).                                                      *)
THEOREM LongPressHeld == Spec => []LongPressIsHeld
<1>1. Spec => []ChargeInv
  BY ChargeInvHolds
<1>2. ChargeInv => LongPressIsHeld
  BY ChargeInvHeld
<1> QED BY <1>1, <1>2, PTL
=============================================================================
