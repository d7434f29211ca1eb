------------------------------ MODULE NwSwitch ------------------------------
(***************************************************************************)
(* packages/apps/GlobalNwSwitcher: a service in the phone's process that   *)
(* moves the phone between GSM and CDMA as its SIM card comes and goes.    *)
(* All its code runs on the process's main thread, so a handler is one     *)
(* step.  The phone, its modem, the settings' database and the senders of  *)
(* broadcasts are modelled as this code uses them.                         *)
(*                                                                         *)
(* Modes: "gsm" stands for the four UMTS and GSM modes, "evdo" for CDMA    *)
(* with or without EVDO only, "other" for those the switch leaves alone.   *)
(***************************************************************************)
EXTENDS Integers, Sequences

CONSTANTS
  MaxEvents,      \* bound: what the user, the card, failures and crashes do
  MaxQueue        \* bound: broadcasts not delivered yet

ASSUME BoundsAssumption == MaxEvents \in Nat /\ MaxQueue \in Nat \ {0}

Gsm   == {"global", "gsm"}
Cdma  == {"cdma", "evdo"}
Modes == Gsm \cup Cdma \cup {"other"}

VARIABLES
  service,        \* "none", "created" or "started"
  mPhone,         \* mPhone is not null
  receiver,       \* mSwitchReceiver is registered
  timer,          \* the message DEFAULT_PHONE_READY_TIME_OUT is on its way
  mInAirplanMode, mPriorSimAbsent, mNewSimAbsent,
  mPriorNwMode, mTargetNwMode, mNwModeChangeType,
  phone,          \* getDefaultPhone: it is "null", "throws", or is "ready"
  cardAbsent,     \* the card's state is ABSENT
  airplane,       \* AIRPLANE_MODE_ON
  setting,        \* PREFERRED_NETWORK_MODE
  absentTag,      \* GLOBAL_PHONE_SIM_ABSENT_TAG
  modem,          \* the mode the modem is in
  requests,       \* modes asked of the modem
  answers,        \* its answers: whether it did as asked
  intents,        \* broadcasts on their way
  events,         \* how many events of MaxEvents there were
  odd             \* ghost: a request failed, or the user chose a mode

memory   == <<mInAirplanMode, mPriorSimAbsent, mNewSimAbsent,
              mPriorNwMode, mTargetNwMode, mNwModeChangeType>>
life     == <<service, mPhone, receiver, timer>>
world    == <<phone, cardAbsent, airplane, modem>>
stored   == <<setting, absentTag>>
traffic  == <<requests, answers, intents>>
switchVars     == <<life, memory, world, stored, traffic, events, odd>>

-----------------------------------------------------------------------------
(* Fresh: the fields of a new service; mode 0 is WCDMA_PREF. *)
Fresh ==
  /\ service = "none" /\ mPhone = FALSE /\ receiver = FALSE /\ timer = FALSE
  /\ mInAirplanMode = FALSE /\ mPriorSimAbsent = FALSE /\ mNewSimAbsent = FALSE
  /\ mPriorNwMode = "gsm" /\ mTargetNwMode = "gsm" /\ mNwModeChangeType = "none"

(* setNonLtePhoneTargetNwMode: the target and whether it is another. *)
TargetMode(absent, prior) ==
  IF absent /\ prior \in Gsm THEN "cdma"
  ELSE IF ~absent /\ prior \in Cdma THEN "global" ELSE prior

ChangeType(absent, prior) ==
  IF absent /\ prior \in Gsm THEN "cdma"
  ELSE IF ~absent /\ prior \in Cdma THEN "global" ELSE mNwModeChangeType

(* A switch is made only when the card's state has changed. *)
MutNeedsSwitch(priorAbsent, absent, prior) == priorAbsent # absent

NeedsSwitch(priorAbsent, absent, prior) ==
  priorAbsent # absent \/ (absent /\ prior \in Gsm)

(* processModeSwitch, given the fields as they are at that point.  The     *)
(* mode that is asked for counts as the prior one at once.                 *)
ProcessModeSwitch(up, inAirplane, priorAbsent, newAbsent, prior, target) ==
  \/ /\ ~up \/ inAirplane
     /\ mPriorSimAbsent' = priorAbsent /\ mNewSimAbsent' = newAbsent
     /\ mPriorNwMode' = prior /\ mTargetNwMode' = target
     /\ UNCHANGED <<mNwModeChangeType, absentTag, requests>>
  \/ /\ up /\ ~inAirplane
     /\ mNewSimAbsent' = cardAbsent
     /\ absentTag' = cardAbsent
     /\ mPriorSimAbsent' = cardAbsent
     /\ \/ /\ NeedsSwitch(priorAbsent, cardAbsent, prior)
           /\ mTargetNwMode' = TargetMode(cardAbsent, prior)
           /\ mPriorNwMode' = mTargetNwMode'
           /\ mNwModeChangeType' = ChangeType(cardAbsent, prior)
           /\ requests' = IF prior # mTargetNwMode' THEN Append(requests, mTargetNwMode')
                                                    ELSE requests
        \/ /\ ~NeedsSwitch(priorAbsent, cardAbsent, prior)
           /\ mPriorNwMode' = prior /\ mTargetNwMode' = target
           /\ UNCHANGED <<mNwModeChangeType, requests>>

(* init: without a phone it comes back after two seconds; when the phone   *)
(* throws, the receiver is registered and the rest given up.  A receiver   *)
(* is sent the last state of the card at once.                             *)
MutWaits == phone = "null" /\ timer' = FALSE /\ UNCHANGED <<mPhone, receiver, intents>>
Waits    == phone = "null" /\ timer' = TRUE  /\ UNCHANGED <<mPhone, receiver, intents>>

Registers ==
  /\ phone # "null"
  /\ timer' = FALSE
  /\ mPhone' = (phone = "ready")
  /\ receiver' = TRUE
  /\ intents' = Append(intents, "sim gsm")

Reads == phone = "ready"

InitPrior(absent) == IF Reads /\ airplane THEN absentTag ELSE absent

-----------------------------------------------------------------------------
(* onCreate *)
Create ==
  /\ service = "none"
  /\ service' = "created"
  /\ Waits \/ Registers
  /\ mInAirplanMode' = (Reads /\ airplane)
  /\ mPriorSimAbsent' = InitPrior(mPriorSimAbsent)
  /\ mNewSimAbsent' = InitPrior(mNewSimAbsent)
  /\ mPriorNwMode' = IF Reads THEN setting ELSE mPriorNwMode
  /\ mTargetNwMode' = IF Reads THEN setting ELSE mTargetNwMode
  /\ UNCHANGED <<mNwModeChangeType, world, stored, requests, answers, events, odd>>

(* onStart, the first time the service is asked for.  A service that is    *)
(* created again after a crash need not be.                                *)
Start ==
  /\ service = "created"
  /\ service' = "started"
  /\ ProcessModeSwitch(mPhone, mInAirplanMode, mPriorSimAbsent, mNewSimAbsent,
                       mPriorNwMode, mTargetNwMode)
  /\ UNCHANGED <<mPhone, receiver, timer, mInAirplanMode, world, setting, answers, intents,
                 events, odd>>

(* DEFAULT_PHONE_READY_TIME_OUT: init and processModeSwitch once more. *)
TimeOut ==
  /\ timer
  /\ Waits \/ Registers
  /\ mInAirplanMode' = IF Reads THEN airplane ELSE mInAirplanMode
  /\ LET mode(m) == IF Reads THEN setting ELSE m IN
     ProcessModeSwitch(Reads, mInAirplanMode', InitPrior(mPriorSimAbsent),
                       InitPrior(mNewSimAbsent), mode(mPriorNwMode), mode(mTargetNwMode))
  /\ UNCHANGED <<service, world, setting, answers, events, odd>>

(* handleNetworkModeSwitch, on an answer: what is stored is the mode last  *)
(* asked for, not the mode of the request that is answered.                *)
HandleResult ==
  /\ answers # <<>>
  /\ answers' = Tail(answers)
  /\ setting' = IF Head(answers) /\ mNwModeChangeType # "none" THEN mTargetNwMode ELSE setting
  /\ UNCHANGED <<life, memory, world, absentTag, requests, intents, events, odd>>

-----------------------------------------------------------------------------
(* NwModeAutoSwitchReceiver *)

Take(name) ==
  /\ receiver /\ intents # <<>> /\ Head(intents) = name
  /\ intents' = Tail(intents)

(* handleAirplaneModeChanged *)
AirplaneOn ==
  /\ Take("airplane on")
  /\ mInAirplanMode' = TRUE
  /\ mPriorSimAbsent' = mNewSimAbsent
  /\ absentTag' = IF mPriorSimAbsent # mNewSimAbsent /\ mPhone THEN mNewSimAbsent ELSE absentTag
  /\ UNCHANGED <<life, mNewSimAbsent, mPriorNwMode, mTargetNwMode, mNwModeChangeType,
                 world, setting, requests, answers, events, odd>>

AirplaneOff ==
  /\ Take("airplane off")
  /\ mInAirplanMode' = FALSE
  /\ ProcessModeSwitch(mPhone, FALSE, mPriorSimAbsent, mNewSimAbsent,
                       mPriorNwMode, mTargetNwMode)
  /\ UNCHANGED <<life, world, setting, answers, events, odd>>

(* handleSimStateChanged of the GSM phone: only remembered, and not even   *)
(* that in airplane mode. *)
SimChanged ==
  /\ Take("sim gsm") /\ (mInAirplanMode \/ mPhone)
  /\ mNewSimAbsent' = IF mInAirplanMode THEN mNewSimAbsent ELSE cardAbsent
  /\ absentTag' = IF mInAirplanMode THEN absentTag ELSE cardAbsent
  /\ UNCHANGED <<life, mInAirplanMode, mPriorSimAbsent, mPriorNwMode, mTargetNwMode,
                 mNwModeChangeType, world, setting, requests, answers, events, odd>>

(* Nothing is left of the process; the system makes the service again, and *)
(* the new phone puts the modem into the mode that is stored.              *)
Gone ==
  /\ service' = "none" /\ mPhone' = FALSE /\ receiver' = FALSE /\ timer' = FALSE
  /\ mInAirplanMode' = FALSE /\ mPriorSimAbsent' = FALSE /\ mNewSimAbsent' = FALSE
  /\ mPriorNwMode' = "gsm" /\ mTargetNwMode' = "gsm" /\ mNwModeChangeType' = "none"
  /\ requests' = <<>> /\ answers' = <<>> /\ intents' = <<>>
  /\ phone' \in {"null", "throws", "ready"} /\ modem' = setting
  /\ odd' = FALSE
  /\ UNCHANGED <<cardAbsent, airplane, stored>>

(* With no phone, the card's state is asked of null. *)
NullPhone ==
  /\ receiver /\ intents # <<>> /\ Head(intents) = "sim gsm"
  /\ ~mInAirplanMode /\ ~mPhone
  /\ events < MaxEvents /\ events' = events + 1
  /\ Gone

-----------------------------------------------------------------------------
(* The world *)

PhoneReady ==
  /\ phone # "ready" /\ phone' = "ready"
  /\ UNCHANGED <<life, memory, cardAbsent, airplane, modem, stored, traffic, events, odd>>

(* A broadcast reaches the receiver if it is registered when it is sent. *)
Send(name) == intents' = IF receiver THEN Append(intents, name) ELSE intents

Event == events < MaxEvents /\ Len(intents) < MaxQueue /\ events' = events + 1

SwitchAirplane ==
  /\ Event
  /\ airplane' = ~airplane
  /\ Send(IF airplane THEN "airplane off" ELSE "airplane on")
  /\ UNCHANGED <<life, memory, phone, cardAbsent, modem, stored, requests, answers, odd>>

MoveCard ==
  /\ Event
  /\ cardAbsent' = ~cardAbsent
  /\ Send("sim gsm")
  /\ UNCHANGED <<life, memory, phone, airplane, modem, stored, requests, answers, odd>>

ModemServes ==
  /\ requests # <<>>
  /\ requests' = Tail(requests)
  /\ \/ modem' = Head(requests) /\ answers' = Append(answers, TRUE)
        /\ UNCHANGED <<events, odd>>
     \/ events < MaxEvents /\ events' = events + 1
        /\ answers' = Append(answers, FALSE) /\ odd' = TRUE /\ UNCHANGED modem
  /\ UNCHANGED <<life, memory, phone, cardAbsent, airplane, stored, intents>>

UserChooses ==
  /\ Event /\ requests = <<>> /\ answers = <<>>
  /\ setting' \in Modes /\ modem' = setting'
  /\ odd' = mPhone
  /\ UNCHANGED <<life, memory, phone, cardAbsent, airplane, absentTag, traffic>>

Crash ==
  /\ Event /\ service # "none"
  /\ Gone

SwitchInit ==
  /\ Fresh
  /\ phone \in {"null", "throws", "ready"}
  /\ cardAbsent \in BOOLEAN /\ airplane \in BOOLEAN /\ absentTag \in BOOLEAN
  /\ setting \in Modes /\ modem = setting
  /\ requests = <<>> /\ answers = <<>> /\ intents = <<>>
  /\ events = 0 /\ odd = FALSE

Service == TimeOut \/ HandleResult \/ AirplaneOn \/ AirplaneOff \/ SimChanged

SwitchNext ==
  \/ Create \/ Start \/ Service \/ NullPhone
  \/ PhoneReady \/ SwitchAirplane \/ MoveCard \/ ModemServes \/ UserChooses \/ Crash

SwitchSpec == SwitchInit /\ [][SwitchNext]_switchVars

(* The main thread runs, its timer comes, the modem answers, and in the    *)
(* end there is a phone.                                                   *)
SwitchFairSpec ==
  /\ SwitchSpec
  /\ WF_switchVars(Create) /\ WF_switchVars(Service)
  /\ WF_switchVars(ModemServes) /\ WF_switchVars(PhoneReady)

-----------------------------------------------------------------------------
(* When all is answered, no request failed and the user left the mode      *)
(* alone, modem, setting and the service agree on the mode, though an      *)
(* answer may belong to a request before the last (204-253, 281-317); and  *)
(* out of airplane mode a phone the service knew without a card is not in  *)
(* a GSM mode.                                                             *)
Settled == mPhone /\ requests = <<>> /\ answers = <<>> /\ ~odd

SettledAgrees ==
  Settled =>
    /\ modem = setting /\ setting = mPriorNwMode
    /\ mPriorSimAbsent /\ ~mInAirplanMode => setting \notin Gsm

(* A service that waits for the phone gets it (152-156), and a phone found *)
(* without a card when airplane mode ends leaves the GSM modes, unless     *)
(* something happens on the way.                                           *)
Waiting == service # "none" /\ ~receiver

Left == mPhone /\ ~mInAirplanMode /\ mPriorSimAbsent /\ mPriorNwMode = "cdma" /\ ~odd

ComesUp ==
  /\ Waiting ~> mPhone \/ service = "none"
  /\ \A n \in 0 .. MaxEvents :
       Left /\ events = n ~> modem \notin Gsm \/ events # n
=============================================================================
