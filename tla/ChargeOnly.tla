----------------------------- MODULE ChargeOnly -----------------------------
(***************************************************************************)
(* Charge only mode, charge_only_mode/: what the phone runs when a charger *)
(* switches it on.  One thread polls keys and uevents and, between two     *)
(* polls, runs the alarms that are due; the alarms drive the cycle of the  *)
(* display, bright, dim, dark, and the long press that boots the phone.    *)
(*                                                                         *)
(* A handler is one step, with every function it calls.  The user, the     *)
(* charger and the clock act between any two, so that a handler may run    *)
(* late, but the clock does not move inside alarm_process, which reads it  *)
(* once.  One tick is half a second.  Drawing and the battery's LED are    *)
(* left out, and so are alarms for which malloc has no memory.             *)
(***************************************************************************)
EXTENDS Integers, Sequences, SequencesExt, FiniteSets, TLC

CONSTANTS
  AnimationTicks,   \* ANIMATION_TIMEOUT
  LongPressTicks,   \* from key down to reboot
  BrightTicks,      \* from bright to dim
  DimTicks,         \* from dim to dark
  MaxKeys           \* bound: key events waiting in an input device

ASSUME TicksAssumption ==
  {AnimationTicks, LongPressTicks, BrightTicks, DimTicks, MaxKeys} \subseteq Nat \ {0}

(* The handlers alarms are set for, each with the one delay it is set with. *)
Animation == "animation_alarm"
Dim       == "screen_brightness_animation_alarm1"
Blank     == "screen_brightness_animation_alarm2"
LongPress == "power_key_alarm"

Handlers == {Animation, Dim, Blank, LongPress}

Delay ==
  [f \in Handlers |-> CASE f = Animation -> AnimationTicks
                        [] f = Dim       -> BrightTicks
                        [] f = Blank     -> DimTicks
                        [] f = LongPress -> LongPressTicks]

VARIABLES
  pc,         \* "start", "loop", "process" for alarm_process, or "exit"
  alarms,     \* the list: what to call and the ticks left
  shutdown, powerup, quit,   \* main.c's flags
  lit,        \* the display is not blanked
  brightness, \* in per cent
  power,      \* the phone: "on", "off" or "restarted"
  plugged,    \* a charger, AC or USB, is online
  voltOk,     \* the battery's voltage is at least POWERUP_VOLTAGE
  held,       \* the power key is down
  powerKeys,  \* events of the power key not read yet
  otherKeys,  \* number of other keys' presses not read yet
  uevent      \* the last uevent not read yet, or "none"

flags   == <<shutdown, powerup, quit>>
display == <<lit, brightness>>
keys    == <<held, powerKeys, otherKeys>>
vars    == <<pc, alarms, flags, display, power, plugged, voltOk, keys, uevent>>

-----------------------------------------------------------------------------
(* alarm.c *)

Alarms == [f : Handlers, left : Nat]

(* alarm_set_relative puts an alarm before the first that is later.  This  *)
(* and the next are functions of the list for TLC to evaluate it once.     *)
AlarmSet(q, f) ==
  LET insert[s \in Seq(Alarms)] ==
        InsertAt(s, Min({i \in DOMAIN s : s[i].left > Delay[f]} \cup {Len(s) + 1}),
                 [f |-> f, left |-> Delay[f]])
  IN insert[q]

(* What is kept of the first i alarms when those of a handler are taken out. *)
Kept(q, f) ==
  LET kept[i \in 0 .. Len(q)] ==
        IF i = 0 THEN <<>> ELSE IF q[i].f = f THEN kept[i - 1] ELSE Append(kept[i - 1], q[i])
  IN kept

(* alarm_cancel goes through the list and takes out all alarms of a handler. *)
AlarmCancel(q, f) ==
  LET cancel[s \in Seq(Alarms)] == Kept(s, f)[Len(s)] IN cancel[q]

Pending(q, f) == {i \in DOMAIN q : q[i].f = f}

(* alarm_get_time_until_next() < 1 *)
Due == alarms # <<>> /\ Head(alarms).left = 0

-----------------------------------------------------------------------------
(* main.c: functions the handlers call, given the alarms at that point.    *)

(* screen_brightness_animation_alarm2; off says whether to shut down.      *)
(* Should reboot fail, the display is blanked and the program goes on.     *)
BlankDisplay(q, off) ==
  /\ brightness' = 0
  /\ alarms' = AlarmCancel(q, Animation)
  /\ \/ off /\ power' = "off" /\ UNCHANGED lit
     \/ lit' = FALSE /\ UNCHANGED power

(* The animation is not started. *)
MutStartDisplay(q) ==
  lit' = TRUE /\ brightness' = 80 /\ alarms' = AlarmSet(q, Dim)

(* screen_brightness_animation_start *)
StartDisplay(q) ==
  /\ lit' = TRUE
  /\ brightness' = 80
  /\ alarms' = AlarmSet(AlarmSet(q, Dim), Animation)

(* power_event looks at battery and charger; the first time no charger is  *)
(* there the phone shuts down.                                             *)
PowerEvent(q) ==
  /\ powerup' = (powerup \/ voltOk)
  /\ UNCHANGED quit
  /\ \/ /\ ~shutdown /\ ~plugged
        /\ shutdown' = TRUE
        /\ BlankDisplay(AlarmCancel(AlarmCancel(q, Blank), Dim), TRUE)
     \/ /\ shutdown \/ plugged
        /\ alarms' = q
        /\ UNCHANGED <<shutdown, display, power>>

-----------------------------------------------------------------------------
(* The handlers of alarms, given the list without the alarm. *)

(* The other order: the next alarm is set after a look that may shut down. *)
MutAnimationAlarm(q) ==
  \/ /\ plugged \/ shutdown
     /\ PowerEvent(AlarmSet(q, Animation))
  \/ /\ ~plugged /\ ~shutdown
     /\ shutdown' = TRUE
     /\ powerup' = (powerup \/ voltOk) /\ UNCHANGED quit
     /\ brightness' = 0 /\ lit' = FALSE /\ UNCHANGED power
     /\ alarms' = AlarmSet(AlarmCancel(AlarmCancel(q, Blank), Dim), Animation)

(* animation_alarm sets itself again before it looks at the battery. *)
AnimationAlarm(q) == PowerEvent(AlarmSet(q, Animation))

(* The display is dim for longer than it is to be. *)
MutDimDelay(q) ==
  /\ brightness' = 40
  /\ alarms' = Append(q, [f |-> Blank, left |-> DimTicks + BrightTicks])
  /\ UNCHANGED <<flags, lit, power>>

(* Nothing ends the dim display. *)
MutDimAlarm(q) == brightness' = 40 /\ alarms' = q /\ UNCHANGED <<flags, lit, power>>

(* screen_brightness_animation_alarm1 *)
DimAlarm(q) ==
  /\ brightness' = 40
  /\ alarms' = AlarmSet(q, Blank)
  /\ UNCHANGED <<flags, lit, power>>

BlankAlarm(q) == BlankDisplay(q, shutdown) /\ UNCHANGED flags

(* power_key_alarm: the phone restarts, or __reboot fails, or it returns   *)
(* and the program is to end.                                              *)
LongPressAlarm(q) ==
  /\ alarms' = AlarmCancel(AlarmCancel(AlarmCancel(q, Blank), Dim), Animation)
  /\ \/ power' = "restarted" /\ UNCHANGED quit
     \/ UNCHANGED <<power, quit>>
     \/ quit' = TRUE /\ UNCHANGED power
  /\ UNCHANGED <<shutdown, powerup, display>>

-----------------------------------------------------------------------------
(* Keys *)

PowerKeyDown ==
  /\ alarms' = IF powerup THEN AlarmSet(alarms, LongPress) ELSE alarms
  /\ UNCHANGED <<flags, display, power>>

(* The animation's alarm is left in the list. *)
MutWakeupKey(q) ==
  LET r == AlarmCancel(q, Blank) IN
  \/ /\ Pending(r, Dim) # {}
     /\ BlankDisplay(AlarmCancel(r, Dim), shutdown)
  \/ /\ Pending(r, Dim) = {}
     /\ StartDisplay(r)
     /\ UNCHANGED power

(* update_screen_on_wakeup_key: from bright to dark, else to bright *)
WakeupKey(q) ==
  LET r == AlarmCancel(AlarmCancel(q, Blank), Animation) IN
  \/ /\ Pending(r, Dim) # {}
     /\ BlankDisplay(AlarmCancel(r, Dim), shutdown)
  \/ /\ Pending(r, Dim) = {}
     /\ StartDisplay(r)
     /\ UNCHANGED power

(* The release does not cancel the reboot. *)
MutPowerKeyUp == WakeupKey(alarms) /\ UNCHANGED flags

PowerKeyUp == WakeupKey(AlarmCancel(alarms, LongPress)) /\ UNCHANGED flags

(* update_screen_on_wakeup_key2 *)
WakeupKey2 ==
  /\ StartDisplay(AlarmCancel(AlarmCancel(AlarmCancel(alarms, Blank), Dim), Animation))
  /\ UNCHANGED <<flags, power>>

-----------------------------------------------------------------------------
(* main *)

At(p)   == power = "on" /\ pc = p
Running == power = "on" /\ pc # "exit"

(* What comes before the loop.  The devices are open already, so nothing   *)
(* that happens during sleep(3) is lost.                                   *)
Startup ==
  /\ At("start")
  /\ powerup' = voltOk
  /\ shutdown' = ~plugged
  /\ \/ ~plugged /\ power' = "off" /\ UNCHANGED <<pc, alarms, display>>
     \/ pc' = "loop" /\ StartDisplay(alarms) /\ UNCHANGED power
  /\ UNCHANGED <<quit, plugged, voltOk, keys, uevent>>

Exit ==
  /\ At("loop") /\ quit
  /\ pc' = "exit"
  /\ brightness' = 100      \* led_uninit
  /\ UNCHANGED <<alarms, flags, lit, power, plugged, voltOk, keys, uevent>>

CallAlarmProcess ==
  /\ At("loop") /\ ~quit /\ Due
  /\ pc' = "process"
  /\ UNCHANGED <<alarms, flags, display, power, plugged, voltOk, keys, uevent>>

(* One turn of the loop in alarm_process: the alarm leaves the list before *)
(* its handler runs.                                                       *)
RunAlarm ==
  /\ At("process") /\ Due
  /\ LET f == Head(alarms).f  q == Tail(alarms) IN
       \/ f = Animation /\ AnimationAlarm(q)
       \/ f = Dim       /\ DimAlarm(q)
       \/ f = Blank     /\ BlankAlarm(q)
       \/ f = LongPress /\ LongPressAlarm(q)
  /\ UNCHANGED <<pc, plugged, voltOk, keys, uevent>>

AlarmsDone ==
  /\ At("process") /\ ~Due
  /\ pc' = "loop"
  /\ UNCHANGED <<alarms, flags, display, power, plugged, voltOk, keys, uevent>>

(* ev_get reads one event of the first device that has any.  The order of  *)
(* the input devices is not known; the uevent socket is behind them all.   *)
Polling == At("loop") /\ ~quit /\ ~Due

GetPowerKey ==
  /\ Polling /\ powerKeys # <<>>
  /\ powerKeys' = Tail(powerKeys)
  /\ \/ Head(powerKeys) = "down" /\ PowerKeyDown
     \/ Head(powerKeys) = "up" /\ PowerKeyUp
  /\ UNCHANGED <<pc, plugged, voltOk, held, otherKeys, uevent>>

GetOtherKey ==
  /\ Polling /\ otherKeys > 0
  /\ otherKeys' = otherKeys - 1
  /\ WakeupKey2
  /\ UNCHANGED <<pc, plugged, voltOk, held, powerKeys, uevent>>

(* All uevents are read and only the last is looked at. *)
GetUevent ==
  /\ Polling /\ powerKeys = <<>> /\ otherKeys = 0 /\ uevent # "none"
  /\ uevent' = "none"
  /\ \/ uevent = "cpcap_battery" /\ PowerEvent(alarms)
     \/ uevent = "other" /\ UNCHANGED <<alarms, flags, display, power>>
  /\ UNCHANGED <<pc, plugged, voltOk, keys>>

Main == Startup \/ Exit \/ CallAlarmProcess \/ RunAlarm \/ AlarmsDone
          \/ GetPowerKey \/ GetOtherKey \/ GetUevent

-----------------------------------------------------------------------------
(* The user, the kernel and the clock. *)

PressPower ==
  /\ Running /\ ~held /\ Len(powerKeys) < MaxKeys
  /\ held' = TRUE
  /\ powerKeys' = Append(powerKeys, "down")
  /\ UNCHANGED <<pc, alarms, flags, display, power, plugged, voltOk, otherKeys, uevent>>

ReleasePower ==
  /\ Running /\ held
  /\ held' = FALSE
  /\ powerKeys' = Append(powerKeys, "up")
  /\ UNCHANGED <<pc, alarms, flags, display, power, plugged, voltOk, otherKeys, uevent>>

PressOther ==
  /\ Running /\ otherKeys < MaxKeys
  /\ otherKeys' = otherKeys + 1
  /\ UNCHANGED <<pc, alarms, flags, display, power, plugged, voltOk, held, powerKeys, uevent>>

Press == PressPower \/ PressOther

(* Each change of charger or battery is announced. *)
Charger ==
  /\ Running
  /\ plugged' = ~plugged
  /\ uevent' = "cpcap_battery"
  /\ UNCHANGED <<pc, alarms, flags, display, power, voltOk, keys>>

Battery ==
  /\ Running
  /\ voltOk' = ~voltOk
  /\ uevent' = "cpcap_battery"
  /\ UNCHANGED <<pc, alarms, flags, display, power, plugged, keys>>

OtherUevent ==
  /\ Running
  /\ uevent' = "other"
  /\ UNCHANGED <<pc, alarms, flags, display, power, plugged, voltOk, keys>>

Tick ==
  /\ Running /\ pc # "process"
  /\ alarms' = [i \in DOMAIN alarms |->
                  [alarms[i] EXCEPT !.left = IF @ = 0 THEN 0 ELSE @ - 1]]
  /\ UNCHANGED <<pc, flags, display, power, plugged, voltOk, keys, uevent>>

Outside == Press \/ ReleasePower \/ Charger \/ Battery \/ OtherUevent \/ Tick

-----------------------------------------------------------------------------
Init ==
  /\ pc = "start" /\ alarms = <<>> /\ power = "on"
  /\ shutdown = FALSE /\ powerup = FALSE /\ quit = FALSE
  /\ lit = TRUE /\ brightness = 100
  /\ plugged \in BOOLEAN /\ voltOk \in BOOLEAN /\ held \in BOOLEAN
  /\ powerKeys = <<>> /\ otherKeys = 0 /\ uevent = "none"

Next == Main \/ Outside

Spec == Init /\ [][Next]_vars

(* The program runs, time passes, and nobody holds the key for ever. *)
FairSpec ==
  /\ Spec
  /\ WF_vars(Main)
  /\ WF_vars(Tick)
  /\ WF_vars(ReleasePower)

-----------------------------------------------------------------------------
(* Properties *)

TypeOK ==
  /\ pc \in {"start", "loop", "process", "exit"}
  /\ {shutdown, powerup, quit, lit, plugged, voltOk, held} \subseteq BOOLEAN
  /\ brightness \in {0, 40, 80, 100}
  /\ power \in {"on", "off", "restarted"}
  /\ powerKeys \in Seq({"down", "up"})
  /\ otherKeys \in 0 .. MaxKeys
  /\ uevent \in {"none", "cpcap_battery", "other"}
  /\ \A i \in DOMAIN alarms :
       alarms[i].f \in Handlers /\ alarms[i].left \in 0 .. Delay[alarms[i].f]

(* The list is in the order of time and no handler is in it twice: a       *)
(* second animation would run for ever beside the first, and alarm_process *)
(* stops at the first alarm that is not due.                               *)
AlarmsInOrder ==
  \A i, j \in DOMAIN alarms :
    i < j => alarms[i].f # alarms[j].f /\ alarms[i].left <= alarms[j].left

(* The key is down, or its release has not been read. *)
ReleaseComes == held \/ \E i \in DOMAIN powerKeys : powerKeys[i] = "up"

(* Display, brightness and alarms are in one stage of the cycle together,  *)
(* through keys, a shutdown that fails and alarms that cancel each other.  *)
(* Only after a reboot that fails is the display lit without an alarm to   *)
(* end it, and then the release of the key will start the cycle.           *)
DisplayAlarms == {alarms[i].f : i \in DOMAIN alarms} \ {LongPress}

DisplayInStage ==
  pc \in {"loop", "process"} /\ power = "on" =>
    \/ ~lit /\ brightness = 0  /\ DisplayAlarms = {}
    \/ lit  /\ brightness = 80 /\ DisplayAlarms = {Animation, Dim}
    \/ lit  /\ brightness = 40 /\ DisplayAlarms = {Animation, Blank}
    \/ lit  /\ DisplayAlarms = {} /\ ReleaseComes

(* The list of alarms is in order and fits what is displayed, also between *)
(* two alarms that one call of alarm_process runs.                         *)
AlarmsFitDisplay == TypeOK /\ AlarmsInOrder /\ DisplayInStage

(* The reboot alarm is set only while the key is down or its release waits *)
(* to be read: a press that was seen to end never reboots the phone.       *)
LongPressIsHeld == Pending(alarms, LongPress) # {} => ReleaseComes

(* Unless keys are pressed for ever, each in time to put off the alarms,   *)
(* the display goes dark again, even after a reboot that fails.            *)
Over == power # "on" \/ quit

GoesDark == ([]<><<Press>>_vars) \/ [](lit => <>(~lit \/ Over))

(* "When the charger is unplugged the device shall shutdown at once"       *)
(* (main.c:120).  While the display is lit the animation sees to it        *)
(* whatever becomes of the uevent, unless the display is to go dark before *)
(* the animation runs again, or keys come in between.                      *)
Unplugged == ~plugged /\ ~shutdown

DarkSoon == \E i \in Pending(alarms, Blank) : alarms[i].left <= AnimationTicks

KeyWaits == held \/ powerKeys # <<>> \/ otherKeys > 0

LitShutsDown == lit /\ Unplugged /\ ~DarkSoon ~> ~Unplugged \/ Over \/ KeyWaits

(* The same with the display dark, where only the uevent tells. *)
UnplugShutsDown ==
  ([]<><<Press>>_vars) \/ [](Unplugged => <>(~Unplugged \/ Over))
=============================================================================
