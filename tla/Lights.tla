------------------------------- MODULE Lights -------------------------------
(***************************************************************************)
(* liblights/lights.c, the lights HAL.  The backlights write their files   *)
(* under g_lock.  The battery's and the notifications' light share one     *)
(* LED of three colours and the variables that remember what it shows,     *)
(* and take no lock: here every read and write of a shared variable and    *)
(* every write of a file is a step of its own, and any write may fail.     *)
(*                                                                         *)
(* A caller makes one call at a time for each light.                       *)
(***************************************************************************)
EXTENDS Integers, Sequences, FiniteSets

CONSTANT Palette          \* bound: the colours callers ask for

(* The colour words in use; red is 0xffff0000, the battery's sign for low. *)
Rgb == [off    |-> <<0, 0, 0>>,
        red    |-> <<255, 0, 0>>,
        orange |-> <<255, 255, 0>>,
        green  |-> <<0, 255, 0>>]

ASSUME PaletteAssumption == Palette \subseteq DOMAIN Rgb

Leds   == {"battery", "notification"}
Locked == {"backlight", "keyboard", "buttons"}

VARIABLES
  opened,           \* the lights open_lights made a device for
  colorstate, blinkstate,
  lastnotificationcolor, lastnotificationblink,
  lowbattery,
  file,             \* the values of the brightness, blink and als files
  call,             \* each LED light's call
  holder,           \* the light that holds g_lock, with its next write
  lowBlink,         \* ghost: the blinking asked for with the last red
  disturbed         \* ghost: calls overlapped, or a write failed, since

remembered == <<colorstate, blinkstate>>
notified   == <<lastnotificationcolor, lastnotificationblink>>
ledVars    == <<remembered, notified, lowbattery, call, lowBlink, disturbed>>
lockVars   == <<holder>>
lightVars  == <<opened, ledVars, lockVars, file>>

NoCall == [at |-> "idle", color |-> "off", blink |-> FALSE, todo |-> <<>>, alone |-> TRUE]

Idle   == \A l \in Leds : call[l] = NoCall
Free   == holder = <<>>

(* What is in the LED when the process starts is the boot loader's. *)
LightsInit(led) ==
  /\ opened = {}
  /\ colorstate = "off" /\ blinkstate = FALSE
  /\ lastnotificationcolor = "off" /\ lastnotificationblink = FALSE
  /\ lowbattery = FALSE
  /\ file = [red |-> Rgb[led][1], green |-> Rgb[led][2], blue |-> Rgb[led][3],
             redBlink |-> 0, lcd |-> 255, als |-> 0, keyboard |-> 0, buttons |-> 0]
  /\ call = [l \in Leds |-> NoCall]
  /\ holder = <<>>
  /\ lowBlink = FALSE
  /\ disturbed = (led # "off")

(* open_lights refuses a name it does not know; of attention it makes a    *)
(* device that does nothing.                                               *)
Open(names) ==
  /\ opened' = opened \cup (names \cap (Leds \cup Locked \cup {"attention"}))
  /\ UNCHANGED <<ledVars, lockVars, file>>

-----------------------------------------------------------------------------
(* The backlights, under the lock: a brightness from the colour, and for   *)
(* the screen the sensor's mode first.                                     *)

Brightness(rgb) == (77 * rgb[1] + 150 * rgb[2] + 29 * rgb[3]) \div 256
IsLit(rgb)      == rgb # <<0, 0, 0>>
AlsMode(sensor) == IF sensor THEN 1 ELSE 2

LockedWrites(l, rgb, sensor) ==
  IF l = "backlight" THEN << <<"als", AlsMode(sensor)>>, <<"lcd", Brightness(rgb)>> >>
                     ELSE << <<l, IF IsLit(rgb) THEN 255 ELSE 0>> >>

SetLocked(l, rgb, sensor) ==
  /\ l \in opened \cap Locked /\ Free
  /\ holder' = LockedWrites(l, rgb, sensor)
  /\ UNCHANGED <<opened, ledVars, file>>

(* write_int, which fails when the file cannot be opened or written. *)
WriteInt(w) == file' = [file EXCEPT ![w[1]] = w[2]] \/ UNCHANGED file

LockedWrite ==
  /\ ~Free
  /\ WriteInt(Head(holder))
  /\ holder' = Tail(holder)
  /\ UNCHANGED <<opened, ledVars>>

-----------------------------------------------------------------------------
(* The LED.                                                                *)

(* A call of l enters set_light_battery or set_light_notification.         *)
Enter(l, c) ==
  LET others == {o \in Leds \ {l} : call[o] # NoCall} IN
  /\ call' = [o \in Leds |->
       IF o = l THEN [c EXCEPT !.alone = others = {}]
       ELSE IF o \in others THEN [call[o] EXCEPT !.alone = FALSE] ELSE call[o]]
  /\ disturbed' = (disturbed \/ others # {})

(* Without the test of lowbattery every battery colour but red would put   *)
(* the notification back.                                                  *)
MutSetBattery(color, blink) ==
  /\ "battery" \in opened /\ call["battery"] = NoCall
  /\ Enter("battery", [NoCall EXCEPT !.at = "compareColor", !.color = color, !.blink = blink])
  /\ lowbattery' = (color = "red")
  /\ lowBlink' = IF color = "red" THEN blink ELSE lowBlink
  /\ UNCHANGED <<opened, remembered, notified, lockVars, file>>

(* set_light_battery: red is shown at once, and what follows the first     *)
(* colour that is not red is the notification.                             *)
SetBattery(color, blink) ==
  /\ "battery" \in opened /\ call["battery"] = NoCall
  /\ UNCHANGED <<opened, remembered, notified, lockVars, file>>
  /\ \/ /\ color = "red"
        /\ lowbattery' = TRUE /\ lowBlink' = blink
        /\ Enter("battery", [NoCall EXCEPT !.at = "compareColor", !.color = color, !.blink = blink])
     \/ /\ color # "red" /\ lowbattery
        /\ lowbattery' = FALSE
        /\ Enter("battery", [NoCall EXCEPT !.at = "lastColor"])
        /\ UNCHANGED lowBlink
     \/ /\ color # "red" /\ ~lowbattery
        /\ UNCHANGED <<lowbattery, call, lowBlink, disturbed>>

Step(l, c) == call' = [call EXCEPT ![l] = c] /\ UNCHANGED <<opened, lockVars, lowBlink>>

ReadLastColor ==
  /\ call["battery"].at = "lastColor"
  /\ Step("battery", [call["battery"] EXCEPT !.at = "lastBlink", !.color = lastnotificationcolor])
  /\ UNCHANGED <<remembered, notified, lowbattery, disturbed, file>>

ReadLastBlink ==
  /\ call["battery"].at = "lastBlink"
  /\ Step("battery", [call["battery"] EXCEPT !.at = "compareColor", !.blink = lastnotificationblink])
  /\ UNCHANGED <<remembered, notified, lowbattery, disturbed, file>>

(* set_light_notification: remember, and show unless the battery is low.   *)
SetNotification(color, blink) ==
  /\ "notification" \in opened /\ call["notification"] = NoCall
  /\ Enter("notification", [NoCall EXCEPT !.at = "keepBlink", !.color = color, !.blink = blink])
  /\ lastnotificationcolor' = color
  /\ UNCHANGED <<opened, remembered, lastnotificationblink, lowbattery, lockVars, lowBlink, file>>

KeepBlink ==
  /\ call["notification"].at = "keepBlink"
  /\ lastnotificationblink' = call["notification"].blink
  /\ Step("notification", [call["notification"] EXCEPT !.at = "testLow"])
  /\ UNCHANGED <<remembered, lastnotificationcolor, lowbattery, disturbed, file>>

TestLow ==
  /\ call["notification"].at = "testLow"
  /\ Step("notification", IF lowbattery THEN NoCall
                          ELSE [call["notification"] EXCEPT !.at = "compareColor"])
  /\ UNCHANGED <<remembered, notified, lowbattery, disturbed, file>>

(* set_light_locked, whose caller holds no lock: nothing to do when the    *)
(* LED shows what is asked, by what is remembered.                         *)
Compare(l) ==
  LET c == call[l] IN
  /\ \/ /\ c.at = "compareColor"
        /\ Step(l, [c EXCEPT !.at = IF colorstate = c.color THEN "compareBlink" ELSE "storeColor"])
     \/ /\ c.at = "compareBlink"
        /\ Step(l, IF blinkstate = c.blink THEN NoCall ELSE [c EXCEPT !.at = "storeColor"])
  /\ UNCHANGED <<remembered, notified, lowbattery, disturbed, file>>

Writes(color, blink) ==
  << <<"redBlink", 0>>, <<"red", Rgb[color][1]>>, <<"green", Rgb[color][2]>>,
     <<"blue", Rgb[color][3]>> >>
    \o (IF blink THEN << <<"redBlink", 255>> >> ELSE <<>>)

Store(l) ==
  LET c == call[l] IN
  /\ \/ /\ c.at = "storeColor"
        /\ colorstate' = c.color
        /\ Step(l, [c EXCEPT !.at = "storeBlink"])
        /\ UNCHANGED blinkstate
     \/ /\ c.at = "storeBlink"
        /\ blinkstate' = c.blink
        /\ Step(l, [c EXCEPT !.at = "write", !.todo = Writes(c.color, c.blink)])
        /\ UNCHANGED colorstate
  /\ UNCHANGED <<notified, lowbattery, disturbed, file>>

(* The writes; the last one ends the call.  A call that ran alone and      *)
(* wrote everything has put the LED right.                                 *)
Write(l) ==
  LET c == call[l]  more == Tail(c.todo) IN
  /\ c.at = "write"
  /\ \E ok \in BOOLEAN :
       LET alone == c.alone /\ ok IN
       /\ file' = IF ok THEN [file EXCEPT ![Head(c.todo)[1]] = Head(c.todo)[2]] ELSE file
       /\ Step(l, IF more = <<>> THEN NoCall
                  ELSE [c EXCEPT !.todo = more, !.alone = alone])
       /\ disturbed' = IF more = <<>> THEN ~alone /\ (disturbed \/ ~ok) ELSE disturbed \/ ~ok
  /\ UNCHANGED <<remembered, notified, lowbattery>>

LedStep ==
  \/ ReadLastColor \/ ReadLastBlink \/ KeepBlink \/ TestLow
  \/ \E l \in Leds : Compare(l) \/ Store(l) \/ Write(l)

-----------------------------------------------------------------------------
Led(color, blink) ==
  /\ <<file.red, file.green, file.blue>> = Rgb[color]
  /\ file.redBlink = IF blink THEN 255 ELSE 0

(* Between calls, unless two overlapped or a write failed and none has put *)
(* it right since, the LED shows red while the battery is low and else the *)
(* last notification, whatever came between (lights.c:159-247).            *)
LedAgrees ==
  Idle /\ ~disturbed =>
    IF lowbattery THEN Led("red", lowBlink)
                  ELSE Led(lastnotificationcolor, lastnotificationblink)
=============================================================================
