--------------------------- MODULE ChargeDevices ---------------------------
(***************************************************************************)
(* What charge only mode does to its devices: hardware.c reads the         *)
(* battery's files and drives the lights HAL, draw.c makes the picture and *)
(* screen.c flips between the two pages of the frame buffer.  When it does *)
(* so is ChargeOnly's; here a battery event or an alarm may come at any    *)
(* time.  One thread makes all calls, each after the one before has ended. *)
(* events.c is here for what it opens and closes.                          *)
(* The pixels of the pictures and the blending of edges are left out.      *)
(***************************************************************************)
EXTENDS Lights, TLC

CONSTANTS
  Counters,      \* bound: values of charge_counter, 0 if it is not there
  Capacities,    \* bound: values of capacity
  Inputs         \* bound: how many input devices there are; events.c has room for 15

ASSUME LevelsAssumption == Counters \subseteq Int /\ Capacities \subseteq Int

VARIABLES
  program,       \* main: "off", "init", "loop" or "ended"
  level,         \* charge_level that was read last
  broken,        \* the battery is missing or unknown
  ledColor,      \* ghost: the colour set_battery_led asked for, or "none"
  frame,         \* draw's frame, modulo 4
  page,          \* the page fb->vi says is shown, 0 or 1
  shown,         \* the page the panel shows
  picture,       \* what was drawn last
  held           \* the pictures loaded, whether the frame buffer is open,
                 \* the input devices and the uevent socket in ev_fds

screenVars == <<frame, page, shown, picture>>
deviceVars == <<program, level, broken, ledColor, screenVars, held>>

-----------------------------------------------------------------------------
(* hardware.c *)

(* The counter reads above the full charge. *)
MutChargeLevel(counter, capacity) ==
  LET v == IF counter = 0 THEN capacity ELSE counter IN IF v < 0 THEN 0 ELSE v

ChargeLevel(counter, capacity) ==
  LET v == IF counter = 0 THEN capacity ELSE counter IN
  IF v < 0 THEN 0 ELSE IF v > 100 THEN 100 ELSE v

(* get_device_state.  is_charging, whether a charger is online and the     *)
(* voltage are ChargeOnly's.                                               *)
GetDeviceState ==
  \E counter \in Counters, capacity \in Capacities, present, unknown \in BOOLEAN :
    /\ level'  = ChargeLevel(counter, capacity)
    /\ broken' = (unknown \/ ~present)

(* set_battery_led *)
LedColor(l) == IF l < 10 THEN "red" ELSE IF l < 100 THEN "orange" ELSE "green"

(* set_brightness: of 255, in all three colours. *)
Grey(percent) == LET b == (255 * percent) \div 100 IN <<b, b, b>>

-----------------------------------------------------------------------------
(* draw.c *)

Pictures == << "background", "green", "orange", "red", "panes", "numbers" >>

Loaded(n) == {Pictures[i] : i \in 1 .. n}

(* draw_uninit unloads what it lists; the numbers are forgotten. *)
MutUnloaded == Loaded(5)
Unloaded    == Loaded(6)

(* draw_init loads one after the other.  A picture without memory, or that *)
(* cannot be unpacked, is not kept, and those before it are unloaded.      *)
DrawInit(pictures) ==
  \E n \in 0 .. 6 : pictures = IF n = 6 THEN Loaded(n) ELSE Loaded(n) \ Unloaded

(* The strips' heights as the assets have them, and as load_anim_asset     *)
(* leaves them: every frame as high as the first, filled with what is seen *)
(* of the frame before.  A frame is unpacked one row down.                 *)
Heights == [red |-> <<16, 13, 13, 13>>, orange |-> <<16, 14, 14, 13>>,
            green |-> <<16, 13, 13, 13>>]

FrameHeight(color) == Heights[color][1]

FramesFit ==
  \A c \in DOMAIN Heights : \A i \in 2 .. 4 : 1 + Heights[c][i] <= FrameHeight(c)

Background == 390
PngTop     == 71 + (854 - Background) \div 2
PngBottom  == 318 + (854 - Background) \div 2

ImageColor(percent) == IF percent < 10 THEN "red" ELSE IF percent < 30 THEN "orange" ELSE "green"

Pane(percent, error) ==
  IF error THEN "error" ELSE IF percent < 100 THEN "charge" ELSE "complete"

FillFrom(percent) == PngBottom - (percent * (PngBottom - PngTop)) \div 100

(* The strip moves up with the fill and stays below the top. *)
StripFrom(percent) ==
  LET y == FillFrom(percent) - FrameHeight(ImageColor(percent)) IN
  IF y < PngTop THEN PngTop ELSE y

Digits(percent) ==
  (IF percent = 100 THEN <<1>> ELSE <<>>)
    \o (IF percent >= 10 THEN << (percent \div 10) % 10 >> ELSE <<>>)
    \o << percent % 10 >>

(* draw: a broken battery is drawn without charge and number.              *)
Draw(percent, error, f) ==
  [pane |-> Pane(percent, error), color |-> ImageColor(percent),
   fill |-> IF error THEN PngBottom ELSE FillFrom(percent),
   strip |-> IF error \/ percent = 100 THEN <<>> ELSE << StripFrom(percent), f >>,
   digits |-> IF error THEN <<>> ELSE Digits(percent)]

-----------------------------------------------------------------------------
(* screen.c *)

(* FBIOPUT_VSCREENINFO, whose failure is not looked at: then a page may be *)
(* drawn that is shown.                                                    *)
PutScreen(p) == page' = p /\ (shown' = p \/ UNCHANGED shown)

(* screen_update draws the page that is not up and then puts it up. *)
ScreenUpdate ==
  /\ picture' = Draw(level', broken', frame)
  /\ frame' = (frame + 1) % 4
  /\ PutScreen(1 - page)

Still(name) == [pane |-> name, color |-> "none", fill |-> 0, strip |-> <<>>, digits |-> <<>>]
NoPicture   == Still("none")
Logo        == Still("logo")

(* show_565rle copies the logo to both pages, if there is one. *)
ShowLogo ==
  \/ /\ picture' = Logo
     /\ PutScreen(1 - page) /\ UNCHANGED frame
  \/ UNCHANGED screenVars

-----------------------------------------------------------------------------
(* main.c's use of them *)

Quiet == Idle /\ Free

Nothing == [pictures |-> {}, fb |-> FALSE, inputs |-> 0, uevents |-> FALSE]

DevicesInit ==
  /\ program = "off" /\ level = 0 /\ broken = FALSE /\ ledColor = "none"
  /\ frame = 0 /\ page = 0 /\ shown = 0
  /\ picture = NoPicture /\ held = Nothing

(* screen_init: without the frame buffer the pictures are unloaded again,  *)
(* and main returns.                                                       *)
ScreenInit ==
  /\ program = "off"
  /\ GetDeviceState
  /\ \E pictures \in SUBSET Loaded(6), fb \in BOOLEAN :
       /\ DrawInit(pictures)
       /\ \/ /\ pictures = Loaded(6) /\ fb
             /\ program' = "screen"
             /\ held' = [held EXCEPT !.pictures = pictures, !.fb = TRUE]
          \/ /\ pictures # Loaded(6) \/ ~fb
             /\ program' = "ended"
             /\ held' = [held EXCEPT !.pictures = pictures \ Unloaded]
  /\ UNCHANGED <<lightVars, ledColor, screenVars>>

(* ev_init does without a uevent socket, led_init without a HAL: then the  *)
(* lights are NULL.                                                        *)
EventsAndLights ==
  /\ program = "screen" /\ program' = "init"
  /\ \E n \in Inputs, u \in BOOLEAN : held' = [held EXCEPT !.inputs = n, !.uevents = u]
  /\ Open({"backlight", "battery"}) \/ UNCHANGED lightVars
  /\ UNCHANGED <<level, broken, ledColor, screenVars>>

SetBatteryLed(l) ==
  IF "battery" \in opened THEN SetBattery(LedColor(l), FALSE) /\ ledColor' = LedColor(l)
                          ELSE UNCHANGED <<lightVars, ledColor>>

(* power_event: the first one, before the loop, sets the LED, and so do    *)
(* those for an event of the battery, but not the alarm's.                 *)
PowerEventDevices(updateLeds) ==
  /\ \/ program = "init" /\ updateLeds
     \/ program = "loop" /\ (updateLeds => held.uevents)
  /\ Quiet
  /\ program' = "loop"
  /\ GetDeviceState
  /\ ScreenUpdate
  /\ UNCHANGED held
  /\ IF updateLeds THEN SetBatteryLed(level') ELSE UNCHANGED <<lightVars, ledColor>>

SetBrightness(percent) ==
  IF "backlight" \in opened THEN SetLocked("backlight", Grey(percent), FALSE)
                            ELSE UNCHANGED lightVars

(* The display's cycle, but for the blanking, which is ChargeOnly's.       *)
DisplayStage(percent) ==
  /\ program = "loop" /\ Quiet
  /\ SetBrightness(percent)
  /\ UNCHANGED deviceVars

(* led_uninit, ev_exit, screen_uninit: the backlight full and the logo. *)
EndProgram ==
  /\ program = "loop" /\ Quiet
  /\ program' = "ended"
  /\ SetBrightness(100)
  /\ held' = [pictures |-> held.pictures \ Unloaded, fb |-> FALSE, inputs |-> 0,
              uevents |-> FALSE]
  /\ ShowLogo
  /\ UNCHANGED <<level, broken, ledColor>>

-----------------------------------------------------------------------------
(* The number drawn is the level, from 0 to 100, with the colour that goes *)
(* with it, red for the picture and the LED alike; fill and strip stay in  *)
(* the glass and meet without a gap; it is drawn from pictures that are    *)
(* loaded, and a program that ended, whatever failed, has nothing left     *)
(* (draw.c:211-386, hardware.c:167-176, screen.c:109-121, 193-198).        *)
Number(d) == IF Len(d) = 3 THEN 100 * d[1] + 10 * d[2] + d[3]
             ELSE IF Len(d) = 2 THEN 10 * d[1] + d[2] ELSE d[1]

PictureTrue ==
  /\ program = "ended" => held = Nothing
  /\ program = "loop" =>
    LET p == picture  h == FrameHeight(p.color) IN
    /\ FramesFit
    /\ held.fb /\ {"background", "panes", p.color} \subseteq held.pictures
    /\ p.digits # <<>> => "numbers" \in held.pictures
    /\ p.digits # <<>> => Number(p.digits) = level /\ Len(p.digits) <= 3
    /\ broken <=> p.digits = <<>>
    /\ p.fill \in PngTop .. PngBottom
    /\ p.strip # <<>> => /\ p.strip[1] >= PngTop /\ p.strip[1] + h <= PngBottom
                         /\ p.strip[1] + h >= p.fill
    /\ (p.color = "red") <=> (LedColor(level) = "red")

(* "Charging - solid orange", "Charging Full - solid green"                *)
(* (hardware.c:60-64): the LED shows how full the battery is.              *)
LedShowsCharge ==
  program = "loop" /\ Quiet /\ ~disturbed /\ ledColor # "none" => Led(ledColor, FALSE)
=============================================================================
