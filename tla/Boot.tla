-------------------------------- MODULE Boot --------------------------------
(***************************************************************************)
(* From init to the lights: 2nd-init replaces init, the new init loads the *)
(* kernel's modules and runs mot_boot_mode, and by what that says charge   *)
(* only mode or Android is the one process that drives the lights.  The    *)
(* recovery is not modelled.                                               *)
(*                                                                         *)
(* Each program has left the memory when the next one starts; what it was  *)
(* about is then forgotten to keep the states few.                         *)
(***************************************************************************)
EXTENDS SecondInit, PvrHook, BootMode, ChargeDevices

CONSTANTS
  BootLeds,        \* bound: colours the boot loader leaves in the LED
  Backlights       \* bound: the locked lights Android calls for

ASSUME BootLedsAssumption == BootLeds \subseteq DOMAIN Rgb

VARIABLE phase            \* "second init", "modules", "boot mode", "charge", "android", "recovery"

vars == <<phase, secondVars, hookVars, bootinfo, mode, lightVars, deviceVars>>

others == <<hookVars, lightVars, deviceVars>>

Init ==
  /\ phase = "second init"
  /\ SecondInitInit /\ PvrHookInit /\ BootModeInit /\ DevicesInit
  /\ \E led \in BootLeds : LightsInit(led)

RunSecondInit ==
  /\ phase = "second init"
  /\ SecondInitStep
  /\ UNCHANGED <<phase, bootinfo, mode, others>>

(* init starts, or goes on as it was. *)
InitRuns ==
  /\ phase = "second init" /\ tracer = "done"
  /\ phase' = "modules"
  /\ env' = <<>> /\ init' = "running"
  /\ UNCHANGED <<tracer, bootinfo, mode, others>>

RunHook ==
  /\ phase = "modules"
  /\ PvrHookStep
  /\ UNCHANGED <<phase, secondVars, bootinfo, mode, lightVars, deviceVars>>

ModulesLoaded ==
  /\ phase = "modules" /\ load \in {"absent", "loaded"}
  /\ phase' = "boot mode"
  /\ code' = "first" /\ hi' = NoHook /\ hooked' = FALSE /\ load' = "absent" /\ sgx' = NoSgx
  /\ reader' = [r \in PvrReaders |-> NoRead]
  /\ UNCHANGED <<secondVars, bootinfo, mode, lightVars, deviceVars>>

RunBootMode ==
  /\ phase = "boot mode"
  /\ Decide
  /\ UNCHANGED <<phase, secondVars, others>>

(* init.rc starts what the properties say. *)
Started ==
  /\ phase = "boot mode" /\ mode # "unknown"
  /\ phase' = mode
  /\ bootinfo' = <<>> /\ mode' = "unknown"
  /\ \/ mode = "android" /\ Open(Leds \cup Locked \cup {"attention"})
     \/ mode # "android" /\ UNCHANGED lightVars
  /\ UNCHANGED <<secondVars, hookVars, deviceVars>>

Early == <<phase, secondVars, hookVars, bootinfo, mode>>

-----------------------------------------------------------------------------
(* Charge only mode *)

ChargeStarts   == phase = "charge" /\ (ScreenInit \/ EventsAndLights) /\ UNCHANGED Early
ChargePower    == phase = "charge" /\ (\E u \in BOOLEAN : PowerEventDevices(u)) /\ UNCHANGED Early
ChargeDisplay  == phase = "charge" /\ (\E p \in {0, 40, 80} : DisplayStage(p)) /\ UNCHANGED Early
ChargeEnds     == phase = "charge" /\ EndProgram /\ UNCHANGED Early

-----------------------------------------------------------------------------
(* Android's services call for each light under a lock of its own.  The    *)
(* locked lights share nothing with the LED, so that they are not called   *)
(* during its calls; a bound.                                              *)

AndroidBattery ==
  /\ phase = "android" /\ Free
  /\ \E c \in Palette, b \in BOOLEAN : SetBattery(c, b)
  /\ UNCHANGED <<Early, deviceVars>>

AndroidNotification ==
  /\ phase = "android" /\ Free
  /\ \E c \in Palette, b \in BOOLEAN : SetNotification(c, b)
  /\ UNCHANGED <<Early, deviceVars>>

AndroidLocked ==
  /\ phase = "android" /\ Idle
  /\ \E l \in Backlights, c \in {"off", "green"}, s \in BOOLEAN : SetLocked(l, Rgb[c], s)
  /\ UNCHANGED <<Early, deviceVars>>

-----------------------------------------------------------------------------
LightsRun == LedStep /\ UNCHANGED <<Early, deviceVars>>
LockedRun == LockedWrite /\ UNCHANGED <<Early, deviceVars>>

Next ==
  \/ RunSecondInit \/ InitRuns \/ RunHook \/ ModulesLoaded \/ RunBootMode \/ Started
  \/ ChargeStarts \/ ChargePower \/ ChargeDisplay \/ ChargeEnds
  \/ AndroidBattery \/ AndroidNotification \/ AndroidLocked
  \/ LightsRun \/ LockedRun

Spec == Init /\ [][Next]_vars
=============================================================================
