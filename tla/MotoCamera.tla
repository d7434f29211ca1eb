----------------------------- MODULE MotoCamera -----------------------------
(***************************************************************************)
(* libcamera/MotoCameraWrapper: what stands between the camera HAL and     *)
(* Motorola's camera library.  It translates parameters both ways and, for *)
(* the SOC camera, keeps the torch: taking a picture puts it out, and a    *)
(* thread lights it again a second after the last picture message.         *)
(*                                                                         *)
(* The operators are parts of the steps that CameraHal's threads take.     *)
(***************************************************************************)
EXTENDS Integers

VARIABLES
    camera,         \* mCameraType
    flash,          \* mFlashMode
    torch,          \* whether the LED is lit
    thread,         \* the torch thread: "none", "started", "waiting", "awake"
    exiting,        \* its exitPending
    asked,          \* exposure compensation the application set last
    offset          \* mot-exposure-offset in the library, in hundredths

torchVars == <<torch, thread, exiting>>
paramVars == <<flash, asked, offset>>

-----------------------------------------------------------------------------
(* The torch.                                                              *)

Soc == camera = "CAM_SOC"
TorchWanted == flash = "torch"

(* toggleTorchIfNeeded: what the LED does afterwards                       *)
Toggle == torch' = IF Soc THEN TorchWanted ELSE torch

(* TorchEnableThread::cancelAndWait: the signal wakes the thread only if it *)
(* already waits; then exit is requested and the thread's end awaited.      *)
Signal ==
    /\ thread' = IF thread = "waiting" THEN "awake" ELSE thread
    /\ UNCHANGED <<torch, exiting>>

RequestExit == exiting' = TRUE /\ UNCHANGED <<torch, thread>>

Ended ==
    /\ thread = "none" /\ exiting' = FALSE
    /\ UNCHANGED <<torch, thread>>

(* scheduleTorch, once the old thread has ended.  The mutant runs the new   *)
(* thread without waiting for the old one, which run() refuses.             *)
MutReschedule ==
    /\ exiting' = (exiting /\ thread # "none")
    /\ thread' = IF thread = "none" THEN "started" ELSE thread
    /\ UNCHANGED torch

Reschedule ==
    /\ thread = "none" /\ exiting' = FALSE /\ thread' = "started"
    /\ UNCHANGED torch

(* threadLoop: wait a second or for the signal, then light the torch again  *)
(* unless the thread is to exit.                                            *)
ThreadWaits ==
    /\ thread = "started" /\ thread' = "waiting"
    /\ UNCHANGED <<torch, exiting>>

ThreadTimesOut ==
    /\ thread = "waiting" /\ thread' = "awake"
    /\ UNCHANGED <<torch, exiting>>

ThreadToggles ==
    /\ thread = "awake" /\ thread' = "none"
    /\ IF exiting THEN UNCHANGED torch ELSE Toggle
    /\ UNCHANGED exiting

-----------------------------------------------------------------------------
(* The parameters.  Real numbers are counted in hundredths.                *)

Abs(x) == IF x < 0 THEN -x ELSE x
Sign(x) == IF x < 0 THEN -1 ELSE 1

(* round(a / b), halves away from zero                                      *)
Round(a, b) == Sign(a) * ((2 * Abs(a) + b) \div (2 * b))

(* setParameters: e / 3 is written without fraction if it is "even", which  *)
(* is tested by its distance to the nearest integer, with its sign, against *)
(* 0.05; otherwise with two decimals.                                       *)
Even(e) == 20 * (e - 3 * Round(e, 3)) < 3

(* The mutant divides integers, as it would without the float.              *)
MutExposureOffset(e) == 100 * Sign(e) * (Abs(e) \div 3)
ExposureOffset(e) == IF Even(e) THEN 100 * Round(e, 3) ELSE Round(100 * e, 3)

(* getParameters: (int) round(offset * 3)                                   *)
ExposureParam(x) == Round(3 * x, 100)

(* A scene mode decides the flash mode.                                     *)
SceneFlash(scene, mode) ==
    CASE scene = "auto" -> mode
      [] scene \in {"portrait", "night-portrait"} -> "auto"
      [] OTHER -> "off"

SetParameters(scene, mode, e) ==
    /\ flash' = SceneFlash(scene, mode)
    /\ asked' = e /\ offset' = ExposureOffset(e)
    /\ torch' = IF Soc /\ flash' # flash THEN flash' = "torch" ELSE torch
    /\ UNCHANGED <<thread, exiting>>

WrapperInit ==
    /\ flash = "unset" /\ torch = FALSE
    /\ thread = "none" /\ exiting = FALSE
    /\ asked = 0 /\ offset = 0

(* A new wrapper, by createInstance: the LED stays as it is.                *)
NewWrapper ==
    /\ flash' = "unset" /\ asked' = 0 /\ offset' = 0
    /\ UNCHANGED torchVars
=============================================================================
