----------------------------- MODULE CameraHal ------------------------------
(***************************************************************************)
(* libcamera/cameraHal.cpp: the camera device the framework sees, on top   *)
(* of MotoCameraWrapper and Motorola's library.  The application's calls   *)
(* come one at a time; the library calls back from a thread of its own,    *)
(* one message at a time, and neither side takes a lock: the vector of     *)
(* frames lent to the encoder, the memory of the last data message, the    *)
(* window and the overlay are read and written by both.                    *)
(*                                                                         *)
(* Frames are memories 1, 2, ... of the client.  Where two steps of the    *)
(* two threads collide, "fault" says what the process may die of.          *)
(***************************************************************************)
EXTENDS MotoCamera, Sequences, FiniteSets, SequencesExt

CONSTANTS
    Cameras,        \* types createInstance may detect
    Windows,        \* preview windows
    Frames,         \* bound: memories for frames, by camera type
    OverlayUsed,    \* useOverlay of the library, by camera type
    Uses,           \* bound: of "video", "preview", "picture"; by camera type
    Settings,       \* bound: scene mode, flash mode and exposure; by camera type
    Soft, Hard,     \* SOFT_DROP_THRESHOLD, HARD_DROP_THRESHOLD
    Throttle,       \* PREVIEW_THROTTLE_THRESHOLD
    MaxOpens,       \* bound: how often the device is opened
    MaxKept         \* bound: how often a frame finds no memory

ASSUME ThresholdAssumption ==
    /\ {Throttle, Soft, Hard} \subseteq Nat
    /\ Throttle <= Soft /\ Soft <= Hard

ASSUME BoundAssumption ==
    /\ Frames \in [Cameras -> Nat]
    /\ Settings \in [Cameras -> SUBSET (STRING \X STRING \X Int)]

VARIABLES
    dev,            \* "closed", "open", "released"
    opens,          \* ghost: how often it was opened
    window, overlay, clientData, sent,  \* of the legacy_camera_device
    prevDropped,    \* mPreviousVideoFrameDropped
    lastVideo,      \* ghost: what became of the last video frame
    recording,      \* the library records and video messages are enabled
    shots,          \* picture messages the library still has to send
    live,           \* frames whose memory is not released
    held,           \* frames the encoder has
    slipped,        \* ghost: frames that went past a sweep of the vector
    kept,           \* frames the library never got back
    out,            \* ghost: windows that miss a buffer
    replaced,       \* ghost: windows replaced while the callback thread drew
    cb,             \* the callback thread: pc, frame, window
    app,            \* the application's call: pc, index in sent
    fault

deviceVars == <<dev, opens, window, overlay, clientData>>
frameVars == <<sent, live, held, slipped, kept>>
videoVars == <<prevDropped, lastVideo, recording>>
drawVars == <<out, replaced>>
libVars == <<recording, shots>>
vars == <<camera, torchVars, paramVars, deviceVars, frameVars, videoVars, drawVars,
          shots, cb, app, fault>>

None == "none"
Idle == [pc |-> "idle", mem |-> 0, win |-> None]
Ready == [pc |-> "idle", i |-> 0]

At(pc) == cb.pc = pc
CbGoes(pc) == cb' = [cb EXCEPT !.pc = pc]
CbEnds == cb' = Idle
AppAt(pc) == app.pc = pc
AppGoes(pc) == app' = [pc |-> pc, i |-> 1]
AppEnds == app' = Ready

(* The process lives; the library calls back; the application may call.     *)
Alive == fault = "no"
Calling == Alive /\ dev = "open" /\ At("idle")
Used(what) == what \in Uses[camera]
Free == Alive /\ AppAt("idle") /\ dev = "open"

Init ==
    /\ camera \in Cameras /\ WrapperInit
    /\ dev = "closed" /\ opens = 0
    /\ window = None /\ overlay = FALSE /\ clientData = "null"
    /\ sent = <<>> /\ live = {} /\ held = {} /\ slipped = {} /\ kept = 0
    /\ prevDropped = FALSE /\ lastVideo = None /\ recording = FALSE
    /\ out = {} /\ replaced = {} /\ shots = 0
    /\ cb = Idle /\ app = Ready /\ fault = "no"

-----------------------------------------------------------------------------
(* Video frames: dataTimestampCallback.                                    *)

(* The number of frames sent is read once, on entry.                        *)
MutMustDrop(n) == n > Throttle /\ n > Soft
MustDrop(n) == n > Throttle /\ ((~prevDropped /\ n > Soft) \/ n > Hard)

VideoDropped ==
    /\ Calling /\ recording /\ Used("video") /\ MustDrop(Len(sent))
    /\ prevDropped' = TRUE
    /\ lastVideo' = IF lastVideo = "dropped" /\ Len(sent) <= Hard
                      THEN "dropped too" ELSE "dropped"
    /\ UNCHANGED <<camera, torchVars, paramVars, deviceVars, frameVars, recording,
                   drawVars, shots, cb, app, fault>>

(* Bound: no memory is used again while the vector or the encoder names it; *)
(* the memories are alike, so the lowest stands for any.                    *)
Unused == 1 .. Frames[camera] \ (live \cup held \cup ToSet(sent))

VideoTaken ==
    /\ Calling /\ recording /\ Used("video") /\ ~MustDrop(Len(sent))
    /\ Unused # {}
    /\ live' = live \cup {Min(Unused)}
    /\ cb' = [Idle EXCEPT !.pc = "push", !.mem = Min(Unused)]
    /\ UNCHANGED <<camera, torchVars, paramVars, deviceVars, sent, held, slipped, kept,
                   videoVars, drawVars, shots, app, fault>>

(* No memory for it: the library's frame is not given back either.          *)
VideoNoMemory ==
    /\ Calling /\ recording /\ Used("video") /\ ~MustDrop(Len(sent))
    /\ kept < MaxKept /\ kept' = kept + 1
    /\ lastVideo' = "failed"
    /\ UNCHANGED <<camera, torchVars, paramVars, deviceVars, sent, live, held, slipped,
                   prevDropped, recording, drawVars, shots, cb, app, fault>>

(* push_back: while the application walks the vector or erases from it, a   *)
(* push that moves the array leaves it with a stale iterator.               *)
Walking == app.pc \in {"sweep", "sweepRel", "clear", "clearRel", "erase"}

VideoPush ==
    /\ Alive /\ At("push") /\ CbGoes("post")
    /\ \/ sent' = Append(sent, cb.mem) /\ UNCHANGED fault
       \/ Walking /\ fault' = "vector" /\ UNCHANGED sent
    /\ UNCHANGED <<camera, torchVars, paramVars, deviceVars, live, held, slipped, kept,
                   videoVars, drawVars, shots, app>>

VideoPost ==
    /\ Alive /\ At("post") /\ CbGoes("return")
    /\ held' = held \cup {cb.mem}
    /\ UNCHANGED <<camera, torchVars, paramVars, deviceVars, sent, live, slipped, kept,
                   videoVars, drawVars, shots, app, fault>>

VideoReturn ==
    /\ Alive /\ At("return") /\ CbEnds
    /\ prevDropped' = FALSE /\ lastVideo' = "sent"
    /\ UNCHANGED <<camera, torchVars, paramVars, deviceVars, frameVars, recording,
                   drawVars, shots, app, fault>>

-----------------------------------------------------------------------------
(* Data messages: dataCallback, called through the wrapper's dataCb.        *)

PreviewData ==
    /\ Calling /\ Used("preview") /\ ~overlay /\ cb' = [Idle EXCEPT !.pc = "drop", !.win = "draw"]
    /\ UNCHANGED <<camera, torchVars, paramVars, deviceVars, frameVars, videoVars,
                   drawVars, shots, app, fault>>

PictureData ==
    /\ Calling /\ shots > 0 /\ shots' = shots - 1
    /\ cb' = [Idle EXCEPT !.pc = "drop"]
    /\ UNCHANGED <<camera, torchVars, paramVars, deviceVars, frameVars, videoVars,
                   drawVars, app, fault>>

Unread == <<camera, torchVars, paramVars, dev, opens, window, overlay, frameVars,
            videoVars, drawVars, shots, app>>

(* The memory of the last message is released before the next is made.      *)
DataDrop ==
    /\ Alive /\ At("drop") /\ CbGoes("make")
    /\ clientData' = IF clientData = "null" THEN "null" ELSE "freed"
    /\ fault' = IF clientData = "freed" THEN "double release" ELSE "no"
    /\ UNCHANGED Unread

MutDataMake ==
    /\ Alive /\ At("make")
    /\ \/ clientData' = "live" /\ CbGoes("hand over")
       \/ UNCHANGED clientData /\ CbGoes("handed")
    /\ UNCHANGED <<Unread, fault>>

DataMake ==
    /\ Alive /\ At("make")
    /\ \/ clientData' = "live" /\ CbGoes("hand over")
       \/ clientData' = "null" /\ CbGoes("handed")
    /\ UNCHANGED <<Unread, fault>>

DataPost ==
    /\ Alive /\ At("hand over") /\ CbGoes("handed")
    /\ fault' = IF clientData = "live" THEN "no" ELSE "stale data"
    /\ UNCHANGED <<Unread, clientData>>

(* A preview frame is drawn unless an overlay came up; a picture message of *)
(* the SOC camera schedules the torch.                                      *)
DataDone ==
    /\ Alive /\ At("handed")
    /\ IF cb.win = "draw" THEN IF overlay THEN CbEnds ELSE CbGoes("dequeue")
                          ELSE IF Soc THEN CbGoes("signal") ELSE CbEnds
    /\ UNCHANGED <<Unread, clientData, fault>>

(* overlayQueueBuffer: the library draws through the overlay it was given.  *)
OverlayFrame ==
    /\ Calling /\ Used("preview") /\ overlay /\ cb' = [Idle EXCEPT !.pc = "format"]
    /\ UNCHANGED <<Unread, clientData, fault>>

OverlayFormat ==
    /\ Alive /\ At("format")
    /\ CbGoes("dequeue") /\ fault' = IF overlay THEN "no" ELSE "null overlay"
    /\ UNCHANGED <<Unread, clientData>>

-----------------------------------------------------------------------------
(* processPreviewData: the window is read again for each of its calls.      *)

Undrawn == <<camera, torchVars, paramVars, deviceVars, frameVars, videoVars, shots, app,
             replaced>>

(* The window is NULL, or has no buffer to give.                            *)
Dequeue ==
    /\ Alive /\ At("dequeue")
    /\ \/ CbEnds /\ UNCHANGED out
       \/ /\ window # None /\ cb' = [Idle EXCEPT !.pc = "lock", !.win = window]
          /\ out' = out \cup {window}
    /\ UNCHANGED <<Undrawn, fault>>

(* lock_buffer may fail, then the buffer is cancelled.                      *)
MutLockBuffer ==
    /\ Alive /\ At("lock")
    /\ \/ CbGoes("enqueue") /\ UNCHANGED out
       \/ CbEnds /\ UNCHANGED out
    /\ fault' = IF window = None THEN "null window" ELSE "no"
    /\ UNCHANGED Undrawn

LockBuffer ==
    /\ Alive /\ At("lock")
    /\ \/ CbGoes("enqueue") /\ UNCHANGED out
       \/ CbEnds /\ out' = out \ {window}
    /\ fault' = IF window = None THEN "null window" ELSE "no"
    /\ UNCHANGED Undrawn

(* gralloc's lock is tried five times; the buffer goes back filled or not.  *)
Enqueue ==
    /\ Alive /\ At("enqueue") /\ CbEnds
    /\ out' = out \ {window}
    /\ fault' = IF window = None THEN "null window" ELSE "no"
    /\ UNCHANGED Undrawn

-----------------------------------------------------------------------------
(* The torch, of the callback thread and of its own.                       *)

NotTorch == <<camera, paramVars, deviceVars, frameVars, videoVars, drawVars, shots, fault>>

ScheduleSignals ==
    /\ Alive /\ At("signal") /\ CbGoes("request") /\ Signal
    /\ UNCHANGED <<NotTorch, app>>

ScheduleRequests ==
    /\ Alive /\ At("request") /\ CbGoes("run") /\ RequestExit
    /\ UNCHANGED <<NotTorch, app>>

ScheduleRuns ==
    /\ Alive /\ At("run") /\ CbEnds /\ Reschedule
    /\ UNCHANGED <<NotTorch, app>>

TorchThread ==
    /\ Alive
    /\ ThreadWaits \/ ThreadTimesOut \/ ThreadToggles
    /\ UNCHANGED <<NotTorch, cb, app>>

(* notifyCallback, for CAMERA_MSG_FOCUS                                     *)
NotifyFocus ==
    /\ Calling /\ Soc /\ Toggle
    /\ UNCHANGED <<NotTorch, thread, exiting, cb, app>>

-----------------------------------------------------------------------------
(* The application's calls.                                                *)

Quiet == <<camera, slipped, drawVars, cb, fault>>

(* camera_device_open and set_callbacks: the device is zeroed, the statics  *)
(* are not.                                                                 *)
Open ==
    /\ Alive /\ dev = "closed" /\ opens < MaxOpens
    /\ dev' = "open" /\ opens' = opens + 1
    /\ window' = None /\ overlay' = FALSE /\ clientData' = "null"
    /\ NewWrapper
    /\ UNCHANGED <<Quiet, sent, live, held, kept, videoVars, shots, app>>

(* A window that is set again, or taken away, loses its overlay; one of the *)
(* window's own calls may fail, and then no overlay is made.                *)
Drawing == cb.pc \in {"lock", "enqueue"}

SetPreviewWindow ==
    /\ Alive /\ AppAt("idle") /\ Used("preview")
    /\ dev \in {"open", "released"}
    /\ \E w \in (IF dev = "open" THEN Windows ELSE {}) \cup {None} :
        /\ window' = w
        /\ \/ overlay' = (overlay /\ w # window /\ w # None)
           \/ w # None /\ OverlayUsed[camera] /\ overlay' = TRUE
        /\ replaced' = IF Drawing /\ w # cb.win THEN replaced \cup {cb.win} ELSE replaced
    /\ UNCHANGED <<camera, torchVars, paramVars, dev, opens, clientData, frameVars,
                   videoVars, out, shots, cb, app, fault>>

StartRecording ==
    /\ Free /\ ~recording /\ Uses[camera] \cap {"video", "picture"} # {}
    /\ recording' = TRUE /\ prevDropped' = FALSE /\ lastVideo' = None
    /\ Toggle
    /\ UNCHANGED <<Quiet, paramVars, thread, exiting, deviceVars, sent, live, held, kept,
                   shots, app>>

StopRecording ==
    /\ Free /\ recording /\ recording' = FALSE
    /\ Toggle
    /\ UNCHANGED <<Quiet, paramVars, thread, exiting, deviceVars, sent, live, held, kept,
                   prevDropped, lastVideo, shots, app>>

(* release_recording_frame: found by its data, released, then erased; a     *)
(* frame that was swept already is not found.                               *)
ReleaseRecordingFrame ==
    /\ Free
    /\ \E m \in held :
        /\ held' = held \ {m}
        /\ \/ \E i \in DOMAIN sent :
                /\ sent[i] = m /\ live' = live \ {m}
                /\ app' = [pc |-> "erase", i |-> i]
           \/ m \notin ToSet(sent) /\ UNCHANGED <<live, app>>
    /\ UNCHANGED <<Quiet, torchVars, paramVars, deviceVars, sent, kept, videoVars, shots>>

EraseFrame ==
    /\ Alive /\ AppAt("erase") /\ AppEnds
    /\ sent' = RemoveAt(sent, app.i)
    /\ UNCHANGED <<Quiet, torchVars, paramVars, deviceVars, live, held, kept, videoVars, shots>>

(* disable_msg_type of CAMERA_MSG_VIDEO_FRAME sweeps the vector first.      *)
DisableVideoFrames ==
    /\ Free /\ ~recording /\ Used("video") /\ AppGoes("sweep")
    /\ UNCHANGED <<Quiet, torchVars, paramVars, deviceVars, sent, live, held, kept,
                   videoVars, shots>>

TakePicture ==
    /\ Free /\ Used("picture") /\ shots = 0 /\ shots' = 2
    /\ torch' = (torch /\ ~Soc)
    /\ UNCHANGED <<Quiet, thread, exiting, paramVars, deviceVars, sent, live, held, kept,
                   videoVars, app>>

CancelPicture ==
    /\ Free /\ shots > 0 /\ shots' = 0
    /\ UNCHANGED <<Quiet, torchVars, paramVars, deviceVars, sent, live, held, kept,
                   videoVars, app>>

SetCameraParameters ==
    /\ Free
    /\ \E s \in Settings[camera] : SetParameters(s[1], s[2], s[3])
    /\ UNCHANGED <<Quiet, deviceVars, sent, live, held, kept, videoVars, shots, app>>

-----------------------------------------------------------------------------
(* releaseCameraFrames: one frame at a time up to the vector's end, which is *)
(* read afresh each time; then the vector is cleared, with what came since.  *)

InSweep == app.pc \in {"sweep", "sweepRel"}

SweepFrame ==
    /\ Alive /\ InSweep /\ app.i <= Len(sent)
    /\ live' = live \ {sent[app.i]}
    /\ app' = [app EXCEPT !.i = @ + 1]
    /\ UNCHANGED <<Quiet, torchVars, paramVars, deviceVars, sent, held, kept, videoVars, shots>>

SweepEnds ==
    /\ Alive /\ InSweep /\ app.i > Len(sent)
    /\ app' = [app EXCEPT !.pc = IF @ = "sweep" THEN "clear" ELSE "clearRel"]
    /\ UNCHANGED <<Quiet, torchVars, paramVars, deviceVars, sent, live, held, kept,
                   videoVars, shots>>

MutClearFrames ==
    /\ Alive /\ app.pc \in {"clear", "clearRel"}
    /\ slipped' = slipped \cup ToSet(SubSeq(sent, app.i, Len(sent)))
    /\ IF AppAt("clear") THEN AppEnds ELSE AppGoes("dropData")
    /\ UNCHANGED <<camera, drawVars, cb, fault, torchVars, paramVars, deviceVars, live,
                   held, kept, videoVars, shots, sent>>

ClearFrames ==
    /\ Alive /\ app.pc \in {"clear", "clearRel"}
    /\ slipped' = slipped \cup ToSet(SubSeq(sent, app.i, Len(sent)))
    /\ sent' = <<>>
    /\ IF AppAt("clear") THEN AppEnds ELSE AppGoes("dropData")
    /\ UNCHANGED <<camera, drawVars, cb, fault, torchVars, paramVars, deviceVars, live,
                   held, kept, videoVars, shots>>

-----------------------------------------------------------------------------
(* camera_release and camera_device_close.                                 *)

Release ==
    /\ Free /\ AppGoes("sweepRel") /\ overlay' = FALSE
    /\ UNCHANGED <<Quiet, torchVars, paramVars, dev, opens, window, clientData, sent, live,
                   held, kept, videoVars, shots>>

ReleaseData ==
    /\ Alive /\ AppAt("dropData") /\ AppGoes("nullData")
    /\ clientData' = IF clientData = "null" THEN "null" ELSE "freed"
    /\ fault' = IF clientData = "freed" THEN "double release" ELSE "no"
    /\ UNCHANGED <<camera, torchVars, paramVars, dev, opens, window, overlay, frameVars,
                   videoVars, drawVars, shots, cb>>

ReleaseNulls ==
    /\ Alive /\ AppAt("nullData") /\ AppGoes("library")
    /\ clientData' = "null"
    /\ UNCHANGED <<Quiet, torchVars, paramVars, dev, opens, window, overlay, sent, live,
                   held, kept, videoVars, shots>>

(* The library's release ends its calls; then the wrapper is destroyed.     *)
ReleaseLibrary ==
    /\ Alive /\ AppAt("library") /\ At("idle") /\ AppGoes("torchOff")
    /\ dev' = "released" /\ recording' = FALSE /\ shots' = 0 /\ kept' = 0
    /\ UNCHANGED <<Quiet, torchVars, paramVars, opens, window, overlay, clientData, sent,
                   live, held, prevDropped, lastVideo>>

(* ~MotoCameraWrapper puts the torch out before it stops the thread.        *)
DestroyTorchOff ==
    /\ Alive /\ AppAt("torchOff") /\ AppGoes("torchSignal")
    /\ torch' = (torch /\ ~Soc) /\ UNCHANGED <<NotTorch, thread, exiting, cb>>

DestroySignals ==
    /\ Alive /\ AppAt("torchSignal") /\ AppGoes("torchRequest") /\ Signal
    /\ UNCHANGED <<NotTorch, cb>>

DestroyRequests ==
    /\ Alive /\ AppAt("torchRequest") /\ AppGoes("torchWait") /\ RequestExit
    /\ UNCHANGED <<NotTorch, cb>>

DestroyWaits ==
    /\ Alive /\ AppAt("torchWait") /\ AppEnds /\ Ended
    /\ UNCHANGED <<NotTorch, cb>>

(* The device is freed, not destroyed: what the vector and clientData still *)
(* point to is lost.                                                        *)
Close ==
    /\ Alive /\ dev = "released" /\ AppAt("idle")
    /\ dev' = "closed"
    /\ window' = None /\ clientData' = "null" /\ sent' = <<>>
    /\ live' = {} /\ slipped' = {} /\ held' = {} /\ out' = {} /\ replaced' = {}
    /\ UNCHANGED <<camera, torchVars, paramVars, opens, overlay, kept, videoVars, shots,
                   cb, app, fault>>

CallbackNext ==
    \/ VideoDropped \/ VideoTaken \/ VideoNoMemory \/ PreviewData \/ PictureData
    \/ OverlayFrame \/ NotifyFocus

CallbackGoesOn ==
    \/ VideoPush \/ VideoPost \/ VideoReturn
    \/ DataDrop \/ DataMake \/ DataPost \/ DataDone \/ OverlayFormat
    \/ Dequeue \/ LockBuffer \/ Enqueue
    \/ ScheduleSignals \/ ScheduleRequests \/ ScheduleRuns

AppNext ==
    \/ Open \/ SetPreviewWindow \/ StartRecording \/ StopRecording
    \/ ReleaseRecordingFrame \/ DisableVideoFrames \/ TakePicture \/ CancelPicture
    \/ SetCameraParameters \/ Release \/ Close

AppGoesOn ==
    \/ EraseFrame \/ SweepFrame \/ SweepEnds \/ ClearFrames
    \/ ReleaseData \/ ReleaseNulls \/ ReleaseLibrary
    \/ DestroyTorchOff \/ DestroySignals \/ DestroyRequests \/ DestroyWaits

Next == CallbackNext \/ CallbackGoesOn \/ TorchThread \/ AppNext \/ AppGoesOn

(* Threads that are in the middle of a call go on.                          *)
Spec ==
    /\ Init /\ [][Next]_vars
    /\ WF_vars(CallbackGoesOn) /\ WF_vars(AppGoesOn) /\ WF_vars(TorchThread)

-----------------------------------------------------------------------------
(* Properties.                                                             *)

Pushed == At("post") \/ At("return")
Swept == IF Walking THEN IF AppAt("erase") THEN {sent[app.i]}
                         ELSE ToSet(SubSeq(sent, 1, app.i - 1))
                    ELSE {}

(* As long as nothing faulted, the frames whose memory is not released are  *)
(* those of the vector that no sweep or release has passed, the one about   *)
(* to be pushed, and those that slipped past a sweep before the vector was  *)
(* cleared; the encoder has each of them or is about to get it, so a frame  *)
(* it gave back is never lost; and every preview buffer went back to its    *)
(* window, unless the window was replaced while the buffer was out          *)
(* (dataTimestampCallback, releaseCameraFrames, processPreviewData).        *)
FramesAccounted ==
    Alive =>
        /\ live = (ToSet(sent) \ Swept) \cup slipped
                    \cup (IF At("push") THEN {cb.mem} ELSE {})
        /\ IsInjective(sent)
        /\ live \ slipped \subseteq
              held \cup (IF At("push") \/ At("post") THEN {cb.mem} ELSE {})
        /\ out \subseteq replaced \cup (IF Drawing THEN {cb.win} ELSE {})

(* The process dies only where the threads collide: of the vector, while it *)
(* is swept or erased from; of released data, while the device is being     *)
(* released; of the window or the overlay, once they are taken away.        *)
FaultsNeedTwo ==
    /\ fault = "vector" => Walking
    /\ fault \in {"double release", "stale data"} =>
          app.pc \in {"nullData", "library"}
    /\ fault = "null window" => window = None
    /\ fault = "null overlay" => ~overlay

(* Back pressure (comment at 80 to 92): at most one frame more than the hard *)
(* threshold is with the encoder, and below that threshold no two            *)
(* consecutive frames are dropped.                                           *)
Backpressure == Len(sent) <= Hard + 1 /\ lastVideo # "dropped too"

(* After the last message of a picture the torch comes back, if the flash   *)
(* mode still asks for it, no other picture is taken and the device is not  *)
(* released (scheduleTorch, threadLoop).                                    *)
TorchComesBack ==
    (At("signal") /\ TorchWanted) ~>
        (torch \/ ~TorchWanted \/ shots > 0 \/ app.pc # "idle" \/ dev # "open" \/ ~Alive)

(* What the application reads back after setting an exposure is at most one *)
(* step from it, and setting that changes nothing more: an application that *)
(* writes back what it reads does not drift (setParameters, getParameters). *)
ExposureSettles ==
    LET got == ExposureParam(offset) IN
    /\ Abs(got - asked) <= 1
    /\ ExposureParam(ExposureOffset(got)) = got

(* It reads what it set (MotoCameraWrapper.cpp, comment at 449 and 450).     *)
ExposureSurvives == ExposureParam(offset) = asked
=============================================================================
