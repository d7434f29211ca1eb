------------------------------ MODULE CameraMC ------------------------------
EXTENDS CameraHal

BoundedUses ==
    [CAM_SOC |-> {"picture"}, CAM_BAYER |-> {"video"},
     DROIDX |-> {"preview"}, DROID2 |-> {"preview"}, DROIDPRO |-> {}]
BoundedFrames == [c \in Cameras |-> IF c = "CAM_BAYER" THEN Hard + 1 ELSE 0]
LibraryOverlay == [c \in Cameras |-> c = "DROID2"]
BoundedSettings ==
    [c \in Cameras |->
        CASE c = "CAM_SOC" -> {<<"auto", "off", 0>>, <<"auto", "torch", 0>>,
                               <<"portrait", "torch", 0>>, <<"action", "torch", 0>>}
          [] c = "DROIDPRO" -> {<<"auto", "off", e>> : e \in -9 .. 9}
          [] OTHER -> {}]
=============================================================================
