SPECIFICATION Spec
CONSTANTS
    Cameras = {"CAM_SOC", "CAM_BAYER", "DROIDX", "DROID2", "DROIDPRO"}
    Windows = {"w1", "w2"}
    Frames <- BoundedFrames
    Uses <- BoundedUses
    Settings <- BoundedSettings
    OverlayUsed <- LibraryOverlay
    Throttle = 0
    Soft = 1
    Hard = 2
    MaxOpens = 2
    MaxKept = 1
INVARIANTS FramesAccounted   ExposureSettles
PROPERTIES TorchComesBack
CHECK_DEADLOCK FALSE
