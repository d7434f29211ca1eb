SPECIFICATION Spec
CONSTANTS
    Slots <- TwoSlots
    Buffers = {"pa1", "pa2"}
    Modes = {"RGB16", "ARGB32", "YUV2"}
    Crops <- CropSizes
    MaxAsks = 2
    Boards = {"omap3", "omap4", "tegra"}
    Clients = {c1, c2}
    BufferIds = {1, 2}
    Areas = {a1, a2}
    c1 = c1
    c2 = c2
    a1 = a1
    a2 = a2
    MaxLen = 2
    HeapSize <- PoolSizes
    Faults = {"heap"}
INVARIANTS   VrfbSound
SYMMETRY Symmetry
CHECK_DEADLOCK FALSE
