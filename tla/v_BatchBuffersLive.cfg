SPECIFICATION Spec
CONSTANTS
    TotalN = 2
    Data = {d1, d2}
    NULL = NULL
    MaxBuffers = 3
    MmapRW = TRUE
    NThreads = 1
    PacketSize = 2
    MaxUnits = 3
    Capacity = 1
    EvictionType = "single"
    MaxOps = 3
SYMMETRY DataSymmetry
INVARIANTS BatchBuffersLive
CHECK_DEADLOCK FALSE
