SPECIFICATION Spec
CONSTANTS
    TotalN = 2
    Data = {d1, d2}
    NULL = NULL
    MaxBuffers = 3
    MmapRW = FALSE
    NThreads = 1
    PacketSize = 2
    MaxUnits = 3
    Capacity = 1
    EvictionType = "single"
    MaxOps = 3
SYMMETRY DataSymmetry
INVARIANTS VictimIsSynced
CHECK_DEADLOCK FALSE
