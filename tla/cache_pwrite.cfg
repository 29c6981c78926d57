SPECIFICATION Spec
CONSTANTS
    TotalN = 2
    Data = {d1, d2}
    NULL = NULL
    MaxBuffers = 3
    MmapRW = FALSE
    NThreads = 1
    PacketSize = 0
    MaxUnits = 4
    Capacity = 1
    EvictionType = "pool"
    MaxOps = 3
SYMMETRY DataSymmetry
INVARIANTS UnsyncedIsDirty VictimIsSynced
PROPERTIES ImplementsDevice EvictorIsServed
CHECK_DEADLOCK FALSE
