SPECIFICATION FairSpec
CONSTANTS
    TotalN = 2
    Data = {d1, d2}
    NULL = NULL
    MaxBuffers = 3
    MmapRW = TRUE
    NThreads = 1
    PacketSize = 2
    MaxUnits = 5
    Capacity = 1
    EvictionType = "pool"
    MaxOps = 3
INVARIANTS RequestsBalanced
PROPERTIES EvictionCompletes
CHECK_DEADLOCK FALSE
