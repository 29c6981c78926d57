SPECIFICATION FairSpec
CONSTANTS
    TotalN = 2
    Data = {d1, d2}
    NULL = NULL
    MaxBuffers = 2
    MmapRW = TRUE
    NThreads = 1
    PacketSize = 3
    MaxUnits = 3
    Capacity = 2
    EvictionType = "single"
    MaxOps = 3
INVARIANTS DirtyIsCoveredOrLost
PROPERTIES EventuallySynced CloseCompletes
