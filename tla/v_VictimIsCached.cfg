SPECIFICATION Spec
CONSTANTS
    MaxBuffers = 4
    MaxNodes = 5
    StampModulus = 100
    MaxTime = 6
    TotalN = 2
    Capacity = 1
    MaxHits = 1
INVARIANTS VictimIsCached
CHECK_DEADLOCK FALSE
