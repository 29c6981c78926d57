SPECIFICATION Spec
CONSTANTS
    MaxBuffers = 4
    MaxNodes = 5
    StampModulus = 2
    MaxTime = 6
    TotalN = 2
    Capacity = 2
    MaxHits = 2
INVARIANTS LRUFirstIsOldest
CHECK_DEADLOCK FALSE
