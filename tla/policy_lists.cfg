SPECIFICATION Spec
CONSTANTS
    MaxBuffers = 4
    MaxNodes = 6
    StampModulus = 4
    MaxTime = 1
    TotalN = 3
    Capacity = 2
    MaxHits = 2
INVARIANTS TypeOK DequeSound ListMatchesCache
PROPERTIES KeepsOrder MissMakesRoom OnlyReadFaults
CHECK_DEADLOCK FALSE
