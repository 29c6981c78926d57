SPECIFICATION Spec
CONSTANTS
    MaxBuffers = 4
    MaxNodes = 5
    StampModulus = 4
    MaxTime = 2
    TotalN = 2
    Capacity = 2
    MaxHits = 1
PROPERTIES FIFONeverOvertakes
CHECK_DEADLOCK FALSE
