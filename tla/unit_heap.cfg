SPECIFICATION Spec
CONSTANTS
    Key = {1, 2, 3}
    MaxUnits = 6
INVARIANTS TypeOK TreeComplete TreeAllocated
PROPERTIES ImplementsQueue KeepsHeapOrder
CHECK_DEADLOCK FALSE
