CONSTANTS
    Capacity <- MCCapacity
    Calls <- CutCalls
SPECIFICATION Spec
CHECK_DEADLOCK FALSE
INVARIANTS
    InputInOrder
