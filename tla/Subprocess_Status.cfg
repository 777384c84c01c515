CONSTANTS
    Capacity <- MCCapacity
    Calls <- HandlerCalls
SPECIFICATION Spec
CHECK_DEADLOCK FALSE
INVARIANTS
    StatusRight
