CONSTANTS
    Capacity <- MCCapacity
    Calls <- HangCalls
SPECIFICATION FairSpec
CHECK_DEADLOCK FALSE
PROPERTIES
    TimeLimitKept
