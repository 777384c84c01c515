CONSTANTS
    Capacity <- MCCapacity
    Calls <- PassingCalls
SPECIFICATION FairSpec
CHECK_DEADLOCK FALSE
INVARIANTS
    TypeOK
    InputKept
    OutputInOrder
    OutputComplete
    KilledOnlyLate
    NothingLeft
PROPERTIES
    Returns
