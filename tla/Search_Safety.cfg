CONSTANTS
    State <- MCState
    Op <- MCOp
    NoState <- MCNoState
    NoOp <- MCNoOp
    DeadEnd <- MCDeadEnd
    Tasks <- AllTasks
SPECIFICATION FairSpec
CHECK_DEADLOCK FALSE
INVARIANTS
    TypeOK
    SearchTree
    OpenListed
    EntriesNotTooGood
    CurNotStale
    SuccessorsReached
    GreedyStops
    PlanCorrect
    PlanCost
PROPERTIES
    Termination
