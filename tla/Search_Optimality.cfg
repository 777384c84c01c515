CONSTANTS
    State <- MCState
    Op <- MCOp
    NoState <- MCNoState
    NoOp <- MCNoOp
    DeadEnd <- MCDeadEnd
    Tasks <- AllTasks
    Infinity <- MCInfinity
    MaxDist <- MCMaxDist
SPECIFICATION RivalSpec
CHECK_DEADLOCK FALSE
INVARIANTS
    AStarOptimal
    AStarBeatsRival
    Complete
PROPERTIES
    ConsistentLayers
