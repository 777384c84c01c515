CONSTANTS
    Tasks <- LimitTasks
    Modes = {"fwbw"}
    StepLimit = TRUE
    Unit = 10
    MaxCost = 1000
SPECIFICATION Spec
INVARIANT OptimalAfterLimit
\* A search stops.
CHECK_DEADLOCK FALSE
