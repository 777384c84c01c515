CONSTANTS
    Tasks <- MCTasks
    Modes = {"fw", "bw", "fwbw"}
    StepLimit = TRUE
    Unit = 10
    MaxCost = 1000
SPECIFICATION Spec
INVARIANTS TypeOK ClosedExact MeetingHolds PlanCorrect AnswerRight
PROPERTY Terminates
\* A search stops.
CHECK_DEADLOCK FALSE
