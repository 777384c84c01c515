CONSTANTS
    Fact <- MCFact
    Tasks <- MCTasks
SPECIFICATION Spec
INVARIANTS TypeOK Sound FwExact
PROPERTY Terminates
CHECK_DEADLOCK FALSE
