CONSTANTS
    Tasks <- MCTasks
    Inf = 1000
    DeadEnd = 999
    None = None
SPECIFICATION Spec
INVARIANTS TypeOK IncrementalIsFull CutsAreLandmarks Admissible AnswerRight
PROPERTY Terminates
\* A panic ends the program.
CHECK_DEADLOCK FALSE
