CONSTANTS
    Capacity <- MCCapacity
    Calls <- FilterCalls
SPECIFICATION FairSpec
CHECK_DEADLOCK FALSE
PROPERTIES
    ReturnsAlways
