CONSTANTS
    MaxQueued = 2
    Exits = {"SL"}
    MaxRetries = 2
    Ticks = 2
    MaxFaults = 1
SPECIFICATION FairSpec
CHECK_DEADLOCK FALSE
INVARIANTS
    AttemptsAreReal
PROPERTIES
    DueExitsEnd
