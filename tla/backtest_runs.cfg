CONSTANTS
    r1 = r1
    r2 = r2
    Run = {r1, r2}
    UserOf <- MCUserOf
    MaxFaults = 2
SPECIFICATION FairSpec
CHECK_DEADLOCK FALSE
INVARIANTS
    OneReplayPerUser
PROPERTIES
    CancelledIsFinal
    CancelsEnd
    RunsEnd
