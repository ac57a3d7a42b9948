CONSTANTS
    NoJob = NoJob
    Job = {j1, j2}
    MaxRetries = 3
    MaxEnqueued = 2
    MaxCrashes = 1
    MaxExpiries = 1
    MaxReplays = 1
SPECIFICATION FairSpec
CHECK_DEADLOCK FALSE
INVARIANTS
    ProcessingIsCurrent
    RepeatsNeedCrashes
PROPERTIES
    LostOnlyInTheGap
    Drains
