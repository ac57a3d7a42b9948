CONSTANTS
    t1 = t1
    t2 = t2
    sim = sim
    Asset = {t1, t2}
    Mode = {sim}
    Portfolio <- MCPortfolio
    NoMove = NoMove
    NoReport = NoReport
    NoJob = NoJob
    MaxSeq = 2
    MaxFaults = 2
SPECIFICATION FairSpec
CHECK_DEADLOCK FALSE
INVARIANTS
    NoDuplicateMove
PROPERTIES
    MovesAreReal
    
    
