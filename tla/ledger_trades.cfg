CONSTANTS
    p1 = p1
    p2 = p2
    o1 = o1
    i1 = i1
    c1 = c1
    r1 = r1
    o2 = o2
    o3 = o3
    c2 = c2
    d2 = d2
    r2 = r2
    simLeg = simLeg
    realLeg = realLeg
    NoPos = NoPos
    NoLeg = NoLeg
    ModeOf <- MCModeOf
    ReasonOf <- MCReasonOf
    LegOf <- MCLegOf
    Pos = {p1}
    Leg = {simLeg, realLeg}
    Sig = {o1, i1, c1, r1, o2, o3, c2, d2, r2}
    MinOrderShares = 2
    MaxQty = 3
    MaxSeq = 2
SPECIFICATION Spec
CHECK_DEADLOCK FALSE
INVARIANTS
    
    OneActiveSell
    PendingIsReserved
PROPERTIES
    ClosedIsFinal
    SimFillCountsOnce
    CancelledRevivedByLateFill
    
