CONSTANTS
    p1 = p1
    o1 = o1
    i1 = i1
    c1 = c1
    k1 = k1
    d1 = d1
    r1 = r1
    l1 = l1
    NoPos = NoPos
    NoLeg = NoLeg
    NoSig = NoSig
    Pos = {p1}
    Leg = {l1}
    Sig = {o1, d1, k1, r1}
    ModeOf <- MCModeOf
    ReasonOf <- MCReasonOf
    LegOf <- MCLegOf
    SeqOf <- MCSeqOf
    MinOrderShares = 2
    MaxQty = 2
    MaxSeq = 0
    MaxFill = 1
    MaxSent = 1
    MaxFaults = 2
SPECIFICATION FairSpec
CHECK_DEADLOCK FALSE

    
PROPERTIES
    ResolvedIsRedeemed
