CONSTANTS
    p1 = p1
    o1 = o1
    c1 = c1
    l1 = l1
    NoPos = NoPos
    NoLeg = NoLeg
    NoSig = NoSig
    Pos = {p1}
    Leg = {l1}
    Sig = {o1, c1}
    ModeOf <- MCModeOf
    ReasonOf <- MCReasonOf
    LegOf <- MCLegOf
    SizeOf <- MCSizeOf
    MinOrderShares = 1
    MaxQty = 2
    MaxSeq = 1
    MaxFaults = 2
SPECIFICATION ReconcilingSpec
CHECK_DEADLOCK FALSE
INVARIANTS
    PostedOnce
    BookedFromTrade
PROPERTIES
    MissedFillsSettle
    LedgerSpec
