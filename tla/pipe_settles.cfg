CONSTANTS
    p1 = p1
    o1 = o1
    i1 = i1
    c1 = c1
    k1 = k1
    d1 = d1
    r1 = r1
    l1 = l1
    NoPos = NoPos
    NoLeg = NoLeg
    NoSig = NoSig
    Pos = {p1}
    Leg = {l1}
    Sig = {o1, c1}
    ModeOf <- MCModeOf
    ReasonOf <- MCReasonOf
    LegOf <- MCLegOf
    SeqOf <- MCSeqOf
    MinOrderShares = 1
    MaxQty = 1
    MaxSeq = 2
    MaxFill = 1
    MaxSent = 1
    MaxFaults = 2
SPECIFICATION WatchedSpec
CHECK_DEADLOCK FALSE
INVARIANTS
    OrderPlacedOnce
PROPERTIES
    EntriesSettle
    OrdersSettle
    ClosesEnd
    LedgerSpec
