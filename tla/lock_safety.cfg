CONSTANTS
    a = a
    b = b
    c = c
    d = d
    m = m
    n = n
    Task = {a, b, c, d}
    NoTask = NoTask
    Position = {m, n}
    PositionOf <- MCPositionOf
SPECIFICATION FairLockSpec
CHECK_DEADLOCK FALSE
INVARIANTS
    ExclusiveUnlessOverrun
    InOrder
PROPERTIES
    EveryCallSettles
    MapIsEmptied
