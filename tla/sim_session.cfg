CONSTANTS
    Pos = {p1}
    Request = {r1, r2}
    MaxFaults = 2
SPECIFICATION Spec
INVARIANTS CashOfSession
PROPERTIES WipedHoldNothing
CHECK_DEADLOCK FALSE
