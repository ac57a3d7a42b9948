CONSTANTS
    MaxPos = 2
    MaxSlots = 2
    MaxFaults = 1
SPECIFICATION FairEntrySpec
CHECK_DEADLOCK FALSE
INVARIANTS
    SendsAreBounded
PROPERTIES
    LostEntriesAreSent
