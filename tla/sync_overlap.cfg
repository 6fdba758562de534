SPECIFICATION Spec
CONSTANTS
    TempLists = {l1}
    TempItems = {i1}
    ServerItems = {2}
    None = None
    MaxWrites = 2
    MaxFaults = 1
    MaxRefusals = 1
    Overlap = TRUE
CHECK_DEADLOCK FALSE
INVARIANTS NoEntryLost
