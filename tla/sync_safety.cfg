SPECIFICATION Spec
CONSTANTS
    TempLists = {l1}
    TempItems = {i1}
    ServerItems = {}
    None = None
    MaxWrites = 3
    MaxFaults = 1
    MaxRefusals = 1
    Overlap = FALSE
CHECK_DEADLOCK FALSE
INVARIANTS TypeOK  DuplicateOnlyAfterLoss 
PROPERTIES InQueueOrder
