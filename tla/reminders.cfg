SPECIFICATION Spec
CONSTANTS
    t1 = t1
    t2 = t2
    Due <- MCDue
    Recurring = {t1}
    SummaryTimes = {2}
    TTL = 0
    Handlers = {h1}
    None = None
    MaxNow = 2
    MaxWrites = 2
    MaxFaults = 1
CHECK_DEADLOCK FALSE
INVARIANTS TypeOK StaysQuiet PhoneMatchesRecords
 
