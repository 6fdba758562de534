SPECIFICATION Spec
CONSTANTS
    NoRule = NoRule
    NoDate = 0
    Calendar <- MCCalendar
    MaxSteps = 3
    Starts <- MCStarts
    Dues <- MCDues
    Ends <- MCEnds
    Spellings <- MCSpellings
    Start <- MCStart
    Times <- MCTimes
    MaxFaults = 1
    MaxWalk = 40
    Clients = {c1, c2}
CHECK_DEADLOCK FALSE
INVARIANTS TypeOK NextAgrees ScheduleConsistent RuleHonored RemindedOnce
PROPERTIES ComesBack Reminded
