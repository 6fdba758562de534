SPECIFICATION Spec
CONSTANTS
    Items = {i1}
    Users = {u1}
    Jobs = {j1, j2}
    Costs = {1, 2}
    Price = 1
    Accounts = {a1, a2}
    DefaultAccount = a1
    None = None
    MaxAttempts = 2
    MaxOps = 2
    MaxFaults = 2
    Faults = {"timeout", "refused", "late", "finish", "crash", "abort"}
CHECK_DEADLOCK FALSE
INVARIANTS SettledIsTrue
PROPERTIES RowsOnlyGoForward FluvCatchesUp
