SPECIFICATION Spec
CONSTANTS
    Items = {i1}
    Users = {u1}
    Jobs = {j1}
    Costs = {1}
    Price = 1
    Accounts = {a1}
    DefaultAccount = a1
    None = None
    MaxAttempts = 2
    MaxOps = 2
    MaxFaults = 1
    Faults = {"crash"}
CHECK_DEADLOCK FALSE
INVARIANTS CancelledIsGone
