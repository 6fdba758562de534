SPECIFICATION Spec
CONSTANTS
    Items = {i1}
    Users = {u1, u2}
    Jobs = {j1}
    Costs = {0, 1, 2}
    Price = 1
    Accounts = {a1, a2}
    DefaultAccount = a1
    None = None
    MaxAttempts = 2
    MaxOps = 3
    MaxFaults = 1
    Faults = {"timeout", "refused"}
SYMMETRY Symmetry
CHECK_DEADLOCK FALSE
INVARIANTS TypeOK PurchaseFollowsItem OnePurchase PurchaseKept
