SPECIFICATION Spec
CONSTANTS
    l1 = l1
    l2 = l2
    a = a
    b = b
    Lists = {l1, l2}
    Items = {a, b}
    ListOf <- MCListOf
    Selections = {{a, b}}
    MaxQuantity = 2
    None = None
    MaxOps = 3
    MaxLoads = 3
    MaxFaults = 1
SYMMETRY Symmetry
CHECK_DEADLOCK FALSE
INVARIANTS TypeOK UndoneIsNeverSent OneToastPerToggle PageAgrees
