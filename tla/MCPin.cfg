SPECIFICATION Spec
CONSTANTS
    Attempts = {a1, a2, a3}
    Operators = {o1}
    Users = {u1}
    Strangers = {s1}
    Pins = {p1, p2}
    None = None
    MaxFailed = 2
    LockTicks = 1
    MaxTime = 1
SYMMETRY Symmetry
INVARIANTS
    TypeOK
    GuessBudget
    ShutOut
CHECK_DEADLOCK FALSE
