SPECIFICATION Spec
CONSTANTS
    Users = {u1}
    Teams = {tm1}
    Tokens = {t1, t2, t3}
    Requests = {r1, r2}
    None = None
    Modes = {"jwt"}
    Isolations = {"readCommitted"}
    MaxCrashes = 0
SYMMETRY Symmetry
INVARIANTS
    ForcesReLogin
CHECK_DEADLOCK FALSE
