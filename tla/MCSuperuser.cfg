SPECIFICATION Spec
CONSTANTS
    Operators = {o1}
    Tokens = {t1, t2, t3}
    Pendings = {p1}
    Requests = {r1, r2}
    Isolations = {"none", "serializable", "readCommitted"}
    None = None
SYMMETRY Symmetry
INVARIANTS
    DeactivationIsFinal
PROPERTIES
    OperatorFamilies
CHECK_DEADLOCK FALSE
