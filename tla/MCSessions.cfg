SPECIFICATION Spec
CONSTANTS
    Users = {u1}
    Teams = {tm1}
    Tokens = {t1, t2, t3}
    Requests = {r1, r2}
    None = None
    Modes = {"jwt", "opaque"}
    Isolations = {"none", "serializable", "readCommitted"}
    MaxCrashes = 1
SYMMETRY Symmetry
CONSTRAINT Small
INVARIANTS
    TypeOK
    SingleUse
    OneLivePerFamily
    EndedStaysEnded
    TeamSessionsOver
PROPERTIES
    RevokedIsFinal
    ImplementsFamilies
CHECK_DEADLOCK FALSE
