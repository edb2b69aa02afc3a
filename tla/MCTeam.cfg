SPECIFICATION Spec
CONSTANTS
    Ids = {m1, m2, m3}
    Users = {u1, u2, u3}
    Invs = {i1, i2}
    Requests = {r1, r2}
    Gone = Gone
    Seats = 2
    Isolations = {"serializable", "readCommitted", "none"}
SYMMETRY Symmetry
CONSTRAINT Small
INVARIANTS
    TypeOK
    HasOwner
    SpentIsClosed
    AcceptedMadeMember
CHECK_DEADLOCK FALSE
