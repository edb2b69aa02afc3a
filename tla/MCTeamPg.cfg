SPECIFICATION Spec
CONSTANTS
    Ids = {m1, m2, m3}
    Users = {u1, u2, u3}
    Invs = {i1, i2}
    Requests = {r1, r2}
    Gone = Gone
    Seats = 2
    Isolations = {"readCommitted"}
SYMMETRY Symmetry
INVARIANTS
    SeatLimit
CHECK_DEADLOCK FALSE
