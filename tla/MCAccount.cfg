SPECIFICATION AccountSpec
CONSTANTS
    Requests = {r1, r2}
    Passwords = {p1, p2}
    Links = {l1}
    MaxFailed = 1
    Gone = Gone
    Calls = {r1, r2}
    Pendings = {p1, p2}
    MaxBatches = 2
    CodeCount = 1
    MaxFailedLogins = 2
    Absent = Absent
SYMMETRY Symmetry
INVARIANTS
    ResetIsWhole
    SessionsAreVerified
    SpentForGood
    SecondFactorMetered
PROPERTIES
    OnUntilDisabled
CHECK_DEADLOCK FALSE
