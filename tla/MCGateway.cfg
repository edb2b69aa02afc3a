SPECIFICATION Spec
CONSTANTS
    LimitKeys = {x1, x2, x3}
    Attempts = {r1, r2}
    Burst = 2
    Interval = 2
    MaxKeys = 2
    MaxClock = 3
    Pats = {s1, s2}
    Owners = {u1, u2}
    Calls = {r1, r2}
    Sess = {s1, s2}
    Csrfs = {x1, x2, x3}
    Requests = {r1, r2}
    Setups <- MCSetups
    Parts <- MCParts
    NoKey = NoKey
    NoPat = NoPat
    Empty = Empty
SYMMETRY Symmetry
INVARIANTS
    Metered
    RevokedIsRefused
    KeepsSignIn
    FormsPass
