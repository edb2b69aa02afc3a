SPECIFICATION Spec
CONSTANTS
    Users = {u1, u2}
    Idents = {i1, i2}
    Rows = {a1, a2}
    Logins = {r1, r2}
    Keys = {k1, k2}
    Handles = {h1}
    Ceremonies = {c1, c2}
    MaxCount = 2
    Scopes <- MCScopes
    None = None
SYMMETRY Symmetry
INVARIANTS
    LinksAreProven
    KeepsACredential
    CloneEvidence
