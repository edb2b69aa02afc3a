SPECIFICATION StoresSpec
CONSTANTS
    Ids = {i1, i2, i3}
    Keys = {k1, k2, k3}
    Owners = {o1, o2}
    Vals = {v1, v2}
    MaxNow = 3
    MaxHits = 2
    NoUuid = NoUuid
    NoArg = NoArg
    Tried <- MCTried
SYMMETRY Symmetry
INVARIANTS
    SqliteAnswers
    PostgresAnswers
    MemoryAnswers
