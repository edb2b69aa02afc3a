SPECIFICATION FairSpec
CONSTANTS
    Grants = {g1}
    Polls = {p1}
    Deciders = {w1, w2}
    Users = {u1}
    None = None
    TTL = 2
    Interval = 1
    SlowDown = 1
    MaxTime = 4
INVARIANTS
    OneDelivery
    DenialHolds
PROPERTIES
    PollingEnds
CHECK_DEADLOCK FALSE
