SPECIFICATION Spec
CONSTANTS
    MaxTokens = 3
    Requests = {r1, r2}
    MaxCodeAttempts = 2
    Gone = Gone
SYMMETRY Symmetry
INVARIANTS
    OneSignInEach
PROPERTIES
    BurnedStaysBurned
    NoOlderCode
CHECK_DEADLOCK FALSE
