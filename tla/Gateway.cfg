SPECIFICATION Spec
CONSTANTS
    c1 = c1
    c2 = c2
    i1 = i1
    Clients = {c1, c2}
    IPs = {i1}
    Tokens = {"secret"}
    NoToken = "none"
    JWTToken = "secret"
    Paths = {"profile"}
    Window = 3
    IPLimit = 2
    UserLimit = 1
    MaxDelay = 2
    MaxTime = 6
    MaxRequests = 6
SYMMETRY MCSymmetry
INVARIANTS
    SpanIsBounded
    RefusedOnlyWhenFull
\* The requests are bounded: the run stops.
CHECK_DEADLOCK FALSE
