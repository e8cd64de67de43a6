SPECIFICATION AccountsSpec
CONSTANTS
    c1 = c1
    c2 = c2
    Clients = {c1, c2}
    Emails = {"ann"}
    NoEmail = "none"
    Contents = {"key"}
    AccessTTL = 2
    RefreshTTL = 2
    MaxTime = 3
    MaxRequests = 5
    MaxRestarts = 1
SYMMETRY MCSymmetry
INVARIANTS
    OneLiveSessionPerLogin
    LogoutStands
    UpdateAnsweredStands
    DeletionsAuditedOnce
\* The requests are bounded: the run stops.
CHECK_DEADLOCK FALSE
