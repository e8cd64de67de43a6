\* The decision ids and requests are bounded: the run stops.
CHECK_DEADLOCK FALSE
SPECIFICATION Pipeline
CONSTANTS
    Signals <- MCSignals
    Owners <- MCOwners
    DefaultOwner = "default"
    Owner <- MCOwner
    Value <- MCValue
    LimitSets <- TightOnly
    DefaultLimits <- Loose
    FedSnapshots <- SomeSnapshots
    DecisionIDs = {r1, r2}
    NoID = NoID
    MaxSignals = 2
    MaxRequests = 2
    MaxRestarts = 1
    OrderIDs = {id1, id2}
    NoOrder = NoOrder
    Quantity = 1
    MaxOrderRestarts = 1
SYMMETRY Symmetry
INVARIANTS
    ApprovedWithinLimits
    OneDecisionPerSignal
    OwnPolicyPrevails
    OrdersComeFromApprovals
    OneOrderPerSignalAndRestart
PROPERTIES
    DroppedOnlyUncovered
