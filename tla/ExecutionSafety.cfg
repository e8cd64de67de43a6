SPECIFICATION Spec
CONSTANTS
    Orders = {o1, o2}
    NoOrder = NoOrder
    Quantity = 3
    MaxRetries = 1
    SubmitOutcomes <- Unreliable
    DedupByClientID = TRUE
    MaxMessages = 2
    MaxRestarts = 0
SYMMETRY Symmetry
INVARIANTS
    TypeOK
    UnitsCountedAtMostTwice
    PartialIsExact
    FilledPublishedAtMostTwice
PROPERTIES
    VisibleTransitions
    FilledIsStable
