SPECIFICATION FairSpec
CONSTANTS
    Orders = {o1}
    NoOrder = NoOrder
    Quantity = 2
    MaxRetries = 1
    SubmitOutcomes <- Unreliable
    DedupByClientID = FALSE
    MaxMessages = 1
    MaxRestarts = 1
INVARIANTS
    FailedUsedEveryAttempt
PROPERTIES
    SubmissionSettles
    SubmittedGetsFilled
