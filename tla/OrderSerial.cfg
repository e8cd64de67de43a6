\* The bounds let the system come to rest: the consumer may have stopped and every
\* id, message and restart may be used up.
CHECK_DEADLOCK FALSE
SPECIFICATION FairSpec
CONSTANTS
    OrderIDs = {id1, id2}
    PostedIDs = {}
    NoOrder = NoOrder
    Decisions = {d1, d2}
    Invalid = {d2}
    Workers = {w1}
    Quantity = 1
    FillStatuses <- AnyFill
    Targets <- AnyTarget
    MaxMessages = 2
    MaxRestarts = 1
INVARIANTS
    OneOrderPerDecision
    CanceledEventStands
PROPERTIES
    ImplementsLifecycle
    TopicIsDrained
