\* The bounds let the system come to rest: the consumer may have stopped and every
\* id, message and restart may be used up.
CHECK_DEADLOCK FALSE
SPECIFICATION Spec
CONSTANTS
    OrderIDs = {id1}
    PostedIDs = {id1}
    NoOrder = NoOrder
    Decisions = {d1}
    Invalid = {}
    Workers = {w1, w2}
    Quantity = 2
    FillStatuses <- AnyFill
    Targets <- AnyTarget
    MaxMessages = 0
    MaxRestarts = 0
INVARIANTS
    ExecutedWithinQuantity
PROPERTIES
    TerminalMovesOnlyByOverlap
