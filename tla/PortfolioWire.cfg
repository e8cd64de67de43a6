\* The bounds let the system come to rest: the consumer may have stopped and every
\* message, price update and restart may be used up.
CHECK_DEADLOCK FALSE
SPECIFICATION Spec
CONSTANTS
    Executions <- MCExecutions
    EventOf <- MCEvents
    Users = {"u"}
    Symbols = {"s"}
    Blank = ""
    NoSymbol = ""
    Prices <- MCPrices
    InitialBalance = 10000
    MatchingKeys = FALSE
    MaxMessages = 2
    MaxUpdates = 1
    MaxRestarts = 0
INVARIANT PositionsMatchFills
