\* The bounds let the system come to rest: the consumer may have stopped and every
\* message, request and restart may be used up.
CHECK_DEADLOCK FALSE
SPECIFICATION Spec
CONSTANTS
    Events <- MCEvents
    Symbol <- MCSymbol
    Price <- MCPrice
    Undecodable = {broken}
    base = base
    up = up
    back = back
    again = again
    broken = broken
    Configs <- MCConfigs
    MaxStrategies = 2
    MaxMessages = 4
    MaxRequests = 3
    MaxRestarts = 1
SYMMETRY Twins
INVARIANTS
    StateMatchesPrices
    OneSignalPerMessage
    SignalsAlternate
PROPERTIES
    InactiveEmitsOnlyInHand
