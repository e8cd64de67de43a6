SPECIFICATION Spec
CONSTANTS
    r1 = r1
    c1 = c1
    c2 = c2
    Readers = {r1}
    Conns = {c1, c2}
    Kinds <- MCKinds
    Buffer = 1
    MaxFetches = 3
INVARIANTS
    EachPricePublishedOnce
PROPERTIES
    StreamsAreLossy
    RoundsEnd
\* The fetches are bounded and the requests are served once: the run stops.
CHECK_DEADLOCK FALSE
