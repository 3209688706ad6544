CONSTANTS
    c1 = c1
    c2 = c2
    NoEntry = NoEntry
    Callers = {c1, c2}
    Ttl = 2
    Latency = 2
    MaxVersion = 2
    MaxTime = 6
SPECIFICATION Spec
INVARIANTS
    TypeOK
    BoundedStaleness
SYMMETRY Symmetry
CHECK_DEADLOCK FALSE
