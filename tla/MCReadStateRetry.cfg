CONSTANTS
    k1 = k1
    k2 = k2
    a1 = a1
    a2 = a2
    Keys = {k1}
    Messages = {1, 2}
    Ackers = {a1, a2}
    ChunkSize = 1
    DbFails = TRUE
SPECIFICATION RetrySpec
PROPERTIES
    CountedIsFlushed
CHECK_DEADLOCK FALSE
