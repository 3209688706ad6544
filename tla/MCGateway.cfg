CONSTANTS
    u1 = u1
    s1 = s1
    s2 = s2
    NoTimer = NoTimer
    Users = {u1}
    Sessions = {s1, s2}
    Owner <- Owner2
    ClientStatus = {"idle"}
    Sleepers = {s1, s2}
SPECIFICATION Spec
INVARIANTS
    TypeOK
    CounterBalances
    StoredSessionsLive
    TakenOnce
    HandlesAreLive
    StoredAreActive
    NoGhostOnline
    GoneMeansOffline
SYMMETRY Symmetry
CHECK_DEADLOCK FALSE
