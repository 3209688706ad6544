CONSTANTS
    u1 = u1
    s1 = s1
    s2 = s2
    NoTimer = NoTimer
    Users = {u1}
    Sessions = {s1, s2}
    Owner <- Owner2
    ClientStatus = {}
    Sleepers = {s1}
SPECIFICATION FairSpec
PROPERTIES
    AwayGoesOffline
    SilentIsReaped
CHECK_DEADLOCK FALSE
