CONSTANTS
    u1 = u1
    s1 = s1
    s2 = s2
    NoTimer = NoTimer
    Users = {u1}
    Sessions = {s1, s2}
    Owner <- Owner2
    ClientStatus = {}
    Sleepers = {}
SPECIFICATION Spec
PROPERTIES
    OnlyOwnRemoval
CHECK_DEADLOCK FALSE
