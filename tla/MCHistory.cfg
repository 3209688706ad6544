CONSTANTS
    m1 = m1
    f1 = f1
    r1 = r1
    Messages = {m1, f1, r1}
    Rest = {r1}
    Far = {f1}
    Passes = {f1}
    Fails = {f1, r1}
    Limits = {1, 3}
    MaxLimit = 2
    MaxTime = 3
SPECIFICATION Spec
INVARIANTS
    TypeOK
    WalkInOrder
    NothingMissed
CHECK_DEADLOCK FALSE
