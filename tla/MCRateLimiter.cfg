CONSTANTS
    u1 = u1
    c1 = c1
    c2 = c2
    Users = {u1}
    Calls = {c1, c2}
    CallUser <- CallUserValue
    Unit = 2
    Capacity = 4
    Rate = 1
    Idle = 3
    Period = 2
    MaxTime = 8
    MaxGrants = 6
SPECIFICATION Spec
INVARIANTS
    TypeOK
    WindowBound
PROPERTIES
    BucketSpec
SYMMETRY Symmetry
CHECK_DEADLOCK FALSE
