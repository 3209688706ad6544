CONSTANTS
    n1 = n1
    n2 = n2
    b = b
    c = c
    b1 = b1
    c1 = c1
    c2 = c2
    h1 = h1
    t1 = t1
    m1 = m1
    m2 = m2
    r1 = r1
    Nobody = Nobody
    Nodes = {n1, n2}
    Users = {b, c}
    Sessions = {b1, c1, c2}
    NodeOf <- MCNodeOf
    UserOf <- MCUserOf
    Members = {b, c}
    Messages = {h1, t1, m1, m2, r1}
    Kind <- MCKind
    Author <- MCAuthor
    Origin <- MCOrigin
    Before <- MCBefore
    RxCapacity = 2
    Fails = {r1}
    Leavers = {c2}
    Lossy = {n2}
SPECIFICATION Spec
INVARIANTS
    TypeOK
    NoDuplicate
    SenderOrder
    ReachesAudience
PROPERTIES
    ImplementsDelivery
CHECK_DEADLOCK FALSE
