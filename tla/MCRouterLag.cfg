CONSTANTS
    n1 = n1
    n2 = n2
    b = b
    c = c
    b1 = b1
    c1 = c1
    c2 = c2
    h1 = h1
    t1 = t1
    m1 = m1
    m2 = m2
    r1 = r1
    Nobody = Nobody
    Nodes = {n1, n2}
    Users = {b, c}
    Sessions = {b1, c1, c2}
    NodeOf <- MCNodeOf
    UserOf <- MCUserOf
    Members = {b, c}
    Messages = {m1, m2}
    Kind <- MCKind
    Author <- MCAuthor
    Origin <- MCOrigin
    Before <- MCBefore
    RxCapacity = 1
    Fails = {}
    Leavers = {c1}
    Lossy = {}
SPECIFICATION Spec
INVARIANTS
    SubscriberDelivers
CHECK_DEADLOCK FALSE
