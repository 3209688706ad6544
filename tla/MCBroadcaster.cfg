CONSTANTS
    n1 = n1
    n2 = n2
    u1 = u1
    u2 = u2
    Nodes = {n1, n2}
    Users = {u1, u2}
    Shown = {1, 3}
    MaxUpdates <- MCMaxUpdates
    BatchLimit = 2
    RxCapacity = 2
    Fails = {u1}
    Lossy = {n2}
    NoUser = NoUser
SPECIFICATION FairSpec
INVARIANTS
    TypeOK
    PipelineInOrder
PROPERTIES
    ViewNeverGoesBack
    ImplementsFeed
    LastStatusSeen
CHECK_DEADLOCK FALSE
