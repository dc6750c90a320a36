\* A shutdown client may disconnect while the proxy drains.
SPECIFICATION Spec
CONSTANTS
    c1 = c1
    c2 = c2
    c3 = c3
    r1 = r1
    r2 = r2
    Clients <- ThreeClients
    Requests <- TwoRequests
    MaxConnections = 2
CHECK_DEADLOCK FALSE
INVARIANTS StoppedMeansReleased
