\* Shutdown clients may disconnect; connections may never end.
SPECIFICATION FairSpec
CONSTANTS
    c1 = c1
    c2 = c2
    c3 = c3
    r1 = r1
    r2 = r2
    Clients <- ThreeClients
    Requests <- TwoRequests
    MaxConnections = 2
CHECK_DEADLOCK FALSE
INVARIANTS
    DrainRespected
PROPERTIES ShutdownExits ClientsServed
