\* One flow: every framing and flaw, plain, declined and accepted upgrades.
SPECIFICATION FairSpec
CONSTANTS
    RequestBodies <- MCRequestBodies
    ResponseBodies <- MCResponseBodies
    Tunnels <- MCTunnels
    BodyLimit = 2
    HeaderBytes = 6
    QueueCapacity = 1
CHECK_DEADLOCK FALSE
INVARIANTS
    ObservedInOrder
    ExchangeExact
    BoundedMemory
    ForwardsOneMessage
PROPERTY
    FlowEnds
