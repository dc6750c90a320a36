\* Liveness and refinement: p1 keeps reading, p2 may stall at any frame.
SPECIFICATION FairSpec
CONSTANTS
    p1 = p1
    p2 = p2
    Plugins <- Two
    Readers <- OnlyFirst
    Capacity = 1
    PipeFrames = 1
    MaxEvents = 2
CHECK_DEADLOCK FALSE
PROPERTIES ReadersServed ShutdownUnlessStalled ImplementsEventStream
