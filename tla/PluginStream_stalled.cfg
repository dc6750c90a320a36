\* Orderly shutdown when p2 may stop reading without leaving.
SPECIFICATION FairSpec
CONSTANTS
    p1 = p1
    p2 = p2
    Plugins <- Two
    Readers <- OnlyFirst
    Capacity = 1
    PipeFrames = 1
    MaxEvents = 2
CHECK_DEADLOCK FALSE
PROPERTIES ShutdownCompletes
