\* Two updates racing for the mutex, two faults.
SPECIFICATION FairSpec
CONSTANTS
    u1 = u1
    u2 = u2
    v0 = v0
    v1 = v1
    bad = bad
    inherit = inherit
    Updates <- Pair
    Values <- TwoValues
    Default <- v0
    Invalid <- bad
    Inherit <- inherit
    MaxFaults = 2
CHECK_DEADLOCK FALSE
INVARIANTS LiveIsDurable NoLostUpdate AlwaysLoadable
PROPERTIES UpdatesDecided
