\* A control client disconnects while the spool is rewritten.
SPECIFICATION Spec
CONSTANTS
    b1 = b1
    b2 = b2
    none = none
    NoToken <- none
    Tokens <- TwoTokens
    MaxEvents = 2
    MaxRequests = 2
    MaxStarts = 1
CHECK_DEADLOCK FALSE
INVARIANTS SettledRetained
