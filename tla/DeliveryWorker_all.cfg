\* Both authentication modes, spool on and off, one restart.
SPECIFICATION FairSpec
CONSTANTS
    b1 = b1
    b2 = b2
    none = none
    NoToken <- none
    Tokens <- TwoTokens
    MaxEvents = 2
    MaxRequests = 2
    MaxStarts = 2
CHECK_DEADLOCK FALSE
INVARIANTS RetainedUnlessAbandoned SpoolOrdered DuplicateOnlyAfterFault CredentialUse
PROPERTIES ControlAnswered
