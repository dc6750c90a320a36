SPECIFICATION Spec
CONSTANTS
    Scripts <- MCScripts
    Plans <- MCPlans
    ThisFlow = 1
    HeaderLen = 2
    WriteCap = 2
    ReadBuffer = 2
    Proxies <- MCProxies
    Listeners <- MCListeners
    Answers <- MCAnswers
    MaxHeaderBytes = 4
    MaxInformational = 1
    Chunk = 3
    Clients <- MCClients
    Policies <- MCPolicies
    Listen <- MCListen
    MaxHead = 4
    MaxPrefix = 4
    MaxHello = 5
    ReadSize = 3
    Statuses = {0, 200, 399, 400, 503}
    Connections = {1, 2}
    HostOf <- MCHostOf
    RateBucketMs = 2
    RateWindowMs = 4
    MaxRateBuckets = 3
    MaxAggregateKeys = 1
    MaxRecentFlows = 1
    MaxPersisted = 1
    MaxClock = 5
    MaxReports = 3
CHECK_DEADLOCK FALSE
INVARIANTS
    BytesFaithful
    PathFaithful
    PathAuthorised
    ErrorsFaithful
    
PROPERTIES
    PathDecided
