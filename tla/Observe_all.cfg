SPECIFICATION Spec
CONSTANTS
    Flows = {f1, f2, f3}
    MaxPending = 2
    MaxDocuments = 1
    Ttl = 0
    MaxClock = 1
    MaxFrames = 4
    MaxCounter = 7
    Conversations = {1, 2}
    Files = {3, 4}
    MaxUploads = 2
    MaxUploadBytes = 3
    MaxImages = 2
    MaxImageBytes = 2
    UploadTtl = 2
    NamedFiles <- MCNamedFiles
    InlineSizes <- MCInlineSizes
    MaxUploadClock = 2
    MaxUploadCount = 3
    ParseDepth = 4
    HookPolicies <- MCHookPolicies
    Programs = {"tool"}
SYMMETRY AnyFlow
INVARIANTS
    
    
    AttributionExact
 
CHECK_DEADLOCK FALSE
