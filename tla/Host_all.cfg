\* Commands of one user that overlap, fail and are killed once.
SPECIFICATION Spec
CONSTANTS
    Clis = {1, 2}
    MaxPid = 3
    MaxFaults = 1
    Launchers = {1, 2}
    MaxWorker = 3
    MaxBroker = 2
    MaxWFaults = 1
    Deploys = {1, 2}
    MaxService = 3
    Ports = {1, 2, 3}
    MaxDFaults = 1
    Owners = {1, 2}
    MaxGen = 3
    MaxBegun = 3
    MaxCFaults = 1
    Setters = {1, 2}
    ProxyPorts = {1, 2}
    MaxSet = 3
    MaxHFaults = 1
    Tools = {1, 2}
    MaxToken = 1
    MaxOps = 4
    MaxRetries = 1
    MaxQFaults = 1
    MaxRows = 5
    PageSizes = {1, 2}
    ItemBudgets = {1, 2, 3}
    PageBudgets = {1, 2, 3}
    MaxAdded = 1
    Sides = {0, 1}
    Artifacts = {"macos", "linux", "windows"}
    CliLogs <- MCCliLogs
    BrokerLogs <- MCBrokerLogs
    MaxUnits = 2
    MaxZip = 22
    MaxBundleFaults = 1
CHECK_DEADLOCK FALSE
INVARIANTS
    ProcessesOwned
    
    
PROPERTIES
    BrokerCommandsEnd
    WorkerServes
    
    CommandsDone
