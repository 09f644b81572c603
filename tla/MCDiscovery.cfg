SPECIFICATION Spec
CONSTANTS
    Addr <- MCAddr
    Ep <- MCOne
    Cluster <- MCOne
    Attr <- MCOne
    MaxJobs = 2
    MaxStray = 0
    MaxFaults = 0
    MaxReq = 12
INVARIANTS
    TypeOK
    LogicalIsPhysical
    IteratorsValidWhenPrompt
    DiscoveryComplete
    NoWaitUnderLock
