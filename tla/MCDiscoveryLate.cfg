SPECIFICATION Spec
CONSTANTS
    Addr <- MCAddr
    Ep <- MCOne
    Cluster <- MCOne
    Attr <- MCOne
    MaxJobs = 2
    MaxStray = 1
    MaxFaults = 0
    MaxReq = 7
INVARIANT
    NoDanglingUse
