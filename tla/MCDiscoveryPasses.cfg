SPECIFICATION FairSpec
CONSTANTS
    Addr <- MCOne
    Ep <- MCOne
    Cluster <- MCOne
    Attr <- MCOne
    MaxJobs = 3
    MaxStray = 0
    MaxFaults = 1
    MaxReq = 12
INVARIANTS
    OnlineMeansAnswered
    HistoryIsFresh
PROPERTY
    JobEnds
