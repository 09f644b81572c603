SPECIFICATION FairSpec
CONSTANTS
    StartByte = 7
    MaxByte = 9
    BufSize = 7
    DataByte = {7}
    FifoSize = 2
    Requests <- MCRequests
    MaxDisturbances = 1
INVARIANTS
    TypeOK
    NeverDeaf
PROPERTIES
    DispatchesWhatWasSent
    MessageContract
    Recovers
CHECK_DEADLOCK FALSE
