CONSTANTS
    Attributes = {a1, a2}
    TickWrap = 5
    RepeatLatency = 1
    MaxSendCount = 2
    Horizon = 7
    LatDiscovery = 2
    LatAttributes = 1
    LatAlarms = 1
    Latency <- MCLatency
SPECIFICATION Spec
INVARIANTS
    TypeOK
    SendLimit
    OnlyOutOfRangeIsSent
PROPERTIES
    RepeatRespectedInEpoch
    
    JobsOnTime
    NotSkipped
