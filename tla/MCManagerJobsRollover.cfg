CONSTANTS
    Attributes = {a1}
    TickWrap = 8
    RepeatLatency = 2
    MaxSendCount = 2
    Horizon = 12
    LatDiscovery = 3
    LatAttributes = 1
    LatAlarms = 1
    Latency <- MCLatency
SPECIFICATION Spec
PROPERTY
    RepeatRespected
