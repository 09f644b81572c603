CONSTANTS
    MaxReq = 2
    MaxExtra = 0
    MaxFail = 0
SPECIFICATION Spec
INVARIANT
    OwnConf
