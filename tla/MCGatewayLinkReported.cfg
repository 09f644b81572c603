CONSTANTS
    MaxReq = 1
    MaxExtra = 0
    MaxFail = 0
SPECIFICATION Spec
INVARIANT
    FailureIsReported
