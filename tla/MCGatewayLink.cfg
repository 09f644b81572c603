CONSTANTS
    MaxReq = 2
    MaxExtra = 1
    MaxFail = 1
SPECIFICATION FairSpec
INVARIANTS
    TypeOK
    NoLostWakeup
    DrainedOnExit
    FreshSignal
    OutcomeIsHonest
    OwnConfWhenPrompt
PROPERTIES
    RequestContract
    QueuedMessageIsHandled
    StopIsNoticed
