SPECIFICATION FairSpec
CONSTANT
    MaxReset = 2
INVARIANTS
    TypeOK
    ControlMeetsManager
PROPERTIES
    LoopEndsWhenHeard
    StatusOrder
    
    
