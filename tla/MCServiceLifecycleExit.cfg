SPECIFICATION Spec
CONSTANT
    MaxReset = 1
PROPERTY
    LoopEndsOnExit
