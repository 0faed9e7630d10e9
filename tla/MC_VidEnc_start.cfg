CONSTANTS
    InBuffers = {i1, i2}
    OutBuffers = {o1, o2}
    MaxChange = 5
    MaxAlloc = 3
    QueueMax = 4
    Modulus = 3
    Scenarios <- StartScenarios
SPECIFICATION FairSpec
PROPERTY CommandsComplete
CHECK_DEADLOCK FALSE
