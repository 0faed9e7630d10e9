CONSTANTS
    InBuffers = {i1}
    OutBuffers = {o1, o2}
    Images = {f1, f2}
    NoImage = none
    MinFrames = 1
    MaxChange = 2
    MaxAlloc = 16
    MaxUsable = 6
    QueueMax = 4
    Scenarios <- LiveScenarios
SPECIFICATION FairSpec
PROPERTY CommandsComplete
PROPERTY EosReported
CHECK_DEADLOCK FALSE
