CONSTANTS
    InBuffers = {i1}
    OutBuffers = {o1, o2}
    Images = {f1, f2}
    NoImage = none
    MinFrames = 1
    MaxChange = 3
    MaxAlloc = 3
    MaxUsable = 4
    QueueMax = 4
    Scenarios <- TidyScenarios
SPECIFICATION Spec
SYMMETRY Symmetry
INVARIANT OutputRecordsAgree
INVARIANT HeldByOneSide
INVARIANT EveryImageComesBack
CHECK_DEADLOCK FALSE
