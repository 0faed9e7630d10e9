CONSTANTS
    InBuffers = {i1, i2}
    OutBuffers = {o1, o2, o3}
    Images = {f1}
    NoImage = none
    MinFrames = 1
    MaxChange = 3
    MaxAlloc = 16
    MaxUsable = 6
    QueueMax = 4
    Scenarios <- ReenabledScenarios
SPECIFICATION Spec
SYMMETRY Symmetry
INVARIANT HeldByOneSide
CHECK_DEADLOCK FALSE
