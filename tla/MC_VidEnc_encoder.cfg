CONSTANTS
    InBuffers = {i1, i2}
    OutBuffers = {o1, o2}
    MaxChange = 5
    MaxAlloc = 3
    QueueMax = 4
    Modulus = 3
    Scenarios <- EncoderScenarios
SPECIFICATION FairSpec
INVARIANT NoWorkForgotten
INVARIANT HeldByOneSide
INVARIANT NoFault
PROPERTY KeepsItsPromise
CHECK_DEADLOCK FALSE
PROPERTY InputReturned
