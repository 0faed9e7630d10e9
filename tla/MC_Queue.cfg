CONSTANTS
    Threads = {t1, t2, t3}
    Poppers = {t2}
    Deiniter = t1
    Elements = {a, b}
    Capacity = 2
    NoElement = none
SPECIFICATION Spec
INVARIANT RingConsistent
PROPERTY IsFifo
PROPERTY CountThenPop
CHECK_DEADLOCK FALSE
