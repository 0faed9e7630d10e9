CONSTANTS
    Clients = {c1, c2}
    Controller = c1
    StateCommands = {loaded, idle}
    OtherCommands = {flush}
    LoadedState = loaded
    QueueMax = 3
    MaxUnfinished = 2
    MaxSent = 4
SPECIFICATION FairSpec
INVARIANT InOrder
INVARIANT LeavesLast
INVARIANT NewStateIsLastAsked
PROPERTY DeInitReturns
CHECK_DEADLOCK FALSE
