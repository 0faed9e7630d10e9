SPECIFICATION FairSpec
CONSTANTS
  Threads = {t1, t2}
  Requests <- MCRequests
  MaxHandle = 4
  MaxInit = 1
  Reinit = FALSE
CHECK_DEADLOCK FALSE
INVARIANT NoFault
INVARIANT InstancesCounted
INVARIANT FailedGetLeavesNothing
PROPERTY CallsReturn
