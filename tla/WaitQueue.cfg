SPECIFICATION FairSpec
CONSTANTS
  Threads = {t1, t2}
  Queues = {q1, q2}
  q1 = q1
  q2 = q2
  None = None
  Calls <- AllTheCalls
INVARIANTS SleeperIsQueued NoDanglingEntry NonExclusiveFirst OnlySleepStops
PROPERTY WokenReturns
CHECK_DEADLOCK FALSE
