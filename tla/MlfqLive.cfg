SPECIFICATION LiveSpec
CONSTANTS
  Threads = {t1, t2, t3}
  NCpus = 1
  NQueues = 3
  BoostEvery = 1
  None = None
  Leaves = {}
  Callers = {a1, a2}
  parent = parent
  forked = forked
  Procs = {parent, forked}
  Owner <- MCOwner
  Names = {a}
  NInodes = 2
  NFiles = 2
  NFds = 2
PROPERTIES NoStarvation
