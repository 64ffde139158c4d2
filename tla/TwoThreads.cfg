SPECIFICATION MCSpec
CONSTANTS
  Threads = {t1, t2}
  NCpus = 2
  NQueues = 2
  BoostEvery = 0
  None = None
  Callers = {a1, a2}
  parent = parent
  forked = forked
  Procs = {parent, forked}
  Owner <- MCOwner
  Names = {a}
  NInodes = 2
  NFiles = 2
  NFds = 2
  Leaves = {"PS_INTERRUPTIBLE"}
SYMMETRY Symmetry
INVARIANTS OnePlace QueuedIsFindable InodeIsThere
