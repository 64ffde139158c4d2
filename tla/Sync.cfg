SPECIFICATION MCSpec
CONSTANTS
  Threads = {t1, t2, t3}
  Wrap = 4
  Tasks = {n1, n2, n3, n4}
  NQueues = 3
  Waiters = {t1, t2}
  Posters = {t3}
  Initial = 0
  MaxPosts = 3
  MaxWaits = 2
  Ticks = {"unlock", "relock"}
  Cpus = {cpu0}
  Delays = {0, 1}
  MaxNow = 1
  Signals = TRUE
  None = None
INVARIANTS WriterExcludesAll ReadersExact SeqsInOrder TickSeesLive
PROPERTIES  ValueIsTaken SleepEnds
