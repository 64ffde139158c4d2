SPECIFICATION MCSpec
CONSTANTS
  Writers = {w1}
  Readers = {r1}
  Closers = {c}
  Bytes = {0, 1}
  Size = 3
  Writes <- MCWrites
  Reads <- MCReads
  Signals = TRUE
  None = None
  Clients = {c1}
  Servers = {s1, s2}
  Pollers = {c1}
  MaxMsgs = 2
  MaxSignals = 2
  Nodes = {n1, n2, n3}
  Wakers = {w1, w2}
  TaskList = TaskList
CHECK_DEADLOCK FALSE
INVARIANTS EofIsEnd ListIsExact
PROPERTIES ImplementsByteQueue NextWriteWakes 
