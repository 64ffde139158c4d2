SPECIFICATION Spec
CONSTANTS
  Clients = {c1}
  Servers = {s1, s2}
  Pollers = {c1}
  MaxMsgs = 2
  MaxSignals = 2
CHECK_DEADLOCK FALSE
INVARIANT AwaitSeesReady
