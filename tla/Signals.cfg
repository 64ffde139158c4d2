SPECIFICATION Spec
CONSTANTS
  Senders = {k1, k2}
  NSigs = 3
  IgnoredSigs = {2}
  Handlers = {h1, h2}
  SIG_DFL = SIG_DFL
CHECK_DEADLOCK FALSE
INVARIANT HandlerIsRun
