SPECIFICATION Spec
CONSTANTS
  Waiters = {w1}
  Setters = {s1}
  Values = {0, 1}
  Initials = {0}
  MaxWaits = 1
  MaxSets = 1
  Signals = FALSE
CHECK_DEADLOCK FALSE
PROPERTY SleepsOnExpected
