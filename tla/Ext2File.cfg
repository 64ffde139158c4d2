SPECIFICATION Spec
CONSTANTS
  NDir = 2
  Ptrs = 2
  NDisk = 24
  Garbage = {0, 1}
  MaxSize = 10
CHECK_DEADLOCK FALSE
INVARIANT GrowthAddsBlocks
