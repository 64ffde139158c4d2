SPECIFICATION LiveSpec
CONSTANTS
  Users = {u1, u2}
  Flusher = flusher
  NBufs = 2
  MaxOps = 3
  LowMemory = TRUE
  NoPage = NoPage
  None = None
CHECK_DEADLOCK FALSE
INVARIANTS  HeldPageStays WritesSurvive
 
