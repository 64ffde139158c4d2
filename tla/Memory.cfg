SPECIFICATION MCSpec
CONSTANTS
  Procs = {p1, p2, p3}
  NAddrs = 1
  Values = {"one"}
  Zero = "zero"
  Pages = {g1, g2, g3}
  Kinds = {"anon", "shared", "file"}
  MaxLeaks = 1
  None = None
  Ranges <- MCRanges
  Sizes = {1, 2}
SYMMETRY Symmetry
CHECK_DEADLOCK FALSE
INVARIANTS  EveryPageOnce RedBlack LookupFinds HoleIsFree DeletesEachOnce
 
