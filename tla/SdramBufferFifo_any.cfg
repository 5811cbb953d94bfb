SPECIFICATION Spec
CONSTANTS
  Size = 1
  Burst = 1
  Words = 1
  InDepth = 1
  OutDepth = 1
  DataDepth = 2
  CmdqDepth = 1
  Begins = {0}
  Wraps = {TRUE}
  Posts = {1}
  RdEnds = {1}
  Calm = FALSE
  Stall = TRUE
  MaxStarts = 2
INVARIANTS
  TypeOK OneAtATime
