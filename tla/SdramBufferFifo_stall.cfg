SPECIFICATION Spec
CONSTANTS
  Size = 2
  Burst = 1
  Words = 4
  InDepth = 2
  OutDepth = 1
  DataDepth = 4
  CmdqDepth = 2
  Begins = {0}
  Wraps = {TRUE, FALSE}
  Posts = {1, 2}
  RdEnds = {}
  Calm = TRUE
  Stall = TRUE
  MaxStarts = 1
PROPERTIES
  StoredInOrder
