SPECIFICATION Spec
CONSTANTS
  Size = 2
  Burst = 1
  Words = 4
  InDepth = 2
  OutDepth = 1
  DataDepth = 4
  CmdqDepth = 2
  Begins = {1}
  Posts = {2}
  RdEnds = {2}
INVARIANTS
  DataBeforeCommand PostTriggerBound ReadRight
PROPERTIES
  StoredInOrder CaptureAndReadEnd
