SPECIFICATION Spec
CHECK_DEADLOCK FALSE
CONSTANTS
  NEvents = 2
  BlockWords = 2
  Blocks = 2
  FifoWords = 1
  MigWords = 2
  MaxOld = 0
  MaxLate = 2
INVARIANTS
  ReadAfterCapture
