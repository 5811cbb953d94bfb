SPECIFICATION Spec
CHECK_DEADLOCK FALSE
CONSTANTS
  NEvents = 2
  BlockWords = 2
  Blocks = 2
  FifoWords = 2
  MigWords = 3
  MaxOld = 1
  MaxLate = 1
INVARIANTS
  TypeOK ReadAfterCapture EventIsCapture
PROPERTIES
  EventComes
