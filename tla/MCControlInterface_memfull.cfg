SPECIFICATION KitSpec
CONSTANTS
  W = 3
  FifoDepth = 2
  CmdDepth = 2
  DataDepth = 1
  Commands <- MemoryCommands
  DataWords <- NoWords
  InitMem <- OwnAddress
  Flow = FALSE
  MaxOwed = 4
INVARIANTS
  MemWordNotLost
