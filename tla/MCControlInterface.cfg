SPECIFICATION KitSpec
CONSTANTS
  W = 3
  FifoDepth = 2
  CmdDepth = 2
  DataDepth = 2
  Commands <- AllCommands
  DataWords <- TwoWords
  InitMem <- OwnAddress
  Flow = TRUE
  MaxOwed = 4
INVARIANTS
  TypeOK RepliesKept
PROPERTIES
  PulseThreeClocks BackToWait ImplementsServer ReplyComes
