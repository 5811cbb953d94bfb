SPECIFICATION Spec
CONSTANTS
  Off = Off
  Span = 2
  MinEdges = 1
  MaxEdges = 3
  CLK_RESET_DELAY_CNT = 4
  GBL_RESET_DELAY_CNT = 5
  CNT_RANGE_HIGH = 7
  Configs <- Configurations
  MaxSum = 9
  AgePeriod = 4
  Regmap <- Entries
  START_DELAY_CYCLE = 9
  EXT_RST_WIDTH_CYCLE = 1
  EXT_RST_DELAY_CYCLE = 2
  DataClk = 5
  Frames <- Kinds
  MaxFrames = 3
  Calls <- ThreeFrames
  PulseClocks = {5, 6, 7}
INVARIANTS
  TypeOK GateRight AveragesRight MapWritten CommandsRight FramesRight
PROPERTIES
  ResetRight PartsGetOn
