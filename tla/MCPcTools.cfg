SPECIFICATION Spec
CHECK_DEADLOCK FALSE
CONSTANTS
  Off = Off
  NAddr = 2
  NStars = 3
  I2C = 0
  FMC = 2
  ClockSettings = 2
  AnswerTime = 4
  MaxTimeouts = 1
  Requests <- Lists
  Writes <- Programs
  nWfmPerChunk = 4
  fileNPt = 2
  SCOPE_MEM_LENGTH_MAX = 3
  Waves <- Views
  Beyond <- Behind
  wavDigestLen = 7
  INIT_WINDOW_WIDTH = 104
  Mantissa = 512
  Spacings = {1, 2, 4, 8, 16, 32, 64, 128, 256, 512, 1024, 2048}
  Unit = 4096
  Reads = 5
  Packets = 5
  FirstCounts = {0, 1, 7}
  Before = {11259375}
  MemWords = 2
INVARIANTS
  TypeOK SocketsRight AnswersRight FileRight ErrorsAreGaps
PROPERTIES
  PreparationRight ViewRight ChannelsRight ToolsEnd
