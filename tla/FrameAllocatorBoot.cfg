CONSTANTS
  CPUs = {p1}
  NoCPU = NoCPU
  Null = Null
  PageSize = 4096
  Word = 1073741824
  MaxBuffer = 64
  Slack = 16
  MaxComplete = 5
  BlockFrames = {16, 17, 18, 19}
  MaxCalls = 0
  Regions <- BootRegions
SPECIFICATION BootSpec
CHECK_DEADLOCK FALSE
PROPERTY BootCompletes
