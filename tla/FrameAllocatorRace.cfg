CONSTANTS
  CPUs = {p1, p2}
  NoCPU = NoCPU
  Null = Null
  PageSize = 4
  Word = 1024
  MaxBuffer = 12
  Slack = 1
  MaxComplete = 4
  BlockFrames = {1}
  MaxCalls = 3
  Regions <- TouchingRegions
SPECIFICATION Spec
CONSTRAINT RaceOrder
CHECK_DEADLOCK FALSE
INVARIANT EveryPageOnce
