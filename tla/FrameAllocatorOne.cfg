CONSTANTS
  CPUs = {p1}
  NoCPU = NoCPU
  Null = Null
  PageSize = 4
  Word = 1024
  MaxBuffer = 4
  Slack = 1
  MaxComplete = 2
  BlockFrames = {2, 3}
  MaxCalls = 2
  Regions <- OneCPURegions
SPECIFICATION Spec
CHECK_DEADLOCK FALSE
INVARIANT TypeOK
INVARIANT EveryPageOnce
INVARIANT ListSorted
INVARIANT NoRegionLost
INVARIANT MemoryAccounted
PROPERTY ImplementsFramePool
