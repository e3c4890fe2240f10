CONSTANTS
  CPUs = {p1, p2}
  NoCPU = NoCPU
  Null = Null
  PageSize = 4
  Word = 1024
  MaxBuffer = 4
  Slack = 1
  MaxComplete = 1
  BlockFrames = {2}
  MaxCalls = 2
  Regions <- TightRegions
SPECIFICATION FairSpec
CHECK_DEADLOCK FALSE
INVARIANT FrameBufferInBounds
INVARIANT NoUnderflow
PROPERTY CallsEnd
