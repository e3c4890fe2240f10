CONSTANTS
  FANOUT = 4
  FrameCount = 32
  Sizes = {2}
SPECIFICATION Spec
CHECK_DEADLOCK FALSE
INVARIANT AllocVmReturns
