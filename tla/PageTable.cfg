CONSTANTS
  FANOUT = 4
  FrameCount = 32
  Sizes = {1, 3, 6}
SPECIFICATION Spec
CHECK_DEADLOCK FALSE
INVARIANT TypeOK
INVARIANT FramesCounted
INVARIANT MappedIsHeld
INVARIANT WindowCompact
INVARIANT FaultsOnlyAtTableEnd
