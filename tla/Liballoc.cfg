CONSTANTS
  TAG = 6
  MINEXP = 1
  MAXEXP = 7
  MAXCOMPLETE = 2
  PageSize = 32
  PageCount = 3
  VmPages = 9
  INT_MAX = 268435455
  Sizes = {0, 8, 64}
  MaxHeld = 4
SPECIFICATION Spec
CHECK_DEADLOCK FALSE
INVARIANT TypeOK
INVARIANT TagsTileBlocks
INVARIANT NoFreeNeighbours
INVARIANT ListsExact
INVARIANT CompleteExact
INVARIANT HeldIsTagged
PROPERTY ImplementsHeap
PROPERTY SmallRequestsGetNewBlocks
