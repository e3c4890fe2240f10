CONSTANTS
  Shows <- MCShows
  NUM_COLS = 3
  NUM_ROWS = 2
  BYTE = 4
  KEY_X = 1
  KEY_Y = 1
  Keys = {"k1"}
  NoKey = NoKey
  MaxKeys = 2
  Banner <- MCBanner
  Messages <- MCMessages
  Maps <- MCMaps
  MAP_SLOTS = 5
  HIGH = 2
  RING = 2
  MaxTyped = 3
  Possible <- MCMachines
SPECIFICATION FairSpec
INVARIANT TypeOK
INVARIANT EntersPrepared
INVARIANT NoTripleFault
INVARIANT PrintInBounds
INVARIANT ScreenIsText
INVARIANT CursorMixes
INVARIANT MapHandedOver
INVARIANT GetCharFresh
PROPERTY BootEnds
PROPERTY KeysDisplayed
PROPERTY GetCharReturns
CHECK_DEADLOCK FALSE
