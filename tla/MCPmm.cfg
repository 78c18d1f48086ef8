SPECIFICATION FairSpec
CONSTANTS
  EarlyArray = EarlyArray
  LastMfn = 15
  TopOrder = 2
  Mfns <- MCMfns
  MAX_PAGE_ORDER = 2
  Size <- MCSize
  BootFrames <- TwoLarge
  ReclaimMfns = {3}
  ARRAY_SIZE = 4
  MIN_FREE_FRAMES_THRESHOLD = 2
  WORD = 64
  MaxHeld = 3
INVARIANTS
  FramesPartition
  BusyFramesOwned
  CountersAgree
PROPERTIES
  LeavesA4kFrame
  OperationsEnd
  PagesGivenOnce
CHECK_DEADLOCK FALSE
