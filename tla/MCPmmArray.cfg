SPECIFICATION Spec
CONSTANTS
  EarlyArray = EarlyArray
  LastMfn = 10
  TopOrder = 2
  Mfns <- MCMfns
  MAX_PAGE_ORDER = 2
  Size <- MCSize
  BootFrames <- EarlyOnly
  ReclaimMfns = {}
  ARRAY_SIZE = 3
  MIN_FREE_FRAMES_THRESHOLD = 2
  WORD = 64
  MaxHeld = 4
INVARIANTS
  ArrayAssert
CHECK_DEADLOCK FALSE
