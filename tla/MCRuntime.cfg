SPECIFICATION Spec
CONSTANTS
  PAGE = 2
  PT_ENTRIES = 2
  VaPages <- MCVaPages
  SIZE_T = 1024
  Mfns <- MCMfns
  NoMfn = NoMfn
  VIRT_IDENT_BASE = 0
  VIRT_USER_BASE = 2
  VIRT_KERNEL_MAP = 48
  VIRT_KERNEL_BASE = 88
  DataBlocks <- MCDataBlocks
  Gfps <- MCGfps
  UserVas <- MCUserVas
  Areas <- MCAreas
  BootRanges <- MCBootRanges
  TmpVa = 91
  MaxVmmOps = 3
  SLAB_SIZE_MIN = 2
  SLAB_SIZE_MAX = 8
  SLAB_PAGE_SIZE = 16
  META_SLOTS = 2
  SlabPages = {1, 2, 3, 4, 5}
  Sizes = {1, 3, 8, 9}
  MaxSlabOps = 6
  LockCpus = {1, 2}
  IrqCpu = 1
  NoCpu = 0
  TopCalls <- MCTopCalls
  OSL_PAGE = 2
  Ranges <- MCRanges
  UnmappablePages = {3}
  Levels = {9, 256, 257}
  MAX_INT = 256
  MaxOslOps = 5
  MaxFrames = 2
  KEY_BUF = 3
  INPUT_BUF = 2
  VGA_SCREENS = 2
  VGA_ROWS = 3
  VGA_COLS = 3
  ComPorts = 2
  Scans = {31, 73, 42, 170, 29, 56, 83}
  Bytes = {43, 97}
  Texts <- MCTexts
  MaxEvents = 4
  VARLEN = 10
  OPT_SIZE = 18
  ULONG_MAX = 1048575
  BUF_SIZE = 8
  ParamName <- MCParamName
  Behind <- MCBehind
  Options <- MCOptions
  Brands <- MCBrands
  Leftovers <- MCLeftovers
  Prints <- MCPrints
  MaxOptions = 2
  SymbolTables <- MCSymbolTables
  TextSections = {2, 3, 4, 5, 6, 7, 8}
  Words = {1, 2, 3, 4, 5, 6, 7, 8, 9}
  StackWords = 1
  TestLists <- MCTestLists
  HANGS = HANGS
INVARIANTS
  FreeFramesUnmapped
  VmapAnswers
  SlabAccounts
  SlabReturnsPages
  DeadlocksExplained
  OslCounts
  EntryConsistent
  InputHandled
  ScreenShown
  TextRead
  TextPrinted
  SymbolsFound
PROPERTIES
  CallsEnd
CHECK_DEADLOCK FALSE
