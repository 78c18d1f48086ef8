SPECIFICATION MCSpec
CONSTANTS
  NumApics = 5
  ApicIds <- MCApicIds
  NotRunning = NotRunning
  NoCpu = NoCpu
  MaxStacks = 2
  Units <- MCUnits
  HwId <- MCHwId
  HwEntries <- MCHwEntries
  MAX_IOAPICS = 2
  NULL = NULL
  PAGE_SIZE = 2
  PAGE_ORDER_2M = 1
  MAX_PAGE_ORDER = 3
  MB1 = 4
  KB512 = 2
  EARLY = 12
  KernelImage <- MCKernelImage
  NoRange = NoRange
  PCI_NR_BUS = 4
  PCI_NR_DEV = 2
  PCI_NR_FUNC = 2
  MaxPciDevs = 12
INVARIANTS
  CpusDistinct
  OnlyKnownIrqs
  IsaIrqsRouted
  FaultExplained
  BootFramesAvailable
  EarlyFramesFirst
  PciFound
PROPERTIES
  ApicLegal
  BootCompletes
  Refinement
CHECK_DEADLOCK FALSE
