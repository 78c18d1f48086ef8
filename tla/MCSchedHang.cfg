CONSTANTS
  bsp = bsp
  ap1 = ap1
  ap2 = ap2
  t1 = t1
  t2 = t2
  t3 = t3
  CpuList <- TwoCpus
  Bsp = bsp
  Tasks = {t1}
  ListHead = ListHead
  NoCpu = NoCpu
  Repeats = {1}
  NrTests = 2
SPECIFICATION FairSpec
PROPERTY TestsFinish
CHECK_DEADLOCK FALSE
