CONSTANTS
  bsp = bsp
  ap1 = ap1
  ap2 = ap2
  t1 = t1
  t2 = t2
  t3 = t3
  CpuList <- ThreeCpus
  Bsp = bsp
  Tasks = {t1, t2}
  ListHead = ListHead
  NoCpu = NoCpu
  Repeats = {0, 1}
  NrTests = 1
SPECIFICATION FairSpec
INVARIANT NoBug
PROPERTY TestsFinish
PROPERTY EveryTaskRuns
