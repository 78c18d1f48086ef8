CONSTANTS
  bsp = bsp
  ap1 = ap1
  ap2 = ap2
  t1 = t1
  t2 = t2
  t3 = t3
  CpuList <- TwoCpus
  Bsp = bsp
  Tasks = {t1, t2, t3}
  ListHead = ListHead
  NoCpu = NoCpu
  Repeats = {1, 2}
  NrTests = 2
SPECIFICATION Spec
SYMMETRY TaskSymmetry
INVARIANT LinkedOnce
INVARIANT CursorsLinked
INVARIANT RunsOnItsCpu
INVARIANT RunsAsAsked
INVARIANT ExecuteTasksCompletes
CHECK_DEADLOCK FALSE
