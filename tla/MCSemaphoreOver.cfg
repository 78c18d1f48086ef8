CONSTANTS
  t1 = t1
  t2 = t2
  t3 = t3
  Threads = {t1, t2, t3}
  InitialUnits = 1
  MaxUnits = 1
  MaxSignals = 0
  MAX_SEMAPHORE_VALUE = 1
SPECIFICATION Spec
SYMMETRY ThreadSymmetry
INVARIANT AtMostMaxThreads
