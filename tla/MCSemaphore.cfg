CONSTANTS
  t1 = t1
  t2 = t2
  t3 = t3
  Threads = {t1, t2, t3}
  InitialUnits = 2
  MaxUnits = 2
  MaxSignals = 2
  MAX_SEMAPHORE_VALUE = 3
SPECIFICATION FairSpec
INVARIANT UnitsConserved
INVARIANT HoldersBounded
PROPERTY SomeoneGetsUnits
