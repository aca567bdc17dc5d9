SPECIFICATION FairSpec
CONSTANTS
  t1 = t1
  t2 = t2
  Threads = {t1, t2}
  Self = t1
  Cost = 2
  Capacity = 4
  MaxRetries = 3
  DefaultPause = 2
  Pauses = {0, 1}
  MaxCloses = 2
  MaxWindow = 7
INVARIANTS
  OneEffect
  DeadPoolMetOnce
  RateOfSleepers
PROPERTIES
  CallEnds
