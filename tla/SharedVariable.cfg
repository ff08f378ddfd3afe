SPECIFICATION FairSpec
CONSTANTS
  Threads = {t1, t2}
  Values = {v1, v2}
  NoThread = none
  MaxSequence = 2
INVARIANTS
  DataLocked
  TestPromisesRead
PROPERTIES
  KeepsPromise
CHECK_DEADLOCK FALSE
