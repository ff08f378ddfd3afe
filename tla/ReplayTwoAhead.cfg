SPECIFICATION Spec
CONSTANTS
  Teams = {{t1, t2}}
  Control = control
  MemorySize = 2
  ReplaySteps = 1
  BatchSize = 1
  ObservationSteps = 1
  MaxSteps <- Steps
INVARIANTS
  CaughtUp
