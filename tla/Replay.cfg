SPECIFICATION FairSpec
CONSTANTS
  Teams = {{}, {t1}, {t1, t2}}
  Control = control
  MemorySize = 2
  ReplaySteps = 3
  BatchSize = 2
  ObservationSteps = 2
  MaxSteps <- Steps
INVARIANTS
  TypeOK
  NotAhead
  NoTornSample
  CleanReset
  SampleInBounds
  ReplayBounded
  EveryStepReplayed
PROPERTIES
  ControlReturns
  ResetCompletes
