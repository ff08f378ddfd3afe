SPECIFICATION LearnedSpec
CONSTANTS
  Teams = {{}, {t1}, {t1, t2}}
  Control = control
  PlanningSteps = 3
  PlanningHorizon = 1
  Outcomes = {"running", "timeout", "absorbing", "failed"}
  MaxSteps <- Steps
INVARIANTS
  PlanningProtocol
  
  PlanningBounded
PROPERTIES
  ResetCompletes
  PlanningCatchesUp
