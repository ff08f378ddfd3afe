SPECIFICATION FairSpec
CONSTANTS
  Teams = {{t1}}
  Control = control
  PlanningSteps = 1
  PlanningHorizon = 0
  Outcomes = {"running", "failed"}
  MaxSteps <- Steps
PROPERTIES
  ResetCompletes
