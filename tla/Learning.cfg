SPECIFICATION FairSpec
CONSTANTS
  Configs <- AllConfigs
  MaxEpisode = 2
  MaxTrials = 5
INVARIANTS
  StepsCounted
  CurveCurrent
  FreshRun
  SavedAsReported
PROPERTIES
  
  Terminates
