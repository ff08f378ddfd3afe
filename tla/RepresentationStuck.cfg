SPECIFICATION FairSpec
CONSTANTS
  Threads = {t1}
  NoThread = none
  Configs <- Broken
  BatchSizes = {1}
  MaxWrites = 2
PROPERTIES
  BatchReturns
CHECK_DEADLOCK FALSE
