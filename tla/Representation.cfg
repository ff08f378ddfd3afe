SPECIFICATION FairSpec
CONSTANTS
  Threads = {t1, t2}
  NoThread = none
  Configs <- OneObject
  BatchSizes = {1, 2}
  MaxWrites = 4
INVARIANTS
  BatchMine
  
PROPERTIES
  BatchReturns
