SPECIFICATION Spec
CONSTANTS
  Learners = {l1}
  Readers = {r1}
  Stores = {d1, d2, d3, d4}
  NoStore = null
  MaxSamples = 2
  Neighbors = 1
  Interval = 1
  Batch = 2
  Incremental = TRUE
  Reserved = 10
  MaxPushes = 5
SYMMETRY Places
INVARIANTS
  NoDangling
  CountsRight
  IndexUsable
