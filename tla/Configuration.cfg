SPECIFICATION Spec
CONSTANTS
  Size = 5
  Documents <- AllDocuments
INVARIANTS
  ConfiguredFirst
  DependenciesFirst
  NoReentry
