SPECIFICATION Spec
CONSTANTS
  Last = 2
  Kinds = {"exclusive", "predicated", "random"}
  Taus = {1, 2}
  MaxTime = 4
INVARIANTS
  TypeOK
  AllEnded
  RewardKept
PROPERTIES
  SubAgentProtocol
  RewardHandedOver
