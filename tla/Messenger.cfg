SPECIFICATION MessengerFairSpec
CONSTANTS
  MaxMessages = 4
INVARIANTS
  LockStep
PROPERTIES
  NeverBackwards
  CallReturns
