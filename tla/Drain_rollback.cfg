SPECIFICATION Spec
CONSTANTS
  MaxMessages = 2
  MaxPieces = 2
  MaxFaults = 1
  MaxEvents = 1
INVARIANT RollbackTakesOwn
CHECK_DEADLOCK FALSE
