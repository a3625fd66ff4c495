SPECIFICATION FairSpec
CONSTANTS
  MaxMessages = 2
  MaxPieces = 2
  MaxFaults = 1
  MaxEvents = 1
INVARIANTS NothingLost OneOwner DraftReachesDisk
PROPERTIES QueueEmpties
CHECK_DEADLOCK FALSE
