SPECIFICATION Spec
CONSTANTS
  None = None
  Fields = {settings}
  Kinds = {"themes"}
  MaxSessions = 2
  MaxEvents <- EventBounds
  MaxStarts = 2
  Capacity = 1
  QueueSize = 1
INVARIANTS ViewFollowsSource UnsavedIsPending QuietIsCurrent
PROPERTIES NeverGoesBack
CHECK_DEADLOCK FALSE
