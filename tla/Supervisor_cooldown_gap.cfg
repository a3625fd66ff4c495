SPECIFICATION Spec
CONSTANTS
  SavedRoutes = {1, 2}
  LearnableRoutes = {}
  UncheckedRoutes = {2}
  RelayRoutes = {2}
  NetworkStatuses <- MCNetworks
  WakeupReasons <- MCResumeWakeups
  MaxDisturbances = 4
  MaxSignals = 3
PROPERTIES FailedSwitchCools
CHECK_DEADLOCK FALSE
