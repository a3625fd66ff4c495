SPECIFICATION Spec
CONSTANTS
  SavedRoutes = {1}
  LearnableRoutes = {}
  UncheckedRoutes = {}
  RelayRoutes = {}
  NetworkStatuses <- MCNetworks
  WakeupReasons <- MCResumeWakeups
  MaxDisturbances = 4
  MaxSignals = 3
PROPERTIES OfflineWaits
CHECK_DEADLOCK FALSE
