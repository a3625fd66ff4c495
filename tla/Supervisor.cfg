SPECIFICATION FairSpec
CONSTANTS
  SavedRoutes = {2}
  LearnableRoutes = {1}
  UncheckedRoutes = {2}
  RelayRoutes = {2}
  NetworkStatuses <- MCNetworks
  WakeupReasons <- MCAllWakeups
  MaxDisturbances = 3
  MaxSignals = 3
INVARIANTS TypeOK IntentPending RetryFlagBacked SessionIsLive LadderEscalates FailureStaysVisible SwitchImproves
PROPERTIES ImplementsSession FailedAttemptsWait Converges DisconnectReleases RetryConsumed
CHECK_DEADLOCK FALSE
