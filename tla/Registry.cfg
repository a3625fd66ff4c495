SPECIFICATION Spec
CONSTANTS
  Environment = environment
  Keys = {environment}
  Users = {u1}
  Platform = platform
  Discovery = discovery
  NoCaller = NoCaller
  Supervisors <- MCSupervisors
  Callers <- MCCallers
  Relay = relay
  Loopback = loopback
  DirectIds = {a, b}
  Addresses = {x, y}
  Bearers = {1, 2}
  MaxEvents = 4
INVARIANTS TypeOK MutualExclusion OneSupervisor LeaseFollowsCatalog SavedFollowsCatalog OrphansWereDisplaced SocketVerdictFits ReplacedBearerRetried NoCircularWait
CHECK_DEADLOCK FALSE
SYMMETRY MCSymmetry
