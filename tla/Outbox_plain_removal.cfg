SPECIFICATION Spec
CONSTANTS
  Messages = {m1}
  Environment = {m1}
  Writers = {w1, w2}
  NoMessage = NoMessage
  NoWriter = NoWriter
  PlainRemovals = TRUE
  MaxPayloads = 3
  MaxCalls = 4
  MaxFaults = 0
  MaxCrashes = 0
INVARIANTS Aligned
CHECK_DEADLOCK FALSE
