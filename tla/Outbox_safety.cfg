SPECIFICATION Spec
CONSTANTS
  Messages = {m1, m2}
  Environment = {m1}
  Writers = {w1, w2}
  NoMessage = NoMessage
  NoWriter = NoWriter
  PlainRemovals = FALSE
  MaxPayloads = 3
  MaxCalls = 4
  MaxFaults = 1
  MaxCrashes = 1
SYMMETRY WriterSymmetry
INVARIANTS Aligned ReleasedStaysGone SavedSurvives
CHECK_DEADLOCK FALSE
