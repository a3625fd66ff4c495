SPECIFICATION FairSpec
CONSTANTS
  Keys = {a, b, c}
  NoKey = NoKey
  Values = {v1, v2, v3, v4}
  Drainers = {d1, d2}
INVARIANTS QueuedOnce WaitingIsScheduled
PROPERTIES ImplementsBuffer NoKeyStarves DrainsEnd
