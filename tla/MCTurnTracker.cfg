SPECIFICATION ScenesSpec
CONSTANTS
  None = None
  p = p
  q = q
  n = n
  Sessions = {p, q, n}
  Parent <- NestedInP
  MaxExecutions <- TwoAndOne
  MaxReplies = 1
  MaxOpenSnapshots = 2
  Kinds = {"shown"}
  Faults = {}
INVARIANTS
  OverlapRefused
  AttributionExact
  CleanTurnsAttributed
CHECK_DEADLOCK FALSE
