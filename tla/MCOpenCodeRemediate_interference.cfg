SPECIFICATION Spec
CONSTANTS
  None = None
  Sessions = {s1}
  Reviews <- ReviewsWide
  Attributions = {"ATTRIBUTED", "UNAVAILABLE", "NONE"}
  Ends = {"SUCCEEDED", "ENDED_OTHER"}
  Faults = {"proposer", "synthetic"}
  MaxAttempts = 2
  SessionLimit = 3
  MaxActiveChains = 1
  MaxCountedSessions = 1
  MaxUserMessages = 2
INVARIANTS
  ChainsCoherent
  MovesInOrder
  SessionLimitHeld
  ResolvedMeansProven
PROPERTIES
  ScopesNeverShrink
CHECK_DEADLOCK FALSE
