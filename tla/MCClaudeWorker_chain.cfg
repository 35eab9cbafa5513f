SPECIFICATION Spec
CONSTANTS
  w1 = w1
  w2 = w2
  None = None
  Workers = {w1, w2}
  Mode = "remediate"
  Delivery = "agent"
  Reviews <- MCReviews
  TurnKinds = {TRUE, FALSE}
  Faults = {"spawn", "rename", "restart", "write", "model", "submit", "session", "outcome", "reload", "feed"}
  MaxAttempts = 2
  SessionLimit = 2
  WorkerCeiling = 1
  AbandonedAfter = 1
  FileTTL = 1
  MaxUserMessages = 2
  MaxTime = 2
SYMMETRY WorkerSymmetry
CONSTRAINT ChainBounds
CHECK_DEADLOCK FALSE
INVARIANTS
  NoCascade
  AnnouncedRequestWaits
  ChainsAccounted
