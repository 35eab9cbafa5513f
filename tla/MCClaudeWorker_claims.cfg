SPECIFICATION FairSpec
CONSTANTS
  w1 = w1
  w2 = w2
  None = None
  Workers = {w1, w2}
  Mode = "off"
  Delivery = "agent"
  Reviews <- MCNoReviews
  TurnKinds = {TRUE}
  Faults = {"crash", "remove"}
  MaxAttempts = 2
  SessionLimit = 1
  WorkerCeiling = 1
  AbandonedAfter = 1
  FileTTL = 3
  MaxUserMessages = 2
  MaxTime = 2
CHECK_DEADLOCK FALSE
INVARIANTS
  UnitsAccounted
  LiveClaimKept
PROPERTIES
  EveryUnitRecorded
