SPECIFICATION FairSpec
CONSTANTS
  None = None
  s1 = s1
  s2 = s2
  Sessions <- MCSessions
  Scenarios <- MCScenarios
  WatchWindow = 0
  PendingMax = 1
  Ceiling = 2
  FeedLimit = 3
  FeedRetained = 1
  MaxResults = 1
  MaxStarts = 1
  Faults <- MCFaults
CHECK_DEADLOCK FALSE
INVARIANT AtMostOnce
