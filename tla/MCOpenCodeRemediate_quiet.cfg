SPECIFICATION FairSpec
CONSTANTS
  None = None
  Sessions = {s1, s2}
  Reviews <- ReviewsSmall
  Attributions = {"ATTRIBUTED"}
  Ends = {"SUCCEEDED"}
  Faults = {"proposer", "synthetic"}
  MaxAttempts = 2
  SessionLimit = 2
  MaxActiveChains = 2
  MaxCountedSessions = 2
  MaxUserMessages = 1
PROPERTIES
  ImplementsLifecycle
CHECK_DEADLOCK FALSE
