SPECIFICATION Spec
CONSTANTS
  None = None
  Sessions = {s1}
  Reviews <- ReviewsSmall
  Attributions = {"ATTRIBUTED", "UNAVAILABLE"}
  Ends = {"SUCCEEDED", "ENDED_OTHER"}
  Faults = {}
  MaxAttempts = 2
  SessionLimit = 3
  MaxActiveChains = 2
  MaxCountedSessions = 1
  MaxUserMessages = 2
PROPERTIES
  NothingSentAfterEnd
CHECK_DEADLOCK FALSE
