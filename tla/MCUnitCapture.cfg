SPECIFICATION ScenesSpec
CONSTANTS
  c1 = c1
  c2 = c2
  f = f
  g = g
  Calls = {c1, c2}
  Agents = {c2}
  Paths = {f, g}
  Blocked = {g}
  Contents <- MCContents
  ForeignContents <- MCForeign
  ToolKinds = {"EDIT", "SHELL"}
  PromptTexts = {TRUE}
  Endings = {"EMPTY", "failure"}
  Faults = {}
  MaxFaults = 0
  MaxPrompts = 1
  MaxStops = 1
CHECK_DEADLOCK FALSE
INVARIANTS EvidenceExact NoLateForeignWrite TaskComplete ClosedUnitsDelivered
