SPECIFICATION CheckSpec
CONSTANTS
  f = "f"
  g = "g"
  MaxDiffLength = 4
  MaxSlicesPerRule = 2
  MaxExtraCalls = 1
  Turns <- MCTurns
  Inputs <- MCInputs
  ClassOf <- MCClassOf
  RuleLists <- MCRuleLists
  Configs <- MCConfigs
  Probabilities <- MCProbabilities
  BuiltInProbabilities <- MCBuiltInProbabilities
CHECK_DEADLOCK FALSE
INVARIANTS EvidenceSound BudgetExact FailuresContained DiffReadExactly ExitCodeTrue
PROPERTY ReviewEnds
