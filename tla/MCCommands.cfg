SPECIFICATION CommandsSpec
CONSTANTS
  w1 = w1
  w2 = w2
  t1 = t1
  t2 = t2
  Writers = {w1, w2}
  Terminals = {t1, t2}
  ListLimit = 2
  MaxSize <- MCMaxSize
  MaxRecords <- MCMaxRecords
  Turns = {3}
  ResultLists <- MCResultLists
  Histories <- MCHistories
  Feedbacks <- MCFeedbacks
  Faults = {"stop", "cut", "delete"}
  MaxFaults = 1
  MaxEvents = 3
  Worlds <- MCWorlds
  UserEdits <- MCUserEdits
  LowerCase <- MCLowerCase
  MaxChanges = 2
  Harnesses <- MCHarnesses
  Judgements <- MCJudgements
  MaxPlannedCalls = 4
SYMMETRY MCSymmetry
CHECK_DEADLOCK FALSE
INVARIANTS
  RewritesKeep
  ListingTruthful
  ConfigEditSafe
  RulesReadExactly
  DoctorTruthful
  SettingsSafe
  CorpusExact
  CallsConfirmed
  ReportExact
