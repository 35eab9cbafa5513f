---------------------------- MODULE MCLocalStore ----------------------------
(* TLC instance of LocalStore: three lines fit into a file, two are kept.  *)
EXTENDS LocalStore

CONSTANTS w1, w2, t1, t2

MCMaxSize == [reviews |-> 3, feedback |-> 3]
MCMaxRecords == [reviews |-> 2, feedback |-> 2]

RuleResult(id, outcome, evidence) ==
  [kind |-> "RULE", id |-> id, outcome |-> outcome, evidence |-> evidence]
BuiltIn(outcome) == [kind |-> "BUILT_IN", id |-> 1, outcome |-> outcome, evidence |-> "NONE"]
LaneFailed == [kind |-> "REVIEW", id |-> NoId, outcome |-> "UNAVAILABLE", evidence |-> "NONE"]

FailsOne == <<RuleResult(1, "FAIL", "WHOLE"), BuiltIn("FAIL")>>
FailsTwo == <<RuleResult(1, "FAIL", "SLICED"), RuleResult(2, "FAIL", "WHOLE"), BuiltIn("PASS")>>
PassesOne == <<RuleResult(NoId, "UNAVAILABLE", "NONE"), RuleResult(1, "PASS", "SLICED"), LaneFailed>>

MCResultLists == {FailsOne}

Review(turn, time, results) == [turn |-> turn, time |-> time, results |-> results]
Answer(turn, rule, decision) == [turn |-> turn, rule |-> rule, decision |-> decision]

\* Three FAILs of two turns that ended at the same time, one of them recorded twice
\* and out of order.
MCHistories ==
  {<<Review(1, 2, FailsOne), Review(2, 2, FailsTwo), Review(1, 1, FailsOne \o PassesOne)>>}
\* The first of two answered FAILs was answered again: its answer is the newest.
MCFeedbacks ==
  {<<Answer(1, 1, "RIGHT"), Answer(2, 1, "RIGHT"), Answer(1, 1, "WRONG")>>}

MCSymmetry == Permutations(Writers) \cup Permutations(Terminals)
=============================================================================
