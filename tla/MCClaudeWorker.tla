--------------------------- MODULE MCClaudeWorker ---------------------------
(* Small instances of ClaudeWorker for TLC.                                *)
EXTENDS ClaudeWorker, TLC

WorkerSymmetry == Permutations(Workers)

\* Bounds: at most one kind of fault after which a chain may be forgotten; and, once
\* the user has sent two messages, one worker at a time, no such fault and no clock.
ChainBounds ==
  /\ Cardinality(mishaps) <= 1
  /\ userSent = 2 => /\ now = 0 /\ mishaps = {} /\ outcomes = {}
                     /\ Cardinality({w \in Workers : ~At(w, "idle")}) <= 1

Judgement(outcome, request) ==
  [results |-> <<Result("f", TRUE, FALSE, outcome, {"p"})>>, request |-> request]

\* A finding that fails, a failure that cannot be proposed, the same finding over more
\* paths, a warning, a pass, and a review that came to nothing.
MCReviews ==
  {Judgement("FAIL", TRUE), Judgement("PASS", FALSE), NoReview,
   [results |-> <<Result("f", TRUE, FALSE, "FAIL", {"p", "q"})>>, request |-> TRUE],
   [results |-> <<Result("g", FALSE, FALSE, "FAIL", {"p"})>>, request |-> TRUE]}

MCNoReviews == {NoReview}
=============================================================================
