--------------------------- MODULE FeedbackReport ---------------------------
(***************************************************************************)
(* What JevGuard's command line reads out of the local review history and  *)
(* the user's feedback (core/src/feedback, core/src/report, and the        *)
(* compaction of node-infra/src/feedback/compact.ts): which rule FAILs     *)
(* wait for an answer, what a listed number stands for, what an answer     *)
(* changes, and the calibration of each rule.                              *)
(*                                                                         *)
(* A review record is [turn, time, results]; a result is [kind, id,        *)
(* outcome, evidence], with the rule or check in id and NoId for none.  A  *)
(* feedback record is [turn, rule, decision].  Ids and times are numbers:  *)
(* only their order matters.                                               *)
(***************************************************************************)
EXTENDS Integers, Sequences, FiniteSets, TLC, Lists
LOCAL INSTANCE SequencesExt
LOCAL INSTANCE FiniteSetsExt

CONSTANT ListLimit   \* FEEDBACK_LIST_LIMIT

ASSUME ListLimitAssumption == ListLimit \in Nat \ {0}

NoId == 0
Outcomes == {"PASS", "WARN", "FAIL", "UNAVAILABLE", "SKIPPED"}
Identity(turn, rule) == <<turn, rule>>
IdentityOf(answer) == Identity(answer.turn, answer.rule)

----------------------------------------------------------------------------
(* FAILs and answers (feedback/identity.ts).                                *)

IsRuleFail(result) ==
  result.kind = "RULE" /\ result.id # NoId /\ result.outcome = "FAIL"

\* One more result of the history: a repeated FAIL keeps its newest record.
AddFail(fails, record, result) ==
  LET key == Identity(record.turn, result.id)
      newest == key \in DOMAIN fails => record.time >= fails[key].time
  IN  IF ~(IsRuleFail(result) /\ newest) THEN fails
      ELSE With(fails, key, [turn |-> record.turn, rule |-> result.id, time |-> record.time])

AddFails(fails, record) ==
  LET Within[j \in 0..Len(record.results)] ==
        IF j = 0 THEN fails ELSE AddFail(Within[j - 1], record, record.results[j])
  IN  Within[Len(record.results)]

CollectRuleFails(records) ==
  LET Upto[i \in 0..Len(records)] == IF i = 0 THEN <<>> ELSE AddFails(Upto[i - 1], records[i])
  IN  Upto[Len(records)]

\* The last answer of each FAIL, as file order is write order.
LatestDecisions(feedback) ==
  LET keys == {IdentityOf(feedback[i]) : i \in DOMAIN feedback}
      LastOn(key) == Max({i \in DOMAIN feedback : IdentityOf(feedback[i]) = key})
  IN  [key \in keys |-> feedback[LastOn(key)].decision]

\* One answer per FAIL, in the order of the last answers.
LatestFeedbackRecords(feedback) ==
  LET Answer(latest, a) ==
        Append(Kept(latest, {b \in ToSet(latest) : IdentityOf(b) # IdentityOf(a)}), a)
      Upto[i \in 0..Len(feedback)] ==
        IF i = 0 THEN <<>> ELSE Answer(Upto[i - 1], feedback[i])
  IN  Upto[Len(feedback)]

\* The last n elements of a sequence.
Newest(s, n) == SubSeq(s, Max({0, Len(s) - n}) + 1, Len(s))

\* compactFeedbackRecords: the least recently answered FAILs go first.
CompactFeedback(feedback, maxRecords) == Newest(LatestFeedbackRecords(feedback), maxRecords)

----------------------------------------------------------------------------
(* The listing, and an answer to it (feedback/pending.ts, resolve.ts).      *)

NewerFirst(a, b) ==
  \/ a.time > b.time
  \/ a.time = b.time /\ a.rule < b.rule
  \/ a.time = b.time /\ a.rule = b.rule /\ a.turn < b.turn

ListPendingFails(records, feedback) ==
  LET fails == CollectRuleFails(records)
      pending == {fails[key] : key \in DOMAIN fails \ DOMAIN LatestDecisions(feedback)}
      Place(fail) == Cardinality({other \in pending : NewerFirst(other, fail)}) + 1
      sorted == [k \in 1..Cardinality(pending) |-> CHOOSE fail \in pending : Place(fail) = k]
  IN  [items |-> SubSeq(sorted, 1, Min({ListLimit, Len(sorted)})), total |-> Len(sorted)]

NoSelection == [status |-> "NONE"]
Selection(items) ==
  [status |-> "LISTED", items |-> [i \in DOMAIN items |-> Identity(items[i].turn, items[i].rule)]]

Unresolved(status) == [status |-> status]

\* The FAIL a listed number stands for, if it is still in the history.
ResolveTarget(selection, number, records) ==
  LET fails == CollectRuleFails(records)
  IN  IF selection = NoSelection THEN Unresolved("NO_SELECTION")
      ELSE IF number \notin DOMAIN selection.items THEN Unresolved("NUMBER_OUT_OF_RANGE")
      ELSE IF selection.items[number] \notin DOMAIN fails THEN Unresolved("NO_LONGER_IN_HISTORY")
      ELSE [status |-> "FOUND", fail |-> fails[selection.items[number]]]

\* planFeedbackDecision: whether an answer changes anything.
ChangesDecision(fail, decision, feedback) ==
  LET decisions == LatestDecisions(feedback)
      key == Identity(fail.turn, fail.rule)
  IN  key \in DOMAIN decisions => decisions[key] # decision

----------------------------------------------------------------------------
(* The report (report/aggregate.ts).  The stored summary is never read.     *)

\* Every result of the history, by its record's place and its own in it.
ResultsOf(records) == UNION {{i} \X DOMAIN records[i].results : i \in DOMAIN records}
ResultAt(records, p) == records[p[1]].results[p[2]]

\* countOutcome, over some of the results.
OutcomeCounts(records, places) ==
  [o \in Outcomes |-> Cardinality({p \in places : ResultAt(records, p).outcome = o})]

\* calibrateRules, for one rule: its distinct FAILs by the user's last answer.
Calibrate(rule, records, feedback) ==
  LET decisions == LatestDecisions(feedback)
      keys == {key \in DOMAIN CollectRuleFails(records) : key[2] = rule}
      answered == keys \cap DOMAIN decisions
  IN  [right |-> Cardinality({key \in answered : decisions[key] = "RIGHT"}),
       wrong |-> Cardinality({key \in answered : decisions[key] = "WRONG"}),
       unanswered |-> Cardinality(keys \ answered)]

ResultsOfKind(records, kind) == {p \in ResultsOf(records) : ResultAt(records, p).kind = kind}

RuleIdsOf(records) ==
  {ResultAt(records, p).id : p \in ResultsOfKind(records, "RULE")} \ {NoId}

\* How many of the results were judged on whole or on sliced evidence.
Judged(records, places, mode) ==
  Cardinality({p \in places : ResultAt(records, p).evidence = mode})

\* countRule: a rule's outcomes and sliced evaluations.
RuleBreakdown(rule, records, feedback) ==
  LET places == {p \in ResultsOfKind(records, "RULE") : ResultAt(records, p).id = rule}
  IN  [counts |-> OutcomeCounts(records, places),
       sliced |-> Judged(records, places, "SLICED"),
       calibration |-> Calibrate(rule, records, feedback)]

AggregateHistory(records, skipped, feedback) ==
  LET times == {records[i].time : i \in DOMAIN records}
      judged == ResultsOfKind(records, "RULE")
  IN  [entries |-> Len(records),
       skipped |-> skipped,
       span |-> IF times = {} THEN <<>> ELSE <<Min(times), Max(times)>>,
       outcomes |-> OutcomeCounts(records, ResultsOf(records)),
       builtIns |-> Cardinality(ResultsOfKind(records, "BUILT_IN")),
       rules |-> [rule \in RuleIdsOf(records) |-> RuleBreakdown(rule, records, feedback)],
       evaluation |-> [whole |-> Judged(records, judged, "WHOLE"),
                       sliced |-> Judged(records, judged, "SLICED")]]
=============================================================================
