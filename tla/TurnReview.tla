------------------------------ MODULE TurnReview ------------------------------
(***************************************************************************)
(* One review of one turn: reviewTurn (core/src/review/review-turn.ts) and *)
(* the on-demand checkRules, with the policy loader and the Jev port they  *)
(* call.  The policy is read once; then all rules are planned and their    *)
(* requests sent in one batch, the two built-in checks go out together in  *)
(* a request of their own, and the two answers come in any order.  The     *)
(* initial states and the specification are RulesCheck's.                  *)
(***************************************************************************)
EXTENDS RuleEvidence, TLC
LOCAL INSTANCE SequencesExt
LOCAL INSTANCE FiniteSetsExt

CONSTANTS
  Turns,           \* the attributed files of a turn: sequences of files
  RuleLists,       \* what a rules file may parse to: sequences of candidates
  Configs,         \* what a configuration file may parse to
  Probabilities,   \* what Jev may answer: percents, or numbers that are none
  BuiltInProbabilities   \* and for the built-in checks

\* A candidate is [status |-> "PARSED", id, scope, evidence, severity] or
\* [status |-> "INVALID", id]; the ids of parsed rules differ.
ASSUME RuleListsAssumption ==
  \A rules \in RuleLists :
    /\ rules # <<>>
    /\ \A i, j \in DOMAIN rules :
         rules[i].status = "PARSED" /\ rules[j].id = rules[i].id => i = j

VARIABLES
  request,    \* [kind |-> "turn"] or [kind |-> "check", id], and the turn's files
  policy,     \* what the loader answered
  stage,      \* "loading", "lanes" (both lanes wait or are done), "done"
  plans,      \* the rule lane's plan for each candidate, budget applied
  asked,      \* the batch of rule requests
  answers,    \* the port's answers to it
  rules,      \* the rule lane: its results once it is done
  builtIns,   \* the built-in lane: the request, and its results once it is done
  review      \* the outcome

vars == <<request, policy, stage, plans, asked, answers, rules, builtIns, review>>

Pending == [status |-> "PENDING"]
Done(results) == [status |-> "DONE", results |-> results]
Failed == [status |-> "FAILED"]
Answers(probabilities) ==
  {Failed} \cup {[status |-> "OK", probability |-> p] : p \in probabilities}

----------------------------------------------------------------------------
(* The policy. *)

InvalidGate == [status |-> "INVALID"]

\* diagnosePolicyConfig and resolveGateConfig.  A configuration file is absent,
\* does not parse, or has thresholds and a remediation section; what is wrong
\* in one section invalidates both.
ReadPolicyConfig(config) ==
  LET usable == /\ \A p \in {config.warn, config.fail, config.warning} : IsProbability(p)
                /\ config.warn < config.fail
                /\ config.remediation
  IN  CASE config.text = "absent" -> [status |-> "VALID", gate |-> DefaultGate]
        [] config.text = "given" /\ usable ->
             [status |-> "VALID", gate |-> Thresholds(config.warn, config.fail, config.warning)]
        [] OTHER -> InvalidGate

Policies ==
  [status : {"REJECTED"}]
    \cup [status : {"FAILED"}, reason : {"CONFIG_READ_FAILURE", "RULES_READ_FAILURE"}]
    \cup [status : {"LOADED"}, rules : RuleLists \cup {<<>>}, config : Configs]

\* resolveRuleCandidates: without rules (here the empty list: an absent file)
\* one result stands for the whole lane.
LaneReason(loaded) ==
  IF loaded.status = "FAILED" /\ loaded.reason = "CONFIG_READ_FAILURE"
  THEN "INVALID_CONFIG" ELSE "INVALID_RULE"

HasRules(loaded) == loaded.status = "LOADED" /\ loaded.rules # <<>>

\* The candidates of the review; a check may ask for one of them.
Selected(loaded) ==
  IF request.kind = "check" /\ request.id # "all"
  THEN SelectSeq(loaded.rules, LAMBDA c : c.id = request.id)
  ELSE loaded.rules

Candidates == Selected(policy)
Gate == ReadPolicyConfig(policy.config)

----------------------------------------------------------------------------
(* The rule lane. *)

Result(kind, id, outcome) == [kind |-> kind, id |-> id, outcome |-> outcome]

InvalidRule(candidate) == Result("RULE", candidate.id, Unavailable("INVALID_RULE"))

\* resolveSlots: what each candidate comes to before anything is sent.
ResolveSlots(files, candidates) ==
  PlanTurnRuleSlices([i \in DOMAIN candidates |->
    IF candidates[i].status = "INVALID" THEN Unavailable("INVALID_RULE")
    ELSE PlanRuleEvidence(files, candidates[i])])

\* collectRequests: the slices of the admitted rules, in source order.
CollectRequests(candidates, slots) ==
  FlattenSeq([i \in DOMAIN slots |->
    IF slots[i].status # "PLANNED" THEN <<>>
    ELSE [j \in DOMAIN slots[i].slices |->
            [rule |-> candidates[i].id] @@ slots[i].slices[j]]])

\* assembleResults: a cursor gives each rule the answers to its own slices.
AssembleResults(candidates, slots, replies, gate) ==
  LET Count(i) == IF slots[i].status = "PLANNED" THEN Len(slots[i].slices) ELSE 0
      Cursor[i \in 0..Len(slots)] == IF i = 0 THEN 0 ELSE Cursor[i - 1] + Count(i)
  IN  [i \in DOMAIN slots |->
        Result("RULE", candidates[i].id,
               IF slots[i].status = "PLANNED"
               THEN AssembleSlices(candidates[i].severity,
                                   SubSeq(replies, Cursor[i - 1] + 1, Cursor[i]), gate)
               ELSE slots[i])]

\* evaluateRules up to its await: what is sent, or the results when nothing is.
StartRuleLane(files, candidates, gate) ==
  LET slots == ResolveSlots(files, candidates)
      requests == CollectRequests(candidates, slots)
  IN  IF gate = InvalidGate
      THEN /\ plans' = <<>> /\ asked' = <<>>
           /\ rules' = Done([i \in DOMAIN candidates |->
                IF candidates[i].status = "INVALID" THEN InvalidRule(candidates[i])
                ELSE Result("RULE", candidates[i].id, Unavailable("INVALID_CONFIG"))])
      ELSE /\ plans' = slots /\ asked' = requests
           /\ rules' = IF requests # <<>> THEN Pending
                       ELSE Done(AssembleResults(candidates, slots, <<>>, gate.gate))

NoRuleLane(loaded) ==
  /\ plans' = <<>> /\ asked' = <<>>
  /\ rules' = Done(<<Result("REVIEW", "none", Unavailable(LaneReason(loaded)))>>)

----------------------------------------------------------------------------
(* The built-in lane. *)

BuiltInResults(scopeCreep, complexity) ==
  Done(<<Result("BUILT_IN", "SCOPE-CREEP", scopeCreep),
         Result("BUILT_IN", "COMPLEXITY", complexity)>>)

GateBuiltIn(severity, answer, gate) ==
  LET outcome == AnswerOutcome(severity, answer, gate)
  IN  IF outcome = "UNAVAILABLE" THEN Unavailable("JEV_FAILURE")
      ELSE [status |-> outcome, probability |-> answer.probability]

\* evaluateBuiltIns up to its await.
StartBuiltIns(files) ==
  LET selection == SelectTurnEvidence(files)
  IN  builtIns' = IF selection.status = "PLANNED"
                  THEN [status |-> "PENDING", evidence |-> selection.slices[1]]
                  ELSE BuiltInResults(selection, selection)

----------------------------------------------------------------------------

\* The start of a review, or of what comes before one.
Starts(with, at) ==
  /\ request = with
  /\ stage = at
  /\ policy = Pending
  /\ plans = <<>> /\ asked = <<>> /\ answers = <<>>
  /\ rules = Pending /\ builtIns = Pending
  /\ review = Pending

\* The loader answers, or rejects; both lanes start in the same step.
PolicyLoads(loaded) ==
  /\ request.kind = "turn" /\ stage = "loading"
  /\ policy' = loaded
  /\ stage' = "lanes"
  /\ IF HasRules(loaded)
     THEN StartRuleLane(request.files, loaded.rules, ReadPolicyConfig(loaded.config))
     ELSE NoRuleLane(loaded)
  /\ StartBuiltIns(request.files)
  /\ UNCHANGED <<request, answers, review>>

\* checkRules: no built-in lane; a rule that is not there ends it at once.
CheckLoads(loaded) ==
  /\ request.kind = "check" /\ stage = "loading"
  /\ policy' = loaded
  /\ IF HasRules(loaded) /\ Selected(loaded) = <<>>
     THEN /\ stage' = "done"
          /\ review' = [status |-> "RULE_NOT_FOUND"]
          /\ UNCHANGED <<plans, asked, rules, builtIns>>
     ELSE /\ stage' = "lanes"
          /\ IF HasRules(loaded)
             THEN StartRuleLane(request.files, Selected(loaded), ReadPolicyConfig(loaded.config))
             ELSE NoRuleLane(loaded)
          /\ builtIns' = Done(<<>>)
          /\ UNCHANGED review
  /\ UNCHANGED <<request, answers>>

\* The batch settles: an answer for each request; a rejection, or answers of
\* another number, fail them all.
RuleBatchAnswers(replies) ==
  /\ stage = "lanes" /\ rules = Pending
  /\ answers' = replies
  /\ rules' = Done(AssembleResults(Candidates, plans, replies, Gate.gate))
  /\ UNCHANGED <<request, policy, stage, plans, asked, builtIns, review>>

\* Variant of BuiltInsAnswer: a failed batch rejects.
BuiltInsAnswerUncontained(scopeCreep, complexity) ==
  /\ stage = "lanes" /\ builtIns.status = "PENDING"
  /\ builtIns' = IF Failed \in {scopeCreep, complexity} THEN [status |-> "REJECTED"]
                 ELSE [evidence |-> builtIns.evidence, answers |-> <<scopeCreep, complexity>>] @@
                      BuiltInResults(GateBuiltIn("error", scopeCreep, ScopeCreepGate),
                                     GateBuiltIn("warning", complexity, ComplexityGate))
  /\ UNCHANGED <<request, policy, stage, plans, asked, answers, rules, review>>

\* Each of the two answers may fail alone; a failed batch fails both.
BuiltInsAnswer(scopeCreep, complexity) ==
  /\ stage = "lanes" /\ builtIns.status = "PENDING"
  /\ builtIns' = [evidence |-> builtIns.evidence, answers |-> <<scopeCreep, complexity>>] @@
                 BuiltInResults(GateBuiltIn("error", scopeCreep, ScopeCreepGate),
                                GateBuiltIn("warning", complexity, ComplexityGate))
  /\ UNCHANGED <<request, policy, stage, plans, asked, answers, rules, review>>

\* summarize: the highest verdict, whatever was skipped or unavailable.
HighestVerdict(results) ==
  LET verdicts == {results[k].outcome.status : k \in DOMAIN results}
                    \ {"SKIPPED", "UNAVAILABLE"}
  IN  IF verdicts = {} THEN "none" ELSE Highest(verdicts)

AggregateReview(results) ==
  [status |-> "REVIEWED", results |-> results, verdict |-> HighestVerdict(results),
   hasUnavailable |-> \E k \in DOMAIN results : results[k].outcome.status = "UNAVAILABLE"]

\* Variant of Aggregate: the review is whatever is there when the rules are done.
AggregateWithoutWaiting ==
  /\ stage = "lanes" /\ rules.status = "DONE"
  /\ review' = AggregateReview(rules.results \o (IF builtIns.status = "DONE"
                                                 THEN builtIns.results ELSE <<>>))
  /\ stage' = "done"
  /\ UNCHANGED <<request, policy, plans, asked, answers, rules, builtIns>>

\* aggregateReview, once both lanes are done.
Aggregate ==
  /\ stage = "lanes" /\ rules.status = "DONE" /\ builtIns.status = "DONE"
  /\ review' = AggregateReview(rules.results \o builtIns.results)
  /\ stage' = "done"
  /\ UNCHANGED <<request, policy, plans, asked, answers, rules, builtIns>>

Next ==
  \/ \E loaded \in Policies : PolicyLoads(loaded)
  \/ \E loaded \in Policies : CheckLoads(loaded)
  \/ \E replies \in [DOMAIN asked -> Answers(Probabilities)] : RuleBatchAnswers(replies)
  \/ \E a, b \in Answers(BuiltInProbabilities) : BuiltInsAnswer(a, b)
  \/ Aggregate

(***************************************************************************)
(* Properties                                                              *)
(***************************************************************************)

Files == {request.files[i] : i \in DOMAIN request.files}
Evaluating == policy # Pending /\ HasRules(policy) /\ Gate # InvalidGate
Verdicts == {"PASS", "WARN", "FAIL"}
Results == IF review.status = "REVIEWED" THEN review.results ELSE <<>>
RuleOf(id) == CHOOSE c \in {Candidates[i] : i \in DOMAIN Candidates} : c.id = id
Own(id) == {i \in DOMAIN asked : asked[i].rule = id}
ProbabilityOf(answer) == IF answer.status = "OK" THEN answer.probability ELSE -1

\* A rule's verdict rests on its whole evidence: every file it applies to may be
\* sent, each of their hunks was in exactly one of the rule's own requests with
\* the preamble of its file, each of these requests was answered with a
\* probability, and the verdict is that of the highest of them (security.md
\* "Evidence must be complete", assemble-rule.ts:21-31).
JudgedOnWholeEvidence ==
  \A k \in DOMAIN Results :
    LET result == Results[k]
        id == result.id
        rule == RuleOf(id)
        applicable == {f \in Files : f.path \in rule.scope /\ InEvidenceClass(f, rule.evidence)}
        probabilities == {ProbabilityOf(answers[i]) : i \in Own(id)}
    IN  result.kind = "RULE" /\ result.outcome.status \in Verdicts =>
          /\ applicable # {} /\ Own(id) # {}
          /\ \A f \in applicable :
               /\ f.class \in {"code", "docs"}
               /\ \A h \in DOMAIN f.hunks :
                    Cardinality({i \in Own(id) : <<f.path, h>> \in asked[i].pieces}) = 1
          /\ \A i \in Own(id), piece \in UNION {asked[j].pieces : j \in Own(id)} :
               piece \in asked[i].pieces => <<piece[1], 0>> \in asked[i].pieces
          /\ probabilities \subseteq 0..100
          /\ result.outcome.probability = Max(probabilities)
          /\ result.outcome.status =
               EvaluateGate(rule.severity, Max(probabilities), Gate.gate)

\* Nothing the evidence policy refuses is sent, in a rule's requests or the
\* built-ins', and no request is longer than the limit (security.md:64-76).
NothingBlockedSent ==
  LET sent == {asked[i] : i \in DOMAIN asked}
                \cup (IF "evidence" \in DOMAIN builtIns THEN {builtIns.evidence} ELSE {})
  IN  \A slice \in sent :
        /\ slice.length <= MaxDiffLength
        /\ \A f \in Files : f.class \notin {"code", "docs"} =>
             \A piece \in slice.pieces : piece[1] # f.path

\* What is sent for a verdict is all of its evidence and nothing that is refused.
EvidenceSound == JudgedOnWholeEvidence /\ NothingBlockedSent

\* A rule is sent whole or not at all; the batch stays within the budget; and a
\* rule is refused only when it would not have fitted into what the rules sent
\* before it left (slice-budget.ts:9-15).  The batch never changes once it is sent:
\* it is looked at before its answers.
BudgetExact ==
  Evaluating /\ answers = <<>> =>
    LET Extra(i) == IF Own(Candidates[i].id) = {} THEN 0
                    ELSE Cardinality(Own(Candidates[i].id)) - 1
        Spent(n) == MapThenSumSet(Extra, 1..n)
    IN  /\ Spent(Len(Candidates)) <= MaxExtraCalls
        /\ \A i \in DOMAIN Candidates :
             Candidates[i].status = "PARSED" =>
               LET plan == PlanRuleEvidence(request.files, Candidates[i])
                   sent == Cardinality(Own(Candidates[i].id))
               IN  /\ sent <= MaxSlicesPerRule
                   /\ sent = 0 \/ sent = Len(plan.slices)
                   /\ plan.status = "PLANNED" /\ sent = 0 =>
                        \/ Len(plan.slices) > MaxSlicesPerRule
                        \/ Len(plan.slices) - 1 > MaxExtraCalls - Spent(i - 1)

\* A failure stays where it is.  The results are those of the rules in source
\* order, or one for the lane, and then the two built-ins'; a rule all of whose
\* own requests were answered has a verdict whatever became of the others; the
\* built-ins were asked whenever the turn can be sent, whatever became of the
\* policy, and each was judged if its own answer allows (configuration.md:184-202).
FailuresContained ==
  review.status = "REVIEWED" =>
    LET lane == IF HasRules(policy) THEN [i \in DOMAIN Candidates |-> Candidates[i].id]
                ELSE <<"none">>
        checks == IF request.kind = "turn" THEN <<"SCOPE-CREEP", "COMPLEXITY">> ELSE <<>>
        sendable == /\ Files # {} /\ \A f \in Files : f.class \in {"code", "docs"}
                    /\ DiffLength(request.files) <= MaxDiffLength
        Good(answer) == ProbabilityOf(answer) \in 0..100
    IN  /\ [k \in DOMAIN Results |-> Results[k].id] = lane \o checks
        /\ \A k \in DOMAIN lane :
             (Own(lane[k]) # {} /\ \A i \in Own(lane[k]) : Good(answers[i])) =>
               Results[k].outcome.status \in Verdicts
        /\ request.kind = "turn" /\ sendable =>
             \A k \in {1, 2} :
               Good(builtIns.answers[k]) <=> Results[Len(lane) + k].outcome.status \in Verdicts
=============================================================================
