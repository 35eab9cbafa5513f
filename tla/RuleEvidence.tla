----------------------------- MODULE RuleEvidence -----------------------------
(***************************************************************************)
(* The pure half of the core review (core/src/evidence, core/src/gate and  *)
(* core/src/evaluation/assemble-rule.ts): which files of a turn a rule is  *)
(* judged on, how their patches are cut into slices, which slices the      *)
(* turn's budget admits, and what the answers to a rule's slices come to.  *)
(*                                                                         *)
(* A patch is a preamble and a sequence of hunks, of which only the        *)
(* lengths matter here; glob and extension matching are done: a file has   *)
(* its class and a rule the set of paths in its scope.                     *)
(***************************************************************************)
EXTENDS Integers, Sequences, FiniteSets
LOCAL INSTANCE SequencesExt
LOCAL INSTANCE FiniteSetsExt

CONSTANTS
  MaxDiffLength,       \* longest diff of one request
  MaxSlicesPerRule,    \* MAX_SLICES_PER_RULE
  MaxExtraCalls        \* MAX_EXTRA_RULE_CALLS_PER_TURN

ASSUME EvidenceAssumption ==
  /\ MaxDiffLength \in Nat \ {0}
  /\ MaxSlicesPerRule \in Nat \ {0}
  /\ MaxExtraCalls \in Nat

Skipped(reason) == [status |-> "SKIPPED", reason |-> reason]
Unavailable(reason) == [status |-> "UNAVAILABLE", reason |-> reason]
Planned(slices) == [status |-> "PLANNED", slices |-> slices]

----------------------------------------------------------------------------
(* Files.  A file is [path, class, preamble, hunks]; its classes are code, *)
(* docs, denied (a sensitive name, directory or extension) and unknown.    *)

PatchLength(file) ==
  LET Upto[i \in 0..Len(file.hunks)] ==
        IF i = 0 THEN file.preamble ELSE Upto[i - 1] + file.hunks[i]
  IN  Upto[Len(file.hunks)]

\* What a patch consists of: piece 0 is the preamble, piece i its hunk i.
Pieces(file) == {<<file.path, i>> : i \in 0..Len(file.hunks)}

Allowed(file) == file.class \in {"code", "docs"}
AllAllowed(files) == \A i \in DOMAIN files : Allowed(files[i])

NoAttributedPatch(files) == \A i \in DOMAIN files : PatchLength(files[i]) = 0

\* A file leaves a rule's evidence only when it is of the other class: denied
\* and unknown files stay, and block the rule.
InEvidenceClass(file, evidence) ==
  \/ evidence = "any"
  \/ file.class # (IF evidence = "code" THEN "docs" ELSE "code")

ApplicableFiles(files, rule) ==
  SelectSeq(files, LAMBDA f : f.path \in rule.scope /\ InEvidenceClass(f, rule.evidence))

\* The patches joined by one character.
DiffLength(files) ==
  LET Upto[i \in 0..Len(files)] == IF i = 0 THEN 0 ELSE Upto[i - 1] + PatchLength(files[i])
  IN  Upto[Len(files)] + Len(files) - 1

----------------------------------------------------------------------------
(* Slices.  A slice is [kind, pieces, length].                             *)

WholeSlice(files) ==
  [kind |-> "WHOLE", pieces |-> UNION {Pieces(files[i]) : i \in DOMAIN files},
   length |-> DiffLength(files)]

FileSlice(file) == [kind |-> "FILE", pieces |-> Pieces(file), length |-> PatchLength(file)]

HunkSlice(file, i) ==
  [kind |-> "HUNK", pieces |-> {<<file.path, 0>>, <<file.path, i>>},
   length |-> file.preamble + file.hunks[i]]

\* An oversized file can be cut when it has hunks and each fits with the
\* preamble.
Divisible(file) ==
  /\ file.hunks # <<>>
  /\ \A i \in DOMAIN file.hunks : HunkSlice(file, i).length <= MaxDiffLength

FileSlices(file) ==
  IF PatchLength(file) <= MaxDiffLength THEN <<FileSlice(file)>>
  ELSE [i \in DOMAIN file.hunks |-> HunkSlice(file, i)]

SliceByFile(files) ==
  IF \E i \in DOMAIN files : PatchLength(files[i]) > MaxDiffLength /\ ~Divisible(files[i])
  THEN Unavailable("OVERSIZED_DIFF")
  ELSE Planned(FlattenSeq([i \in DOMAIN files |-> FileSlices(files[i])]))

PlanRuleEvidence(files, rule) ==
  LET applicable == ApplicableFiles(files, rule)
  IN  IF NoAttributedPatch(files) THEN Skipped("NO_ATTRIBUTED_PATCH")
      ELSE IF applicable = <<>> THEN Skipped("NO_SCOPE_MATCH")
      ELSE IF NoAttributedPatch(applicable) THEN Skipped("NO_ATTRIBUTED_PATCH")
      ELSE IF ~AllAllowed(applicable) THEN Unavailable("BLOCKED_EVIDENCE")
      ELSE IF DiffLength(applicable) <= MaxDiffLength THEN Planned(<<WholeSlice(applicable)>>)
      ELSE SliceByFile(applicable)

\* selectTurnEvidence: the built-ins see all files in one diff, or none.  Here
\* size is looked at before safety.
SelectTurnEvidence(files) ==
  LET attributed == SelectSeq(files, LAMBDA f : PatchLength(f) > 0)
  IN  IF attributed = <<>> THEN Skipped("NO_ATTRIBUTED_PATCH")
      ELSE IF DiffLength(attributed) > MaxDiffLength THEN Unavailable("OVERSIZED_DIFF")
      ELSE IF ~AllAllowed(attributed) THEN Unavailable("BLOCKED_EVIDENCE")
      ELSE Planned(<<WholeSlice(attributed)>>)

----------------------------------------------------------------------------
(* The turn's budget. *)

ExtraCalls(plan) == Len(plan.slices) - 1

Admitted(plan, remaining) ==
  Len(plan.slices) <= MaxSlicesPerRule /\ ExtraCalls(plan) <= remaining

\* Variant of PlanTurnRuleSlices: a refused rule uses the budget up.
PlanTurnRuleSlicesCharged(plans) ==
  LET Remaining[i \in 0..Len(plans)] ==
        IF i = 0 THEN MaxExtraCalls
        ELSE IF plans[i].status = "PLANNED"
        THEN Remaining[i - 1] - ExtraCalls(plans[i])
        ELSE Remaining[i - 1]
  IN  [i \in DOMAIN plans |->
         IF plans[i].status = "PLANNED" /\ ~Admitted(plans[i], Remaining[i - 1])
         THEN Unavailable("SLICE_LIMIT_EXCEEDED")
         ELSE plans[i]]

\* Plans take what they need in source order; one that does not fit takes
\* nothing and later plans still may.
PlanTurnRuleSlices(plans) ==
  LET Remaining[i \in 0..Len(plans)] ==
        IF i = 0 THEN MaxExtraCalls
        ELSE IF plans[i].status = "PLANNED" /\ Admitted(plans[i], Remaining[i - 1])
        THEN Remaining[i - 1] - ExtraCalls(plans[i])
        ELSE Remaining[i - 1]
  IN  [i \in DOMAIN plans |->
         IF plans[i].status = "PLANNED" /\ ~Admitted(plans[i], Remaining[i - 1])
         THEN Unavailable("SLICE_LIMIT_EXCEEDED")
         ELSE plans[i]]

----------------------------------------------------------------------------
(* Gate and assembly.  Probabilities and thresholds are in percent; an     *)
(* answer is [status |-> "FAILED"] or [status |-> "OK", probability].      *)

IsProbability(p) == p \in 0..100

Thresholds(warn, fail, warning) ==
  [error |-> [warn |-> warn, fail |-> fail], warning |-> [warn |-> warning]]

DefaultGate == Thresholds(40, 70, 60)
ScopeCreepGate == Thresholds(65, 90, 60)
ComplexityGate == Thresholds(40, 70, 50)

EvaluateGate(severity, p, gate) ==
  CASE ~IsProbability(p) -> "UNAVAILABLE"
    [] IsProbability(p) /\ p < gate[severity].warn -> "PASS"
    [] IsProbability(p) /\ severity = "error" /\ p >= gate.error.fail -> "FAIL"
    [] OTHER -> "WARN"

AnswerOutcome(severity, answer, gate) ==
  IF answer.status = "FAILED" THEN "UNAVAILABLE"
  ELSE EvaluateGate(severity, answer.probability, gate)

Highest(outcomes) ==
  IF "FAIL" \in outcomes THEN "FAIL" ELSE IF "WARN" \in outcomes THEN "WARN" ELSE "PASS"

\* Variant of AssembleSlices: a failed slice is passed over.
AssembleSlicesThatAnswered(severity, answers, gate) ==
  LET outcomes == {AnswerOutcome(severity, answers[i], gate) : i \in DOMAIN answers}
  IN  IF outcomes = {"UNAVAILABLE"} THEN Unavailable("JEV_FAILURE")
      ELSE [status |-> Highest(outcomes),
            probability |-> Max({answers[i].probability : i \in
                              {i \in DOMAIN answers : answers[i].status = "OK"}})]

\* assembleSlicedRuleResult: a verdict only when every slice has one.
AssembleSlices(severity, answers, gate) ==
  LET outcomes == {AnswerOutcome(severity, answers[i], gate) : i \in DOMAIN answers}
  IN  IF "UNAVAILABLE" \in outcomes THEN Unavailable("JEV_FAILURE")
      ELSE [status |-> Highest(outcomes),
            probability |-> Max({answers[i].probability : i \in DOMAIN answers})]
=============================================================================
