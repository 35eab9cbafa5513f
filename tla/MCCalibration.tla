---------------------------- MODULE MCCalibration ----------------------------
(* What the harness is started with: command lines over and under every    *)
(* limit, fixture files with each fault, and corpora of all sizes.         *)
EXTENDS Calibration
LOCAL INSTANCE SequencesExt
LOCAL INSTANCE TLC

N(n) == Value(ToString(n), n)
W(word) == Value(word, NotANumber)

Fixture(id, quadrant, difficulty, category) ==
  [id |-> id, difficulty |-> difficulty, category |-> category, flaws |-> {}] @@ quadrant
Two == <<Fixture("a", Labels(TRUE, FALSE), "clear", "incidental-edit"),
         Fixture("b", Labels(FALSE, TRUE), "borderline", "necessary-test")>>
Four == Two \o <<Fixture("c", Labels(TRUE, TRUE), "clear", "necessary-test"),
                 Fixture("d", Labels(FALSE, FALSE), "clear", "necessary-test")>>
MCDocuments ==
  {Unreadable, <<>>, Two, Four, Two \o <<Two[1]>>, Two \o Two, Four \o Four}
    \cup {<<[Two[1] EXCEPT !.flaws = {flaw}], Two[2]>> : flaw \in Flaws \cup {"NO_FIXTURE"}}

Generate == <<Plain(W("generate"))>>
RunArgs(values) == <<Plain(W("run"))>> \o values
Limit(n) == <<Option("--limit"), Plain(N(n))>>
Repeat(n) == <<Inline("--repeat", N(n))>>
Confirm(n) == <<Option("--confirm-live-api"), Plain(N(n))>>
MCArgvs ==
  {<<>>, <<Plain(W("generate")), Option("--help")>>, <<Option("--limit")>>, <<Plain(W("x"))>>,
   Generate, Generate \o <<Inline("--count", W(""))>>, Generate \o <<Option("--count"), Option("--seed"), Plain(N(5))>>,
   Generate \o <<Inline("--limit", N(5))>>, RunArgs(Repeat(1)), RunArgs(Limit(2) \o <<Plain(N(2))>>),
   RunArgs(Limit(2) \o Confirm(2) \o <<Inline("--difficulty", W("hard"))>>),
   RunArgs(Limit(9) \o Repeat(5) \o Confirm(20)), RunArgs(Limit(0) \o Confirm(0)),
   RunArgs(Limit(2) \o <<Option("--confirm-live-api"), Plain(Value("02", 2))>>),
   RunArgs(Limit(9) \o Confirm(2) \o <<Inline("--category", W("incidental-edit")), Inline("--category", W("necessary-error-handling"))>>),
   RunArgs(Limit(9) \o <<Option("--limit"), Plain(N(2))>> \o Confirm(2)),
   RunArgs(Limit(9) \o Confirm(3) \o <<Inline("--difficulty", W("clear"))>>),
   RunArgs(Limit(9) \o Confirm(1) \o <<Inline("--category", W("incidental-edit"))>>)}
MCCounts == 1..40 \cup {160, 161, 500}

MCHarnesses ==
  {[argv |-> argv, document |-> document] : argv \in MCArgvs, document \in MCDocuments}
    \cup {[argv |-> Generate \o <<Option("--count"), Plain(N(n))>>, document |-> Unreadable] : n \in MCCounts}
    \cup {[argv |-> RunArgs(Limit(2) \o Repeat(2) \o Confirm(4)), document |-> Two],
          [argv |-> RunArgs(Limit(1) \o Repeat(3) \o Confirm(3) \o <<Inline("--concurrency", N(3))>>), document |-> Two]}

Answered(s, c) == [scopeCreep |-> s, complexity |-> c]
MCJudgements == {Answered(NoProbability, 60), Answered(60, 49), Answered(65, 50), Answered(100, NoProbability)}

=============================================================================
