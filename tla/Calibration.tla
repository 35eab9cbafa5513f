----------------------------- MODULE Calibration -----------------------------
(***************************************************************************)
(* The calibration harness (tools/calibration): `generate` writes a corpus *)
(* of fixtures with the author's labels, `run` puts the built-in checks to *)
(* them and reports how the answers agree.  It finds its key where         *)
(* `jevguard login` put it (Setup).                                        *)
(***************************************************************************)
EXTENDS Setup, CalibrationReport
LOCAL INSTANCE SequencesExt
LOCAL INSTANCE FiniteSetsExt
LOCAL INSTANCE TLC

CONSTANTS
  Harnesses,        \* [argv, document]: the arguments and the fixture file there is
  Judgements,       \* pairs of the two checks' answers to a call: a probability,
                    \* or NoProbability when it failed
  MaxPlannedCalls   \* MAX_PLANNED_CALLS: 500

VARIABLE harness    \* the process of one command of the harness

harnessVars == <<setupVars, harness>>

Categories ==
  {"requested-direct", "necessary-test", "necessary-error-handling", "necessary-validation",
   "necessary-supporting-change", "existing-pattern", "explicitly-required-complexity",
   "incidental-edit", "unrequested-functional", "unrequested-refactor",
   "unrequested-dependency-config-docs", "unnecessary-abstraction", "premature-generalization",
   "excessive-indirection", "mixed-unrequested-overengineering"}

----------------------------------------------------------------------------
(* Arguments.  A token is an option, with a value behind "=" or none, or   *)
(* with no key a value; a value is its text and the integer it is.         *)

NotANumber == -1
Value(text, number) == [text |-> text, number |-> number]
Option(key) == [key |-> key, values |-> <<>>]
Inline(key, value) == [key |-> key, values |-> <<value>>]
Plain(value) == [key |-> "", values |-> <<value>>]

GenerateOptions == {"--seed", "--count", "--output"}
RunOptions == {"--input", "--limit", "--concurrency", "--repeat", "--difficulty", "--category",
               "--confirm-live-api"}

\* An option without a value of its own takes the next token, unless that is an
\* option.
CollectOptions(tokens, allowed) ==
  LET Unusable == [ok |-> FALSE]
      With(state, key, values) ==
        [state EXCEPT !.waiting = "", !.options = [@ EXCEPT ![key] = @ \o values]]
      Step(state, token) ==
        CASE ~state.ok -> state
          [] state.ok /\ state.waiting # "" ->
               IF token.key # "" THEN Unusable ELSE With(state, state.waiting, token.values)
          [] OTHER -> IF token.key \notin allowed THEN Unusable
                      ELSE IF token.values = <<>> THEN [state EXCEPT !.waiting = token.key]
                      ELSE With(state, token.key, token.values)
      read == FoldLeft(Step, [ok |-> TRUE, waiting |-> "", options |-> [k \in allowed |-> <<>>]], tokens)
  IN  IF read.ok /\ read.waiting # "" THEN Unusable ELSE read

\* readSingle, readNumber: the last value counts.
LastOf(values, default) == IF values = <<>> THEN default ELSE Last(values)

ParseGenerate(options) ==
  LET count == LastOf(options["--count"], Value("160", 160)).number
  IN  IF count \in 1..500 THEN [status |-> "OK", kind |-> "generate", count |-> count]
      ELSE [status |-> "ERROR"]

ParseRun(options) ==
  LET Number(key, default) == LastOf(options[key], Value("", default)).number
      difficulty == LastOf(options["--difficulty"], Value("any", NotANumber)).text
      categories == {v.text : v \in ToSet(options["--category"])}
  IN  IF /\ Number("--limit", NotANumber) \in 1..200
         /\ Number("--concurrency", 2) \in 1..4
         /\ Number("--repeat", 1) \in 1..5
         /\ options["--difficulty"] # <<>> => difficulty \in {"clear", "borderline"}
         /\ categories \subseteq Categories
      THEN [status |-> "OK", kind |-> "run", limit |-> Number("--limit", NotANumber),
            concurrency |-> Number("--concurrency", 2), repeat |-> Number("--repeat", 1),
            difficulty |-> difficulty, categories |-> categories,
            confirm |-> LastOf(options["--confirm-live-api"], Value("", NotANumber)).text]
      ELSE [status |-> "ERROR"]

ParseArguments(argv) ==
  LET name == Head(argv).values[1].text
      Parsed(allowed, Parse(_)) ==
        LET collected == CollectOptions(Tail(argv), allowed)
        IN  IF collected.ok THEN Parse(collected.options) ELSE [status |-> "ERROR"]
  IN  CASE argv = <<>> \/ \E i \in DOMAIN argv : argv[i] = Option("--help") -> [status |-> "HELP"]
        [] OTHER -> IF Head(argv).key # "" THEN [status |-> "ERROR"]
                    ELSE CASE name = "generate" -> Parsed(GenerateOptions, ParseGenerate)
                           [] name = "run" -> Parsed(RunOptions, ParseRun)
                           [] OTHER -> [status |-> "ERROR"]

----------------------------------------------------------------------------
(* The corpus. *)

Labels(scope, complexity) ==
  [scope |-> IF scope THEN "VIOLATION" ELSE "NO_VIOLATION",
   complexity |-> IF complexity THEN "VIOLATION" ELSE "NO_VIOLATION"]
Quadrants == {Labels(s, c) : s, c \in BOOLEAN}

\* The families of fixtures: labels, category, difficulty, weight, and the place of
\* its id among the ids.
Family(scope, complexity, category, difficulty, weight, place) ==
  [category |-> category, difficulty |-> difficulty, weight |-> weight, place |-> place]
    @@ Labels(scope, complexity)

CleanFamilies ==
  <<Family(FALSE, FALSE, "requested-direct", "clear", 4, 10),
    Family(FALSE, FALSE, "necessary-test", "clear", 4, 7),
    Family(FALSE, FALSE, "necessary-error-handling", "clear", 4, 4),
    Family(FALSE, FALSE, "necessary-validation", "clear", 4, 8),
    Family(FALSE, FALSE, "necessary-supporting-change", "clear", 4, 6),
    Family(FALSE, FALSE, "existing-pattern", "clear", 5, 1),
    Family(FALSE, FALSE, "explicitly-required-complexity", "clear", 5, 2),
    Family(FALSE, FALSE, "incidental-edit", "borderline", 4, 3),
    Family(FALSE, FALSE, "necessary-supporting-change", "borderline", 3, 5),
    Family(FALSE, FALSE, "requested-direct", "borderline", 3, 9)>>
ViolatingFamilies ==
  <<Family(TRUE, FALSE, "unrequested-functional", "clear", 12, 14),
    Family(TRUE, FALSE, "unrequested-dependency-config-docs", "clear", 8, 12),
    Family(TRUE, FALSE, "unrequested-refactor", "clear", 10, 15),
    Family(TRUE, FALSE, "unrequested-functional", "borderline", 5, 13),
    Family(TRUE, FALSE, "unrequested-dependency-config-docs", "borderline", 5, 11),
    Family(FALSE, TRUE, "unnecessary-abstraction", "clear", 12, 20),
    Family(FALSE, TRUE, "premature-generalization", "clear", 10, 18),
    Family(FALSE, TRUE, "excessive-indirection", "clear", 8, 16),
    Family(FALSE, TRUE, "unnecessary-abstraction", "borderline", 5, 19),
    Family(FALSE, TRUE, "premature-generalization", "borderline", 5, 17),
    Family(TRUE, TRUE, "mixed-unrequested-overengineering", "clear", 10, 22),
    Family(TRUE, TRUE, "unrequested-refactor", "clear", 8, 26),
    Family(TRUE, TRUE, "unrequested-dependency-config-docs", "clear", 6, 23),
    Family(TRUE, TRUE, "unrequested-functional", "clear", 6, 24),
    Family(TRUE, TRUE, "mixed-unrequested-overengineering", "borderline", 5, 21),
    Family(TRUE, TRUE, "unrequested-refactor", "borderline", 5, 25)>>

Allocation == CleanFamilies \o ViolatingFamilies
TotalWeight == Total([k \in DOMAIN Allocation |-> Allocation[k].weight])

\* Variant of AllocateCounts: every share is rounded up.
AllocateRoundedUp(total) ==
  [k \in DOMAIN Allocation |-> (total * Allocation[k].weight + TotalWeight - 1) \div TotalWeight]

\* The whole shares, and one more for the largest remainders, by id among equals.
AllocateCounts(total) ==
  LET Share(k) == (total * Allocation[k].weight) \div TotalWeight
      Remainder(k) == (total * Allocation[k].weight) % TotalWeight
      Before(i, j) == \/ Remainder(i) > Remainder(j)
                      \/ Remainder(i) = Remainder(j) /\ Allocation[i].place < Allocation[j].place
      remaining == total - Total([k \in DOMAIN Allocation |-> Share(k)])
  IN  [k \in DOMAIN Allocation |->
         Share(k) + (IF Cardinality({i \in DOMAIN Allocation : Before(i, k)}) < remaining THEN 1 ELSE 0)]

\* The families take turns: round by round, each that has a fixture left.
BuildFixtures(count) ==
  LET counts == AllocateCounts(count)
      Round(r) == SelectSeq([k \in DOMAIN Allocation |-> k], LAMBDA k : counts[k] > r)
      FixtureFor(k, r) == [id |-> <<k, r>>, category |-> Allocation[k].category,
                           difficulty |-> Allocation[k].difficulty, scope |-> Allocation[k].scope,
                           complexity |-> Allocation[k].complexity, flaws |-> {}]
  IN  FlattenSeq([r \in 1..Max({counts[k] : k \in DOMAIN counts}) |->
        LET round == Round(r - 1) IN [i \in DOMAIN round |-> FixtureFor(round[i], r - 1)]])

\* What a fixture or its files may have wrong.
Flaws == {"EMPTY_PATCH", "PATCH_WITHOUT_CHANGES", "UNSUPPORTED_PATH", "SECRET_LIKE_MARKER",
          "EVIDENCE_UNAVAILABLE"}

Selected(fixtures, Test(_)) == Cardinality({i \in DOMAIN fixtures : Test(fixtures[i])})
InQuadrant(fixtures, q) ==
  Selected(fixtures, LAMBDA x : x.scope = q.scope /\ x.complexity = q.complexity)
Borderline(fixtures) == Selected(fixtures, LAMBDA x : x.difficulty = "borderline")

\* The issues of a corpus: of each fixture, and of its balance.
ValidateFixtures(fixtures) ==
  LET n == Len(fixtures)
      When(code, condition) == IF condition THEN {code} ELSE {}
  IN  UNION {fixtures[i].flaws : i \in DOMAIN fixtures}
        \cup When("DUPLICATE_FIXTURE_ID", Cardinality({fixtures[i].id : i \in DOMAIN fixtures}) < n)
        \cup (IF n = 160
              THEN When("MISSING_CATEGORY", {fixtures[i].category : i \in DOMAIN fixtures} # Categories)
                     \cup When("QUADRANT_TOTAL_MISMATCH",
                               \E q \in Quadrants : InQuadrant(fixtures, q) # 40)
                     \cup When("BORDERLINE_SHARE_MISMATCH", Borderline(fixtures) # 40)
              ELSE When("QUADRANT_UNREPRESENTED",
                        n >= 4 /\ \E q \in Quadrants : InQuadrant(fixtures, q) = 0)
                     \cup When("BORDERLINE_ABSENT", n >= 8 /\ Borderline(fixtures) = 0))

\* A fixture file is its lines: fixtures, or lines that are none.
LoadCorpus(lines) ==
  IF lines = <<>> \/ \E i \in DOMAIN lines : lines[i].flaws = {"NO_FIXTURE"}
  THEN [status |-> "INVALID", codes |-> {"STRUCTURAL_VALIDATION_FAILED"}]
  ELSE IF ValidateFixtures(lines) # {} THEN [status |-> "INVALID", codes |-> ValidateFixtures(lines)]
  ELSE [status |-> "READY", fixtures |-> lines]

SelectFixtures(fixtures, command) ==
  LET filtered == SelectSeq(fixtures, LAMBDA x :
                    /\ command.difficulty \in {"any", x.difficulty}
                    /\ command.categories = {} \/ x.category \in command.categories)
  IN  SubSeq(filtered, 1, Min({command.limit, Len(filtered)}))

----------------------------------------------------------------------------
(* The commands. *)

\* A document is its lines, or one that cannot be read.
Unreadable == <<[flaws |-> {"UNREADABLE"}]>>
NotRun == [stage |-> "none"]
Starting(argv, document) ==
  [stage |-> "arguments", argv |-> argv, command |-> [status |-> "none"], document |-> document,
   selected |-> <<>>, waiting |-> <<>>, arrived |-> <<>>, report |-> << >>, written |-> {}, exit |-> -1]

HarnessStarts == harness \in {Starting(h.argv, h.document) : h \in Harnesses}

HarnessExits(code) == harness' = [harness EXCEPT !.stage = "exited", !.exit = code]

\* main, runGenerate: nothing is written unless the corpus is valid.
ParsesArguments ==
  /\ harness.stage = "arguments"
  /\ \E command \in {ParseArguments(harness.argv)} :
       CASE command.status = "HELP" -> HarnessExits(0)
         [] command.status = "ERROR" -> HarnessExits(1)
         [] command.status = "OK" /\ command.kind = "run" ->
              harness' = [harness EXCEPT !.stage = "corpus", !.command = command]
         [] OTHER ->
              \E fixtures \in {BuildFixtures(command.count)} :
                IF ValidateFixtures(fixtures) # {} THEN HarnessExits(1)
                ELSE harness' = [harness EXCEPT !.stage = "generated", !.command = command,
                                                !.selected = fixtures]
  /\ UNCHANGED setupVars

WritesCorpus ==
  /\ harness.stage = "generated"
  /\ \/ harness' = [harness EXCEPT !.document = harness.selected, !.stage = "exited", !.exit = 0]
     \/ HarnessExits(1)
  /\ UNCHANGED setupVars

TheRun == harness.command

\* runCorpusCommand and runCalibration up to the credential.
ReadsCorpus ==
  /\ harness.stage = "corpus"
  /\ IF harness.document = Unreadable THEN HarnessExits(1)
     ELSE \E loaded \in {LoadCorpus(harness.document)} :
            IF loaded.status = "INVALID" THEN HarnessExits(1)
            ELSE LET selected == SelectFixtures(loaded.fixtures, TheRun)
                     planned == Len(selected) * TheRun.repeat
                 IN  CASE planned = 0 \/ planned > MaxPlannedCalls -> HarnessExits(1)
                       [] planned \in 1..MaxPlannedCalls /\ TheRun.confirm # ToString(planned) ->
                            HarnessExits(0)
                       [] OTHER -> harness' = [harness EXCEPT !.stage = "credential",
                                                              !.selected = selected]
  /\ UNCHANGED setupVars

\* Every repeat of every fixture is asked for at once; the port (FifoJevPort) takes
\* them in this order.
ChecksCredential ==
  /\ harness.stage = "credential"
  /\ IF ResolveCredential(world.override, world.keyring) \notin {"CREDENTIAL_ENVIRONMENT", "CREDENTIAL_STORE"}
     THEN HarnessExits(1)
     ELSE harness' = [harness EXCEPT !.stage = "calls",
            !.waiting = FlattenSeq([i \in DOMAIN harness.selected |->
                          [r \in 1..TheRun.repeat |-> [fixture |-> i, repeat |-> r - 1]]])]
  /\ UNCHANGED setupVars

\* One of the calls that are under way settles: both checks get their samples.
CallSettles(i, judgement) ==
  /\ harness.stage = "calls"
  /\ i \in 1..Min({TheRun.concurrency, Len(harness.waiting)})
  /\ harness' = [harness EXCEPT
       !.waiting = RemoveAt(@, i),
       !.arrived = Append(@, [judgement |-> judgement] @@ harness.waiting[i])]
  /\ UNCHANGED setupVars

\* Scope Creep is held against the error gate, Complexity against the warning one.
GateOutcome(check, probability) ==
  CASE probability = NoProbability -> "UNAVAILABLE"
    [] check = "complexity" /\ probability # NoProbability -> IF probability >= 50 THEN "WARN" ELSE "PASS"
    [] OTHER -> IF probability >= 90 THEN "FAIL" ELSE IF probability >= 65 THEN "WARN" ELSE "PASS"

ToSample(arrival, check) ==
  LET fixture == harness.selected[arrival.fixture]
      probability == arrival.judgement[check]
  IN  [fixture |-> fixture.id, repeat |-> arrival.repeat,
       label |-> IF check = "scopeCreep" THEN fixture.scope ELSE fixture.complexity,
       outcome |-> GateOutcome(check, probability), probability |-> probability,
       reason |-> IF probability = NoProbability THEN "JEV_FAILURE" ELSE "none"]

Checks == {"scopeCreep", "complexity"}

\* summarizeSelection.
SelectionSummary(fixtures) ==
  [selected |-> Len(fixtures), byQuadrant |-> [q \in Quadrants |-> InQuadrant(fixtures, q)],
   borderline |-> Borderline(fixtures)]

BuildsReport ==
  /\ harness.stage = "calls" /\ harness.waiting = <<>>
  /\ harness' = [harness EXCEPT !.stage = "writing",
       !.report = [selection |-> SelectionSummary(harness.selected),
                   checks |-> [check \in Checks |->
                     CheckReport(check, [k \in DOMAIN harness.arrived |-> ToSample(harness.arrived[k], check)])]]]
  /\ UNCHANGED setupVars

\* A write that fails ends the process.
WritesReport ==
  /\ harness.stage = "writing"
  /\ \/ HarnessExits(1)
     \/ harness' = [harness EXCEPT !.written = @ \cup {IF @ = {} THEN "report.json" ELSE "report.md"},
                                   !.stage = IF harness.written = {} THEN "writing" ELSE "written"]
  /\ UNCHANGED setupVars

\* Variant of IncompleteExitCode: a report is incomplete when both checks are.
IncompleteInBoth(report) ==
  IF \A check \in Checks : LET counts == report.checks[check].operational
                           IN  counts.unavailable > 0 \/ counts.skipped > 0
  THEN 1 ELSE 0

IncompleteExitCode(report) ==
  IF \E check \in Checks : LET counts == report.checks[check].operational
                           IN  counts.unavailable > 0 \/ counts.skipped > 0
  THEN 1 ELSE 0

HarnessEnds ==
  /\ harness.stage = "written"
  /\ HarnessExits(IncompleteExitCode(harness.report))
  /\ UNCHANGED setupVars

HarnessNext ==
  \/ ParsesArguments \/ WritesCorpus \/ ReadsCorpus \/ ChecksCredential
  \/ \E i \in 1..4, judgement \in Judgements : CallSettles(i, judgement)
  \/ BuildsReport \/ WritesReport \/ HarnessEnds

(***************************************************************************)
(* Properties                                                              *)
(***************************************************************************)

\* A corpus that is written has exactly the fixtures asked for, with distinct ids; no
\* family is more than one off its share; in every prefix a family is behind another
\* only once it is exhausted, and then by what it lacks; the default corpus is
\* balanced; and `run` accepts it.  No corpus of 4 to 12 fixtures can be written,
\* though the arguments allow it: one quadrant has no family with a large enough
\* remainder (generate-corpus.ts:24-28, args.ts:93-98).
CorpusExact ==
  harness.stage = "exited" /\ harness.command.status = "OK" /\ harness.command.kind = "generate"
    /\ harness.exit = 0 =>
      LET count == harness.command.count
          fixtures == harness.document
          Of(k, n) == Cardinality({i \in 1..n : fixtures[i].id[1] = k})
          Families == DOMAIN Allocation
      IN  /\ Len(fixtures) = count /\ Cardinality({fixtures[i].id : i \in 1..count}) = count
          /\ \A k \in Families : LET share == count * Allocation[k].weight
                                 IN  TotalWeight * Of(k, count) \in share - TotalWeight + 1..share + TotalWeight - 1
          /\ \A n \in {i \in 1..count : i <= 40} : LET seen == [k \in Families |-> Of(k, n)] IN
               \A i, j \in Families : seen[i] + 1 < seen[j] => seen[i] = Of(i, count)
          /\ count = 160 => /\ \A q \in Quadrants : InQuadrant(fixtures, q) = 40
                            /\ Borderline(fixtures) = 40
          /\ LoadCorpus(fixtures).status = "READY"
          /\ count \notin 4..12

\* "A run performs zero API calls unless --confirm-live-api equals the planned number
\* of logical evaluations exactly" (args.ts:61-62): what is asked for was confirmed, is
\* within the cap and is each repeat of each selected fixture, once; there was a key,
\* and the file was a valid corpus.  The run ends well exactly when every answer could
\* be judged and both files are there (run-calibration.ts:323-328).
CallsConfirmed ==
  LET asked == ToSet(harness.waiting) \cup {[fixture |-> a.fixture, repeat |-> a.repeat] : a \in ToSet(harness.arrived)}
      lines == ToSet(harness.document)
      failed == \E a \in ToSet(harness.arrived), check \in Checks : a.judgement[check] = NoProbability
  IN  harness # NotRun /\ asked # {} =>
        /\ harness.command.confirm = ToString(Cardinality(asked))
        /\ Cardinality(asked) <= MaxPlannedCalls
        /\ Len(harness.waiting) + Len(harness.arrived) = Cardinality(asked)
        /\ asked = [fixture : 1..Len(harness.selected), repeat : 0..harness.command.repeat - 1]
        /\ ToSet(harness.selected) \subseteq lines
        /\ \A x \in ToSet(harness.selected) : harness.command.categories \in SUBSET Categories
             /\ (harness.command.categories # {} => x.category \in harness.command.categories)
        /\ \A x \in lines : x.flaws = {} /\ Cardinality({y \in lines : y.id = x.id}) = 1
        /\ "key" \in {world.override, world.keyring}
        /\ harness.stage = "exited" =>
             (harness.exit = 0 <=> ~failed /\ harness.written = {"report.json", "report.md"})

\* The report is what the answers say, whatever the order in which they came: each
\* evaluation is counted once and what could not be judged never as a pass; a row of
\* the sweep agrees with the sets of answers, and an operating point with the states
\* the runtime's gates came to; the bins hold every value; the crossings of a
\* fixture are those of its repeats in their order (metrics.ts:56-59, 317-321).
ReportExact ==
  harness # NotRun /\ harness.stage = "writing" =>
    \A check \in Checks :
      LET report == harness.report.checks[check]
          arrived == ToSet(harness.arrived)
          Answer(a) == a.judgement[check]
          Violates(a) == LET fixture == harness.selected[a.fixture]
                         IN  (IF check = "scopeCreep" THEN fixture.scope ELSE fixture.complexity) = "VIOLATION"
          judged == {a \in arrived : Answer(a) # NoProbability}
          Above(threshold) == {a \in judged : Answer(a) >= threshold}
          wrong == {a \in arrived : Violates(a)}
          rows == ToSet(report.thresholdSweep) \cup ToSet(report.operatingPoints)
          At90 == IF check = "scopeCreep" THEN Above(90) ELSE {}
          At65 == IF check = "scopeCreep" THEN Above(65) ELSE Above(50)
          summary == report.distribution.overall
          Next(a, b) == /\ a.fixture = b.fixture /\ a.repeat < b.repeat
                        /\ ~\E c \in judged : c.fixture = a.fixture /\ a.repeat < c.repeat /\ c.repeat < b.repeat
          primary == report.operatingPoints[1].threshold
      IN  /\ report.operational.attempted = Cardinality(arrived)
          /\ report.operational.evaluated = Cardinality(judged)
          /\ report.operational.unavailable = Cardinality(arrived) - Cardinality(judged)
          /\ Len(report.unavailable) = report.operational.unavailable
          /\ {[threshold |-> r.threshold, matrix |-> r.matrix] : r \in rows} =
               {[threshold |-> t, matrix |->
                  [truePositive |-> Cardinality(Above(t) \cap wrong), falsePositive |-> Cardinality(Above(t) \ wrong),
                   falseNegative |-> Cardinality((judged \ Above(t)) \cap wrong),
                   trueNegative |-> Cardinality((judged \ Above(t)) \ wrong)]] : t \in {5 * k : k \in 0..20}}
          /\ \A r \in rows : /\ r.metrics.precision = NoMetric <=> Above(r.threshold) = {}
                             /\ r.metrics.recall = NoMetric <=> judged \cap wrong = {}
          /\ report.gateStateMatrix[<<"VIOLATION", "FAIL">>] = Cardinality(At90 \cap wrong)
          /\ report.gateStateMatrix[<<"NO_VIOLATION", "WARN">>] = Cardinality((At65 \ At90) \ wrong)
          /\ report.gateStateMatrix[<<"NO_VIOLATION", "PASS">>] = Cardinality((judged \ At65) \ wrong)
          /\ \A bin \in 0..9 : report.distribution.histogram[bin] =
               Cardinality({a \in judged : Answer(a) \in 10 * bin..10 * bin + (IF bin = 9 THEN 10 ELSE 9)})
          /\ summary = NoMetric <=> judged = {}
          /\ summary # NoMetric => \A p \in DOMAIN summary.quantiles :
               /\ 100 * Cardinality({a \in judged : 100 * Answer(a) <= summary.quantiles[p]})
                    >= p * (Cardinality(judged) - 1)
               /\ 100 * Cardinality({a \in judged : 100 * Answer(a) >= summary.quantiles[p]})
                    >= (100 - p) * (Cardinality(judged) - 1)
          /\ \A row \in ToSet(report.repeats) :
               row.crossings = Cardinality({pair \in judged \X judged :
                 /\ harness.selected[pair[1].fixture].id = row.fixture /\ Next(pair[1], pair[2])
                 /\ (Answer(pair[1]) >= primary) # (Answer(pair[2]) >= primary)})
=============================================================================
