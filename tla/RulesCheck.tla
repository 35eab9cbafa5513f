----------------------------- MODULE RulesCheck -----------------------------
(***************************************************************************)
(* `jevguard rules check` (plugin/src/cli/rules-check): the arguments, the *)
(* diff from a file or from stdin, its strict reading (UnifiedDiff), the   *)
(* check of the rules over its files (TurnReview) and the exit code.  The  *)
(* reviews of whole turns run in the same specification.                   *)
(***************************************************************************)
EXTENDS TurnReview, UnifiedDiff
LOCAL INSTANCE SequencesExt
LOCAL INSTANCE FiniteSetsExt

CONSTANTS
  Inputs,       \* [args, text]: the tokens of a command, the lines of the diff
                \* its source holds
  ClassOf(_)    \* the evidence class of a path

VARIABLES
  input,        \* the arguments, and the text while it is being read
  exit          \* the exit code

checkVars == <<vars, input, exit>>

NoInput == [args |-> <<>>, text |-> <<>>]
NoExit == -1

----------------------------------------------------------------------------
(* Arguments. *)

ValueFlags == {"--diff", "--task", "--rule"}
NotGiven == [flag \in ValueFlags |-> ""]
Unusable == [flag \in ValueFlags |-> "unusable"]

\* A value flag takes the next token, whatever it is; a repeated flag, an
\* unknown one and a missing or empty value make the command unusable.
CollectFlags(args) ==
  LET Collect[i \in 1..Len(args) + 2, flags \in [ValueFlags -> STRING], json \in BOOLEAN] ==
        CASE i > Len(args) -> flags
          [] i <= Len(args) /\ args[i] = "--json" /\ ~json -> Collect[i + 1, flags, TRUE]
          [] i < Len(args) /\ args[i] \in ValueFlags /\ args[i + 1] # "" /\ flags[args[i]] = "" ->
               Collect[i + 2, [flags EXCEPT ![args[i]] = args[i + 1]], json]
          [] OTHER -> Unusable
  IN  Collect[1, NotGiven, FALSE]

Usable(flags) == flags # Unusable /\ flags["--diff"] # ""
SourceOf(flags) == IF flags["--diff"] = "-" THEN "STDIN" ELSE "FILE"

\* What the reader of a source may answer instead of a text.
ReadFailures(source) ==
  {"DIFF_READ_FAILURE", "DIFF_TOO_LARGE", "DIFF_NOT_UTF8"}
    \cup (IF source = "STDIN" THEN {"STDIN_IS_TTY"} ELSE {})

----------------------------------------------------------------------------
(* The files of a diff, measured in lines. *)

FileOf(text, file) ==
  LET headers == {i \in file.first..file.end - 1 : text[i].kind = "hunk"}
      Ends(i) == Min({j \in headers : j > i} \cup {file.end})
      starts == SetToSortSeq(headers, <)
  IN  [path |-> file.path, class |-> ClassOf(file.path),
       preamble |-> Min(headers) - file.first,
       hunks |-> [k \in DOMAIN starts |-> Ends(starts[k]) - starts[k]]]

FilesOf(text, files) == [k \in DOMAIN files |-> FileOf(text, files[k])]

----------------------------------------------------------------------------

CheckInit ==
  /\ exit = NoExit
  /\ \/ /\ \E files \in Turns : Starts([kind |-> "turn", files |-> files], "loading")
        /\ input = NoInput
     \/ /\ Starts([kind |-> "check", files |-> <<>>, id |-> "all"], "reading")
        /\ input \in Inputs

Flags == CollectFlags(input.args)

RefusesArguments ==
  /\ stage = "reading" /\ ~Usable(Flags)
  /\ stage' = "exited" /\ exit' = 2
  /\ input' = NoInput
  /\ UNCHANGED <<request, policy, plans, asked, answers, rules, builtIns, review>>

InputFails(reason) ==
  /\ stage' = "done"
  /\ review' = [status |-> "INPUT_FAILED", reason |-> reason]
  /\ input' = NoInput
  /\ UNCHANGED <<request, policy, plans, asked, answers, rules, builtIns, exit>>

ReadFails ==
  /\ stage = "reading" /\ Usable(Flags)
  /\ \E reason \in ReadFailures(SourceOf(Flags)) : InputFails(reason)

\* executeRulesCheck up to checkRules.
ReadsDiff ==
  /\ stage = "reading" /\ Usable(Flags)
  /\ \E parsed \in {ParseUnifiedDiff(input.text)} :
       IF parsed.status = "INVALID" THEN InputFails(parsed.reason)
       ELSE /\ request' = [request EXCEPT
                 !.files = FilesOf(input.text, parsed.files),
                 !.id = IF Flags["--rule"] = "" THEN "all" ELSE Flags["--rule"]]
            /\ stage' = "loading"
            /\ input' = NoInput
            /\ UNCHANGED <<policy, plans, asked, answers, rules, builtIns, review, exit>>

\* Variant of RulesCheckExitCode: what is unavailable does not count.
ExitCodeOfVerdicts(result) ==
  CASE result.status # "REVIEWED" -> 2
    [] result.status = "REVIEWED" /\ result.verdict = "FAIL" -> 1
    [] OTHER -> 0

RulesCheckExitCode(result) ==
  CASE result.status # "REVIEWED" -> 2
    [] result.status = "REVIEWED" /\ result.verdict = "FAIL" -> 1
    [] result.status = "REVIEWED" /\ result.verdict # "FAIL" /\ result.hasUnavailable -> 2
    [] OTHER -> 0

Exits ==
  /\ request.kind = "check" /\ stage = "done"
  /\ stage' = "exited"
  /\ exit' = RulesCheckExitCode(review)
  /\ UNCHANGED <<request, policy, plans, asked, answers, rules, builtIns, review, input>>

CheckNext ==
  \/ Next /\ UNCHANGED <<input, exit>>
  \/ RefusesArguments \/ ReadFails \/ ReadsDiff \/ Exits

\* Files and stdin end, the loader answers and the port settles every call
\* (FifoJevPort).
CheckSpec == CheckInit /\ [][CheckNext]_checkVars /\ WF_checkVars(CheckNext)

(***************************************************************************)
(* Properties                                                              *)
(***************************************************************************)

\* The grammar.  Lines from..end-1 are hunks, each of exactly its header's counts.
AreHunks(text, from, end) ==
  /\ from < end /\ text[from].kind = "hunk"
  /\ \A i \in from..end - 1 :
       \/ text[i].kind = "hunk" \/ Marker(text[i]) # "none"
       \/ text[i].kind = "no newline" /\ Marker(text[i - 1]) # "none"
  /\ \A h \in from..end - 1 : text[h].kind = "hunk" =>
       LET body == h + 1..Min({end} \cup {j \in h + 1..end : Kind(text, j) = "hunk"}) - 1
       IN  /\ text[h].removed = Cardinality({i \in body : ConsumesOld(text[i])})
           /\ text[h].added = Cardinality({i \in body : ConsumesNew(text[i])})

\* One file is named, in the manner of the format, and nothing moves it.
NamesOneFile(text, start, names, format) ==
  LET values == {text[names].value, text[names + 1].value}
      headers == start + 1..names - 1
      MovedTo(kind) == {text[i].value.path : i \in {i \in headers : text[i].kind = kind}}
  IN  /\ text[names].kind = "old" /\ text[names + 1].kind = "new"
      /\ \/ \A v \in values : v.form \in {"own", "null"}
         \/ format = "PLAIN" /\ \A v \in values : v.form \in {"bare", "null"}
      /\ Cardinality({v.path : v \in values} \ {NoPath}) = 1
      /\ \A v \in values : v.path # ""
      /\ format = "GIT" =>
           /\ text[start].form = "paths" /\ text[start].from = text[start].to
           /\ \A v \in values : v.path \in {NoPath, text[start].from}
           /\ MovedTo("moved from") = {} \/ MovedTo("moved to") = {}
                \/ MovedTo("moved from") = MovedTo("moved to")

IsExtended(line) ==
  \/ line.kind = "extended"
  \/ line.kind \in {"moved from", "moved to"} /\ line.value.form # "quoted"

\* Lines first..end-1 are a section, with content from its first hunk on.
IsSectionWith(text, first, end, format) ==
  LET hunks == Min({end} \cup {i \in first..end - 1 : text[i].kind = "hunk"})
  IN  IF format = "PLAIN"
      THEN hunks = first + 2 /\ NamesOneFile(text, first, first, format) /\ AreHunks(text, hunks, end)
      ELSE /\ text[first].form = "paths" /\ "" \notin {text[first].from, text[first].to}
           /\ IF hunks = end THEN \A i \in first + 1..end - 1 : IsExtended(text[i])
              ELSE /\ hunks > first + 2
                   /\ \A i \in first + 1..hunks - 3 : IsExtended(text[i])
                   /\ NamesOneFile(text, first, hunks - 2, format)
                   /\ AreHunks(text, hunks, end)

\* The sections from these starts on: each ends where the next one starts, the
\* last at the end or before blank lines.
SectionsFrom(text, starts, format) ==
  UNION {LET next == Min({j \in starts : j > first} \cup {Len(text) + 1})
             ends == IF next <= Len(text) THEN {next}
                     ELSE {e \in first + 1..next : IsBlankTail(text, e)}
         IN  {[first |-> first, end |-> end] :
                end \in {e \in ends : IsSectionWith(text, first, e, format)}} : first \in starts}

\* The ways to read a text, as sets of sections that leave out only blank lines.
Readings(text) ==
  LET written == {i \in DOMAIN text : text[i].kind # "blank"}
      git == {i \in DOMAIN text : text[i].kind = "git"}
      format == IF git = {} THEN "PLAIN" ELSE "GIT"
      starts == {i \in DOMAIN text : text[i].kind = (IF git = {} THEN "old" ELSE "git")}
  IN  IF written = {} THEN {{}}
      ELSE {SectionsFrom(text, S, format) : S \in
              {S \in SUBSET starts :
                 /\ S # {} /\ Min(S) = Min(written)
                 /\ {s.first : s \in SectionsFrom(text, S, format)} = S}}

\* The changed files of a reading: its sections with content.
FilesRead(text, sections) ==
  LET HunksOf(s) == {i \in s.first..s.end - 1 : text[i].kind = "hunk"}
      PathsOf(s) == {text[Min(HunksOf(s)) - k].value.path : k \in {1, 2}} \ {NoPath}
  IN  {[path |-> CHOOSE p \in PathsOf(s) : TRUE, first |-> s.first, end |-> s.end] :
         s \in {t \in sections : HunksOf(t) # {}}}

\* "Anything not fully understood makes the whole input INVALID, so a partial diff
\* is never evaluated" (parse-unified-diff.ts:38-46): a text is read exactly when
\* the grammar reads it, it reads it in one way, and the files are that reading's,
\* in order, each with all lines of its own section and no others.
DiffReadExactly ==
  stage = "reading" =>
    \A parsed \in {ParseUnifiedDiff(input.text)}, readings \in {Readings(input.text)} :
      /\ Cardinality(readings) <= 1
      /\ parsed.status = "PARSED" <=> readings # {}
      /\ parsed.status = "PARSED" =>
           /\ {ToSet(parsed.files)} = {FilesRead(input.text, sections) : sections \in readings}
           /\ \A i, j \in DOMAIN parsed.files : i < j => parsed.files[i].end <= parsed.files[j].first

\* The exit code can be relied on.  0: the diff was read and every rule that was
\* asked for either applies to none of its files or has answers to all its
\* requests, none of them a FAIL; 1: at least one request came to a FAIL
\* (cli.md, exit-code.ts:3-7).
ExitCodeTrue ==
  LET Outcomes(id) == {AnswerOutcome(RuleOf(id).severity, answers[i], Gate.gate) : i \in Own(id)}
      Applies(id) == \E f \in Files : f.path \in RuleOf(id).scope
                                        /\ InEvidenceClass(f, RuleOf(id).evidence)
      ids == {Candidates[i].id : i \in DOMAIN Candidates}
  IN  /\ exit = 0 =>
           /\ Evaluating /\ ids # {}
           /\ \A i \in DOMAIN Candidates : Candidates[i].status = "PARSED"
           /\ \A id \in ids : IF Applies(id) THEN Own(id) # {} /\ Outcomes(id) \subseteq {"PASS", "WARN"}
                              ELSE Own(id) = {}
      /\ exit = 1 => Evaluating /\ \E id \in ids : "FAIL" \in Outcomes(id)

\* Every review of a turn ends with an outcome and every command with an exit
\* code, whatever the diff's source, the loader and Jev answer.
ReviewEnds == <>(IF request.kind = "turn" THEN review # Pending ELSE exit # NoExit)
=============================================================================
