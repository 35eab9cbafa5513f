----------------------------- MODULE LocalStore -----------------------------
(***************************************************************************)
(* JevGuard's local files and the processes that share them                *)
(* (node-infra/src/history, node-infra/src/feedback, plugin/src/cli):      *)
(* reviewing processes append to reviews.jsonl, `jevguard feedback` lists  *)
(* the unanswered FAILs of that history and appends answers to             *)
(* feedback.jsonl, and each of them rewrites the file it appended to when  *)
(* the file has grown too long.  There is no lock: every file operation is *)
(* a step of its own.  remediation-chains.jsonl is written by the same     *)
(* code as reviews.jsonl and is not modelled a second time.                *)
(***************************************************************************)
EXTENDS FeedbackReport
LOCAL INSTANCE SequencesExt
LOCAL INSTANCE FiniteSetsExt

CONSTANTS
  Writers,      \* processes that record reviews: OpenCode servers, Claude workers
  Terminals,    \* processes that run `jevguard feedback`
  MaxSize,      \* per file, the size it may have; every line has size 1
  MaxRecords,   \* per file, the lines or FAILs a rewrite keeps
  Turns,        \* the turns that may be reviewed, some of them again
  ResultLists,  \* the results a review may have
  Histories,    \* what reviews.jsonl may hold at first: sequences of records
  Feedbacks,    \* what feedback.jsonl may hold at first
  Faults,       \* the faults allowed: subset of FaultKinds
  MaxFaults,    \* bound: faults
  MaxEvents     \* bound: reviews recorded, commands run and faults, together

\* "stop": a file operation fails, or its process dies.  "cut": a write stops
\* short of the line's end.  "delete": the user removes a file.
FaultKinds == {"stop", "cut", "delete"}
Files == {"reviews", "feedback"}
Procs == Writers \cup Terminals

ASSUME StoreAssumption ==
  /\ Writers \cap Terminals = {}
  /\ MaxSize \in [Files -> Nat] /\ MaxRecords \in [Files -> Nat \ {0}]
  /\ Faults \subseteq FaultKinds
  /\ {MaxFaults, MaxEvents} \subseteq Nat

\* What a file nobody is working on is not longer than, and at first neither.
FileLimit(f) == Max({MaxSize[f], MaxRecords[f]})

\* What a review and an answer are.
ResultLines == [kind : {"RULE", "BUILT_IN", "REVIEW"}, id : Nat, outcome : Outcomes,
                evidence : {"WHOLE", "SLICED", "NONE"}]
ReviewLines == [turn : Nat, time : Nat, results : Seq(ResultLines)]
AnswerLines == [turn : Nat, rule : Nat, decision : {"RIGHT", "WRONG"}]

ASSUME StartAssumption ==
  /\ Turns \subseteq Nat /\ ResultLists \subseteq Seq(ResultLines)
  /\ \A history \in Histories : /\ history \in Seq(ReviewLines)
                                /\ Len(history) <= FileLimit("reviews")
  /\ \A feedback \in Feedbacks : /\ feedback \in Seq(AnswerLines)
                                  /\ Len(feedback) <= FileLimit("feedback")

VARIABLES
  files,      \* the two JSON Lines files
  selection,  \* feedback-selection.json
  procs,      \* what each process is doing
  clock,      \* the current time
  used,       \* bounds: faults, and events of any kind, so far
  truth       \* history variable: the writes to each file since it was made, and the listings

vars == <<files, selection, procs, clock, used, truth>>

Idle == [stage |-> "idle"]
Line(value) == [tag |-> "RECORD", value |-> value]
Malformed == [tag |-> "MALFORMED"]

\* A file is its lines; cut says that the last of them has no newline.
Missing == [present |-> FALSE, lines |-> <<>>, cut |-> FALSE]
FileOf(lines) == [present |-> TRUE, lines |-> lines, cut |-> FALSE]

\* parseJsonLines: a malformed line is skipped and counted.
ParseJsonLines(file) ==
  LET good == Kept(file.lines, {line \in ToSet(file.lines) : line.tag = "RECORD"})
  IN  [records |-> [i \in DOMAIN good |-> good[i].value], skipped |-> Len(file.lines) - Len(good)]

\* The n of a record tells equal ones apart; no code looks at it.
Numbered(values) == [i \in DOMAIN values |-> Over([n |-> i - Len(values)], values[i])]
AsLines(values) == [i \in DOMAIN values |-> Line(values[i])]
AllSound(values) == [i \in DOMAIN values |-> [value |-> values[i], sound |-> TRUE]]

Init ==
  \E history \in Histories, feedback \in Feedbacks :
    LET reviews == Numbered(history)
        answers == Numbered(feedback)
        listed == ListPendingFails(reviews, <<>>).items
    IN  /\ files = [reviews |-> FileOf(AsLines(reviews)), feedback |-> FileOf(AsLines(answers))]
        /\ selection = Selection(listed)
        /\ procs = [p \in Procs |-> Idle]
        /\ clock = Max({0} \cup {history[i].time : i \in DOMAIN history})
        /\ used = [events |-> 0, faults |-> 0]
        /\ truth = [reviews |-> AllSound(reviews), feedback |-> AllSound(answers),
                    listings |-> <<Selection(listed).items>>]

----------------------------------------------------------------------------
(* Appending a line, and rewriting a file that is too long                  *)
(* (history/local.ts, history/jsonl-file.ts, feedback/compact.ts).          *)

Event == used.events < MaxEvents /\ used' = [used EXCEPT !.events = @ + 1]
Fault(kind) ==
  /\ kind \in Faults /\ used.faults < MaxFaults /\ used.events < MaxEvents
  /\ used' = [used EXCEPT !.faults = @ + 1, !.events = @ + 1]

Go(p, job) == procs' = [procs EXCEPT ![p] = job]

\* The processes that have read the file and will replace it.
Replacing(f) == {p \in Procs : procs[p].stage = "replace" /\ procs[p].file = f}

\* What a write to f leaves: a line after one without a newline is lost in it.
Grown(file, line, cut) ==
  [present |-> TRUE, cut |-> cut,
   lines |-> IF file.cut THEN Append(Front(file.lines), Malformed) ELSE Append(file.lines, line)]

Noted(f, value, sound) == [truth EXCEPT ![f] = Append(@, [value |-> value, sound |-> sound])]

AppendLine(p) ==
  /\ procs[p].stage = "append"
  /\ LET f == procs[p].file
     IN  /\ files' = [files EXCEPT ![f] = Grown(@, Line(procs[p].value), FALSE)]
         /\ truth' = Noted(f, procs[p].value, ~files[f].cut /\ Replacing(f) = {})
         /\ Go(p, [stage |-> "size", file |-> f])
  /\ UNCHANGED <<selection, clock, used>>

\* Only a part of the line is written, perhaps all but its newline.
AppendCut(p) ==
  /\ Fault("cut")
  /\ procs[p].stage = "append"
  /\ \E line \in {Line(procs[p].value), Malformed} :
       files' = [files EXCEPT ![procs[p].file] = Grown(@, line, TRUE)]
  /\ truth' = Noted(procs[p].file, procs[p].value, FALSE)
  /\ Go(p, Idle)
  /\ UNCHANGED <<selection, clock>>

\* Variant of CheckSize: the limit is looked at as if the new line were not there.
CheckSizeBefore(p) ==
  /\ procs[p].stage = "size"
  /\ LET file == files[procs[p].file]
     IN  Go(p, IF Len(file.lines) - 1 <= MaxSize[procs[p].file] THEN Idle
               ELSE [procs[p] EXCEPT !.stage = "read"])
  /\ UNCHANGED <<files, selection, clock, used, truth>>

\* sizeOf: a file within its limit, or gone, stays as it is.
CheckSize(p) ==
  /\ procs[p].stage = "size"
  /\ LET file == files[procs[p].file]
     IN  Go(p, IF Len(file.lines) <= MaxSize[procs[p].file] THEN Idle
               ELSE [procs[p] EXCEPT !.stage = "read"])
  /\ UNCHANGED <<files, selection, clock, used, truth>>

\* The lines a rewrite keeps: the newest of the history, malformed ones too,
\* and of the feedback the newest answers, one for each FAIL.
Rewritten(f, file) ==
  IF f = "reviews" THEN Newest(file.lines, MaxRecords[f])
  ELSE AsLines(CompactFeedback(ParseJsonLines(file).records, MaxRecords[f]))

\* readFile.  A feedback file without one valid record is left alone.
ReadContents(p) ==
  /\ procs[p].stage = "read"
  /\ LET f == procs[p].file
         file == files[f]
         unusable == f = "feedback" /\ ParseJsonLines(file).records = <<>> /\ file.lines # <<>>
     IN  Go(p, IF ~file.present \/ unusable THEN Idle
               ELSE [stage |-> "replace", file |-> f, lines |-> Rewritten(f, file)])
  /\ UNCHANGED <<files, selection, clock, used, truth>>

\* writeFileAtomic.
Replace(p) ==
  /\ procs[p].stage = "replace"
  /\ files' = [files EXCEPT ![procs[p].file] = FileOf(procs[p].lines)]
  /\ Go(p, Idle)
  /\ UNCHANGED <<selection, clock, used, truth>>

\* A failed operation ends what the process does, and so does its death:
\* nothing is retried and nothing is undone.
Stop(p) ==
  /\ Fault("stop")
  /\ procs[p] # Idle
  /\ Go(p, Idle)
  /\ UNCHANGED <<files, selection, clock, truth>>

----------------------------------------------------------------------------
(* Recording a review (history/local.ts).  One process appends one review  *)
(* at a time.                                                              *)

RecordReview(w, turn, results) ==
  /\ procs[w] = Idle
  /\ Event
  /\ clock' = clock + 1
  /\ Go(w, [stage |-> "append", file |-> "reviews",
            value |-> [turn |-> turn, time |-> clock', results |-> results,
                       n |-> used.events + 1]])
  /\ UNCHANGED <<files, selection, truth>>

----------------------------------------------------------------------------
(* `jevguard feedback` (cli/feedback/execute.ts).  A command first reads   *)
(* its files, in any order, and then acts on what it has read.             *)

Reads(stage) == IF stage = "list" THEN Files ELSE Files \cup {"selection"}

Command(t, job) ==
  /\ procs[t] = Idle
  /\ Event
  /\ Go(t, Over(job, [got |-> <<>>, n |-> used.events + 1, since |-> Len(truth.listings)]))
  /\ UNCHANGED <<files, selection, clock, truth>>

\* `jevguard feedback`, and `jevguard feedback <number> <right|wrong>`.
List(t) == Command(t, [stage |-> "list"])
Mark(t, number, decision) ==
  Command(t, [stage |-> "mark", number |-> number, decision |-> decision])

ReadPart(t, part) ==
  /\ procs[t].stage \in {"list", "mark"}
  /\ part \in Reads(procs[t].stage) \ DOMAIN procs[t].got
  /\ procs' = [procs EXCEPT ![t].got =
                 With(@, part, IF part = "selection" THEN selection
                               ELSE ParseJsonLines(files[part]).records)]
  /\ UNCHANGED <<files, selection, clock, used, truth>>

HasRead(t, stage) == procs[t].stage = stage /\ DOMAIN procs[t].got = Reads(stage)

\* writeSelection, and then the listing is printed.
WriteSelection(t) ==
  /\ HasRead(t, "list")
  /\ LET got == procs[t].got
         listed == Selection(ListPendingFails(got["reviews"], got["feedback"]).items)
     IN  /\ selection' = listed
         /\ truth' = [truth EXCEPT !.listings = Append(@, listed.items)]
  /\ Go(t, Idle)
  /\ UNCHANGED <<files, clock, used>>

AnswerTo(fail, job) ==
  [stage |-> "append", file |-> "feedback", number |-> job.number, since |-> job.since,
   value |-> [turn |-> fail.turn, rule |-> fail.rule, decision |-> job.decision, n |-> job.n]]

\* Variant of DecideMark: the number counts the FAILs that wait now.
DecideMarkAnew(t) ==
  /\ HasRead(t, "mark")
  /\ LET got == procs[t].got
         items == ListPendingFails(got["reviews"], got["feedback"]).items
     IN  Go(t, IF procs[t].number \notin DOMAIN items THEN Idle
               ELSE AnswerTo(items[procs[t].number], procs[t]))
  /\ UNCHANGED <<files, selection, clock, used, truth>>

\* An unusable number, or an answer that changes nothing, writes nothing.
DecideMark(t) ==
  /\ HasRead(t, "mark")
  /\ LET got == procs[t].got
         target == ResolveTarget(got["selection"], procs[t].number, got["reviews"])
     IN  Go(t, IF \/ target.status # "FOUND"
                  \/ ~ChangesDecision(target.fail, procs[t].decision, got["feedback"])
               THEN Idle ELSE AnswerTo(target.fail, procs[t]))
  /\ UNCHANGED <<files, selection, clock, used, truth>>

\* The user deletes a file, which is safe at any time (configuration.md).
DeleteFile(f) ==
  /\ Fault("delete")
  /\ files' = [files EXCEPT ![f] = Missing]
  /\ truth' = [truth EXCEPT ![f] = <<>>]
  /\ UNCHANGED <<selection, procs, clock>>

DeleteSelection ==
  /\ Fault("delete")
  /\ selection' = NoSelection
  /\ UNCHANGED <<files, procs, clock, truth>>

Next ==
  \/ \E w \in Writers, turn \in Turns, results \in ResultLists : RecordReview(w, turn, results)
  \/ \E t \in Terminals : \/ List(t)
                          \/ \E k \in 1..ListLimit, d \in {"RIGHT", "WRONG"} : Mark(t, k, d)
                          \/ \E part \in Files \cup {"selection"} : ReadPart(t, part)
                          \/ WriteSelection(t)
                          \/ DecideMark(t)
  \/ \E p \in Procs : \/ AppendLine(p) \/ AppendCut(p) \/ CheckSize(p) \/ ReadContents(p)
                      \/ Replace(p) \/ Stop(p)
  \/ \E f \in Files : DeleteFile(f)
  \/ DeleteSelection

Spec == Init /\ [][Next]_vars

(***************************************************************************)
(* Properties                                                              *)
(***************************************************************************)

\* A write is sound if it came whole, on a line of its own, and not while
\* another process was about to replace the file with what it had read before.

\* The history keeps its newest reviews: a sound one stays in the file, once
\* and in the order of the writes, until MaxRecords more lines were written
\* (configuration.md: "rewrites itself once it passes 5 MB keeping the newest
\* records").
NewestKept ==
  LET all == truth.reviews
      lines == files["reviews"].lines
      Places(i) == {k \in DOMAIN lines : lines[k] = Line(all[i].value)}
      sound == {i \in DOMAIN all : all[i].sound}
  IN  \A i \in sound :
        /\ Cardinality(Places(i)) <= 1
        /\ Places(i) = {} => Len(all) - i >= MaxRecords["reviews"]
        /\ \A j \in sound : i < j =>
             \A k \in Places(i), l \in Places(j) : k < l

\* While no write fails, a file that nobody is working on is within its size, or
\* holds no more than a rewrite keeps.
FilesBounded ==
  \A f \in Files :
    used.faults = 0 /\ (\A p \in Procs : procs[p].stage \in {"size", "read", "replace"} =>
                                           procs[p].file # f) =>
      Len(files[f].lines) <= FileLimit(f)

\* An answer counts until it is changed: the last answer written for a FAIL, if
\* sound, is the one every reader finds, unless MaxRecords other FAILs were
\* answered after it (security.md: compacted "to one line per answered FAIL with
\* its latest decision, keeping at most the 5000 most recently answered").
AnswersKept ==
  LET all == truth.feedback
      decisions == LatestDecisions(ParseJsonLines(files["feedback"]).records)
      Key(i) == IdentityOf(all[i].value)
      After(i) == {Key(j) : j \in (i + 1)..Len(all)}
  IN  \A i \in DOMAIN all :
        all[i].sound /\ Key(i) \notin After(i)
          /\ Cardinality(After(i)) < MaxRecords["feedback"] =>
            Key(i) \in DOMAIN decisions /\ decisions[Key(i)] = all[i].value.decision

\* No rewrite of a file loses what it should keep, and none is left out.
RewritesKeep == NewestKept /\ AnswersKept /\ FilesBounded

\* An answer goes to the FAIL that the last listing showed under its number,
\* whatever was reviewed, answered or rotated since (configuration.md: "Each
\* listing pins its numbers"); the last listing is one that was the last at
\* some moment of the command.
NumberMeansShown ==
  \A t \in Terminals :
    procs[t].stage = "append" =>
      \E k \in procs[t].since..Len(truth.listings) :
        /\ procs[t].number \in DOMAIN truth.listings[k]
        /\ truth.listings[k][procs[t].number] = IdentityOf(procs[t].value)

\* The listing and the report tell of the same FAILs.  A rule's right, wrong and
\* unanswered add up to the turns it failed in, its unanswered are those no line
\* of the feedback is about, and these of all rules are the listing's total; the
\* listing shows the newest of them, each with its latest review, newest first
\* (configuration.md "jevguard feedback", report/aggregate.ts:46-55).
ListingMatchesReport ==
  LET reviews == ParseJsonLines(files["reviews"])
      answers == ParseJsonLines(files["feedback"]).records
      records == reviews.records
      report == AggregateHistory(records, reviews.skipped, answers)
      listing == ListPendingFails(records, answers)
      items == listing.items
      Failed(i) == {rule \in DOMAIN report.rules :
                      \E j \in DOMAIN records[i].results :
                        IsRuleFail(records[i].results[j]) /\ records[i].results[j].id = rule}
      fails == UNION {{<<records[i].turn, rule, records[i].time>> : rule \in Failed(i)} :
                        i \in DOMAIN records}
      answered == {IdentityOf(answers[a]) : a \in DOMAIN answers}
      waiting == {x \in fails : /\ <<x[1], x[2]>> \notin answered
                                /\ \A y \in fails : y[1] = x[1] /\ y[2] = x[2] => y[3] <= x[3]}
  IN  /\ \A rule \in DOMAIN report.rules :
           LET breakdown == report.rules[rule]
               c == breakdown.calibration
               turns == {x[1] : x \in {y \in fails : y[2] = rule}}
           IN  /\ c.right + c.wrong + c.unanswered = Cardinality(turns)
               /\ c.unanswered = Cardinality({x \in waiting : x[2] = rule})
               /\ Cardinality(turns) <= breakdown.counts["FAIL"]
      /\ listing.total = Cardinality(waiting)
      /\ Len(items) = Min({ListLimit, listing.total})
      /\ \A k \in DOMAIN items :
           /\ <<items[k].turn, items[k].rule, items[k].time>> \in waiting
           /\ Cardinality({x \in waiting : x[3] > items[k].time}) < k

\* What `jevguard feedback` shows is what is there, and stays what its numbers mean.
ListingTruthful == NumberMeansShown /\ ListingMatchesReport
=============================================================================
