----------------------------- MODULE ReviewFeed -----------------------------
(***************************************************************************)
(* The user-only review feed of Claude Code: the review workers append a   *)
(* STARTED and a RECORDED line per unit (worker/feed.ts, hook/log.ts), and *)
(* the mod in the session polls the file and shows each review             *)
(* (presentation/*.ts, mod/register.ts).  Every await of the mod on its    *)
(* host is a point where its other callbacks run: a poll, the handler of   *)
(* session.start (baseline) and the one of turn.complete (arm) share       *)
(* `watch`, `generation` and `cache`.                                      *)
(*                                                                         *)
(* What a proposal's task does once it is queued is in ClaudeWorker.       *)
(***************************************************************************)
EXTENDS Integers, Sequences, FiniteSets, Lists
LOCAL INSTANCE SequencesExt

CONSTANTS
  Sessions,       \* session ids that are safe file names
  Scenarios,      \* bounds of a behaviour, one of which Init takes: records of the units
                  \* reviewed, [session, ordinal], what their RECORDED lines may hold, and
                  \* of the number of faults, of events (session.start, session change,
                  \* turn.complete) and of the clock
  WatchWindow, PendingMax, Ceiling,  \* watch.ts, in units of time
  FeedLimit, FeedRetained,  \* lines of a file before, and after, it is cut down
  MaxResults,     \* results a line may have to be read (200)
  MaxStarts,      \* bound: times the review of one unit begins
  Faults          \* the faults allowed: subset of FaultKinds

\* "read": the host refuses to read the file.  "host": another host call of a
\* handler fails.  "ui": the host refuses to show something.
FaultKinds == {"read", "host", "ui"}

ASSUME FeedAssumption ==
  /\ {WatchWindow, PendingMax, Ceiling, FeedLimit, FeedRetained, MaxResults, MaxStarts}
       \subseteq Nat
  /\ WatchWindow < PendingMax /\ PendingMax < Ceiling /\ FeedRetained < FeedLimit
  /\ \A scenario \in Scenarios : /\ \A t \in scenario.turns : t.session \in Sessions
                                 /\ {scenario.faults, scenario.events, scenario.time} \subseteq Nat
  /\ Faults \subseteq FaultKinds

Turns == UNION {scenario.turns : scenario \in Scenarios}
Contents == UNION {scenario.contents : scenario \in Scenarios}

CONSTANT None  \* no target, no poller, nothing in progress

VARIABLES
  now,
  feeds,       \* per session, the lines of its feed file
  trims,       \* per unit, the lines its worker is about to rewrite the file with
  wrote,       \* per unit, the lines written: how many STARTED, and whether RECORDED
  session,     \* the host's session id
  watch,       \* the units already shown, and when polling was armed
  poller,      \* the interval timer: [owner, session]
  target,      \* the session the watch belongs to
  generation,  \* changed whenever polling stops or starts
  cache,       \* the lines last read, and the session they are of
  poll,        \* the poll in progress (`polling` is poll # None)
  handler,     \* the event handler in progress
  handled,     \* units whose proposal has been queued
  queue,       \* the proposal tasks
  left,        \* bounds: the events, faults and units of time left
  log          \* history variable, see NoLog

workerVars == <<feeds, trims, wrote>>
pollVars == <<watch, poller, target, generation, cache, poll>>
proposalVars == <<handled, queue>>
vars == <<now, workerVars, session, pollVars, handler, proposalVars, left, log>>

-----------------------------------------------------------------------------
(* Lines and what is made of them (feed-record.ts, parse-feed.ts).          *)

Started(t, at) == [kind |-> "STARTED", turn |-> t, at |-> at]
Recorded(t, at, content) == [kind |-> "RECORDED", turn |-> t, at |-> at, content |-> content]

\* lineOf, recordedOf: more than MaxResults results, or an attempt beyond the
\* last, make a line invalid.  Of the fields a worker writes from typed data,
\* no other can be.  A line that is only partly written is dropped too: it is
\* as if the file had been read before it.
WellFormed(line) ==
  line.kind = "RECORDED" =>
    /\ line.content.results <= MaxResults
    /\ line.content.chain # None => line.content.chain.attempt <= line.content.chain.maxAttempts

ParseReviewFeed(lines) == Kept(lines, {line \in ToSet(lines) : WellFormed(line)})

TurnsOf(seq) == {seq[i].turn : i \in DOMAIN seq}

\* The elements of seq whose unit is none of turns.
WithoutTurns(seq, turns) == Kept(seq, {line \in ToSet(seq) : line.turn \notin turns})

\* The elements of seq at the positions kept.
At(seq, kept) ==
  LET keep == Kept([i \in DOMAIN seq |-> i], kept)
  IN  [i \in DOMAIN keep |-> seq[keep[i]]]

\* Elements of seq with the same unit after the first of them are left out.
UniqueByTurn(seq) ==
  At(seq, {i \in DOMAIN seq : \A j \in 1..(i - 1) : seq[j].turn # seq[i].turn})

\* sessionFeedOf
SessionFeedOf(lines, s) ==
  LET of(kind) == Kept(lines, {line \in ToSet(lines) : line.turn.session = s /\ line.kind = kind})
  IN  [recorded |-> of("RECORDED"), started |-> of("STARTED")]

\* openStarts
OpenStarts(fd) == UniqueByTurn(WithoutTurns(fd.started, TurnsOf(fd.recorded)))

\* stillInFeed
StillInFeed(ids, fd) == ids \cap (TurnsOf(fd.recorded) \cup TurnsOf(fd.started))

Old(line, nowMs) == nowMs - line.at > PendingMax
Pending(starts, nowMs) == Kept(starts, {line \in ToSet(starts) : ~Old(line, nowMs)})
Stale(starts, nowMs) == Kept(starts, {line \in ToSet(starts) : Old(line, nowMs)})

-----------------------------------------------------------------------------
(* The watch (watch.ts).                                                    *)

EmptyWatch == [shown |-> {}, armedAt |-> None]

BaselineWatch(lines, s, nowMs) ==
  LET fd == SessionFeedOf(lines, s)
      open == OpenStarts(fd)
  IN  [shown   |-> StillInFeed(TurnsOf(fd.recorded) \cup TurnsOf(Stale(open, nowMs)), fd),
       armedAt |-> IF Pending(open, nowMs) # <<>> THEN nowMs ELSE None]

ArmWatch(w, nowMs) == [w EXCEPT !.armedAt = nowMs]

\* displayOutcomeOf: the worst outcome, an unavailable one above a warning.
DisplayOutcomeOf(counts) ==
  IF counts.fail > 0 THEN "FAIL"
  ELSE IF counts.unavailable > 0 THEN "UNAVAILABLE"
  ELSE IF counts.warn > 0 THEN "WARN"
  ELSE IF counts.pass > 0 THEN "PASS" ELSE "SKIPPED"

\* describeReview: a skipped review has no line, and only a FAIL has a toast.
DescribeReview(line) ==
  LET outcome == DisplayOutcomeOf(line.content.counts)
  IN  (IF outcome = "SKIPPED" THEN <<>> ELSE <<[kind |-> "line", turn |-> line.turn]>>)
      \o (IF outcome = "FAIL" THEN <<[kind |-> "toast", turn |-> line.turn]>> ELSE <<>>)

\* chainNoticeOf: a chain that is still being delivered is not announced.
ChainNoticeOf(line) ==
  IF line.content.chain = None \/ line.content.chain.result = "DELIVERING" THEN <<>>
  ELSE <<[kind |-> line.content.chain.result, turn |-> line.turn]>>

\* configIssues: each code once per poll; told of the first review that has it.
ConfigIssues(fresh) ==
  LET code(i) == fresh[i].content.config
      told == At(fresh, {i \in DOMAIN fresh : /\ code(i) # None
                                              /\ \A j \in 1..(i - 1) : code(j) # code(i)})
  IN  [i \in DOMAIN told |-> [kind |-> told[i].content.config, turn |-> told[i].turn]]

\* What the status line may say; it is written again and again.
StatusKinds == {"reviewing", "result", "no result yet"}

WatchStatusOf(pending, fresh, stale) ==
  LET status(kind, seq) == <<[kind |-> kind, turn |-> Last(seq).turn]>>
  IN  CASE pending # <<>> -> status("reviewing", pending)
        [] pending = <<>> /\ fresh # <<>> -> status("result", fresh)
        [] pending = <<>> /\ fresh = <<>> /\ stale # <<>> -> status("no result yet", stale)
        [] OTHER -> <<>>

\* Variant of ShouldStop: a pending review does not keep the poller.
ShouldStopAtWindow(armedAt, pending, nowMs) == armedAt = None \/ nowMs - armedAt > WatchWindow

ShouldStop(armedAt, pending, nowMs) ==
  \/ armedAt = None
  \/ pending = <<>> /\ nowMs - armedAt > WatchWindow
  \/ nowMs - armedAt > Ceiling

\* Variant of TickWatch's shown: what is fresh replaces what was shown.
NowShownAnew(w, fresh, fd) == StillInFeed(TurnsOf(fresh), fd)

NowShown(w, fresh, fd) == StillInFeed(w.shown \cup TurnsOf(fresh), fd)

TickWatch(w, lines, s, nowMs) ==
  LET fd == SessionFeedOf(lines, s)
      fresh == UniqueByTurn(WithoutTurns(fd.recorded, w.shown))
      open == WithoutTurns(OpenStarts(fd), w.shown)
      pending == Pending(open, nowMs)
      stop == ShouldStop(w.armedAt, pending, nowMs)
  IN  [watch     |-> [shown |-> NowShown(w, fresh, fd),
                      armedAt |-> IF stop THEN None ELSE w.armedAt],
       fresh     |-> fresh,
       pending   |-> pending,
       proposals |-> Kept(fresh, {line \in ToSet(fresh) : line.content.proposal}),
       shows     |-> FlattenSeq([i \in DOMAIN fresh |-> DescribeReview(fresh[i])])
                     \o FlattenSeq([i \in DOMAIN fresh |-> ChainNoticeOf(fresh[i])])
                     \o ConfigIssues(fresh)
                     \o WatchStatusOf(pending, fresh, Stale(open, nowMs)),
       stop      |-> stop]

-----------------------------------------------------------------------------

\* The history.  said: lines, toasts and chain notices shown, and again: those
\* shown more than once; old: units in the file when a baseline read it;
\* awaited: units the watch has seen pending; presented: units a poll found
\* fresh; foreign: those of them of another session than the watch; lost: units
\* whose RECORDED line was cut from a file; returned: those a rewrite brought
\* back; raced: units shown between the two halves of the last step of an arm;
\* cutOff: polling stopped at the ceiling, or by a poll that could not read the
\* file; failed: a handler failed; blind: a baseline or a poll could not read a
\* file of which it had no lines.
NoLog == [said |-> {}, again |-> {}, old |-> {}, awaited |-> {}, presented |-> {}, foreign |-> {},
          lost |-> {}, returned |-> {}, raced |-> {},
          cutOff |-> FALSE, failed |-> FALSE, blind |-> FALSE]

Init ==
  /\ left \in Scenarios
  /\ now = 0
  /\ feeds = [s \in Sessions |-> <<>>]
  /\ trims = [t \in Turns |-> None]
  /\ wrote = [t \in Turns |-> [started |-> 0, recorded |-> FALSE]]
  /\ session \in Sessions
  /\ watch = EmptyWatch /\ poller = None /\ target = None /\ generation = 0
  /\ cache = None /\ poll = None /\ handler = None
  /\ handled = {} /\ queue = <<>>
  /\ log = NoLog

Fault(kind) ==
  /\ kind \in Faults /\ left.faults > 0
  /\ left' = [left EXCEPT !.faults = @ - 1]

Event ==
  /\ left.events > 0
  /\ left' = [left EXCEPT !.events = @ - 1]

-----------------------------------------------------------------------------
(* The workers (worker/feed.ts, hook/log.ts).                               *)

RecordedTurns(lines) == {line.turn : line \in {line \in ToSet(lines) : line.kind = "RECORDED"}}

\* The units whose review can be read in the lines of a file.
Readable(lines) == RecordedTurns(ParseReviewFeed(lines))

\* newestLines
NewestLines(lines) == SubSeq(lines, Len(lines) - FeedRetained + 1, Len(lines))

\* appendBoundedLog: the line is appended; a file that is now too long is read,
\* and rewritten in a later step.
AppendLine(t, line) ==
  LET longer == Append(feeds[t.session], line)
  IN  /\ trims[t] = None
      /\ feeds' = [feeds EXCEPT ![t.session] = longer]
      /\ trims' = [trims EXCEPT ![t] = IF Len(longer) > FeedLimit THEN NewestLines(longer) ELSE None]

\* A worker that died after it began is followed by one that begins again.
AppendsStarted(t) ==
  /\ t \in left.turns /\ ~wrote[t].recorded /\ wrote[t].started < MaxStarts
  /\ AppendLine(t, Started(t, now))
  /\ wrote' = [wrote EXCEPT ![t].started = @ + 1]
  /\ UNCHANGED <<now, session, pollVars, handler, proposalVars, left, log>>

AppendsRecorded(t, content) ==
  /\ content \in left.contents /\ ~wrote[t].recorded /\ wrote[t].started > 0
  /\ AppendLine(t, Recorded(t, now, content))
  /\ wrote' = [wrote EXCEPT ![t].recorded = TRUE]
  /\ UNCHANGED <<now, session, pollVars, handler, proposalVars, left, log>>

Rewrites(t) ==
  /\ trims[t] # None
  /\ feeds' = [feeds EXCEPT ![t.session] = trims[t]]
  /\ trims' = [trims EXCEPT ![t] = None]
  /\ log' = [log EXCEPT
               !.lost = @ \cup (RecordedTurns(feeds[t.session]) \ RecordedTurns(trims[t])),
               !.returned = @ \cup (Readable(trims[t]) \ Readable(feeds[t.session]))]
  /\ UNCHANGED <<wrote, now, session, pollVars, handler, proposalVars, left>>

-----------------------------------------------------------------------------
(* The mod (register.ts).                                                   *)

\* The mod has no lines of the file of s.
Unread(s) == cache = None \/ cache.session # s

\* readFeed: the lines the call returns, and the cache it leaves.  A read that
\* fails gives what was last read of the same file.
Read(s, fails) ==
  LET previous == IF Unread(s) THEN <<>> ELSE cache.lines
  IN  IF fails THEN [lines |-> previous, cache |-> cache]
      ELSE [lines |-> ParseReviewFeed(feeds[s]),
            cache |-> [session |-> s, lines |-> ParseReviewFeed(feeds[s])]]

MayFail(fails) == IF fails THEN Fault("read") ELSE UNCHANGED left

\* pollOnce, called by the timer unless a poll is in progress.
PollReads(fails) ==
  /\ poller # None /\ poll = None
  /\ MayFail(fails)
  /\ \E read \in {Read(poller.session, fails)} :
         /\ cache' = read.cache
         /\ poll' = [stage |-> "clock", owner |-> poller.owner, session |-> poller.session,
                     lines |-> read.lines, fails |-> fails]
  /\ log' = [log EXCEPT !.blind = @ \/ (fails /\ Unread(poller.session))]
  /\ UNCHANGED <<now, workerVars, session, watch, poller, target, generation, handler,
                 proposalVars>>

Current(owner) == owner = generation

\* queueProposals
QueueProposals(lines) ==
  LET fresh == WithoutTurns(lines, handled)
  IN  /\ handled' = handled \cup TurnsOf(fresh)
      /\ queue' = queue \o [i \in DOMAIN fresh |-> fresh[i].turn]

\* The second half of showTick, up to its next await.
PollTicks ==
  /\ poll # None /\ poll.stage = "clock"
  /\ IF ~Current(poll.owner)
     THEN poll' = None /\ UNCHANGED <<watch, poller, generation, proposalVars, log>>
     ELSE \E tick \in {TickWatch(watch, poll.lines, poll.session, now)} :
              /\ watch' = tick.watch
              /\ poller' = IF tick.stop THEN None ELSE poller
              /\ generation' = IF tick.stop THEN generation + 1 ELSE generation
              /\ QueueProposals(tick.proposals)
              /\ poll' = [stage |-> "show", shows |-> tick.shows]
              /\ log' = [log EXCEPT
                           !.awaited = @ \cup TurnsOf(tick.pending),
                           !.presented = @ \cup TurnsOf(tick.fresh),
                           !.foreign = @ \cup {t \in TurnsOf(tick.fresh) : t.session # target},
                           !.cutOff = @ \/ (tick.stop /\ (poll.fails \/ now - watch.armedAt > Ceiling)),
                           !.raced = IF handler # None /\ handler.stage = "arm"
                                     THEN @ \cup TurnsOf(tick.fresh) ELSE @]
  /\ UNCHANGED <<now, workerVars, session, target, cache, handler, left>>

\* The rest of showTick: what the tick found is shown, and pollOnce ends.  The
\* host may refuse to show something, which ends it early.
PollShows ==
  /\ poll # None /\ poll.stage = "show"
  /\ \E n \in 0..Len(poll.shows) :
       /\ IF n = Len(poll.shows) THEN UNCHANGED left ELSE Fault("ui")
       /\ LET shown == {show \in ToSet(SubSeq(poll.shows, 1, n)) : show.kind \notin StatusKinds}
          IN  log' = [log EXCEPT !.said = @ \cup shown, !.again = @ \cup (shown \cap log.said)]
  /\ poll' = None
  /\ UNCHANGED <<now, workerVars, session, watch, poller, target, generation, cache, handler,
                 proposalVars>>

StopPolling == poller' = None /\ generation' = generation + 1

\* startPolling: the timer that was running is stopped.
StartPolling(s) ==
  /\ generation' = generation + 1
  /\ poller' = [owner |-> generation + 1, session |-> s]

\* session.start: the first half of baseline.  The mod may have been loaded
\* anew (register); the host drops the timers and the calls of the old one.
SessionStarts(s, reload) ==
  /\ handler = None /\ Event
  /\ session' = s
  /\ target' = s /\ watch' = EmptyWatch /\ poller' = None
  /\ handler' = [stage |-> "baseline read", session |-> s]
  /\ IF reload
     THEN /\ generation' = 1 /\ cache' = None /\ poll' = None /\ handled' = {} /\ queue' = <<>>
          /\ log' = [NoLog EXCEPT !.lost = log.lost]
     ELSE /\ generation' = generation + 1
          /\ log' = [log EXCEPT !.awaited = {}]
          /\ UNCHANGED <<cache, poll, proposalVars>>
  /\ UNCHANGED <<now, workerVars>>

\* The host goes to another session and the mod has no session.start of it.
SessionChanges(s) ==
  /\ handler = None /\ s # session /\ Event
  /\ session' = s
  /\ UNCHANGED <<now, workerVars, pollVars, handler, proposalVars, log>>

\* turn.complete of the main agent: arm, up to its second await.  `watch` is
\* read as the argument of armWatch before the clock is awaited.
TurnCompletes ==
  /\ handler = None /\ Event
  /\ IF target = session
     THEN /\ handler' = [stage |-> "arm", session |-> session, watch |-> watch]
          /\ UNCHANGED <<poller, generation, log>>
     ELSE /\ handler' = [stage |-> "arm read", session |-> session]
          /\ log' = [log EXCEPT !.awaited = {}]
          /\ StopPolling
  /\ UNCHANGED <<now, workerVars, session, watch, target, cache, poll, proposalVars>>

HandlerReads(fails) ==
  /\ handler # None /\ handler.stage \in {"baseline read", "arm read"}
  /\ MayFail(fails)
  /\ \E read \in {Read(handler.session, fails)} :
         /\ cache' = read.cache
         /\ handler' = [stage |-> IF handler.stage = "arm read" THEN "arm clock" ELSE "baseline clock",
                        session |-> handler.session, lines |-> read.lines,
                        known |-> ~(fails /\ Unread(handler.session))]
  /\ UNCHANGED <<now, workerVars, session, watch, poller, target, generation, poll, proposalVars, log>>

\* What a baseline marks as seen; when it knows nothing of the file, nothing.
Marks == IF handler.known
         THEN [log EXCEPT !.old = @ \cup (RecordedTurns(handler.lines) \ log.presented),
                          !.awaited = TurnsOf(Pending(OpenStarts(SessionFeedOf(handler.lines, handler.session)), now))]
         ELSE [log EXCEPT !.blind = TRUE]

\* baseline's last half: polling starts only for a review that is pending.
BaselineEnds ==
  /\ handler # None /\ handler.stage = "baseline clock"
  /\ watch' \in {BaselineWatch(handler.lines, handler.session, now)}
  /\ IF watch'.armedAt # None THEN StartPolling(handler.session)
     ELSE UNCHANGED <<poller, generation>>
  /\ handler' = None
  /\ log' = Marks
  /\ UNCHANGED <<now, workerVars, session, target, cache, poll, proposalVars, left>>

\* arm, for a session the mod had not begun with: its baseline.
ArmBaselines ==
  /\ handler # None /\ handler.stage = "arm clock"
  /\ watch' \in {BaselineWatch(handler.lines, handler.session, now)}
  /\ target' = handler.session
  /\ handler' = [stage |-> "arm", session |-> handler.session, watch |-> watch']
  /\ log' = Marks
  /\ UNCHANGED <<now, workerVars, session, poller, generation, cache, poll, proposalVars, left>>

\* arm's last half.
ArmEnds ==
  /\ handler # None /\ handler.stage = "arm"
  /\ watch' = ArmWatch(handler.watch, now)
  /\ target' = handler.session
  /\ StartPolling(handler.session)
  /\ handler' = None
  /\ UNCHANGED <<now, workerVars, session, cache, poll, proposalVars, left, log>>

\* guarded: a handler whose host call fails stops polling.
HandlerFails ==
  /\ handler # None /\ Fault("host")
  /\ StopPolling
  /\ handler' = None
  /\ log' = IF handler.stage \in {"baseline read", "baseline clock"}
            THEN [log EXCEPT !.failed = TRUE, !.blind = TRUE]
            ELSE [log EXCEPT !.failed = TRUE]
  /\ UNCHANGED <<now, workerVars, session, watch, target, cache, poll, proposalVars>>

\* A call of the host takes far less than a unit of time, which stands for
\* tens of seconds.
Tick ==
  /\ now < left.time /\ handler = None /\ (poll # None => poll.stage # "clock")
  /\ now' = now + 1
  /\ UNCHANGED <<workerVars, session, pollVars, handler, proposalVars, left, log>>

PollStep == PollReads(FALSE) \/ PollTicks \/ PollShows
HandlerStep == HandlerReads(FALSE) \/ BaselineEnds \/ ArmBaselines \/ ArmEnds

Next ==
  \/ \E t \in Turns : \/ AppendsStarted(t) \/ Rewrites(t)
                      \/ \E content \in Contents : AppendsRecorded(t, content)
  \/ \E s \in Sessions : SessionChanges(s) \/ \E reload \in BOOLEAN : SessionStarts(s, reload)
  \/ TurnCompletes \/ HandlerStep \/ HandlerFails \/ HandlerReads(TRUE)
  \/ PollStep \/ PollReads(TRUE)
  \/ Tick

Spec == Init /\ [][Next]_vars

(***************************************************************************)
(* The timer of a poller fires again and again, and the host answers what  *)
(* is asked of it: no poll and no handler is in progress for ever.         *)
(* Nothing makes a session start, a turn complete, a review end or time    *)
(* pass.                                                                   *)
(***************************************************************************)
FairSpec ==
  /\ Spec
  /\ WF_vars(PollReads(FALSE)) /\ []<>(poll = None) /\ []<>(handler = None)

(***************************************************************************)
(* Properties                                                              *)
(***************************************************************************)

\* No line, toast or notice is shown twice, unless a poll showed it while an
\* arm had already read `watch` (register.ts:439, see AtMostOnce), or the line
\* had been cut from the file and a second worker's rewrite brought it back
\* (log.ts:47).
NoRepeat == log.blind \/ {said.turn : said \in log.again} \subseteq log.raced \cup log.returned

\* What the file held when the mod began with a session is not shown, unless
\* the mod could not read the file and knew nothing of it, or a rewrite brought
\* the line back.
NoReplay == log.blind \/ log.old \cap log.presented \subseteq log.returned

\* A review is not shown under the watch of another session.
NothingForeign == log.foreign = {}

\* A unit's proposal is queued once, also when its review is shown twice.
QueuedOnce == \A i, j \in DOMAIN queue : queue[i] = queue[j] => i = j

\* What the feed shows, it shows once, of this session, and never from before
\* the mod began with the session ("so a reload never replays old reviews",
\* watch.ts:66), whatever polls are in flight while sessions start and turns
\* complete, and whatever the workers cut from the file meanwhile.
ShownOnce == NoRepeat /\ NoReplay /\ NothingForeign /\ QueuedOnce

\* "an id can never be forgotten while it could still be shown again"
\* (watch.ts:67): nothing is shown twice.  The code does not keep this.
AtMostOnce == log.again = {}

ReadableRecord(t, line) == line.kind = "RECORDED" /\ line.turn = t /\ WellFormed(line)

\* The review of t is in the file, PendingMax or less after it began.
RecordedInTime(t) ==
  LET lines == ToSet(feeds[t.session])
      starts == {line \in lines : line.kind = "STARTED" /\ line.turn = t}
  IN  /\ starts # {}
      /\ \E line \in lines : /\ ReadableRecord(t, line)
                             /\ \A start \in starts : line.at - start.at <= PendingMax

\* A review the session says is in progress is shown once it is recorded in
\* time: polls that stop, start again, are dropped as out of date or cannot
\* read the file do not lose it.  It may be lost by the file's own cut, by a
\* new session, by a handler that fails, at the ceiling of 15 minutes, and by a
\* poll that stops on what was read before because it cannot read the file.
ReviewReachesUser ==
  \A t \in Turns :
    (t \in log.awaited /\ RecordedInTime(t))
      ~> (t \in log.presented \cup log.lost \/ t \notin log.awaited \/ log.cutOff \/ log.failed)
=============================================================================
