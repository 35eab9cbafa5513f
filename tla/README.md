# Verification of JevGuard

TLA+ models of JevGuard's core logic, the TLC configurations that check them on small
instances, and theorems about them checked by TLAPS. Paths are relative to the repository
root; every definition that models code is listed in `PROJECT.json` ("map") with its lines.

## 1. The system

JevGuard reviews each turn of a coding agent against the project's rules. Two hosts use one
core: an OpenCode plugin that lives inside the host process, and a Claude Code plugin made of
short hook processes, detached worker processes and a module inside the session.

| Part | State it keeps | Operations | What is hard | What makes it correct |
| --- | --- | --- | --- | --- |
| Call limiter (`core/src/concurrency/fifo-port.ts`) | queue of calls, count of active calls | submit, start, settle, drain | settlements interleave with submissions and with microtasks | slots exact, none idle while a call waits, FIFO, every call answered |
| Jev transport (`node-infra/src/jev/transport.ts`) | per batch: cursor, busy workers, results | credential, client, dispatch, answer | answers in any order, workers sharing a cursor | each request sent once, its answer at its index, requests bounded |
| Chain decisions (`core/src/remediation/chain*.ts`, `closures.ts`) | none: state in, step out | decide, advance, abandon, close | evidence that shrinks between turns | resolved only when proven, scopes never shrink |
| OpenCode remediation (`plugin/src/runtime.ts`, `review.ts`, `remediation/`) | open executions, task queue, jobs, chains, counts | event, queued task, review job, draft, prompt | events, queue, jobs, user and host interleave; awaits of minutes | one move per chain in flight, ordered, bounded; every chain ends |
| OpenCode attribution (`opencode-adapter/src/attribution/`) | generations, open snapshots, nested roots, writes, processed replies | start, finish, discard, nested close | the host runs on while the plugin reads it | an attributed patch holds its own turn's changes and all of them |
| Claude hook and capture (`claude-code-adapter/src/{hook,capture}`) | per unit: ordinal, epoch, root, taint, pre-images, events | record event, pre/post capture, close unit, sweep | hooks are processes that overlap, time out and die | a unit is closed once, and untrusted evidence never reviewed |
| Claude worker (`claude-code-adapter/src/worker`) | handoff and claim files, history, feed, proposal and chain files | claim, review, decide, settle, announce, sweep | several processes share files and may die between any two | recorded once, nothing lost, chains neither stranded nor silent |
| Claude mod (`claude-code-plugin/mod/register.ts`) | shown lines, proposal queue, delivery count | poll, take, complete, deliver, outcome | reloads, failed writes, limits, late feed lines | a request is used once; a refused one is reported |
| Rule evaluation, evidence, gate, review (`core/src/{evaluation,evidence,gate,review}`) | none | select rules, slice the diff, plan requests, assemble results | budgets, partial failures, order of results | no judged result without complete evidence |
| Logs and feedback (`node-infra/src/{history,feedback}`, `core/src/{report,feedback}`, `plugin/src/cli/feedback`) | two JSON Lines files, the last listing | append, rewrite, list, answer, report | appends of several processes, rewrites in between, numbers that outlive their listing | bounded, the newest kept, an answer reaches the FAIL that was shown and stays |
| Claude review feed (`claude-code-adapter/src/presentation`, the mod's poller) | feed file per session, watch, timer, generation, cache | baseline, arm, poll, tick, stop, cut down | every host call is an await at which the other callbacks run | shown once, never replayed, a pending review is not forgotten |
| Rule file (`core/src/rules`) | none | blocks, metadata, sections, duplicates | where one ends and the next begins | a rule is read exactly when it follows the grammar |
| Unified diff (`core/src/evidence/parse-unified-diff.ts`), `rules check` | none | scan, check, exit | counts decide what a line is; several ways to be incomplete | every line in one file or refused; the exit code says what happened |
| Setup (`plugin/src/cli`, `node-infra/src/{credentials,policy}`, `opencode-adapter/src/opencode-config`) | keyring, `.jev`, `opencode.json` | login, install, doctor | the user edits what a command has read | only a confirmed install writes, and doctor is right |
| User settings (`node-infra/src/remediation`) | answer per project root | find, contain, read | links, nested working trees | nothing in a repository switches remediation on |
| Calibration (`src/tools/calibration`) | a corpus, samples | generate, run, report | rounding, missing answers, answers out of order | the corpus is what was asked, calls are confirmed, figures are exact |
| Skills, OpenCode presentation | none | install prompts, format | text only | see section 7 |

Interaction: in OpenCode the host's event stream feeds one FIFO queue; attribution runs in it,
each review is a detached job that uses the limiter and may send a message into its session,
which becomes the session's next execution. In Claude Code a hook closes a unit by writing a
handoff file and spawning a worker; the worker records the review, and may leave a proposal
request that it announces in the session's feed; the mod takes it and submits a message, whose
turn is the next unit; what the mod could not deliver comes back as an outcome file.

## 2. Modules

| Module | Models | Built on |
| --- | --- | --- |
| `JevService` | abstract: each call is accepted, started in order of acceptance within a limit, and answered | |
| `FifoJevPort` | the limiter | |
| `JevPipeline` | limiter and transport together | `FifoJevPort` |
| `JevPipeline_proofs` | the theorems of both | `JevPipeline`, TLAPS |
| `Lists` | a selection from a list, a function or record with something put into it | |
| `ListLemmas` | lemmas on lists (members, append, tail, remove, cut, selection), for the proofs below | `Lists`, TLAPS |
| `RuleEvidence` | selection, slices, budget, assembly and gate, as operators | |
| `TurnReview` | one review: policy, rule lane, built-in lane, aggregation | `RuleEvidence` |
| `UnifiedDiff` | the strict diff reader, as functions | |
| `RulesCheck` | `jevguard rules check`: arguments, source, reading, check, exit code | `TurnReview`, `UnifiedDiff` |
| `RemediationChain` | the chain decisions, as operators | |
| `ChainLifecycle` | abstract: one chain's life (starts, attempts in order, ends once) | |
| `OpenCodeRemediate` | the OpenCode runtime in `mode: remediate` with the host | `RemediationChain` |
| `OpenCodeRemediate_proofs` | its theorems, and lemmas on what one chain decision guarantees | `OpenCodeRemediate`, `ListLemmas` |
| `TurnTracker` | OpenCode attribution with the host | |
| `TurnCoverage` | the converse for attribution: which turns may not be lost; one history variable | `TurnTracker` |
| `UnitAcquisition` | what the Claude hook concludes from a closed unit's lines, as operators | `Lists` |
| `UnitCapture` | the hook processes of one Claude Code session with the host and its tools | `UnitAcquisition` |
| `UnitCapture_proofs` | its theorems | `UnitCapture`, `ListLemmas` |
| `ClaudeWorker` | workers, proposal files and the mod of one Claude Code session | `RemediationChain` |
| `ClaudeWorker_proofs` | its theorems | `ClaudeWorker`, `ListLemmas` |
| `FeedbackReport` | FAIL identities, listing, answers, compaction and report, as operators | `Lists` |
| `LocalStore` | the local files and the processes that append to, rewrite, list and answer | `FeedbackReport` |
| `LocalStore_proofs` | its theorems | `LocalStore`, `ListLemmas` |
| `ReviewFeed` | the feed file of Claude Code's sessions and the mod that shows it | `Lists` |
| `ReviewFeed_proofs` | its theorem | `ReviewFeed`, `ListLemmas` |
| `RuleDocument` | the reader of `.jev/rules.md`, as operators | |
| `UserSettings` | where the remediation settings are and what they say, as operators | |
| `Setup` | login, install, doctor and the settings process, with the user who edits | `RuleDocument`, `UserSettings` |
| `OpenCode_proofs` | the theorems of `TurnTracker` and of `Setup`: the plugin, how it is installed and switched on, and what it attributes | `TurnTracker`, `Setup`, `ListLemmas` |
| `CalibrationReport` | the figures of a calibration report, as operators | |
| `Calibration` | the harness: `generate` and `run` | `Setup`, `CalibrationReport` |
| `MC*` | instances for TLC; `MCCommands` puts `LocalStore`, `Setup` and `Calibration` together | |

How state and steps correspond to the code:

- **FifoJevPort.** `queue` and `active` are the variables of `createFifoJevPort`. `Submit` is
  `evaluate`/`evaluateRuleBatch` with its trailing `drain()`; `Invoke` is the microtask of
  `start`; `Settle` is either settle callback with its `drain()`. `PortReturns` is the wrapped
  port.
- **JevPipeline.** `cursor`, `flying` and `results` are `runWithConcurrency`'s; a JavaScript
  step between two awaits is one action. Answers and failures are written alike, so a result is
  represented by the index of the request it came from.
- **RuleEvidence.** A file is its path, its class, the length of its patch's preamble and the
  lengths of its hunks; that is all slicing and the budget look at. Glob and extension matching
  are taken as done: a rule has the set of paths in its scope. A patch of white space only does
  not occur: both hosts drop files without a patch, and the diff reader refuses an empty hunk.
  The budget loop over the rules is a
  recursive function.
- **TurnReview.** `PolicyLoads` (`CheckLoads` for the on-demand check) is the loader's answer; in
  the same step both lanes send their requests. `RuleBatchAnswers` and `BuiltInsAnswer` are the
  continuations of the two lanes, in either order, `Aggregate` what follows when both are done. A
  probability is a percentage; a number over 100 stands for any answer that is none.
- **RemediationChain.** One operator per function. A failure signature is the set of failures
  itself: the code hashes the sorted set, and hash collisions are not modelled.
- **OpenCodeRemediate.** The host keeps inbox, current execution and an event stream that lags
  behind it. `OnEvent` is the synchronous event handler, `RunTask` the head of the serialized
  queue, and a review job runs in the steps its awaits cut it into: `Decide` (with the orphan
  and delivery checks), `DraftReadyBusy`/`DraftReadyIdle`/`DraftFails` (after the proposer),
  `PromptAccepted`/`PromptRejected`. Attribution may answer anything, a review may be any
  element of `Reviews`.
- **TurnTracker.** An execution makes at most one change the working-tree diff shows and one it
  does not. `RunStart`, `RunFinish`, `ReadMessages`, `ReadTree` and `RunDiscard` are the queued
  work cut at its awaits; the host acts between any two. `crossings` records when the host
  overtook the plugin: the code cannot know, so `PatchIsOwn` is stated for executions where it
  did not (section 6 says what happens when it does). `TurnCoverage` adds `spoilt`, the executions
  that were interrupted or of which a host read failed, which no action reads.
- **UnitAcquisition.** A unit is the sequence of its persisted lines. `Picture` is
  `takeGitSnapshot`, `PictureDiff` the comparison of two of them, the rest the fold over the
  lines: pairing of calls, coverage, reasons, the net patch.
- **UnitCapture.** The host starts one hook process per event and waits for it; a call's tool
  runs between its two hooks. `hooks[a].stage` says between which two file operations the
  process of actor `a` is. What other hooks can come between is a step of its own (reading the
  session state, claiming a first image, reading the file, writing the image, the two pictures
  of a shell call, appending the line, moving the marker, writing the handoff); `HookFails` is
  the timeout or crash at any of them. `truth` is a history variable that no action reads: what
  really happened to the tree since the last unit closed, for the properties only.
- **ClaudeWorker.** A worker process is a record whose `stage` says where it is between two
  file operations. `CloseUnit` stands for the host's turn and the hook that closes it,
  `WorkerStep` for `runWorker`, `Mod*` for the mod. The clock is in ticks; ages are compared as
  the code compares them.

- **FeedbackReport.** A record is its turn, its time and its results; identifiers and times are
  numbers. The tables per reason and per built-in check, the number of slice judgments and the
  order of the report's rows are left out.
- **LocalStore.** A file is its lines, and `cut` says that the last one has no newline: the next
  append is then glued to it and both are one malformed line. Sizes count lines. Each process is
  between two file operations: append, look at the size, read, replace. `Stop` is a failed
  operation, which the code contains without a retry, or the death of the process. The number
  `n` of a record only tells equal records apart, and `truth` only remembers what was written
  and listed. `remediation-chains.jsonl` is written by the same code as `reviews.jsonl`.

- **UnifiedDiff.** A line is a record of the prefix it has and of the paths or counts behind it.
  The scanner is a set of recursive functions over line positions; inside a hunk the counts of
  its header decide, so "--- x" is then a removed line. Quoted path names are unreadable, as in
  the code; nothing unescapes them.
- **RulesCheck.** `ParsesArguments`, `ReadsDiff` and the steps of `TurnReview`'s on-demand check
  follow the command; a finished check sets `exit`. Reviews of whole turns, without a command,
  start in the same `Init`, so one run checks both lanes for both callers.
- **ReviewFeed.** The worker's append, and its cut of a file that is full, are two steps. Each
  await of the mod is the end of an action: a poll is `PollReads`, `PollTicks`, `PollShows`, the
  handler of `turn.complete` is `TurnCompletes`, `HandlerReads`, `ArmBaselines`, `ArmEnds`, and
  `watch`, `generation` and `cache` are shared as in `register.ts`. `log` is a history variable.
  What happens to a proposal once it is queued is in `ClaudeWorker`.
- **RuleDocument.** A line is a heading, an entry, words or blank; the regular expressions that
  tell these apart are taken as done. Metadata and sections are folded over as the code loops.
- **UserSettings.** A path is a sequence of names; `links` maps directories to where they lead
  and `markers` are the directories with a `.git`. `LowerCase` is the case folding of a name, with
  which two paths are compared as the code does on every platform; links and markers keep their
  case. The root `<<>>` is a POSIX file system's: the walk to the nearest `.git` stops below it
  (section 6). A Windows drive is the first name of a path, where the code does look.
- **Setup.** Each process is between two awaits. `InstallReads` takes the text and the question
  whether a `.jsonc` exists in one step. `UserChanges` may edit anything the commands read.
  `userLeft` remembers what the user left in `opencode.json`, `startedAt` when a doctor began;
  both are for the properties.
- **Calibration.** Shares are exact fractions where the code has floating point; the order of
  two equal remainders differs for totals 32, 128 and 352 only. A fixture is its id, labels,
  difficulty, category and the checks it would fail. Calls settle in any order within the
  concurrency. `CalibrationReport` computes in whole percent and fractions.

`CloseUnit` of `ClaudeWorker` is the other side of `UnitCapture`'s handoff: the first takes any
unit the second may hand over. The answers `TurnReview` waits for are what
`JevPipeline` delivers, and the records that `ClaudeWorker` and a reviewed OpenCode turn append
are `LocalStore`'s `RecordReview`; the started and recorded lines its workers append are
`ReviewFeed`'s. These parts meet in files and awaited calls only, so they are checked apart. The
harness finds the key where `Login` of `Setup` put it, and `rules check` runs `TurnReview` over
what `UnifiedDiff` read: those are composed.

## 3. Runs

| Run | Shows | Bounds |
| --- | --- | --- |
| `jev` | no slot idle while a call waits, requests sent once, their answers at their index, every call answered, and `JevService` implemented: starts in order of submission, within the limit | one batch larger than the worker bound and three single calls through two slots, so calls wait, overtake each other's answers and a worker pulls a second index |
| `turn_review` | no verdict without the whole evidence, budget exact, failures contained, a diff read line by line or refused, the exit code true, every review ends | up to two files that fit, fit exactly, must be cut in two or three, or cannot be; four units of length per request, two slices per rule, one extra call; rule lists of up to four with an equal pair of invalid ones; eight diffs with one line cut, dropped, doubled, put in or replaced by any of 24 |
| `chain_interference` | the chain invariants in every interleaving | one session, two user messages, two attempts, a one-chain cap so that the cap bites, all faults |
| `chain_quiet` | every chain implements `ChainLifecycle`, liveness included | two sessions, every execution attributed |
| `chain_resend` | counterexample, section 6 | |
| `tracker` | overlaps refused, no reply twice, patch and reply are the turn's own and miss nothing; a succeeded turn that nothing disturbed is attributed | six scenes: two root sessions of which one runs twice; one that runs twice and two that run once, with interruptions and repeated events; a session nested in another with changes Git ignores and failed reads; one nested session that runs twice inside one execution while events repeat; an ignored write of an interrupted execution with another execution behind it |
| `capture` | a reviewed unit's patch is what the session's tools changed; nothing from outside enters unnoticed after the last call; the task text is complete; every closed unit is handed over under a name of its own | three scenes: a call of the main agent and one of a background agent on a readable and a blocked file, in every order of their hooks' file operations; one call of every tool kind, two prompts, two stops and one fault anywhere; the same within one prompt, with stops whose background state is unknown |
| `claude_claims` | recorded at most once, nothing lost, live claims kept, every unit recorded | two units, two processes, crashes anywhere, claims that cannot be removed, three clock values: past the worker's ceiling and past the abandonment age |
| `claude_chain` | announced requests exist, chains end by a record and are not stranded, no cascade | `ChainBounds`: one user message and the two messages its chain may send, files that age, every fault but a crash, at most one kind of mishap per behaviour; then a second user message, so that two chains are saved at once, with one worker at a time, no mishap and the clock at rest; the two worker slots are interchangeable, hence symmetry |
| `feed` | shown once, of this session, never from before the mod began; a pending review that is recorded in time is shown | six scenes: two reviews and the file's cut; three and two cuts of it, whose rewrites may race; two sessions; one fault; two faults among five events; every kind of line |
| `feed_rearm` | counterexample, section 6 | |
| `commands` | local files: rewrites keep the newest and the last answers, a number means the FAIL it was shown for, listing and report agree. Setup: only a confirmed install edits `opencode.json` and never breaks it, rules read by their grammar, doctor truthful, settings safe. Calibration: corpus, confirmation and calls, figures | the world's `scene` says which part moves. Store: two reviewing processes and two terminals on full files, three commands or reviews, one failure, a history with two turns of the same time (symmetric processes). Setup: two installs over nine states of a file and two edits; doctor over every state of what it looks at; three rule documents with one line cut, doubled, put in or replaced by any of 14; link layouts, placements of `.git` (at the file system's root too) and a settings path that differs from the root in letter case only, every settings section. Harness: 18 command lines on every document, all totals 1..40, 160, 161, 500, up to four calls in any order |

A run of several scenes is one specification whose first step chooses the scene; a scene never
changes, so its states are those of a run of its own. `MCTurnTracker` and `MCUnitCapture` take
the other scenes as instances of the same module with other constants.

Every named invariant is a conjunction of named parts, kept beside it: `AttributionExact` of
`ReplyIsOwn`, `PatchIsOwn` and `PatchIsWhole`; `UnitsAccounted` of `RecordedOnce` and
`NothingLost`; `ChainsAccounted` of `EveryChainAccounted` and `NoStrandedChain`; `MovesInOrder` of
`OneMoveInFlight` and `SentInOrder`; `ImplementsLifecycle` of `Lifecycle!LSpec` and `TurnsBounded`;
`ChainsCoherent` includes the types; `EvidenceSound` of
`JudgedOnWholeEvidence` and `NothingBlockedSent`; `RewritesKeep` of `NewestKept`,
`AnswersKept` and `FilesBounded`;
`ListingTruthful` of `NumberMeansShown` and `ListingMatchesReport`; `ShownOnce` of `NoRepeat`,
`NoReplay`, `NothingForeign` and `QueuedOnce`.

Deadlock is not checked in these runs: the modelled user stops writing (or the review is over)
and the system then really is at rest.

Why small instances say something: each hazard needs a pair (two calls and a third waiting, two
executions of a session, two processes, a chain and its next message, a slice more than the
budget has). The bounds hold that pair and one actor more, or a second round. Two blind spots
remain: three calls that write one file, and faults together with parallel calls, which
`UnitCapture` keeps in separate runs.

Every property of a passing run has a mutant in `PROJECT.json`: a changed definition, kept
beside the original as "Variant of", that breaks it.

## 4. Fairness

- `JevPipeline`: local steps run, and the SDK answers or rejects. The transport has no timeout,
  so without the second the code promises nothing.
- `TurnReview`: the review goes on while it can. It waits for two things: the loader's file
  reads, which settle, and the Jev port, whose calls settle by `EveryCallSettles` under the
  fairness above.
- `OpenCodeRemediate` (`chain_quiet`): the event stream delivers, the queue and the jobs run,
  the host runs the messages it admitted and settles the calls it was made. The user need not
  write.
- `ReviewFeed` (`feed`): the interval timer of a poller fires, and no poll and no handler is in
  progress for ever, since the host answers what it is asked or refuses. Nothing is assumed of
  the workers, the host's events or the clock.
- `ClaudeWorker` (`claude_claims`): a spawned process is scheduled. Nothing is assumed of the
  user, the mod or the clock.
- `TurnTracker` (`tracker`) is checked for safety only. The client calls of
  `attribution/opencode.ts:27` and `:33` have no timeout, so that the queue drains would be a fairness
  assumed of the host and nothing the code does: a read that never settles stops it for good
  (section 6). The model's reads may stay open for ever.
- `UnitCapture` and the modules of `commands` are checked for safety only: a hook that never ends
  is killed by the host, which is `HookFails`, and a command or an append may stop for good
  anywhere, or wait for its user.

## 5. Proofs

TLAPS checks every proof to its last leaf. Each theorem is about the same `Spec` the runs check,
for every value of the constants that its module's assumption (`ConcurrencyAssumption`,
`WorkerAssumption`, ...) allows: any number of sessions, workers, calls, messages and attempts,
any reviews, any order, any of the modelled faults. Where a theorem needs more than that, the
hypothesis has a name and stands in its statement. No property is inductive by itself: each
module states an inductive invariant (`IInv`, in the pipeline `PInv`), TLC checked it on
instances first, and one lemma per action shows that the action keeps it.

**The limiter** (`JevPipeline_proofs`): `TypeOK`, `SlotsAccounted`, `NoIdleSlot`, `FifoOrder`, and
`Spec` implements `JevService`, for any positive limit. `IInv` adds what the code relies on
without saying it: the queue holds exactly the waiting calls, each once; the calls that hold a
slot are those started and not settled, a finite set whose size is `active`; the start order is
a prefix of the submission order and the queue is the rest. `NoIdleSlot` then follows from
`Taken`, the number of calls one `drain()` takes: all of the queue or all free slots.

**Limiter and transport** (there too): `RepliesAligned`, `NoIdleSlot`, `ImplementsService`
of `PSpec`, for batches of any size and any worker bound. Every step of the transport is a step of
the limiter or leaves it alone (`LimiterUnderneath`), so the limiter's theorems carry over. `PInv`
adds that the transport's stage of a call agrees with the limiter's phase, that the answers in are
those of the indexes pulled and no longer out, and that a worker is busy while an index is left.

**The chain decisions** (`OpenCodeRemediate_proofs`, first part) are operators, so these are lemmas: a decision
over a sound review makes a well-made state or ends the chain; scopes only grow; a chain resolves
only if each of its findings was judged over no narrower scope and passed.

**The OpenCode runtime** (`OpenCodeRemediate_proofs`): `TypeOK`, `ChainsCoherent`, `MovesInOrder`,
`SessionLimitHeld`, `ResolvedMeansProven` and the action property `ScopesNeverShrink`. The
invariant speaks of places: an execution is running, or in an event, a task or a job, in at most
one of them (`FlightInv`); a chain's next move is a job that drafts or sends, a message in an inbox
or an execution in flight that took it, again at most one, and it tells how many messages were
sent so far (`MoveInv`, `SentInv`). A state that a job carries across an await has at least the scopes
of the saved one (`JobsInv`). `CountsInv` compares a session's count with its messages sent plus
those decided. Two theorems have a hypothesis, each because without it the code does not do it:

- `FewFindings`, for `ChainsCoherent`: no review fails more than `MAX_CHAIN_ORIGINS` (64) findings.
- `FewSessions`, for `SessionLimitHeld`: no more sessions than the count map holds. Past that the
  oldest count is forgotten (section 6), and TLC finds the limit exceeded with two sessions and a
  map of one.

**OpenCode attribution** (`OpenCode_proofs`, first part): `OverlapRefused` and `AttributionExact`. The proof
follows one line: the queue, then the events the plugin has not seen. However far the host is
ahead, that line holds the executions of a session in order, start before end (`LineOK`), and of
two executions that ran together neither ends in it before the other starts (`OrderOK`). So when
the tracker takes an end, every execution that met this one has been taken first, and if it was
one of another root session, flagged the record (`RecordsOK`): what is attributed met none
(`AloneOK`). `LateOK` and `ReplyOK` give the reply, `PatchOK` that the difference of two snapshots
holds no one else's change, `WholeOK` that each change of an open execution is in the tree since
its snapshot and recorded, or will be. The theorems assume `[]RoomToOpen`: the tracker never has to
evict an open execution (`MAX_OPEN_SNAPSHOTS`, 64). With one place for two sessions TLC finds an
overlap that is not refused. `AttributionOfFewSessions` proves the same without that hypothesis
when there are no more sessions than places.

The attempt found an error in the model's property: `PatchIsWhole` as first stated fails when a
nested session runs twice inside one execution and the end of its first run is repeated. The
precondition now says so (section 6 has the remark), and the run has a scene in which it happens.

**The Claude worker** (`ClaudeWorker_proofs`): `TypeOK`, `UnitsAccounted`, `LiveClaimKept`,
`NoCascade`, `AnnouncedRequestWaits`, `ChainsAccounted`. `IInv` says of the claims that a handoff is pending, claimed or
past, and in one place; that a worker that holds one made the claim itself after it was started,
which with `WorkerCeiling <= AbandonedAfter` is why no sweep takes it away; and that what a worker
still has to remove is past and held by no one. Of the messages: a plain
proposal that the mod submits by itself answers a turn the user started. Of the feed: an
announced request is on disk until it is taken or ages.

`ChainsAccounted` needs `ChainInv` beside it. Saved chains have distinct names and are states the
core made (`ChainsOK`); what a worker decided is one of the steps the core can decide (`StepsOK`,
from the branches of `DecideRemediateStep`). A sweep acts on a list it read earlier, so `SweptOK`
relates the two: a chain saved since is too young to have aged out, because no worker outlives
`WorkerCeiling <= FileTTL`; and a chain whose outcome was read was in the list, because a unit is
announced after its chain is saved (`OutcomesOK`). So a sweep never removes a chain without a record
to append, and `MessagesTold` follows: whatever is requested or sent names a chain that is saved,
recorded, or about to be. `ProgressOK` is the other half: a saved chain's latest message has exactly
one place, from its request (`Announcing`) over the mod (`Working`) to an outcome (`Refused`) or to
the unit that answers it (`Answering`), where the worker can only end the chain or save its
successor (`Settles`). There the proof failed for a good reason: an answer without a turn ends the
newest chain, so with two chains saved the older one strands. TLC had not met it with one user
message; the property now says so (`Misplaced`, section 6) and the run has two. The theorem has one
hypothesis, `DOMAIN None = {}`: null is no record, which TLC takes for granted of a model value.

**The Claude capture** (`UnitCapture_proofs`): `ClosedUnitsDelivered` and `TaskComplete`, for any
calls, prompts, faults and interleavings of the hook processes. The hooks share nothing but
files, so the proof first sorts their steps by what they do to the files (`StepOf`): move on over
the own directory, append, locate the open unit, advance the marker, hand over, taint, die. The
invariant of those has five parts. `Shaped` is the type invariant. `Bounded`: no ordinal in use is
above what the clock and the closes so far can name, so the unit a hook rebuilds after the marker
was damaged is a fresh one. `Named`: a hand-over's ordinal is below that of every unit still to be
handed over in its epoch, so no hand-over replaces another. `Accounted`: every close has its
hand-over, its excuse (a killed hook) or its hook on the way. `TruthTold`: the prompts sent since
the last close are those in the current unit's lines, plus the one a hook has still to write,
unless the unit is tainted or about to be; after the marker advanced the same holds of the closed
unit, and the units ahead show a reviewer nothing. A tainted unit is never reviewed, which is why
a failed hook cannot hide a prompt. The theorems assume `MaxStops < 100`: the model's clock is 100
ahead after a fault, where the code's is in milliseconds and so above any count of turns
(`unit-state.ts:93-103`); an ordinal grows by one with a close, so 100 closes would catch up with
the model's clock, as 10^12 would with the code's. `EvidenceExact` and `NoLateForeignWrite` are
not among the theorems: both speak of what the fold over a unit's lines computes.

**The install** (`OpenCode_proofs`, second part): `ConfigEditSafe`, for any number of commands side by side and
any edits by the user between their steps. The invariant follows one install through its steps:
the text it read is one the user left when it asked, what it wrote aside is that text with the
entry, and the file it replaced was still the one it had read, or the user's last version is.
`WorldsAreWorlds` and `EditsAreWorlds` say that the constants `Worlds` and `UserEdits`, which
have no type of their own, are configurations: `opencode.json` is no document or one with two
lists of plugins, and the commands have not begun. Both hold of the worlds of the runs.

`SettingsSafe` is proved beside it, for any links, markers, texts and edits. The invariant is that a
remembered answer is what `LoadUserSettings` made of the file system at the first look; the work
is in the lemmas, above all `ToplevelIsNearest`: the walk up the directories
(`containment.ts:28-34`), a recursive function, finds the longest marked one, which is how the
property, not the code, says where a working tree begins. `WorldsHavePaths` and `EditsKeepPaths`
say that links and roots are paths, that texts are of the four kinds a read can give, and that
nobody changes the environment of a running process. `LowerCase` is any operator: that the case of
letters cannot carry a file past the check needs nothing but that both sides are folded alike. "The
working tree around the project" is, in the property, the nearest marked directory among the root and
the directories above it but for the file system's own root, unless the project root is that: what the
code looks at, and less than the documents say (section 6). The attempt to prove it corrected the
property: it compared a settings path shorter than the root with names it does not have.

**The review feed** (`ReviewFeed_proofs`): `ShownOnce`, for any sessions, reviews, events, faults and
rewrites. The mod forgets a shown review once the lines it read no longer hold it, so the proof
needs two views of the feed to agree. `ViewOK`: a review that was seen once and is missing from the
mod's lines is missing from the file, because a file only loses reviews and a failed read gives
the older lines. `WatchOK`: the watch, and the one an arm carries over its await, hold every seen
review that a poll of the session may meet again. `MachineOK` is why polls of another time do no
harm: the timer is of the watched session and of the newest generation, and only the last half of an
arm runs beside it, so a poll that is still current holds the cache's lines. `SaidOK` carries
this from what a poll finds fresh to what it shows. `TickFacts` gathers what one tick guarantees.

The attempt found `ShownOnce` false in two ways the run was too small for (section 6): a line that
two racing rewrites bring back, and a poll that cannot read a file of which the mod has no lines.
The property names both now (`returned`, `blind`) and the run has a scene for each. The
theorem has the hypothesis `DOMAIN None = {}`, as above.

**The local files** (`LocalStore_proofs`): `RewritesKeep`, for any number of reviewing processes and
terminals, any sizes and record limits, histories, failures, deaths, cut writes and deletions. The
invariant says the same of two lists of lines, the file and the contents with which a process is
about to replace it: each holds (`Held`) what it owes to the writes since it was made.
A review is owed its place, in order, until `MaxRecords` more lines came after it; an
answer is owed a line about its FAIL with nothing behind it but lines of FAILs answered later. A
write that falls between another process's read and rename, or that fails, is not sound and is owed
nothing (`HeldUnsound`); that is the gap the code has (section 6) and `NewestKept` and
`AnswersKept` leave out. One lemma for each way a file changes: `HeldAppended`, `HeldGlued` (a
line glued to one that was cut), `HeldRewritten`. The last rests on what `Kept` does to places
(`KeptPlaces`), on `LatestPlaces` for compaction and on counting: a FAIL whose
last line is dropped has as many FAILs answered after it as a file keeps, by the pigeonhole
principle. `Fresh` says that the number of a review still to be written is in no file,
no pending contents and no history, so that no two records are alike. `Bounded` says
that, until something fails, a file that is too long has a process at work that
is going to see to it. The one assumption, `StartAssumption`, which TLC evaluates, is that the files
found at first are lists within the limits, as the code leaves them.

`ListingTruthful` is proved beside it. Two invariants carry `NumberMeansShown`: `LastListed`, the
selection file is the last listing or gone, and `Pinned`, what a command read of it is a listing
shown since the command began, and so is what it is about to append. `ListingMatchesReport` says
the same of every state, so the work is in the lemmas. Listing and report both fold over
the history (`CollectRuleFails`, `Calibrate`): one keeps the newest record of a FAIL, the
other counts turns and outcomes. Each fold is replaced by the set it computes, and each such fact is
proved by least counterexample: were it false of a prefix, there would be a first prefix where it is, and
the step to that one is checked like an action. Equal times are why `compareNewestFirst` needs
its tie-breaks: with them the order of the pending FAILs is total, so that each has a place of its own.

Writing selections as `Kept` (module `Lists`) instead of the library's `SelectSeq`, and merges of
functions as `With` and `Over`, changed nothing but what the provers can expand.

Only model-checked, because what they say is what a fold or a recursive function computes for every input:
`EvidenceExact`, `NoLateForeignWrite`, `DiffReadExactly`, `RulesReadExactly`, `BudgetExact`, `EvidenceSound`,
`ReportExact`, `CorpusExact`. Only model-checked, though a proof is within reach:
`TurnsBounded`, `CleanTurnsAttributed`, `FailuresContained`, `CallsConfirmed`, `ExitCodeTrue`, `DoctorTruthful`. Three things
stay with TLC for good: liveness under fairness (`EveryCallSettles`, `ReviewEnds`,
`EveryUnitRecorded`, `ReviewReachesUser` and `Lifecycle!LSpec`, which has fairness in it) and
`ENABLED`, which are out of the prover's reach; and what a recursive function
computes for every input, where the argument is an induction over the input's structure (the
library's theorems for that take an operator as a parameter, which no installed prover
instantiates), so the readers of `UnifiedDiff`, the budget loop of
`RuleEvidence` and `CollectOptions` are checked over bounded inputs against a reference
definition written another way. No module declares a RECURSIVE operator.

## 6. Where documentation and code part

Shown by a run:

- `chain_resend`: a chain ended as an orphan while its next message is drafted still sends it
  (and is then recorded a second time).
- `feed_rearm`: `arm` evaluates `watch` and then awaits the clock (`register.ts:439`); a poll that
  shows a review in between is forgotten, and the next poll shows the review again. `ShownOnce`
  states what holds besides that.

Met while modelling and left as remarks:

- OpenCode attribution: an execution that starts between the boundary check and the diff read
  (`turn-tracker.ts:154`) puts its changes in the previous one's patch, against
  `docs/configuration.md:609`. Writes recorded for a following execution are consumed by the
  previous one's `finish` (`turn-tracker.ts:146`), so an ignored write may go unnoticed. So it may
  when a succeeded event is repeated for a nested session that has started again: the repetition
  moves or drops the writes its next execution has recorded. The
  start snapshot is taken when the queued `start` runs; earlier changes of the execution count
  as already present. An execution evicted from the full open map no longer flags overlaps.
  One host read that never answers (`turn-tracker.ts:262`, `opencode.ts:27`, `:33`) ends all
  attribution of the instance: the queue waits behind it, without a timeout or a message.
- OpenCode remediation: messages of two chains that land in one execution end only the first
  chain (`execution.ts:95`). The idle check reads the executions announced so far; the host may
  be ahead of it. The per-session limit is forgotten with the session once the count map is
  full (`remediation/chains.ts:83-85` says so).
- With the plugin's constants more requests are in flight than "two": a rule batch counts as
  one call and runs up to four requests (`README.md:199-201` says so, configuration.md reads
  otherwise).
- Claude worker: `SESSION_LIMIT` and `DELIVERY_FAILED` are recorded after all
  (`proposal-store.ts:116` against `docs/configuration.md:846-848`). When the feed line cannot
  be written, the chain's state is removed and no record appended (`run-worker.ts:224-229`). A
  unit without a turn ends the newest chain of its session (`proposal-store.ts:198-214`,
  `chain-step.ts:59-63`), which with two chains may be the wrong one; the other then waits until
  its file ages. `NoStrandedChain` leaves exactly that out, by `Misplaced`.
- Claude capture: when two tools edit one file side by side, the hook that finds the first image
  claimed (`unit-state.ts:282`) lets its tool run before the winner has read the file, so the
  patch may start from that tool's text instead of the state before the unit (against
  `docs/configuration.md:696-697`); successful edits do this too. `EvidenceExact` leaves the
  window out by `Misleads`.
- Local files: a line that one process appends while another is between the read and the rename
  of a rewrite is lost (`jsonl-file.ts:20-30`, `compact.ts:36-51`). A file deleted in that window
  comes back with its old lines, although it is "safe to delete at any time"
  (`docs/security.md:152-153`, `:179`). An answer that repeats one given meanwhile may write
  nothing from what it had read before. An answer reported as `WRITE_FAILED` may have been
  written. The temporary file of a killed rewrite is never removed.
- Claude capture: a write of another process during a shell call, or between two of the unit's
  own events, enters the patch (against `docs/configuration.md:721-724`; `NoLateForeignWrite`
  covers what comes after the last call). A handoff that cannot be delivered loses its unit.
  The window test of overlapping writers judges the lines present when it runs
  (`capture-event.ts:238-245`); the windows in which a write escapes it are named in `Misleads`.
- Setup: `install` reads the document, asks, and writes the whole document it read
  (`install.ts:22`, `:48`); what the user saves in the file while the question waits is lost
  unless it was the same. `ConfigEditSafe` allows this and nothing else. A killed install may leave
  its temporary file.
- User settings: `gitToplevelOf` (`containment.ts:28-34`) never looks for a `.git` in `/`, since
  `parentOf` (`:21-26`) ends one directory below it. Where a working tree is a whole POSIX file system
  (a container image under version control), a settings file in it but outside the project root is
  accepted, against `user-settings.ts:128-132` ("refused, on every platform"),
  `containment.ts:36-40` ("the nearest ancestor with a `.git`"), `docs/security.md:398-400` and
  `docs/configuration.md:781`. On Windows the drive's root is looked at. `SettingsSafe` says what holds.
- Calibration: `generate --count` of 4 to 12 passes the arguments and always fails its own
  validation, since a quadrant stays empty. `run --limit 10` over the default corpus selects
  fixtures of the first quadrant only, because the families of a round are taken in the order of
  their allocation, although
  `fixture-catalog.ts:1208` says that a limited run is not a biased prefix.
- Claude feed: an id is forgotten although it can be shown again (against `watch.ts:66-68`) in two
  more ways. Two workers whose lines fill the file both read it and both rewrite it
  (`log.ts:45-49`): the second rewrite brings back a line the first had cut, which a poll in between
  made the mod forget. And when an arm has read another session's file and fails, and the next
  poll cannot read the file of the first session, that poll takes it for empty
  (`register.ts:84-100`) and everything shown is forgotten. `ShownOnce` leaves out exactly these, by
  `log.returned` and `log.blind`.
- Claude feed: the ceiling of 15 minutes and a poll that stops on what an earlier poll read may
  leave a review unshown (`log.cutOff`, `log.lost`); the next `turn.complete` shows it if it is
  still in the file.

## 7. Not modelled, and the plan

Not modelled: the skills (prompt texts, and scripts that call the rule reader), OpenCode's
display of a review (formatting, and one toast whose failure is ignored), build and packaging
scripts, the types shared between packages.

Left out of modelled parts: of the capture, a project root that differs from the session's,
files Git ignores, the single size and time limits and their meter (one `limit` fault stands
for all), the cross-check report, the decoding of hook events, the stat fingerprints of blocked
files and subagent stop events; of the review, glob and extension matching, the request text and
the counts kept in slice metadata; of the OpenCode runtime, the observe-mode proposal and
notices, and the draft outcome `DUPLICATE` (`remediate.ts:136`): a draft is claimed by its
turn (`request.ts:52`), which the tracker attributes once (`ReplyIsOwn`), so
the claim does not fail; of the OpenCode attribution, the line numbers of a hunk that is given context; of the
worker, handoff parsing and its log; of the mod, the failures that leave no outcome file
(`register.ts:118-145`: a request that cannot be read or blanked, or is invalid), after which the chain
waits until its file ages; of the feed, polls whose read is overtaken by a later one (`PollReads` reads
the file and writes the cache in one step, so an older read never replaces a newer cache), layout and wording; of the readers, the
regular expressions and path quoting; of the setup, the keyring client, the YAML reader, prompts
of a terminal; of the calibration, the texts of the scenarios, the response metadata and the
Markdown of the report.

Next, proofs: `TurnsBounded` by counting moves.
