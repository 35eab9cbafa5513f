------------------------- MODULE OpenCodeRemediate -------------------------
(***************************************************************************)
(* The OpenCode plugin in mode: remediate (packages/plugin/src/runtime.ts, *)
(* review.ts, remediation/{remediate,chains,propose}.ts), with the host    *)
(* around it: sessions run executions, the host streams their lifecycle    *)
(* events to the plugin, attribution runs in one FIFO queue, each review   *)
(* is a detached job, and a job may queue one marked message into its      *)
(* session.  The event stream, the queue, the jobs, the user and the host  *)
(* all interleave.                                                         *)
(*                                                                         *)
(* Left to other modules: how an execution is attributed (any answer of    *)
(* tracker.finish may come back here) and how a review is made (any        *)
(* element of Reviews may come back).  The host is external: it is         *)
(* modelled from the calls and events the plugin exchanges with it.        *)
(***************************************************************************)
EXTENDS RemediationChain

CONSTANTS
  Sessions,
  Reviews,             \* the result sequences a review may return
  Attributions,        \* the answers of tracker.finish: subset of AttributionKinds
  Ends,                \* how the host ends executions: subset of EndKinds
  Faults,              \* the proposer and host failures allowed: subset of FaultKinds
  MaxAttempts,         \* setup.maxAttempts
  SessionLimit,        \* MAX_AGENT_DELIVERIES_PER_SESSION
  MaxActiveChains,     \* MAX_ACTIVE_CHAINS
  MaxCountedSessions,  \* MAX_COUNTED_SESSIONS
  MaxUserMessages      \* bound: messages the user sends to each session

AttributionKinds == {"ATTRIBUTED", "UNAVAILABLE", "NONE"}
EndKinds == {"SUCCEEDED", "ENDED_OTHER"}
FaultKinds == {"proposer", "synthetic"}

ASSUME RemediateAssumption ==
  /\ MaxAttempts \in 1..MAX_ATTEMPTS_CEILING
  /\ SessionLimit \in Nat
  /\ MaxActiveChains \in Nat \ {0}
  /\ MaxCountedSessions \in Nat \ {0}
  /\ MaxUserMessages \in Nat
  /\ IsFiniteSet(Sessions)
  /\ Attributions \subseteq AttributionKinds
  /\ Ends \subseteq EndKinds
  /\ Faults \subseteq FaultKinds
  /\ \A results \in Reviews : SoundReview(results)

VARIABLES
  \* the host
  inbox,       \* messages admitted to each session and not yet in an execution
  running,     \* each session's current execution, or None
  events,      \* lifecycle events emitted and not yet handled by the plugin
  userSent,    \* bound: messages the user has sent, per session
  turnCount,   \* executions started so far; an execution's number is its turn id
  \* the plugin
  openExecutions,  \* sessions with an execution in progress, as the events say
  tasks,       \* the serialized attribution queue (tail)
  jobs,        \* detached review jobs
  chains,      \* saved chains, oldest first
  deliveries,  \* deliveries counted per session, least recently counted first
  chainLog,    \* remediation-chains.jsonl
  sent         \* history: the marks sent, with their session

hostVars == <<inbox, running, events, userSent, turnCount>>
pluginVars == <<openExecutions, tasks, jobs, chains, deliveries, chainLog, sent>>
vars == <<inbox, running, events, userSent, turnCount,
          openExecutions, tasks, jobs, chains, deliveries, chainLog, sent>>

Elements(s) == {s[i] : i \in DOMAIN s}

-----------------------------------------------------------------------------
(* The host and its user.                                                   *)

Event(kind, session, exec) == [kind |-> kind, session |-> session, exec |-> exec]

UserMessage(s) ==
  /\ userSent[s] < MaxUserMessages
  /\ userSent' = [userSent EXCEPT ![s] = @ + 1]
  /\ inbox' = [inbox EXCEPT ![s] = Append(@, HumanTurn)]
  /\ UNCHANGED <<running, events, turnCount>> /\ UNCHANGED pluginVars

\* A message waiting at an idle session starts an execution.
StartExecution(s) ==
  /\ running[s] = None
  /\ inbox[s] # <<>>
  /\ turnCount' = turnCount + 1
  /\ running' = [running EXCEPT ![s] = [turn |-> turnCount', inputs |-> <<Head(inbox[s])>>]]
  /\ inbox' = [inbox EXCEPT ![s] = Tail(@)]
  /\ events' = Append(events, Event("STARTED", s, running'[s]))
  /\ UNCHANGED userSent /\ UNCHANGED pluginVars

\* A message admitted while the session is busy runs in the same execution.
AdmitQueued(s) ==
  /\ running[s] # None
  /\ inbox[s] # <<>>
  /\ running' = [running EXCEPT ![s].inputs = Append(@, Head(inbox[s]))]
  /\ inbox' = [inbox EXCEPT ![s] = Tail(@)]
  /\ UNCHANGED <<events, userSent, turnCount>> /\ UNCHANGED pluginVars

EndExecution(s) ==
  /\ running[s] # None
  /\ \E kind \in Ends : events' = Append(events, Event(kind, s, running[s]))
  /\ running' = [running EXCEPT ![s] = None]
  /\ UNCHANGED <<inbox, userSent, turnCount>> /\ UNCHANGED pluginVars

-----------------------------------------------------------------------------
(* The saved chains and the delivery counts (remediation/chains.ts).        *)

LoadChain(chainId) ==
  IF \E e \in Elements(chains) : e.state.chainId = chainId
  THEN (CHOOSE e \in Elements(chains) : e.state.chainId = chainId).state
  ELSE None

RemovedAt(s, i) == SubSeq(s, 1, i - 1) \o SubSeq(s, i + 1, Len(s))

\* remove: the entry of a chain, if it has one.
Without(cs, chainId) ==
  IF \E i \in DOMAIN cs : cs[i].state.chainId = chainId
  THEN RemovedAt(cs, CHOOSE i \in DOMAIN cs : cs[i].state.chainId = chainId)
  ELSE cs

\* save: a known chain keeps its place; a new one may push the oldest out.
SavedChains(session, state) ==
  IF \E e \in Elements(chains) : e.state.chainId = state.chainId
  THEN [i \in DOMAIN chains |-> IF chains[i].state.chainId = state.chainId
                                THEN [session |-> session, state |-> state] ELSE chains[i]]
  ELSE Append(chains, [session |-> session, state |-> state])

\* The newest chain of a session: the last of its entries.
ActiveChain(session) ==
  LET mine == {i \in DOMAIN chains : chains[i].session = session}
  IN IF mine = {} THEN None
     ELSE chains[CHOOSE i \in mine : \A j \in mine : j <= i].state

DeliveredCount(session) ==
  IF \E d \in Elements(deliveries) : d.session = session
  THEN (CHOOSE d \in Elements(deliveries) : d.session = session).count
  ELSE 0

\* The counts of the other sessions.
OtherCounts(session) ==
  IF \E i \in DOMAIN deliveries : deliveries[i].session = session
  THEN RemovedAt(deliveries, CHOOSE i \in DOMAIN deliveries : deliveries[i].session = session)
  ELSE deliveries

\* Variant of Counted: the count starts over each time.
CountedWithoutMoving(session) ==
  Append(OtherCounts(session), [session |-> session, count |-> 1])

\* countDelivery past its limit check: the session becomes the most recently
\* counted, and past the cap the least recently counted one is forgotten.
Counted(session) ==
  LET moved == Append(OtherCounts(session),
                      [session |-> session, count |-> DeliveredCount(session) + 1])
  IN IF Len(moved) > MaxCountedSessions THEN Tail(moved) ELSE moved

\* closeChains: each chain's state goes and its record is written.
Close(cs, log, state, code) ==
  /\ chains' = Without(cs, state.chainId)
  /\ chainLog' = Append(log, ClosureRecord(state, code))

-----------------------------------------------------------------------------
(* The runtime (runtime.ts).                                                *)

\* onEvent: `started` marks the session busy; the other two free it and queue
\* their attribution work.
HandleTurnEvent(e) ==
  /\ openExecutions' = IF e.kind = "STARTED" THEN openExecutions \union {e.session}
                       ELSE openExecutions \ {e.session}
  /\ tasks' = IF e.kind = "STARTED" THEN tasks ELSE Append(tasks, e)

OnEvent ==
  /\ events # <<>>
  /\ events' = Tail(events)
  /\ HandleTurnEvent(Head(events))
  /\ UNCHANGED <<inbox, running, userSent, turnCount>>
  /\ UNCHANGED <<jobs, chains, deliveries, chainLog, sent>>

\* endOrphanChain: the session's newest chain ends as unverified.
EndOrphan(session) ==
  LET active == ActiveChain(session)
  IN IF active = None THEN UNCHANGED <<chains, chainLog>>
     ELSE Close(chains, chainLog, active, DecideOrphanStep(active).code)

Job(exec, session) ==
  [turn |-> exec.turn, session |-> session, inputs |-> exec.inputs,
   stage |-> "reviewing", step |-> NoStep]

\* The head of the queue: discard, or finish with any answer of the tracker.
RunTask ==
  /\ tasks # <<>>
  /\ tasks' = Tail(tasks)
  /\ LET task == Head(tasks)
     IN \/ /\ task.kind = "ENDED_OTHER"
           /\ EndOrphan(task.session)
           /\ UNCHANGED jobs
        \/ /\ task.kind = "SUCCEEDED"
           /\ "UNAVAILABLE" \in Attributions
           /\ EndOrphan(task.session)
           /\ UNCHANGED jobs
        \/ /\ task.kind = "SUCCEEDED"
           /\ "NONE" \in Attributions
           /\ UNCHANGED <<jobs, chains, chainLog>>
        \/ /\ task.kind = "SUCCEEDED"
           /\ "ATTRIBUTED" \in Attributions
           /\ jobs' = jobs \union {Job(task.exec, task.session)}
           /\ UNCHANGED <<chains, chainLog>>
  /\ UNCHANGED <<openExecutions, deliveries, sent>> /\ UNCHANGED hostVars

-----------------------------------------------------------------------------
(* The review jobs (review.ts, remediation/remediate.ts).                   *)

\* executionDelivery: the first mark of the inputs, and whether an unmarked
\* input came with it.
MarkOf(inputs) ==
  LET marked == {i \in DOMAIN inputs : inputs[i].kind = "MARK"}
  IN IF marked = {} THEN HumanTurn ELSE inputs[CHOOSE i \in marked : \A j \in marked : i <= j]

Mixed(inputs) == MarkOf(inputs) # HumanTurn /\ HumanTurn \in Elements(inputs)

StepOf(job, results, request) ==
  LET mark == MarkOf(job.inputs)
  IN DecideRemediateStep(
       [maxAttempts |-> MaxAttempts,
        delivery |-> mark,
        chain |-> IF mark = HumanTurn THEN None ELSE LoadChain(mark.chainId),
        request |-> request,
        results |-> results,
        turnId |-> job.turn,
        mixed |-> Mixed(job.inputs)])

Moved(job, stage, step) == (jobs \ {job}) \union {[job EXCEPT !.stage = stage, !.step = step]}

\* remediateTurn, once the review is presented, up to the proposer's run.
\* buildProposalRequest gives no request for a turn without a FAIL.
Decide(job) ==
  /\ job.stage = "reviewing"
  /\ \E results \in Reviews, request \in BOOLEAN :
       /\ request => ChainFailures(results) # {}
       /\ LET step == StepOf(job, results, request)
          IN \/ /\ step.kind = "NONE"
                /\ jobs' = jobs \ {job}
                /\ UNCHANGED <<chains, deliveries, chainLog>>
             \/ /\ step.kind \in {"STOP", "RESOLVED"}
                /\ chains' = Without(chains, step.state.chainId)
                /\ chainLog' = Append(chainLog, ChainEndOf(step, job.turn))
                /\ jobs' = jobs \ {job}
                /\ UNCHANGED deliveries
             \/ /\ step.kind = "DELIVER"
                /\ DeliveredCount(job.session) >= SessionLimit
                /\ Close(chains, chainLog, step.state, "SESSION_LIMIT")
                /\ jobs' = jobs \ {job}
                /\ UNCHANGED deliveries
             \/ /\ step.kind = "DELIVER"
                /\ DeliveredCount(job.session) < SessionLimit
                /\ deliveries' = Counted(job.session)
                /\ jobs' = Moved(job, "drafting", step)
                /\ UNCHANGED <<chains, chainLog>>
  /\ UNCHANGED <<openExecutions, tasks, sent>> /\ UNCHANGED hostVars

\* draftProposal returned FAILED: a bad model, a refused child session or
\* prompt, a failed or timed-out child, or no answer to read.
DraftFails(job) ==
  /\ job.stage = "drafting"
  /\ "proposer" \in Faults
  /\ Close(chains, chainLog, job.step.state, "PROPOSAL_FAILED")
  /\ jobs' = jobs \ {job}
  /\ UNCHANGED <<openExecutions, tasks, deliveries, sent>> /\ UNCHANGED hostVars

\* draftProposal returned READY or NO_MODEL while the session is busy.
DraftReadyBusy(job) ==
  /\ job.stage = "drafting"
  /\ job.session \in openExecutions
  /\ Close(chains, chainLog, job.step.state, "UNVERIFIED")
  /\ jobs' = jobs \ {job}
  /\ UNCHANGED <<openExecutions, tasks, deliveries, sent>> /\ UNCHANGED hostVars

\* draftProposal returned READY or NO_MODEL at an idle session: the chain is
\* saved, and a chain pushed out to make room ends as expired.
DraftReadyIdle(job) ==
  /\ job.stage = "drafting"
  /\ job.session \notin openExecutions
  /\ LET saved == SavedChains(job.session, job.step.state)
     IN IF Len(saved) > MaxActiveChains
        THEN Close(saved, chainLog, Head(saved).state, "EXPIRED")
        ELSE chains' = saved /\ UNCHANGED chainLog
  /\ jobs' = Moved(job, "prompting", job.step)
  /\ UNCHANGED <<openExecutions, tasks, deliveries, sent>> /\ UNCHANGED hostVars

StepMark(step) == Mark(step.chainId, step.attempt, step.maxAttempts)

\* Variant of PromptAccepted: the job sends again (at most 5 messages, to stay finite).
PromptAcceptedRetried(job) ==
  /\ job.stage = "prompting"
  /\ Len(sent) < 5
  /\ inbox' = [inbox EXCEPT ![job.session] = Append(@, StepMark(job.step))]
  /\ sent' = Append(sent, [session |-> job.session, mark |-> StepMark(job.step)])
  /\ UNCHANGED <<running, events, userSent, turnCount>>
  /\ UNCHANGED <<openExecutions, tasks, jobs, chains, deliveries, chainLog>>

\* promptVisible: the host queues the synthetic message.
PromptAccepted(job) ==
  /\ job.stage = "prompting"
  /\ inbox' = [inbox EXCEPT ![job.session] = Append(@, StepMark(job.step))]
  /\ sent' = Append(sent, [session |-> job.session, mark |-> StepMark(job.step)])
  /\ jobs' = jobs \ {job}
  /\ UNCHANGED <<running, events, userSent, turnCount>>
  /\ UNCHANGED <<openExecutions, tasks, chains, deliveries, chainLog>>

\* Variant of PromptRejected: the chain is left open.
PromptRejectedSilently(job) ==
  /\ job.stage = "prompting"
  /\ "synthetic" \in Faults
  /\ jobs' = jobs \ {job}
  /\ UNCHANGED <<openExecutions, tasks, chains, deliveries, chainLog, sent>> /\ UNCHANGED hostVars

PromptRejected(job) ==
  /\ job.stage = "prompting"
  /\ "synthetic" \in Faults
  /\ Close(chains, chainLog, job.step.state, "DELIVERY_FAILED")
  /\ jobs' = jobs \ {job}
  /\ UNCHANGED <<openExecutions, tasks, deliveries, sent>> /\ UNCHANGED hostVars

-----------------------------------------------------------------------------

Init ==
  /\ inbox = [s \in Sessions |-> <<>>]
  /\ running = [s \in Sessions |-> None]
  /\ events = <<>>
  /\ userSent = [s \in Sessions |-> 0]
  /\ turnCount = 0
  /\ openExecutions = {}
  /\ tasks = <<>>
  /\ jobs = {}
  /\ chains = <<>>
  /\ deliveries = <<>>
  /\ chainLog = <<>>
  /\ sent = <<>>

HostStep == \E s \in Sessions : StartExecution(s) \/ AdmitQueued(s) \/ EndExecution(s)

JobStep(job) ==
  \/ Decide(job) \/ DraftFails(job) \/ DraftReadyBusy(job) \/ DraftReadyIdle(job)
  \/ PromptAccepted(job) \/ PromptRejected(job)

Next ==
  \/ \E s \in Sessions : UserMessage(s)
  \/ HostStep
  \/ OnEvent
  \/ RunTask
  \/ \E job \in jobs : JobStep(job)

Spec == Init /\ [][Next]_vars

\* The host runs what is queued and ends what it runs; the plugin's event
\* loop, its queue and its jobs progress (a proposer run ends by its timeout).
Fairness ==
  /\ \A s \in Sessions : WF_vars(StartExecution(s)) /\ WF_vars(EndExecution(s))
  /\ WF_vars(OnEvent)
  /\ WF_vars(RunTask)
  /\ WF_vars(\E job \in jobs : JobStep(job))

FairSpec == Spec /\ Fairness

-----------------------------------------------------------------------------
(* What is true of every run, whatever the user, the host and the proposer *)
(* do.                                                                     *)

TurnIds == 1..turnCount

Marks == {Mark(c, a, MaxAttempts) : c \in TurnIds, a \in 1..MaxAttempts}
Messages == {HumanTurn} \union Marks
IsExecution(exec) == exec.turn \in TurnIds /\ Elements(exec.inputs) \subseteq Messages
PendingSteps == {job.step : job \in {j \in jobs : j.stage \in {"drafting", "prompting"}}}
ChainStates == {e.state : e \in Elements(chains)} \union {step.state : step \in PendingSteps}

\* Every variable holds the kind of value the code keeps in it.
TypeOK ==
  /\ \A s \in Sessions : /\ Elements(inbox[s]) \subseteq Messages
                         /\ running[s] # None => IsExecution(running[s])
  /\ \A e \in Elements(events) \union Elements(tasks) :
       e.kind \in EndKinds \union {"STARTED"} /\ e.session \in Sessions /\ IsExecution(e.exec)
  /\ userSent \in [Sessions -> 0..MaxUserMessages]
  /\ turnCount \in Nat
  /\ openExecutions \subseteq Sessions
  /\ \A job \in jobs : job.stage \in {"reviewing", "drafting", "prompting"} /\ job.session \in Sessions
  /\ \A state \in ChainStates : state.chainId \in TurnIds
  /\ Len(chains) <= MaxActiveChains
  /\ Len(deliveries) <= MaxCountedSessions
  /\ Elements(sent) \subseteq [session : Sessions, mark : Marks]

\* What the plugin keeps stays within its caps, and every chain state it saves,
\* or is about to save, is one that parseChainState would read back: one
\* signature and one turn per attempt, all distinct, a scope for exactly the
\* origins, and within the limit the user set (chain.ts, chain-state.ts).
ChainsCoherent ==
  TypeOK /\ \A state \in ChainStates : Coherent(state) /\ state.attempts <= MaxAttempts

IsMarkOf(message, c) == message.kind = "MARK" /\ message.chainId = c
Carries(inputs, c) == \E i \in DOMAIN inputs : IsMarkOf(inputs[i], c)

\* Where a chain's next decision can come from.
WaitingMarks(c) ==
  UNION {{<<s, i>> : i \in {k \in DOMAIN inbox[s] : IsMarkOf(inbox[s][k], c)}} : s \in Sessions}
RunningMarks(c) ==
  {exec \in {running[s] : s \in {x \in Sessions : running[x] # None}} \union
            {e.exec : e \in {x \in Elements(events) \union Elements(tasks) : x.kind # "STARTED"}} :
     Carries(exec.inputs, c)}
ReviewedMarks(c) == {job \in jobs : job.stage = "reviewing" /\ Carries(job.inputs, c)}

\* A chain is in one place at a time: a message of it waits, runs or is under
\* review, or its next one is being drafted, never two of these.  It is what
\* makes load-then-save in remediateTurn safe without a lock, although the
\* reviews run detached and a mark outlives the state it was sent for.
OneMoveInFlight ==
  \A c \in TurnIds :
    Cardinality(WaitingMarks(c)) + Cardinality(RunningMarks(c)) + Cardinality(ReviewedMarks(c))
      + Cardinality({step \in PendingSteps : step.chainId = c}) <= 1

\* The messages sent for a chain, by their place among all that were sent.
SentAt(c) == {i \in DOMAIN sent : sent[i].mark.chainId = c}

\* The messages of a chain are attempts 1, 2, ... in that order, all into one
\* session and never past the limit, even when the chain's state was dropped
\* or its end was recorded in between.
SentInOrder ==
  \A c \in TurnIds :
    \A i \in SentAt(c) :
      /\ sent[i].mark.attempt = Cardinality({j \in SentAt(c) : j <= i})
      /\ \A j \in SentAt(c) : sent[j].session = sent[i].session

\* A chain moves one step at a time, and its messages tell of it.
MovesInOrder == OneMoveInFlight /\ SentInOrder

\* No session ever gets more messages than MAX_AGENT_DELIVERIES_PER_SESSION
\* (docs/configuration.md: "At most 3 messages are sent per session for the
\* plugin's lifetime"), over all its chains and with failed deliveries.
SessionLimitHeld ==
  \A s \in Sessions : Cardinality({i \in DOMAIN sent : sent[i].session = s}) <= SessionLimit

\* The scope a finding of a chain was judged over never shrinks from one saved
\* state of the chain to the next (chain.ts: "a later turn that narrowed a
\* scope is caught"), however many attempts lie between.
ScopesNeverShrink ==
  [][\A c \in TurnIds :
       LoadChain(c) # None /\ LoadChain(c)' # None =>
         \A id \in DOMAIN LoadChain(c).scopes :
           LoadChain(c).scopes[id] \subseteq LoadChain(c)'.scopes[id]]_vars

\* A chain recorded as RESOLVED had a message sent for each attempt it counts,
\* fixed every one of its findings, and was judged by a turn of its own that
\* no attempt of the chain had used before.
ResolvedMeansProven ==
  \A i \in DOMAIN chainLog :
    LET entry == chainLog[i]
    IN entry.result = "RESOLVED" =>
         /\ entry.remainingIds = {} /\ entry.resolvedIds = entry.originIds
         /\ entry.originIds # {}
         /\ entry.attempts \in 1..Cardinality(SentAt(entry.chainId))
         /\ Len(entry.turnIds) = entry.attempts + 1

\* Each message the user sends starts at most one chain, and each attempt of a
\* chain at most one turn: what JevGuard sends never keeps a session going.
MaxTurns == Cardinality(Sessions) * MaxUserMessages * (MaxAttempts + 1)
PossibleChains == 1..(MaxTurns - MaxAttempts)
TurnsBounded ==
  /\ turnCount <= MaxTurns
  /\ {x.mark.chainId : x \in Elements(sent)} \union {entry.chainId : entry \in Elements(chainLog)}
       \subseteq PossibleChains

-----------------------------------------------------------------------------
(* What holds while nothing interferes with a chain: its session runs no   *)
(* other execution, and every execution succeeds and is attributed.        *)

RecordsOf(c) == SelectSeq(chainLog, LAMBDA entry : entry.chainId = c)

SentFor(c) == SelectSeq(sent, LAMBDA x : x.mark.chainId = c)

AttemptsSent(c) == LET mine == SentFor(c) IN [i \in DOMAIN mine |-> mine[i].mark.attempt]
ResultsOf(c) == LET mine == RecordsOf(c) IN [i \in DOMAIN mine |-> mine[i].result]

Lifecycle == INSTANCE ChainLifecycle
  WITH ChainIds <- PossibleChains,
       messages <- [c \in PossibleChains |-> AttemptsSent(c)],
       results <- [c \in PossibleChains |-> ResultsOf(c)]

\* Every chain lives the documented life: numbered messages, one result, no
\* message after it, and an end for every chain that sent one; and there are no
\* more of them than the user's messages can start.
ImplementsLifecycle == Lifecycle!LSpec /\ []TurnsBounded

\* A chain that stopped "writes no further request": nothing is sent for a
\* chain that already has its end recorded.
NothingSentAfterEnd ==
  [][\A c \in TurnIds : SentFor(c)' # SentFor(c) => RecordsOf(c) = <<>>]_vars
=============================================================================
