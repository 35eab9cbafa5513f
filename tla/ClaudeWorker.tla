---------------------------- MODULE ClaudeWorker ----------------------------
(***************************************************************************)
(* The Claude Code side of one session after its units are closed:         *)
(* detached worker processes drain the handoff directory                   *)
(* (claude-code-adapter/src/worker/run-worker.ts), decide the remediation  *)
(* chain (worker/remediation/{chain-step,proposal-store,prepare-proposal}) *)
(* and announce a proposal in the feed; the in-session mod                 *)
(* (claude-code-plugin/mod/register.ts) takes the announced request, asks  *)
(* the model and submits a message, whose turn becomes the next unit.      *)
(* Workers share nothing but files: each file operation that another       *)
(* process can come between is a step of its own.                          *)
(*                                                                         *)
(* Left to other modules: how a unit is captured and closed, and how a     *)
(* review is made (any element of Reviews may come back).                  *)
(***************************************************************************)
EXTENDS RemediationChain, Lists

CONSTANTS
  Workers,            \* process slots
  Mode,               \* the user's setting: "off", "observe" or "remediate"
  Delivery,           \* the user's delivery for a plain proposal: "agent" or "user"
  Reviews,            \* what reviewHandoff may return for a turn
  TurnKinds,          \* whether a unit may hold a turn: subset of BOOLEAN
  Faults,             \* the failures allowed: subset of FaultKinds
  MaxAttempts,        \* max_attempts
  SessionLimit,       \* MAX_AGENT_DELIVERIES_PER_SESSION
  WorkerCeiling,      \* WORKER_CEILING_MS, in ticks
  AbandonedAfter,     \* CLAIM_ABANDONED_AFTER_MS, in ticks
  FileTTL,            \* ORPHAN_TTL_MS, in ticks
  MaxUserMessages,    \* bound: messages the user sends
  MaxTime             \* bound: ticks

FaultKinds == {"spawn", "restart", "crash", "rename", "remove", "write", "feed",
               "model", "submit", "session", "outcome", "reload"}

ASSUME WorkerAssumption ==
  /\ Mode \in {"off", "observe", "remediate"}
  /\ Mode = "remediate" => Delivery = "agent"
  /\ MaxAttempts \in 1..MAX_ATTEMPTS_CEILING
  /\ SessionLimit \in Nat
  /\ {WorkerCeiling, AbandonedAfter, FileTTL, MaxUserMessages, MaxTime} \subseteq Nat
  /\ WorkerCeiling <= AbandonedAfter   \* 15 minutes and one hour
  /\ WorkerCeiling <= FileTTL          \* and 24 hours

VARIABLES
  now,         \* the wall clock
  inbox,       \* prompts waiting for the session to be idle
  userSent,    \* bound: messages the user has sent
  units,       \* the closed units: the prompt that opened each, and whether it holds a turn
  pending,     \* handoffs waiting in the directory
  claimed,     \* handoffs in claimed/, with the claim time in their names
  workers,     \* the worker processes
  history,     \* reviews.jsonl: the units recorded, in order
  killed,      \* history variable: units whose worker died before it recorded them
  mishaps,     \* history variable: the faults after which a chain may be forgotten
  feed,        \* RECORDED lines of the session's feed
  requests,    \* proposal request files; the mod blanks what it takes
  chains,      \* saved chain states, least recently written first
  outcomes,    \* delivery outcome files
  chainLog,    \* the records of remediation-chains.jsonl
  shown,       \* the mod: feed lines it has handled
  modQueue,    \* the mod: proposals waiting
  modTask,     \* the mod: the request it is working on, or None
  delivered,   \* the mod: deliveries counted for the session
  sent         \* history variable: the messages submitted, with the unit they answer

claimVars == <<pending, claimed>>
recordVars == <<history, feed>>
proposalVars == <<requests, chains, outcomes, chainLog>>
fileVars == <<claimVars, recordVars, proposalVars>>
ghostVars == <<killed, mishaps>>
sessionVars == <<inbox, userSent, units>>
modVars == <<shown, modQueue, modTask, delivered, sent>>
vars == <<now, inbox, userSent, units, pending, claimed, workers, history, killed, mishaps,
          feed, requests, chains, outcomes, chainLog, shown, modQueue, modTask, delivered, sent>>

Elements(s) == {s[i] : i \in DOMAIN s}

NoReview == [results |-> <<>>, request |-> FALSE]
Idle == [stage |-> "idle", since |-> 0, saw |-> {}, read |-> {}, ended |-> {}, todo |-> {},
         any |-> FALSE, path |-> None, settings |-> "off", review |-> NoReview,
         step |-> NoStep, proposed |-> FALSE, leftovers |-> {}]

Init ==
  /\ now = 0 /\ inbox = <<>> /\ userSent = 0 /\ units = <<>>
  /\ pending = {} /\ claimed = {} /\ history = <<>> /\ killed = {} /\ mishaps = {}
  /\ workers = [w \in Workers |-> Idle]
  /\ feed = <<>> /\ requests = {} /\ chains = <<>> /\ outcomes = {} /\ chainLog = {}
  /\ shown = {} /\ modQueue = <<>> /\ modTask = None /\ delivered = 0 /\ sent = <<>>

At(w, stage) == workers[w].stage = stage
Goes(w, record) == workers' = [workers EXCEPT ![w] = record]

-----------------------------------------------------------------------------
(* The session and the clock.                                               *)

UserMessage ==
  /\ userSent < MaxUserMessages
  /\ userSent' = userSent + 1
  /\ inbox' = Append(inbox, HumanTurn)
  /\ UNCHANGED <<now, ghostVars, workers, units, fileVars, modVars>>

Spawned(w) == Goes(w, [Idle EXCEPT !.stage = "start", !.since = now])

\* The next prompt's turn runs and its hook closes the unit: the handoff is
\* delivered, then a worker is spawned; spawning may fail.
CloseUnit(w) ==
  /\ inbox # <<>>
  /\ \E turn \in TurnKinds : units' = Append(units, [task |-> Head(inbox), turn |-> turn])
  /\ inbox' = Tail(inbox)
  /\ pending' = pending \union {Len(units')}
  /\ \/ At(w, "idle") /\ Spawned(w)
     \/ "spawn" \in Faults /\ UNCHANGED workers
  /\ UNCHANGED <<now, ghostVars, userSent, claimed, recordVars, proposalVars,
                 modVars>>

\* SessionStart spawns a worker too.
SessionStart(w) ==
  /\ "restart" \in Faults
  /\ At(w, "idle") /\ Spawned(w)
  /\ UNCHANGED <<now, ghostVars, sessionVars, fileVars, modVars>>

AtCeiling(w) == ~At(w, "idle") /\ now - workers[w].since >= WorkerCeiling

\* The ceiling's timer fires before a worker outlives it.
Tick ==
  /\ now < MaxTime
  /\ \A w \in Workers : ~AtCeiling(w)
  /\ now' = now + 1
  /\ UNCHANGED <<ghostVars, workers, sessionVars, fileVars, modVars>>

Holding == {"claimed", "reviewing", "recorded", "decided", "settled"}
Held(w) == IF workers[w].stage \in Holding THEN {workers[w].path.unit} ELSE {}

\* The process dies (a crash) or exits at its ceiling, whatever it was doing.
Dies(w) ==
  /\ ~At(w, "idle")
  /\ "crash" \in Faults \/ AtCeiling(w)
  /\ Goes(w, Idle)
  /\ killed' = killed \union (Held(w) \ Elements(history))
  /\ mishaps' = mishaps \union {"crash"}
  /\ UNCHANGED <<now, sessionVars, fileVars, modVars>>

-----------------------------------------------------------------------------
(* A worker starts: abandoned claims, then the sweep of the proposals.      *)

\* Variant of Abandoned: the age is not looked at.
AbandonedAtOnce(c) == TRUE
Abandoned(c) == now - c.at > AbandonedAfter

\* Variant of DropAbandonedClaims: an abandoned claim is reviewed again.
DropAndRetry(w) ==
  /\ At(w, "start")
  /\ \E kept \in SUBSET {c \in claimed : Abandoned(c)} :
       /\ kept # {} => "remove" \in Faults
       /\ claimed' = {c \in claimed : Abandoned(c) => c \in kept}
       /\ pending' = pending \union {c.unit : c \in claimed \ claimed'}
       /\ Goes(w, [workers[w] EXCEPT !.stage = "sweep", !.leftovers = kept])
  /\ UNCHANGED <<now, ghostVars, sessionVars, recordVars,
                 proposalVars, modVars>>

DropAbandonedClaims(w) ==
  /\ At(w, "start")
  /\ \E kept \in SUBSET {c \in claimed : Abandoned(c)} :
       /\ kept # {} => "remove" \in Faults
       /\ claimed' = {c \in claimed : Abandoned(c) => c \in kept}
       /\ Goes(w, [workers[w] EXCEPT !.stage = "sweep", !.leftovers = kept])
  /\ UNCHANGED <<now, ghostVars, sessionVars, pending, recordVars,
                 proposalVars, modVars>>

Expired(file) == now - file.at > FileTTL
ChainFile(state) == [state |-> state, at |-> now]
SavedStates == {e.state : e \in Elements(chains)}
Without(chainId) == Kept(chains, {e \in Elements(chains) : e.state.chainId # chainId})

SweepRead(w) ==
  /\ At(w, "sweep")
  /\ Goes(w, [workers[w] EXCEPT !.stage = "swept", !.saw = SavedStates, !.read = outcomes])
  /\ UNCHANGED <<now, ghostVars, sessionVars, fileVars, modVars>>

LastTurn(state) == state.turnIds[Len(state.turnIds)]

\* The chains an outcome ends, and those whose file has aged out.
Closures(w) ==
  LET told == {[state |-> s, code |-> o.code] : s \in workers[w].saw, o \in workers[w].read}
      ended == {c \in told : \E o \in workers[w].read :
                               o.unit = LastTurn(c.state) /\ o.code = c.code}
  IN ended \union
     {[state |-> s, code |-> "EXPIRED"] :
        s \in {x \in workers[w].saw : /\ \A c \in ended : c.state # x
                                      /\ \E e \in Elements(chains) :
                                           e.state.chainId = x.chainId /\ Expired(e)}}

\* applyOutcomes, closeExpiredChains and the removal of blank and expired files.
SweepApply(w) ==
  /\ At(w, "swept")
  /\ LET ended == Closures(w)
     IN /\ outcomes' = {o \in outcomes : o \notin workers[w].read /\ ~Expired(o)}
        /\ chains' = Kept(chains, {e \in Elements(chains) :
                                    /\ \A c \in ended : c.state.chainId # e.state.chainId
                                    /\ ~Expired(e)})
        /\ Goes(w, [workers[w] EXCEPT !.stage = "closing", !.ended = ended,
                                      !.saw = {}, !.read = {}])
  /\ requests' = {r \in requests : ~r.blank /\ ~Expired(r)}
  /\ UNCHANGED <<now, ghostVars, sessionVars, claimVars, recordVars,
                 chainLog, modVars>>

RecordClosures(w) ==
  /\ At(w, "closing")
  /\ chainLog' = chainLog \union {ClosureRecord(c.state, c.code) : c \in workers[w].ended}
  /\ Goes(w, [workers[w] EXCEPT !.stage = "list", !.ended = {}])
  /\ UNCHANGED <<now, ghostVars, sessionVars, claimVars, recordVars,
                 requests, chains, outcomes, modVars>>

-----------------------------------------------------------------------------
(* Draining the handoffs (run-worker.ts).                                   *)

\* Variant of List: nothing is listed while another worker runs.
ListIfAlone(w) ==
  /\ At(w, "list")
  /\ Goes(w, [workers[w] EXCEPT !.stage = "drain", !.any = FALSE,
         !.todo = IF \A v \in Workers \ {w} : At(v, "idle") THEN pending ELSE {}])
  /\ UNCHANGED <<now, ghostVars, sessionVars, fileVars, modVars>>

List(w) ==
  /\ At(w, "list")
  /\ Goes(w, [workers[w] EXCEPT !.stage = "drain", !.todo = pending, !.any = FALSE])
  /\ UNCHANGED <<now, ghostVars, sessionVars, fileVars, modVars>>

Oldest(set) == CHOOSE u \in set : \A v \in set : u <= v

\* The rename either moves the handoff or finds it gone; the claim's name
\* carries the time.
Claim(w) ==
  LET u == Oldest(workers[w].todo)
      rest == [workers[w] EXCEPT !.todo = @ \ {u}]
  IN /\ At(w, "drain") /\ workers[w].todo # {}
     /\ \/ /\ u \in pending
           /\ pending' = pending \ {u}
           /\ claimed' = claimed \union {[unit |-> u, at |-> now]}
           /\ Goes(w, [rest EXCEPT !.stage = "claimed", !.any = TRUE,
                                   !.path = [unit |-> u, at |-> now]])
        \/ /\ u \notin pending \/ "rename" \in Faults
           /\ Goes(w, rest)
           /\ UNCHANGED claimVars
     /\ UNCHANGED <<now, ghostVars, sessionVars, recordVars, proposalVars, modVars>>

\* A pass that claimed something is followed by another listing.
EndPass(w) ==
  /\ At(w, "drain") /\ workers[w].todo = {}
  /\ Goes(w, [workers[w] EXCEPT !.stage = IF workers[w].any THEN "list" ELSE "retry"])
  /\ UNCHANGED <<now, ghostVars, sessionVars, fileVars, modVars>>

Unit(w) == units[workers[w].path.unit]

\* The claim is read and the user's settings with it: a unit without a turn
\* needs them only when a chain is saved.
Begin(w) ==
  /\ At(w, "claimed")
  /\ Goes(w, IF workers[w].path \in claimed
             THEN [workers[w] EXCEPT
                     !.stage = "reviewing",
                     !.settings = IF ~Unit(w).turn /\ chains = <<>> THEN "off" ELSE Mode]
             ELSE [workers[w] EXCEPT !.stage = "drain", !.path = None])
  /\ UNCHANGED <<now, ghostVars, sessionVars, fileVars, modVars>>

\* The review comes back, or its deadline; either is appended to the history.
Review(w) ==
  /\ At(w, "reviewing")
  /\ \E r \in IF Unit(w).turn THEN Reviews ELSE {NoReview} :
       Goes(w, [workers[w] EXCEPT
                  !.stage = "recorded",
                  !.review = [r EXCEPT !.request = @ /\ workers[w].settings # "off"]])
  /\ history' = Append(history, workers[w].path.unit)
  /\ UNCHANGED <<now, ghostVars, sessionVars, claimVars, feed, proposalVars,
                 modVars>>

LoadChain(chainId) ==
  IF \E s \in SavedStates : s.chainId = chainId
  THEN CHOOSE s \in SavedStates : s.chainId = chainId
  ELSE None

\* chainStepOf: a unit without a turn can only end the newest saved chain.
StepOf(w) ==
  LET task == Unit(w).task
  IN IF workers[w].settings # "remediate" THEN NoStep
     ELSE IF ~Unit(w).turn
       THEN IF chains = <<>> THEN NoStep ELSE DecideOrphanStep(chains[Len(chains)].state)
     ELSE DecideRemediateStep(
            [maxAttempts |-> MaxAttempts, delivery |-> task, mixed |-> FALSE,
             chain |-> IF task.kind = "MARK" THEN LoadChain(task.chainId) ELSE None,
             request |-> workers[w].review.request, results |-> workers[w].review.results,
             turnId |-> workers[w].path.unit])

Decide(w) ==
  /\ At(w, "recorded")
  /\ Goes(w, [workers[w] EXCEPT !.stage = "decided", !.step = StepOf(w)])
  /\ UNCHANGED <<now, ghostVars, sessionVars, fileVars, modVars>>

\* Variant of Request: the user's delivery for every plain proposal.
RequestNotDowngraded(w) ==
  LET step == workers[w].step
      toChain == step.kind = "DELIVER"
  IN [unit |-> workers[w].path.unit, at |-> now, blank |-> FALSE,
      message |-> IF toChain THEN Mark(step.chainId, step.attempt, step.maxAttempts) ELSE Legacy,
      delivery |-> IF toChain THEN "agent" ELSE Delivery]

\* encodeProposalRequestFile: a chain's message always goes to the agent; a
\* plain proposal for a turn JevGuard itself opened goes to the user.
Request(w) ==
  LET step == workers[w].step
      toChain == step.kind = "DELIVER"
  IN [unit |-> workers[w].path.unit, at |-> now, blank |-> FALSE,
      message |-> IF toChain THEN Mark(step.chainId, step.attempt, step.maxAttempts) ELSE Legacy,
      delivery |-> IF toChain THEN "agent"
                   ELSE IF Unit(w).task # HumanTurn THEN "user" ELSE Delivery]

Ends(w, step) ==
  /\ chains' = Without(step.state.chainId)
  /\ chainLog' = chainLog \union {ChainEndOf(step, workers[w].path.unit)}

\* prepareProposal and settleChain: the request is written before the chain's
\* state, and taken back with the delivery when the state cannot be saved.
Settle(w) ==
  LET step == workers[w].step
      wanted == workers[w].review.request
      goes(proposed) == Goes(w, [workers[w] EXCEPT !.stage = "settled", !.proposed = proposed])
  IN /\ At(w, "decided")
     /\ \/ /\ step.kind \in {"STOP", "RESOLVED"}
           /\ Ends(w, step) /\ goes(FALSE)
           /\ UNCHANGED requests
        \/ /\ step.kind = "NONE" /\ ~wanted
           /\ goes(FALSE)
           /\ UNCHANGED <<requests, chains, chainLog>>
        \/ /\ step.kind = "NONE" /\ wanted
           /\ \/ requests' = requests \union {Request(w)} /\ goes(TRUE)
              \/ "write" \in Faults /\ goes(FALSE) /\ UNCHANGED requests
           /\ UNCHANGED <<chains, chainLog>>
        \/ /\ step.kind = "DELIVER"
           /\ requests' = requests \union {Request(w)} /\ goes(TRUE)
           /\ chains' = Append(Without(step.chainId), ChainFile(step.state))
           /\ UNCHANGED chainLog
        \/ /\ step.kind = "DELIVER" /\ "write" \in Faults
           /\ LET stop == AbandonDeliver(step, workers[w].review.results)
              IN IF stop = None THEN UNCHANGED <<chains, chainLog>> ELSE Ends(w, stop)
           /\ goes(FALSE)
           /\ UNCHANGED requests
     /\ UNCHANGED <<now, ghostVars, sessionVars, claimVars, recordVars, outcomes, modVars>>

\* Variant of Announce: the line promises a request that was not written.
AnnounceWanted(w) ==
  LET u == workers[w].path.unit
      step == workers[w].step
      next == [workers[w] EXCEPT !.stage = "drain", !.path = None, !.settings = "off",
                                 !.review = NoReview, !.step = NoStep, !.proposed = FALSE]
  IN /\ At(w, "settled")
     /\ \/ /\ feed' = Append(feed, [unit |-> u, proposal |-> workers[w].review.request])
           /\ UNCHANGED <<requests, chains, mishaps>>
        \/ /\ "feed" \in Faults
           /\ mishaps' = mishaps \union {"feed"}
           /\ IF workers[w].proposed
              THEN /\ requests' = {r \in requests : r.unit # u}
                   /\ chains' = IF step.kind = "DELIVER" THEN Without(step.chainId) ELSE chains
              ELSE UNCHANGED <<requests, chains>>
           /\ UNCHANGED feed
     /\ \/ claimed' = claimed \ {workers[w].path} /\ Goes(w, next)
        \/ /\ "remove" \in Faults
           /\ Goes(w, [next EXCEPT !.leftovers = @ \union {workers[w].path}])
           /\ UNCHANGED claimed
     /\ UNCHANGED <<now, killed, sessionVars, pending, history, outcomes, chainLog, modVars>>

\* The unit's feed line; without it the mod never learns of the request, which
\* is withdrawn with the chain.  Then the claim goes, now or at the end.
Announce(w) ==
  LET u == workers[w].path.unit
      step == workers[w].step
      next == [workers[w] EXCEPT !.stage = "drain", !.path = None, !.settings = "off",
                                 !.review = NoReview, !.step = NoStep, !.proposed = FALSE]
  IN /\ At(w, "settled")
     /\ \/ /\ feed' = Append(feed, [unit |-> u, proposal |-> workers[w].proposed])
           /\ UNCHANGED <<requests, chains, mishaps>>
        \/ /\ "feed" \in Faults
           /\ mishaps' = mishaps \union {"feed"}
           /\ IF workers[w].proposed
              THEN /\ requests' = {r \in requests : r.unit # u}
                   /\ chains' = IF step.kind = "DELIVER" THEN Without(step.chainId) ELSE chains
              ELSE UNCHANGED <<requests, chains>>
           /\ UNCHANGED feed
     /\ \/ claimed' = claimed \ {workers[w].path} /\ Goes(w, next)
        \/ /\ "remove" \in Faults
           /\ Goes(w, [next EXCEPT !.leftovers = @ \union {workers[w].path}])
           /\ UNCHANGED claimed
     /\ UNCHANGED <<now, killed, sessionVars, pending, history, outcomes, chainLog, modVars>>

\* retryLeftovers, and the worker exits.
Exit(w) ==
  /\ At(w, "retry")
  /\ \/ claimed' = claimed \ workers[w].leftovers
     \/ "remove" \in Faults /\ UNCHANGED claimed
  /\ Goes(w, Idle)
  /\ UNCHANGED <<now, ghostVars, sessionVars, pending, recordVars,
                 proposalVars, modVars>>

-----------------------------------------------------------------------------
(* The mod (register.ts).                                                   *)

\* A poll shows the lines it has not shown yet, in feed order.
ModShow ==
  \E i \in DOMAIN feed :
    /\ feed[i].unit \notin shown
    /\ \A j \in 1..(i - 1) : feed[j].unit \in shown
    /\ shown' = shown \union {feed[i].unit}
    /\ modQueue' = IF feed[i].proposal THEN Append(modQueue, feed[i].unit) ELSE modQueue
    /\ UNCHANGED <<now, ghostVars, workers, sessionVars, fileVars, modTask,
                   delivered, sent>>

\* takeRequest: the file is blanked before it is used; a missing, blank or
\* expired one ends the task without an outcome.
ModTake ==
  /\ modTask = None /\ modQueue # <<>>
  /\ modQueue' = Tail(modQueue)
  /\ LET mine == {r \in requests : r.unit = Head(modQueue) /\ ~r.blank}
     IN /\ requests' = (requests \ mine) \union {[r EXCEPT !.blank = TRUE] : r \in mine}
        /\ IF \E r \in mine : ~Expired(r)
           THEN modTask' = CHOOSE r \in mine : ~Expired(r)
           ELSE UNCHANGED modTask
  /\ UNCHANGED <<now, ghostVars, workers, sessionVars, claimVars, recordVars,
                 chains, outcomes, chainLog, shown, delivered, sent>>

\* writeOutcome: only for a chain, and contained when it fails.
Outcome(code) ==
  IF modTask.message = Legacy THEN UNCHANGED <<outcomes, mishaps>>
  ELSE \/ /\ UNCHANGED mishaps
          /\ outcomes' = {o \in outcomes : o.unit # modTask.unit} \union
                          {[unit |-> modTask.unit, code |-> code, at |-> now]}
       \/ /\ "outcome" \in Faults
          /\ mishaps' = mishaps \union {"outcome"}
          /\ UNCHANGED outcomes

\* Variant of ModFails: no outcome is written.
ModFailsSilently ==
  /\ modTask # None /\ "model" \in Faults
  /\ modTask' = None
  /\ UNCHANGED <<now, ghostVars, workers, sessionVars, claimVars, recordVars, requests,
                 chains, outcomes, chainLog, shown, modQueue, delivered, sent>>

ModFails ==
  /\ modTask # None /\ "model" \in Faults
  /\ Outcome("PROPOSAL_FAILED")
  /\ modTask' = None
  /\ UNCHANGED <<now, killed, workers, sessionVars, claimVars, recordVars, requests,
                 chains, chainLog, shown, modQueue, delivered, sent>>

\* deliver: to the user, refused by the limit or a changed session, or
\* counted and submitted; the host may refuse the message.
ModDeliver ==
  /\ modTask # None
  /\ modTask' = None
  /\ \/ /\ modTask.delivery = "user"
        /\ UNCHANGED <<outcomes, mishaps, delivered, sent, inbox>>
     \/ /\ modTask.delivery = "agent" /\ delivered >= SessionLimit
        /\ Outcome("SESSION_LIMIT")
        /\ UNCHANGED <<delivered, sent, inbox>>
     \/ /\ modTask.delivery = "agent" /\ delivered < SessionLimit /\ "session" \in Faults
        /\ Outcome("SESSION_CHANGED")
        /\ UNCHANGED <<delivered, sent, inbox>>
     \/ /\ modTask.delivery = "agent" /\ delivered < SessionLimit
        /\ delivered' = delivered + 1
        /\ \/ /\ sent' = Append(sent, [unit |-> modTask.unit, message |-> modTask.message])
              /\ inbox' = Append(inbox, modTask.message)
              /\ UNCHANGED <<outcomes, mishaps>>
           \/ /\ "submit" \in Faults /\ Outcome("DELIVERY_FAILED")
              /\ UNCHANGED <<sent, inbox>>
  /\ UNCHANGED <<now, killed, workers, userSent, units, claimVars, recordVars, requests,
                 chains, chainLog, shown, modQueue>>

\* register and baseline: what the feed already holds is not handled again.
ModReload ==
  /\ "reload" \in Faults
  /\ shown' = {feed[i].unit : i \in DOMAIN feed}
  /\ modQueue' = <<>> /\ modTask' = None
  /\ mishaps' = mishaps \union {"reload"}
  /\ UNCHANGED <<now, killed, workers, sessionVars, fileVars, delivered, sent>>

-----------------------------------------------------------------------------

WorkerStep(w) ==
  \/ DropAbandonedClaims(w) \/ SweepRead(w) \/ SweepApply(w) \/ RecordClosures(w)
  \/ List(w) \/ Claim(w) \/ EndPass(w) \/ Begin(w) \/ Review(w)
  \/ Decide(w) \/ Settle(w) \/ Announce(w) \/ Exit(w)

ModStep == ModShow \/ ModTake \/ ModFails \/ ModDeliver

Next ==
  \/ UserMessage \/ Tick \/ ModStep \/ ModReload
  \/ \E w \in Workers : CloseUnit(w) \/ SessionStart(w) \/ WorkerStep(w) \/ Dies(w)

Spec == Init /\ [][Next]_vars

(***************************************************************************)
(* A spawned worker is scheduled.  Nothing makes the user write, a turn    *)
(* end, the mod poll (it stops when it is not armed) or a worker die.      *)
(***************************************************************************)
FairSpec == Spec /\ \A w \in Workers : WF_vars(WorkerStep(w))

(***************************************************************************)
(* Properties                                                              *)
(***************************************************************************)

Units == DOMAIN units
ClaimedUnits == {c.unit : c \in claimed}
Proposed == {feed[i].unit : i \in {j \in DOMAIN feed : feed[j].proposal}}

TypeOK ==
  /\ now \in 0..MaxTime /\ userSent \in 0..MaxUserMessages /\ delivered \in 0..SessionLimit
  /\ pending \subseteq Units /\ ClaimedUnits \subseteq Units /\ killed \subseteq Units
  /\ \A c \in claimed : c.at \in 0..now
  /\ \A w \in Workers :
       /\ workers[w].since \in 0..now
       /\ workers[w].stage \in Holding => workers[w].path \in [unit : Units, at : 0..now]

\* A unit is recorded at most once, whatever workers run at the same time, die
\* or find claims left behind (run-worker.ts: "concurrent workers record each
\* unit at most once; a claim that outlives its worker is dropped, never
\* re-reviewed").
RecordedOnce == IsDistinct(history)

\* No unit disappears: it waits, is claimed, is in the history, or a worker
\* died while it held it.
NothingLost == Units \subseteq pending \union ClaimedUnits \union Elements(history) \union killed

\* Every unit is in the queue, in a worker's hands or in the history, once.
UnitsAccounted == TypeOK /\ RecordedOnce /\ NothingLost

\* A worker's claim stays in place, and its own, until the worker removes it:
\* another worker's cleanup never takes the claim of a worker that still runs.
LiveClaimKept ==
  \A w \in Workers : workers[w].stage \in Holding =>
    /\ workers[w].path \in claimed
    /\ \A v \in Workers \ {w} : workers[v].stage \in Holding => workers[v].path # workers[w].path

\* What JevGuard submits never feeds itself: a plain proposal is submitted
\* only in answer to a turn the user started, and the session's limit holds
\* (docs/configuration.md:803-808).
NoCascade ==
  /\ Len(sent) <= SessionLimit
  /\ \A i \in DOMAIN sent : sent[i].message = Legacy => units[sent[i].unit].task = HumanTurn

\* A proposal the feed announces is on disk until the mod takes it or it ages.
AnnouncedRequestWaits ==
  \A u \in Proposed :
    (u \notin shown \/ u \in Elements(modQueue)) =>
      (\E r \in requests : r.unit = u /\ ~r.blank) \/ now > FileTTL

\* A chain that has sent a message is still saved, or is recorded, or a worker
\* is about to record it: chains end by a record and never silently.  A worker
\* that dies and a feed line that cannot be written drop a chain unrecorded.
EveryChainAccounted ==
  mishaps \intersect {"crash", "feed"} = {} =>
  \A i \in DOMAIN sent : sent[i].message # Legacy =>
    LET id == sent[i].message.chainId
    IN \/ \E s \in SavedStates : s.chainId = id
       \/ \E w \in Workers : \E c \in workers[w].ended : c.state.chainId = id
       \/ \E r \in chainLog : r.chainId = id

\* Where the next event of the chain saved for turn u can come from.
InProgress(state) ==
  LET u == LastTurn(state)
      mark == Mark(state.chainId, state.attempts, MaxAttempts)
  IN \/ \E w \in Workers : At(w, "settled") /\ workers[w].path.unit = u
     \/ u \in Proposed \ shown
     \/ u \in Elements(modQueue)
     \/ modTask # None /\ modTask.unit = u
     \/ \E o \in outcomes : o.unit = u
     \/ mark \in Elements(inbox)
     \/ \E v \in Units : units[v].task = mark /\ v \in pending
     \/ \E w \in Workers : /\ workers[w].stage \in Holding \ {"settled"}
                           /\ units[workers[w].path.unit].task = mark

\* The reply to the chain's message came as a unit without a turn and ended
\* another chain, the newest one saved at the time (chainStepOf's orphan step).
Misplaced(state) ==
  \E r \in chainLog, v \in Units :
    /\ r.chainId # state.chainId /\ v \in Elements(r.turnIds)
    /\ units[v].task = Mark(state.chainId, state.attempts, MaxAttempts) /\ ~units[v].turn

\* A saved chain that has not aged out always has something that will continue
\* or end it, for as long as no worker died, the mod was not reloaded, its
\* outcomes were written and its replies held a turn or ended no other chain:
\* after one of these a chain waits until its file ages.
NoStrandedChain ==
  mishaps \intersect {"crash", "reload", "outcome"} = {} =>
    \A e \in Elements(chains) : Expired(e) \/ InProgress(e.state) \/ Misplaced(e.state)

\* Every chain that sent a message goes on, or its end is told.
ChainsAccounted == EveryChainAccounted /\ NoStrandedChain

\* Every closed unit is recorded in the end, unless a worker died on the way.
\* Stated where a worker can be spawned and a claim's rename succeeds.
EveryUnitRecorded ==
  \A u \in 1..(MaxUserMessages + SessionLimit) :
    (u \in Units) ~> (u \in Elements(history) \/ "crash" \in mishaps)
=============================================================================
