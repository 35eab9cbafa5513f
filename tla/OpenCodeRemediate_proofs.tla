----------------------- MODULE OpenCodeRemediate_proofs -----------------------
(***************************************************************************)
(* Theorems of OpenCodeRemediate: what the plugin keeps is coherent and    *)
(* within its caps, a chain makes one move at a time, RESOLVED is proven   *)
(* by the turns recorded, a session gets no more messages than its limit,  *)
(* and the scopes of a saved chain never shrink.                           *)
(*                                                                         *)
(* The argument follows the moves.  Whatever a chain's next decision can   *)
(* come from - a message waiting, an execution that carries one, a review  *)
(* of it, the next message in preparation - has a place; a step of the     *)
(* system carries what is in a place to another place, and never makes a   *)
(* second one of it.                                                       *)
(***************************************************************************)
EXTENDS OpenCodeRemediate, ListLemmas, FiniteSetTheorems

-----------------------------------------------------------------------------
(* What one decision of the core proves about a chain, for every review,    *)
(* state and limit: which of its answers are possible and when, that a      *)
(* state it makes is coherent when the one it came from was, that the       *)
(* scopes of a chain only grow, and that RESOLVED means every finding was   *)
(* judged and passed.                                                       *)

\* A state a chain could have saved, with the lists it is built from and
\* without the cap on the number of its findings.
WellMade(state) ==
  /\ DOMAIN state = {"chainId", "originIds", "signatures", "turnIds", "attempts", "scopes"}
  /\ state.originIds # {}
  /\ DOMAIN state.scopes = state.originIds
  /\ state.attempts \in 1..MAX_ATTEMPTS_CEILING
  /\ IsList(state.signatures)
  /\ Len(state.signatures) = state.attempts /\ IsDistinct(state.signatures)
  /\ IsList(state.turnIds)
  /\ Len(state.turnIds) = state.attempts /\ IsDistinct(state.turnIds)

LEMMA WellMadeIsCoherent ==
  ASSUME NEW state, WellMade(state), Cardinality(state.originIds) <= MAX_CHAIN_ORIGINS
  PROVE  Coherent(state)
BY DEF WellMade, Coherent

\* In a sound review the scope of a finding is that of its one result.
LEMMA ScopeOfResult ==
  ASSUME NEW results, SoundReview(results), NEW ids, NEW r \in ResultSet(results), r.id \in ids
  PROVE  /\ r.id \in DOMAIN ScopesOf(results, ids)
         /\ ScopesOf(results, ids)[r.id] = r.paths
         /\ DOMAIN ScopesOf(results, ids) \subseteq ids
<1>1. PICK i \in DOMAIN results : r = results[i]
  BY DEF ResultSet
<1>2. DOMAIN results = 1..Len(results) /\ Len(results) \in Nat
  BY LenProperties DEF SoundReview
<1>3. \A j \in DOMAIN results : results[j].id = r.id => j = i
  BY <1>1 DEF SoundReview
<1> DEFINE last == CHOOSE k \in DOMAIN results :
                     /\ results[k].id = r.id
                     /\ \A j \in DOMAIN results : results[j].id = r.id => j <= k
<1>4. \E k \in DOMAIN results :
        /\ results[k].id = r.id
        /\ \A j \in DOMAIN results : results[j].id = r.id => j <= k
  <2>1. \A j \in DOMAIN results : results[j].id = r.id => j <= i
    BY <1>2, <1>3
  <2> QED BY <1>1, <2>1
<1>5. last = i
  BY <1>3, <1>4
<1>6. r.id \in {id \in ids : \E k \in DOMAIN results : results[k].id = id}
  BY <1>1
<1>7. ScopesOf(results, ids)[r.id] = results[last].paths
  BY <1>6 DEF ScopesOf
<1>8. DOMAIN ScopesOf(results, ids) = {id \in ids : \E k \in DOMAIN results : results[k].id = id}
  BY DEF ScopesOf
<1> QED BY <1>1, <1>5, <1>6, <1>7, <1>8

LEMMA SingletonList ==
  ASSUME NEW x
  PROVE  /\ IsList(<<x>>) /\ Len(<<x>>) = 1 /\ IsDistinct(<<x>>)
         /\ Members(<<x>>) = {x}
<1>1. <<x>> \in Seq({x}) /\ Len(<<x>>) = 1 /\ <<x>>[1] = x
  OBVIOUS
<1>2. DOMAIN <<x>> = 1..1 /\ IsList(<<x>>)
  BY <1>1, ListOfSeq
<1> QED BY <1>1, <1>2 DEF IsDistinct, Members

LEMMA DistinctAppend ==
  ASSUME NEW s, IsList(s), IsDistinct(s), NEW x, x \notin Members(s)
  PROVE  IsDistinct(Append(s, x))
<1> DEFINE t == Append(s, x)
<1>1. /\ Len(s) \in Nat /\ DOMAIN s = 1..Len(s) /\ DOMAIN t = 1..(Len(s) + 1)
      /\ \A i \in 1..Len(s) : t[i] = s[i]
      /\ t[Len(s) + 1] = x
  BY AppendList
<1>2. \A i \in DOMAIN s : s[i] # x
  BY DEF Members
<1> HIDE DEF t
<1>3. \A i, j \in DOMAIN t : t[i] = t[j] => i = j
  <2> TAKE i, j \in DOMAIN t
  <2>1. (i \in DOMAIN s \/ i = Len(s) + 1) /\ (j \in DOMAIN s \/ j = Len(s) + 1)
    BY <1>1
  <2> QED BY <2>1, <1>1, <1>2 DEF IsDistinct
<1> QED BY <1>3 DEF IsDistinct, t

-----------------------------------------------------------------------------

\* A chain starts only from a turn that failed, with one attempt and a scope
\* for exactly the findings that failed.
LEMMA StartIsWellMade ==
  ASSUME NEW in, SoundReview(in.results),
         NEW failures, failures = ChainFailures(in.results),
         NEW step, step = StartOf(in, failures), step # NoStep
  PROVE  /\ step.kind = "DELIVER"
         /\ step.chainId = in.turnId /\ step.attempt = 1 /\ step.maxAttempts = in.maxAttempts
         /\ WellMade(step.state)
         /\ step.state.chainId = in.turnId /\ step.state.attempts = 1
         /\ Members(step.state.turnIds) = {in.turnId}
         /\ step.state.originIds = FailureIds(failures)
<1> DEFINE state == [chainId |-> in.turnId, originIds |-> FailureIds(failures),
                     signatures |-> <<failures>>, turnIds |-> <<in.turnId>>,
                     attempts |-> 1, scopes |-> ScopesOf(in.results, FailureIds(failures))]
<1>1. step = Deliver(in.maxAttempts, failures, state) /\ failures # {}
  BY DEF StartOf
<1>2. FailureIds(failures) # {}
  BY <1>1 DEF FailureIds
<1>3. DOMAIN state.scopes = FailureIds(failures)
  <2>1. DOMAIN ScopesOf(in.results, FailureIds(failures)) \subseteq FailureIds(failures)
    BY DEF ScopesOf
  <2>2. ASSUME NEW id \in FailureIds(failures)
        PROVE  id \in DOMAIN ScopesOf(in.results, FailureIds(failures))
    <3>1. PICK r \in ResultSet(in.results) : r.id = id
      BY <2>2 DEF FailureIds, ChainFailures
    <3> QED BY <3>1, <2>2, ScopeOfResult
  <2> QED BY <2>1, <2>2
<1>4. WellMade(state)
  <2>1. 1 \in 1..MAX_ATTEMPTS_CEILING
    BY DEF MAX_ATTEMPTS_CEILING
  <2>2. IsList(<<failures>>) /\ Len(<<failures>>) = 1 /\ IsDistinct(<<failures>>)
    BY SingletonList
  <2>3. IsList(<<in.turnId>>) /\ Len(<<in.turnId>>) = 1 /\ IsDistinct(<<in.turnId>>)
    BY SingletonList
  <2> HIDE DEF state
  <2>4. /\ state.originIds = FailureIds(failures) /\ state.attempts = 1
        /\ state.signatures = <<failures>> /\ state.turnIds = <<in.turnId>>
        /\ DOMAIN state = {"chainId", "originIds", "signatures", "turnIds", "attempts", "scopes"}
    BY DEF state
  <2> QED BY <2>1, <2>2, <2>3, <2>4, <1>2, <1>3 DEF WellMade
<1>5. Members(<<in.turnId>>) = {in.turnId}
  BY SingletonList
<1> QED BY <1>1, <1>4, <1>5 DEF Deliver

\* Another attempt leaves the chain's findings alone, adds one signature and
\* one turn, and its scopes hold all that the older ones did.
LEMMA AdvancedIsWellMade ==
  ASSUME NEW in, SoundReview(in.results),
         NEW state, WellMade(state), state.attempts < MAX_ATTEMPTS_CEILING,
         NEW failures, ~Seen(state, failures), in.turnId \notin Members(state.turnIds),
         ~HasUnverifiedOrigin(state, in.results),
         NEW next, next = Advanced(state, in, failures)
  PROVE  /\ WellMade(next)
         /\ next.chainId = state.chainId /\ next.originIds = state.originIds
         /\ next.attempts = state.attempts + 1
         /\ Members(next.turnIds) = Members(state.turnIds) \union {in.turnId}
         /\ \A id \in DOMAIN state.scopes :
              id \in DOMAIN next.scopes /\ state.scopes[id] \subseteq next.scopes[id]
<1> DEFINE newer == ScopesOf(in.results, state.originIds)
           scopes == [id \in DOMAIN state.scopes \union DOMAIN newer |->
                        IF id \in DOMAIN newer THEN newer[id] ELSE state.scopes[id]]
<1>1. DOMAIN newer \subseteq state.originIds
  BY DEF ScopesOf
<1>2. /\ next.chainId = state.chainId /\ next.originIds = state.originIds
      /\ next.signatures = Append(state.signatures, failures)
      /\ next.turnIds = Append(state.turnIds, in.turnId)
      /\ next.attempts = state.attempts + 1
      /\ next.scopes = scopes
      /\ DOMAIN next = DOMAIN state
  BY DEF Advanced, WellMade
<1>3. DOMAIN scopes = state.originIds
  BY <1>1 DEF WellMade
<1>4. failures \notin Members(state.signatures)
  BY DEF Seen, Members
<1>5. /\ IsList(next.signatures) /\ Len(next.signatures) = state.attempts + 1
      /\ IsDistinct(next.signatures)
  BY <1>2, <1>4, AppendList, DistinctAppend DEF WellMade
<1>6. /\ IsList(next.turnIds) /\ Len(next.turnIds) = state.attempts + 1
      /\ IsDistinct(next.turnIds)
      /\ Members(next.turnIds) = Members(state.turnIds) \union {in.turnId}
  BY <1>2, AppendList, DistinctAppend DEF WellMade
<1>7. state.attempts + 1 \in 1..MAX_ATTEMPTS_CEILING
  BY DEF WellMade, MAX_ATTEMPTS_CEILING
<1>8. WellMade(next)
  <2>1. DOMAIN next.scopes = next.originIds
    BY <1>2, <1>3
  <2> HIDE DEF scopes
  <2> QED BY <1>2, <1>5, <1>6, <1>7, <2>1 DEF WellMade
<1>9. ASSUME NEW id \in DOMAIN state.scopes
      PROVE  id \in DOMAIN scopes /\ state.scopes[id] \subseteq scopes[id]
  <2>1. id \in state.originIds
    BY <1>9 DEF WellMade
  <2>2. PICK r \in Judged(id, in.results) : TRUE
    BY <2>1 DEF HasUnverifiedOrigin
  <2>3. r \in ResultSet(in.results) /\ r.id = id
    BY <2>2 DEF Judged
  <2>4. ~Narrowed(state.scopes, id, r.paths)
    BY <2>1, <2>2 DEF HasUnverifiedOrigin
  <2>5. state.scopes[id] \subseteq r.paths
    BY <2>4, <1>9 DEF Narrowed
  <2>6. id \in DOMAIN newer /\ newer[id] = r.paths
    BY <2>1, <2>3, ScopeOfResult
  <2>7. scopes[id] = newer[id]
    BY <2>6, <1>9
  <2> QED BY <2>5, <2>6, <2>7, <1>9
<1> HIDE DEF scopes, newer
<1> QED BY <1>2, <1>6, <1>8, <1>9

\* A review without a failure that leaves no finding unverified resolves every
\* finding of the chain.
LEMMA ResolvedAll ==
  ASSUME NEW results, SoundReview(results), ChainFailures(results) = {},
         NEW state, ~HasUnverifiedOrigin(state, results)
  PROVE  ResolvedIds(state, results) = state.originIds
<1>1. ASSUME NEW id \in state.originIds
      PROVE  id \in ResolvedIds(state, results)
  <2>1. Judged(id, results) # {} /\ \A r \in Judged(id, results) : ~Narrowed(state.scopes, id, r.paths)
    BY <1>1 DEF HasUnverifiedOrigin
  <2>2. ASSUME NEW r \in Judged(id, results)
        PROVE  r.outcome = "PASS"
    <3>1. r \in ResultSet(results) /\ r.outcome \in {"PASS", "FAIL"}
      BY <2>2 DEF Judged
    <3>2. r.outcome # "FAIL"
      <4>1. SUFFICES ASSUME r.outcome = "FAIL" PROVE FALSE
        OBVIOUS
      <4>2. r.builtIn \/ r.error
        BY <4>1, <3>1 DEF SoundReview
      <4>3. [id |-> r.id, paths |-> r.paths] \in ChainFailures(results)
        BY <4>1, <4>2, <3>1 DEF ChainFailures
      <4> QED BY <4>3
    <3> QED BY <3>1, <3>2
  <2> QED BY <2>1, <2>2 DEF ResolvedIds
<1> QED BY <1>1 DEF ResolvedIds

-----------------------------------------------------------------------------

\* The answers of the core in mode remediate, and what each one tells: a chain
\* starts at a human turn, a chain that stops is the one the mark names, and a
\* chain that resolves or goes on had its last message judged by this turn.
LEMMA StepCases ==
  ASSUME NEW in, in.delivery # Legacy,
         in.mixed => in.delivery # HumanTurn,
         DOMAIN in = {"maxAttempts", "delivery", "chain", "request", "results", "turnId", "mixed"},
         NEW failures, failures = ChainFailures(in.results),
         NEW step, step = DecideRemediateStep(in)
  PROVE  \/ step = NoStep
         \/ step.kind = "STOP" /\ step.code # "RESOLVED"
         \/ /\ in.delivery # HumanTurn /\ in.chain # None
            /\ in.chain.attempts = in.delivery.attempt
            /\ ~HasUnverifiedOrigin(in.chain, in.results)
            /\ failures = {}
            /\ step = Resolved(in.chain, ChainIdsOf(in.chain, in.results))
         \/ /\ in.delivery = HumanTurn
            /\ step # NoStep
            /\ step = StartOf(in, failures)
         \/ /\ in.delivery # HumanTurn /\ in.chain # None
            /\ in.chain.attempts = in.delivery.attempt
            /\ ~HasUnverifiedOrigin(in.chain, in.results)
            /\ ~Seen(in.chain, failures)
            /\ ~(in.chain.attempts >= in.maxAttempts)
            /\ step = Deliver(in.maxAttempts, failures, Advanced(in.chain, in, failures))
<1> DEFINE asked == [in EXCEPT !.request = in.request /\ ~in.mixed]
<1>1. /\ asked.delivery = in.delivery /\ asked.chain = in.chain /\ asked.results = in.results
      /\ asked.turnId = in.turnId /\ asked.maxAttempts = in.maxAttempts
      /\ asked.request <=> (in.request /\ ~in.mixed)
  OBVIOUS
<1> HIDE DEF asked
<1>2. CASE in.mixed /\ in.chain # None
  BY <1>2 DEF DecideRemediateStep, DecideOrphanStep, Stop
<1>3. CASE ~(in.mixed /\ in.chain # None)
  <2>1. step = DecideChainStep(asked, "remediate")
    BY <1>3 DEF DecideRemediateStep, asked
  <2>2. CASE in.delivery = HumanTurn
    <3>1. step = StartOf(asked, failures)
      BY <2>1, <2>2, <1>1 DEF DecideChainStep
    <3>2. StartOf(asked, failures) = StartOf(in, failures)
      BY <1>1, <2>2 DEF StartOf
    <3> QED BY <3>1, <3>2, <2>2
  <2>3. CASE in.delivery # HumanTurn /\ in.chain = None
    <3>1. step = UnverifiedWithoutState(in.delivery, None)
      BY <2>1, <2>3, <1>1 DEF DecideChainStep
    <3> QED BY <3>1 DEF UnverifiedWithoutState, Stop
  <2>4. CASE /\ in.delivery # HumanTurn /\ in.chain # None
             /\ \/ in.chain.chainId # in.delivery.chainId
                \/ in.chain.attempts # in.delivery.attempt
    <3>1. step = UnverifiedWithoutState(in.delivery, in.chain)
      BY <2>1, <2>4, <1>1 DEF DecideChainStep
    <3> QED BY <3>1 DEF UnverifiedWithoutState, Stop
  <2>5. CASE /\ in.delivery # HumanTurn /\ in.chain # None
             /\ in.chain.chainId = in.delivery.chainId
             /\ in.chain.attempts = in.delivery.attempt
    <3>1. step = Continuation(asked, in.chain, failures)
      BY <2>1, <2>5, <1>1 DEF DecideChainStep
    <3>2. Advanced(in.chain, asked, failures) = Advanced(in.chain, in, failures)
      BY <1>1 DEF Advanced
    <3>3. \/ step.kind = "STOP" /\ step.code # "RESOLVED"
          \/ /\ ~HasUnverifiedOrigin(in.chain, in.results) /\ failures = {}
             /\ step = Resolved(in.chain, ChainIdsOf(in.chain, in.results))
          \/ /\ ~HasUnverifiedOrigin(in.chain, in.results) /\ ~Seen(in.chain, failures)
             /\ ~(in.chain.attempts >= in.maxAttempts)
             /\ step = Deliver(in.maxAttempts, failures, Advanced(in.chain, asked, failures))
      BY <3>1, <1>1 DEF Continuation, Stop
    <3> QED BY <2>5, <3>2, <3>3
  <2> QED BY <2>2, <2>3, <2>4, <2>5
<1> QED BY <1>2, <1>3

-----------------------------------------------------------------------------
(* The places of a chain's moves.                                          *)

\* Place p holds the execution of turn t, which took inputs in session s and
\* is not decided yet: it runs, has ended, waits for attribution or review.
InFlight(p, s, t, inputs) ==
  \/ /\ s \in Sessions /\ running[s] # None
     /\ p = <<"run", s, 0>>
     /\ t = running[s].turn /\ inputs = running[s].inputs
  \/ \E i \in DOMAIN events :
       /\ events[i].kind # "STARTED" /\ s = events[i].session
       /\ p = <<"event", i, 0>>
       /\ t = events[i].exec.turn /\ inputs = events[i].exec.inputs
  \/ \E i \in DOMAIN tasks :
       /\ tasks[i].kind # "STARTED" /\ s = tasks[i].session
       /\ p = <<"task", i, 0>>
       /\ t = tasks[i].exec.turn /\ inputs = tasks[i].exec.inputs
  \/ \E job \in jobs :
       /\ job.stage = "reviewing" /\ s = job.session
       /\ p = <<"job", job, 0>>
       /\ t = job.turn /\ inputs = job.inputs

\* No execution of turn t is in flight any more.
Decided(t) == t \in 1..turnCount /\ \A p, s, inputs : ~InFlight(p, s, t, inputs)

\* Some input is the nth message of chain c.
CarriesNth(inputs, c, n) ==
  \E i \in DOMAIN inputs : IsMarkOf(inputs[i], c) /\ inputs[i].attempt = n

Pending(job) == job.stage \in {"drafting", "prompting"}

\* Place p holds what comes next for chain c, n messages of which were sent,
\* all in session s.
Move(p, c, n, s) ==
  \/ \E i \in DOMAIN inbox[s] :
       /\ s \in Sessions /\ p = <<"inbox", s, i>>
       /\ IsMarkOf(inbox[s][i], c) /\ n = inbox[s][i].attempt
  \/ \E t, inputs : InFlight(p, s, t, inputs) /\ CarriesNth(inputs, c, n)
  \/ \E job \in jobs :
       /\ Pending(job) /\ s = job.session
       /\ p = <<"job", job, 0>>
       /\ c = job.step.chainId /\ n = job.step.attempt - 1

-----------------------------------------------------------------------------
(* The inductive invariant.                                                 *)

ExecOK(exec) ==
  exec.turn \in TurnIds /\ IsList(exec.inputs) /\ Members(exec.inputs) \subseteq Messages

EventOK(e) == e.kind \in EndKinds \union {"STARTED"} /\ e.session \in Sessions /\ ExecOK(e.exec)

HostInv ==
  /\ turnCount \in Nat
  /\ DOMAIN inbox = Sessions /\ DOMAIN running = Sessions
  /\ \A s \in Sessions :
       /\ IsList(inbox[s]) /\ Members(inbox[s]) \subseteq Messages
       /\ running[s] # None => DOMAIN running[s] = {"turn", "inputs"} /\ ExecOK(running[s])
  /\ IsList(events) /\ IsList(tasks)
  /\ \A i \in DOMAIN events : EventOK(events[i])
  /\ \A i \in DOMAIN tasks : EventOK(tasks[i])
  /\ userSent \in [Sessions -> 0..MaxUserMessages]
  /\ openExecutions \subseteq Sessions

\* An execution is in one place at a time.
FlightInv ==
  \A t, p, s, inputs, q, u, others :
    InFlight(p, s, t, inputs) /\ InFlight(q, u, t, others) => p = q

\* So is a chain, and what comes next for it knows how many messages were sent.
MoveInv ==
  /\ \A c, p, n, s, q, m, u : Move(p, c, n, s) /\ Move(q, c, m, u) => p = q
  /\ \A c, p, n, s :
       Move(p, c, n, s) =>
         /\ Decided(c)
         /\ n = Cardinality(SentAt(c))
         /\ \A i \in SentAt(c) : sent[i].session = s

SentInv ==
  /\ IsList(sent) /\ Members(sent) \subseteq [session : Sessions, mark : Marks]
  /\ \A i \in DOMAIN sent : Decided(sent[i].mark.chainId)
  /\ \A c : \A i \in SentAt(c) :
       /\ sent[i].mark.attempt = Cardinality({j \in SentAt(c) : j <= i})
       /\ \A j \in SentAt(c) : sent[j].session = sent[i].session

\* No review fails more findings than a saved chain may have.
FewFindings ==
  \A results \in Reviews : Cardinality(FailureIds(ChainFailures(results))) <= MAX_CHAIN_ORIGINS

StateOK(state) ==
  /\ WellMade(state)
  /\ state.attempts <= MaxAttempts
  /\ Decided(state.chainId)
  /\ \A t \in Members(state.turnIds) : Decided(t)
  /\ FewFindings => Cardinality(state.originIds) <= MAX_CHAIN_ORIGINS

\* A saved-chains list holds one entry for each chain.
OnePerChain(cs) ==
  /\ IsList(cs)
  /\ \A i, j \in DOMAIN cs : cs[i].state.chainId = cs[j].state.chainId => i = j

ChainsInv ==
  /\ OnePerChain(chains)
  /\ Len(chains) <= MaxActiveChains
  /\ \A e \in Members(chains) : StateOK(e.state)

ScopesWithin(older, newer) ==
  \A id \in DOMAIN older.scopes : older.scopes[id] \subseteq newer.scopes[id]

StepOK(step) ==
  /\ step.kind = "DELIVER"
  /\ step.chainId = step.state.chainId /\ step.attempt = step.state.attempts
  /\ step.maxAttempts = MaxAttempts
  /\ StateOK(step.state)

JobOK(job) ==
  /\ DOMAIN job = {"turn", "session", "inputs", "stage", "step"}
  /\ job.stage \in {"reviewing", "drafting", "prompting"} /\ job.session \in Sessions
  /\ ExecOK(job)
  /\ Pending(job) => StepOK(job.step)
  /\ job.stage = "drafting" =>
       \A e \in Members(chains) :
         e.state.chainId = job.step.chainId => ScopesWithin(e.state, job.step.state)

JobsInv == IsFiniteSet(jobs) /\ \A job \in jobs : JobOK(job)

LogInv == IsList(chainLog) /\ ResolvedMeansProven

\* The deliveries counted for a session: its messages sent, and those decided.
SentTo(s) == {i \in DOMAIN sent : sent[i].session = s}
PendingFor(s) == {job \in jobs : Pending(job) /\ job.session = s}

FewSessions == Cardinality(Sessions) <= MaxCountedSessions

CountsInv ==
  /\ IsList(deliveries) /\ Len(deliveries) <= MaxCountedSessions
  /\ \A d \in Members(deliveries) : d.session \in Sessions /\ d.count \in 0..SessionLimit
  /\ \A i, j \in DOMAIN deliveries : deliveries[i].session = deliveries[j].session => i = j
  /\ FewSessions =>
       \A s \in Sessions :
         Cardinality(SentTo(s)) + Cardinality(PendingFor(s)) <= DeliveredCount(s)

IInv ==
  /\ HostInv /\ FlightInv /\ MoveInv /\ SentInv
  /\ ChainsInv /\ JobsInv /\ LogInv /\ CountsInv

-----------------------------------------------------------------------------
(* What a step that starts no execution, or one, keeps.                     *)

LEMMA ElementsAreMembers == \A s : Elements(s) = Members(s)
BY DEF Elements, Members

\* Ids and messages stay good as executions are counted.
LEMMA TurnIdsGrow ==
  ASSUME turnCount \in Nat, turnCount' \in Nat, turnCount <= turnCount'
  PROVE  /\ TurnIds \subseteq TurnIds' /\ Marks \subseteq Marks' /\ Messages \subseteq Messages'
         /\ \A exec : ExecOK(exec) => ExecOK(exec)'
         /\ \A e : EventOK(e) => EventOK(e)'
<1>1. TurnIds \subseteq TurnIds'
  BY DEF TurnIds
<1>2. Marks \subseteq Marks'
  BY <1>1 DEF Marks
<1>3. Messages \subseteq Messages'
  BY <1>2 DEF Messages
<1>4. \A exec : ExecOK(exec) => ExecOK(exec)'
  BY <1>1, <1>3 DEF ExecOK
<1>5. \A e : EventOK(e) => EventOK(e)'
  BY <1>4 DEF EventOK
<1> QED BY <1>1, <1>2, <1>3, <1>4, <1>5

\* Each execution in flight was so before, or is a new one.
FlightKept ==
  \A p, s, t, inputs :
    InFlight(p, s, t, inputs)' =>
      \/ t = turnCount + 1 /\ turnCount' = turnCount + 1
      \/ \E q, u, others : InFlight(q, u, t, others)

LEMMA DecidedStays ==
  ASSUME turnCount \in Nat, turnCount' \in {turnCount, turnCount + 1}, FlightKept
  PROVE  /\ \A c : Decided(c) => Decided(c)'
         /\ \A state : StateOK(state) => StateOK(state)'
         /\ \A step : StepOK(step) => StepOK(step)'
<1>1. ASSUME NEW c, Decided(c)
      PROVE  Decided(c)'
  <2>1. c \in 1..turnCount' /\ c # turnCount + 1
    BY <1>1 DEF Decided
  <2>2. ASSUME NEW p, NEW s, NEW inputs, InFlight(p, s, c, inputs)'
        PROVE  FALSE
    BY <2>2, <2>1, <1>1 DEF FlightKept, Decided
  <2> QED BY <2>1, <2>2 DEF Decided
<1>2. \A state : StateOK(state) => StateOK(state)'
  BY <1>1 DEF StateOK
<1>3. \A step : StepOK(step) => StepOK(step)'
  BY <1>2 DEF StepOK
<1> QED BY <1>1, <1>2, <1>3

\* Each next move of a chain was there before, in one place still.
MovesKept ==
  /\ \A p, c, n, s : Move(p, c, n, s)' => \E q : Move(q, c, n, s)
  /\ \A c, p, n, s, q, m, u : Move(p, c, n, s)' /\ Move(q, c, m, u)' => p = q

LEMMA MoveInvKept ==
  ASSUME IInv, turnCount' \in {turnCount, turnCount + 1}, FlightKept, MovesKept, sent' = sent
  PROVE  MoveInv'
<1>1. \A c : Decided(c) => Decided(c)'
  BY DecidedStays DEF IInv, HostInv
<1>2. \A c : SentAt(c)' = SentAt(c)
  BY DEF SentAt
<1>3. ASSUME NEW c, NEW p, NEW n, NEW s, Move(p, c, n, s)'
      PROVE  /\ Decided(c)'
             /\ n = Cardinality(SentAt(c))
             /\ \A i \in SentAt(c) : sent[i].session = s
  <2>1. PICK q : Move(q, c, n, s)
    BY <1>3 DEF MovesKept
  <2> QED BY <2>1, <1>1 DEF IInv, MoveInv
<1>4. ASSUME NEW c, NEW p, NEW n, NEW s, Move(p, c, n, s)'
      PROVE  (/\ Decided(c)
              /\ n = Cardinality(SentAt(c))
              /\ \A i \in SentAt(c) : sent[i].session = s)'
  BY <1>2, <1>3, <1>4
<1> QED BY <1>4 DEF MoveInv, MovesKept

LEMMA SentInvKept ==
  ASSUME IInv, turnCount' \in {turnCount, turnCount + 1}, FlightKept, sent' = sent
  PROVE  SentInv'
<1>1. \A c : Decided(c) => Decided(c)'
  BY DecidedStays DEF IInv, HostInv
<1>2. \A c : SentAt(c)' = SentAt(c)
  BY DEF SentAt
<1>3. Marks \subseteq Marks'
  BY TurnIdsGrow DEF IInv, HostInv
<1>4. \A i \in DOMAIN sent : \A c : c = sent'[i].mark.chainId => Decided(c)'
  BY <1>1 DEF IInv, SentInv
<1>5. Members(sent)' \subseteq [session : Sessions, mark : Marks]'
  BY <1>3 DEF IInv, SentInv
<1>6. (\A c : \A i \in SentAt(c) :
         /\ sent[i].mark.attempt = Cardinality({j \in SentAt(c) : j <= i})
         /\ \A j \in SentAt(c) : sent[j].session = sent[i].session)'
  BY <1>2 DEF IInv, SentInv
<1>7. (\A i \in DOMAIN sent : Decided(sent[i].mark.chainId))'
  BY <1>4
<1>8. IsList(sent)'
  BY DEF IInv, SentInv
<1> QED BY <1>5, <1>6, <1>7, <1>8 DEF SentInv

LEMMA ChainsInvKept ==
  ASSUME IInv, turnCount' \in {turnCount, turnCount + 1}, FlightKept, chains' = chains
  PROVE  ChainsInv'
<1>1. \A state : StateOK(state) => StateOK(state)'
  BY DecidedStays DEF IInv, HostInv
<1> QED BY <1>1 DEF IInv, ChainsInv

\* A job that was there stays good when no chain is saved anew.
LEMMA JobStaysOK ==
  ASSUME IInv, turnCount' \in {turnCount, turnCount + 1}, FlightKept,
         Members(chains)' \subseteq Members(chains)
  PROVE  \A job : JobOK(job) => JobOK(job)'
<1>1. \A step : StepOK(step) => StepOK(step)'
  BY DecidedStays DEF IInv, HostInv
<1>2. \A exec : ExecOK(exec) => ExecOK(exec)'
  BY TurnIdsGrow DEF IInv, HostInv
<1>3. \A e : e \in Members(chains)' => e \in Members(chains)
  OBVIOUS
<1> HIDE DEF IInv
<1> QED BY <1>1, <1>2, <1>3 DEF JobOK, Pending

LEMMA LogInvKept ==
  ASSUME IInv, chainLog' = chainLog, sent' = sent
  PROVE  LogInv'
<1>1. \A c : SentAt(c)' = SentAt(c)
  BY DEF SentAt
<1> QED BY <1>1 DEF IInv, LogInv, ResolvedMeansProven

LEMMA CountsInvKept ==
  ASSUME IInv, deliveries' = deliveries, sent' = sent, jobs' = jobs
  PROVE  CountsInv'
<1>1. \A s : SentTo(s)' = SentTo(s) /\ PendingFor(s)' = PendingFor(s) /\ DeliveredCount(s)' = DeliveredCount(s)
  BY DEF SentTo, PendingFor, DeliveredCount, Elements
<1> QED BY <1>1 DEF IInv, CountsInv

\* A step of the host or of the event loop decides nothing.
LEMMA HostStepKeeps ==
  ASSUME IInv, turnCount' \in {turnCount, turnCount + 1}, FlightKept, MovesKept,
         HostInv', FlightInv',
         jobs' = jobs, chains' = chains, deliveries' = deliveries,
         chainLog' = chainLog, sent' = sent
  PROVE  IInv'
<1>1. MoveInv' /\ SentInv' /\ ChainsInv' /\ LogInv' /\ CountsInv'
  BY MoveInvKept, SentInvKept, ChainsInvKept, LogInvKept, CountsInvKept
<1>2. JobsInv'
  <2>1. \A job : JobOK(job) => JobOK(job)'
    BY JobStaysOK
  <2> QED BY <2>1 DEF IInv, JobsInv
<1> QED BY <1>1, <1>2 DEF IInv

\* What is in flight is a good execution of a session.
LEMMA InFlightTyped ==
  ASSUME IInv, NEW p, NEW s, NEW t, NEW inputs, InFlight(p, s, t, inputs)
  PROVE  /\ s \in Sessions /\ t \in 1..turnCount
         /\ IsList(inputs) /\ Members(inputs) \subseteq Messages
BY DEF InFlight, IInv, HostInv, JobsInv, JobOK, EventOK, ExecOK, TurnIds

-----------------------------------------------------------------------------
(* The initial state.                                                       *)

LEMMA InitIsGood == Init => IInv
<1> SUFFICES ASSUME Init PROVE IInv
  OBVIOUS
<1> USE DEF Init
<1>1. /\ IsList(<<>>) /\ Members(<<>>) = {} /\ Len(<<>>) = 0 /\ DOMAIN <<>> = {}
      /\ MaxActiveChains \in Nat /\ MaxCountedSessions \in Nat /\ MaxUserMessages \in Nat
  BY EmptyList, RemediateAssumption
<1>2. \A p, s, t, inputs : ~InFlight(p, s, t, inputs)
  BY <1>1 DEF InFlight
<1>3. \A p, c, n, s : ~Move(p, c, n, s)
  BY <1>1, <1>2 DEF Move
<1>4. HostInv
  BY <1>1 DEF HostInv
<1>5. FlightInv /\ MoveInv
  BY <1>2, <1>3 DEF FlightInv, MoveInv
<1>6. SentInv
  BY <1>1 DEF SentInv, SentAt
<1>7. ChainsInv
  <2>1. Members(chains) = {} /\ DOMAIN chains = {} /\ Len(chains) <= MaxActiveChains
    BY <1>1, RemediateAssumption
  <2> QED BY <1>1, <2>1 DEF ChainsInv, OnePerChain
<1>8. JobsInv
  BY FS_EmptySet DEF JobsInv
<1>9. LogInv
  BY <1>1 DEF LogInv, ResolvedMeansProven
<1>10. CountsInv
  <2>1. \A s : SentTo(s) = {} /\ PendingFor(s) = {} /\ DeliveredCount(s) = 0
    BY <1>1 DEF SentTo, PendingFor, DeliveredCount, Elements
  <2>2. Cardinality({}) = 0
    BY FS_EmptySet
  <2>3. \A s : Cardinality(SentTo(s)) + Cardinality(PendingFor(s)) <= DeliveredCount(s)
    <3> TAKE s
    <3>1. Cardinality(SentTo(s)) = 0 /\ Cardinality(PendingFor(s)) = 0 /\ DeliveredCount(s) = 0
      BY <2>1, <2>2
    <3>2. 0 + 0 <= 0
      OBVIOUS
    <3> QED BY <3>1, <3>2
  <2>4. /\ IsList(deliveries) /\ Members(deliveries) = {} /\ DOMAIN deliveries = {}
        /\ Len(deliveries) <= MaxCountedSessions
    BY <1>1, RemediateAssumption
  <2> QED BY <2>3, <2>4, Zenon DEF CountsInv
<1> QED BY <1>4, <1>5, <1>6, <1>7, <1>8, <1>9, <1>10 DEF IInv

-----------------------------------------------------------------------------
(* The steps of the user, the host and the event loop.                      *)

LEMMA UserMessageKeeps ==
  ASSUME IInv, NEW s0 \in Sessions, UserMessage(s0)
  PROVE  IInv'
<1> USE DEF UserMessage, pluginVars
<1>1. /\ IsList(inbox[s0]) /\ Members(inbox[s0]) \subseteq Messages
      /\ HumanTurn \in Messages /\ turnCount \in Nat
  BY DEF IInv, HostInv, Messages
<1>2. /\ \A s \in Sessions \ {s0} : inbox'[s] = inbox[s]
      /\ inbox'[s0] = Append(inbox[s0], HumanTurn)
      /\ DOMAIN inbox' = Sessions
  BY DEF IInv, HostInv
<1>3. /\ IsList(inbox'[s0])
      /\ Members(inbox'[s0]) = Members(inbox[s0]) \union {HumanTurn}
      /\ DOMAIN inbox[s0] = 1..Len(inbox[s0]) /\ DOMAIN inbox'[s0] = 1..(Len(inbox[s0]) + 1)
      /\ Len(inbox[s0]) \in Nat
      /\ \A i \in DOMAIN inbox[s0] : inbox'[s0][i] = inbox[s0][i]
      /\ inbox'[s0][Len(inbox[s0]) + 1] = HumanTurn
  BY <1>1, <1>2, AppendList
<1>4. \A p, s, t, inputs : InFlight(p, s, t, inputs)' <=> InFlight(p, s, t, inputs)
  BY DEF InFlight
<1>5. \A i, c : i \in DOMAIN inbox'[s0] /\ IsMarkOf(inbox'[s0][i], c)
                  => i \in DOMAIN inbox[s0] /\ inbox'[s0][i] = inbox[s0][i]
  BY <1>3 DEF IsMarkOf, HumanTurn
<1>6. ASSUME NEW p, NEW c, NEW n, NEW s, Move(p, c, n, s)'
      PROVE  Move(p, c, n, s)
  <2>1. CASE (\E i \in DOMAIN inbox[s] :
                /\ s \in Sessions /\ p = <<"inbox", s, i>>
                /\ IsMarkOf(inbox[s][i], c) /\ n = inbox[s][i].attempt)'
    BY <2>1, <1>2, <1>5 DEF Move, IsMarkOf
  <2>2. CASE \E t, inputs : InFlight(p, s, t, inputs)' /\ CarriesNth(inputs, c, n)
    BY <2>2, <1>4 DEF Move
  <2>3. CASE (\E job \in jobs :
                /\ Pending(job) /\ s = job.session
                /\ p = <<"job", job, 0>>
                /\ c = job.step.chainId /\ n = job.step.attempt - 1)'
    BY <2>3 DEF Move, Pending
  <2> QED BY <1>6, <2>1, <2>2, <2>3 DEF Move, CarriesNth, IsMarkOf
<1>7. MovesKept
  <2>1. \A c, p, n, s, q, m, u : Move(p, c, n, s)' /\ Move(q, c, m, u)' => p = q
    BY <1>6 DEF IInv, MoveInv
  <2> QED BY <1>6, <2>1 DEF MovesKept
<1>8. FlightKept /\ FlightInv'
  BY <1>4 DEF FlightKept, FlightInv, IInv
<1>9. HostInv'
  <2>1. \A s \in Sessions : IsList(inbox'[s]) /\ Members(inbox'[s]) \subseteq Messages
    BY <1>1, <1>2, <1>3 DEF IInv, HostInv
  <2>2. userSent' \in [Sessions -> 0..MaxUserMessages]
    BY RemediateAssumption DEF IInv, HostInv
  <2>3. TurnIds' = TurnIds /\ Messages' = Messages
    BY DEF TurnIds, Messages, Marks
  <2>4. (\A exec : ExecOK(exec)' <=> ExecOK(exec)) /\ (\A e : EventOK(e)' <=> EventOK(e))
    BY <2>3 DEF ExecOK, EventOK
  <2> QED BY <1>2, <2>1, <2>2, <2>3, <2>4 DEF IInv, HostInv
<1> QED BY <1>1, <1>7, <1>8, <1>9, HostStepKeeps

\* The first waiting message becomes the one input of a new execution.
LEMMA StartExecutionKeeps ==
  ASSUME IInv, NEW s0 \in Sessions, StartExecution(s0)
  PROVE  IInv'
<1> DEFINE first == Head(inbox[s0])
           exec == [turn |-> turnCount + 1, inputs |-> <<first>>]
           nu(q) == IF q = <<"inbox", s0, 1>> THEN <<"run", s0, 0>>
                    ELSE IF q[1] = "inbox" /\ q[2] = s0 THEN <<"inbox", s0, q[3] - 1>> ELSE q
<1>1. /\ running[s0] = None
      /\ turnCount' = turnCount + 1 /\ turnCount \in Nat
      /\ DOMAIN running' = Sessions /\ running'[s0] = exec
      /\ \A s \in Sessions \ {s0} : running'[s] = running[s]
      /\ DOMAIN inbox' = Sessions /\ inbox'[s0] = Tail(inbox[s0])
      /\ \A s \in Sessions \ {s0} : inbox'[s] = inbox[s]
      /\ events' = Append(events, Event("STARTED", s0, exec))
      /\ tasks' = tasks /\ jobs' = jobs /\ chains' = chains /\ deliveries' = deliveries
      /\ chainLog' = chainLog /\ sent' = sent
      /\ userSent' = userSent /\ openExecutions' = openExecutions
  BY DEF StartExecution, pluginVars, IInv, HostInv
<1>2. /\ Len(inbox[s0]) \in Nat \ {0} /\ DOMAIN inbox[s0] = 1..Len(inbox[s0])
      /\ IsList(inbox'[s0]) /\ DOMAIN inbox'[s0] = 1..(Len(inbox[s0]) - 1)
      /\ \A i \in 1..(Len(inbox[s0]) - 1) : inbox'[s0][i] = inbox[s0][i + 1]
      /\ first = inbox[s0][1] /\ first \in Messages
      /\ Members(inbox'[s0]) \subseteq Messages
  <2>1. IsList(inbox[s0]) /\ inbox[s0] # <<>> /\ Members(inbox[s0]) \subseteq Messages
    BY DEF StartExecution, IInv, HostInv
  <2> QED BY <1>1, <2>1, TailList
<1>3. /\ IsList(events') /\ DOMAIN events = 1..Len(events) /\ Len(events) \in Nat
      /\ DOMAIN events' = 1..(Len(events) + 1)
      /\ \A i \in DOMAIN events : events'[i] = events[i]
      /\ events'[Len(events) + 1] = Event("STARTED", s0, exec)
  BY <1>1, AppendList DEF IInv, HostInv
<1>4. /\ IsList(<<first>>) /\ Members(<<first>>) = {first}
      /\ DOMAIN <<first>> = {1} /\ <<first>>[1] = first
  <2>1. IsList(<<first>>) /\ Members(<<first>>) = {first}
    BY SingletonList
  <2> QED BY <2>1
<1> HIDE DEF first
<1>5. exec.turn = turnCount + 1 /\ exec.inputs = <<first>> /\ DOMAIN exec = {"turn", "inputs"}
  OBVIOUS
<1>6. Event("STARTED", s0, exec).kind = "STARTED"
  BY DEF Event
<1> HIDE DEF exec
<1>7. ASSUME NEW p, NEW s, NEW t, NEW inputs, InFlight(p, s, t, inputs)'
      PROVE  \/ p = <<"run", s0, 0>> /\ s = s0 /\ t = turnCount + 1 /\ inputs = <<first>>
             \/ p # <<"run", s0, 0>> /\ InFlight(p, s, t, inputs)
  <2>1. CASE (/\ s \in Sessions /\ running[s] # None
              /\ p = <<"run", s, 0>>
              /\ t = running[s].turn /\ inputs = running[s].inputs)'
    <3>1. CASE s = s0
      BY <2>1, <3>1, <1>1, <1>5
    <3>2. CASE s # s0
      <4>1. InFlight(p, s, t, inputs)
        BY <2>1, <3>2, <1>1 DEF InFlight
      <4> QED BY <4>1, <2>1, <3>2
    <3> QED BY <3>1, <3>2
  <2>2. CASE (\E i \in DOMAIN events :
                /\ events[i].kind # "STARTED" /\ s = events[i].session
                /\ p = <<"event", i, 0>>
                /\ t = events[i].exec.turn /\ inputs = events[i].exec.inputs)'
    <3>1. PICK i \in DOMAIN events' :
             /\ events'[i].kind # "STARTED" /\ s = events'[i].session
             /\ p = <<"event", i, 0>>
             /\ t = events'[i].exec.turn /\ inputs = events'[i].exec.inputs
      BY <2>2
    <3>2. i \in DOMAIN events /\ events'[i] = events[i]
      BY <3>1, <1>3, <1>6
    <3>3. InFlight(p, s, t, inputs)
      BY <3>1, <3>2 DEF InFlight
    <3> QED BY <3>1, <3>3
  <2>3. CASE (\E i \in DOMAIN tasks :
                /\ tasks[i].kind # "STARTED" /\ s = tasks[i].session
                /\ p = <<"task", i, 0>>
                /\ t = tasks[i].exec.turn /\ inputs = tasks[i].exec.inputs)'
    <3>1. InFlight(p, s, t, inputs)
      BY <2>3, <1>1 DEF InFlight
    <3> QED BY <2>3, <3>1
  <2>4. CASE (\E job \in jobs :
                /\ job.stage = "reviewing" /\ s = job.session
                /\ p = <<"job", job, 0>>
                /\ t = job.turn /\ inputs = job.inputs)'
    <3>1. InFlight(p, s, t, inputs)
      BY <2>4, <1>1 DEF InFlight
    <3> QED BY <2>4, <3>1
  <2> QED BY <1>7, <2>1, <2>2, <2>3, <2>4 DEF InFlight
<1>8. ASSUME NEW p, NEW c, NEW n, NEW s, Move(p, c, n, s)'
      PROVE  \E q : Move(q, c, n, s) /\ p = nu(q)
  <2>1. CASE (\E i \in DOMAIN inbox[s] :
                /\ s \in Sessions /\ p = <<"inbox", s, i>>
                /\ IsMarkOf(inbox[s][i], c) /\ n = inbox[s][i].attempt)'
    <3>1. PICK i \in DOMAIN inbox'[s] :
             /\ s \in Sessions /\ p = <<"inbox", s, i>>
             /\ IsMarkOf(inbox'[s][i], c) /\ n = inbox'[s][i].attempt
      BY <2>1 DEF IsMarkOf
    <3>2. CASE s = s0
      <4>1. i \in 1..(Len(inbox[s0]) - 1) /\ i + 1 \in DOMAIN inbox[s0] /\ inbox'[s0][i] = inbox[s0][i + 1]
        BY <3>1, <3>2, <1>2
      <4>2. Move(<<"inbox", s, i + 1>>, c, n, s)
        BY <3>1, <3>2, <4>1 DEF Move
      <4>3. nu(<<"inbox", s, i + 1>>) = <<"inbox", s, i>>
        <5>1. <<"inbox", s, i + 1>> # <<"inbox", s0, 1>>
          BY <4>1, <1>2
        <5>2. (i + 1) - 1 = i
          BY <4>1
        <5> QED BY <5>1, <5>2, <3>2
      <4> QED BY <3>1, <4>2, <4>3
    <3>3. CASE s # s0
      <4>1. Move(p, c, n, s)
        BY <3>1, <3>3, <1>1 DEF Move
      <4>2. nu(p) = p
        BY <3>1, <3>3
      <4> QED BY <4>1, <4>2
    <3> QED BY <3>2, <3>3
  <2>2. CASE \E t, inputs : InFlight(p, s, t, inputs)' /\ CarriesNth(inputs, c, n)
    <3>1. PICK t, inputs : InFlight(p, s, t, inputs)' /\ CarriesNth(inputs, c, n)
      BY <2>2
    <3>2. CASE p = <<"run", s0, 0>> /\ s = s0 /\ inputs = <<first>>
      <4>1. IsMarkOf(first, c) /\ first.attempt = n
        BY <3>1, <3>2, <1>4 DEF CarriesNth
      <4>2. Move(<<"inbox", s0, 1>>, c, n, s0)
        BY <4>1, <1>2 DEF Move
      <4> QED BY <3>2, <4>2
    <3>3. CASE p # <<"run", s0, 0>> /\ InFlight(p, s, t, inputs)
      <4>1. Move(p, c, n, s)
        BY <3>1, <3>3 DEF Move
      <4>2. nu(p) = p
        BY <3>3 DEF InFlight
      <4> QED BY <4>1, <4>2
    <3> QED BY <3>1, <3>2, <3>3, <1>7
  <2>3. CASE (\E job \in jobs :
                /\ Pending(job) /\ s = job.session
                /\ p = <<"job", job, 0>>
                /\ c = job.step.chainId /\ n = job.step.attempt - 1)'
    <3>1. Move(p, c, n, s) /\ nu(p) = p
      BY <2>3, <1>1 DEF Move, Pending
    <3> QED BY <3>1
  <2> QED BY <1>8, <2>1, <2>2, <2>3 DEF Move, CarriesNth, IsMarkOf
<1>9. FlightKept /\ FlightInv'
  <2>1. FlightKept
    BY <1>1, <1>7 DEF FlightKept
  <2>2. ASSUME NEW t, NEW p, NEW s, NEW inputs, NEW q, NEW u, NEW others,
               InFlight(p, s, t, inputs)', InFlight(q, u, t, others)'
        PROVE  p = q
    <3>1. CASE p = <<"run", s0, 0>> /\ t = turnCount + 1
      <4>1. ~InFlight(q, u, t, others)
        BY <3>1, <1>1, InFlightTyped
      <4> QED BY <2>2, <3>1, <4>1, <1>7
    <3>2. CASE InFlight(p, s, t, inputs)
      <4>1. t # turnCount + 1
        BY <3>2, <1>1, InFlightTyped
      <4>2. InFlight(q, u, t, others)
        BY <2>2, <4>1, <1>7
      <4> QED BY <3>2, <4>2 DEF IInv, FlightInv
    <3> QED BY <2>2, <3>1, <3>2, <1>7
  <2> QED BY <2>1, <2>2 DEF FlightInv
<1>10. MovesKept
  <2>1. ASSUME NEW c, NEW p, NEW n, NEW s, NEW q, NEW m, NEW u,
               Move(p, c, n, s)', Move(q, c, m, u)'
        PROVE  p = q
    <3>1. PICK x : Move(x, c, n, s) /\ p = nu(x)
      BY <2>1, <1>8
    <3>2. PICK y : Move(y, c, m, u) /\ q = nu(y)
      BY <2>1, <1>8
    <3>3. x = y
      BY <3>1, <3>2 DEF IInv, MoveInv
    <3> QED BY <3>1, <3>2, <3>3
  <2> HIDE DEF nu
  <2> QED BY <2>1, <1>8 DEF MovesKept
<1>11. HostInv'
  <2>1. /\ TurnIds \subseteq TurnIds' /\ Messages \subseteq Messages'
        /\ \A x : ExecOK(x) => ExecOK(x)'
        /\ \A e : EventOK(e) => EventOK(e)'
    BY <1>1, TurnIdsGrow
  <2>2. ASSUME NEW x, x = exec
        PROVE  ExecOK(x)'
    <3>1. turnCount + 1 \in TurnIds'
      BY <1>1 DEF TurnIds
    <3>2. {first} \subseteq Messages'
      BY <1>2, <2>1
    <3>3. x.turn = turnCount + 1 /\ x.inputs = <<first>>
      BY <2>2, <1>5
    <3> QED BY <3>1, <3>2, <3>3, <1>4 DEF ExecOK
  <2>3. ASSUME NEW e, e = Event("STARTED", s0, exec)
        PROVE  EventOK(e)'
    <3>1. e.kind = "STARTED" /\ e.session = s0 /\ e.exec = exec
      BY <2>3 DEF Event
    <3>2. ExecOK(e.exec)'
      BY <2>2, <3>1
    <3> QED BY <3>1, <3>2 DEF EventOK
  <2>4. ASSUME NEW i \in DOMAIN events', NEW e, e = events'[i]
        PROVE  EventOK(e)'
    <3>1. CASE i \in DOMAIN events
      BY <3>1, <2>1, <2>4, <1>3 DEF IInv, HostInv
    <3>2. CASE i = Len(events) + 1
      BY <3>2, <2>3, <2>4, <1>3
    <3> QED BY <3>1, <3>2, <1>3
  <2>5. \A i \in DOMAIN tasks' : \A e : e = tasks'[i] => EventOK(e)'
    BY <2>1, <1>1 DEF IInv, HostInv
  <2>6. \A s \in Sessions : IsList(inbox'[s]) /\ Members(inbox'[s]) \subseteq Messages'
    BY <1>1, <1>2, <2>1 DEF IInv, HostInv
  <2>7. \A s \in Sessions : \A x : x = running'[s] /\ x # None => DOMAIN x = {"turn", "inputs"} /\ ExecOK(x)'
    <3>1. \A s \in Sessions \ {s0} : running[s] # None => DOMAIN running[s] = {"turn", "inputs"} /\ ExecOK(running[s])
      BY DEF IInv, HostInv
    <3> QED BY <3>1, <1>1, <1>5, <2>1, <2>2
  <2>8. /\ turnCount' \in Nat /\ IsList(tasks') /\ userSent' \in [Sessions -> 0..MaxUserMessages]
        /\ openExecutions' \subseteq Sessions
    BY <1>1 DEF IInv, HostInv
  <2> QED BY <1>1, <1>3, <2>4, <2>5, <2>6, <2>7, <2>8 DEF HostInv
<1> QED BY <1>1, <1>9, <1>10, <1>11, HostStepKeeps

\* The first waiting message joins the inputs of the running execution.
LEMMA AdmitQueuedKeeps ==
  ASSUME IInv, NEW s0 \in Sessions, AdmitQueued(s0)
  PROVE  IInv'
<1> DEFINE first == Head(inbox[s0])
           old == running[s0]
           inputs0 == Append(old.inputs, first)
           nu(q) == IF q = <<"inbox", s0, 1>> THEN <<"run", s0, 0>>
                    ELSE IF q[1] = "inbox" /\ q[2] = s0 THEN <<"inbox", s0, q[3] - 1>> ELSE q
<1>1. /\ old # None /\ turnCount' = turnCount /\ turnCount \in Nat
      /\ DOMAIN old = {"turn", "inputs"} /\ ExecOK(old)
      /\ DOMAIN running' = Sessions
      /\ \A s \in Sessions \ {s0} : running'[s] = running[s]
      /\ DOMAIN inbox' = Sessions /\ inbox'[s0] = Tail(inbox[s0])
      /\ \A s \in Sessions \ {s0} : inbox'[s] = inbox[s]
      /\ events' = events
      /\ tasks' = tasks /\ jobs' = jobs /\ chains' = chains /\ deliveries' = deliveries
      /\ chainLog' = chainLog /\ sent' = sent
      /\ userSent' = userSent /\ openExecutions' = openExecutions
  BY DEF AdmitQueued, pluginVars, IInv, HostInv
<1>2. running'[s0] = [old EXCEPT !.inputs = inputs0]
  BY DEF AdmitQueued, IInv, HostInv
<1>3. /\ running'[s0].turn = old.turn /\ running'[s0].inputs = inputs0
      /\ DOMAIN running'[s0] = {"turn", "inputs"}
  BY <1>1, <1>2
<1>4. /\ Len(inbox[s0]) \in Nat \ {0} /\ DOMAIN inbox[s0] = 1..Len(inbox[s0])
      /\ IsList(inbox'[s0]) /\ DOMAIN inbox'[s0] = 1..(Len(inbox[s0]) - 1)
      /\ \A i \in 1..(Len(inbox[s0]) - 1) : inbox'[s0][i] = inbox[s0][i + 1]
      /\ first = inbox[s0][1] /\ first \in Messages
      /\ Members(inbox'[s0]) \subseteq Messages
  <2>1. IsList(inbox[s0]) /\ inbox[s0] # <<>> /\ Members(inbox[s0]) \subseteq Messages
    BY DEF AdmitQueued, IInv, HostInv
  <2> QED BY <1>1, <2>1, TailList
<1>5. /\ IsList(inputs0) /\ Members(inputs0) \subseteq Messages
      /\ Len(old.inputs) \in Nat /\ DOMAIN old.inputs = 1..Len(old.inputs)
      /\ DOMAIN inputs0 = 1..(Len(old.inputs) + 1)
      /\ \A i \in DOMAIN old.inputs : inputs0[i] = old.inputs[i]
      /\ inputs0[Len(old.inputs) + 1] = first
  BY <1>1, <1>4, AppendList DEF ExecOK
<1> HIDE DEF first, inputs0, old
<1>6. InFlight(<<"run", s0, 0>>, s0, old.turn, old.inputs)
  BY <1>1 DEF InFlight, old
<1>7. ASSUME NEW p, NEW s, NEW t, NEW inputs, InFlight(p, s, t, inputs)'
      PROVE  \/ p = <<"run", s0, 0>> /\ s = s0 /\ t = old.turn /\ inputs = inputs0
             \/ p # <<"run", s0, 0>> /\ InFlight(p, s, t, inputs)
  <2>1. CASE (/\ s \in Sessions /\ running[s] # None
              /\ p = <<"run", s, 0>>
              /\ t = running[s].turn /\ inputs = running[s].inputs)'
    <3>1. CASE s = s0
      BY <2>1, <3>1, <1>1, <1>3
    <3>2. CASE s # s0
      <4>1. InFlight(p, s, t, inputs)
        BY <2>1, <3>2, <1>1 DEF InFlight
      <4> QED BY <4>1, <2>1, <3>2
    <3> QED BY <3>1, <3>2
  <2>2. CASE (\E i \in DOMAIN events :
                /\ events[i].kind # "STARTED" /\ s = events[i].session
                /\ p = <<"event", i, 0>>
                /\ t = events[i].exec.turn /\ inputs = events[i].exec.inputs)'
    <3>1. InFlight(p, s, t, inputs)
      BY <2>2, <1>1 DEF InFlight
    <3> QED BY <2>2, <3>1
  <2>3. CASE (\E i \in DOMAIN tasks :
                /\ tasks[i].kind # "STARTED" /\ s = tasks[i].session
                /\ p = <<"task", i, 0>>
                /\ t = tasks[i].exec.turn /\ inputs = tasks[i].exec.inputs)'
    <3>1. InFlight(p, s, t, inputs)
      BY <2>3, <1>1 DEF InFlight
    <3> QED BY <2>3, <3>1
  <2>4. CASE (\E job \in jobs :
                /\ job.stage = "reviewing" /\ s = job.session
                /\ p = <<"job", job, 0>>
                /\ t = job.turn /\ inputs = job.inputs)'
    <3>1. InFlight(p, s, t, inputs)
      BY <2>4, <1>1 DEF InFlight
    <3> QED BY <2>4, <3>1
  <2> QED BY <1>7, <2>1, <2>2, <2>3, <2>4 DEF InFlight
<1>8. ASSUME NEW p, NEW c, NEW n, NEW s, Move(p, c, n, s)'
      PROVE  \E q : Move(q, c, n, s) /\ p = nu(q)
  <2>1. CASE (\E i \in DOMAIN inbox[s] :
                /\ s \in Sessions /\ p = <<"inbox", s, i>>
                /\ IsMarkOf(inbox[s][i], c) /\ n = inbox[s][i].attempt)'
    <3>1. PICK i \in DOMAIN inbox'[s] :
             /\ s \in Sessions /\ p = <<"inbox", s, i>>
             /\ IsMarkOf(inbox'[s][i], c) /\ n = inbox'[s][i].attempt
      BY <2>1 DEF IsMarkOf
    <3>2. CASE s = s0
      <4>1. i \in 1..(Len(inbox[s0]) - 1) /\ i + 1 \in DOMAIN inbox[s0] /\ inbox'[s0][i] = inbox[s0][i + 1]
        BY <3>1, <3>2, <1>4
      <4>2. Move(<<"inbox", s, i + 1>>, c, n, s)
        BY <3>1, <3>2, <4>1 DEF Move
      <4>3. nu(<<"inbox", s, i + 1>>) = <<"inbox", s, i>>
        <5>1. <<"inbox", s, i + 1>> # <<"inbox", s0, 1>>
          BY <4>1, <1>4
        <5>2. (i + 1) - 1 = i
          BY <4>1
        <5> QED BY <5>1, <5>2, <3>2
      <4> QED BY <3>1, <4>2, <4>3
    <3>3. CASE s # s0
      <4>1. Move(p, c, n, s)
        BY <3>1, <3>3, <1>1 DEF Move
      <4>2. nu(p) = p
        BY <3>1, <3>3
      <4> QED BY <4>1, <4>2
    <3> QED BY <3>2, <3>3
  <2>2. CASE \E t, inputs : InFlight(p, s, t, inputs)' /\ CarriesNth(inputs, c, n)
    <3>1. PICK t, inputs : InFlight(p, s, t, inputs)' /\ CarriesNth(inputs, c, n)
      BY <2>2
    <3>2. CASE p = <<"run", s0, 0>> /\ s = s0 /\ inputs = inputs0
      <4>1. PICK i \in DOMAIN inputs0 : IsMarkOf(inputs0[i], c) /\ inputs0[i].attempt = n
        BY <3>1, <3>2 DEF CarriesNth
      <4>2. CASE i \in DOMAIN old.inputs
        <5>1. CarriesNth(old.inputs, c, n)
          BY <4>1, <4>2, <1>5 DEF CarriesNth
        <5>2. Move(<<"run", s0, 0>>, c, n, s0)
          BY <5>1, <1>6 DEF Move
        <5>3. nu(<<"run", s0, 0>>) = <<"run", s0, 0>>
          OBVIOUS
        <5> QED BY <3>2, <5>2, <5>3
      <4>3. CASE i = Len(old.inputs) + 1
        <5>1. Move(<<"inbox", s0, 1>>, c, n, s0)
          BY <4>1, <4>3, <1>4, <1>5 DEF Move
        <5> QED BY <3>2, <5>1
      <4> QED BY <4>1, <4>2, <4>3, <1>5
    <3>3. CASE p # <<"run", s0, 0>> /\ InFlight(p, s, t, inputs)
      <4>1. Move(p, c, n, s)
        BY <3>1, <3>3 DEF Move
      <4>2. nu(p) = p
        BY <3>3 DEF InFlight
      <4> QED BY <4>1, <4>2
    <3> QED BY <3>1, <3>2, <3>3, <1>7
  <2>3. CASE (\E job \in jobs :
                /\ Pending(job) /\ s = job.session
                /\ p = <<"job", job, 0>>
                /\ c = job.step.chainId /\ n = job.step.attempt - 1)'
    <3>1. Move(p, c, n, s) /\ nu(p) = p
      BY <2>3, <1>1 DEF Move, Pending
    <3> QED BY <3>1
  <2> QED BY <1>8, <2>1, <2>2, <2>3 DEF Move, CarriesNth, IsMarkOf
<1>9. ASSUME NEW p, NEW s, NEW t, NEW inputs, InFlight(p, s, t, inputs)'
      PROVE  \E u, others : InFlight(p, u, t, others)
  BY <1>6, <1>7, <1>9
<1>10. FlightKept /\ FlightInv'
  <2>1. FlightKept
    BY <1>9 DEF FlightKept
  <2>2. \A t, p, s, inputs, q, u, others : InFlight(p, s, t, inputs)' /\ InFlight(q, u, t, others)' => p = q
    BY <1>9 DEF IInv, FlightInv
  <2> QED BY <2>1, <2>2 DEF FlightInv
<1>11. MovesKept
  <2>1. ASSUME NEW c, NEW p, NEW n, NEW s, NEW q, NEW m, NEW u,
               Move(p, c, n, s)', Move(q, c, m, u)'
        PROVE  p = q
    <3>1. PICK x : Move(x, c, n, s) /\ p = nu(x)
      BY <2>1, <1>8
    <3>2. PICK y : Move(y, c, m, u) /\ q = nu(y)
      BY <2>1, <1>8
    <3>3. x = y
      BY <3>1, <3>2 DEF IInv, MoveInv
    <3> QED BY <3>1, <3>2, <3>3
  <2> HIDE DEF nu
  <2> QED BY <2>1, <1>8 DEF MovesKept
<1>12. HostInv'
  <2>1. /\ TurnIds' = TurnIds /\ Messages' = Messages
        /\ \A x : ExecOK(x) => ExecOK(x)'
        /\ \A e : EventOK(e) => EventOK(e)'
    <3>1. TurnIds' = TurnIds /\ Messages' = Messages
      BY <1>1 DEF TurnIds, Messages, Marks
    <3> QED BY <3>1, <1>1, TurnIdsGrow
  <2>2. \A x : x = running'[s0] => ExecOK(x)'
    BY <2>1, <1>1, <1>3, <1>5 DEF ExecOK
  <2>3. \A i \in DOMAIN events' : \A e : e = events'[i] => EventOK(e)'
    BY <2>1, <1>1 DEF IInv, HostInv
  <2>4. \A i \in DOMAIN tasks' : \A e : e = tasks'[i] => EventOK(e)'
    BY <2>1, <1>1 DEF IInv, HostInv
  <2>5. \A s \in Sessions : IsList(inbox'[s]) /\ Members(inbox'[s]) \subseteq Messages'
    BY <1>1, <1>4, <2>1 DEF IInv, HostInv
  <2>6. \A s \in Sessions : \A x : x = running'[s] /\ x # None => DOMAIN x = {"turn", "inputs"} /\ ExecOK(x)'
    <3>1. \A s \in Sessions \ {s0} : running[s] # None => DOMAIN running[s] = {"turn", "inputs"} /\ ExecOK(running[s])
      BY DEF IInv, HostInv
    <3> QED BY <3>1, <1>1, <1>3, <2>1, <2>2
  <2>7. /\ IsList(events') /\ IsList(tasks') /\ userSent' \in [Sessions -> 0..MaxUserMessages]
        /\ openExecutions' \subseteq Sessions
    BY <1>1 DEF IInv, HostInv
  <2> QED BY <1>1, <2>3, <2>4, <2>5, <2>6, <2>7 DEF HostInv
<1> QED BY <1>1, <1>10, <1>11, <1>12, HostStepKeeps

\* The running execution becomes the newest event.
LEMMA EndExecutionKeeps ==
  ASSUME IInv, NEW s0 \in Sessions, EndExecution(s0)
  PROVE  IInv'
<1> DEFINE old == running[s0]
           new == Len(events) + 1
           nu(q) == IF q = <<"run", s0, 0>> THEN <<"event", new, 0>> ELSE q
<1>1. PICK kind \in Ends : events' = Append(events, Event(kind, s0, old))
  BY DEF EndExecution
<1>2. /\ old # None /\ turnCount' = turnCount /\ turnCount \in Nat
      /\ DOMAIN old = {"turn", "inputs"} /\ ExecOK(old)
      /\ DOMAIN running' = Sessions /\ running'[s0] = None
      /\ \A s \in Sessions \ {s0} : running'[s] = running[s]
      /\ inbox' = inbox
      /\ tasks' = tasks /\ jobs' = jobs /\ chains' = chains /\ deliveries' = deliveries
      /\ chainLog' = chainLog /\ sent' = sent
      /\ userSent' = userSent /\ openExecutions' = openExecutions
  BY DEF EndExecution, pluginVars, IInv, HostInv
<1>3. /\ IsList(events') /\ DOMAIN events = 1..Len(events) /\ Len(events) \in Nat
      /\ DOMAIN events' = 1..new
      /\ \A i \in DOMAIN events : events'[i] = events[i]
      /\ events'[new] = Event(kind, s0, old)
  BY <1>1, AppendList DEF IInv, HostInv
<1> HIDE DEF old
<1>4. InFlight(<<"run", s0, 0>>, s0, old.turn, old.inputs)
  BY <1>2 DEF InFlight, old
<1>5. events'[new].session = s0 /\ events'[new].exec = old /\ events'[new].kind = kind
  BY <1>3 DEF Event
<1>6. new \notin DOMAIN events
  BY <1>3
<1> HIDE DEF new
<1>7. ASSUME NEW p, NEW s, NEW t, NEW inputs, InFlight(p, s, t, inputs)'
      PROVE  \E q : InFlight(q, s, t, inputs) /\ p = nu(q)
  <2>1. CASE (/\ s \in Sessions /\ running[s] # None
              /\ p = <<"run", s, 0>>
              /\ t = running[s].turn /\ inputs = running[s].inputs)'
    <3>1. s # s0
      BY <2>1, <1>2
    <3>2. InFlight(p, s, t, inputs) /\ nu(p) = p
      BY <2>1, <3>1, <1>2 DEF InFlight
    <3> QED BY <3>2
  <2>2. CASE (\E i \in DOMAIN events :
                /\ events[i].kind # "STARTED" /\ s = events[i].session
                /\ p = <<"event", i, 0>>
                /\ t = events[i].exec.turn /\ inputs = events[i].exec.inputs)'
    <3>1. PICK i \in DOMAIN events' :
             /\ events'[i].kind # "STARTED" /\ s = events'[i].session
             /\ p = <<"event", i, 0>>
             /\ t = events'[i].exec.turn /\ inputs = events'[i].exec.inputs
      BY <2>2
    <3>2. CASE i = new
      BY <3>1, <3>2, <1>4, <1>5
    <3>3. CASE i \in DOMAIN events
      <4>1. InFlight(p, s, t, inputs) /\ nu(p) = p
        BY <3>1, <3>3, <1>3 DEF InFlight
      <4> QED BY <4>1
    <3> QED BY <3>1, <3>2, <3>3, <1>3 DEF new
  <2>3. CASE (\E i \in DOMAIN tasks :
                /\ tasks[i].kind # "STARTED" /\ s = tasks[i].session
                /\ p = <<"task", i, 0>>
                /\ t = tasks[i].exec.turn /\ inputs = tasks[i].exec.inputs)'
    <3>1. InFlight(p, s, t, inputs) /\ nu(p) = p
      BY <2>3, <1>2 DEF InFlight
    <3> QED BY <3>1
  <2>4. CASE (\E job \in jobs :
                /\ job.stage = "reviewing" /\ s = job.session
                /\ p = <<"job", job, 0>>
                /\ t = job.turn /\ inputs = job.inputs)'
    <3>1. InFlight(p, s, t, inputs) /\ nu(p) = p
      BY <2>4, <1>2 DEF InFlight
    <3> QED BY <3>1
  <2> QED BY <1>7, <2>1, <2>2, <2>3, <2>4 DEF InFlight
<1>8. ASSUME NEW p, NEW c, NEW n, NEW s, Move(p, c, n, s)'
      PROVE  \E q : Move(q, c, n, s) /\ p = nu(q)
  <2>1. CASE (\E i \in DOMAIN inbox[s] :
                /\ s \in Sessions /\ p = <<"inbox", s, i>>
                /\ IsMarkOf(inbox[s][i], c) /\ n = inbox[s][i].attempt)'
    <3>1. Move(p, c, n, s) /\ nu(p) = p
      BY <2>1, <1>2 DEF Move, IsMarkOf
    <3> QED BY <3>1
  <2>2. CASE \E t, inputs : InFlight(p, s, t, inputs)' /\ CarriesNth(inputs, c, n)
    BY <2>2, <1>7 DEF Move
  <2>3. CASE (\E job \in jobs :
                /\ Pending(job) /\ s = job.session
                /\ p = <<"job", job, 0>>
                /\ c = job.step.chainId /\ n = job.step.attempt - 1)'
    <3>1. Move(p, c, n, s) /\ nu(p) = p
      BY <2>3, <1>2 DEF Move, Pending
    <3> QED BY <3>1
  <2> QED BY <1>8, <2>1, <2>2, <2>3 DEF Move, CarriesNth, IsMarkOf
<1> HIDE DEF nu
<1>9. FlightKept /\ FlightInv'
  <2>1. FlightKept
    BY <1>7 DEF FlightKept
  <2>2. ASSUME NEW t, NEW p, NEW s, NEW inputs, NEW q, NEW u, NEW others,
               InFlight(p, s, t, inputs)', InFlight(q, u, t, others)'
        PROVE  p = q
    <3>1. PICK x : InFlight(x, s, t, inputs) /\ p = nu(x)
      BY <2>2, <1>7
    <3>2. PICK y : InFlight(y, u, t, others) /\ q = nu(y)
      BY <2>2, <1>7
    <3>3. x = y
      BY <3>1, <3>2 DEF IInv, FlightInv
    <3> QED BY <3>1, <3>2, <3>3
  <2> QED BY <2>1, <2>2 DEF FlightInv
<1>10. MovesKept
  <2>1. ASSUME NEW c, NEW p, NEW n, NEW s, NEW q, NEW m, NEW u,
               Move(p, c, n, s)', Move(q, c, m, u)'
        PROVE  p = q
    <3>1. PICK x : Move(x, c, n, s) /\ p = nu(x)
      BY <2>1, <1>8
    <3>2. PICK y : Move(y, c, m, u) /\ q = nu(y)
      BY <2>1, <1>8
    <3>3. x = y
      BY <3>1, <3>2 DEF IInv, MoveInv
    <3> QED BY <3>1, <3>2, <3>3
  <2> QED BY <2>1, <1>8 DEF MovesKept
<1>11. HostInv'
  <2>1. /\ Messages' = Messages
        /\ \A x : ExecOK(x) => ExecOK(x)'
        /\ \A e : EventOK(e) => EventOK(e)'
    <3>1. Messages' = Messages
      BY <1>2 DEF TurnIds, Messages, Marks
    <3> QED BY <3>1, <1>2, TurnIdsGrow
  <2>2. \A e : e = events'[new] => EventOK(e)'
    BY <2>1, <1>1, <1>2, <1>5, RemediateAssumption DEF EventOK
  <2>3. ASSUME NEW i \in DOMAIN events', NEW e, e = events'[i]
        PROVE  EventOK(e)'
    <3>1. CASE i \in DOMAIN events
      BY <3>1, <2>1, <2>3, <1>3 DEF IInv, HostInv
    <3>2. CASE i = new
      BY <3>2, <2>2, <2>3
    <3> QED BY <3>1, <3>2, <1>3 DEF new
  <2>4. \A i \in DOMAIN tasks' : \A e : e = tasks'[i] => EventOK(e)'
    BY <2>1, <1>2 DEF IInv, HostInv
  <2>5. \A s \in Sessions : IsList(inbox'[s]) /\ Members(inbox'[s]) \subseteq Messages'
    BY <1>2, <2>1 DEF IInv, HostInv
  <2>6. \A s \in Sessions : \A x : x = running'[s] /\ x # None => DOMAIN x = {"turn", "inputs"} /\ ExecOK(x)'
    <3>1. \A s \in Sessions \ {s0} : running[s] # None => DOMAIN running[s] = {"turn", "inputs"} /\ ExecOK(running[s])
      BY DEF IInv, HostInv
    <3> QED BY <3>1, <1>2, <2>1
  <2>7. /\ DOMAIN inbox' = Sessions /\ IsList(tasks') /\ userSent' \in [Sessions -> 0..MaxUserMessages]
        /\ openExecutions' \subseteq Sessions
    BY <1>2 DEF IInv, HostInv
  <2> QED BY <1>2, <1>3, <2>3, <2>4, <2>5, <2>6, <2>7 DEF HostInv
<1> QED BY <1>2, <1>9, <1>10, <1>11, HostStepKeeps

\* The oldest event is handled: an ended execution becomes the newest task.
LEMMA OnEventKeeps ==
  ASSUME IInv, OnEvent
  PROVE  IInv'
<1> DEFINE e0 == Head(events)
           new == Len(tasks) + 1
           nu(q) == IF q = <<"event", 1, 0>> THEN <<"task", new, 0>>
                    ELSE IF q[1] = "event" THEN <<"event", q[2] - 1, 0>> ELSE q
<1>1. /\ turnCount' = turnCount /\ turnCount \in Nat
      /\ inbox' = inbox /\ running' = running /\ userSent' = userSent
      /\ events' = Tail(events)
      /\ jobs' = jobs /\ chains' = chains /\ deliveries' = deliveries
      /\ chainLog' = chainLog /\ sent' = sent
      /\ tasks' = IF e0.kind = "STARTED" THEN tasks ELSE Append(tasks, e0)
      /\ openExecutions' = IF e0.kind = "STARTED" THEN openExecutions \union {e0.session}
                           ELSE openExecutions \ {e0.session}
  BY DEF OnEvent, HandleTurnEvent, IInv, HostInv
<1>2. /\ Len(events) \in Nat \ {0} /\ DOMAIN events = 1..Len(events)
      /\ IsList(events') /\ DOMAIN events' = 1..(Len(events) - 1)
      /\ \A i \in 1..(Len(events) - 1) : events'[i] = events[i + 1]
      /\ e0 = events[1]
  <2>1. IsList(events) /\ events # <<>>
    BY DEF OnEvent, IInv, HostInv
  <2> QED BY <1>1, <2>1, TailList
<1>3. EventOK(e0)
  BY <1>2 DEF IInv, HostInv
<1> HIDE DEF e0
<1>4. /\ IsList(tasks') /\ DOMAIN tasks = 1..Len(tasks) /\ Len(tasks) \in Nat
      /\ \A i \in DOMAIN tasks : tasks'[i] = tasks[i]
      /\ \A i \in DOMAIN tasks' :
           i \in DOMAIN tasks \/ (i = new /\ tasks'[new] = e0 /\ e0.kind # "STARTED")
  <2>1. IsList(tasks) /\ DOMAIN tasks = 1..Len(tasks) /\ Len(tasks) \in Nat
    BY ListOfSeq DEF IInv, HostInv, IsList
  <2>2. CASE e0.kind = "STARTED"
    <3>1. tasks' = tasks
      BY <2>2, <1>1
    <3> QED BY <2>1, <3>1
  <2>3. CASE e0.kind # "STARTED"
    <3>1. tasks' = Append(tasks, e0)
      BY <2>3, <1>1
    <3>2. DOMAIN tasks' = 1..new /\ tasks'[new] = e0
      BY <2>1, <3>1, AppendList
    <3> QED BY <2>1, <2>3, <3>1, <3>2, AppendList
  <2> QED BY <2>2, <2>3
<1> HIDE DEF new
<1>5. ASSUME NEW p, NEW s, NEW t, NEW inputs, InFlight(p, s, t, inputs)'
      PROVE  \E q : InFlight(q, s, t, inputs) /\ p = nu(q)
  <2>1. CASE (/\ s \in Sessions /\ running[s] # None
              /\ p = <<"run", s, 0>>
              /\ t = running[s].turn /\ inputs = running[s].inputs)'
    <3>1. InFlight(p, s, t, inputs) /\ nu(p) = p
      BY <2>1, <1>1 DEF InFlight
    <3> QED BY <3>1
  <2>2. CASE (\E i \in DOMAIN events :
                /\ events[i].kind # "STARTED" /\ s = events[i].session
                /\ p = <<"event", i, 0>>
                /\ t = events[i].exec.turn /\ inputs = events[i].exec.inputs)'
    <3>1. PICK i \in DOMAIN events' :
             /\ events'[i].kind # "STARTED" /\ s = events'[i].session
             /\ p = <<"event", i, 0>>
             /\ t = events'[i].exec.turn /\ inputs = events'[i].exec.inputs
      BY <2>2
    <3>2. i \in 1..(Len(events) - 1) /\ i + 1 \in DOMAIN events /\ events'[i] = events[i + 1]
      BY <3>1, <1>2
    <3>3. InFlight(<<"event", i + 1, 0>>, s, t, inputs)
      BY <3>1, <3>2 DEF InFlight
    <3>4. nu(<<"event", i + 1, 0>>) = <<"event", i, 0>>
      <4>1. <<"event", i + 1, 0>> # <<"event", 1, 0>> /\ (i + 1) - 1 = i
        BY <3>2, <1>2
      <4> QED BY <4>1
    <3> QED BY <3>1, <3>3, <3>4
  <2>3. CASE (\E i \in DOMAIN tasks :
                /\ tasks[i].kind # "STARTED" /\ s = tasks[i].session
                /\ p = <<"task", i, 0>>
                /\ t = tasks[i].exec.turn /\ inputs = tasks[i].exec.inputs)'
    <3>1. PICK i \in DOMAIN tasks' :
             /\ tasks'[i].kind # "STARTED" /\ s = tasks'[i].session
             /\ p = <<"task", i, 0>>
             /\ t = tasks'[i].exec.turn /\ inputs = tasks'[i].exec.inputs
      BY <2>3
    <3>2. CASE i \in DOMAIN tasks
      <4>1. InFlight(p, s, t, inputs) /\ nu(p) = p
        BY <3>1, <3>2, <1>4 DEF InFlight
      <4> QED BY <4>1
    <3>3. CASE i = new /\ tasks'[new] = e0 /\ e0.kind # "STARTED"
      <4>1. 1 \in DOMAIN events /\ e0 = events[1]
        BY <1>2
      <4>2. InFlight(<<"event", 1, 0>>, s, t, inputs)
        BY <3>1, <3>3, <4>1 DEF InFlight
      <4> QED BY <3>1, <3>3, <4>2
    <3> QED BY <3>1, <3>2, <3>3, <1>4
  <2>4. CASE (\E job \in jobs :
                /\ job.stage = "reviewing" /\ s = job.session
                /\ p = <<"job", job, 0>>
                /\ t = job.turn /\ inputs = job.inputs)'
    <3>1. InFlight(p, s, t, inputs) /\ nu(p) = p
      BY <2>4, <1>1 DEF InFlight
    <3> QED BY <3>1
  <2> QED BY <1>5, <2>1, <2>2, <2>3, <2>4 DEF InFlight
<1>6. ASSUME NEW p, NEW c, NEW n, NEW s, Move(p, c, n, s)'
      PROVE  \E q : Move(q, c, n, s) /\ p = nu(q)
  <2>1. CASE (\E i \in DOMAIN inbox[s] :
                /\ s \in Sessions /\ p = <<"inbox", s, i>>
                /\ IsMarkOf(inbox[s][i], c) /\ n = inbox[s][i].attempt)'
    <3>1. Move(p, c, n, s) /\ nu(p) = p
      BY <2>1, <1>1 DEF Move, IsMarkOf
    <3> QED BY <3>1
  <2>2. CASE \E t, inputs : InFlight(p, s, t, inputs)' /\ CarriesNth(inputs, c, n)
    BY <2>2, <1>5 DEF Move
  <2>3. CASE (\E job \in jobs :
                /\ Pending(job) /\ s = job.session
                /\ p = <<"job", job, 0>>
                /\ c = job.step.chainId /\ n = job.step.attempt - 1)'
    <3>1. Move(p, c, n, s) /\ nu(p) = p
      BY <2>3, <1>1 DEF Move, Pending
    <3> QED BY <3>1
  <2> QED BY <1>6, <2>1, <2>2, <2>3 DEF Move, CarriesNth, IsMarkOf
<1> HIDE DEF nu
<1>7. FlightKept /\ FlightInv'
  <2>1. FlightKept
    BY <1>5 DEF FlightKept
  <2>2. ASSUME NEW t, NEW p, NEW s, NEW inputs, NEW q, NEW u, NEW others,
               InFlight(p, s, t, inputs)', InFlight(q, u, t, others)'
        PROVE  p = q
    <3>1. PICK x : InFlight(x, s, t, inputs) /\ p = nu(x)
      BY <2>2, <1>5
    <3>2. PICK y : InFlight(y, u, t, others) /\ q = nu(y)
      BY <2>2, <1>5
    <3>3. x = y
      BY <3>1, <3>2 DEF IInv, FlightInv
    <3> QED BY <3>1, <3>2, <3>3
  <2> QED BY <2>1, <2>2 DEF FlightInv
<1>8. MovesKept
  <2>1. ASSUME NEW c, NEW p, NEW n, NEW s, NEW q, NEW m, NEW u,
               Move(p, c, n, s)', Move(q, c, m, u)'
        PROVE  p = q
    <3>1. PICK x : Move(x, c, n, s) /\ p = nu(x)
      BY <2>1, <1>6
    <3>2. PICK y : Move(y, c, m, u) /\ q = nu(y)
      BY <2>1, <1>6
    <3>3. x = y
      BY <3>1, <3>2 DEF IInv, MoveInv
    <3> QED BY <3>1, <3>2, <3>3
  <2> QED BY <2>1, <1>6 DEF MovesKept
<1>9. HostInv'
  <2>1. /\ Messages' = Messages
        /\ \A x : ExecOK(x) => ExecOK(x)'
        /\ \A e : EventOK(e) => EventOK(e)'
    <3>1. Messages' = Messages
      BY <1>1 DEF TurnIds, Messages, Marks
    <3> QED BY <3>1, <1>1, TurnIdsGrow
  <2>2. \A i \in DOMAIN events' : \A e : e = events'[i] => EventOK(e)'
    <3>1. \A i \in DOMAIN events' : i + 1 \in DOMAIN events /\ events'[i] = events[i + 1]
      BY <1>2
    <3> QED BY <3>1, <2>1 DEF IInv, HostInv
  <2>3. \A i \in DOMAIN tasks' : \A e : e = tasks'[i] => EventOK(e)'
    BY <2>1, <1>3, <1>4 DEF IInv, HostInv
  <2>4. \A s \in Sessions : IsList(inbox'[s]) /\ Members(inbox'[s]) \subseteq Messages'
    BY <1>1, <2>1 DEF IInv, HostInv
  <2>5. \A s \in Sessions : \A x : x = running'[s] /\ x # None => DOMAIN x = {"turn", "inputs"} /\ ExecOK(x)'
    BY <1>1, <2>1 DEF IInv, HostInv
  <2>6. openExecutions' \subseteq Sessions
    BY <1>1, <1>3 DEF IInv, HostInv, EventOK
  <2>7. /\ DOMAIN inbox' = Sessions /\ DOMAIN running' = Sessions
        /\ userSent' \in [Sessions -> 0..MaxUserMessages]
    BY <1>1 DEF IInv, HostInv
  <2> QED BY <1>1, <1>2, <1>4, <2>2, <2>3, <2>4, <2>5, <2>6, <2>7 DEF HostInv
<1> QED BY <1>1, <1>7, <1>8, <1>9, HostStepKeeps

-----------------------------------------------------------------------------
(* Chains leave the list, and records join the log.                         *)

LEMMA WithoutChain ==
  ASSUME NEW cs, OnePerChain(cs), NEW c, NEW t, t = Without(cs, c)
  PROVE  /\ OnePerChain(t)
         /\ Members(t) \subseteq Members(cs)
         /\ \A e \in Members(t) : e.state.chainId # c
         /\ Len(cs) \in Nat /\ Len(t) \in Nat /\ Len(t) <= Len(cs)
         /\ c \in {e.state.chainId : e \in Members(cs)} => Len(t) = Len(cs) - 1
<1>1. IsList(cs) /\ Len(cs) \in Nat /\ DOMAIN cs = 1..Len(cs)
  BY ListOfSeq DEF OnePerChain, IsList
<1>2. CASE ~\E i \in DOMAIN cs : cs[i].state.chainId = c
  <2>1. t = cs
    BY <1>2 DEF Without
  <2>2. \A e \in Members(cs) : e.state.chainId # c
    BY <1>2 DEF Members
  <2>3. c \notin {e.state.chainId : e \in Members(cs)}
    BY <2>2
  <2>4. Len(cs) <= Len(cs)
    BY <1>1
  <2> QED BY <1>1, <2>1, <2>2, <2>3, <2>4, Zenon
<1>3. CASE \E i \in DOMAIN cs : cs[i].state.chainId = c
  <2>1. PICK at \in DOMAIN cs : cs[at].state.chainId = c /\ t = RemovedAt(cs, at)
    BY <1>3 DEF Without
  <2>2. t = SubSeq(cs, 1, at - 1) \o SubSeq(cs, at + 1, Len(cs))
    BY <2>1 DEF RemovedAt
  <2>3. /\ IsList(t)
        /\ Len(cs) \in Nat \ {0} /\ DOMAIN cs = 1..Len(cs)
        /\ Len(t) = Len(cs) - 1 /\ DOMAIN t = 1..(Len(cs) - 1)
        /\ \A k \in 1..(at - 1) : t[k] = cs[k]
        /\ \A k \in at..(Len(cs) - 1) : t[k] = cs[k + 1]
        /\ Members(t) \subseteq Members(cs)
    <3>1. IsList(t) /\ Members(t) \subseteq Members(cs)
      BY <1>1, <2>2, RemoveList
    <3>2. /\ Len(t) = Len(cs) - 1 /\ DOMAIN t = 1..(Len(cs) - 1)
          /\ Len(cs) \in Nat \ {0}
      BY <1>1, <2>2, RemoveList
    <3>3. \A k \in 1..(at - 1) : t[k] = cs[k]
      BY <1>1, <2>2, RemoveList
    <3>4. \A k \in at..(Len(cs) - 1) : t[k] = cs[k + 1]
      BY <1>1, <2>2, RemoveList
    <3> QED BY <1>1, <3>1, <3>2, <3>3, <3>4
  <2> DEFINE was(k) == IF k < at THEN k ELSE k + 1
  <2>4. \A k \in DOMAIN t : was(k) \in DOMAIN cs /\ was(k) # at /\ t[k] = cs[was(k)]
    <3> TAKE k \in DOMAIN t
    <3>1. at \in 1..Len(cs) /\ k \in 1..(Len(cs) - 1)
      BY <1>1, <2>1, <2>3
    <3>2. CASE k < at
      BY <3>1, <3>2, <2>3, <1>1
    <3>3. CASE ~(k < at)
      BY <3>1, <3>3, <2>3, <1>1
    <3> QED BY <3>2, <3>3
  <2>5. \A k, l \in DOMAIN t : was(k) = was(l) => k = l
    BY <1>1, <2>1, <2>3
  <2> HIDE DEF was
  <2>6. \A k, l \in DOMAIN t : t[k].state.chainId = t[l].state.chainId => k = l
    BY <2>4, <2>5 DEF OnePerChain
  <2>7. \A e \in Members(t) : e.state.chainId # c
    BY <2>1, <2>4 DEF OnePerChain, Members
  <2> QED BY <1>1, <2>3, <2>6, <2>7 DEF OnePerChain
<1> QED BY <1>2, <1>3

LEMMA ChainsDrop ==
  ASSUME IInv, turnCount' = turnCount, FlightKept, NEW c, chains' = Without(chains, c)
  PROVE  ChainsInv' /\ Members(chains)' \subseteq Members(chains)
<1>1. \A state : StateOK(state) => StateOK(state)'
  BY DecidedStays DEF IInv, HostInv
<1>2. /\ OnePerChain(chains') /\ Members(chains') \subseteq Members(chains)
      /\ Len(chains) \in Nat /\ Len(chains') \in Nat /\ Len(chains') <= Len(chains)
  BY WithoutChain DEF IInv, ChainsInv
<1>3. Len(chains') <= MaxActiveChains
  BY <1>2, RemediateAssumption DEF IInv, ChainsInv
<1>4. \A e \in Members(chains') : \A state : state = e.state => StateOK(state)'
  BY <1>1, <1>2 DEF IInv, ChainsInv
<1> QED BY <1>2, <1>3, <1>4 DEF ChainsInv

\* What RESOLVED means for one record.
Proven(entry) ==
  entry.result = "RESOLVED" =>
    /\ entry.remainingIds = {} /\ entry.resolvedIds = entry.originIds
    /\ entry.originIds # {}
    /\ entry.attempts \in 1..Cardinality(SentAt(entry.chainId))
    /\ Len(entry.turnIds) = entry.attempts + 1

LEMMA LogAppend ==
  ASSUME IInv, sent' = sent, NEW entry, chainLog' = Append(chainLog, entry), Proven(entry)
  PROVE  LogInv'
<1>1. \A c : SentAt(c)' = SentAt(c)
  BY DEF SentAt
<1>2. IsList(chainLog) /\ \A i \in DOMAIN chainLog : Proven(chainLog[i])
  BY DEF IInv, LogInv, ResolvedMeansProven, Proven
<1>3. /\ IsList(chainLog') /\ DOMAIN chainLog' = 1..(Len(chainLog) + 1)
      /\ DOMAIN chainLog = 1..Len(chainLog) /\ Len(chainLog) \in Nat
      /\ \A i \in DOMAIN chainLog : chainLog'[i] = chainLog[i]
      /\ chainLog'[Len(chainLog) + 1] = entry
  BY <1>2, AppendList
<1>4. \A i \in DOMAIN chainLog' : i \in DOMAIN chainLog \/ i = Len(chainLog) + 1
  BY <1>3
<1>5. \A i \in DOMAIN chainLog' : Proven(chainLog'[i])
  BY <1>2, <1>3, <1>4
<1>6. \A x : Proven(x)' <=> Proven(x)
  BY <1>1 DEF Proven
<1>7. \A i \in DOMAIN chainLog' : \A x : x = chainLog'[i] => Proven(x)'
  BY <1>5, <1>6
<1> QED BY <1>3, <1>7 DEF LogInv, ResolvedMeansProven, Proven

\* A record of a chain that ended otherwise.
LEMMA ClosureIsProven ==
  ASSUME NEW state, NEW code, code # "RESOLVED"
  PROVE  Proven(ClosureRecord(state, code))
BY DEF Proven, ClosureRecord, EndRecord

\* The numbers a session's deliveries are counted by.
LEMMA CountsTyped ==
  ASSUME IInv
  PROVE  \A s : /\ IsFiniteSet(SentTo(s)) /\ Cardinality(SentTo(s)) \in Nat
                /\ IsFiniteSet(PendingFor(s)) /\ Cardinality(PendingFor(s)) \in Nat
                /\ DeliveredCount(s) \in 0..SessionLimit
<1> TAKE s
<1>1. IsFiniteSet(SentTo(s))
  <2>1. DOMAIN sent = 1..Len(sent) /\ Len(sent) \in Nat
    BY ListOfSeq DEF IInv, SentInv, IsList
  <2>2. IsFiniteSet(1..Len(sent))
    BY <2>1, FS_Interval
  <2>3. SentTo(s) \subseteq 1..Len(sent)
    BY <2>1 DEF SentTo
  <2> QED BY <2>2, <2>3, FS_Subset
<1>2. IsFiniteSet(PendingFor(s))
  <2>1. IsFiniteSet(jobs) /\ PendingFor(s) \subseteq jobs
    BY DEF IInv, JobsInv, PendingFor
  <2> QED BY <2>1, FS_Subset
<1>3. DeliveredCount(s) \in 0..SessionLimit
  <2>1. CASE \E d \in Elements(deliveries) : d.session = s
    <3> DEFINE d == CHOOSE x \in Elements(deliveries) : x.session = s
    <3>1. d \in Members(deliveries)
      BY <2>1, ElementsAreMembers
    <3>2. DeliveredCount(s) = d.count
      BY <2>1 DEF DeliveredCount
    <3> HIDE DEF d
    <3> QED BY <3>1, <3>2 DEF IInv, CountsInv
  <2>2. CASE ~\E d \in Elements(deliveries) : d.session = s
    <3>1. DeliveredCount(s) = 0
      BY <2>2 DEF DeliveredCount
    <3> QED BY <3>1, RemediateAssumption
  <2> QED BY <2>1, <2>2
<1> QED BY <1>1, <1>2, <1>3, FS_CardinalityType

\* Deliveries count as before when no pending job comes or goes.
LEMMA CountsInvSame ==
  ASSUME IInv, deliveries' = deliveries, sent' = sent,
         \A s : Cardinality(PendingFor(s)') \in Nat /\ Cardinality(PendingFor(s)') <= Cardinality(PendingFor(s))
  PROVE  CountsInv'
<1>1. \A s : SentTo(s)' = SentTo(s) /\ DeliveredCount(s)' = DeliveredCount(s)
  BY DEF SentTo, DeliveredCount, Elements
<1>2. ASSUME FewSessions, NEW s \in Sessions
      PROVE  Cardinality(SentTo(s)) + Cardinality(PendingFor(s)') <= DeliveredCount(s)
  <2>1. Cardinality(SentTo(s)) + Cardinality(PendingFor(s)) <= DeliveredCount(s)
    BY <1>2 DEF IInv, CountsInv
  <2>2. /\ Cardinality(SentTo(s)) \in Nat /\ Cardinality(PendingFor(s)) \in Nat
        /\ DeliveredCount(s) \in Nat
    BY CountsTyped, RemediateAssumption
  <2> QED BY <2>1, <2>2
<1>3. (FewSessions => \A s \in Sessions :
         Cardinality(SentTo(s)) + Cardinality(PendingFor(s)) <= DeliveredCount(s))'
  BY <1>1, <1>2 DEF FewSessions
<1> QED BY <1>3 DEF IInv, CountsInv

-----------------------------------------------------------------------------
(* The attribution queue.                                                   *)

LEMMA OrphanEnds ==
  ASSUME IInv, turnCount' = turnCount, FlightKept, sent' = sent, NEW s0, EndOrphan(s0)
  PROVE  ChainsInv' /\ LogInv' /\ Members(chains)' \subseteq Members(chains)
<1>1. CASE ActiveChain(s0) = None
  <2>1. chains' = chains /\ chainLog' = chainLog
    BY <1>1 DEF EndOrphan
  <2> QED BY <2>1, ChainsInvKept, LogInvKept
<1>2. CASE ActiveChain(s0) # None
  <2> DEFINE active == ActiveChain(s0)
             code == DecideOrphanStep(active).code
  <2>1. /\ chains' = Without(chains, active.chainId)
        /\ chainLog' = Append(chainLog, ClosureRecord(active, code))
    BY <1>2 DEF EndOrphan, Close
  <2>2. code # "RESOLVED"
    BY DEF DecideOrphanStep, Stop
  <2> HIDE DEF code, active
  <2>3. Proven(ClosureRecord(active, code))
    BY <2>2, ClosureIsProven
  <2>4. LogInv'
    BY <2>1, <2>3, LogAppend
  <2>5. ChainsInv' /\ Members(chains)' \subseteq Members(chains)
    BY <2>1, ChainsDrop
  <2> QED BY <2>4, <2>5
<1> QED BY <1>1, <1>2

\* The oldest task leaves the queue; an attributed one becomes a review job.
LEMMA RunTaskKeeps ==
  ASSUME IInv, RunTask
  PROVE  IInv'
<1> DEFINE task == Head(tasks)
           new == Job(task.exec, task.session)
           nu(q) == IF q = <<"task", 1, 0>> THEN <<"job", new, 0>>
                    ELSE IF q[1] = "task" THEN <<"task", q[2] - 1, 0>> ELSE q
<1>1. /\ turnCount' = turnCount /\ turnCount \in Nat
      /\ inbox' = inbox /\ running' = running /\ userSent' = userSent /\ events' = events
      /\ openExecutions' = openExecutions /\ deliveries' = deliveries /\ sent' = sent
      /\ tasks' = Tail(tasks)
      /\ \/ jobs' = jobs /\ EndOrphan(task.session)
         \/ jobs' = jobs /\ chains' = chains /\ chainLog' = chainLog
         \/ /\ task.kind = "SUCCEEDED"
            /\ jobs' = jobs \union {new} /\ chains' = chains /\ chainLog' = chainLog
  BY DEF RunTask, hostVars, IInv, HostInv
<1>2. /\ Len(tasks) \in Nat \ {0} /\ DOMAIN tasks = 1..Len(tasks)
      /\ IsList(tasks') /\ DOMAIN tasks' = 1..(Len(tasks) - 1)
      /\ \A i \in 1..(Len(tasks) - 1) : tasks'[i] = tasks[i + 1]
      /\ task = tasks[1]
  <2>1. IsList(tasks) /\ tasks # <<>>
    BY DEF RunTask, IInv, HostInv
  <2> QED BY <1>1, <2>1, TailList
<1>3. EventOK(task)
  BY <1>2 DEF IInv, HostInv
<1> HIDE DEF task
<1>4. /\ DOMAIN new = {"turn", "session", "inputs", "stage", "step"}
      /\ new.turn = task.exec.turn /\ new.session = task.session
      /\ new.inputs = task.exec.inputs /\ new.stage = "reviewing"
  BY DEF Job
<1> HIDE DEF new
<1>5. \A job \in jobs' : job \in jobs \/ (job = new /\ task.kind = "SUCCEEDED")
  BY <1>1
<1>6. ASSUME NEW p, NEW s, NEW t, NEW inputs, InFlight(p, s, t, inputs)'
      PROVE  \E q : InFlight(q, s, t, inputs) /\ p = nu(q)
  <2>1. CASE (/\ s \in Sessions /\ running[s] # None
              /\ p = <<"run", s, 0>>
              /\ t = running[s].turn /\ inputs = running[s].inputs)'
    <3>1. InFlight(p, s, t, inputs) /\ nu(p) = p
      BY <2>1, <1>1 DEF InFlight
    <3> QED BY <3>1
  <2>2. CASE (\E i \in DOMAIN events :
                /\ events[i].kind # "STARTED" /\ s = events[i].session
                /\ p = <<"event", i, 0>>
                /\ t = events[i].exec.turn /\ inputs = events[i].exec.inputs)'
    <3>1. InFlight(p, s, t, inputs) /\ nu(p) = p
      BY <2>2, <1>1 DEF InFlight
    <3> QED BY <3>1
  <2>3. CASE (\E i \in DOMAIN tasks :
                /\ tasks[i].kind # "STARTED" /\ s = tasks[i].session
                /\ p = <<"task", i, 0>>
                /\ t = tasks[i].exec.turn /\ inputs = tasks[i].exec.inputs)'
    <3>1. PICK i \in DOMAIN tasks' :
             /\ tasks'[i].kind # "STARTED" /\ s = tasks'[i].session
             /\ p = <<"task", i, 0>>
             /\ t = tasks'[i].exec.turn /\ inputs = tasks'[i].exec.inputs
      BY <2>3
    <3>2. i \in 1..(Len(tasks) - 1) /\ i + 1 \in DOMAIN tasks /\ tasks'[i] = tasks[i + 1]
      BY <3>1, <1>2
    <3>3. InFlight(<<"task", i + 1, 0>>, s, t, inputs)
      BY <3>1, <3>2 DEF InFlight
    <3>4. nu(<<"task", i + 1, 0>>) = <<"task", i, 0>>
      <4>1. <<"task", i + 1, 0>> # <<"task", 1, 0>> /\ (i + 1) - 1 = i
        BY <3>2, <1>2
      <4> QED BY <4>1
    <3> QED BY <3>1, <3>3, <3>4
  <2>4. CASE (\E job \in jobs :
                /\ job.stage = "reviewing" /\ s = job.session
                /\ p = <<"job", job, 0>>
                /\ t = job.turn /\ inputs = job.inputs)'
    <3>1. PICK job \in jobs' :
             /\ job.stage = "reviewing" /\ s = job.session
             /\ p = <<"job", job, 0>>
             /\ t = job.turn /\ inputs = job.inputs
      BY <2>4
    <3>2. CASE job \in jobs
      <4>1. InFlight(p, s, t, inputs) /\ nu(p) = p
        BY <3>1, <3>2 DEF InFlight
      <4> QED BY <4>1
    <3>3. CASE job = new /\ task.kind = "SUCCEEDED"
      <4>1. 1 \in DOMAIN tasks /\ task = tasks[1]
        BY <1>2
      <4>2. InFlight(<<"task", 1, 0>>, s, t, inputs)
        BY <3>1, <3>3, <4>1, <1>4 DEF InFlight
      <4> QED BY <3>1, <3>3, <4>2
    <3> QED BY <3>1, <3>2, <3>3, <1>5
  <2> QED BY <1>6, <2>1, <2>2, <2>3, <2>4 DEF InFlight
<1>7. ASSUME NEW p, NEW c, NEW n, NEW s, Move(p, c, n, s)'
      PROVE  \E q : Move(q, c, n, s) /\ p = nu(q)
  <2>1. CASE (\E i \in DOMAIN inbox[s] :
                /\ s \in Sessions /\ p = <<"inbox", s, i>>
                /\ IsMarkOf(inbox[s][i], c) /\ n = inbox[s][i].attempt)'
    <3>1. Move(p, c, n, s) /\ nu(p) = p
      BY <2>1, <1>1 DEF Move, IsMarkOf
    <3> QED BY <3>1
  <2>2. CASE \E t, inputs : InFlight(p, s, t, inputs)' /\ CarriesNth(inputs, c, n)
    BY <2>2, <1>6 DEF Move
  <2>3. CASE (\E job \in jobs :
                /\ Pending(job) /\ s = job.session
                /\ p = <<"job", job, 0>>
                /\ c = job.step.chainId /\ n = job.step.attempt - 1)'
    <3>1. \A job \in jobs' : Pending(job) => job \in jobs
      BY <1>4, <1>5 DEF Pending
    <3>2. Move(p, c, n, s) /\ nu(p) = p
      BY <2>3, <3>1 DEF Move, Pending
    <3> QED BY <3>2
  <2> QED BY <1>7, <2>1, <2>2, <2>3 DEF Move, CarriesNth, IsMarkOf
<1> HIDE DEF nu
<1>8. FlightKept /\ FlightInv'
  <2>1. FlightKept
    BY <1>6 DEF FlightKept
  <2>2. ASSUME NEW t, NEW p, NEW s, NEW inputs, NEW q, NEW u, NEW others,
               InFlight(p, s, t, inputs)', InFlight(q, u, t, others)'
        PROVE  p = q
    <3>1. PICK x : InFlight(x, s, t, inputs) /\ p = nu(x)
      BY <2>2, <1>6
    <3>2. PICK y : InFlight(y, u, t, others) /\ q = nu(y)
      BY <2>2, <1>6
    <3>3. x = y
      BY <3>1, <3>2 DEF IInv, FlightInv
    <3> QED BY <3>1, <3>2, <3>3
  <2> QED BY <2>1, <2>2 DEF FlightInv
<1>9. MovesKept
  <2>1. ASSUME NEW c, NEW p, NEW n, NEW s, NEW q, NEW m, NEW u,
               Move(p, c, n, s)', Move(q, c, m, u)'
        PROVE  p = q
    <3>1. PICK x : Move(x, c, n, s) /\ p = nu(x)
      BY <2>1, <1>7
    <3>2. PICK y : Move(y, c, m, u) /\ q = nu(y)
      BY <2>1, <1>7
    <3>3. x = y
      BY <3>1, <3>2 DEF IInv, MoveInv
    <3> QED BY <3>1, <3>2, <3>3
  <2> QED BY <2>1, <1>7 DEF MovesKept
<1>10. HostInv'
  <2>1. /\ Messages' = Messages
        /\ \A x : ExecOK(x) => ExecOK(x)'
        /\ \A e : EventOK(e) => EventOK(e)'
    <3>1. Messages' = Messages
      BY <1>1 DEF TurnIds, Messages, Marks
    <3> QED BY <3>1, <1>1, TurnIdsGrow
  <2>2. \A i \in DOMAIN tasks' : \A e : e = tasks'[i] => EventOK(e)'
    <3>1. \A i \in DOMAIN tasks' : i + 1 \in DOMAIN tasks /\ tasks'[i] = tasks[i + 1]
      BY <1>2
    <3> QED BY <3>1, <2>1 DEF IInv, HostInv
  <2>3. \A i \in DOMAIN events' : \A e : e = events'[i] => EventOK(e)'
    BY <2>1, <1>1 DEF IInv, HostInv
  <2>4. \A s \in Sessions : IsList(inbox'[s]) /\ Members(inbox'[s]) \subseteq Messages'
    BY <1>1, <2>1 DEF IInv, HostInv
  <2>5. \A s \in Sessions : \A x : x = running'[s] /\ x # None => DOMAIN x = {"turn", "inputs"} /\ ExecOK(x)'
    BY <1>1, <2>1 DEF IInv, HostInv
  <2>6. /\ DOMAIN inbox' = Sessions /\ DOMAIN running' = Sessions /\ IsList(events')
        /\ userSent' \in [Sessions -> 0..MaxUserMessages] /\ openExecutions' \subseteq Sessions
    BY <1>1 DEF IInv, HostInv
  <2> QED BY <1>1, <1>2, <2>2, <2>3, <2>4, <2>5, <2>6 DEF HostInv
<1>11. ChainsInv' /\ LogInv' /\ Members(chains)' \subseteq Members(chains)
  <2>1. CASE EndOrphan(task.session)
    BY <2>1, <1>1, <1>8, OrphanEnds
  <2>2. CASE chains' = chains /\ chainLog' = chainLog
    BY <2>2, <1>1, <1>8, ChainsInvKept, LogInvKept
  <2> QED BY <1>1, <2>1, <2>2
<1>12. JobsInv'
  <2>1. \A job : JobOK(job) => JobOK(job)'
    BY <1>1, <1>8, <1>11, JobStaysOK
  <2>2. JobOK(new)
    BY <1>3, <1>4 DEF JobOK, EventOK, ExecOK, Pending
  <2>3. \A job \in jobs' : JobOK(job)
    BY <1>5, <2>2 DEF IInv, JobsInv
  <2>4. \A job \in jobs' : JobOK(job)'
    BY <2>1, <2>3
  <2>5. IsFiniteSet(jobs')
    <3>1. IsFiniteSet(jobs) /\ IsFiniteSet(jobs \union {new})
      BY FS_AddElement DEF IInv, JobsInv
    <3> QED BY <1>1, <3>1
  <2> QED BY <2>4, <2>5 DEF JobsInv
<1>13. CountsInv'
  <2>1. \A s : PendingFor(s)' = PendingFor(s)
    <3>1. ~Pending(new) /\ \A job \in jobs : job \in jobs'
      BY <1>1, <1>4 DEF Pending
    <3> QED BY <1>5, <3>1 DEF PendingFor, Pending
  <2>2. \A s : Cardinality(PendingFor(s)) \in Nat /\ Cardinality(PendingFor(s)) <= Cardinality(PendingFor(s))
    BY CountsTyped
  <2> QED BY <1>1, <2>1, <2>2, CountsInvSame
<1>14. MoveInv' /\ SentInv'
  BY <1>1, <1>8, <1>9, MoveInvKept, SentInvKept
<1> QED BY <1>8, <1>10, <1>11, <1>12, <1>13, <1>14 DEF IInv

-----------------------------------------------------------------------------
(* The jobs.                                                                *)

jobStepVars == <<running, events, userSent, turnCount, openExecutions, tasks>>

LEMMA HostInvKept ==
  ASSUME IInv, UNCHANGED jobStepVars, inbox' = inbox
  PROVE  HostInv'
<1>1. UNCHANGED <<running, events, userSent, turnCount, openExecutions, tasks>>
  BY DEF jobStepVars
<1>2. Messages' = Messages /\ TurnIds' = TurnIds
  BY <1>1 DEF Messages, Marks, TurnIds
<1>3. \A e : EventOK(e) => EventOK(e)'
  BY <1>2 DEF EventOK, ExecOK
<1>4. \A x : ExecOK(x) => ExecOK(x)'
  BY <1>2 DEF ExecOK
<1>5. (\A i \in DOMAIN events : EventOK(events[i]))' /\ (\A i \in DOMAIN tasks : EventOK(tasks[i]))'
  BY <1>1, <1>3 DEF IInv, HostInv
<1>6. \A s \in Sessions : \A x : x = running'[s] /\ x # None => DOMAIN x = {"turn", "inputs"} /\ ExecOK(x)'
  BY <1>1, <1>4 DEF IInv, HostInv
<1>7. \A s \in Sessions : IsList(inbox'[s]) /\ Members(inbox'[s]) \subseteq Messages'
  BY <1>2 DEF IInv, HostInv
<1>8. /\ turnCount' \in Nat /\ DOMAIN inbox' = Sessions /\ DOMAIN running' = Sessions
      /\ IsList(events') /\ IsList(tasks')
      /\ userSent' \in [Sessions -> 0..MaxUserMessages] /\ openExecutions' \subseteq Sessions
  BY <1>1 DEF IInv, HostInv
<1> QED BY <1>5, <1>6, <1>7, <1>8 DEF HostInv

\* When no job enters review, what is in flight or moves was there before.
LEMMA InFlightBefore ==
  ASSUME IInv, UNCHANGED jobStepVars,
         \A job \in jobs' : job.stage = "reviewing" => job \in jobs
  PROVE  /\ \A p, s, t, inputs : InFlight(p, s, t, inputs)' => InFlight(p, s, t, inputs)
         /\ FlightKept /\ FlightInv'
<1>1. ASSUME NEW p, NEW s, NEW t, NEW inputs, InFlight(p, s, t, inputs)'
      PROVE  InFlight(p, s, t, inputs)
  BY <1>1 DEF InFlight, jobStepVars
<1>2. FlightKept
  BY <1>1 DEF FlightKept
<1>3. \A t, p, s, inputs, q, u, others : InFlight(p, s, t, inputs)' /\ InFlight(q, u, t, others)' => p = q
  BY <1>1 DEF IInv, FlightInv
<1> QED BY <1>1, <1>2, <1>3 DEF FlightInv

\* A job that ends takes its moves away, with or without its chain.
LEMMA JobEnds ==
  ASSUME IInv, NEW job0 \in jobs, jobs' = jobs \ {job0},
         UNCHANGED jobStepVars, inbox' = inbox, deliveries' = deliveries, sent' = sent,
         chains' = chains \/ (\E c : chains' = Without(chains, c)),
         LogInv'
  PROVE  IInv'
<1>1. UNCHANGED <<running, events, userSent, turnCount, openExecutions, tasks>>
  BY DEF jobStepVars
<1>2. /\ \A p, s, t, inputs : InFlight(p, s, t, inputs)' => InFlight(p, s, t, inputs)
      /\ FlightKept /\ FlightInv'
  BY InFlightBefore
<1>3. HostInv'
  BY HostInvKept
<1>4. ASSUME NEW p, NEW c, NEW n, NEW s, Move(p, c, n, s)'
      PROVE  Move(p, c, n, s)
  <2>1. CASE (\E i \in DOMAIN inbox[s] :
                /\ s \in Sessions /\ p = <<"inbox", s, i>>
                /\ IsMarkOf(inbox[s][i], c) /\ n = inbox[s][i].attempt)'
    BY <2>1 DEF Move, IsMarkOf
  <2>2. CASE \E t, inputs : InFlight(p, s, t, inputs)' /\ CarriesNth(inputs, c, n)
    BY <2>2, <1>2 DEF Move
  <2>3. CASE (\E job \in jobs :
                /\ Pending(job) /\ s = job.session
                /\ p = <<"job", job, 0>>
                /\ c = job.step.chainId /\ n = job.step.attempt - 1)'
    BY <2>3 DEF Move, Pending
  <2> QED BY <1>4, <2>1, <2>2, <2>3 DEF Move, CarriesNth, IsMarkOf
<1>5. MovesKept
  <2>1. \A c, p, n, s, q, m, u : Move(p, c, n, s)' /\ Move(q, c, m, u)' => p = q
    BY <1>4 DEF IInv, MoveInv
  <2> QED BY <1>4, <2>1 DEF MovesKept
<1>6. MoveInv' /\ SentInv'
  BY <1>1, <1>2, <1>5, MoveInvKept, SentInvKept
<1>7. ChainsInv' /\ Members(chains)' \subseteq Members(chains)
  <2>1. CASE chains' = chains
    BY <2>1, <1>1, <1>2, ChainsInvKept
  <2>2. CASE \E c : chains' = Without(chains, c)
    BY <2>2, <1>1, <1>2, ChainsDrop
  <2> QED BY <2>1, <2>2
<1>8. JobsInv'
  <2>1. \A job : JobOK(job) => JobOK(job)'
    BY <1>1, <1>2, <1>7, JobStaysOK
  <2>2. IsFiniteSet(jobs')
    BY FS_Subset DEF IInv, JobsInv
  <2> QED BY <2>1, <2>2 DEF IInv, JobsInv
<1>9. CountsInv'
  <2>1. ASSUME NEW s
        PROVE  /\ Cardinality(PendingFor(s)') \in Nat
               /\ Cardinality(PendingFor(s)') <= Cardinality(PendingFor(s))
    <3>1. IsFiniteSet(PendingFor(s))
      BY CountsTyped
    <3>2. PendingFor(s)' \subseteq PendingFor(s)
      BY DEF PendingFor, Pending
    <3> QED BY <3>1, <3>2, FS_Subset, FS_CardinalityType
  <2> QED BY <2>1, CountsInvSame
<1> QED BY <1>2, <1>3, <1>6, <1>7, <1>8, <1>9 DEF IInv

LEMMA JobClosesChain ==
  ASSUME IInv, NEW job0 \in jobs, jobs' = jobs \ {job0},
         UNCHANGED jobStepVars, inbox' = inbox, deliveries' = deliveries, sent' = sent,
         NEW state, NEW code, code # "RESOLVED", Close(chains, chainLog, state, code)
  PROVE  IInv'
<1>1. /\ chains' = Without(chains, state.chainId)
      /\ chainLog' = Append(chainLog, ClosureRecord(state, code))
  BY DEF Close
<1>2. LogInv'
  BY <1>1, ClosureIsProven, LogAppend
<1> QED BY <1>1, <1>2, JobEnds

LEMMA DraftFailsKeeps ==
  ASSUME IInv, NEW job \in jobs, DraftFails(job)
  PROVE  IInv'
BY JobClosesChain DEF DraftFails, hostVars, jobStepVars

LEMMA DraftReadyBusyKeeps ==
  ASSUME IInv, NEW job \in jobs, DraftReadyBusy(job)
  PROVE  IInv'
BY JobClosesChain DEF DraftReadyBusy, hostVars, jobStepVars

LEMMA PromptRejectedKeeps ==
  ASSUME IInv, NEW job \in jobs, PromptRejected(job)
  PROVE  IInv'
BY JobClosesChain DEF PromptRejected, hostVars, jobStepVars

\* Saving a chain replaces its entry or adds one.
LEMMA SavedFacts ==
  ASSUME OnePerChain(chains), NEW s, NEW st, NEW cs, cs = SavedChains(s, st)
  PROVE  /\ OnePerChain(cs)
         /\ Len(chains) \in Nat /\ Len(cs) \in Nat \ {0} /\ Len(cs) <= Len(chains) + 1
         /\ \A e \in Members(cs) :
              \/ e \in Members(chains) /\ e.state.chainId # st.chainId
              \/ e = [session |-> s, state |-> st]
<1> DEFINE new == [session |-> s, state |-> st]
<1>1. Len(chains) \in Nat /\ DOMAIN chains = 1..Len(chains) /\ IsList(chains)
  BY ListOfSeq DEF OnePerChain, IsList
<1>2. CASE \E e \in Elements(chains) : e.state.chainId = st.chainId
  <2>1. cs = [i \in DOMAIN chains |-> IF chains[i].state.chainId = st.chainId THEN new ELSE chains[i]]
    BY <1>2 DEF SavedChains
  <2>2. new.state = st
    OBVIOUS
  <2> HIDE DEF new
  <2>3. /\ DOMAIN cs = 1..Len(chains)
        /\ \A i \in DOMAIN cs : cs[i].state.chainId = chains[i].state.chainId
        /\ \A i \in DOMAIN cs : cs[i] = new \/ (cs[i] = chains[i] /\ chains[i].state.chainId # st.chainId)
    BY <2>1, <2>2, <1>1
  <2>4. cs \in [1..Len(chains) -> Members(cs)]
    BY <2>1, <2>3 DEF Members
  <2>5. cs \in Seq(Members(cs))
    <3>1. cs \in UNION {[1..n -> Members(cs)] : n \in Nat}
      BY <2>4, <1>1
    <3> QED BY <3>1, SeqDef
  <2>6. IsList(cs) /\ Len(cs) = Len(chains)
    BY <2>3, <2>5, <1>1, LenProperties DEF IsList
  <2>7. OnePerChain(cs)
    BY <2>3, <2>6, <1>1 DEF OnePerChain
  <2>8. \A e \in Members(cs) : (e \in Members(chains) /\ e.state.chainId # st.chainId) \/ e = new
    BY <2>3, <1>1 DEF Members
  <2>9. Len(chains) # 0
    BY <1>2, <1>1 DEF Elements
  <2> QED BY <1>1, <2>6, <2>7, <2>8, <2>9 DEF new
<1>3. CASE ~\E e \in Elements(chains) : e.state.chainId = st.chainId
  <2>1. cs = Append(chains, new)
    BY <1>3 DEF SavedChains
  <2>2. new.state = st
    OBVIOUS
  <2> HIDE DEF new
  <2>3. /\ IsList(cs) /\ Len(cs) = Len(chains) + 1 /\ DOMAIN cs = 1..(Len(chains) + 1)
        /\ \A i \in 1..Len(chains) : cs[i] = chains[i]
        /\ cs[Len(chains) + 1] = new
        /\ Members(cs) = Members(chains) \union {new}
    BY <1>1, <2>1, AppendList
  <2>4. \A e \in Members(chains) : e.state.chainId # st.chainId
    BY <1>3, ElementsAreMembers
  <2>5. \A i \in 1..Len(chains) : chains[i].state.chainId # st.chainId
    BY <2>4, <1>1 DEF Members
  <2>6. \A i \in DOMAIN cs : i \in 1..Len(chains) \/ i = Len(chains) + 1
    BY <1>1, <2>3
  <2>7. \A i, j \in DOMAIN cs : cs[i].state.chainId = cs[j].state.chainId => i = j
    BY <1>1, <2>2, <2>3, <2>5, <2>6 DEF OnePerChain
  <2> QED BY <1>1, <2>3, <2>4, <2>7 DEF OnePerChain, new
<1> QED BY <1>2, <1>3

\* What a job in another stage is.
LEMMA MovedJob ==
  ASSUME NEW job, DOMAIN job = {"turn", "session", "inputs", "stage", "step"},
         NEW stage, NEW step, NEW next, next = [job EXCEPT !.stage = stage, !.step = step]
  PROVE  /\ DOMAIN next = {"turn", "session", "inputs", "stage", "step"}
         /\ next.turn = job.turn /\ next.session = job.session /\ next.inputs = job.inputs
         /\ next.stage = stage /\ next.step = step
OBVIOUS

\* The chain of a message in preparation moves nowhere else.
LEMMA OneJobPerChain ==
  ASSUME IInv, NEW a \in jobs, NEW b \in jobs, Pending(a), Pending(b),
         a.step.chainId = b.step.chainId
  PROVE  a = b
<1>1. /\ Move(<<"job", a, 0>>, a.step.chainId, a.step.attempt - 1, a.session)
      /\ Move(<<"job", b, 0>>, a.step.chainId, b.step.attempt - 1, b.session)
  BY DEF Move
<1>2. <<"job", a, 0>> = <<"job", b, 0>>
  BY <1>1, Zenon DEF IInv, MoveInv
<1> QED BY <1>2

\* The chains once a draft is ready: its state is among them, or went again.
LEMMA DraftIsSaved ==
  ASSUME IInv, NEW job0 \in jobs, DraftReadyIdle(job0)
  PROVE  /\ OnePerChain(chains') /\ Len(chains') <= MaxActiveChains
         /\ \A e \in Members(chains') :
              \/ e \in Members(chains) /\ e.state.chainId # job0.step.chainId
              \/ e.state = job0.step.state
         /\ LogInv'
<1>1. sent' = sent /\ job0.stage = "drafting"
  BY DEF DraftReadyIdle
<1>2. StepOK(job0.step)
  BY <1>1 DEF IInv, JobsInv, JobOK, Pending
<1>3. PICK saved : saved = SavedChains(job0.session, job0.step.state)
  OBVIOUS
<1>4. /\ OnePerChain(saved)
      /\ Len(chains) \in Nat /\ Len(saved) \in Nat \ {0} /\ Len(saved) <= Len(chains) + 1
      /\ \A e \in Members(saved) :
           \/ e \in Members(chains) /\ e.state.chainId # job0.step.chainId
           \/ e.state = job0.step.state
  <2>1. OnePerChain(chains)
    BY DEF IInv, ChainsInv
  <2>2. job0.step.state.chainId = job0.step.chainId
    BY <1>2 DEF StepOK
  <2>3. /\ OnePerChain(saved)
        /\ Len(chains) \in Nat /\ Len(saved) \in Nat \ {0} /\ Len(saved) <= Len(chains) + 1
        /\ \A e \in Members(saved) :
            \/ e \in Members(chains) /\ e.state.chainId # job0.step.state.chainId
            \/ e = [session |-> job0.session, state |-> job0.step.state]
    BY <1>3, <2>1, SavedFacts
  <2> QED BY <2>2, <2>3
<1>5. MaxActiveChains \in Nat /\ Len(chains) <= MaxActiveChains
  BY RemediateAssumption DEF IInv, ChainsInv
<1>6. /\ OnePerChain(chains') /\ Members(chains') \subseteq Members(saved)
      /\ Len(chains') <= MaxActiveChains
      /\ LogInv'
  <2>1. CASE Len(saved) > MaxActiveChains
    <3>1. Close(saved, chainLog, Head(saved).state, "EXPIRED")
      BY <2>1, <1>3 DEF DraftReadyIdle
    <3>2. PICK head : head = Head(saved)
      OBVIOUS
    <3>3. /\ chains' = Without(saved, head.state.chainId)
          /\ chainLog' = Append(chainLog, ClosureRecord(head.state, "EXPIRED"))
      BY <3>1, <3>2 DEF Close
    <3>4. LogInv'
      BY <3>3, <1>1, ClosureIsProven, LogAppend
    <3>5. head \in Members(saved)
      <4>1. IsList(saved) /\ saved # <<>>
        BY <1>4, EmptyList DEF OnePerChain
      <4> QED BY <4>1, <3>2, TailList
    <3>6. head.state.chainId \in {e.state.chainId : e \in Members(saved)}
      BY <3>5
    <3>7. /\ OnePerChain(chains') /\ Members(chains') \subseteq Members(saved)
          /\ Len(chains') = Len(saved) - 1
      BY <3>3, <3>6, <1>4, WithoutChain
    <3>8. Len(chains') <= MaxActiveChains
      BY <3>7, <1>4, <1>5
    <3> QED BY <3>4, <3>7, <3>8
  <2>2. CASE ~(Len(saved) > MaxActiveChains)
    <3>1. chains' = saved /\ chainLog' = chainLog
      BY <2>2, <1>3 DEF DraftReadyIdle
    <3>2. LogInv'
      BY <3>1, <1>1, LogInvKept
    <3> QED BY <3>1, <3>2, <2>2, <1>4, <1>5
  <2> QED BY <2>1, <2>2
<1> QED BY <1>4, <1>6

\* The chain of a draft is saved, and its message is handed over next.
LEMMA DraftReadyIdleKeeps ==
  ASSUME IInv, NEW job0 \in jobs, DraftReadyIdle(job0)
  PROVE  IInv'
<1>1. PICK next : next = [job0 EXCEPT !.stage = "prompting", !.step = job0.step]
  OBVIOUS
<1>2. /\ UNCHANGED <<running, events, userSent, turnCount, openExecutions, tasks>>
      /\ UNCHANGED jobStepVars
      /\ inbox' = inbox /\ deliveries' = deliveries /\ sent' = sent
      /\ jobs' = (jobs \ {job0}) \union {next}
      /\ job0.stage = "drafting"
  BY <1>1 DEF DraftReadyIdle, Moved, hostVars, jobStepVars
<1>3. JobOK(job0) /\ Pending(job0) /\ StepOK(job0.step)
  BY <1>2 DEF IInv, JobsInv, JobOK, Pending
<1>4. /\ DOMAIN next = {"turn", "session", "inputs", "stage", "step"}
      /\ next.turn = job0.turn /\ next.session = job0.session /\ next.inputs = job0.inputs
      /\ next.stage = "prompting" /\ next.step = job0.step
  BY <1>1, <1>3, MovedJob DEF JobOK
<1>5. \A job \in jobs' : (job \in jobs /\ job # job0) \/ job = next
  BY <1>2
<1>6. /\ \A p, s, t, inputs : InFlight(p, s, t, inputs)' => InFlight(p, s, t, inputs)
      /\ FlightKept /\ FlightInv'
  <2>1. \A job \in jobs' : job.stage = "reviewing" => job \in jobs
    BY <1>4, <1>5
  <2> QED BY <1>2, <2>1, InFlightBefore
<1>7. HostInv'
  BY <1>2, HostInvKept
<1> DEFINE nu(q) == IF q = <<"job", job0, 0>> THEN <<"job", next, 0>> ELSE q
<1>8. \A p, s, t, inputs : InFlight(p, s, t, inputs) => nu(p) = p
  BY <1>2 DEF InFlight
<1>9. ASSUME NEW p, NEW c, NEW n, NEW s, Move(p, c, n, s)'
      PROVE  \E q : Move(q, c, n, s) /\ p = nu(q)
  <2>1. CASE (\E i \in DOMAIN inbox[s] :
                /\ s \in Sessions /\ p = <<"inbox", s, i>>
                /\ IsMarkOf(inbox[s][i], c) /\ n = inbox[s][i].attempt)'
    <3>1. Move(p, c, n, s) /\ nu(p) = p
      BY <2>1, <1>2 DEF Move, IsMarkOf
    <3> QED BY <3>1
  <2>2. CASE \E t, inputs : InFlight(p, s, t, inputs)' /\ CarriesNth(inputs, c, n)
    <3>1. Move(p, c, n, s) /\ nu(p) = p
      BY <2>2, <1>6, <1>8 DEF Move
    <3> QED BY <3>1
  <2>3. CASE (\E job \in jobs :
                /\ Pending(job) /\ s = job.session
                /\ p = <<"job", job, 0>>
                /\ c = job.step.chainId /\ n = job.step.attempt - 1)'
    <3>1. PICK job \in jobs' :
             /\ Pending(job) /\ s = job.session
             /\ p = <<"job", job, 0>>
             /\ c = job.step.chainId /\ n = job.step.attempt - 1
      BY <2>3 DEF Pending
    <3>2. CASE job \in jobs /\ job # job0
      <4>1. Move(p, c, n, s) /\ nu(p) = p
        BY <3>1, <3>2 DEF Move
      <4> QED BY <4>1
    <3>3. CASE job = next
      <4>1. Move(<<"job", job0, 0>>, c, n, s)
        BY <3>1, <3>3, <1>3, <1>4 DEF Move
      <4> QED BY <3>1, <3>3, <4>1
    <3> QED BY <3>2, <3>3, <1>5
  <2> QED BY <1>9, <2>1, <2>2, <2>3 DEF Move, CarriesNth, IsMarkOf
<1> HIDE DEF nu
<1>10. MovesKept
  <2>1. ASSUME NEW c, NEW p, NEW n, NEW s, NEW q, NEW m, NEW u,
               Move(p, c, n, s)', Move(q, c, m, u)'
        PROVE  p = q
    <3>1. PICK x : Move(x, c, n, s) /\ p = nu(x)
      BY <2>1, <1>9
    <3>2. PICK y : Move(y, c, m, u) /\ q = nu(y)
      BY <2>1, <1>9
    <3>3. x = y
      BY <3>1, <3>2 DEF IInv, MoveInv
    <3> QED BY <3>1, <3>2, <3>3
  <2> QED BY <2>1, <1>9 DEF MovesKept
<1>11. MoveInv' /\ SentInv'
  BY <1>2, <1>6, <1>10, MoveInvKept, SentInvKept
<1>12. /\ OnePerChain(chains') /\ Len(chains') <= MaxActiveChains
       /\ \A e \in Members(chains') :
            \/ e \in Members(chains) /\ e.state.chainId # job0.step.chainId
            \/ e.state = job0.step.state
       /\ LogInv'
  BY DraftIsSaved
<1>13. /\ \A state : StateOK(state) => StateOK(state)'
       /\ \A step : StepOK(step) => StepOK(step)'
  BY <1>2, <1>6, DecidedStays DEF IInv, HostInv
<1>14. ChainsInv'
  <2>1. StateOK(job0.step.state)
    BY <1>3 DEF StepOK
  <2>2. \A e \in Members(chains) : StateOK(e.state)
    BY DEF IInv, ChainsInv
  <2>3. \A e \in Members(chains') : StateOK(e.state)
    BY <2>1, <2>2, <1>12
  <2>4. \A e \in Members(chains') : \A state : state = e.state => StateOK(state)'
    BY <2>3, <1>13
  <2> QED BY <2>4, <1>12 DEF ChainsInv
<1>15. JobsInv'
  <2>1. ASSUME NEW job \in jobs'
        PROVE  JobOK(job)'
    <3>1. /\ \A exec : ExecOK(exec) => ExecOK(exec)'
      BY <1>2, TurnIdsGrow DEF IInv, HostInv
    <3>2. CASE job = next
      <4>1. ExecOK(next)
        BY <1>3, <1>4 DEF JobOK, ExecOK
      <4>2. ExecOK(next)' /\ StepOK(next.step)'
        BY <4>1, <3>1, <1>3, <1>4, <1>13
      <4> QED BY <3>2, <4>2, <1>3, <1>4 DEF JobOK
    <3>3. CASE job \in jobs /\ job # job0
      <4>1. JobOK(job)
        BY <3>3 DEF IInv, JobsInv
      <4>2. ExecOK(job)' /\ (Pending(job) => StepOK(job.step)')
        BY <4>1, <3>1, <1>13 DEF JobOK
      <4>3. ASSUME job.stage = "drafting", NEW e \in Members(chains'),
                   e.state.chainId = job.step.chainId
            PROVE  ScopesWithin(e.state, job.step.state)
        <5>1. CASE e \in Members(chains)
          BY <5>1, <4>1, <4>3 DEF JobOK
        <5>2. CASE e.state = job0.step.state
          <6>1. Pending(job) /\ job.step.chainId = job0.step.chainId
            BY <5>2, <4>3, <1>3 DEF Pending, StepOK
          <6>2. job = job0
            BY <6>1, <3>3, <1>3, OneJobPerChain
          <6> QED BY <6>2, <3>3
        <5> QED BY <5>1, <5>2, <1>12
      <4> QED BY <4>1, <4>2, <4>3 DEF JobOK, Pending
    <3> QED BY <3>2, <3>3, <1>5
  <2>2. IsFiniteSet(jobs')
    <3>1. IsFiniteSet(jobs \ {job0})
      BY FS_Subset DEF IInv, JobsInv
    <3> QED BY <3>1, <1>2, FS_AddElement
  <2> QED BY <2>1, <2>2 DEF JobsInv
<1>16. CountsInv'
  <2>1. ASSUME NEW s
        PROVE  /\ Cardinality(PendingFor(s)') \in Nat
               /\ Cardinality(PendingFor(s)') <= Cardinality(PendingFor(s))
    <3>1. IsFiniteSet(PendingFor(s)) /\ Cardinality(PendingFor(s)) \in Nat
      BY CountsTyped
    <3>2. CASE s # job0.session
      <4>1. PendingFor(s)' = PendingFor(s)
        BY <3>2, <1>2, <1>4, <1>5 DEF PendingFor, Pending
      <4> QED BY <4>1, <3>1
    <3>3. CASE s = job0.session
      <4>1. PendingFor(s)' \subseteq (PendingFor(s) \ {job0}) \union {next}
        BY <3>3, <1>5 DEF PendingFor, Pending
      <4>2. job0 \in PendingFor(s)
        BY <3>3, <1>3 DEF PendingFor
      <4>3. /\ IsFiniteSet(PendingFor(s) \ {job0})
            /\ Cardinality(PendingFor(s) \ {job0}) = Cardinality(PendingFor(s)) - 1
        BY <4>2, <3>1, FS_RemoveElement
      <4>4. /\ IsFiniteSet((PendingFor(s) \ {job0}) \union {next})
            /\ \/ Cardinality((PendingFor(s) \ {job0}) \union {next}) = Cardinality(PendingFor(s)) - 1
               \/ Cardinality((PendingFor(s) \ {job0}) \union {next}) = Cardinality(PendingFor(s))
        <5>1. PICK rest : rest = PendingFor(s) \ {job0}
          OBVIOUS
        <5>2. /\ IsFiniteSet(rest \union {next})
              /\ \/ Cardinality(rest \union {next}) = Cardinality(rest)
                 \/ Cardinality(rest \union {next}) = Cardinality(rest) + 1
          BY <5>1, <4>3, FS_AddElement
        <5> QED BY <5>1, <5>2, <4>3, <3>1
      <4>5. /\ Cardinality(PendingFor(s)') \in Nat
            /\ Cardinality(PendingFor(s)') <= Cardinality((PendingFor(s) \ {job0}) \union {next})
        BY <4>1, <4>4, FS_Subset, FS_CardinalityType
      <4> QED BY <4>4, <4>5, <3>1
    <3> QED BY <3>2, <3>3
  <2> QED BY <2>1, <1>2, CountsInvSame
<1> QED BY <1>6, <1>7, <1>11, <1>12, <1>14, <1>15, <1>16 DEF IInv

\* The host takes a message: it waits in the session, as the next one sent.
LEMMA PromptAcceptedKeeps ==
  ASSUME IInv, NEW job0 \in jobs, PromptAccepted(job0)
  PROVE  IInv'
<1>1. PICK c0, s0, mark0 : /\ c0 = job0.step.chainId /\ s0 = job0.session
                           /\ mark0 = StepMark(job0.step)
  OBVIOUS
<1>2. /\ UNCHANGED <<running, events, userSent, turnCount, openExecutions, tasks>>
      /\ UNCHANGED jobStepVars
      /\ chains' = chains /\ deliveries' = deliveries /\ chainLog' = chainLog
      /\ jobs' = jobs \ {job0}
      /\ inbox' = [inbox EXCEPT ![s0] = Append(@, mark0)]
      /\ sent' = Append(sent, [session |-> s0, mark |-> mark0])
      /\ job0.stage = "prompting"
      /\ turnCount \in Nat
  BY <1>1 DEF PromptAccepted, jobStepVars, IInv, HostInv
<1>3. Pending(job0) /\ StepOK(job0.step) /\ s0 \in Sessions
  BY <1>1, <1>2 DEF IInv, JobsInv, JobOK, Pending
<1>4. /\ mark0.kind = "MARK" /\ mark0.chainId = c0 /\ mark0.attempt = job0.step.attempt
      /\ mark0 \in Marks /\ mark0.attempt \in Nat \ {0}
  <2>1. mark0 = Mark(c0, job0.step.attempt, MaxAttempts)
    BY <1>1, <1>3 DEF StepMark, StepOK
  <2>2. c0 \in TurnIds
    BY <1>1, <1>3 DEF StepOK, StateOK, Decided, TurnIds
  <2>3. job0.step.attempt \in 1..MaxAttempts
    BY <1>3, RemediateAssumption DEF StepOK, StateOK, WellMade, MAX_ATTEMPTS_CEILING
  <2>4. job0.step.attempt \in Nat \ {0}
    BY <2>3, RemediateAssumption DEF MAX_ATTEMPTS_CEILING
  <2> QED BY <2>1, <2>2, <2>3, <2>4 DEF Mark, Marks
<1>5. /\ \A p, s, t, inputs : InFlight(p, s, t, inputs)' => InFlight(p, s, t, inputs)
      /\ FlightKept /\ FlightInv'
  BY <1>2, InFlightBefore
<1>6. PICK new : new = Len(inbox[s0]) + 1
  OBVIOUS
<1>7. /\ \A s \in Sessions \ {s0} : inbox'[s] = inbox[s]
      /\ inbox'[s0] = Append(inbox[s0], mark0)
      /\ DOMAIN inbox' = Sessions
      /\ IsList(inbox[s0]) /\ Members(inbox[s0]) \subseteq Messages
  BY <1>2, <1>3 DEF IInv, HostInv
<1>8. /\ IsList(inbox'[s0])
      /\ Members(inbox'[s0]) = Members(inbox[s0]) \union {mark0}
      /\ \A i \in DOMAIN inbox'[s0] :
           \/ i \in DOMAIN inbox[s0] /\ inbox'[s0][i] = inbox[s0][i]
           \/ i = new /\ inbox'[s0][i] = mark0
  <2>1. /\ IsList(inbox'[s0]) /\ Members(inbox'[s0]) = Members(inbox[s0]) \union {mark0}
        /\ Len(inbox[s0]) \in Nat
        /\ DOMAIN inbox[s0] = 1..Len(inbox[s0]) /\ DOMAIN inbox'[s0] = 1..(Len(inbox[s0]) + 1)
        /\ \A i \in 1..Len(inbox[s0]) : inbox'[s0][i] = inbox[s0][i]
        /\ inbox'[s0][Len(inbox[s0]) + 1] = mark0
    BY <1>7, AppendList
  <2> QED BY <2>1, <1>6
<1>9. HostInv'
  <2>1. /\ Messages' = Messages
        /\ \A x : ExecOK(x) => ExecOK(x)'
        /\ \A e : EventOK(e) => EventOK(e)'
    <3>1. Messages' = Messages
      BY <1>2 DEF TurnIds, Messages, Marks
    <3> QED BY <3>1, <1>2, TurnIdsGrow
  <2>2. mark0 \in Messages
    BY <1>4 DEF Messages
  <2>3. \A s \in Sessions : IsList(inbox'[s]) /\ Members(inbox'[s]) \subseteq Messages'
    <3> TAKE s \in Sessions
    <3>1. CASE s = s0
      BY <3>1, <2>1, <2>2, <1>7, <1>8
    <3>2. CASE s # s0
      BY <3>2, <2>1, <1>7 DEF IInv, HostInv
    <3> QED BY <3>1, <3>2
  <2>4. (\A i \in DOMAIN events : EventOK(events[i]))' /\ (\A i \in DOMAIN tasks : EventOK(tasks[i]))'
    BY <1>2, <2>1 DEF IInv, HostInv
  <2>5. \A s \in Sessions : \A x : x = running'[s] /\ x # None => DOMAIN x = {"turn", "inputs"} /\ ExecOK(x)'
    BY <1>2, <2>1 DEF IInv, HostInv
  <2>6. /\ turnCount' \in Nat /\ DOMAIN running' = Sessions
        /\ IsList(events') /\ IsList(tasks')
        /\ userSent' \in [Sessions -> 0..MaxUserMessages] /\ openExecutions' \subseteq Sessions
    BY <1>2 DEF IInv, HostInv
  <2> QED BY <1>7, <2>3, <2>4, <2>5, <2>6 DEF HostInv
<1>10. Move(<<"job", job0, 0>>, c0, job0.step.attempt - 1, s0)
  BY <1>1, <1>3 DEF Move
<1>11. /\ job0.step.attempt - 1 = Cardinality(SentAt(c0))
       /\ Decided(c0)
       /\ \A i \in SentAt(c0) : sent[i].session = s0
  BY <1>10 DEF IInv, MoveInv
<1>12. ASSUME NEW p, NEW c, NEW n, NEW s, Move(p, c, n, s)'
       PROVE  \/ c # c0 /\ Move(p, c, n, s)
              \/ c = c0 /\ p = <<"inbox", s0, new>> /\ n = mark0.attempt /\ s = s0
  <2>0. Move(p, c, n, s) /\ p # <<"job", job0, 0>> => c # c0 /\ Move(p, c, n, s)
    BY <1>10 DEF IInv, MoveInv
  <2>1. CASE (\E i \in DOMAIN inbox[s] :
                /\ s \in Sessions /\ p = <<"inbox", s, i>>
                /\ IsMarkOf(inbox[s][i], c) /\ n = inbox[s][i].attempt)'
    <3>1. PICK i \in DOMAIN inbox'[s] :
             /\ s \in Sessions /\ p = <<"inbox", s, i>>
             /\ IsMarkOf(inbox'[s][i], c) /\ n = inbox'[s][i].attempt
      BY <2>1 DEF IsMarkOf
    <3>2. CASE s = s0 /\ i = new /\ inbox'[s0][i] = mark0
      BY <3>1, <3>2, <1>4 DEF IsMarkOf
    <3>3. CASE i \in DOMAIN inbox[s] /\ inbox'[s][i] = inbox[s][i]
      <4>1. Move(p, c, n, s) /\ p # <<"job", job0, 0>>
        BY <3>1, <3>3 DEF Move
      <4> QED BY <4>1, <2>0
    <3>4. s # s0 => i \in DOMAIN inbox[s] /\ inbox'[s][i] = inbox[s][i]
      BY <3>1, <1>7
    <3> QED BY <3>1, <3>2, <3>3, <3>4, <1>8
  <2>2. CASE \E t, inputs : InFlight(p, s, t, inputs)' /\ CarriesNth(inputs, c, n)
    <3>1. PICK t, inputs : InFlight(p, s, t, inputs) /\ CarriesNth(inputs, c, n)
      BY <2>2, <1>5
    <3>2. p # <<"job", job0, 0>>
      BY <3>1, <1>2 DEF InFlight
    <3>3. Move(p, c, n, s)
      BY <3>1 DEF Move
    <3> QED BY <3>2, <3>3, <2>0
  <2>3. CASE (\E job \in jobs :
                /\ Pending(job) /\ s = job.session
                /\ p = <<"job", job, 0>>
                /\ c = job.step.chainId /\ n = job.step.attempt - 1)'
    <3>1. PICK job \in jobs' :
             /\ Pending(job) /\ s = job.session
             /\ p = <<"job", job, 0>>
             /\ c = job.step.chainId /\ n = job.step.attempt - 1
      BY <2>3 DEF Pending
    <3>2. job \in jobs /\ job # job0
      BY <1>2
    <3>3. Move(p, c, n, s) /\ p # <<"job", job0, 0>>
      BY <3>1, <3>2 DEF Move
    <3> QED BY <3>3, <2>0
  <2> QED BY <1>12, <2>1, <2>2, <2>3 DEF Move, CarriesNth, IsMarkOf
<1>13. PICK last : last = Len(sent) + 1
  OBVIOUS
<1>14. /\ IsList(sent') /\ Len(sent) \in Nat
       /\ DOMAIN sent = 1..Len(sent) /\ DOMAIN sent' = DOMAIN sent \union {last}
       /\ last \notin DOMAIN sent
       /\ \A i \in DOMAIN sent : sent'[i] = sent[i] /\ i < last
       /\ sent'[last] = [session |-> s0, mark |-> mark0]
       /\ Members(sent') = Members(sent) \union {[session |-> s0, mark |-> mark0]}
       /\ last \in Nat
  <2>1. IsList(sent)
    BY DEF IInv, SentInv
  <2>2. /\ IsList(sent') /\ Len(sent) \in Nat
        /\ DOMAIN sent = 1..Len(sent) /\ DOMAIN sent' = 1..(Len(sent) + 1)
        /\ \A i \in 1..Len(sent) : sent'[i] = sent[i]
        /\ sent'[Len(sent) + 1] = [session |-> s0, mark |-> mark0]
        /\ Members(sent') = Members(sent) \union {[session |-> s0, mark |-> mark0]}
    BY <2>1, <1>2, AppendList
  <2> QED BY <2>2, <1>13
<1>15. /\ \A c : c # c0 => SentAt(c)' = SentAt(c)
       /\ SentAt(c0)' = SentAt(c0) \union {last}
       /\ last \notin SentAt(c0)
  <2>1. sent'[last].mark.chainId = c0
    BY <1>4, <1>14
  <2> QED BY <2>1, <1>14 DEF SentAt
<1>16. /\ \A c : IsFiniteSet(SentAt(c)) /\ Cardinality(SentAt(c)) \in Nat
       /\ Cardinality(SentAt(c0)') = Cardinality(SentAt(c0)) + 1
  <2>1. ASSUME NEW c PROVE IsFiniteSet(SentAt(c)) /\ Cardinality(SentAt(c)) \in Nat
    <3>1. IsFiniteSet(1..Len(sent))
      BY <1>14, FS_Interval
    <3>2. SentAt(c) \subseteq 1..Len(sent)
      BY <1>14 DEF SentAt
    <3> QED BY <3>1, <3>2, FS_Subset, FS_CardinalityType
  <2>2. Cardinality(SentAt(c0) \union {last}) = Cardinality(SentAt(c0)) + 1
    BY <2>1, <1>15, FS_AddElement
  <2> QED BY <2>1, <2>2, <1>15
<1>17. Cardinality(SentAt(c0)') = mark0.attempt
  BY <1>4, <1>11, <1>16
<1>18. \A c : Decided(c) => Decided(c)'
  BY <1>2, <1>5, DecidedStays
<1>19. MoveInv'
  <2>1. ASSUME NEW c, NEW p, NEW n, NEW s, NEW q, NEW m, NEW u,
               Move(p, c, n, s)', Move(q, c, m, u)'
        PROVE  p = q
    <3>1. CASE c = c0
      BY <3>1, <2>1, <1>12
    <3>2. CASE c # c0
      <4>1. Move(p, c, n, s) /\ Move(q, c, m, u)
        BY <3>2, <2>1, <1>12
      <4> QED BY <4>1 DEF IInv, MoveInv
    <3> QED BY <3>1, <3>2
  <2>2. ASSUME NEW c, NEW p, NEW n, NEW s, Move(p, c, n, s)'
        PROVE  (/\ Decided(c)
                /\ n = Cardinality(SentAt(c))
                /\ \A i \in SentAt(c) : sent[i].session = s)'
    <3>1. CASE c = c0
      <4>1. n = mark0.attempt /\ s = s0
        BY <3>1, <2>2, <1>12
      <4>2. \A i \in SentAt(c0)' : sent'[i].session = s0
        BY <1>11, <1>14, <1>15 DEF SentAt
      <4>3. Decided(c)'
        BY <3>1, <1>11, <1>18
      <4> QED BY <3>1, <4>1, <4>2, <4>3, <1>17
    <3>2. CASE c # c0
      <4>1. Move(p, c, n, s)
        BY <3>2, <2>2, <1>12
      <4>2. /\ Decided(c) /\ n = Cardinality(SentAt(c))
            /\ \A i \in SentAt(c) : sent[i].session = s
        BY <4>1 DEF IInv, MoveInv
      <4>3. \A i \in SentAt(c)' : sent'[i].session = s
        BY <3>2, <4>2, <1>14, <1>15 DEF SentAt
      <4>4. Decided(c)' /\ n = Cardinality(SentAt(c)')
        BY <3>2, <4>2, <1>15, <1>18
      <4> QED BY <4>3, <4>4
    <3> QED BY <3>1, <3>2
  <2> QED BY <2>1, <2>2 DEF MoveInv
<1>20. SentInv'
  <2>1. /\ Marks' = Marks
        /\ Members(sent') \subseteq [session : Sessions, mark : Marks]
    <3>1. Marks' = Marks
      BY <1>2 DEF Marks, TurnIds
    <3>2. [session |-> s0, mark |-> mark0] \in [session : Sessions, mark : Marks]
      BY <1>3, <1>4
    <3>3. Members(sent) \subseteq [session : Sessions, mark : Marks]
      BY DEF IInv, SentInv
    <3> QED BY <3>1, <3>2, <3>3, <1>14
  <2>2. ASSUME NEW i \in DOMAIN sent', NEW c, c = sent'[i].mark.chainId
        PROVE  Decided(c)'
    <3>1. CASE i = last
      BY <3>1, <2>2, <1>4, <1>11, <1>14, <1>18
    <3>2. CASE i \in DOMAIN sent
      BY <3>2, <2>2, <1>14, <1>18 DEF IInv, SentInv
    <3> QED BY <3>1, <3>2, <1>14
  <2>3. ASSUME NEW c, NEW i \in SentAt(c)'
        PROVE  /\ sent'[i].mark.attempt = Cardinality({j \in SentAt(c)' : j <= i})
               /\ \A j \in SentAt(c)' : sent'[j].session = sent'[i].session
    <3>1. CASE i \in SentAt(c)
      <4>1. i \in DOMAIN sent /\ sent'[i] = sent[i] /\ i < last
        BY <3>1, <1>14 DEF SentAt
      <4>2. {j \in SentAt(c)' : j <= i} = {j \in SentAt(c) : j <= i}
        BY <4>1, <1>14, <1>15
      <4>3. /\ sent[i].mark.attempt = Cardinality({j \in SentAt(c) : j <= i})
            /\ \A j \in SentAt(c) : sent[j].session = sent[i].session
        BY <3>1 DEF IInv, SentInv
      <4>4. \A j \in SentAt(c)' : sent'[j].session = sent'[i].session
        <5> TAKE j \in SentAt(c)'
        <5>1. CASE j \in SentAt(c)
          BY <5>1, <4>1, <4>3, <1>14 DEF SentAt
        <5>2. CASE c = c0 /\ j = last
          BY <5>2, <3>1, <4>1, <1>11, <1>14
        <5> QED BY <5>1, <5>2, <1>15
      <4> QED BY <4>1, <4>2, <4>3, <4>4
    <3>2. CASE c = c0 /\ i = last
      <4>1. {j \in SentAt(c0)' : j <= last} = SentAt(c0)'
        <5>1. \A j \in SentAt(c0)' : j <= last
          BY <1>14, <1>15 DEF SentAt
        <5> QED BY <5>1
      <4>2. \A j \in SentAt(c0)' : sent'[j].session = s0
        BY <1>11, <1>14, <1>15 DEF SentAt
      <4>3. sent'[last].mark.attempt = Cardinality({j \in SentAt(c0)' : j <= last})
        <5>1. sent'[last].mark.attempt = Cardinality(SentAt(c0)')
          BY <1>14, <1>17
        <5> QED BY <4>1, <5>1, Zenon
      <4>4. \A j \in SentAt(c0)' : sent'[j].session = sent'[last].session
        BY <4>2, <1>14
      <4> QED BY <3>2, <4>3, <4>4
    <3> QED BY <3>1, <3>2, <1>15
  <2>4. (\A i \in DOMAIN sent : Decided(sent[i].mark.chainId))'
    BY <2>2
  <2> QED BY <2>1, <2>3, <2>4, <1>14 DEF SentInv
<1>21. ChainsInv'
  BY <1>2, <1>5, ChainsInvKept
<1>22. JobsInv'
  <2>1. \A job : JobOK(job) => JobOK(job)'
    BY <1>2, <1>5, JobStaysOK
  <2>2. IsFiniteSet(jobs')
    BY <1>2, FS_Subset DEF IInv, JobsInv
  <2> QED BY <2>1, <2>2, <1>2 DEF IInv, JobsInv
<1>23. LogInv'
  <2>1. \A c : \A n : n \in 1..Cardinality(SentAt(c)) => n \in 1..Cardinality(SentAt(c)')
    <3> TAKE c
    <3>1. CASE c = c0
      <4>1. Cardinality(SentAt(c)) \in Nat /\ Cardinality(SentAt(c)') = Cardinality(SentAt(c)) + 1
        BY <3>1, <1>16
      <4> QED BY <4>1
    <3>2. CASE c # c0
      BY <3>2, <1>15
    <3> QED BY <3>1, <3>2
  <2>2. \A entry : Proven(entry) => Proven(entry)'
    <3>1. \A c : \A n : n \in 1..Cardinality(SentAt(c)) => (n \in 1..Cardinality(SentAt(c)))'
      BY <2>1
    <3> QED BY <3>1 DEF Proven
  <2>3. \A i \in DOMAIN chainLog' : \A entry : entry = chainLog'[i] => Proven(entry)'
    BY <2>2, <1>2 DEF IInv, LogInv, ResolvedMeansProven, Proven
  <2> QED BY <2>3, <1>2 DEF IInv, LogInv, ResolvedMeansProven, Proven
<1>24. CountsInv'
  <2>1. ASSUME FewSessions, NEW s \in Sessions
        PROVE  Cardinality(SentTo(s)') + Cardinality(PendingFor(s)') <= DeliveredCount(s)
    <3>1. /\ IsFiniteSet(SentTo(s)) /\ Cardinality(SentTo(s)) \in Nat
          /\ IsFiniteSet(PendingFor(s)) /\ Cardinality(PendingFor(s)) \in Nat
          /\ DeliveredCount(s) \in Nat
          /\ Cardinality(SentTo(s)) + Cardinality(PendingFor(s)) <= DeliveredCount(s)
      BY <2>1, CountsTyped, RemediateAssumption DEF IInv, CountsInv
    <3>2. CASE s # s0
      <4>1. SentTo(s)' = SentTo(s)
        BY <3>2, <1>14 DEF SentTo
      <4>2. PendingFor(s)' = PendingFor(s)
        BY <3>2, <1>1, <1>2 DEF PendingFor, Pending
      <4> QED BY <4>1, <4>2, <3>1
    <3>3. CASE s = s0
      <4>1. SentTo(s)' = SentTo(s) \union {last} /\ last \notin SentTo(s)
        BY <3>3, <1>14 DEF SentTo
      <4>2. PendingFor(s)' = PendingFor(s) \ {job0} /\ job0 \in PendingFor(s)
        BY <3>3, <1>1, <1>2, <1>3 DEF PendingFor, Pending
      <4>3. Cardinality(SentTo(s)') = Cardinality(SentTo(s)) + 1
        BY <4>1, <3>1, FS_AddElement
      <4>4. Cardinality(PendingFor(s)') = Cardinality(PendingFor(s)) - 1
        BY <4>2, <3>1, FS_RemoveElement
      <4> QED BY <4>3, <4>4, <3>1
    <3> QED BY <3>2, <3>3
  <2>2. \A s : DeliveredCount(s)' = DeliveredCount(s)
    BY <1>2 DEF DeliveredCount, Elements
  <2>3. (FewSessions => \A s \in Sessions :
           Cardinality(SentTo(s)) + Cardinality(PendingFor(s)) <= DeliveredCount(s))'
    BY <2>1, <2>2 DEF FewSessions
  <2> QED BY <2>3, <1>2 DEF IInv, CountsInv
<1> QED BY <1>5, <1>9, <1>19, <1>20, <1>21, <1>22, <1>23, <1>24 DEF IInv

-----------------------------------------------------------------------------
(* The counted deliveries.                                                  *)

\* A list holds one count for each session it counts.
OnePerSession(ds) ==
  /\ IsList(ds)
  /\ \A i, j \in DOMAIN ds : ds[i].session = ds[j].session => i = j

LEMMA CountIsListed ==
  ASSUME OnePerSession(deliveries)
  PROVE  /\ \A d \in Members(deliveries) : DeliveredCount(d.session) = d.count
         /\ \A s : (\A d \in Members(deliveries) : d.session # s) => DeliveredCount(s) = 0
<1>1. ASSUME NEW d \in Members(deliveries)
      PROVE  DeliveredCount(d.session) = d.count
  <2>1. d \in Elements(deliveries)
    BY ElementsAreMembers
  <2> DEFINE e == CHOOSE x \in Elements(deliveries) : x.session = d.session
  <2>2. e \in Elements(deliveries) /\ e.session = d.session
    BY <2>1
  <2>3. DeliveredCount(d.session) = e.count
    BY <2>1 DEF DeliveredCount
  <2> HIDE DEF e
  <2>4. e = d
    BY <2>1, <2>2 DEF Elements, OnePerSession
  <2> QED BY <2>3, <2>4
<1>2. ASSUME NEW s, \A d \in Members(deliveries) : d.session # s
      PROVE  DeliveredCount(s) = 0
  BY <1>2, ElementsAreMembers DEF DeliveredCount
<1> QED BY <1>1, <1>2

\* The counts of the others are all the counts but that of the session.
LEMMA OtherCountsAre ==
  ASSUME OnePerSession(deliveries), NEW s0, NEW ds, ds = OtherCounts(s0)
  PROVE  /\ OnePerSession(ds)
         /\ Len(deliveries) \in Nat /\ Len(ds) \in Nat /\ Len(ds) <= Len(deliveries)
         /\ \A d : d \in Members(ds) <=> d \in Members(deliveries) /\ d.session # s0
<1>1. IsList(deliveries) /\ Len(deliveries) \in Nat /\ DOMAIN deliveries = 1..Len(deliveries)
  BY ListOfSeq DEF OnePerSession, IsList
<1>2. CASE ~\E i \in DOMAIN deliveries : deliveries[i].session = s0
  <2>1. ds = deliveries
    BY <1>2 DEF OtherCounts
  <2>2. \A d \in Members(deliveries) : d.session # s0
    BY <1>2 DEF Members
  <2>3. Len(deliveries) <= Len(deliveries)
    BY <1>1
  <2> QED BY <1>1, <2>1, <2>2, <2>3, Zenon
<1>3. CASE \E i \in DOMAIN deliveries : deliveries[i].session = s0
  <2>1. PICK at \in DOMAIN deliveries : deliveries[at].session = s0 /\ ds = RemovedAt(deliveries, at)
    BY <1>3 DEF OtherCounts
  <2>2. ds = SubSeq(deliveries, 1, at - 1) \o SubSeq(deliveries, at + 1, Len(deliveries))
    BY <2>1 DEF RemovedAt
  <2>3. IsList(ds) /\ Members(ds) \subseteq Members(deliveries)
    BY <1>1, <2>2, RemoveList
  <2>4. /\ Len(ds) = Len(deliveries) - 1 /\ DOMAIN ds = 1..(Len(deliveries) - 1)
        /\ Len(deliveries) \in Nat \ {0}
    BY <1>1, <2>2, RemoveList
  <2>5. \A k \in 1..(at - 1) : ds[k] = deliveries[k]
    BY <1>1, <2>2, RemoveList
  <2>6. \A k \in at..(Len(deliveries) - 1) : ds[k] = deliveries[k + 1]
    BY <1>1, <2>2, RemoveList
  <2>7. Members(deliveries) = Members(ds) \union {deliveries[at]}
    BY <1>1, <2>1, <2>4, <2>5, <2>6, RemoveListMembers
  <2> DEFINE was(k) == IF k < at THEN k ELSE k + 1
  <2>8. \A k \in DOMAIN ds : was(k) \in DOMAIN deliveries /\ was(k) # at /\ ds[k] = deliveries[was(k)]
    <3> TAKE k \in DOMAIN ds
    <3>1. at \in 1..Len(deliveries) /\ k \in 1..(Len(deliveries) - 1)
      BY <1>1, <2>1, <2>4
    <3>2. CASE k < at
      BY <3>1, <3>2, <2>4, <2>5, <1>1
    <3>3. CASE ~(k < at)
      BY <3>1, <3>3, <2>4, <2>6, <1>1
    <3> QED BY <3>2, <3>3
  <2>9. \A k, l \in DOMAIN ds : was(k) = was(l) => k = l
    BY <1>1, <2>1, <2>4
  <2> HIDE DEF was
  <2>10. \A k, l \in DOMAIN ds : ds[k].session = ds[l].session => k = l
    BY <2>8, <2>9 DEF OnePerSession
  <2>11. \A d \in Members(ds) : d.session # s0
    BY <2>1, <2>8 DEF OnePerSession, Members
  <2>12. \A d : d \in Members(ds) <=> d \in Members(deliveries) /\ d.session # s0
    BY <2>1, <2>3, <2>7, <2>11
  <2>13. Len(ds) \in Nat /\ Len(ds) <= Len(deliveries)
    BY <2>4
  <2> QED BY <1>1, <2>3, <2>10, <2>12, <2>13 DEF OnePerSession
<1> QED BY <1>2, <1>3

\* While there are few sessions no count is pushed out.
LEMMA CountsFit ==
  ASSUME NEW ds, OnePerSession(ds), \A d \in Members(ds) : d.session \in Sessions
  PROVE  Len(ds) \in Nat /\ Len(ds) <= Cardinality(Sessions)
<1>1. Len(ds) \in Nat /\ DOMAIN ds = 1..Len(ds)
  BY ListOfSeq DEF OnePerSession, IsList
<1>2. IsFiniteSet(Sessions) /\ Cardinality(Sessions) \in Nat
  BY RemediateAssumption, FS_CardinalityType
<1>3. SUFFICES ASSUME ~(Len(ds) <= Cardinality(Sessions))
               PROVE  FALSE
  BY <1>1
<1>4. IsFiniteSet(1..Len(ds)) /\ Cardinality(1..Len(ds)) = Len(ds)
  <2>1. 1 \in Int /\ Len(ds) \in Int
    BY <1>1
  <2>2. IsFiniteSet(1..Len(ds)) /\ Cardinality(1..Len(ds)) = IF 1 > Len(ds) THEN 0 ELSE Len(ds) - 1 + 1
    BY <2>1, FS_Interval, Zenon
  <2>3. (IF 1 > Len(ds) THEN 0 ELSE Len(ds) - 1 + 1) = Len(ds)
    BY <1>1
  <2> QED BY <2>2, <2>3
<1> DEFINE f == [i \in 1..Len(ds) |-> ds[i].session]
<1>5. f \in [1..Len(ds) -> Sessions]
  BY <1>1 DEF Members
<1>6. \E x, y \in 1..Len(ds) : x # y /\ f[x] = f[y]
  <2> HIDE DEF f
  <2>1. Cardinality(Sessions) < Cardinality(1..Len(ds))
    BY <1>1, <1>2, <1>3, <1>4
  <2> QED BY <1>2, <1>4, <1>5, <2>1, FS_PigeonHole
<1> QED BY <1>1, <1>6 DEF OnePerSession

LEMMA CountedFacts ==
  ASSUME IInv, NEW s0 \in Sessions, DeliveredCount(s0) < SessionLimit,
         deliveries' = Counted(s0)
  PROVE  /\ OnePerSession(deliveries') /\ Len(deliveries') <= MaxCountedSessions
         /\ \A d \in Members(deliveries') : d.session \in Sessions /\ d.count \in 0..SessionLimit
         /\ FewSessions =>
              /\ DeliveredCount(s0)' = DeliveredCount(s0) + 1
              /\ \A s : s # s0 => DeliveredCount(s)' = DeliveredCount(s)
<1>1. PICK others, one, moved :
        /\ others = OtherCounts(s0)
        /\ one = [session |-> s0, count |-> DeliveredCount(s0) + 1]
        /\ moved = Append(others, one)
  OBVIOUS
<1>2. /\ OnePerSession(deliveries) /\ Len(deliveries) <= MaxCountedSessions
      /\ \A d \in Members(deliveries) : d.session \in Sessions /\ d.count \in 0..SessionLimit
  BY DEF IInv, CountsInv, OnePerSession
<1>3. /\ OnePerSession(others)
      /\ Len(deliveries) \in Nat /\ Len(others) \in Nat /\ Len(others) <= Len(deliveries)
      /\ \A d : d \in Members(others) <=> d \in Members(deliveries) /\ d.session # s0
  BY <1>1, <1>2, OtherCountsAre
<1>4. /\ one.session = s0 /\ one.count = DeliveredCount(s0) + 1
      /\ one.count \in 0..SessionLimit
  <2>1. DeliveredCount(s0) \in 0..SessionLimit /\ SessionLimit \in Nat
    BY CountsTyped, RemediateAssumption
  <2> QED BY <1>1, <2>1
<1>5. /\ IsList(moved) /\ Len(moved) = Len(others) + 1
      /\ DOMAIN others = 1..Len(others) /\ DOMAIN moved = 1..(Len(others) + 1)
      /\ \A i \in 1..Len(others) : moved[i] = others[i]
      /\ moved[Len(others) + 1] = one
      /\ Members(moved) = Members(others) \union {one}
  BY <1>1, <1>3, AppendList DEF OnePerSession
<1>6. OnePerSession(moved)
  <2>1. \A i \in 1..Len(others) : others[i].session # s0
    BY <1>3, <1>5 DEF Members
  <2>2. \A i \in DOMAIN moved : i \in 1..Len(others) \/ i = Len(others) + 1
    BY <1>3, <1>5
  <2>3. \A i, j \in DOMAIN moved : moved[i].session = moved[j].session => i = j
    BY <1>3, <1>4, <1>5, <2>1, <2>2 DEF OnePerSession
  <2> QED BY <1>5, <2>3 DEF OnePerSession
<1>7. \A d \in Members(moved) : d.session \in Sessions /\ d.count \in 0..SessionLimit
  BY <1>2, <1>3, <1>4, <1>5
<1>8. deliveries' = IF Len(moved) > MaxCountedSessions THEN Tail(moved) ELSE moved
  BY <1>1 DEF Counted
<1>9. MaxCountedSessions \in Nat
  BY RemediateAssumption
<1>10. CASE Len(moved) > MaxCountedSessions
  <2>1. moved # <<>>
    BY <1>3, <1>5, EmptyList
  <2>2. /\ IsList(Tail(moved))
        /\ Len(Tail(moved)) = Len(moved) - 1 /\ DOMAIN Tail(moved) = 1..(Len(moved) - 1)
        /\ \A i \in 1..(Len(moved) - 1) : Tail(moved)[i] = moved[i + 1]
        /\ Members(Tail(moved)) \subseteq Members(moved)
    BY <1>5, <2>1, TailList
  <2>3. deliveries' = Tail(moved)
    BY <1>8, <1>10
  <2>4. \A i, j \in DOMAIN deliveries' : deliveries'[i].session = deliveries'[j].session => i = j
    <3> TAKE i, j \in DOMAIN deliveries'
    <3>1. /\ i \in 1..Len(others) /\ j \in 1..Len(others)
          /\ i + 1 \in DOMAIN moved /\ j + 1 \in DOMAIN moved
          /\ deliveries'[i] = moved[i + 1] /\ deliveries'[j] = moved[j + 1]
          /\ i + 1 = j + 1 => i = j
      BY <1>3, <1>5, <2>2, <2>3
    <3> QED BY <3>1, <1>6 DEF OnePerSession
  <2>5. ~FewSessions
    <3>1. Len(moved) \in Nat /\ Len(moved) <= Cardinality(Sessions)
      BY <1>6, <1>7, CountsFit
    <3>2. Cardinality(Sessions) \in Nat
      BY RemediateAssumption, FS_CardinalityType
    <3> QED BY <3>1, <3>2, <1>9, <1>10 DEF FewSessions
  <2>6. Len(deliveries') <= MaxCountedSessions
    BY <1>2, <1>3, <1>5, <1>9, <2>2, <2>3
  <2> QED BY <2>2, <2>3, <2>4, <2>5, <2>6, <1>7 DEF OnePerSession
<1>11. CASE ~(Len(moved) > MaxCountedSessions)
  <2>1. deliveries' = moved
    BY <1>8, <1>11
  <2>2. Len(deliveries') <= MaxCountedSessions
    BY <2>1, <1>3, <1>5, <1>9, <1>11
  <2>3. /\ \A d \in Members(deliveries') : DeliveredCount(d.session)' = d.count
        /\ \A s : (\A d \in Members(deliveries') : d.session # s) => DeliveredCount(s)' = 0
    <3>1. OnePerSession(deliveries)'
      BY <2>1, <1>6 DEF OnePerSession
    <3>2. (/\ \A d \in Members(deliveries) : DeliveredCount(d.session) = d.count
           /\ \A s : (\A d \in Members(deliveries) : d.session # s) => DeliveredCount(s) = 0)'
      BY <3>1, CountIsListed, PTL
    <3> QED BY <3>2
  <2>4. DeliveredCount(s0)' = DeliveredCount(s0) + 1
    BY <2>1, <2>3, <1>4, <1>5
  <2>5. ASSUME NEW s, s # s0
        PROVE  DeliveredCount(s)' = DeliveredCount(s)
    <3>1. /\ \A d \in Members(deliveries) : DeliveredCount(d.session) = d.count
          /\ \A x : (\A d \in Members(deliveries) : d.session # x) => DeliveredCount(x) = 0
      BY <1>2, CountIsListed
    <3>2. CASE \E d \in Members(deliveries) : d.session = s
      <4>1. PICK d \in Members(deliveries) : d.session = s
        BY <3>2
      <4>2. d \in Members(deliveries')
        BY <4>1, <2>5, <2>1, <1>3, <1>5
      <4>3. DeliveredCount(s) = d.count
        BY <4>1, <3>1
      <4>4. DeliveredCount(s)' = d.count
        BY <4>1, <4>2, <2>3
      <4> QED BY <4>3, <4>4
    <3>3. CASE ~\E d \in Members(deliveries) : d.session = s
      <4>1. \A d \in Members(deliveries') : d.session # s
        BY <3>3, <2>5, <2>1, <1>3, <1>4, <1>5
      <4> QED BY <4>1, <3>1, <3>3, <2>3
    <3> QED BY <3>2, <3>3
  <2> QED BY <2>1, <2>2, <2>4, <2>5, <1>6, <1>7
<1> QED BY <1>10, <1>11

-----------------------------------------------------------------------------
(* The decision about a reviewed turn.                                      *)

\* The mark of an execution is one of its inputs, or it has none.
LEMMA MarkOfInputs ==
  ASSUME NEW inputs, IsList(inputs), Members(inputs) \subseteq Messages,
         NEW mark, mark = MarkOf(inputs)
  PROVE  /\ mark # Legacy
         /\ mark # HumanTurn =>
              /\ mark.kind = "MARK"
              /\ \E i \in DOMAIN inputs : mark = inputs[i]
<1> DEFINE marked == {i \in DOMAIN inputs : inputs[i].kind = "MARK"}
<1>1. DOMAIN inputs \subseteq Nat
  <2>1. DOMAIN inputs = 1..Len(inputs)
    BY ListOfSeq DEF IsList
  <2> QED BY <2>1
<1>2. CASE marked = {}
  BY <1>2 DEF MarkOf, HumanTurn, Legacy
<1>3. CASE marked # {}
  <2>1. mark = inputs[CHOOSE i \in marked : \A j \in marked : i <= j]
    BY <1>3 DEF MarkOf
  <2>2. \E i \in marked : \A j \in marked : i <= j
    <3>1. marked \in SUBSET Nat
      BY <1>1
    <3> HIDE DEF marked
    <3> QED BY <3>1, <1>3, LeastNumber
  <2>3. PICK i \in marked : mark = inputs[i]
    BY <2>1, <2>2
  <2>4. i \in DOMAIN inputs /\ mark = inputs[i] /\ mark.kind = "MARK"
    BY <2>3
  <2> HIDE DEF marked
  <2> QED BY <2>4 DEF Legacy
<1> QED BY <1>2, <1>3

LEMMA LoadedChain ==
  ASSUME NEW c, LoadChain(c) # None
  PROVE  \E e \in Members(chains) : e.state.chainId = c /\ e.state = LoadChain(c)
<1>1. \E e \in Elements(chains) : e.state.chainId = c
  BY DEF LoadChain
<1>2. LoadChain(c) = (CHOOSE e \in Elements(chains) : e.state.chainId = c).state
  BY <1>1 DEF LoadChain
<1> DEFINE found == CHOOSE e \in Elements(chains) : e.state.chainId = c
<1>3. found \in Elements(chains) /\ found.state.chainId = c
  BY <1>1
<1> HIDE DEF found
<1> QED BY <1>2, <1>3, ElementsAreMembers DEF found

\* The review of the last message of a saved chain, which is the move of job.
IsNextOf(job, state) ==
  /\ \E e \in Members(chains) : e.state = state
  /\ Move(<<"job", job, 0>>, state.chainId, state.attempts, job.session)

\* A step that resolves a chain: each of its findings passed, in a new turn.
ResolvesAll(step, job) ==
  /\ step.kind = "RESOLVED"
  /\ IsNextOf(job, step.state)
  /\ step.ids.resolvedIds = step.state.originIds /\ step.ids.remainingIds = {}

\* A step that starts a chain with the turn under review.
Starts(step, job) ==
  /\ step.chainId = job.turn /\ step.attempt = 1
  /\ Members(step.state.turnIds) = {job.turn}

\* A step that takes a saved chain one attempt further.
Advances(step, job) ==
  \E e \in Members(chains) :
    /\ IsNextOf(job, e.state)
    /\ step.chainId = e.state.chainId /\ step.attempt = e.state.attempts + 1
    /\ Members(step.state.turnIds) = Members(e.state.turnIds) \union {job.turn}
    /\ ScopesWithin(e.state, step.state)

\* A delivery within the limits, but for what the turns of its chain became.
IsDelivery(step) ==
  /\ step.kind = "DELIVER"
  /\ step.chainId = step.state.chainId /\ step.attempt = step.state.attempts
  /\ step.maxAttempts = MaxAttempts
  /\ WellMade(step.state)
  /\ step.state.attempts <= MaxAttempts
  /\ FewFindings => Cardinality(step.state.originIds) <= MAX_CHAIN_ORIGINS

LEMMA DecisionCases ==
  ASSUME IInv, NEW job \in jobs, job.stage = "reviewing",
         NEW results \in Reviews, NEW request,
         NEW step, step = StepOf(job, results, request)
  PROVE  \/ step.kind = "NONE"
         \/ step.kind = "STOP" /\ step.code # "RESOLVED"
         \/ ResolvesAll(step, job)
         \/ IsDelivery(step) /\ (Starts(step, job) \/ Advances(step, job))
<1>1. PICK mark : mark = MarkOf(job.inputs)
  OBVIOUS
<1>2. PICK chain : chain = IF mark = HumanTurn THEN None ELSE LoadChain(mark.chainId)
  OBVIOUS
<1>3. PICK in : in = [maxAttempts |-> MaxAttempts, delivery |-> mark, chain |-> chain,
                      request |-> request, results |-> results, turnId |-> job.turn,
                      mixed |-> Mixed(job.inputs)]
  OBVIOUS
<1>4. step = DecideRemediateStep(in)
  BY <1>1, <1>2, <1>3 DEF StepOf
<1>5. /\ in.maxAttempts = MaxAttempts /\ in.delivery = mark /\ in.chain = chain
      /\ in.results = results /\ in.turnId = job.turn
      /\ in.mixed = Mixed(job.inputs)
      /\ DOMAIN in = {"maxAttempts", "delivery", "chain", "request", "results", "turnId", "mixed"}
  BY <1>3
<1>6. SoundReview(results)
  BY RemediateAssumption
<1>7. InFlight(<<"job", job, 0>>, job.session, job.turn, job.inputs)
  BY DEF InFlight
<1>8. /\ IsList(job.inputs) /\ Members(job.inputs) \subseteq Messages
  BY <1>7, InFlightTyped
<1>9. /\ mark # Legacy
      /\ mark # HumanTurn =>
           mark.kind = "MARK" /\ \E i \in DOMAIN job.inputs : mark = job.inputs[i]
  BY <1>1, <1>8, MarkOfInputs
<1>10. Mixed(job.inputs) => mark # HumanTurn
  BY <1>1 DEF Mixed
<1>11. PICK failures : failures = ChainFailures(results)
  OBVIOUS
<1>12. \/ step = NoStep
       \/ step.kind = "STOP" /\ step.code # "RESOLVED"
       \/ /\ mark # HumanTurn /\ chain # None
          /\ chain.attempts = mark.attempt
          /\ ~HasUnverifiedOrigin(chain, results)
          /\ failures = {}
          /\ step = Resolved(chain, ChainIdsOf(chain, results))
       \/ /\ mark = HumanTurn
          /\ step # NoStep
          /\ step = StartOf(in, failures)
       \/ /\ mark # HumanTurn /\ chain # None
          /\ chain.attempts = mark.attempt
          /\ ~HasUnverifiedOrigin(chain, results)
          /\ ~Seen(chain, failures)
          /\ ~(chain.attempts >= MaxAttempts)
          /\ step = Deliver(MaxAttempts, failures, Advanced(chain, in, failures))
  <2>1. in.delivery # Legacy /\ (in.mixed => in.delivery # HumanTurn)
    BY <1>5, <1>9, <1>10
  <2>2. failures = ChainFailures(in.results)
    BY <1>5, <1>11
  <2> QED BY <1>4, <1>5, <2>1, <2>2, StepCases
\* The saved chain the mark names, when its last message is the mark.
<1>13. ASSUME mark # HumanTurn, chain # None, chain.attempts = mark.attempt
       PROVE  IsNextOf(job, chain) /\ StateOK(chain)
  <2>1. chain = LoadChain(mark.chainId)
    BY <1>2, <1>13
  <2>2. PICK e \in Members(chains) : e.state.chainId = mark.chainId /\ e.state = chain
    BY <2>1, <1>13, LoadedChain
  <2>3. PICK i \in DOMAIN job.inputs : mark = job.inputs[i] /\ mark.kind = "MARK"
    BY <1>9, <1>13
  <2>4. CarriesNth(job.inputs, chain.chainId, chain.attempts)
    BY <2>2, <2>3, <1>13 DEF CarriesNth, IsMarkOf
  <2>5. Move(<<"job", job, 0>>, chain.chainId, chain.attempts, job.session)
    BY <2>4, <1>7 DEF Move
  <2>6. StateOK(chain)
    BY <2>2 DEF IInv, ChainsInv
  <2> QED BY <2>2, <2>5, <2>6 DEF IsNextOf
<1>14. CASE step = NoStep
  BY <1>14 DEF NoStep
<1>15. CASE /\ mark # HumanTurn /\ chain # None
            /\ chain.attempts = mark.attempt
            /\ ~HasUnverifiedOrigin(chain, results)
            /\ failures = {}
            /\ step = Resolved(chain, ChainIdsOf(chain, results))
  <2>1. /\ step.kind = "RESOLVED" /\ step.state = chain
        /\ step.ids = ChainIdsOf(chain, results)
    BY <1>15 DEF Resolved
  <2>2. ResolvedIds(chain, results) = chain.originIds
    BY <1>15, <1>6, <1>11, ResolvedAll
  <2>3. /\ ChainIdsOf(chain, results).resolvedIds = chain.originIds
        /\ ChainIdsOf(chain, results).remainingIds = {}
    BY <2>2 DEF ChainIdsOf
  <2>4. IsNextOf(job, chain)
    BY <1>13, <1>15
  <2> QED BY <2>1, <2>3, <2>4 DEF ResolvesAll
<1>16. CASE /\ mark = HumanTurn
            /\ step # NoStep
            /\ step = StartOf(in, failures)
  <2>1. SoundReview(in.results) /\ failures = ChainFailures(in.results)
    BY <1>5, <1>6, <1>11
  <2>2. /\ step.kind = "DELIVER"
        /\ step.chainId = job.turn /\ step.attempt = 1 /\ step.maxAttempts = MaxAttempts
        /\ WellMade(step.state)
        /\ step.state.chainId = job.turn /\ step.state.attempts = 1
        /\ Members(step.state.turnIds) = {job.turn}
        /\ step.state.originIds = FailureIds(failures)
    BY <2>1, <1>5, <1>16, StartIsWellMade
  <2>3. 1 <= MaxAttempts
    BY RemediateAssumption DEF MAX_ATTEMPTS_CEILING
  <2>4. FewFindings => Cardinality(step.state.originIds) <= MAX_CHAIN_ORIGINS
    BY <2>2, <1>11 DEF FewFindings
  <2> QED BY <2>2, <2>3, <2>4 DEF IsDelivery, Starts
<1>17. CASE /\ mark # HumanTurn /\ chain # None
            /\ chain.attempts = mark.attempt
            /\ ~HasUnverifiedOrigin(chain, results)
            /\ ~Seen(chain, failures)
            /\ ~(chain.attempts >= MaxAttempts)
            /\ step = Deliver(MaxAttempts, failures, Advanced(chain, in, failures))
  <2>1. IsNextOf(job, chain) /\ StateOK(chain)
    BY <1>13, <1>17
  <2>2. PICK next : next = Advanced(chain, in, failures)
    OBVIOUS
  <2>3. /\ step.kind = "DELIVER" /\ step.chainId = next.chainId /\ step.attempt = next.attempts
        /\ step.maxAttempts = MaxAttempts /\ step.state = next
    BY <2>2, <1>17 DEF Deliver
  <2>4. WellMade(chain) /\ chain.attempts \in Nat /\ MaxAttempts \in 1..MAX_ATTEMPTS_CEILING
    BY <2>1, RemediateAssumption DEF StateOK, WellMade, MAX_ATTEMPTS_CEILING
  <2>5. chain.attempts < MaxAttempts /\ chain.attempts < MAX_ATTEMPTS_CEILING
    BY <2>4, <1>17 DEF MAX_ATTEMPTS_CEILING
  <2>6. job.turn \notin Members(chain.turnIds)
    BY <2>1, <1>7 DEF StateOK, Decided
  <2>7. /\ WellMade(next)
        /\ next.chainId = chain.chainId /\ next.originIds = chain.originIds
        /\ next.attempts = chain.attempts + 1
        /\ Members(next.turnIds) = Members(chain.turnIds) \union {job.turn}
        /\ \A id \in DOMAIN chain.scopes :
             id \in DOMAIN next.scopes /\ chain.scopes[id] \subseteq next.scopes[id]
    <3>1. /\ SoundReview(in.results) /\ ~HasUnverifiedOrigin(chain, in.results)
          /\ in.turnId \notin Members(chain.turnIds) /\ in.turnId = job.turn
      BY <2>6, <1>5, <1>6, <1>17
    <3> QED BY <3>1, <2>2, <2>4, <2>5, <1>17, AdvancedIsWellMade
  <2>8. IsDelivery(step)
    <3>1. next.attempts <= MaxAttempts
      BY <2>4, <2>5, <2>7 DEF MAX_ATTEMPTS_CEILING
    <3>2. FewFindings => Cardinality(next.originIds) <= MAX_CHAIN_ORIGINS
      BY <2>1, <2>7 DEF StateOK
    <3> QED BY <3>1, <3>2, <2>3, <2>7 DEF IsDelivery
  <2>9. ScopesWithin(chain, next)
    BY <2>7 DEF ScopesWithin
  <2>10. PICK e \in Members(chains) : e.state = chain
    BY <2>1 DEF IsNextOf
  <2>11. Advances(step, job)
    BY <2>1, <2>3, <2>7, <2>9, <2>10 DEF Advances
  <2> QED BY <2>8, <2>11
<1> QED BY <1>12, <1>14, <1>15, <1>16, <1>17

\* A delivery is drafted by the job that decided it, and is counted.
LEMMA DeliveryKeeps ==
  ASSUME IInv, NEW job0 \in jobs, job0.stage = "reviewing",
         NEW step, IsDelivery(step), Starts(step, job0) \/ Advances(step, job0),
         DeliveredCount(job0.session) < SessionLimit,
         deliveries' = Counted(job0.session), jobs' = Moved(job0, "drafting", step),
         UNCHANGED jobStepVars, inbox' = inbox, chains' = chains,
         chainLog' = chainLog, sent' = sent
  PROVE  IInv'
<1>1. PICK next : next = [job0 EXCEPT !.stage = "drafting", !.step = step]
  OBVIOUS
<1>2. PICK s0, c0, place : s0 = job0.session /\ c0 = step.chainId /\ place = <<"job", job0, 0>>
  OBVIOUS
<1>3. /\ UNCHANGED <<running, events, userSent, turnCount, openExecutions, tasks>>
      /\ jobs' = (jobs \ {job0}) \union {next}
      /\ turnCount \in Nat
  BY <1>1 DEF jobStepVars, Moved, IInv, HostInv
<1>4. JobOK(job0)
  BY DEF IInv, JobsInv
<1>5. /\ DOMAIN next = {"turn", "session", "inputs", "stage", "step"}
      /\ next.turn = job0.turn /\ next.session = s0 /\ next.inputs = job0.inputs
      /\ next.stage = "drafting" /\ next.step = step
  BY <1>1, <1>2, <1>4, MovedJob DEF JobOK
<1>6. \A job \in jobs' : (job \in jobs /\ job # job0) \/ job = next
  BY <1>3
<1>7. /\ \A p, s, t, inputs : InFlight(p, s, t, inputs)' => InFlight(p, s, t, inputs)
      /\ FlightKept /\ FlightInv'
  <2>1. \A job \in jobs' : job.stage = "reviewing" => job \in jobs
    BY <1>5, <1>6
  <2> QED BY <2>1, InFlightBefore
<1>8. HostInv'
  BY HostInvKept
<1>9. InFlight(place, s0, job0.turn, job0.inputs)
  BY <1>2 DEF InFlight
\* The reviewed turn is decided now.
<1>10. \A p, s, t, inputs : InFlight(p, s, t, inputs)' => p # place
  BY <1>2, <1>3, <1>5, <1>6 DEF InFlight
<1>11. Decided(job0.turn)'
  <2>1. job0.turn \in 1..turnCount'
    BY <1>3, <1>4 DEF JobOK, ExecOK, TurnIds
  <2>2. ASSUME NEW p, NEW s, NEW inputs, InFlight(p, s, job0.turn, inputs)'
        PROVE  FALSE
    <3>1. InFlight(p, s, job0.turn, inputs) /\ p # place
      BY <2>2, <1>7, <1>10
    <3> QED BY <3>1, <1>9 DEF IInv, FlightInv
  <2> QED BY <2>1, <2>2 DEF Decided
<1>12. /\ \A c : Decided(c) => Decided(c)'
       /\ \A x : StepOK(x) => StepOK(x)'
  BY <1>3, <1>7, DecidedStays
\* The chain is decided, its messages are known, and it moves nowhere else.
<1>13. /\ Decided(c0)'
       /\ step.attempt - 1 = Cardinality(SentAt(c0))
       /\ \A i \in SentAt(c0) : sent[i].session = s0
       /\ \A p, n, s : Move(p, c0, n, s) => p = place
       /\ \A t \in Members(step.state.turnIds) : Decided(t)'
       /\ \A e \in Members(chains) : e.state.chainId = c0 => ScopesWithin(e.state, step.state)
  <2>1. CASE Starts(step, job0)
    <3>1. c0 = job0.turn /\ step.attempt = 1 /\ Members(step.state.turnIds) = {job0.turn}
      BY <2>1, <1>2 DEF Starts
    <3>2. ~Decided(c0)
      BY <3>1, <1>9 DEF Decided
    <3>3. SentAt(c0) = {}
      BY <3>2 DEF SentAt, IInv, SentInv
    <3>4. step.attempt - 1 = Cardinality(SentAt(c0))
      BY <3>1, <3>3, FS_EmptySet
    <3>5. \A p, n, s : ~Move(p, c0, n, s)
      BY <3>2 DEF IInv, MoveInv
    <3>6. \A e \in Members(chains) : e.state.chainId # c0
      BY <3>2 DEF IInv, ChainsInv, StateOK
    <3> QED BY <3>1, <3>3, <3>4, <3>5, <3>6, <1>11
  <2>2. CASE Advances(step, job0)
    <3>1. PICK e \in Members(chains) :
            /\ IsNextOf(job0, e.state)
            /\ c0 = e.state.chainId /\ step.attempt = e.state.attempts + 1
            /\ Members(step.state.turnIds) = Members(e.state.turnIds) \union {job0.turn}
            /\ ScopesWithin(e.state, step.state)
      BY <2>2, <1>2 DEF Advances
    <3>2. Move(place, c0, e.state.attempts, s0)
      BY <3>1, <1>2 DEF IsNextOf
    <3>3. StateOK(e.state) /\ e.state.attempts \in Nat
      <4>1. StateOK(e.state)
        BY DEF IInv, ChainsInv
      <4> QED BY <4>1 DEF StateOK, WellMade, MAX_ATTEMPTS_CEILING
    <3>4. /\ Decided(c0) /\ e.state.attempts = Cardinality(SentAt(c0))
          /\ \A i \in SentAt(c0) : sent[i].session = s0
      BY <3>2 DEF IInv, MoveInv
    <3>5. step.attempt - 1 = Cardinality(SentAt(c0))
      BY <3>1, <3>3, <3>4
    <3>6. \A p, n, s : Move(p, c0, n, s) => p = place
      BY <3>2 DEF IInv, MoveInv
    <3>7. \A t \in Members(step.state.turnIds) : Decided(t)'
      BY <3>1, <3>3, <1>11, <1>12 DEF StateOK
    <3>8. \A x \in Members(chains) : x.state.chainId = c0 => x = e
      BY <3>1 DEF IInv, ChainsInv, OnePerChain, Members
    <3> QED BY <3>1, <3>4, <3>5, <3>6, <3>7, <3>8, <1>12
  <2> QED BY <2>1, <2>2
<1>14. StepOK(step)'
  <2>1. step.state.chainId = c0
    BY <1>2 DEF IsDelivery
  <2>2. StateOK(step.state)'
    BY <2>1, <1>13 DEF IsDelivery, StateOK, FewFindings
  <2> QED BY <2>2 DEF IsDelivery, StepOK
<1>15. ASSUME NEW p, NEW c, NEW n, NEW s, Move(p, c, n, s)'
       PROVE  \/ c # c0 /\ Move(p, c, n, s)
              \/ c = c0 /\ p = <<"job", next, 0>> /\ n = step.attempt - 1 /\ s = s0
  <2>0. Move(p, c, n, s) /\ p # place => c # c0
    BY <1>13
  <2>1. CASE (\E i \in DOMAIN inbox[s] :
                /\ s \in Sessions /\ p = <<"inbox", s, i>>
                /\ IsMarkOf(inbox[s][i], c) /\ n = inbox[s][i].attempt)'
    <3>1. Move(p, c, n, s) /\ p # place
      BY <2>1, <1>2 DEF Move, IsMarkOf
    <3> QED BY <3>1, <2>0
  <2>2. CASE \E t, inputs : InFlight(p, s, t, inputs)' /\ CarriesNth(inputs, c, n)
    <3>1. Move(p, c, n, s) /\ p # place
      BY <2>2, <1>7, <1>10 DEF Move
    <3> QED BY <3>1, <2>0
  <2>3. CASE (\E job \in jobs :
                /\ Pending(job) /\ s = job.session
                /\ p = <<"job", job, 0>>
                /\ c = job.step.chainId /\ n = job.step.attempt - 1)'
    <3>1. PICK job \in jobs' :
             /\ Pending(job) /\ s = job.session
             /\ p = <<"job", job, 0>>
             /\ c = job.step.chainId /\ n = job.step.attempt - 1
      BY <2>3 DEF Pending
    <3>2. CASE job \in jobs /\ job # job0
      <4>1. Move(p, c, n, s) /\ p # place
        BY <3>1, <3>2, <1>2 DEF Move
      <4> QED BY <4>1, <2>0
    <3>3. CASE job = next
      BY <3>1, <3>3, <1>2, <1>5
    <3> QED BY <3>2, <3>3, <1>6
  <2> QED BY <1>15, <2>1, <2>2, <2>3 DEF Move, CarriesNth, IsMarkOf
<1>16. \A c : SentAt(c)' = SentAt(c)
  BY DEF SentAt
<1>17. MoveInv'
  <2>1. ASSUME NEW c, NEW p, NEW n, NEW s, NEW q, NEW m, NEW u,
               Move(p, c, n, s)', Move(q, c, m, u)'
        PROVE  p = q
    <3>1. CASE c = c0
      BY <3>1, <2>1, <1>15
    <3>2. CASE c # c0
      <4>1. Move(p, c, n, s) /\ Move(q, c, m, u)
        BY <3>2, <2>1, <1>15
      <4> QED BY <4>1 DEF IInv, MoveInv
    <3> QED BY <3>1, <3>2
  <2>2. ASSUME NEW c, NEW p, NEW n, NEW s, Move(p, c, n, s)'
        PROVE  (/\ Decided(c)
                /\ n = Cardinality(SentAt(c))
                /\ \A i \in SentAt(c) : sent[i].session = s)'
    <3>1. /\ Decided(c)' /\ n = Cardinality(SentAt(c))
          /\ \A i \in SentAt(c) : sent[i].session = s
      <4>1. CASE c = c0
        BY <4>1, <2>2, <1>13, <1>15
      <4>2. CASE c # c0
        <5>1. Move(p, c, n, s)
          BY <4>2, <2>2, <1>15
        <5> QED BY <5>1, <1>12 DEF IInv, MoveInv
      <4> QED BY <4>1, <4>2
    <3> QED BY <3>1, <1>16
  <2> QED BY <2>1, <2>2 DEF MoveInv
<1>18. SentInv' /\ ChainsInv' /\ LogInv'
  BY <1>3, <1>7, SentInvKept, ChainsInvKept, LogInvKept
<1>19. JobsInv'
  <2>1. \A job : JobOK(job) => JobOK(job)'
    BY <1>3, <1>7, JobStaysOK
  <2>2. JobOK(next)'
    <3>1. ExecOK(next)'
      <4>1. ExecOK(next)
        BY <1>4, <1>5 DEF JobOK, ExecOK
      <4> QED BY <4>1, <1>3, TurnIdsGrow
    <3>2. s0 \in Sessions
      BY <1>2, <1>4 DEF JobOK
    <3>3. StepOK(next.step)'
      BY <1>5, <1>14
    <3>4. \A e \in Members(chains)' : e.state.chainId = next.step.chainId => ScopesWithin(e.state, next.step.state)
      BY <1>2, <1>5, <1>13
    <3> QED BY <3>1, <3>2, <3>3, <3>4, <1>5 DEF JobOK
  <2>3. \A job \in jobs' : JobOK(job)'
    BY <2>1, <2>2, <1>6 DEF IInv, JobsInv
  <2>4. IsFiniteSet(jobs')
    <3>1. IsFiniteSet(jobs \ {job0})
      BY FS_Subset DEF IInv, JobsInv
    <3> QED BY <3>1, <1>3, FS_AddElement
  <2> QED BY <2>3, <2>4 DEF JobsInv
<1>20. CountsInv'
  <2>1. /\ OnePerSession(deliveries') /\ Len(deliveries') <= MaxCountedSessions
        /\ \A d \in Members(deliveries') : d.session \in Sessions /\ d.count \in 0..SessionLimit
        /\ FewSessions =>
             /\ DeliveredCount(s0)' = DeliveredCount(s0) + 1
             /\ \A s : s # s0 => DeliveredCount(s)' = DeliveredCount(s)
    <3>1. s0 \in Sessions
      BY <1>2, <1>4 DEF JobOK
    <3> QED BY <3>1, <1>2, CountedFacts
  <2>2. ASSUME FewSessions, NEW s \in Sessions
        PROVE  Cardinality(SentTo(s)) + Cardinality(PendingFor(s)') <= DeliveredCount(s)'
    <3>1. /\ Cardinality(SentTo(s)) \in Nat
          /\ IsFiniteSet(PendingFor(s)) /\ Cardinality(PendingFor(s)) \in Nat
          /\ DeliveredCount(s) \in Nat
          /\ Cardinality(SentTo(s)) + Cardinality(PendingFor(s)) <= DeliveredCount(s)
      BY <2>2, CountsTyped, RemediateAssumption DEF IInv, CountsInv
    <3>2. CASE s # s0
      <4>1. PendingFor(s)' \subseteq PendingFor(s)
        BY <3>2, <1>5, <1>6 DEF PendingFor, Pending
      <4>2. /\ Cardinality(PendingFor(s)') \in Nat
            /\ Cardinality(PendingFor(s)') <= Cardinality(PendingFor(s))
        BY <4>1, <3>1, FS_Subset, FS_CardinalityType
      <4> QED BY <4>2, <3>1, <3>2, <2>1, <2>2
    <3>3. CASE s = s0
      <4>1. PendingFor(s)' \subseteq PendingFor(s) \union {next}
        BY <1>6 DEF PendingFor, Pending
      <4>2. /\ IsFiniteSet(PendingFor(s) \union {next})
            /\ \/ Cardinality(PendingFor(s) \union {next}) = Cardinality(PendingFor(s))
               \/ Cardinality(PendingFor(s) \union {next}) = Cardinality(PendingFor(s)) + 1
        BY <3>1, FS_AddElement
      <4>3. /\ Cardinality(PendingFor(s)') \in Nat
            /\ Cardinality(PendingFor(s)') <= Cardinality(PendingFor(s) \union {next})
        BY <4>1, <4>2, FS_Subset, FS_CardinalityType
      <4>4. DeliveredCount(s)' = DeliveredCount(s) + 1
        BY <3>3, <2>1, <2>2
      <4> QED BY <4>2, <4>3, <4>4, <3>1
    <3> QED BY <3>2, <3>3
  <2>3. \A s : SentTo(s)' = SentTo(s)
    BY DEF SentTo
  <2>4. (FewSessions => \A s \in Sessions :
           Cardinality(SentTo(s)) + Cardinality(PendingFor(s)) <= DeliveredCount(s))'
    BY <2>2, <2>3 DEF FewSessions
  <2> QED BY <2>1, <2>4 DEF CountsInv, OnePerSession
<1> QED BY <1>7, <1>8, <1>17, <1>18, <1>19, <1>20 DEF IInv

\* The reviewed turn is decided: its chain ends, or another message is drafted.
LEMMA DecideKeeps ==
  ASSUME IInv, NEW job0 \in jobs, Decide(job0)
  PROVE  IInv'
<1>1. PICK results \in Reviews, request \in BOOLEAN :
        LET step == StepOf(job0, results, request)
        IN \/ /\ step.kind = "NONE"
              /\ jobs' = jobs \ {job0}
              /\ UNCHANGED <<chains, deliveries, chainLog>>
           \/ /\ step.kind \in {"STOP", "RESOLVED"}
              /\ chains' = Without(chains, step.state.chainId)
              /\ chainLog' = Append(chainLog, ChainEndOf(step, job0.turn))
              /\ jobs' = jobs \ {job0}
              /\ UNCHANGED deliveries
           \/ /\ step.kind = "DELIVER"
              /\ DeliveredCount(job0.session) >= SessionLimit
              /\ Close(chains, chainLog, step.state, "SESSION_LIMIT")
              /\ jobs' = jobs \ {job0}
              /\ UNCHANGED deliveries
           \/ /\ step.kind = "DELIVER"
              /\ DeliveredCount(job0.session) < SessionLimit
              /\ deliveries' = Counted(job0.session)
              /\ jobs' = Moved(job0, "drafting", step)
              /\ UNCHANGED <<chains, chainLog>>
  BY DEF Decide
<1>2. PICK step : step = StepOf(job0, results, request)
  OBVIOUS
<1>3. /\ UNCHANGED jobStepVars /\ inbox' = inbox /\ sent' = sent
      /\ job0.stage = "reviewing"
  BY DEF Decide, hostVars, jobStepVars
<1>4. \/ step.kind = "NONE"
      \/ step.kind = "STOP" /\ step.code # "RESOLVED"
      \/ ResolvesAll(step, job0)
      \/ IsDelivery(step) /\ (Starts(step, job0) \/ Advances(step, job0))
  BY <1>2, <1>3, DecisionCases
<1>5. CASE /\ step.kind = "NONE"
           /\ jobs' = jobs \ {job0}
           /\ UNCHANGED <<chains, deliveries, chainLog>>
  <2>1. LogInv'
    BY <1>3, <1>5, LogInvKept
  <2> QED BY <2>1, <1>3, <1>5, JobEnds
<1>6. CASE /\ step.kind \in {"STOP", "RESOLVED"}
           /\ chains' = Without(chains, step.state.chainId)
           /\ chainLog' = Append(chainLog, ChainEndOf(step, job0.turn))
           /\ jobs' = jobs \ {job0}
           /\ UNCHANGED deliveries
  <2>1. PICK entry : entry = ChainEndOf(step, job0.turn)
    OBVIOUS
  <2>2. Proven(entry)
    <3>1. CASE step.kind = "STOP" /\ step.code # "RESOLVED"
      BY <3>1, <2>1 DEF Proven, ChainEndOf, EndRecord
    <3>2. CASE ResolvesAll(step, job0)
      <4>1. /\ step.kind = "RESOLVED" /\ IsNextOf(job0, step.state)
            /\ step.ids.resolvedIds = step.state.originIds /\ step.ids.remainingIds = {}
        BY <3>2 DEF ResolvesAll
      <4>2. PICK state : state = step.state
        OBVIOUS
      <4>3. StateOK(state) /\ Move(<<"job", job0, 0>>, state.chainId, state.attempts, job0.session)
        BY <4>1, <4>2 DEF IsNextOf, IInv, ChainsInv
      <4>4. /\ WellMade(state) /\ state.attempts \in Nat \ {0}
            /\ state.attempts = Cardinality(SentAt(state.chainId))
        BY <4>3 DEF StateOK, WellMade, MAX_ATTEMPTS_CEILING, IInv, MoveInv
      <4>5. state.attempts \in 1..Cardinality(SentAt(state.chainId))
        BY <4>4
      <4>6. InFlight(<<"job", job0, 0>>, job0.session, job0.turn, job0.inputs)
        BY <1>3 DEF InFlight
      <4>7. job0.turn \notin Members(state.turnIds)
        BY <4>3, <4>6 DEF StateOK, Decided
      <4>8. /\ entry.chainId = state.chainId /\ entry.attempts = state.attempts
            /\ entry.originIds = state.originIds
            /\ entry.resolvedIds = state.originIds /\ entry.remainingIds = {}
            /\ entry.turnIds = Append(state.turnIds, job0.turn)
        BY <2>1, <4>1, <4>2, <4>7 DEF ChainEndOf, EndRecord, Members
      <4>9. Len(Append(state.turnIds, job0.turn)) = state.attempts + 1
        BY <4>4, AppendList DEF WellMade
      <4>10. state.originIds # {}
        BY <4>4 DEF WellMade
      <4> QED BY <4>5, <4>8, <4>9, <4>10 DEF Proven
    <3> QED BY <3>1, <3>2, <1>4, <1>6 DEF IsDelivery
  <2>3. LogInv'
    BY <2>1, <2>2, <1>3, <1>6, LogAppend
  <2>4. \E c : chains' = Without(chains, c)
    BY <1>6
  <2> QED BY <2>3, <2>4, <1>3, <1>6, JobEnds
<1>7. CASE /\ step.kind = "DELIVER"
           /\ Close(chains, chainLog, step.state, "SESSION_LIMIT")
           /\ jobs' = jobs \ {job0}
           /\ UNCHANGED deliveries
  BY <1>3, <1>7, JobClosesChain
<1>8. CASE /\ step.kind = "DELIVER"
           /\ DeliveredCount(job0.session) < SessionLimit
           /\ deliveries' = Counted(job0.session)
           /\ jobs' = Moved(job0, "drafting", step)
           /\ UNCHANGED <<chains, chainLog>>
  <2>1. IsDelivery(step) /\ (Starts(step, job0) \/ Advances(step, job0))
    BY <1>4, <1>8 DEF ResolvesAll
  <2> QED BY <2>1, <1>3, <1>8, DeliveryKeeps
<1> QED BY <1>1, <1>2, <1>5, <1>6, <1>7, <1>8

-----------------------------------------------------------------------------
(* The theorems.                                                            *)

LEMMA StutteringKeeps ==
  ASSUME IInv, UNCHANGED vars
  PROVE  IInv'
<1>1. /\ UNCHANGED jobStepVars /\ inbox' = inbox /\ turnCount' = turnCount
      /\ jobs' = jobs /\ chains' = chains /\ deliveries' = deliveries
      /\ chainLog' = chainLog /\ sent' = sent
  BY DEF vars, jobStepVars
<1>2. /\ \A p, s, t, inputs : InFlight(p, s, t, inputs)' => InFlight(p, s, t, inputs)
      /\ FlightKept /\ FlightInv'
  BY <1>1, InFlightBefore
<1>3. ASSUME NEW p, NEW c, NEW n, NEW s, Move(p, c, n, s)'
      PROVE  Move(p, c, n, s)
  <2>1. CASE (\E i \in DOMAIN inbox[s] :
                /\ s \in Sessions /\ p = <<"inbox", s, i>>
                /\ IsMarkOf(inbox[s][i], c) /\ n = inbox[s][i].attempt)'
    BY <2>1, <1>1 DEF Move, IsMarkOf
  <2>2. CASE \E t, inputs : InFlight(p, s, t, inputs)' /\ CarriesNth(inputs, c, n)
    BY <2>2, <1>2 DEF Move
  <2>3. CASE (\E job \in jobs :
                /\ Pending(job) /\ s = job.session
                /\ p = <<"job", job, 0>>
                /\ c = job.step.chainId /\ n = job.step.attempt - 1)'
    BY <2>3, <1>1 DEF Move, Pending
  <2> QED BY <1>3, <2>1, <2>2, <2>3 DEF Move, CarriesNth, IsMarkOf
<1>4. MovesKept
  <2>1. \A c, p, n, s, q, m, u : Move(p, c, n, s)' /\ Move(q, c, m, u)' => p = q
    BY <1>3 DEF IInv, MoveInv
  <2> QED BY <1>3, <2>1 DEF MovesKept
<1>5. HostInv'
  BY <1>1, HostInvKept
<1> QED BY <1>1, <1>2, <1>4, <1>5, HostStepKeeps

LEMMA StepKeeps == IInv /\ [Next]_vars => IInv'
<1> SUFFICES ASSUME IInv, [Next]_vars PROVE IInv'
  OBVIOUS
<1>1. CASE \E s \in Sessions : UserMessage(s)
  BY <1>1, UserMessageKeeps
<1>2. CASE HostStep
  BY <1>2, StartExecutionKeeps, AdmitQueuedKeeps, EndExecutionKeeps DEF HostStep
<1>3. CASE OnEvent
  BY <1>3, OnEventKeeps
<1>4. CASE RunTask
  BY <1>4, RunTaskKeeps
<1>5. CASE \E job \in jobs : JobStep(job)
  BY <1>5, DecideKeeps, DraftFailsKeeps, DraftReadyBusyKeeps, DraftReadyIdleKeeps,
     PromptAcceptedKeeps, PromptRejectedKeeps DEF JobStep
<1>6. CASE UNCHANGED vars
  BY <1>6, StutteringKeeps
<1> QED BY <1>1, <1>2, <1>3, <1>4, <1>5, <1>6 DEF Next

\* The inductive invariant: executions and moves are each in one place, the
\* messages sent for a chain are its numbered attempts, and what the plugin
\* keeps tells of nothing but decided turns (runtime.ts, remediate.ts).
THEOREM Invariance == Spec => []IInv
<1>1. Init => IInv
  BY InitIsGood
<1>2. IInv /\ [Next]_vars => IInv'
  BY StepKeeps
<1> QED BY <1>1, <1>2, PTL DEF Spec

LEMMA TypesHold == IInv => TypeOK
<1> SUFFICES ASSUME IInv PROVE TypeOK
  OBVIOUS
<1>1. \A s : Elements(s) = Members(s)
  BY ElementsAreMembers
<1>2. \A exec : ExecOK(exec) => IsExecution(exec)
  BY <1>1 DEF ExecOK, IsExecution
<1>3. \A s \in Sessions : Elements(inbox[s]) \subseteq Messages /\ (running[s] # None => IsExecution(running[s]))
  BY <1>1, <1>2 DEF IInv, HostInv
<1>4. \A e \in Elements(events) \union Elements(tasks) :
        e.kind \in EndKinds \union {"STARTED"} /\ e.session \in Sessions /\ IsExecution(e.exec)
  BY <1>2 DEF Elements, EventOK, IInv, HostInv
<1>5. \A job \in jobs : job.stage \in {"reviewing", "drafting", "prompting"} /\ job.session \in Sessions
  BY DEF IInv, JobsInv, JobOK
<1>6. \A state \in ChainStates : StateOK(state)
  <2>1. \A e \in Elements(chains) : StateOK(e.state)
    BY <1>1 DEF IInv, ChainsInv
  <2>2. \A step \in PendingSteps : StateOK(step.state)
    BY DEF PendingSteps, IInv, JobsInv, JobOK, Pending, StepOK
  <2> QED BY <2>1, <2>2 DEF ChainStates
<1>7. \A state \in ChainStates : state.chainId \in TurnIds
  BY <1>6 DEF StateOK, Decided, TurnIds
<1>8. /\ userSent \in [Sessions -> 0..MaxUserMessages] /\ turnCount \in Nat
      /\ openExecutions \subseteq Sessions
      /\ Len(chains) <= MaxActiveChains /\ Len(deliveries) <= MaxCountedSessions
      /\ Elements(sent) \subseteq [session : Sessions, mark : Marks]
  BY <1>1 DEF IInv, HostInv, ChainsInv, CountsInv, SentInv
<1> QED BY <1>3, <1>4, <1>5, <1>7, <1>8 DEF TypeOK

\* Every variable always holds the kind of value the code keeps in it, and the
\* saved chains and the counted sessions stay within their caps.
THEOREM TypeCorrect == Spec => []TypeOK
BY Invariance, TypesHold, PTL

\* As long as no review fails more findings than a saved chain may have, every
\* state the plugin saves or is about to save is coherent (chain-state.ts).
THEOREM SavedChainsAreCoherent == FewFindings => (Spec => []ChainsCoherent)
<1> SUFFICES ASSUME FewFindings PROVE Spec => []ChainsCoherent
  OBVIOUS
<1>1. IInv => ChainsCoherent
  <2> SUFFICES ASSUME IInv PROVE ChainsCoherent
    OBVIOUS
  <2>1. \A e \in Elements(chains) : StateOK(e.state)
    BY ElementsAreMembers DEF IInv, ChainsInv
  <2>2. \A step \in PendingSteps : StateOK(step.state)
    BY DEF PendingSteps, IInv, JobsInv, JobOK, Pending, StepOK
  <2>3. \A state \in ChainStates : StateOK(state)
    BY <2>1, <2>2 DEF ChainStates
  <2>4. \A state : StateOK(state) => Coherent(state) /\ state.attempts <= MaxAttempts
    BY WellMadeIsCoherent DEF StateOK
  <2> QED BY <2>3, <2>4, TypesHold DEF ChainsCoherent
<1> QED BY <1>1, Invariance, PTL

\* A set with at most one element.
LEMMA AtMostOne ==
  ASSUME NEW S, \A x, y \in S : x = y
  PROVE  Cardinality(S) \in Nat /\ Cardinality(S) <= 1 /\ (S = {} => Cardinality(S) = 0)
<1>1. CASE S = {}
  BY <1>1, FS_EmptySet
<1>2. CASE S # {}
  <2>1. PICK x \in S : S = {x}
    BY <1>2
  <2> QED BY <2>1, FS_Singleton
<1> QED BY <1>1, <1>2

\* The places a chain's next decision comes from are moves of it.
LEMMA OneMove == IInv => OneMoveInFlight
<1> SUFFICES ASSUME IInv, NEW c \in TurnIds
             PROVE  Cardinality(WaitingMarks(c)) + Cardinality(RunningMarks(c)) + Cardinality(ReviewedMarks(c))
                      + Cardinality({step \in PendingSteps : step.chainId = c}) <= 1
  BY DEF OneMoveInFlight
<1> DEFINE Steps == {step \in PendingSteps : step.chainId = c}
           In(p) == \E n, s : Move(p, c, n, s)
<1>1. \A p, q : In(p) /\ In(q) => p = q
  BY DEF IInv, MoveInv
<1>2. \A x \in WaitingMarks(c) : x = <<x[1], x[2]>> /\ In(<<"inbox", x[1], x[2]>>)
  <2> TAKE x \in WaitingMarks(c)
  <2>1. PICK s \in Sessions : x \in {<<s, i>> : i \in {k \in DOMAIN inbox[s] : IsMarkOf(inbox[s][k], c)}}
    BY DEF WaitingMarks
  <2>2. PICK i \in DOMAIN inbox[s] : x = <<s, i>> /\ IsMarkOf(inbox[s][i], c)
    BY <2>1
  <2>3. Move(<<"inbox", s, i>>, c, inbox[s][i].attempt, s)
    BY <2>2 DEF Move
  <2> QED BY <2>2, <2>3
<1>3. \A inputs : Carries(inputs, c) => \E n : CarriesNth(inputs, c, n)
  BY DEF Carries, CarriesNth
<1>4. \A x \in RunningMarks(c) :
        \/ \E s \in Sessions : running[s] # None /\ x = running[s] /\ In(<<"run", s, 0>>)
        \/ \E i \in DOMAIN events : x = events[i].exec /\ In(<<"event", i, 0>>)
        \/ \E i \in DOMAIN tasks : x = tasks[i].exec /\ In(<<"task", i, 0>>)
  <2> TAKE x \in RunningMarks(c)
  <2>1. PICK n : CarriesNth(x.inputs, c, n)
    BY <1>3 DEF RunningMarks
  <2>2. CASE \E s \in Sessions : running[s] # None /\ x = running[s]
    <3>1. PICK s \in Sessions : running[s] # None /\ x = running[s]
      BY <2>2
    <3>2. InFlight(<<"run", s, 0>>, s, x.turn, x.inputs)
      BY <3>1 DEF InFlight
    <3>3. Move(<<"run", s, 0>>, c, n, s)
      BY <3>2, <2>1 DEF Move
    <3> QED BY <3>1, <3>3
  <2>3. CASE \E i \in DOMAIN events : events[i].kind # "STARTED" /\ x = events[i].exec
    <3>1. PICK i \in DOMAIN events : events[i].kind # "STARTED" /\ x = events[i].exec
      BY <2>3
    <3>2. InFlight(<<"event", i, 0>>, events[i].session, x.turn, x.inputs)
      BY <3>1 DEF InFlight
    <3>3. Move(<<"event", i, 0>>, c, n, events[i].session)
      BY <3>2, <2>1 DEF Move
    <3> QED BY <3>1, <3>3
  <2>4. CASE \E i \in DOMAIN tasks : tasks[i].kind # "STARTED" /\ x = tasks[i].exec
    <3>1. PICK i \in DOMAIN tasks : tasks[i].kind # "STARTED" /\ x = tasks[i].exec
      BY <2>4
    <3>2. InFlight(<<"task", i, 0>>, tasks[i].session, x.turn, x.inputs)
      BY <3>1 DEF InFlight
    <3>3. Move(<<"task", i, 0>>, c, n, tasks[i].session)
      BY <3>2, <2>1 DEF Move
    <3> QED BY <3>1, <3>3
  <2>5. \/ \E s \in Sessions : running[s] # None /\ x = running[s]
        \/ \E e \in Elements(events) \union Elements(tasks) : e.kind # "STARTED" /\ x = e.exec
    BY DEF RunningMarks
  <2> QED BY <2>2, <2>3, <2>4, <2>5 DEF Elements
<1>5. \A job \in ReviewedMarks(c) : job \in jobs /\ job.stage = "reviewing" /\ In(<<"job", job, 0>>)
  <2> TAKE job \in ReviewedMarks(c)
  <2>1. job \in jobs /\ job.stage = "reviewing"
    BY DEF ReviewedMarks
  <2>2. PICK n : CarriesNth(job.inputs, c, n)
    BY <1>3 DEF ReviewedMarks
  <2>3. InFlight(<<"job", job, 0>>, job.session, job.turn, job.inputs)
    BY <2>1 DEF InFlight
  <2>4. Move(<<"job", job, 0>>, c, n, job.session)
    BY <2>2, <2>3 DEF Move
  <2> QED BY <2>1, <2>4
<1>6. \A step \in Steps : \E job \in jobs : Pending(job) /\ step = job.step /\ In(<<"job", job, 0>>)
  <2> TAKE step \in Steps
  <2>1. PICK job \in jobs : Pending(job) /\ step = job.step /\ step.chainId = c
    BY DEF PendingSteps, Pending
  <2>2. Move(<<"job", job, 0>>, c, job.step.attempt - 1, job.session)
    BY <2>1 DEF Move
  <2> QED BY <2>1, <2>2
<1> HIDE DEF In
<1>7. \A x, y \in WaitingMarks(c) : x = y
  <2> TAKE x, y \in WaitingMarks(c)
  <2>1. <<"inbox", x[1], x[2]>> = <<"inbox", y[1], y[2]>>
    BY <1>1, <1>2
  <2>2. x[1] = y[1] /\ x[2] = y[2]
    BY <2>1
  <2> QED BY <2>2, <1>2
<1>8. \A x, y \in RunningMarks(c) : x = y
  BY <1>1, <1>4
<1>9. \A x, y \in ReviewedMarks(c) : x = y
  BY <1>1, <1>5
<1>10. \A x, y \in Steps : x = y
  BY <1>1, <1>6
<1>11. \/ /\ RunningMarks(c) = {} /\ ReviewedMarks(c) = {} /\ Steps = {}
       \/ /\ WaitingMarks(c) = {} /\ ReviewedMarks(c) = {} /\ Steps = {}
       \/ /\ WaitingMarks(c) = {} /\ RunningMarks(c) = {} /\ Steps = {}
       \/ /\ WaitingMarks(c) = {} /\ RunningMarks(c) = {} /\ ReviewedMarks(c) = {}
  <2>1. \A x \in WaitingMarks(c), y \in RunningMarks(c) : FALSE
    BY <1>1, <1>2, <1>4
  <2>2. \A x \in WaitingMarks(c), y \in ReviewedMarks(c) : FALSE
    BY <1>1, <1>2, <1>5
  <2>3. \A x \in WaitingMarks(c), y \in Steps : FALSE
    BY <1>1, <1>2, <1>6
  <2>4. \A x \in RunningMarks(c), y \in ReviewedMarks(c) : FALSE
    BY <1>1, <1>4, <1>5
  <2>5. \A x \in RunningMarks(c), y \in Steps : FALSE
    BY <1>1, <1>4, <1>6
  <2>6. \A x \in ReviewedMarks(c), y \in Steps : FALSE
    <3> TAKE x \in ReviewedMarks(c), y \in Steps
    <3>1. PICK job \in jobs : Pending(job) /\ y = job.step /\ In(<<"job", job, 0>>)
      BY <1>6
    <3>2. <<"job", job, 0>> = <<"job", x, 0>>
      BY <3>1, <1>1, <1>5
    <3>3. job = x
      BY <3>2
    <3> QED BY <3>1, <3>3, <1>5 DEF Pending
  <2> HIDE DEF Steps
  <2> QED BY <2>1, <2>2, <2>3, <2>4, <2>5, <2>6
<1> HIDE DEF Steps
<1>12. /\ Cardinality(WaitingMarks(c)) \in Nat /\ Cardinality(WaitingMarks(c)) <= 1
       /\ WaitingMarks(c) = {} => Cardinality(WaitingMarks(c)) = 0
  BY <1>7, AtMostOne
<1>13. /\ Cardinality(RunningMarks(c)) \in Nat /\ Cardinality(RunningMarks(c)) <= 1
       /\ RunningMarks(c) = {} => Cardinality(RunningMarks(c)) = 0
  BY <1>8, AtMostOne
<1>14. /\ Cardinality(ReviewedMarks(c)) \in Nat /\ Cardinality(ReviewedMarks(c)) <= 1
       /\ ReviewedMarks(c) = {} => Cardinality(ReviewedMarks(c)) = 0
  BY <1>9, AtMostOne
<1>15. /\ Cardinality(Steps) \in Nat /\ Cardinality(Steps) <= 1
       /\ Steps = {} => Cardinality(Steps) = 0
  BY <1>10, AtMostOne
<1>16. Cardinality(WaitingMarks(c)) + Cardinality(RunningMarks(c)) + Cardinality(ReviewedMarks(c))
         + Cardinality(Steps) <= 1
  BY <1>11, <1>12, <1>13, <1>14, <1>15
<1> QED BY <1>16 DEF Steps

\* A chain makes one move at a time, and its messages are attempts 1, 2, ...
\* in one session: remediateTurn may load, decide and save without a lock.
THEOREM ChainsMoveInOrder == Spec => []MovesInOrder
<1>1. IInv => MovesInOrder
  <2>1. IInv => SentInOrder
    BY DEF IInv, SentInv, SentInOrder
  <2> QED BY <2>1, OneMove DEF MovesInOrder
<1> QED BY <1>1, Invariance, PTL

\* While the sessions fit the table of counts, none of them is sent more
\* messages than MAX_AGENT_DELIVERIES_PER_SESSION.
THEOREM SessionsAreLimited == FewSessions => (Spec => []SessionLimitHeld)
<1> SUFFICES ASSUME FewSessions PROVE Spec => []SessionLimitHeld
  OBVIOUS
<1>1. IInv => SessionLimitHeld
  <2> SUFFICES ASSUME IInv, NEW s \in Sessions
               PROVE  Cardinality({i \in DOMAIN sent : sent[i].session = s}) <= SessionLimit
    BY DEF SessionLimitHeld
  <2>1. /\ Cardinality(SentTo(s)) \in Nat /\ Cardinality(PendingFor(s)) \in Nat
        /\ DeliveredCount(s) \in 0..SessionLimit /\ SessionLimit \in Nat
    BY CountsTyped, RemediateAssumption
  <2>2. Cardinality(SentTo(s)) + Cardinality(PendingFor(s)) <= DeliveredCount(s)
    BY DEF IInv, CountsInv
  <2>3. Cardinality(SentTo(s)) <= SessionLimit
    BY <2>1, <2>2
  <2> QED BY <2>3 DEF SentTo
<1> QED BY <1>1, Invariance, PTL

\* A chain is recorded as RESOLVED only when each of its findings passed, a
\* message was sent for each attempt it counts, and a new turn judged the last.
THEOREM ResolvedIsProven == Spec => []ResolvedMeansProven
<1>1. IInv => ResolvedMeansProven
  BY DEF IInv, LogInv
<1> QED BY <1>1, Invariance, PTL

\* What is loaded for a chain is a saved entry of it.
LoadsSaved ==
  \A c : LoadChain(c) # None =>
           \E e \in Members(chains) : e.state.chainId = c /\ e.state = LoadChain(c)

LEMMA LoadedChains == LoadsSaved
BY LoadedChain DEF LoadsSaved

\* When each chain that stays has its old scopes within the new ones, so has
\* each chain that can be loaded.
LEMMA LoadedScopes ==
  ASSUME IInv,
         \A e \in Members(chains'), old \in Members(chains) :
           e.state.chainId = old.state.chainId => ScopesWithin(old.state, e.state)
  PROVE  \A c \in TurnIds :
           LoadChain(c) # None /\ LoadChain(c)' # None =>
             \A id \in DOMAIN LoadChain(c).scopes :
               LoadChain(c).scopes[id] \subseteq LoadChain(c)'.scopes[id]
<1> TAKE c \in TurnIds
<1> SUFFICES ASSUME LoadChain(c) # None, LoadChain(c)' # None
             PROVE  \A id \in DOMAIN LoadChain(c).scopes :
                      LoadChain(c).scopes[id] \subseteq LoadChain(c)'.scopes[id]
  OBVIOUS
<1>1. PICK old \in Members(chains) : old.state.chainId = c /\ old.state = LoadChain(c)
  BY LoadedChains DEF LoadsSaved
<1>2. LoadsSaved'
  BY LoadedChains, PTL
<1>3. PICK e \in Members(chains') : e.state.chainId = c /\ e.state = LoadChain(c)'
  BY <1>2 DEF LoadsSaved
<1>4. ScopesWithin(old.state, e.state)
  BY <1>1, <1>3
<1> QED BY <1>1, <1>3, <1>4 DEF ScopesWithin

\* The scope a finding of a chain was judged over never shrinks from one saved
\* state of the chain to the next: a narrowed scope is always caught (chain.ts).
THEOREM ScopesAreKept == Spec => ScopesNeverShrink
<1> DEFINE SameRecords == \A c \in TurnIds :
                     LoadChain(c) # None /\ LoadChain(c)' # None =>
                       \A id \in DOMAIN LoadChain(c).scopes :
                         LoadChain(c).scopes[id] \subseteq LoadChain(c)'.scopes[id]
<1>1. ASSUME IInv, [Next]_vars
      PROVE  SameRecords
  <2>1. OnePerChain(chains)
    BY <1>1 DEF IInv, ChainsInv
  <2>2. \A e, old \in Members(chains) : e.state.chainId = old.state.chainId => e = old
    BY <2>1 DEF OnePerChain, Members
  <2>3. \A state : ScopesWithin(state, state)
    BY DEF ScopesWithin
  <2>4. CASE Members(chains') \subseteq Members(chains)
    BY <2>2, <2>3, <2>4, <1>1, LoadedScopes
  <2>5. ASSUME NEW job \in jobs, DraftReadyIdle(job)
        PROVE  SameRecords
    <3>1. /\ JobOK(job) /\ job.stage = "drafting" /\ StepOK(job.step)
      BY <1>1, <2>5 DEF IInv, JobsInv, JobOK, Pending, DraftReadyIdle
    <3>2. \A old \in Members(chains) :
            old.state.chainId = job.step.state.chainId => ScopesWithin(old.state, job.step.state)
      BY <3>1 DEF JobOK, StepOK
    <3>3. \A e \in Members(chains') : e \in Members(chains) \/ e.state = job.step.state
      BY <1>1, <2>5, DraftIsSaved
    <3> QED BY <2>2, <2>3, <3>2, <3>3, <1>1, LoadedScopes
  <2>6. ASSUME NEW cs, NEW c, OnePerChain(cs), cs = chains, chains' = Without(cs, c)
        PROVE  Members(chains') \subseteq Members(chains)
    BY <2>6, WithoutChain
  <2>7. ASSUME NEW s, EndOrphan(s)
        PROVE  Members(chains') \subseteq Members(chains)
    <3>1. chains' = chains \/ \E c : chains' = Without(chains, c)
      BY <2>7 DEF EndOrphan, Close
    <3> QED BY <3>1, <2>1, <2>6
  <2>8. ASSUME NEW job \in jobs, JobStep(job), ~DraftReadyIdle(job)
        PROVE  Members(chains') \subseteq Members(chains)
    <3>1. chains' = chains \/ \E c : chains' = Without(chains, c)
      BY <2>8 DEF JobStep, Decide, DraftFails, DraftReadyBusy, PromptAccepted, PromptRejected, Close
    <3> QED BY <3>1, <2>1, <2>6
  <2>9. CASE \E s \in Sessions : UserMessage(s)
    BY <2>9, <2>4 DEF UserMessage, pluginVars
  <2>10. CASE HostStep
    BY <2>10, <2>4 DEF HostStep, StartExecution, AdmitQueued, EndExecution, pluginVars
  <2>11. CASE OnEvent
    BY <2>11, <2>4 DEF OnEvent
  <2>12. CASE RunTask
    BY <2>12, <2>4, <2>7 DEF RunTask
  <2>13. CASE \E job \in jobs : JobStep(job)
    BY <2>13, <2>4, <2>5, <2>8
  <2>14. CASE UNCHANGED vars
    BY <2>14, <2>4 DEF vars
  <2> QED BY <1>1, <2>9, <2>10, <2>11, <2>12, <2>13, <2>14 DEF Next
<1>2. IInv /\ [Next]_vars => [SameRecords]_vars
  BY <1>1
<1> QED BY <1>2, Invariance, PTL DEF Spec, ScopesNeverShrink
=============================================================================
