-------------------------- MODULE RemediationChain --------------------------
(***************************************************************************)
(* The core's decision about one reviewed turn of a remediation chain      *)
(* (packages/core/src/remediation/chain.ts, chain-state.ts, closures.ts):  *)
(* whether the agent gets a first message, another one, or none, and what  *)
(* the chain has proved when it ends.  Pure: the hosts hold the state.     *)
(*                                                                         *)
(* A review is the sequence of its results.  A set of failures is its own  *)
(* signature: the code hashes the sorted, duplicate-free text of the same  *)
(* (finding, paths) pairs, and two sets with one hash are not modelled.    *)
(***************************************************************************)
EXTENDS Naturals, Sequences, FiniteSets

CONSTANT None   \* null

MAX_ATTEMPTS_CEILING == 3
MAX_CHAIN_ORIGINS == 64

Outcomes == {"PASS", "WARN", "FAIL", "SKIPPED", "UNAVAILABLE"}

\* A result that carries a finding id.  Review-level results carry none and
\* never fail, so they add nothing to any decision here.
Result(id, builtIn, error, outcome, paths) ==
  [id |-> id, builtIn |-> builtIn, error |-> error, outcome |-> outcome, paths |-> paths]

\* What a turn's task says about its chain: parseAutoDelivery's answers.
HumanTurn == [kind |-> "HUMAN"]
Legacy == [kind |-> "LEGACY"]
Mark(chainId, attempt, maxAttempts) ==
  [kind |-> "MARK", chainId |-> chainId, attempt |-> attempt, maxAttempts |-> maxAttempts]

-----------------------------------------------------------------------------
(* Reading the results of one review.                                       *)

ResultSet(results) == {results[i] : i \in DOMAIN results}

\* A review is a list with one result for each finding (parse-rules.ts refuses a
\* rule id used twice), and a warning rule never fails (evaluateWarningGate).
SoundReview(results) ==
  /\ results \in Seq(ResultSet(results))
  /\ \A i, j \in DOMAIN results : results[i].id = results[j].id => i = j
  /\ \A r \in ResultSet(results) : r.outcome = "FAIL" => r.builtIn \/ r.error

ChainFailures(results) ==
  {[id |-> r.id, paths |-> r.paths] :
     r \in {x \in ResultSet(results) : x.outcome = "FAIL" /\ (x.builtIn \/ x.error)}}

FailureIds(failures) == {f.id : f \in failures}

\* The paths of each finding of ids, as its last result in the review has them.
ScopesOf(results, ids) ==
  LET reported == {id \in ids : \E i \in DOMAIN results : results[i].id = id}
      last(id) == CHOOSE i \in DOMAIN results :
                    /\ results[i].id = id
                    /\ \A j \in DOMAIN results : results[j].id = id => j <= i
  IN [id \in reported |-> results[last(id)].paths]

Judged(id, results) ==
  {r \in ResultSet(results) : r.id = id /\ r.outcome \in {"PASS", "FAIL"}}

Narrowed(scopes, id, after) == id \in DOMAIN scopes /\ ~(scopes[id] \subseteq after)

\* Variant of HasUnverifiedOrigin: an origin nobody judged is let through.
UnverifiedIfNarrowed(state, results) ==
  \E id \in state.originIds :
    \E r \in Judged(id, results) : Narrowed(state.scopes, id, r.paths)

\* Variant of HasUnverifiedOrigin: a narrowed scope is let through.
UnverifiedIfUnjudged(state, results) == \E id \in state.originIds : Judged(id, results) = {}

HasUnverifiedOrigin(state, results) ==
  \E id \in state.originIds :
    \/ Judged(id, results) = {}
    \/ \E r \in Judged(id, results) : Narrowed(state.scopes, id, r.paths)

ResolvedIds(state, results) ==
  {id \in state.originIds :
     /\ Judged(id, results) # {}
     /\ \A r \in Judged(id, results) :
          r.outcome = "PASS" /\ ~Narrowed(state.scopes, id, r.paths)}

ChainIdsOf(state, results) ==
  [resolvedIds |-> ResolvedIds(state, results),
   remainingIds |-> state.originIds \ ResolvedIds(state, results)]

UnresolvedIds(state) == [resolvedIds |-> {}, remainingIds |-> state.originIds]

-----------------------------------------------------------------------------
(* The steps.                                                               *)

NoStep == [kind |-> "NONE"]
Stop(code, state, ids) == [kind |-> "STOP", code |-> code, state |-> state, ids |-> ids]
Resolved(state, ids) == [kind |-> "RESOLVED", state |-> state, ids |-> ids]
Deliver(maxAttempts, signature, state) ==
  [kind |-> "DELIVER", chainId |-> state.chainId, attempt |-> state.attempts,
   maxAttempts |-> maxAttempts, signature |-> signature, state |-> state]

\* A request is present only when the turn's whole patch is complete and safe.
StartOf(in, failures) ==
  IF ~in.request \/ failures = {} THEN NoStep
  ELSE Deliver(in.maxAttempts, failures,
         [chainId |-> in.turnId,
          originIds |-> FailureIds(failures),
          signatures |-> <<failures>>,
          turnIds |-> <<in.turnId>>,
          attempts |-> 1,
          scopes |-> ScopesOf(in.results, FailureIds(failures))])

\* Variant of Advanced: the new signature is not kept.
AdvancedKeepingSignatures(state, in, signature) ==
  [state EXCEPT
     !.turnIds = Append(@, in.turnId),
     !.attempts = @ + 1,
     !.scopes = ScopesOf(in.results, state.originIds)]

\* The chain's state once another attempt is decided.
Advanced(state, in, signature) ==
  LET newer == ScopesOf(in.results, state.originIds)
  IN [state EXCEPT
        !.signatures = Append(@, signature),
        !.turnIds = Append(@, in.turnId),
        !.attempts = @ + 1,
        !.scopes = [id \in DOMAIN state.scopes \union DOMAIN newer |->
                      IF id \in DOMAIN newer THEN newer[id] ELSE state.scopes[id]]]

Seen(state, signature) == \E i \in DOMAIN state.signatures : state.signatures[i] = signature

\* In the order of the code: each test assumes the ones before it failed.
Continuation(in, state, failures) ==
  LET ids == ChainIdsOf(state, in.results)
  IN IF HasUnverifiedOrigin(state, in.results) THEN Stop("UNVERIFIED", state, ids)
     ELSE IF failures = {} THEN Resolved(state, ids)
     ELSE IF ~in.request THEN Stop("UNVERIFIED", state, ids)
     ELSE IF ~(FailureIds(failures) \subseteq state.originIds)
       THEN Stop("REGRESSION_INTRODUCED", state, ids)
     ELSE IF Seen(state, failures) THEN Stop("REPEATED_FAILURE", state, ids)
     ELSE IF state.attempts >= in.maxAttempts THEN Stop("LIMIT", state, ids)
     ELSE Deliver(in.maxAttempts, failures, Advanced(state, in, failures))

Clamped(attempt) ==
  IF attempt < 1 THEN 1
  ELSE IF attempt > MAX_ATTEMPTS_CEILING THEN MAX_ATTEMPTS_CEILING ELSE attempt

UnverifiedWithoutState(delivery, known) ==
  LET state == IF known # None THEN known
               ELSE [chainId |-> delivery.chainId, originIds |-> {}, signatures |-> <<>>,
                     turnIds |-> <<>>, attempts |-> Clamped(delivery.attempt),
                     scopes |-> [id \in {} |-> {}]]
  IN Stop("UNVERIFIED", state, UnresolvedIds(state))

DecideChainStep(in, mode) ==
  LET failures == ChainFailures(in.results)
  IN IF mode = "observe" \/ in.delivery = Legacy THEN NoStep
     ELSE IF in.delivery = HumanTurn THEN StartOf(in, failures)
     ELSE IF in.chain = None THEN UnverifiedWithoutState(in.delivery, None)
     ELSE IF \/ in.chain.chainId # in.delivery.chainId
             \/ in.chain.attempts # in.delivery.attempt
       THEN UnverifiedWithoutState(in.delivery, in.chain)
     ELSE Continuation(in, in.chain, failures)

DecideOrphanStep(state) == Stop("UNVERIFIED", state, UnresolvedIds(state))

DecideRemediateStep(in) ==
  IF in.mixed /\ in.chain # None THEN DecideOrphanStep(in.chain)
  ELSE DecideChainStep([in EXCEPT !.request = in.request /\ ~in.mixed], "remediate")

\* Takes back a delivery that did not happen; a first attempt leaves nothing.
AbandonDeliver(step, results) ==
  IF step.attempt <= 1 THEN None
  ELSE LET before == [step.state EXCEPT
                        !.attempts = @ - 1,
                        !.signatures = SubSeq(@, 1, Len(@) - 1),
                        !.turnIds = SubSeq(@, 1, Len(@) - 1)]
       IN Stop("DELIVERY_FAILED", before, ChainIdsOf(before, results))

-----------------------------------------------------------------------------
(* Ended chains and saved states.                                           *)

EndRecord(state, result, ids, turnIds) ==
  [chainId |-> state.chainId, attempts |-> state.attempts, originIds |-> state.originIds,
   resolvedIds |-> ids.resolvedIds, remainingIds |-> ids.remainingIds,
   result |-> result, turnIds |-> turnIds]

\* chainEndOf: the reviewed turn joins the chain's turns once.
ChainEndOf(step, turnId) ==
  LET turns == step.state.turnIds
  IN EndRecord(step.state, IF step.kind = "STOP" THEN step.code ELSE "RESOLVED", step.ids,
               IF \E i \in DOMAIN turns : turns[i] = turnId THEN turns ELSE Append(turns, turnId))

\* recordClosures, for one chain that ended outside a review.
ClosureRecord(state, code) == EndRecord(state, code, UnresolvedIds(state), state.turnIds)

IsDistinct(s) == \A i, j \in DOMAIN s : s[i] = s[j] => i = j

\* hasCoherentShape and isAttemptCount: a state a chain could have saved.
Coherent(state) ==
  /\ state.originIds # {}
  /\ Cardinality(state.originIds) <= MAX_CHAIN_ORIGINS
  /\ DOMAIN state.scopes = state.originIds
  /\ state.attempts \in 1..MAX_ATTEMPTS_CEILING
  /\ Len(state.signatures) = state.attempts /\ IsDistinct(state.signatures)
  /\ Len(state.turnIds) = state.attempts /\ IsDistinct(state.turnIds)
=============================================================================
