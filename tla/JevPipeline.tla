---------------------------- MODULE JevPipeline ----------------------------
(***************************************************************************)
(* The limiter composed with the TypeSafe transport behind it              *)
(* (packages/node-infra/src/jev/transport.ts).  A call the limiter has     *)
(* admitted resolves the credential, builds one client and sends its       *)
(* requests: one for a single evaluation, up to BatchConcurrency at a time *)
(* for a rule batch.  The SDK that answers a request is external: it may   *)
(* answer in any order.  Answers and failures are written alike, so a      *)
(* result is the index of the request it came from.                        *)
(***************************************************************************)
EXTENDS FifoJevPort

CONSTANTS
  Size,             \* the number of requests of each call; a single call has one
  BatchConcurrency  \* RULE_BATCH_CONCURRENCY

\* evaluateRules makes no call when it planned no request.
ASSUME SizeAssumption == Size \in [Calls -> Nat \ {0}]
ASSUME BatchAssumption == BatchConcurrency \in Nat \ {0}

VARIABLES
  stage,    \* how far the transport is with each call
  cursor,   \* runWithConcurrency: the next index a worker pulls
  flying,   \* the requests of each call now at the SDK, one per busy worker
  results   \* the answers written so far, at their input index

pvars == <<queue, active, phase, submitted, started, stage, cursor, flying, results>>
tvars == <<stage, cursor, flying, results>>

Indexes(c) == 1..Size[c]
Unwritten == 0

PInit ==
  /\ Init
  /\ stage = [c \in Calls |-> "idle"]
  /\ cursor = [c \in Calls |-> 1]
  /\ flying = [c \in Calls |-> {}]
  /\ results = [c \in Calls |-> [i \in Indexes(c) |-> Unwritten]]

PSubmit(c) == Submit(c) /\ UNCHANGED tvars

\* The port is invoked and awaits the credential.
PInvoke(c) ==
  /\ Invoke(c)
  /\ stage' = [stage EXCEPT ![c] = "credential"]
  /\ UNCHANGED <<cursor, flying, results>>

\* No credential, or the client cannot be built: every request of the call
\* is answered with the same failure and none is sent.
NoClient(c) ==
  /\ stage[c] = "credential"
  /\ stage' = [stage EXCEPT ![c] = "complete"]
  /\ results' = [results EXCEPT ![c] = [i \in Indexes(c) |-> i]]
  /\ UNCHANGED <<queue, active, phase, submitted, started, cursor, flying>>

\* Array.from({length: min(cap, items)}, run): each worker pulls its first index.
Workers(c) == IF Size[c] < BatchConcurrency THEN Size[c] ELSE BatchConcurrency

Dispatch(c) ==
  /\ stage[c] = "credential"
  /\ stage' = [stage EXCEPT ![c] = "dispatching"]
  /\ flying' = [flying EXCEPT ![c] = 1..Workers(c)]
  /\ cursor' = [cursor EXCEPT ![c] = Workers(c) + 1]
  /\ UNCHANGED <<queue, active, phase, submitted, started, results>>

\* Variant of RequestReturns: answers written in the order they come.
ReturnsUnnumbered(c, i) ==
  /\ i \in flying[c]
  /\ results' = [results EXCEPT ![c][cursor[c] - Cardinality(flying[c])] = i]
  /\ flying' = [flying EXCEPT ![c] = (@ \ {i}) \union ({cursor[c]} \intersect Indexes(c))]
  /\ cursor' = [cursor EXCEPT ![c] = @ + 1]
  /\ UNCHANGED <<queue, active, phase, submitted, started, stage>>

\* A worker's request settles: its answer goes to its input index, and the
\* worker pulls the next index or ends.
RequestReturns(c, i) ==
  /\ i \in flying[c]
  /\ results' = [results EXCEPT ![c][i] = i]
  /\ flying' = [flying EXCEPT ![c] = (@ \ {i}) \union ({cursor[c]} \intersect Indexes(c))]
  /\ cursor' = [cursor EXCEPT ![c] = @ + 1]
  /\ UNCHANGED <<queue, active, phase, submitted, started, stage>>

\* Promise.all(workers): the batch returns when its last worker has ended.
Complete(c) ==
  /\ stage[c] = "dispatching"
  /\ flying[c] = {}
  /\ stage' = [stage EXCEPT ![c] = "complete"]
  /\ UNCHANGED <<queue, active, phase, submitted, started, cursor, flying, results>>

PReturns(c) == stage[c] = "complete" /\ PortReturns(c) /\ UNCHANGED tvars

PSettle(c) == Settle(c) /\ UNCHANGED tvars

PNext ==
  \E c \in Calls :
    \/ PSubmit(c) \/ PInvoke(c) \/ NoClient(c) \/ Dispatch(c)
    \/ \E i \in Indexes(c) : RequestReturns(c, i)
    \/ Complete(c) \/ PReturns(c) \/ PSettle(c)

PSpec == PInit /\ [][PNext]_pvars

(***************************************************************************)
(* Local steps run; the SDK answers or rejects each request it was sent.   *)
(* The transport sets no timeout of its own, so without this assumption a  *)
(* request that never settles keeps its call's slot for ever.              *)
(***************************************************************************)
PFairness ==
  \A c \in Calls :
    /\ WF_pvars(PInvoke(c))
    /\ WF_pvars(NoClient(c) \/ Dispatch(c))
    /\ \A i \in Indexes(c) : WF_pvars(RequestReturns(c, i))
    /\ WF_pvars(Complete(c))
    /\ WF_pvars(PReturns(c))
    /\ WF_pvars(PSettle(c))

PFairSpec == PSpec /\ PFairness

(***************************************************************************)
(* Properties                                                              *)
(***************************************************************************)

\* Every request of a batch is sent once and its answer lands at its index,
\* whatever order the SDK answers in and whichever worker comes back first, and
\* a caller that gets its reply gets every answer (transport.ts: "written at
\* their input index and returned in input order").
RepliesAligned ==
  \A c \in Calls :
    /\ \A i \in flying[c] : results[c][i] = Unwritten
    /\ phase[c] \in {"returned", "settled"} => \A i \in Indexes(c) : results[c][i] = i
=============================================================================
