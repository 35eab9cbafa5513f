---------------------------- MODULE FifoJevPort ----------------------------
(***************************************************************************)
(* The shared FIFO limiter every Jev call of a plugin instance goes        *)
(* through (packages/core/src/concurrency/fifo-port.ts): one queue, one    *)
(* counter of entries in flight, and a synchronous drain() after every     *)
(* submission and every settlement.  A call is one evaluate or one         *)
(* evaluateRuleBatch; both take exactly one slot, so the model does not    *)
(* tell them apart.                                                        *)
(***************************************************************************)
EXTENDS Naturals, Sequences, FiniteSets

CONSTANTS
  Calls,          \* the calls the reviews will ever make, each made once
  MaxConcurrency  \* FifoJevPortConfig.maxConcurrency

\* createFifoJevPort throws a RangeError for anything else.
ASSUME ConcurrencyAssumption == MaxConcurrency \in Nat \ {0}

VARIABLES
  queue,      \* calls waiting for a slot, oldest first
  active,     \* the counter the drain loop compares with MaxConcurrency
  phase,      \* where each call is
  submitted,  \* history: every call in the order its caller made it
  started     \* history: every call in the order drain() took it

vars == <<queue, active, phase, submitted, started>>

\* "starting": taken by drain(), its port call still one microtask away.
\* "returned": the port's promise has settled, its callback has not run yet.
Phases == {"unsent", "queued", "starting", "inFlight", "returned", "settled"}

\* The calls that hold a slot of the limiter.
InService(ph) == {c \in Calls : ph[c] \in {"starting", "inFlight", "returned"}}

(***************************************************************************)
(* How many entries the while loop of drain() shifts off q when n slots    *)
(* are taken.                                                              *)
(***************************************************************************)
Taken(q, n) ==
  IF n >= MaxConcurrency THEN 0
  ELSE IF Len(q) < MaxConcurrency - n THEN Len(q) ELSE MaxConcurrency - n

\* Variant of Drain: never takes anything.
DrainNothing(q, n, ph) ==
  /\ queue' = q
  /\ active' = n
  /\ started' = started
  /\ phase' = ph

\* drain() from queue q, counter n and phases ph: it runs to completion in
\* the same turn of the event loop as its caller.
Drain(q, n, ph) ==
  LET k == Taken(q, n)
      taken == {q[i] : i \in 1..k}
  IN /\ queue' = SubSeq(q, k + 1, Len(q))
     /\ active' = n + k
     /\ started' = started \o SubSeq(q, 1, k)
     /\ phase' = [c \in Calls |-> IF c \in taken THEN "starting" ELSE ph[c]]

Init ==
  /\ queue = <<>>
  /\ active = 0
  /\ phase = [c \in Calls |-> "unsent"]
  /\ submitted = <<>>
  /\ started = <<>>

\* Variant of Submit: unshift for push.
SubmitAtFront(c) ==
  /\ phase[c] = "unsent"
  /\ submitted' = Append(submitted, c)
  /\ Drain(<<c>> \o queue, active, [phase EXCEPT ![c] = "queued"])

\* evaluate / evaluateRuleBatch: push, then drain.
Submit(c) ==
  /\ phase[c] = "unsent"
  /\ submitted' = Append(submitted, c)
  /\ Drain(Append(queue, c), active, [phase EXCEPT ![c] = "queued"])

\* Promise.resolve().then(() => port.evaluate(...)): the microtask runs.
Invoke(c) ==
  /\ phase[c] = "starting"
  /\ phase' = [phase EXCEPT ![c] = "inFlight"]
  /\ UNCHANGED <<queue, active, submitted, started>>

\* The port's promise is fulfilled or rejected; both callbacks do the same
\* to the limiter, so the outcome is not kept.
PortReturns(c) ==
  /\ phase[c] = "inFlight"
  /\ phase' = [phase EXCEPT ![c] = "returned"]
  /\ UNCHANGED <<queue, active, submitted, started>>

\* Variant of Settle: the callback forgets to drain.
SettleWithoutDrain(c) ==
  /\ phase[c] = "returned"
  /\ submitted' = submitted
  /\ DrainNothing(queue, active - 1, [phase EXCEPT ![c] = "settled"])

\* Variant of Settle: the callback does not release its slot.
SettleKeepingSlot(c) ==
  /\ phase[c] = "returned"
  /\ submitted' = submitted
  /\ Drain(queue, active, [phase EXCEPT ![c] = "settled"])

\* The callback: release the slot, hand the outcome to the caller, drain.
Settle(c) ==
  /\ phase[c] = "returned"
  /\ submitted' = submitted
  /\ Drain(queue, active - 1, [phase EXCEPT ![c] = "settled"])

Next == \E c \in Calls : Submit(c) \/ Invoke(c) \/ PortReturns(c) \/ Settle(c)

Spec == Init /\ [][Next]_vars

(***************************************************************************)
(* Microtasks always run, and the transport behind the port (an SDK the    *)
(* repository only calls) is taken to answer or reject every request.      *)
(***************************************************************************)
Fairness ==
  \A c \in Calls : WF_vars(Invoke(c)) /\ WF_vars(PortReturns(c)) /\ WF_vars(Settle(c))

FairSpec == Spec /\ Fairness

(***************************************************************************)
(* Properties                                                              *)
(***************************************************************************)

TypeOK ==
  /\ queue \in Seq(Calls)
  /\ active \in 0..MaxConcurrency
  /\ phase \in [Calls -> Phases]
  /\ submitted \in Seq(Calls)
  /\ started \in Seq(Calls)

\* The counter never drifts from the calls that hold a slot, so at most
\* MaxConcurrency entries are in flight and no slot is ever lost.
SlotsAccounted ==
  /\ active = Cardinality(InService(phase))
  /\ active <= MaxConcurrency

\* A call never waits while a slot is free: drain() leaves none behind,
\* whichever callback ran last.
NoIdleSlot == queue # <<>> => active = MaxConcurrency

\* Calls start in submission order: what started, then what waits, is what
\* was submitted.
FifoOrder == started \o queue = submitted

\* The calls answered, and the abstract service seen through them.
Answered == {c \in Calls : phase[c] = "settled"}

Service == INSTANCE JevService WITH
  Width <- MaxConcurrency,
  arrivals <- submitted,
  begun <- started,
  finished <- Answered

\* The limiter implements the abstract service: each of its steps begins
\* exactly the calls the service would, in the same order
\* (fifo-port.ts: "Queued calls start in submission order as slots free").
ImplementsService == Service!SSpec

\* Every call made is eventually answered, whatever the calls before it did.
EveryCallSettles == \A c \in Calls : phase[c] = "queued" ~> phase[c] = "settled"
=============================================================================
