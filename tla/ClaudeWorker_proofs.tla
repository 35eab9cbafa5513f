------------------------ MODULE ClaudeWorker_proofs ------------------------
(***************************************************************************)
(* Proofs about the workers and the mod of one Claude Code session, for    *)
(* every number of workers, every clock, every fault and every review.     *)
(* The claims: no unit is recorded twice or lost, and no claim is taken    *)
(* from a worker that runs.  What is sent: never in answer to itself, and  *)
(* never without its request on disk.  The chains: none that sent a        *)
(* message ends without a record, and a saved one always goes on.          *)
(***************************************************************************)
EXTENDS ClaudeWorker, ListLemmas

Running(w) == workers[w].stage # "idle"
Holds(w) == workers[w].stage \in Holding
Reviewed(w) == workers[w].stage \notin {"claimed", "reviewing"}

\* A worker's record has its fields, and a worker that runs is within its ceiling.
WorkersOK ==
  /\ DOMAIN workers = Workers
  /\ \A w \in Workers :
       /\ DOMAIN workers[w] = DOMAIN Idle
       /\ workers[w].since \in 0..now
       /\ Running(w) => now - workers[w].since <= WorkerCeiling

FilesOK ==
  /\ now \in Nat
  /\ IsList(units) /\ IsList(history)
  /\ pending \subseteq Units /\ killed \subseteq Units /\ Elements(history) \subseteq Units
  /\ claimed \subseteq [unit : Units, at : 0..now]

Past == Elements(history) \union killed

\* A handoff is in one place, and only handoffs of the past are nobody's.
HandoffsOK ==
  /\ pending \intersect (ClaimedUnits \union Past) = {}
  /\ \A c, d \in claimed : c.unit = d.unit => c = d
  /\ \A c \in claimed : c.unit \in Past \/ \E w \in Workers : Holds(w) /\ workers[w].path = c

\* What a worker holds is a claim of its own that it made itself.
HeldOK ==
  \A w \in Workers : Holds(w) =>
    /\ workers[w].path \in claimed
    /\ workers[w].path.at >= workers[w].since
    /\ (workers[w].path.unit \in Elements(history) <=> Reviewed(w))
    /\ \A v \in Workers \ {w} : Holds(v) => workers[v].path # workers[w].path

\* What a worker still has to remove is past, and held by nobody.
LeftoversOK ==
  \A w \in Workers : \A c \in workers[w].leftovers :
    /\ c.unit \in Units /\ c.unit \in Past
    /\ \A v \in Workers : Holds(v) => workers[v].path # c

ClaimsInv ==
  /\ WorkersOK /\ FilesOK /\ HandoffsOK /\ HeldOK /\ LeftoversOK
  /\ RecordedOnce /\ NothingLost

-----------------------------------------------------------------------------
(* The claims.                                                              *)

LEMMA GoesFacts ==
  ASSUME DOMAIN workers = Workers, NEW w \in Workers, NEW r, Goes(w, r)
  PROVE  /\ DOMAIN workers' = Workers
         /\ workers'[w] = r
         /\ \A v \in Workers \ {w} : workers'[v] = workers[v]
  BY DEF Goes

\* A step that leaves the handoff files alone, and every worker with the claim
\* it had.
KeepsClaims ==
  /\ UNCHANGED <<now, units, pending, claimed, history, killed>>
  /\ DOMAIN workers' = Workers
  /\ \A w \in Workers :
       /\ DOMAIN workers'[w] = DOMAIN Idle
       /\ workers'[w].since = workers[w].since
       /\ workers'[w].path = workers[w].path
       /\ workers'[w].leftovers = workers[w].leftovers
       /\ Running(w)' => Running(w)
       /\ Holds(w)' = Holds(w)
       /\ Holds(w) => Reviewed(w)' = Reviewed(w)

LEMMA KeepsClaimsInv == ClaimsInv /\ KeepsClaims => ClaimsInv'
<1> SUFFICES ASSUME ClaimsInv, KeepsClaims
             PROVE  ClaimsInv'
  OBVIOUS
<1> USE DEF ClaimsInv, KeepsClaims
<1>1. WorkersOK'
  BY DEF WorkersOK
<1>2. FilesOK'
  BY DEF FilesOK, Units, Elements
<1>3. HandoffsOK'
  BY DEF HandoffsOK, ClaimedUnits, Past, Elements
<1>4. HeldOK'
  BY DEF HeldOK, Elements
<1>5. LeftoversOK'
  BY DEF LeftoversOK, Units, Past, Elements
<1>6. RecordedOnce' /\ NothingLost'
  BY DEF RecordedOnce, NothingLost, ClaimedUnits, Units, Elements, IsDistinct
<1> QED BY <1>1, <1>2, <1>3, <1>4, <1>5, <1>6

\* The steps of a worker that neither take nor give back a claim.
LEMMA QuietSteps ==
  ASSUME ClaimsInv, NEW w \in Workers,
         \/ SweepRead(w) \/ SweepApply(w) \/ RecordClosures(w) \/ List(w) \/ EndPass(w)
         \/ Begin(w) \/ Decide(w) \/ Settle(w)
  PROVE  KeepsClaims
<1> USE DEF ClaimsInv, KeepsClaims
<1> DEFINE Quiet(r) ==
             /\ DOMAIN r = DOMAIN Idle
             /\ r.since = workers[w].since
             /\ r.path = workers[w].path
             /\ r.leftovers = workers[w].leftovers
             /\ r.stage # "idle" => Running(w)
             /\ (r.stage \in Holding) = Holds(w)
             /\ Holds(w) => (r.stage \notin {"claimed", "reviewing"}) = Reviewed(w)
<1>1. ASSUME NEW r, Goes(w, r), Quiet(r),
             UNCHANGED <<now, units, pending, claimed, history, killed>>
      PROVE  KeepsClaims
  <2>1. /\ DOMAIN workers' = Workers
        /\ workers'[w] = r
        /\ \A v \in Workers \ {w} : workers'[v] = workers[v]
    BY <1>1, GoesFacts DEF WorkersOK
  <2> QED BY <1>1, <2>1 DEF WorkersOK, Running, Holds, Reviewed
<1>2. DOMAIN workers[w] = DOMAIN Idle
  BY DEF WorkersOK
<1>3. CASE SweepRead(w)
  <2> DEFINE r == [workers[w] EXCEPT !.stage = "swept", !.saw = SavedStates, !.read = outcomes]
  <2>1. Goes(w, r) /\ UNCHANGED <<now, units, pending, claimed, history, killed>>
    BY <1>3 DEF SweepRead, fileVars, sessionVars, claimVars, recordVars, ghostVars
  <2>2. Quiet(r)
    BY <1>2, <1>3 DEF SweepRead, At, Running, Holds, Holding, Reviewed, Idle
  <2> HIDE DEF r, Quiet
  <2> QED BY <2>1, <2>2, <1>1
<1>4. CASE SweepApply(w)
  <2> DEFINE r == [workers[w] EXCEPT !.stage = "closing", !.ended = Closures(w),
                                   !.saw = {}, !.read = {}]
  <2>1. Goes(w, r) /\ UNCHANGED <<now, units, pending, claimed, history, killed>>
    BY <1>4 DEF SweepApply, fileVars, sessionVars, claimVars, recordVars, ghostVars
  <2>2. Quiet(r)
    BY <1>2, <1>4 DEF SweepApply, At, Running, Holds, Holding, Reviewed, Idle
  <2> HIDE DEF r, Quiet
  <2> QED BY <2>1, <2>2, <1>1
<1>5. CASE RecordClosures(w)
  <2> DEFINE r == [workers[w] EXCEPT !.stage = "list", !.ended = {}]
  <2>1. Goes(w, r) /\ UNCHANGED <<now, units, pending, claimed, history, killed>>
    BY <1>5 DEF RecordClosures, fileVars, sessionVars, claimVars, recordVars, ghostVars
  <2>2. Quiet(r)
    BY <1>2, <1>5 DEF RecordClosures, At, Running, Holds, Holding, Reviewed, Idle
  <2> HIDE DEF r, Quiet
  <2> QED BY <2>1, <2>2, <1>1
<1>6. CASE List(w)
  <2> DEFINE r == [workers[w] EXCEPT !.stage = "drain", !.todo = pending, !.any = FALSE]
  <2>1. Goes(w, r) /\ UNCHANGED <<now, units, pending, claimed, history, killed>>
    BY <1>6 DEF List, fileVars, sessionVars, claimVars, recordVars, ghostVars
  <2>2. Quiet(r)
    BY <1>2, <1>6 DEF List, At, Running, Holds, Holding, Reviewed, Idle
  <2> HIDE DEF r, Quiet
  <2> QED BY <2>1, <2>2, <1>1
<1>7. CASE EndPass(w)
  <2> DEFINE r == [workers[w] EXCEPT !.stage = IF workers[w].any THEN "list" ELSE "retry"]
  <2>1. Goes(w, r) /\ UNCHANGED <<now, units, pending, claimed, history, killed>>
    BY <1>7 DEF EndPass, fileVars, sessionVars, claimVars, recordVars, ghostVars
  <2>2. Quiet(r)
    BY <1>2, <1>7 DEF EndPass, At, Running, Holds, Holding, Reviewed, Idle
  <2> HIDE DEF r, Quiet
  <2> QED BY <2>1, <2>2, <1>1
<1>8. CASE Begin(w)
  <2> DEFINE r == [workers[w] EXCEPT
                     !.stage = "reviewing",
                     !.settings = IF ~Unit(w).turn /\ chains = <<>> THEN "off" ELSE Mode]
  <2>1. Goes(w, r) /\ UNCHANGED <<now, units, pending, claimed, history, killed>>
    BY <1>8 DEF Begin, fileVars, sessionVars, claimVars, recordVars, ghostVars, HeldOK, Holds, Holding, At
  <2>2. Quiet(r)
    BY <1>2, <1>8 DEF Begin, At, Running, Holds, Holding, Reviewed, Idle
  <2> HIDE DEF r, Quiet
  <2> QED BY <2>1, <2>2, <1>1
<1>9. CASE Decide(w)
  <2> DEFINE r == [workers[w] EXCEPT !.stage = "decided", !.step = StepOf(w)]
  <2>1. Goes(w, r) /\ UNCHANGED <<now, units, pending, claimed, history, killed>>
    BY <1>9 DEF Decide, fileVars, sessionVars, claimVars, recordVars, ghostVars
  <2>2. Quiet(r)
    BY <1>2, <1>9 DEF Decide, At, Running, Holds, Holding, Reviewed, Idle
  <2> HIDE DEF r, Quiet
  <2> QED BY <2>1, <2>2, <1>1
<1>10. CASE Settle(w)
  <2> DEFINE r(proposed) == [workers[w] EXCEPT !.stage = "settled", !.proposed = proposed]
  <2>1. \/ Goes(w, r(TRUE)) \/ Goes(w, r(FALSE))
    BY <1>10 DEF Settle
  <2>2. UNCHANGED <<now, units, pending, claimed, history, killed>>
    BY <1>10 DEF Settle, sessionVars, claimVars, recordVars, ghostVars
  <2>3. Quiet(r(TRUE)) /\ Quiet(r(FALSE))
    BY <1>2, <1>10 DEF Settle, At, Running, Holds, Holding, Reviewed, Idle
  <2> HIDE DEF r, Quiet
  <2> QED BY <2>1, <2>2, <2>3, <1>1
<1> QED BY <1>3, <1>4, <1>5, <1>6, <1>7, <1>8, <1>9, <1>10

\* The clock moves: a worker past its ceiling is dead before it does.
LEMMA TickClaims == ClaimsInv /\ Tick => ClaimsInv'
<1> SUFFICES ASSUME ClaimsInv, Tick
             PROVE  ClaimsInv'
  OBVIOUS
<1>1. /\ now' = now + 1
      /\ UNCHANGED <<units, pending, claimed, workers, history, killed>>
      /\ \A w \in Workers : ~AtCeiling(w)
  BY DEF Tick, sessionVars, fileVars, claimVars, recordVars, ghostVars
<1>2. WorkersOK'
  BY <1>1, WorkerAssumption DEF ClaimsInv, WorkersOK, FilesOK, AtCeiling, At, Running
<1>3. FilesOK'
  BY <1>1 DEF ClaimsInv, FilesOK, Units, Elements
<1>4. HandoffsOK' /\ HeldOK' /\ LeftoversOK'
  BY <1>1 DEF ClaimsInv, HandoffsOK, HeldOK, LeftoversOK, ClaimedUnits, Past, Units, Elements,
              Holds, Reviewed
<1>5. RecordedOnce' /\ NothingLost'
  BY <1>1 DEF ClaimsInv, RecordedOnce, NothingLost, ClaimedUnits, Units, Elements, IsDistinct
<1> QED BY <1>2, <1>3, <1>4, <1>5 DEF ClaimsInv

\* Every worker holds what it held, and has nothing more left over.
KeepsHeld ==
  \A w \in Workers :
    /\ Holds(w)' = Holds(w)
    /\ Holds(w) => workers'[w] = workers[w]
    /\ workers'[w].leftovers \subseteq workers[w].leftovers

LEMMA SpawnKeepsHeld ==
  ASSUME ClaimsInv, NEW w \in Workers, At(w, "idle"), Spawned(w), now' = now
  PROVE  WorkersOK' /\ KeepsHeld
<1> DEFINE r == [Idle EXCEPT !.stage = "start", !.since = now]
<1>1. /\ DOMAIN workers' = Workers
      /\ workers'[w] = r
      /\ \A v \in Workers \ {w} : workers'[v] = workers[v]
  BY GoesFacts DEF Spawned, ClaimsInv, WorkersOK
<1>2. /\ DOMAIN r = DOMAIN Idle
      /\ r.since = now /\ r.stage = "start" /\ r.leftovers = {}
  BY DEF Idle
<1>3. "start" \notin Holding /\ ~Holds(w)
  BY DEF Holding, Holds, At
<1> HIDE DEF r
<1>4. WorkersOK'
  BY <1>1, <1>2, WorkerAssumption DEF ClaimsInv, WorkersOK, FilesOK, Running
<1>5. KeepsHeld
  BY <1>1, <1>2, <1>3 DEF KeepsHeld, Holds
<1> QED BY <1>4, <1>5

\* A worker starts; nothing else changes.
LEMMA StartClaims ==
  ASSUME ClaimsInv, WorkersOK', KeepsHeld, UNCHANGED <<now, units, pending, claimed, history, killed>>
  PROVE  ClaimsInv'
<1> USE DEF ClaimsInv, KeepsHeld
<1>1. FilesOK'
  BY DEF FilesOK, Units, Elements
<1>2. HandoffsOK' /\ HeldOK'
  BY DEF HandoffsOK, HeldOK, ClaimedUnits, Past, Elements, Reviewed
<1>3. LeftoversOK'
  BY DEF LeftoversOK, Past, Units, Elements
<1>4. RecordedOnce' /\ NothingLost'
  BY DEF RecordedOnce, NothingLost, ClaimedUnits, Units, Elements, IsDistinct
<1> QED BY <1>1, <1>2, <1>3, <1>4

\* A unit is handed off under a number no file carries yet.
LEMMA NewUnitClaims ==
  ASSUME ClaimsInv, WorkersOK', KeepsHeld, NEW unit, units' = Append(units, unit),
         pending' = pending \union {Len(units')},
         UNCHANGED <<now, claimed, history, killed>>
  PROVE  ClaimsInv'
<1> USE DEF ClaimsInv, KeepsHeld
<1>1. /\ IsList(units') /\ Len(units) \in Nat
      /\ Units = 1..Len(units) /\ Units' = 1..(Len(units) + 1) /\ Len(units') = Len(units) + 1
  BY AppendList DEF FilesOK, Units
<1>2. FilesOK'
  <2>1. Units \subseteq Units' /\ Len(units') \in Units'
    BY <1>1
  <2>2. [unit : Units, at : 0..now] \subseteq [unit : Units', at : 0..now]
    BY <2>1
  <2> QED BY <1>1, <2>1, <2>2 DEF FilesOK, Elements
<1>3. HandoffsOK'
  <2>1. ClaimedUnits \subseteq Units /\ Past \subseteq Units
    BY DEF FilesOK, ClaimedUnits, Past
  <2>2. Len(units') \notin ClaimedUnits \union Past
    BY <1>1, <2>1
  <2> QED BY <2>2 DEF HandoffsOK, ClaimedUnits, Past, Elements
<1>4. HeldOK'
  BY DEF HeldOK, Elements, Reviewed
<1>5. LeftoversOK'
  BY <1>1 DEF LeftoversOK, Past, Elements
<1>6. RecordedOnce' /\ NothingLost'
  BY <1>1 DEF RecordedOnce, NothingLost, ClaimedUnits, Elements, IsDistinct
<1> QED BY <1>2, <1>3, <1>4, <1>5, <1>6

\* A worker dies, and with it what it held is of the past.
LEMMA DiesClaims ==
  ASSUME ClaimsInv, NEW w \in Workers, Dies(w)
  PROVE  ClaimsInv'
<1> USE DEF ClaimsInv
<1>1. /\ DOMAIN workers' = Workers
      /\ workers'[w] = Idle
      /\ \A v \in Workers \ {w} : workers'[v] = workers[v]
  BY GoesFacts DEF Dies, WorkersOK
<1>2. /\ UNCHANGED <<now, units, pending, claimed, history>>
      /\ killed' = killed \union (Held(w) \ Elements(history))
  BY DEF Dies, sessionVars, fileVars, claimVars, recordVars
<1>3. Past' = Past \union Held(w)
  BY <1>2 DEF Past, Elements
<1>4. Held(w) \subseteq Units /\ Held(w) \intersect pending = {}
  BY DEF Held, Holds, HeldOK, FilesOK, HandoffsOK, ClaimedUnits
<1>5. /\ Idle.stage = "idle" /\ Idle.since = 0 /\ Idle.leftovers = {} /\ "idle" \notin Holding
  BY DEF Idle, Holding
<1>6. /\ ~Holds(w)'
      /\ \A v \in Workers \ {w} : Holds(v)' = Holds(v)
  BY <1>1, <1>5 DEF Holds
<1>7. WorkersOK'
  BY <1>1, <1>2, <1>5 DEF WorkersOK, FilesOK, Running
<1>8. FilesOK'
  BY <1>2, <1>4 DEF FilesOK, Units, Elements
<1>9. HandoffsOK'
  <2>1. pending' \intersect (ClaimedUnits' \union Past') = {}
    BY <1>2, <1>3, <1>4 DEF HandoffsOK, ClaimedUnits
  <2>2. ASSUME NEW c \in claimed'
        PROVE  c.unit \in Past' \/ \E v \in Workers : Holds(v)' /\ workers'[v].path = c
    BY <2>2, <1>1, <1>2, <1>3, <1>6 DEF HandoffsOK, Held, Holds
  <2> QED BY <1>2, <2>1, <2>2 DEF HandoffsOK
<1>10. HeldOK'
  BY <1>1, <1>2, <1>6 DEF HeldOK, Reviewed, Elements
<1>11. LeftoversOK'
  BY <1>1, <1>2, <1>3, <1>5, <1>6 DEF LeftoversOK, Units
<1>12. RecordedOnce' /\ NothingLost'
  BY <1>2 DEF RecordedOnce, NothingLost, ClaimedUnits, Units, Elements, IsDistinct
<1> QED BY <1>7, <1>8, <1>9, <1>10, <1>11, <1>12

\* An abandoned claim is nobody's: its worker would be past its ceiling.
LEMMA AbandonedIsPast ==
  ASSUME ClaimsInv, NEW c \in claimed, Abandoned(c)
  PROVE  /\ c.unit \in Past
         /\ \A w \in Workers : Holds(w) => workers[w].path # c
<1>1. ASSUME NEW w \in Workers, Holds(w), workers[w].path = c
      PROVE  FALSE
  <2>1. c.at >= workers[w].since /\ c.at \in 0..now /\ now \in Nat
    BY <1>1 DEF ClaimsInv, HeldOK, FilesOK
  <2>2. workers[w].since \in 0..now /\ now - workers[w].since <= WorkerCeiling
    BY <1>1 DEF ClaimsInv, WorkersOK, Holds, Holding, Running
  <2>3. now - c.at > AbandonedAfter
    BY DEF Abandoned
  <2> QED BY <2>1, <2>2, <2>3, WorkerAssumption
<1> QED BY <1>1 DEF ClaimsInv, HandoffsOK

\* A worker that starts takes away abandoned claims only.
LEMMA DropClaims ==
  ASSUME ClaimsInv, NEW w \in Workers, DropAbandonedClaims(w)
  PROVE  ClaimsInv'
<1> USE DEF ClaimsInv
<1>1. PICK kept \in SUBSET {c \in claimed : Abandoned(c)} :
        /\ claimed' = {c \in claimed : Abandoned(c) => c \in kept}
        /\ Goes(w, [workers[w] EXCEPT !.stage = "sweep", !.leftovers = kept])
  BY DEF DropAbandonedClaims
<1> DEFINE r == [workers[w] EXCEPT !.stage = "sweep", !.leftovers = kept]
<1>2. /\ DOMAIN workers' = Workers
      /\ workers'[w] = r
      /\ \A v \in Workers \ {w} : workers'[v] = workers[v]
  BY <1>1, GoesFacts DEF WorkersOK
<1>3. /\ DOMAIN r = DOMAIN Idle /\ r.stage = "sweep" /\ r.leftovers = kept
      /\ r.since = workers[w].since
  BY DEF WorkersOK, Idle
<1> HIDE DEF r
<1>4. /\ UNCHANGED <<now, units, pending, history, killed>>
      /\ At(w, "start")
  BY DEF DropAbandonedClaims, sessionVars, recordVars, ghostVars
<1>5. /\ ~Holds(w) /\ ~Holds(w)' /\ Running(w)
      /\ \A v \in Workers \ {w} : Holds(v)' = Holds(v)
  BY <1>2, <1>3, <1>4 DEF Holds, Holding, At, Running
<1>6. WorkersOK'
  BY <1>2, <1>3, <1>4, <1>5 DEF WorkersOK, Running
<1>7. claimed' \subseteq claimed /\ Past' = Past /\ FilesOK'
  BY <1>1, <1>4 DEF FilesOK, Units, Elements, Past
<1>8. HandoffsOK'
  BY <1>2, <1>4, <1>5, <1>7 DEF HandoffsOK, ClaimedUnits
<1>9. HeldOK'
  <2>1. \A v \in Workers : Holds(v) => workers[v].path \in claimed'
    BY <1>1, AbandonedIsPast DEF HeldOK
  <2> QED BY <1>2, <1>4, <1>5, <2>1 DEF HeldOK, Reviewed, Elements
<1>10. LeftoversOK'
  <2>1. \A c \in kept : /\ c.unit \in Units /\ c.unit \in Past
                        /\ \A v \in Workers : Holds(v) => workers[v].path # c
    BY AbandonedIsPast DEF FilesOK
  <2> QED BY <1>2, <1>3, <1>4, <1>5, <1>7, <2>1 DEF LeftoversOK, Units
<1>11. RecordedOnce' /\ NothingLost'
  <2>1. \A c \in claimed \ claimed' : c.unit \in Past
    BY <1>1, AbandonedIsPast
  <2> QED BY <1>4, <1>7, <2>1 DEF RecordedOnce, NothingLost, ClaimedUnits, Units, Elements, IsDistinct, Past
<1> QED BY <1>6, <1>7, <1>8, <1>9, <1>10, <1>11

\* The rename gives a waiting handoff to one worker.
LEMMA TakeClaims ==
  ASSUME ClaimsInv, NEW w \in Workers, NEW u \in pending, ~Holds(w), Running(w),
         pending' = pending \ {u},
         claimed' = claimed \union {[unit |-> u, at |-> now]},
         UNCHANGED <<now, units, history, killed>>,
         DOMAIN workers' = Workers,
         DOMAIN workers'[w] = DOMAIN Idle,
         workers'[w].since = workers[w].since,
         workers'[w].leftovers = workers[w].leftovers,
         workers'[w].stage = "claimed",
         workers'[w].path = [unit |-> u, at |-> now],
         \A v \in Workers \ {w} : workers'[v] = workers[v]
  PROVE  ClaimsInv'
<1> USE DEF ClaimsInv
<1> DEFINE new == [unit |-> u, at |-> now]
<1>1. /\ new.unit = u /\ new.at = now
      /\ new \in [unit : Units, at : 0..now]
      /\ u \in Units /\ u \notin ClaimedUnits /\ u \notin Past
  BY DEF FilesOK, HandoffsOK
<1> HIDE DEF new
<1>2. /\ Holds(w)' /\ ~Reviewed(w)'
      /\ \A v \in Workers \ {w} : Holds(v)' = Holds(v) /\ Reviewed(v)' = Reviewed(v)
  BY DEF Holds, Holding, Reviewed
<1>3. claimed' = claimed \union {new} /\ workers'[w].path = new
  BY DEF new
<1>4. Past' = Past /\ Units' = Units /\ ClaimedUnits' = ClaimedUnits \union {u}
  BY <1>1, <1>3 DEF Past, Elements, Units, ClaimedUnits
<1>5. WorkersOK'
  BY DEF WorkersOK, Running
<1>6. FilesOK'
  BY <1>1, <1>3 DEF FilesOK, Units, Elements
<1>7. HandoffsOK'
  <2>1. pending' \intersect (ClaimedUnits' \union Past') = {}
    BY <1>4 DEF HandoffsOK
  <2>2. \A c \in claimed : c.unit # u
    BY <1>1 DEF ClaimedUnits
  <2>3. ASSUME NEW c \in claimed
        PROVE  c.unit \in Past \/ \E v \in Workers : Holds(v)' /\ workers'[v].path = c
    BY <1>2 DEF HandoffsOK
  <2> QED BY <1>1, <1>2, <1>3, <1>4, <2>1, <2>2, <2>3 DEF HandoffsOK
<1>8. HeldOK'
  <2>1. \A c \in claimed : c # new
    BY <1>1 DEF ClaimedUnits
  <2>2. new.at >= workers[w].since
    BY <1>1 DEF WorkersOK, FilesOK
  <2>3. u \notin Elements(history')
    BY <1>1 DEF Past
  <2> QED BY <1>1, <1>2, <1>3, <2>1, <2>2, <2>3 DEF HeldOK, Elements
<1>9. LeftoversOK'
  BY <1>1, <1>2, <1>3, <1>4 DEF LeftoversOK
<1>10. RecordedOnce' /\ NothingLost'
  BY <1>4 DEF RecordedOnce, NothingLost, Elements, IsDistinct
<1> QED BY <1>5, <1>6, <1>7, <1>8, <1>9, <1>10

LEMMA ClaimClaims ==
  ASSUME ClaimsInv, NEW w \in Workers, Claim(w)
  PROVE  ClaimsInv'
<1> DEFINE u == Oldest(workers[w].todo)
           rest == [workers[w] EXCEPT !.todo = @ \ {u}]
           taken == [rest EXCEPT !.stage = "claimed", !.any = TRUE, !.path = [unit |-> u, at |-> now]]
<1> HIDE DEF u
<1>1. /\ At(w, "drain")
      /\ UNCHANGED <<now, units, history, killed>>
      /\ \/ /\ u \in pending
            /\ pending' = pending \ {u}
            /\ claimed' = claimed \union {[unit |-> u, at |-> now]}
            /\ Goes(w, taken)
         \/ Goes(w, rest) /\ UNCHANGED claimVars
  BY DEF Claim, u, sessionVars, recordVars, ghostVars
<1>2. ~Holds(w) /\ Running(w) /\ DOMAIN workers = Workers /\ DOMAIN workers[w] = DOMAIN Idle
  BY <1>1 DEF ClaimsInv, WorkersOK, Holds, Holding, At, Running
<1>3. CASE Goes(w, taken) /\ u \in pending /\ pending' = pending \ {u}
           /\ claimed' = claimed \union {[unit |-> u, at |-> now]}
  <2>1. /\ DOMAIN workers' = Workers
        /\ workers'[w] = taken
        /\ \A v \in Workers \ {w} : workers'[v] = workers[v]
    BY <1>2, <1>3, GoesFacts
  <2>2. /\ DOMAIN taken = DOMAIN Idle
        /\ taken.since = workers[w].since /\ taken.leftovers = workers[w].leftovers
        /\ taken.stage = "claimed" /\ taken.path = [unit |-> u, at |-> now]
    BY <1>2 DEF Idle
  <2> HIDE DEF taken
  <2> QED BY <1>1, <1>2, <1>3, <2>1, <2>2, TakeClaims
<1>4. CASE Goes(w, rest) /\ UNCHANGED claimVars
  <2>1. /\ DOMAIN workers' = Workers
        /\ workers'[w] = rest
        /\ \A v \in Workers \ {w} : workers'[v] = workers[v]
    BY <1>2, <1>4, GoesFacts
  <2>2. /\ DOMAIN rest = DOMAIN Idle
        /\ rest.since = workers[w].since /\ rest.leftovers = workers[w].leftovers
        /\ rest.stage = workers[w].stage /\ rest.path = workers[w].path
    BY <1>2 DEF Idle
  <2> HIDE DEF rest
  <2>3. KeepsClaims
    BY <1>1, <1>4, <2>1, <2>2 DEF KeepsClaims, ClaimsInv, WorkersOK, claimVars, Running, Holds, Reviewed
  <2> QED BY <2>3, KeepsClaimsInv
<1> QED BY <1>1, <1>3, <1>4

\* The review is appended to the history, once: no one else holds the unit.
LEMMA ReviewClaims ==
  ASSUME ClaimsInv, NEW w \in Workers, Review(w)
  PROVE  ClaimsInv'
<1> USE DEF ClaimsInv
<1> DEFINE u == workers[w].path.unit
<1>1. PICK review : Goes(w, [workers[w] EXCEPT !.stage = "recorded", !.review = review])
  BY DEF Review
<1> DEFINE r == [workers[w] EXCEPT !.stage = "recorded", !.review = review]
<1>2. /\ DOMAIN workers' = Workers
      /\ workers'[w] = r
      /\ \A v \in Workers \ {w} : workers'[v] = workers[v]
  BY <1>1, GoesFacts DEF WorkersOK
<1>3. /\ DOMAIN r = DOMAIN Idle /\ r.stage = "recorded" /\ r.leftovers = workers[w].leftovers
      /\ r.since = workers[w].since /\ r.path = workers[w].path
  BY DEF WorkersOK, Idle
<1> HIDE DEF r
<1>4. /\ UNCHANGED <<now, units, pending, claimed, killed>>
      /\ At(w, "reviewing")
      /\ history' = Append(history, u)
  BY DEF Review, sessionVars, claimVars, ghostVars
<1>5. /\ Holds(w) /\ Holds(w)' /\ Running(w) /\ ~Reviewed(w) /\ Reviewed(w)'
      /\ \A v \in Workers \ {w} : Holds(v)' = Holds(v) /\ Reviewed(v)' = Reviewed(v)
  BY <1>2, <1>3, <1>4 DEF Holds, Holding, At, Running, Reviewed
<1>6. /\ workers[w].path \in claimed /\ u \in Units /\ u \in ClaimedUnits
      /\ u \notin Elements(history)
  BY <1>5 DEF HeldOK, FilesOK, ClaimedUnits
<1> HIDE DEF u
<1>7. /\ IsList(history') /\ Elements(history') = Elements(history) \union {u}
      /\ Units' = Units /\ Past' = Past \union {u} /\ ClaimedUnits' = ClaimedUnits
  BY <1>4, AppendList DEF FilesOK, Elements, Members, Past, Units, ClaimedUnits
<1>8. WorkersOK'
  BY <1>2, <1>3, <1>4, <1>5 DEF WorkersOK, Running
<1>9. FilesOK'
  <2>1. now' \in Nat /\ IsList(units') /\ pending' \subseteq Units' /\ killed' \subseteq Units'
    BY <1>4, <1>7 DEF FilesOK
  <2>2. claimed' \subseteq [unit : Units', at : 0..now']
    BY <1>4, <1>7 DEF FilesOK
  <2> QED BY <1>6, <1>7, <2>1, <2>2 DEF FilesOK
<1>10. HandoffsOK'
  <2>1. u \notin pending
    BY <1>6 DEF HandoffsOK
  <2>2. ASSUME NEW c \in claimed
        PROVE  c.unit \in Past' \/ \E v \in Workers : Holds(v)' /\ workers'[v].path = c
    BY <1>2, <1>3, <1>5, <1>7 DEF HandoffsOK
  <2> QED BY <1>4, <1>7, <2>1, <2>2 DEF HandoffsOK
<1>11. HeldOK'
  <2>1. \A v \in Workers \ {w} : Holds(v) => workers[v].path.unit # u
    BY <1>5, <1>6 DEF HeldOK, HandoffsOK, u
  <2>2. workers'[w].path.unit = u
    BY <1>2, <1>3 DEF u
  <2> QED BY <1>2, <1>3, <1>4, <1>5, <1>7, <2>1, <2>2 DEF HeldOK
<1>12. LeftoversOK'
  BY <1>2, <1>3, <1>5, <1>7 DEF LeftoversOK
<1>13. RecordedOnce'
  <2>1. \A i \in 1..Len(history) : history[i] # u
    BY <1>6, AppendList DEF Elements, FilesOK
  <2> QED BY <1>4, <2>1, AppendList DEF RecordedOnce, IsDistinct, FilesOK
<1>14. NothingLost'
  BY <1>4, <1>7 DEF NothingLost
<1> QED BY <1>8, <1>9, <1>10, <1>11, <1>12, <1>13, <1>14

\* The claim of a recorded unit goes, at once or as something left over.
LEMMA AnnounceClaims ==
  ASSUME ClaimsInv, NEW w \in Workers, Announce(w)
  PROVE  ClaimsInv'
<1> USE DEF ClaimsInv
<1> DEFINE p == workers[w].path
           done == [workers[w] EXCEPT
                      !.stage = "drain", !.path = None, !.settings = "off",
                      !.review = NoReview, !.step = NoStep, !.proposed = FALSE]
           kept == [done EXCEPT !.leftovers = @ \union {p}]
<1>1. /\ At(w, "settled")
      /\ UNCHANGED <<now, units, pending, history, killed>>
      /\ \/ claimed' = claimed \ {p} /\ Goes(w, done)
         \/ UNCHANGED claimed /\ Goes(w, kept)
  BY DEF Announce, sessionVars
<1>2. PICK r \in {done, kept} : Goes(w, r)
  BY <1>1
<1>3. /\ DOMAIN r = DOMAIN Idle /\ r.stage = "drain" /\ r.since = workers[w].since
      /\ r.leftovers \subseteq workers[w].leftovers \union {p}
  BY DEF WorkersOK, Idle
<1> HIDE DEF done, kept
<1>4. /\ DOMAIN workers' = Workers
      /\ workers'[w] = r
      /\ \A v \in Workers \ {w} : workers'[v] = workers[v]
  BY <1>2, GoesFacts DEF WorkersOK
<1>5. /\ Holds(w) /\ ~Holds(w)' /\ Running(w) /\ Reviewed(w)
      /\ \A v \in Workers \ {w} : Holds(v)' = Holds(v)
  BY <1>1, <1>3, <1>4 DEF Holds, Holding, At, Running, Reviewed
<1>6. /\ p \in claimed /\ p.unit \in Units /\ p.unit \in Past
      /\ \A v \in Workers \ {w} : Holds(v) => workers[v].path # p
  BY <1>5 DEF HeldOK, FilesOK, Past
<1> HIDE DEF p
<1>7. /\ claimed' \subseteq claimed /\ \A c \in claimed : c = p \/ c \in claimed'
      /\ Past' = Past /\ Units' = Units
  BY <1>1 DEF Past, Elements, Units
<1>8. WorkersOK'
  BY <1>1, <1>3, <1>4, <1>5 DEF WorkersOK, Running
<1>9. FilesOK'
  BY <1>1, <1>7 DEF FilesOK, Units, Elements
<1>10. HandoffsOK'
  <2>1. ASSUME NEW c \in claimed'
        PROVE  c.unit \in Past' \/ \E v \in Workers : Holds(v)' /\ workers'[v].path = c
    <3>1. CASE c = p
      BY <3>1, <1>6, <1>7
    <3>2. CASE c # p
      BY <3>2, <1>4, <1>5, <1>7 DEF HandoffsOK, p
    <3> QED BY <3>1, <3>2
  <2> QED BY <1>1, <1>7, <2>1 DEF HandoffsOK, ClaimedUnits
<1>11. HeldOK'
  BY <1>1, <1>4, <1>5, <1>6, <1>7 DEF HeldOK, Reviewed, Elements
<1>12. LeftoversOK'
  BY <1>3, <1>4, <1>5, <1>6, <1>7 DEF LeftoversOK
<1>13. RecordedOnce' /\ NothingLost'
  BY <1>1, <1>6, <1>7 DEF RecordedOnce, NothingLost, ClaimedUnits, Elements, IsDistinct, Past
<1> QED BY <1>8, <1>9, <1>10, <1>11, <1>12, <1>13

\* A worker exits, and takes what it left over with it or leaves it behind.
LEMMA ExitClaims ==
  ASSUME ClaimsInv, NEW w \in Workers, Exit(w)
  PROVE  ClaimsInv'
<1> USE DEF ClaimsInv
<1>1. /\ At(w, "retry")
      /\ UNCHANGED <<now, units, pending, history, killed>>
      /\ claimed' = claimed \ workers[w].leftovers \/ UNCHANGED claimed
  BY DEF Exit, sessionVars, recordVars, ghostVars
<1>2. /\ DOMAIN workers' = Workers
      /\ workers'[w] = Idle
      /\ \A v \in Workers \ {w} : workers'[v] = workers[v]
  BY GoesFacts DEF Exit, WorkersOK
<1>3. /\ Idle.stage = "idle" /\ Idle.since = 0 /\ Idle.leftovers = {}
      /\ "idle" \notin Holding /\ "retry" \notin Holding
  BY DEF Idle, Holding
<1>4. /\ ~Holds(w) /\ ~Holds(w)'
      /\ \A v \in Workers \ {w} : Holds(v)' = Holds(v)
  BY <1>1, <1>2, <1>3 DEF Holds, At
<1>5. /\ claimed' \subseteq claimed
      /\ \A c \in claimed \ claimed' : c \in workers[w].leftovers
      /\ Past' = Past /\ Units' = Units
  BY <1>1 DEF Past, Elements, Units
<1>6. WorkersOK'
  BY <1>1, <1>2, <1>3 DEF WorkersOK, FilesOK, Running
<1>7. FilesOK'
  BY <1>1, <1>5 DEF FilesOK, Units, Elements
<1>8. HandoffsOK'
  BY <1>1, <1>2, <1>4, <1>5 DEF HandoffsOK, ClaimedUnits
<1>9. HeldOK'
  <2>1. \A v \in Workers : Holds(v) => workers[v].path \in claimed'
    BY <1>5 DEF HeldOK, LeftoversOK
  <2> QED BY <1>1, <1>2, <1>4, <2>1 DEF HeldOK, Reviewed, Elements
<1>10. LeftoversOK'
  BY <1>2, <1>3, <1>4, <1>5 DEF LeftoversOK
<1>11. RecordedOnce' /\ NothingLost'
  <2>1. \A c \in claimed \ claimed' : c.unit \in Past
    BY <1>5 DEF LeftoversOK
  <2> QED BY <1>1, <1>5, <2>1 DEF RecordedOnce, NothingLost, ClaimedUnits, Elements, IsDistinct, Past
<1> QED BY <1>6, <1>7, <1>8, <1>9, <1>10, <1>11

LEMMA InitClaims == Init => ClaimsInv
<1> SUFFICES ASSUME Init
             PROVE  ClaimsInv
  OBVIOUS
<1>1. /\ \A w \in Workers : workers[w] = Idle
      /\ DOMAIN workers = Workers
      /\ Idle.stage = "idle" /\ Idle.since = 0 /\ Idle.leftovers = {} /\ "idle" \notin Holding
  BY DEF Init, Idle, Holding
<1>2. /\ now = 0 /\ units = <<>> /\ history = <<>> /\ pending = {} /\ claimed = {} /\ killed = {}
  BY DEF Init
<1>3. Elements(<<>>) = {} /\ DOMAIN <<>> = {} /\ Units = {}
  BY <1>2, EmptyList DEF Elements, Units
<1>4. WorkersOK
  BY <1>1, <1>2 DEF WorkersOK, Running
<1>5. FilesOK
  BY <1>2, <1>3, EmptyList DEF FilesOK
<1>6. HandoffsOK /\ HeldOK /\ LeftoversOK
  BY <1>1, <1>2, <1>3 DEF HandoffsOK, HeldOK, LeftoversOK, Holds
<1>7. RecordedOnce /\ NothingLost
  BY <1>2, <1>3 DEF RecordedOnce, NothingLost, IsDistinct
<1> QED BY <1>4, <1>5, <1>6, <1>7 DEF ClaimsInv

\* Every step keeps the claims in order.
LEMMA NextClaims == ClaimsInv /\ [Next]_vars => ClaimsInv'
<1> SUFFICES ASSUME ClaimsInv, [Next]_vars
             PROVE  ClaimsInv'
  OBVIOUS
<1>1. ASSUME UNCHANGED <<now, units, pending, claimed, history, killed, workers>>
      PROVE  ClaimsInv'
  BY <1>1, KeepsClaimsInv DEF KeepsClaims, ClaimsInv, WorkersOK, Running, Holds, Reviewed
<1>2. CASE UserMessage
  BY <1>1, <1>2 DEF UserMessage, ghostVars, fileVars, claimVars, recordVars
<1>3. CASE Tick
  BY <1>3, TickClaims
<1>4. CASE ModStep
  BY <1>1, <1>4 DEF ModStep, ModShow, ModTake, ModFails, ModDeliver, ghostVars, sessionVars,
                    fileVars, claimVars, recordVars
<1>5. CASE ModReload
  BY <1>1, <1>5 DEF ModReload, sessionVars, fileVars, claimVars, recordVars
<1>6. ASSUME NEW w \in Workers, CloseUnit(w)
      PROVE  ClaimsInv'
  <2>1. WorkersOK' /\ KeepsHeld
    <3>1. CASE At(w, "idle") /\ Spawned(w)
      BY <1>6, <3>1, SpawnKeepsHeld DEF CloseUnit
    <3>2. CASE UNCHANGED workers
      BY <1>6, <3>2 DEF CloseUnit, ClaimsInv, WorkersOK, KeepsHeld, Running, Holds
    <3> QED BY <1>6, <3>1, <3>2 DEF CloseUnit
  <2>2. PICK turn \in TurnKinds : units' = Append(units, [task |-> Head(inbox), turn |-> turn])
    BY <1>6 DEF CloseUnit
  <2> QED BY <1>6, <2>1, <2>2, NewUnitClaims DEF CloseUnit, ghostVars, recordVars
<1>7. ASSUME NEW w \in Workers, SessionStart(w)
      PROVE  ClaimsInv'
  BY <1>7, SpawnKeepsHeld, StartClaims
     DEF SessionStart, ghostVars, sessionVars, fileVars, claimVars, recordVars
<1>8. ASSUME NEW w \in Workers, WorkerStep(w)
      PROVE  ClaimsInv'
  BY <1>8, QuietSteps, KeepsClaimsInv, DropClaims, ClaimClaims, ReviewClaims, AnnounceClaims,
     ExitClaims DEF WorkerStep
<1>9. ASSUME NEW w \in Workers, Dies(w)
      PROVE  ClaimsInv'
  BY <1>9, DiesClaims
<1>10. CASE UNCHANGED vars
  BY <1>1, <1>10 DEF vars
<1> QED BY <1>2, <1>3, <1>4, <1>5, <1>6, <1>7, <1>8, <1>9, <1>10 DEF Next

-----------------------------------------------------------------------------
(* What the mod sends, and the requests it sends it for.                    *)

\* A request names a unit; a plain one that goes to the agent, a user's.
RequestOK(r) ==
  /\ DOMAIN r = {"unit", "at", "blank", "message", "delivery"}
  /\ r.unit \in Units /\ r.at \in 0..now
  /\ r.message = Legacy /\ r.delivery = "agent" => units[r.unit].task = HumanTurn

RequestsOK ==
  /\ \A r \in requests : RequestOK(r)
  /\ modTask # None => RequestOK(modTask)

SentOK ==
  /\ IsList(sent) /\ delivered \in 0..SessionLimit /\ Len(sent) <= delivered
  /\ \A i \in DOMAIN sent :
       /\ sent[i].unit \in Units
       /\ sent[i].message = Legacy => units[sent[i].unit].task = HumanTurn

MessagesInv == RequestsOK /\ SentOK

\* Units are numbered once and for all, and the clock does not go back.
LEMMA Grows ==
  ASSUME ClaimsInv, [Next]_vars
  PROVE  /\ Units \subseteq Units' /\ \A u \in Units : units'[u] = units[u]
         /\ now \in Nat /\ now' \in Nat /\ now <= now'
<1>1. CASE UNCHANGED <<units, now>>
  BY <1>1 DEF ClaimsInv, FilesOK, Units
<1>2. CASE Tick
  BY <1>2 DEF Tick, sessionVars, ClaimsInv, FilesOK, Units
<1>3. ASSUME NEW w \in Workers, CloseUnit(w)
      PROVE  /\ Units \subseteq Units' /\ \A u \in Units : units'[u] = units[u]
             /\ now \in Nat /\ now' \in Nat /\ now <= now'
  <2>1. now' = now /\ now \in Nat /\ IsList(units)
    BY <1>3 DEF CloseUnit, ClaimsInv, FilesOK
  <2>2. PICK turn \in TurnKinds : units' = Append(units, [task |-> Head(inbox), turn |-> turn])
    BY <1>3 DEF CloseUnit
  <2> QED BY <2>1, <2>2, AppendList DEF Units
<1>4. CASE UserMessage \/ ModReload
  BY <1>1, <1>4 DEF UserMessage, ModReload, sessionVars
<1>5. CASE ModStep
  BY <1>1, <1>5 DEF ModStep, ModShow, ModTake, ModFails, ModDeliver, sessionVars
<1>6. ASSUME NEW w \in Workers, SessionStart(w) \/ Dies(w)
      PROVE  UNCHANGED <<units, now>>
  BY <1>6 DEF SessionStart, Dies, sessionVars
<1>7. ASSUME NEW w \in Workers, WorkerStep(w)
      PROVE  UNCHANGED <<units, now>>
  BY <1>7 DEF WorkerStep, DropAbandonedClaims, SweepRead, SweepApply, RecordClosures, List,
              Claim, EndPass, Begin, Review, Decide, Settle, Announce, Exit, sessionVars
<1>8. CASE UNCHANGED vars
  BY <1>1, <1>8 DEF vars
<1> QED BY <1>1, <1>2, <1>3, <1>4, <1>5, <1>6, <1>7, <1>8 DEF Next

LEMMA RequestStays ==
  ASSUME ClaimsInv, [Next]_vars, NEW r, RequestOK(r)
  PROVE  RequestOK(r)'
  BY Grows DEF RequestOK

\* What encodeProposalRequestFile writes for a unit the worker holds.
LEMMA NewRequestOK ==
  ASSUME ClaimsInv, [Next]_vars, NEW w \in Workers, Holds(w), NEW r, r = Request(w)
  PROVE  RequestOK(r)'
<1> DEFINE u == workers[w].path.unit
           step == workers[w].step
           toChain == step.kind = "DELIVER"
           message == IF toChain THEN Mark(step.chainId, step.attempt, step.maxAttempts) ELSE Legacy
           delivery == IF toChain THEN "agent"
                       ELSE IF Unit(w).task # HumanTurn THEN "user" ELSE Delivery
<1>1. r = [unit |-> u, at |-> now, blank |-> FALSE, message |-> message, delivery |-> delivery]
  BY DEF Request
<1>2. u \in Units /\ now \in Nat
  BY DEF ClaimsInv, HeldOK, FilesOK
<1>3. /\ DOMAIN r = {"unit", "at", "blank", "message", "delivery"}
      /\ r.unit = u /\ r.at = now /\ r.message = message /\ r.delivery = delivery
  BY <1>1
<1>4. message = Legacy /\ delivery = "agent" => units[u].task = HumanTurn
  <2>1. Mark(step.chainId, step.attempt, step.maxAttempts) # Legacy
    BY DEF Mark, Legacy
  <2>2. CASE toChain
    BY <2>1, <2>2
  <2>3. CASE ~toChain /\ Unit(w).task # HumanTurn
    BY <2>3
  <2>4. CASE Unit(w).task = HumanTurn
    BY <2>4 DEF Unit
  <2> QED BY <2>2, <2>3, <2>4
<1> HIDE DEF message, delivery, u
<1>5. RequestOK(r)
  BY <1>2, <1>3, <1>4 DEF RequestOK
<1> QED BY <1>1, <1>5, RequestStays

\* A worker adds the request of the unit it holds, or takes requests away.
LEMMA WorkerRequests ==
  ASSUME ClaimsInv, NEW w \in Workers, WorkerStep(w)
  PROVE  /\ requests' \subseteq requests \union {Request(w)}
         /\ requests' \subseteq requests \/ Holds(w)
         /\ UNCHANGED modVars
<1>1. CASE SweepApply(w)
  BY <1>1 DEF SweepApply
<1>2. CASE Settle(w)
  BY <1>2 DEF Settle, Holds, Holding, At
<1>3. CASE Announce(w)
  BY <1>3 DEF Announce
<1>4. CASE \/ DropAbandonedClaims(w) \/ SweepRead(w) \/ RecordClosures(w) \/ List(w) \/ Claim(w)
           \/ EndPass(w) \/ Begin(w) \/ Review(w) \/ Decide(w) \/ Exit(w)
  BY <1>4 DEF DropAbandonedClaims, SweepRead, RecordClosures, List, Claim, EndPass, Begin, Review,
              Decide, Exit, fileVars, proposalVars
<1> QED BY <1>1, <1>2, <1>3, <1>4 DEF WorkerStep

LEMMA NextRequests == ClaimsInv /\ RequestsOK /\ [Next]_vars => RequestsOK'
<1> SUFFICES ASSUME ClaimsInv, RequestsOK, [Next]_vars
             PROVE  RequestsOK'
  OBVIOUS
<1>1. ASSUME requests' \subseteq requests, modTask' = modTask
      PROVE  RequestsOK'
  BY <1>1, RequestStays DEF RequestsOK
<1>2. ASSUME NEW w \in Workers, WorkerStep(w)
      PROVE  RequestsOK'
  <2>1. PICK r : r = Request(w)
    OBVIOUS
  <2>2. Holds(w) => RequestOK(r)'
    BY <2>1, NewRequestOK
  <2> QED BY <1>2, <2>1, <2>2, RequestStays, WorkerRequests DEF RequestsOK, modVars
<1>3. CASE ModTake
  <2>1. PICK mine \in SUBSET requests :
          /\ requests' = (requests \ mine) \union {[r EXCEPT !.blank = TRUE] : r \in mine}
          /\ modTask' = modTask \/ modTask' \in mine
    BY <1>3 DEF ModTake
  <2>2. ASSUME NEW r \in mine
        PROVE  RequestOK([r EXCEPT !.blank = TRUE])
    BY DEF RequestsOK, RequestOK
  <2>3. \A r \in requests' : RequestOK(r)'
    BY <2>1, <2>2, RequestStays DEF RequestsOK
  <2>4. PICK t : t = modTask'
    OBVIOUS
  <2>5. t # None => RequestOK(t)
    BY <2>1, <2>4 DEF RequestsOK
  <2>6. t # None => RequestOK(t)'
    BY <2>5, RequestStays
  <2> QED BY <2>3, <2>4, <2>6 DEF RequestsOK
<1>4. CASE ModShow
  BY <1>1, <1>4 DEF ModShow, fileVars, proposalVars
<1>5. ASSUME requests' = requests, modTask' = None
      PROVE  RequestsOK'
  BY <1>5, RequestStays DEF RequestsOK
<1>6. CASE ModFails \/ ModDeliver \/ ModReload
  BY <1>5, <1>6 DEF ModFails, ModDeliver, ModReload, fileVars, proposalVars
<1>7. CASE UserMessage \/ Tick \/ UNCHANGED vars
  BY <1>1, <1>7 DEF UserMessage, Tick, vars, fileVars, proposalVars, modVars
<1>8. ASSUME NEW w \in Workers, CloseUnit(w) \/ SessionStart(w) \/ Dies(w)
      PROVE  RequestsOK'
  BY <1>1, <1>8 DEF CloseUnit, SessionStart, Dies, fileVars, proposalVars, modVars
<1> QED BY <1>2, <1>3, <1>4, <1>6, <1>7, <1>8 DEF Next, ModStep

\* A message is sent for a request the mod took, and counted before it is sent.
LEMMA NextSent == ClaimsInv /\ RequestsOK /\ SentOK /\ [Next]_vars => SentOK'
<1> SUFFICES ASSUME ClaimsInv, RequestsOK, SentOK, [Next]_vars
             PROVE  SentOK'
  OBVIOUS
<1>1. ASSUME UNCHANGED <<delivered, sent>>
      PROVE  SentOK'
  BY <1>1, Grows DEF SentOK
<1>2. CASE ModDeliver
  <2>1. CASE UNCHANGED <<delivered, sent>>
    BY <1>1, <2>1
  <2>2. CASE /\ delivered < SessionLimit
             /\ delivered' = delivered + 1
             /\ sent' = sent
    <3>1. delivered' \in 0..SessionLimit
      BY <2>2, WorkerAssumption DEF SentOK
    <3>2. Len(sent) \in Nat
      BY AppendList DEF SentOK
    <3> QED BY <2>2, <3>1, <3>2, Grows DEF SentOK
  <2>3. CASE /\ modTask.delivery = "agent" /\ delivered < SessionLimit
             /\ delivered' = delivered + 1
             /\ sent' = Append(sent, [unit |-> modTask.unit, message |-> modTask.message])
    <3>1. RequestOK(modTask)
      BY <1>2 DEF ModDeliver, RequestsOK
    <3> DEFINE new == [unit |-> modTask.unit, message |-> modTask.message]
    <3>2. /\ new.unit \in Units
          /\ new.message = Legacy => units[new.unit].task = HumanTurn
      BY <2>3, <3>1 DEF RequestOK
    <3> HIDE DEF new
    <3>3. sent' = Append(sent, new)
      BY <2>3 DEF new
    <3>4. /\ IsList(sent') /\ Len(sent) \in Nat /\ Len(sent') = Len(sent) + 1
          /\ DOMAIN sent = 1..Len(sent) /\ DOMAIN sent' = 1..(Len(sent) + 1)
          /\ \A i \in 1..Len(sent) : sent'[i] = sent[i]
          /\ sent'[Len(sent) + 1] = new
      BY <3>3, AppendList DEF SentOK
    <3>5. delivered' \in 0..SessionLimit /\ Len(sent') <= delivered'
      BY <2>3, <3>4, WorkerAssumption DEF SentOK
    <3>6. ASSUME NEW i \in DOMAIN sent'
          PROVE  /\ sent'[i].unit \in Units
                 /\ sent'[i].message = Legacy => units[sent'[i].unit].task = HumanTurn
      <4>1. CASE i \in DOMAIN sent
        BY <4>1, <3>4 DEF SentOK
      <4>2. CASE i = Len(sent) + 1
        BY <4>2, <3>2, <3>4
      <4> QED BY <4>1, <4>2, <3>4
    <3> QED BY <3>4, <3>5, <3>6, Grows DEF SentOK
  <2> QED BY <1>2, <2>1, <2>2, <2>3 DEF ModDeliver
<1>3. CASE ModShow \/ ModTake \/ ModFails \/ ModReload
  BY <1>1, <1>3 DEF ModShow, ModTake, ModFails, ModReload
<1>4. CASE UserMessage \/ Tick \/ UNCHANGED vars
  BY <1>1, <1>4 DEF UserMessage, Tick, vars, modVars
<1>5. ASSUME NEW w \in Workers, CloseUnit(w) \/ SessionStart(w) \/ WorkerStep(w) \/ Dies(w)
      PROVE  SentOK'
  BY <1>1, <1>5, WorkerRequests DEF CloseUnit, SessionStart, Dies, modVars
<1> QED BY <1>2, <1>3, <1>4, <1>5 DEF Next, ModStep

-----------------------------------------------------------------------------
(* What the feed announces.                                                 *)

FeedUnits == {feed[i].unit : i \in DOMAIN feed}
Waits(u) == (\E r \in requests : r.unit = u /\ ~r.blank) \/ now > FileTTL

\* The feed tells of units the workers have let go; what the mod has queued it
\* has shown, and queued once.
FeedOK ==
  /\ IsList(feed) /\ IsList(modQueue)
  /\ FeedUnits \subseteq Elements(history)
  /\ \A w \in Workers : Holds(w) => workers[w].path.unit \notin FeedUnits
  /\ shown \subseteq FeedUnits
  /\ Elements(modQueue) \subseteq shown
  /\ IsDistinct(modQueue)

\* A worker about to announce a proposal has its request on disk.
PromisesOK ==
  \A w \in Workers : At(w, "settled") /\ workers[w].proposed => Waits(workers[w].path.unit)

FeedInv == FeedOK /\ PromisesOK /\ AnnouncedRequestWaits

\* One step of a worker: what it holds it held, or takes from the directory.
LEMMA WorkerHolds ==
  ASSUME ClaimsInv, NEW w \in Workers, WorkerStep(w)
  PROVE  /\ \A v \in Workers \ {w} : workers'[v] = workers[v]
         /\ Holds(w)' => \/ Holds(w) /\ workers'[w].path = workers[w].path
                         \/ workers'[w].path.unit \in pending
         /\ At(w, "settled")' => Settle(w)
<1>1. DOMAIN workers = Workers /\ DOMAIN workers[w] = DOMAIN Idle
  BY DEF ClaimsInv, WorkersOK
<1>2. {"stage", "path"} \subseteq DOMAIN workers[w]
  BY <1>1 DEF Idle
<1>3. ASSUME NEW r, Goes(w, r), r.stage \notin Holding
      PROVE  /\ \A v \in Workers \ {w} : workers'[v] = workers[v]
             /\ ~Holds(w)' /\ ~At(w, "settled")'
  BY <1>1, <1>3, GoesFacts DEF Holds, Holding, At
<1>4. ASSUME NEW r, Goes(w, r), r.path = workers[w].path, Holds(w), r.stage # "settled"
      PROVE  /\ \A v \in Workers \ {w} : workers'[v] = workers[v]
             /\ Holds(w) /\ workers'[w].path = workers[w].path
             /\ ~At(w, "settled")'
  BY <1>1, <1>4, GoesFacts DEF Holds, Holding, At
<1>5. CASE \/ DropAbandonedClaims(w) \/ SweepRead(w) \/ SweepApply(w) \/ RecordClosures(w)
           \/ List(w) \/ EndPass(w)
  <2> DEFINE dropped(kept) == [workers[w] EXCEPT !.stage = "sweep", !.leftovers = kept]
             read == [workers[w] EXCEPT !.stage = "swept", !.saw = SavedStates, !.read = outcomes]
             swept == [workers[w] EXCEPT !.stage = "closing", !.ended = Closures(w),
                                         !.saw = {}, !.read = {}]
             closed == [workers[w] EXCEPT !.stage = "list", !.ended = {}]
             listed == [workers[w] EXCEPT !.stage = "drain", !.todo = pending, !.any = FALSE]
             passed == [workers[w] EXCEPT !.stage = IF workers[w].any THEN "list" ELSE "retry"]
  <2>1. /\ \A kept : dropped(kept).stage \notin Holding
        /\ read.stage \notin Holding /\ swept.stage \notin Holding
        /\ closed.stage \notin Holding /\ listed.stage \notin Holding
        /\ passed.stage \notin Holding
    BY <1>2 DEF Holding
  <2>2. \/ \E kept : Goes(w, dropped(kept))
        \/ Goes(w, read) \/ Goes(w, swept) \/ Goes(w, closed) \/ Goes(w, listed) \/ Goes(w, passed)
    BY <1>5 DEF DropAbandonedClaims, SweepRead, SweepApply, RecordClosures, List, EndPass
  <2> HIDE DEF dropped, read, swept, closed, listed, passed
  <2> QED BY <2>1, <2>2, <1>3
<1>7. CASE Claim(w)
  <2> DEFINE u == Oldest(workers[w].todo)
             rest == [workers[w] EXCEPT !.todo = @ \ {u}]
             taken == [rest EXCEPT !.stage = "claimed", !.any = TRUE,
                                   !.path = [unit |-> u, at |-> now]]
  <2> HIDE DEF u
  <2>2. Goes(w, rest) \/ (u \in pending /\ Goes(w, taken))
    BY <1>7 DEF Claim, u
  <2>1. rest.stage = "drain" /\ {"stage", "path"} \subseteq DOMAIN rest
    BY <1>2, <1>7 DEF Claim, At
  <2> HIDE DEF rest
  <2>5. taken.stage = "claimed" /\ taken.path.unit = u
    BY <2>1
  <2> HIDE DEF taken
  <2>3. CASE Goes(w, rest)
    BY <2>1, <2>3, <1>3 DEF Holding
  <2>4. CASE u \in pending /\ Goes(w, taken)
    BY <1>1, <2>5, <2>4, GoesFacts DEF At
  <2> QED BY <2>2, <2>3, <2>4
<1>8. CASE Begin(w)
  <2> DEFINE begun == [workers[w] EXCEPT
                         !.stage = "reviewing",
                         !.settings = IF ~Unit(w).turn /\ chains = <<>> THEN "off" ELSE Mode]
             gone == [workers[w] EXCEPT !.stage = "drain", !.path = None]
  <2>1. /\ begun.stage = "reviewing" /\ begun.path = workers[w].path
        /\ gone.stage \notin Holding
    BY <1>2 DEF Holding
  <2>2. Goes(w, begun) \/ Goes(w, gone)
    BY <1>8 DEF Begin
  <2>3. Holds(w)
    BY <1>8 DEF Begin, At, Holds, Holding
  <2> HIDE DEF begun, gone
  <2> QED BY <2>1, <2>2, <2>3, <1>3, <1>4
<1>9. CASE Review(w) \/ Decide(w)
  <2> DEFINE reviewed(review) == [workers[w] EXCEPT !.stage = "recorded", !.review = review]
             decided == [workers[w] EXCEPT !.stage = "decided", !.step = StepOf(w)]
  <2>1. /\ \A review : reviewed(review).stage = "recorded" /\ reviewed(review).path = workers[w].path
        /\ decided.stage = "decided" /\ decided.path = workers[w].path
    BY <1>2
  <2>2. (\E review : Goes(w, reviewed(review))) \/ Goes(w, decided)
    BY <1>9 DEF Review, Decide
  <2>3. Holds(w)
    BY <1>9 DEF Review, Decide, At, Holds, Holding
  <2> HIDE DEF reviewed, decided
  <2> QED BY <2>1, <2>2, <2>3, <1>4
<1>10. CASE Settle(w)
  <2>1. \A v \in Workers \ {w} : workers'[v] = workers[v]
    BY <1>1, <1>10, GoesFacts DEF Settle
  <2>2. Holds(w)' = Holds(w) /\ workers'[w].path = workers[w].path
    BY <1>10, QuietSteps DEF KeepsClaims
  <2> QED BY <1>10, <2>1, <2>2
<1>11. CASE Announce(w)
  <2>1. \E r : Goes(w, r) /\ r.stage = "drain"
    <3> DEFINE done == [workers[w] EXCEPT
                          !.stage = "drain", !.path = None, !.settings = "off",
                          !.review = NoReview, !.step = NoStep, !.proposed = FALSE]
               kept == [done EXCEPT !.leftovers = @ \union {workers[w].path}]
    <3>1. done.stage = "drain" /\ kept.stage = "drain"
      BY <1>2
    <3>2. Goes(w, done) \/ Goes(w, kept)
      BY <1>11 DEF Announce
    <3> HIDE DEF done, kept
    <3> QED BY <3>1, <3>2
  <2> QED BY <2>1, <1>3 DEF Holding
<1>12. CASE Exit(w)
  <2>1. Goes(w, Idle) /\ Idle.stage = "idle"
    BY <1>12 DEF Exit, Idle
  <2> QED BY <2>1, <1>3 DEF Holding
<1> QED BY <1>5, <1>7, <1>8, <1>9, <1>10, <1>11, <1>12 DEF WorkerStep

\* A step that leaves the feed and the mod's queue alone.
LEMMA KeepsFeed ==
  ASSUME FeedOK, UNCHANGED <<feed, shown, modQueue>>,
         Elements(history) \subseteq Elements(history'),
         \A w \in Workers : Holds(w)' => workers'[w].path.unit \notin FeedUnits
  PROVE  FeedOK'
  BY DEF FeedOK, FeedUnits, Elements, IsDistinct

LEMMA KeepsPromises ==
  ASSUME PromisesOK, AnnouncedRequestWaits, UNCHANGED <<feed, shown, modQueue>>,
         \A u : Waits(u) => Waits(u)',
         \A w \in Workers : At(w, "settled")' /\ workers'[w].proposed =>
           \/ workers'[w] = workers[w]
           \/ \A u : u = workers'[w].path.unit => Waits(u)'
  PROVE  PromisesOK' /\ AnnouncedRequestWaits'
<1>1. AnnouncedRequestWaits <=>
        \A u \in Proposed : u \notin shown \/ u \in Elements(modQueue) => Waits(u)
  BY DEF AnnouncedRequestWaits, Waits
<1>2. AnnouncedRequestWaits' <=>
        \A u \in Proposed' : u \notin shown' \/ u \in Elements(modQueue') => Waits(u)'
  BY DEF AnnouncedRequestWaits, Waits
<1>3. Proposed' = Proposed /\ Elements(modQueue') = Elements(modQueue)
  BY DEF Proposed, Elements
<1>4. AnnouncedRequestWaits'
  BY <1>1, <1>2, <1>3
<1>5. PromisesOK'
  <2>1. ASSUME NEW w \in Workers, At(w, "settled")', workers'[w].proposed
        PROVE  Waits(workers[w].path.unit)'
    <3>1. PICK u : u = workers'[w].path.unit
      OBVIOUS
    <3>2. CASE workers'[w] = workers[w]
      <4>1. Waits(u)
        BY <2>1, <3>1, <3>2 DEF PromisesOK, At
      <4>2. Waits(u)'
        BY <4>1
      <4> QED BY <3>1, <4>2
    <3>3. CASE Waits(u)'
      BY <3>1, <3>3
    <3> QED BY <2>1, <3>1, <3>2, <3>3
  <2> QED BY <2>1 DEF PromisesOK
<1> QED BY <1>4, <1>5

\* A request is taken away only when it is blank or old; the request of the
\* unit a worker could not announce goes too.
LEMMA WorkerKeepsRequests ==
  ASSUME ClaimsInv, RequestsOK, NEW w \in Workers, WorkerStep(w), NEW u, Waits(u),
         ~Announce(w) \/ u # workers[w].path.unit
  PROVE  Waits(u)'
<1>1. now' = now
  BY DEF WorkerStep, DropAbandonedClaims, SweepRead, SweepApply, RecordClosures, List,
         Claim, EndPass, Begin, Review, Decide, Settle, Announce, Exit
<1>2. CASE now > FileTTL
  BY <1>1, <1>2 DEF Waits
<1>3. CASE ~(now > FileTTL)
  <2>1. PICK r \in requests : r.unit = u /\ ~r.blank
    BY <1>3 DEF Waits
  <2>2. now \in Nat /\ r.at \in 0..now /\ FileTTL \in Nat
    BY WorkerAssumption DEF ClaimsInv, FilesOK, RequestsOK, RequestOK
  <2>3. ~Expired(r)
    BY <1>3, <2>2 DEF Expired
  <2>4. r \in requests'
    <3>1. CASE SweepApply(w)
      BY <2>1, <2>3, <3>1 DEF SweepApply
    <3>2. CASE Settle(w)
      BY <3>2 DEF Settle
    <3>3. CASE Announce(w)
      BY <2>1, <3>3 DEF Announce
    <3>4. CASE \/ DropAbandonedClaims(w) \/ SweepRead(w) \/ RecordClosures(w) \/ List(w) \/ Claim(w)
               \/ EndPass(w) \/ Begin(w) \/ Review(w) \/ Decide(w) \/ Exit(w)
      BY <3>4 DEF DropAbandonedClaims, SweepRead, RecordClosures, List, Claim, EndPass, Begin,
                  Review, Decide, Exit, fileVars, proposalVars
    <3> QED BY <3>1, <3>2, <3>3, <3>4 DEF WorkerStep
  <2> QED BY <2>1, <2>4 DEF Waits
<1> QED BY <1>2, <1>3

\* A worker that promises a proposal has just written its request.
LEMMA SettlePromises ==
  ASSUME ClaimsInv, NEW w \in Workers, Settle(w), workers'[w].proposed
  PROVE  \A u : u = workers'[w].path.unit => Waits(u)'
<1>1. DOMAIN workers = Workers /\ DOMAIN workers[w] = DOMAIN Idle
  BY DEF ClaimsInv, WorkersOK
<1>2. {"proposed", "stage", "path"} \subseteq DOMAIN workers[w]
  BY <1>1 DEF Idle
<1> DEFINE r(proposed) == [workers[w] EXCEPT !.stage = "settled", !.proposed = proposed]
<1>3. ~r(FALSE).proposed /\ r(TRUE).path = workers[w].path
  BY <1>2
<1>4. \/ Goes(w, r(FALSE))
      \/ Goes(w, r(TRUE)) /\ requests' = requests \union {Request(w)}
  BY DEF Settle
<1> HIDE DEF r
<1>5. workers'[w].path = workers[w].path /\ Request(w) \in requests'
  BY <1>1, <1>3, <1>4, GoesFacts
<1>6. Request(w).unit = workers[w].path.unit /\ ~Request(w).blank
  BY DEF Request
<1> QED BY <1>5, <1>6 DEF Waits

LEMMA WorkerFeed ==
  ASSUME ClaimsInv, RequestsOK, FeedInv, NEW w \in Workers, WorkerStep(w)
  PROVE  FeedInv'
<1>1. CASE ~Announce(w)
  <2>1. UNCHANGED <<feed, shown, modQueue>>
    BY <1>1 DEF WorkerStep, DropAbandonedClaims, SweepRead, SweepApply, RecordClosures, List,
                Claim, EndPass, Begin, Review, Decide, Settle, Exit, fileVars, recordVars, modVars
  <2>2. Elements(history) \subseteq Elements(history')
    <3>1. CASE Review(w)
      BY <3>1, AppendList DEF Review, ClaimsInv, FilesOK, Elements, Members
    <3>2. CASE ~Review(w)
      BY <1>1, <3>2 DEF WorkerStep, DropAbandonedClaims, SweepRead, SweepApply, RecordClosures, List,
                Claim, EndPass, Begin, Decide, Settle, Exit, fileVars, recordVars, Elements
    <3> QED BY <3>1, <3>2
  <2>3. ASSUME NEW v \in Workers, Holds(v)'
        PROVE  workers'[v].path.unit \notin FeedUnits
    <3>1. CASE v # w
      BY <2>3, <3>1, WorkerHolds DEF FeedInv, FeedOK, Holds
    <3>2. CASE v = w /\ Holds(w) /\ workers'[w].path = workers[w].path
      BY <3>2 DEF FeedInv, FeedOK
    <3>3. CASE v = w /\ workers'[w].path.unit \in pending
      BY <3>3 DEF FeedInv, FeedOK, ClaimsInv, HandoffsOK, Past
    <3> QED BY <2>3, <3>1, <3>2, <3>3, WorkerHolds
  <2>4. FeedOK'
    BY <2>1, <2>2, <2>3, KeepsFeed DEF FeedInv
  <2>5. \A u : Waits(u) => Waits(u)'
    BY <1>1, WorkerKeepsRequests
  <2>6. ASSUME NEW v \in Workers, At(v, "settled")', workers'[v].proposed
        PROVE  \/ workers'[v] = workers[v]
               \/ \A u : u = workers'[v].path.unit => Waits(u)'
    BY <2>6, WorkerHolds, SettlePromises
  <2> QED BY <2>1, <2>4, <2>5, <2>6, KeepsPromises DEF FeedInv
<1>2. CASE Announce(w)
  <2> DEFINE u == workers[w].path.unit
             line == [unit |-> u, proposal |-> workers[w].proposed]
  <2>1. /\ At(w, "settled") /\ Holds(w) /\ u \in Elements(history) /\ u \notin FeedUnits
        /\ u \notin shown /\ u \notin Elements(modQueue)
    BY <1>2 DEF Announce, At, Holds, Holding, Reviewed, ClaimsInv, HeldOK, FeedInv, FeedOK
  <2>2. /\ UNCHANGED <<shown, modQueue, history>>
        /\ UNCHANGED feed \/ feed' = Append(feed, line)
    BY <1>2 DEF Announce, modVars
  <2>3. ASSUME NEW v \in Workers \ {w}, Holds(v)
        PROVE  workers[v].path.unit # u
    BY <2>1, <2>3 DEF ClaimsInv, HeldOK, HandoffsOK
  <2>4. \A v \in Workers : (Holds(v)' \/ At(v, "settled")') => v # w /\ workers'[v] = workers[v]
    <3>1. w \in Workers /\ ~Holds(w)' /\ ~At(w, "settled")'
      <4> DEFINE done == [workers[w] EXCEPT
                            !.stage = "drain", !.path = None, !.settings = "off",
                            !.review = NoReview, !.step = NoStep, !.proposed = FALSE]
                 kept == [done EXCEPT !.leftovers = @ \union {workers[w].path}]
      <4>1. DOMAIN workers = Workers /\ DOMAIN workers[w] = DOMAIN Idle
        BY DEF ClaimsInv, WorkersOK
      <4>2. "stage" \in DOMAIN workers[w]
        BY <4>1 DEF Idle
      <4>3. done.stage = "drain" /\ kept.stage = "drain"
        BY <4>2
      <4>4. Goes(w, done) \/ Goes(w, kept)
        BY <1>2 DEF Announce
      <4> HIDE DEF done, kept
      <4> QED BY <4>1, <4>3, <4>4, GoesFacts DEF Holds, Holding, At
    <3> QED BY <3>1, WorkerHolds
  <2> HIDE DEF u
  <2>5. ASSUME NEW x, x # u, Waits(x)
        PROVE  Waits(x)'
    BY <2>5, WorkerKeepsRequests DEF u
  <2>6. PromisesOK'
    <3>1. ASSUME NEW v \in Workers, At(v, "settled")', workers'[v].proposed
          PROVE  Waits(workers[v].path.unit)'
      <4>1. PICK x : x = workers[v].path.unit
        OBVIOUS
      <4>2. v # w /\ workers'[v] = workers[v] /\ Holds(v) /\ At(v, "settled") /\ workers[v].proposed
        BY <2>4, <3>1 DEF At, Holds, Holding
      <4>3. Waits(x)'
        BY <2>3, <2>5, <4>1, <4>2 DEF FeedInv, PromisesOK
      <4> QED BY <4>1, <4>2, <4>3
    <3> QED BY <3>1 DEF PromisesOK
  <2>7. /\ IsList(feed')
        /\ FeedUnits' = FeedUnits \/ FeedUnits' = FeedUnits \union {u}
        /\ Proposed' \subseteq Proposed \union {u}
        /\ u \in Proposed' => feed' = Append(feed, line) /\ workers[w].proposed
    <3>1. CASE UNCHANGED feed
      BY <2>1, <3>1 DEF FeedUnits, Proposed, FeedInv, FeedOK
    <3>2. CASE feed' = Append(feed, line)
      <4>1. /\ IsList(feed') /\ Len(feed) \in Nat
            /\ DOMAIN feed = 1..Len(feed) /\ DOMAIN feed' = 1..(Len(feed) + 1)
            /\ \A i \in 1..Len(feed) : feed'[i] = feed[i]
            /\ feed'[Len(feed) + 1] = line
        BY <3>2, AppendList DEF FeedInv, FeedOK
      <4>2. DOMAIN feed' = DOMAIN feed \union {Len(feed) + 1}
        BY <4>1
      <4>3. line.unit = u /\ line.proposal = workers[w].proposed
        OBVIOUS
      <4> HIDE DEF line
      <4>4. FeedUnits' = FeedUnits \union {u}
        BY <4>1, <4>2, <4>3 DEF FeedUnits
      <4>5. Proposed' \subseteq Proposed \union {u}
        BY <4>1, <4>2, <4>3 DEF Proposed
      <4>6. u \in Proposed' => workers[w].proposed
        <5>1. \A i \in DOMAIN feed : feed[i].unit # u
          BY <2>1 DEF FeedUnits
        <5> QED BY <4>1, <4>2, <4>3, <5>1 DEF Proposed
      <4> QED BY <3>2, <4>1, <4>4, <4>5, <4>6
    <3> QED BY <2>2, <3>1, <3>2
  <2>8. FeedOK'
    <3>1. \A v \in Workers : Holds(v)' => workers'[v].path.unit \notin FeedUnits'
      BY <2>3, <2>4, <2>7 DEF FeedInv, FeedOK, Holds
    <3> QED BY <2>1, <2>2, <2>7, <3>1 DEF FeedInv, FeedOK, Elements, IsDistinct
  <2>9. AnnouncedRequestWaits'
    <3>1. ASSUME NEW x \in Proposed', x \notin shown \/ x \in Elements(modQueue)
          PROVE  Waits(x)'
      <4>1. CASE x # u
        <5>1. Waits(x)
          BY <2>7, <3>1, <4>1 DEF FeedInv, AnnouncedRequestWaits, Waits
        <5> QED BY <2>5, <4>1, <5>1
      <4>2. CASE x = u
        <5>1. Waits(x)
          BY <2>1, <2>7, <3>1, <4>2 DEF FeedInv, PromisesOK, u
        <5>2. feed # feed'
          BY <2>1, <3>1, <4>2 DEF FeedUnits, Proposed
        <5>3. requests' = requests /\ now' = now
          BY <1>2, <5>2 DEF Announce
        <5> QED BY <5>1, <5>3 DEF Waits
      <4> QED BY <4>1, <4>2
    <3> QED BY <2>2, <3>1 DEF AnnouncedRequestWaits, Waits, Elements
  <2> QED BY <2>6, <2>8, <2>9 DEF FeedInv
<1> QED BY <1>1, <1>2

\* The other steps of the session leave every worker with what it holds or with nothing.
LEMMA SessionFeed ==
  ASSUME FeedInv, ClaimsInv, UNCHANGED <<feed, shown, modQueue, history, requests>>,
         now \in Nat, now' \in Nat, now <= now',
         \A w \in Workers : Holds(w)' => workers'[w] = workers[w]
  PROVE  FeedInv'
<1>1. FeedOK'
  <2>1. \A w \in Workers : Holds(w)' => workers'[w].path.unit \notin FeedUnits
    BY DEF FeedInv, FeedOK, Holds
  <2> QED BY <2>1, KeepsFeed DEF FeedInv
<1>2. \A u : Waits(u) => Waits(u)'
  BY WorkerAssumption DEF Waits
<1>3. \A w \in Workers : At(w, "settled")' /\ workers'[w].proposed => workers'[w] = workers[w]
  BY DEF At, Holds, Holding
<1> QED BY <1>1, <1>2, <1>3, KeepsPromises DEF FeedInv

\* A poll of the mod shows a line it had not shown, and queues it if it proposes.
LEMMA ShowFeed ==
  ASSUME ClaimsInv, FeedInv, ModShow
  PROVE  FeedInv'
<1>1. PICK i \in DOMAIN feed :
        /\ feed[i].unit \notin shown
        /\ shown' = shown \union {feed[i].unit}
        /\ modQueue' = IF feed[i].proposal THEN Append(modQueue, feed[i].unit) ELSE modQueue
  BY DEF ModShow
<1> DEFINE u == feed[i].unit
<1>2. u \in FeedUnits /\ (feed[i].proposal => u \in Proposed)
  BY DEF FeedUnits, Proposed
<1> HIDE DEF u
<1>3. UNCHANGED <<now, feed, history, requests, workers>>
  BY DEF ModShow, fileVars, recordVars, proposalVars
<1>4. /\ IsList(modQueue') /\ IsDistinct(modQueue')
      /\ \/ Elements(modQueue') = Elements(modQueue)
         \/ Elements(modQueue') = Elements(modQueue) \union {u} /\ u \in Proposed
  <2>1. CASE ~feed[i].proposal
    BY <1>1, <2>1 DEF FeedInv, FeedOK, Elements, IsDistinct
  <2>2. CASE feed[i].proposal
    <3>1. modQueue' = Append(modQueue, u) /\ u \notin Elements(modQueue) /\ IsList(modQueue)
      BY <1>1, <2>2 DEF u, FeedInv, FeedOK
    <3>2. /\ IsList(modQueue') /\ Len(modQueue) \in Nat
          /\ DOMAIN modQueue = 1..Len(modQueue)
          /\ DOMAIN modQueue' = 1..(Len(modQueue) + 1)
          /\ \A j \in 1..Len(modQueue) : modQueue'[j] = modQueue[j]
          /\ modQueue'[Len(modQueue) + 1] = u
          /\ Elements(modQueue') = Elements(modQueue) \union {u}
      BY <3>1, AppendList DEF Elements, Members
    <3>3. IsDistinct(modQueue')
      <4>1. \A j \in 1..Len(modQueue) : modQueue[j] # u
        BY <3>1, <3>2 DEF Elements
      <4> QED BY <3>2, <4>1 DEF FeedInv, FeedOK, IsDistinct
    <3> QED BY <1>2, <2>2, <3>2, <3>3
  <2> QED BY <2>1, <2>2
<1>5. FeedOK'
  <2>1. FeedUnits' = FeedUnits /\ shown' = shown \union {u}
    BY <1>1, <1>3 DEF FeedUnits, u
  <2> QED BY <1>2, <1>3, <1>4, <2>1 DEF FeedInv, FeedOK, Holds, Elements
<1>6. PromisesOK'
  BY <1>3 DEF FeedInv, PromisesOK, At, Waits
<1>7. AnnouncedRequestWaits'
  <2>1. Proposed' = Proposed /\ shown' = shown \union {u} /\ u \notin shown
    BY <1>1, <1>3 DEF Proposed, u
  <2>2. ASSUME NEW x \in Proposed, x \notin shown' \/ x \in Elements(modQueue')
        PROVE  x \notin shown \/ x \in Elements(modQueue)
    BY <1>4, <2>1, <2>2
  <2> QED BY <1>3, <2>1, <2>2 DEF FeedInv, AnnouncedRequestWaits
<1> QED BY <1>5, <1>6, <1>7 DEF FeedInv

\* The mod blanks the request of the proposal it takes, and of no other.
LEMMA TakeFeed ==
  ASSUME ClaimsInv, FeedInv, ModTake
  PROVE  FeedInv'
<1> DEFINE u == Head(modQueue)
<1>1. modQueue # <<>> /\ modQueue' = Tail(modQueue)
      /\ UNCHANGED <<now, feed, history, workers, shown>>
  BY DEF ModTake, recordVars
<1>2. \A r \in requests : r.unit = u \/ r \in requests'
  BY DEF ModTake
<1>3. /\ IsList(modQueue') /\ Len(modQueue) \in Nat \ {0}
      /\ DOMAIN modQueue = 1..Len(modQueue) /\ DOMAIN modQueue' = 1..(Len(modQueue) - 1)
      /\ \A i \in 1..(Len(modQueue) - 1) : modQueue'[i] = modQueue[i + 1]
      /\ u = modQueue[1] /\ u \in Elements(modQueue)
      /\ Elements(modQueue') \subseteq Elements(modQueue)
  BY <1>1, TailList DEF FeedInv, FeedOK, Elements, Members
<1> HIDE DEF u
<1>4. IsDistinct(modQueue') /\ u \notin Elements(modQueue')
  <2>1. \A i, j \in 1..Len(modQueue) : modQueue[i] = modQueue[j] => i = j
    BY <1>3 DEF FeedInv, FeedOK, IsDistinct
  <2>2. \A i \in 1..(Len(modQueue) - 1) : i + 1 \in 1..Len(modQueue) /\ i + 1 # 1
    BY <1>3
  <2>3. 1 \in 1..Len(modQueue)
    BY <1>3
  <2>4. \A i, j \in 1..(Len(modQueue) - 1) : i + 1 = j + 1 => i = j
    BY <1>3
  <2>5. IsDistinct(modQueue')
    BY <1>3, <2>1, <2>2, <2>4 DEF IsDistinct
  <2>6. u \notin Elements(modQueue')
    BY <1>3, <2>1, <2>2, <2>3 DEF Elements
  <2> QED BY <2>5, <2>6
<1>5. FeedOK'
  <2>1. FeedUnits' = FeedUnits /\ Elements(history') = Elements(history)
    BY <1>1 DEF FeedUnits, Elements
  <2> QED BY <1>1, <1>3, <1>4, <2>1 DEF FeedInv, FeedOK, Holds
<1>6. \A x : x # u /\ Waits(x) => Waits(x)'
  BY <1>1, <1>2 DEF Waits
<1>7. PromisesOK'
  <2>1. ASSUME NEW w \in Workers, At(w, "settled")', workers'[w].proposed
        PROVE  Waits(workers[w].path.unit)'
    <3>1. PICK x : x = workers[w].path.unit
      OBVIOUS
    <3>2. At(w, "settled") /\ workers[w].proposed /\ workers'[w] = workers[w]
      BY <1>1, <2>1 DEF At
    <3>3. Waits(x) /\ x # u
      BY <1>3, <3>1, <3>2 DEF FeedInv, FeedOK, PromisesOK, At, Holds, Holding
    <3>4. Waits(x)'
      BY <1>6, <3>3
    <3> QED BY <3>1, <3>2, <3>4
  <2> QED BY <2>1 DEF PromisesOK
<1>8. AnnouncedRequestWaits'
  <2>1. Proposed' = Proposed
    BY <1>1 DEF Proposed
  <2>2. ASSUME NEW x \in Proposed, x \notin shown \/ x \in Elements(modQueue')
        PROVE  Waits(x)'
    <3>1. x # u
      BY <1>3, <1>4, <2>2 DEF FeedInv, FeedOK
    <3>2. Waits(x)
      BY <1>3, <2>2 DEF FeedInv, AnnouncedRequestWaits, Waits
    <3> QED BY <1>6, <3>1, <3>2
  <2> QED BY <1>1, <2>1, <2>2 DEF AnnouncedRequestWaits, Waits
<1> QED BY <1>5, <1>7, <1>8 DEF FeedInv

\* A reload shows all the feed holds and forgets what was queued.
LEMMA ReloadFeed ==
  ASSUME ClaimsInv, FeedInv, ModReload
  PROVE  FeedInv'
<1>1. /\ shown' = FeedUnits /\ modQueue' = <<>>
      /\ UNCHANGED <<now, feed, history, requests, workers>>
  BY DEF ModReload, FeedUnits, fileVars, recordVars, proposalVars
<1>2. IsList(<<>>) /\ Elements(<<>>) = {} /\ IsDistinct(<<>>)
  BY EmptyList DEF Elements, Members, IsDistinct
<1>3. FeedOK'
  <2>1. IsList(modQueue') /\ Elements(modQueue') = {} /\ IsDistinct(modQueue')
    BY <1>1, <1>2
  <2>2. FeedUnits' = FeedUnits /\ Elements(history') = Elements(history)
    BY <1>1 DEF FeedUnits, Elements
  <2> QED BY <1>1, <2>1, <2>2 DEF FeedInv, FeedOK, Holds
<1>4. PromisesOK'
  BY <1>1 DEF FeedInv, PromisesOK, At, Waits
<1>5. Proposed' \subseteq FeedUnits
  BY <1>1 DEF Proposed, FeedUnits
<1>6. AnnouncedRequestWaits'
  <2>1. Elements(modQueue') = {}
    BY <1>1, <1>2
  <2>2. \A u \in Proposed' : u \in shown' /\ u \notin Elements(modQueue')
    BY <1>1, <1>5, <2>1
  <2> QED BY <2>2 DEF AnnouncedRequestWaits
<1> QED BY <1>3, <1>4, <1>6 DEF FeedInv

LEMMA NextFeed == ClaimsInv /\ RequestsOK /\ FeedInv /\ [Next]_vars => FeedInv'
<1> SUFFICES ASSUME ClaimsInv, RequestsOK, FeedInv, [Next]_vars
             PROVE  FeedInv'
  OBVIOUS
<1>1. now \in Nat /\ now' \in Nat /\ now <= now'
  BY Grows
<1>2. ASSUME UNCHANGED <<feed, shown, modQueue, history, requests, workers>>
      PROVE  FeedInv'
  BY <1>1, <1>2, SessionFeed
<1>3. CASE UserMessage \/ Tick \/ UNCHANGED vars
  BY <1>2, <1>3 DEF UserMessage, Tick, vars, fileVars, recordVars, proposalVars, modVars
<1>4. CASE ModFails \/ ModDeliver
  BY <1>2, <1>4 DEF ModFails, ModDeliver, recordVars
<1>5. CASE ModShow \/ ModTake \/ ModReload
  BY <1>5, ShowFeed, TakeFeed, ReloadFeed
<1>6. ASSUME NEW w \in Workers, CloseUnit(w) \/ SessionStart(w)
      PROVE  FeedInv'
  <2>1. \A v \in Workers : Holds(v)' => workers'[v] = workers[v]
    <3>1. CASE At(w, "idle") /\ Spawned(w)
      <4>1. now' = now
        BY <1>6 DEF CloseUnit, SessionStart
      <4> QED BY <3>1, <4>1, SpawnKeepsHeld DEF KeepsHeld
    <3>2. CASE UNCHANGED workers
      BY <3>2
    <3> QED BY <1>6, <3>1, <3>2 DEF CloseUnit, SessionStart
  <2>2. UNCHANGED <<feed, shown, modQueue, history, requests>>
    BY <1>6 DEF CloseUnit, SessionStart, fileVars, recordVars, proposalVars, modVars
  <2> QED BY <1>1, <2>1, <2>2, SessionFeed
<1>7. ASSUME NEW w \in Workers, Dies(w)
      PROVE  FeedInv'
  <2>1. UNCHANGED <<feed, shown, modQueue, history, requests>>
    BY <1>7 DEF Dies, fileVars, recordVars, proposalVars, modVars
  <2>2. /\ workers'[w] = Idle
        /\ \A v \in Workers \ {w} : workers'[v] = workers[v]
    BY <1>7, GoesFacts DEF Dies, ClaimsInv, WorkersOK
  <2>3. ~Holds(w)'
    BY <2>2 DEF Holds, Holding, Idle
  <2> QED BY <1>1, <2>1, <2>2, <2>3, SessionFeed
<1>8. ASSUME NEW w \in Workers, WorkerStep(w)
      PROVE  FeedInv'
  BY <1>8, WorkerFeed
<1> QED BY <1>3, <1>4, <1>5, <1>6, <1>7, <1>8 DEF Next, ModStep

-----------------------------------------------------------------------------
(* The bounds of the model, and the theorems.                               *)

BoundsOK == now \in 0..MaxTime /\ userSent \in 0..MaxUserMessages

IInv == ClaimsInv /\ MessagesInv /\ FeedInv /\ BoundsOK

LEMMA NextBounds == BoundsOK /\ [Next]_vars => BoundsOK'
<1> SUFFICES ASSUME BoundsOK, [Next]_vars
             PROVE  BoundsOK'
  OBVIOUS
<1>1. CASE UserMessage \/ Tick \/ UNCHANGED vars
  BY <1>1, WorkerAssumption DEF UserMessage, Tick, vars, BoundsOK, sessionVars
<1>2. CASE ModStep \/ ModReload
  BY <1>2 DEF ModStep, ModShow, ModTake, ModFails, ModDeliver, ModReload, BoundsOK, sessionVars
<1>3. ASSUME NEW w \in Workers, CloseUnit(w) \/ SessionStart(w) \/ Dies(w)
      PROVE  BoundsOK'
  BY <1>3 DEF CloseUnit, SessionStart, Dies, BoundsOK, sessionVars
<1>4. ASSUME NEW w \in Workers, WorkerStep(w)
      PROVE  BoundsOK'
  BY <1>4 DEF WorkerStep, DropAbandonedClaims, SweepRead, SweepApply, RecordClosures, List,
              Claim, EndPass, Begin, Review, Decide, Settle, Announce, Exit, BoundsOK, sessionVars
<1> QED BY <1>1, <1>2, <1>3, <1>4 DEF Next

LEMMA InitInv == Init => IInv
<1> SUFFICES ASSUME Init
             PROVE  IInv
  OBVIOUS
<1>1. ClaimsInv
  BY InitClaims
<1>2. /\ requests = {} /\ modTask = None /\ sent = <<>> /\ delivered = 0 /\ feed = <<>>
      /\ modQueue = <<>> /\ shown = {} /\ now = 0 /\ userSent = 0
      /\ \A w \in Workers : workers[w].stage = "idle"
  BY DEF Init, Idle
<1>3. /\ IsList(<<>>) /\ Elements(<<>>) = {} /\ IsDistinct(<<>>) /\ Len(<<>>) = 0
      /\ DOMAIN <<>> = {}
  BY EmptyList DEF Elements, Members, IsDistinct
<1>4. MessagesInv
  BY <1>2, <1>3, WorkerAssumption DEF MessagesInv, RequestsOK, SentOK
<1>5. FeedInv
  <2>1. FeedUnits = {} /\ Proposed = {}
    BY <1>2, <1>3 DEF FeedUnits, Proposed
  <2>2. \A w \in Workers : ~Holds(w) /\ ~At(w, "settled")
    BY <1>2 DEF Holds, Holding, At
  <2> QED BY <1>2, <1>3, <2>1, <2>2 DEF FeedInv, FeedOK, PromisesOK, AnnouncedRequestWaits
<1>6. BoundsOK
  BY <1>2, WorkerAssumption DEF BoundsOK
<1> QED BY <1>1, <1>4, <1>5, <1>6 DEF IInv

\* The inductive invariant holds in every reachable state of the session.
THEOREM Invariance == Spec => []IInv
<1>1. IInv /\ [Next]_vars => IInv'
  BY NextClaims, NextRequests, NextSent, NextFeed, NextBounds DEF IInv, MessagesInv
<1> QED BY InitInv, <1>1, PTL DEF Spec

\* Every handoff and every claim names a unit that was closed, in the past, and
\* a worker that holds a claim knows which (run-worker.ts).
THEOREM TypeCorrect == Spec => []TypeOK
<1>1. IInv => TypeOK
  <2> SUFFICES ASSUME IInv
               PROVE  TypeOK
    OBVIOUS
  <2>1. now \in 0..MaxTime /\ userSent \in 0..MaxUserMessages /\ delivered \in 0..SessionLimit
    BY DEF IInv, BoundsOK, MessagesInv, SentOK
  <2>2. /\ pending \subseteq Units /\ ClaimedUnits \subseteq Units /\ killed \subseteq Units
        /\ \A c \in claimed : c.at \in 0..now
    BY DEF IInv, ClaimsInv, FilesOK, ClaimedUnits
  <2>3. \A w \in Workers :
          /\ workers[w].since \in 0..now
          /\ workers[w].stage \in Holding => workers[w].path \in [unit : Units, at : 0..now]
    BY DEF IInv, ClaimsInv, FilesOK, WorkersOK, HeldOK, Holds
  <2> QED BY <2>1, <2>2, <2>3 DEF TypeOK
<1> QED BY <1>1, Invariance, PTL

\* No closed unit is recorded twice or lost, however many workers drain the
\* directory at once, die, or find claims left behind (run-worker.ts).
THEOREM UnitsAreAccounted == Spec => []UnitsAccounted
<1>1. IInv => RecordedOnce /\ NothingLost
  BY DEF IInv, ClaimsInv
<1> QED BY <1>1, Invariance, TypeCorrect, PTL DEF UnitsAccounted

\* The claim of a worker that runs stays in place and is its own: the clean-up
\* of abandoned claims never takes it, since a worker's ceiling is shorter than
\* the age at which a claim counts as abandoned (run-worker.ts).
THEOREM LiveClaimIsKept == Spec => []LiveClaimKept
<1>1. IInv => LiveClaimKept
  BY DEF IInv, ClaimsInv, HeldOK, LiveClaimKept, Holds
<1> QED BY <1>1, Invariance, PTL

\* A plain proposal is sent only in answer to a turn the user started, and a
\* session sends no more than its limit (the mod's deliver, encodeProposalRequestFile).
THEOREM NoCascades == Spec => []NoCascade
<1>1. IInv => NoCascade
  <2> SUFFICES ASSUME IInv
               PROVE  NoCascade
    OBVIOUS
  <2>1. IsList(sent) /\ delivered \in 0..SessionLimit /\ Len(sent) <= delivered
    BY DEF IInv, MessagesInv, SentOK
  <2>2. Len(sent) \in Nat
    BY <2>1, AppendList
  <2>3. Len(sent) <= SessionLimit
    BY <2>1, <2>2, WorkerAssumption
  <2> QED BY <2>3 DEF IInv, MessagesInv, SentOK, NoCascade
<1> QED BY <1>1, Invariance, PTL

\* What the feed announces is on disk until the mod takes it or it ages: the
\* request is written before the line, and only its own taker blanks it
\* (prepareProposal, announce, takeRequest).
THEOREM AnnouncedRequestsWait == Spec => []AnnouncedRequestWaits
<1>1. IInv => AnnouncedRequestWaits
  BY DEF IInv, FeedInv
<1> QED BY <1>1, Invariance, PTL

-----------------------------------------------------------------------------
(* The chains.                                                              *)

ChainFields == {"chainId", "originIds", "signatures", "turnIds", "attempts", "scopes"}

\* A state the core made: its turns are a list, the last one its latest attempt's.
StateOK(s) ==
  /\ DOMAIN s = ChainFields
  /\ IsList(s.turnIds) /\ s.turnIds # <<>>
  /\ s.attempts \in Nat \ {0}

ChainsOK ==
  /\ IsList(chains)
  /\ \A e \in Elements(chains) :
       DOMAIN e = {"state", "at"} /\ StateOK(e.state) /\ e.at \in 0..now /\ Mode = "remediate"
  /\ \A e, f \in Elements(chains) : e.state.chainId = f.state.chainId => e = f

\* What a worker decided for the unit u.
StepOK(step, u) ==
  /\ step.kind \in {"NONE", "STOP", "RESOLVED", "DELIVER"}
  /\ step.kind # "NONE" => Mode = "remediate" /\ IsList(step.state.turnIds)
  /\ step.kind = "DELIVER" =>
       /\ StateOK(step.state) /\ LastTurn(step.state) = u
       /\ step.chainId = step.state.chainId /\ step.attempt = step.state.attempts
       /\ step.maxAttempts = MaxAttempts

StepsOK ==
  \A w \in Workers :
    /\ workers[w].settings = "remediate" => Mode = "remediate"
    /\ At(w, "decided") => StepOK(workers[w].step, workers[w].path.unit)

\* What a sweep has read still covers the chains that may have aged out, and the
\* chains of the outcomes it has read.
SweptOf(w) ==
  /\ ~At(w, "closing") => workers[w].ended = {}
  /\ At(w, "swept") =>
       \A e \in Elements(chains) :
         /\ e.at >= workers[w].since \/ \E s \in workers[w].saw : s.chainId = e.state.chainId
         /\ \A o \in workers[w].read : o.unit = LastTurn(e.state) => e.state \in workers[w].saw

SweptOK == \A w \in Workers : SweptOf(w)

\* Outcomes are of announced units, and a unit is announced once.
OutcomesOK ==
  /\ \A i, j \in DOMAIN feed : feed[i].unit = feed[j].unit => i = j
  /\ \A o \in outcomes : o.unit \in FeedUnits /\ o.at \in 0..now
  /\ \A w \in Workers : At(w, "swept") => \A o \in workers[w].read : o.unit \in FeedUnits
  /\ modTask # None => modTask.unit \in FeedUnits

\* A request is of a unit some worker has settled.
EarlyOK ==
  \A r \in requests :
    /\ r.unit \in Elements(history)
    /\ \A w \in Workers : Holds(w) /\ workers[w].path.unit = r.unit => At(w, "settled")

\* The chain is saved, or its end is recorded or about to be.
Told(id) ==
  \/ \E e \in Elements(chains) : e.state.chainId = id
  \/ \E w \in Workers : \E c \in workers[w].ended : c.state.chainId = id
  \/ \E r \in chainLog : r.chainId = id

MessageTold(message) == message # Legacy => Told(message.chainId)

\* Every message of a chain, still a request or sent, is of a chain that is told of.
MessagesTold ==
  mishaps \intersect {"crash", "feed"} = {} =>
    /\ \A r \in requests : MessageTold(r.message)
    /\ modTask # None => MessageTold(modTask.message)
    /\ \A i \in DOMAIN sent : MessageTold(sent[i].message)

\* The mark of a saved chain's latest message, and the request that carries it.
MarkOf(e) == Mark(e.state.chainId, e.state.attempts, MaxAttempts)

Asks(r, e) == r.message = MarkOf(e) /\ r.delivery = "agent"

HasRequest(e) ==
  /\ \E r \in requests : r.unit = LastTurn(e.state) /\ ~r.blank /\ r.at = e.at
  /\ \A r \in requests : r.unit = LastTurn(e.state) /\ ~r.blank => Asks(r, e)

\* The request of the chain is there and its worker, the feed or the mod's queue
\* has it.
Announcing(e) ==
  /\ HasRequest(e)
  /\ \/ \E w \in Workers : /\ At(w, "settled") /\ workers[w].path.unit = LastTurn(e.state)
                           /\ workers[w].proposed /\ workers[w].step.kind = "DELIVER"
                           /\ workers[w].step.chainId = e.state.chainId
     \/ LastTurn(e.state) \in Proposed \ shown
     \/ LastTurn(e.state) \in Elements(modQueue)

\* The mod works on it, or has refused it.
Working(e) == modTask # None /\ modTask.unit = LastTurn(e.state) /\ Asks(modTask, e)
Refused(e) == \E o \in outcomes : o.unit = LastTurn(e.state) /\ o.at >= e.at

\* The step will end the chain, replace it, or end another one in its place.
Settles(step, v, e) ==
  \/ step.kind \in {"STOP", "RESOLVED"} /\ (step.state.chainId = e.state.chainId \/ ~units[v].turn)
  \/ step.kind = "DELIVER" /\ step.chainId = e.state.chainId /\ step.attempt >= 2

\* The worker w has the unit of the reply.
AnsweredBy(w, e) ==
  /\ Holds(w) /\ units[workers[w].path.unit].task = MarkOf(e)
  /\ \/ At(w, "claimed")
     \/ workers[w].stage \in {"reviewing", "recorded"} /\ workers[w].settings = "remediate"
     \/ At(w, "decided") /\ Settles(workers[w].step, workers[w].path.unit, e)

\* The message waits for its turn, its unit for a worker, or a worker has it.
Answering(e) ==
  \/ MarkOf(e) \in Elements(inbox)
  \/ \E v \in pending : units[v].task = MarkOf(e)
  \/ \E w \in Workers : AnsweredBy(w, e)

\* A saved chain that has not aged out is at one of these places.
Moves(e) ==
  Announcing(e) \/ Working(e) \/ Refused(e) \/ Answering(e) \/ Misplaced(e.state)

ProgressOK ==
  mishaps \intersect {"crash", "reload", "outcome"} = {} =>
    \A e \in Elements(chains) : Expired(e) \/ Moves(e)

ChainInv ==
  /\ ChainsOK /\ StepsOK /\ SweptOK /\ OutcomesOK /\ EarlyOK /\ MessagesTold
  /\ IsList(inbox) /\ ProgressOK

-----------------------------------------------------------------------------
(* The workers' records and the list of saved chains.                       *)

LEMMA ElementsAreMembers == \A s : Elements(s) = Members(s)
BY DEF Elements, Members

\* What a step leaves in the record of its worker.
LEMMA Records ==
  ASSUME ClaimsInv, NEW w \in Workers
  PROVE  /\ SweepRead(w) =>
              /\ workers'[w].stage = "swept" /\ workers'[w].ended = workers[w].ended
              /\ workers'[w].saw = SavedStates /\ workers'[w].read = outcomes
              /\ workers'[w].settings = workers[w].settings
         /\ SweepApply(w) =>
              /\ workers'[w].stage = "closing" /\ workers'[w].ended = Closures(w)
              /\ workers'[w].settings = workers[w].settings
         /\ RecordClosures(w) =>
              /\ workers'[w].stage = "list" /\ workers'[w].ended = {}
              /\ workers'[w].settings = workers[w].settings
         /\ DropAbandonedClaims(w) \/ List(w) \/ EndPass(w) \/ Claim(w) =>
              /\ workers'[w].stage \in {"sweep", "drain", "list", "retry", "claimed"}
              /\ workers'[w].ended = workers[w].ended
              /\ workers'[w].settings = workers[w].settings
         /\ Begin(w) =>
              /\ workers'[w].stage = "reviewing" /\ workers'[w].ended = workers[w].ended
              /\ workers'[w].path = workers[w].path
              /\ workers'[w].settings \in {"off", Mode}
              /\ chains # <<>> => workers'[w].settings = Mode
         /\ Review(w) =>
              /\ workers'[w].stage = "recorded" /\ workers'[w].ended = workers[w].ended
              /\ workers'[w].path = workers[w].path
              /\ workers'[w].settings = workers[w].settings
         /\ Decide(w) =>
              /\ workers'[w].stage = "decided" /\ workers'[w].ended = workers[w].ended
              /\ workers'[w].path = workers[w].path
              /\ workers'[w].settings = workers[w].settings
              /\ workers'[w].step = StepOf(w)
         /\ Settle(w) =>
              /\ workers'[w].stage = "settled" /\ workers'[w].ended = workers[w].ended
              /\ workers'[w].path = workers[w].path
              /\ workers'[w].settings = workers[w].settings
              /\ workers'[w].step = workers[w].step
         /\ Announce(w) =>
              /\ workers'[w].stage = "drain" /\ workers'[w].ended = workers[w].ended
              /\ workers'[w].settings = "off"
         /\ Exit(w) \/ Dies(w) => workers'[w].stage = "idle" /\ workers'[w].ended = {}
                                  /\ workers'[w].settings = "off"
         /\ Spawned(w) => workers'[w].stage = "start" /\ workers'[w].ended = {}
                          /\ workers'[w].settings = "off"
<1>1. DOMAIN workers = Workers /\ DOMAIN workers[w] = DOMAIN Idle
  BY DEF ClaimsInv, WorkersOK
<1>2. DOMAIN workers[w] = {"stage", "since", "saw", "read", "ended", "todo", "any", "path",
                           "settings", "review", "step", "proposed", "leftovers"}
  BY <1>1 DEF Idle
<1>3. \A r : Goes(w, r) => workers'[w] = r
  BY <1>1, GoesFacts
<1>4. SweepRead(w) => workers'[w] = [workers[w] EXCEPT !.stage = "swept", !.saw = SavedStates,
                                                       !.read = outcomes]
  BY <1>3 DEF SweepRead
<1>5. SweepApply(w) => workers'[w] = [workers[w] EXCEPT !.stage = "closing", !.ended = Closures(w),
                                                        !.saw = {}, !.read = {}]
  BY <1>3 DEF SweepApply
<1>6. RecordClosures(w) => workers'[w] = [workers[w] EXCEPT !.stage = "list", !.ended = {}]
  BY <1>3 DEF RecordClosures
<1>7. ASSUME DropAbandonedClaims(w) \/ List(w) \/ EndPass(w) \/ Claim(w)
      PROVE  /\ workers'[w].stage \in {"sweep", "drain", "list", "retry", "claimed"}
             /\ workers'[w].ended = workers[w].ended
             /\ workers'[w].settings = workers[w].settings
  <2> DEFINE dropped(kept) == [workers[w] EXCEPT !.stage = "sweep", !.leftovers = kept]
             listed == [workers[w] EXCEPT !.stage = "drain", !.todo = pending, !.any = FALSE]
             passed == [workers[w] EXCEPT !.stage = IF workers[w].any THEN "list" ELSE "retry"]
             u == Oldest(workers[w].todo)
             rest == [workers[w] EXCEPT !.todo = @ \ {u}]
             taken == [rest EXCEPT !.stage = "claimed", !.any = TRUE, !.path = [unit |-> u, at |-> now]]
             Fine(r) == /\ r.stage \in {"sweep", "drain", "list", "retry", "claimed"}
                        /\ r.ended = workers[w].ended /\ r.settings = workers[w].settings
  <2>1. Fine(listed) /\ Fine(passed) /\ \A kept : Fine(dropped(kept))
    BY <1>2
  <2>2. Fine(taken) /\ (At(w, "drain") => Fine(rest))
    BY <1>2 DEF At
  <2>3. \/ \E kept : workers'[w] = dropped(kept)
        \/ workers'[w] = listed \/ workers'[w] = passed
        \/ At(w, "drain") /\ (workers'[w] = rest \/ workers'[w] = taken)
    BY <1>3, <1>7 DEF DropAbandonedClaims, List, EndPass, Claim
  <2> HIDE DEF dropped, listed, passed, rest, taken
  <2> QED BY <2>1, <2>2, <2>3
<1>8. Begin(w) => workers'[w] = [workers[w] EXCEPT
                     !.stage = "reviewing",
                     !.settings = IF ~Unit(w).turn /\ chains = <<>> THEN "off" ELSE Mode]
  BY <1>3 DEF Begin, ClaimsInv, HeldOK, Holds, Holding, At
<1>9. Review(w) => \E review : workers'[w] = [workers[w] EXCEPT !.stage = "recorded", !.review = review]
  BY <1>3 DEF Review
<1>10. Decide(w) => workers'[w] = [workers[w] EXCEPT !.stage = "decided", !.step = StepOf(w)]
  BY <1>3 DEF Decide
<1>11. Settle(w) => \E p : workers'[w] = [workers[w] EXCEPT !.stage = "settled", !.proposed = p]
  BY <1>3 DEF Settle
<1>12. Announce(w) => workers'[w].stage = "drain" /\ workers'[w].ended = workers[w].ended
                      /\ workers'[w].settings = "off"
  <2> DEFINE done == [workers[w] EXCEPT
                        !.stage = "drain", !.path = None, !.settings = "off",
                        !.review = NoReview, !.step = NoStep, !.proposed = FALSE]
             kept == [done EXCEPT !.leftovers = @ \union {workers[w].path}]
  <2>1. /\ done.stage = "drain" /\ done.ended = workers[w].ended /\ done.settings = "off"
        /\ kept.stage = "drain" /\ kept.ended = workers[w].ended /\ kept.settings = "off"
    BY <1>2
  <2>2. Announce(w) => workers'[w] = done \/ workers'[w] = kept
    BY <1>3 DEF Announce
  <2> HIDE DEF done, kept
  <2> QED BY <2>1, <2>2
<1>13. Exit(w) \/ Dies(w) => workers'[w] = Idle
  BY <1>3 DEF Exit, Dies
<1>14. Spawned(w) => workers'[w] = [Idle EXCEPT !.stage = "start", !.since = now]
  BY <1>3 DEF Spawned
<1>15. DOMAIN Idle = DOMAIN workers[w] /\ Idle.stage = "idle" /\ Idle.ended = {} /\ Idle.settings = "off"
  BY <1>1 DEF Idle
<1>16. SweepRead(w) =>
         /\ workers'[w].stage = "swept" /\ workers'[w].ended = workers[w].ended
         /\ workers'[w].saw = SavedStates /\ workers'[w].read = outcomes
         /\ workers'[w].settings = workers[w].settings
  BY <1>2, <1>4
<1>17. SweepApply(w) =>
         /\ workers'[w].stage = "closing" /\ workers'[w].ended = Closures(w)
         /\ workers'[w].settings = workers[w].settings
  BY <1>2, <1>5
<1>18. RecordClosures(w) =>
         /\ workers'[w].stage = "list" /\ workers'[w].ended = {}
         /\ workers'[w].settings = workers[w].settings
  BY <1>2, <1>6
<1>19. Begin(w) =>
         /\ workers'[w].stage = "reviewing" /\ workers'[w].ended = workers[w].ended
         /\ workers'[w].path = workers[w].path
         /\ workers'[w].settings \in {"off", Mode}
         /\ chains # <<>> => workers'[w].settings = Mode
  BY <1>2, <1>8
<1>20. Review(w) =>
         /\ workers'[w].stage = "recorded" /\ workers'[w].ended = workers[w].ended
         /\ workers'[w].path = workers[w].path
         /\ workers'[w].settings = workers[w].settings
  BY <1>2, <1>9
<1>21. Decide(w) =>
         /\ workers'[w].stage = "decided" /\ workers'[w].ended = workers[w].ended
         /\ workers'[w].path = workers[w].path
         /\ workers'[w].settings = workers[w].settings
         /\ workers'[w].step = StepOf(w)
  BY <1>2, <1>10
<1>22. Settle(w) =>
         /\ workers'[w].stage = "settled" /\ workers'[w].ended = workers[w].ended
         /\ workers'[w].path = workers[w].path
         /\ workers'[w].settings = workers[w].settings
         /\ workers'[w].step = workers[w].step
  BY <1>2, <1>11
<1>23. Spawned(w) => workers'[w].stage = "start" /\ workers'[w].ended = {}
                      /\ workers'[w].settings = "off"
  BY <1>2, <1>14, <1>15
<1> QED BY <1>7, <1>12, <1>13, <1>15, <1>16, <1>17, <1>18, <1>19, <1>20, <1>21, <1>22, <1>23

LEMMA WithoutChain ==
  ASSUME IsList(chains), NEW id
  PROVE  /\ IsList(Without(id))
         /\ Elements(Without(id)) = {e \in Elements(chains) : e.state.chainId # id}
BY KeptMembers, ElementsAreMembers DEF Without

LEMMA LastOfList ==
  ASSUME NEW s, IsList(s), s # <<>>
  PROVE  s[Len(s)] \in Members(s)
<1>1. Len(s) \in Nat \ {0} /\ DOMAIN s = 1..Len(s)
  BY TailList
<1> QED BY <1>1 DEF Members

-----------------------------------------------------------------------------
(* What a worker decides.                                                   *)

LEMMA OneTurn ==
  ASSUME NEW u
  PROVE  IsList(<<u>>) /\ <<u>> # <<>> /\ <<u>>[Len(<<u>>)] = u
<1>1. <<u>> \in Seq({u}) /\ Len(<<u>>) = 1 /\ <<u>>[1] = u
  OBVIOUS
<1>2. Len(<<>>) = 0
  BY EmptyList
<1> QED BY <1>1, <1>2, ListOfSeq

LEMMA OneMoreTurn ==
  ASSUME NEW s, IsList(s), NEW u
  PROVE  IsList(Append(s, u)) /\ Append(s, u) # <<>> /\ Append(s, u)[Len(Append(s, u))] = u
<1>1. Len(s) \in Nat /\ Len(Append(s, u)) = Len(s) + 1 /\ IsList(Append(s, u))
      /\ Append(s, u)[Len(s) + 1] = u
  BY AppendList
<1>2. Len(<<>>) = 0
  BY EmptyList
<1> QED BY <1>1, <1>2

LEMMA StartStep ==
  ASSUME NEW in, NEW failures, Mode = "remediate", in.maxAttempts = MaxAttempts
  PROVE  StepOK(StartOf(in, failures), in.turnId)
<1> DEFINE state == [chainId |-> in.turnId, originIds |-> FailureIds(failures),
                     signatures |-> <<failures>>, turnIds |-> <<in.turnId>>, attempts |-> 1,
                     scopes |-> ScopesOf(in.results, FailureIds(failures))]
<1>1. StartOf(in, failures) = NoStep \/ StartOf(in, failures) = Deliver(in.maxAttempts, failures, state)
  BY DEF StartOf
<1>2. /\ DOMAIN state = ChainFields /\ state.turnIds = <<in.turnId>> /\ state.attempts = 1
  BY DEF ChainFields
<1> HIDE DEF state
<1>3. StateOK(state) /\ LastTurn(state) = in.turnId
  BY <1>2, OneTurn DEF StateOK, LastTurn
<1>4. StepOK(Deliver(in.maxAttempts, failures, state), in.turnId)
  BY <1>3 DEF StepOK, StateOK, Deliver
<1>5. StepOK(NoStep, in.turnId)
  BY DEF StepOK, NoStep
<1> QED BY <1>1, <1>4, <1>5

\* The next state of a chain, after one more attempt.
LEMMA NextState ==
  ASSUME NEW state, StateOK(state), NEW in, NEW signature
  PROVE  /\ StateOK(Advanced(state, in, signature))
         /\ LastTurn(Advanced(state, in, signature)) = in.turnId
         /\ Advanced(state, in, signature).chainId = state.chainId
         /\ Advanced(state, in, signature).attempts = state.attempts + 1
<1> DEFINE next == Advanced(state, in, signature)
           turns == Append(state.turnIds, in.turnId)
<1>1. /\ DOMAIN next = ChainFields /\ next.chainId = state.chainId
      /\ next.attempts = state.attempts + 1 /\ next.turnIds = turns
  BY DEF Advanced, StateOK, ChainFields
<1>2. IsList(turns) /\ turns # <<>> /\ turns[Len(turns)] = in.turnId
  BY OneMoreTurn DEF StateOK
<1> HIDE DEF next, turns
<1>3. StateOK(next) /\ LastTurn(next) = in.turnId
  BY <1>1, <1>2 DEF StateOK, LastTurn
<1> QED BY <1>1, <1>3 DEF next

\* A reply goes on with its chain or ends it.
GoesOn(step, chainId) ==
  \/ step.kind \in {"STOP", "RESOLVED"} /\ step.state.chainId = chainId
  \/ step.kind = "DELIVER" /\ step.chainId = chainId /\ step.attempt >= 2

LEMMA ContinuationStep ==
  ASSUME NEW in, NEW state, StateOK(state), NEW failures, Mode = "remediate",
         in.maxAttempts = MaxAttempts
  PROVE  /\ StepOK(Continuation(in, state, failures), in.turnId)
         /\ GoesOn(Continuation(in, state, failures), state.chainId)
<1> DEFINE ids == ChainIdsOf(state, in.results)
           next == Advanced(state, in, failures)
<1> HIDE DEF ids, next
<1>1. \/ \E code : Continuation(in, state, failures) = Stop(code, state, ids)
      \/ Continuation(in, state, failures) = Resolved(state, ids)
      \/ Continuation(in, state, failures) = Deliver(in.maxAttempts, failures, next)
  BY DEF Continuation, ids, next
<1>2. \A code : StepOK(Stop(code, state, ids), in.turnId) /\ GoesOn(Stop(code, state, ids), state.chainId)
  BY DEF StepOK, StateOK, Stop, GoesOn
<1>3. StepOK(Resolved(state, ids), in.turnId) /\ GoesOn(Resolved(state, ids), state.chainId)
  BY DEF StepOK, StateOK, Resolved, GoesOn
<1>4. /\ StateOK(next) /\ LastTurn(next) = in.turnId
      /\ next.chainId = state.chainId /\ next.attempts = state.attempts + 1
  BY NextState DEF next
<1>5. next.attempts >= 2
  BY <1>4 DEF StateOK
<1>6. StepOK(Deliver(in.maxAttempts, failures, next), in.turnId)
      /\ GoesOn(Deliver(in.maxAttempts, failures, next), state.chainId)
  BY <1>4, <1>5 DEF StepOK, StateOK, Deliver, GoesOn
<1> QED BY <1>1, <1>2, <1>3, <1>6

LEMMA UnverifiedStep ==
  ASSUME NEW delivery, NEW known, known = None \/ StateOK(known), Mode = "remediate", NEW u
  PROVE  StepOK(UnverifiedWithoutState(delivery, known), u)
<1> DEFINE empty == [chainId |-> delivery.chainId, originIds |-> {}, signatures |-> <<>>,
                     turnIds |-> <<>>, attempts |-> Clamped(delivery.attempt),
                     scopes |-> [id \in {} |-> {}]]
<1>1. IsList(empty.turnIds)
  BY EmptyList
<1> HIDE DEF empty
<1>2. PICK state, ids : /\ UnverifiedWithoutState(delivery, known) = Stop("UNVERIFIED", state, ids)
                        /\ IsList(state.turnIds)
  BY <1>1 DEF UnverifiedWithoutState, StateOK, empty
<1>3. StepOK(Stop("UNVERIFIED", state, ids), u)
  BY <1>2 DEF StepOK, Stop
<1> QED BY <1>2, <1>3

\* The whole decision for a unit with a turn.
LEMMA TurnStep ==
  ASSUME NEW task, NEW chain, chain = None \/ StateOK(chain), NEW request, NEW results, NEW u,
         Mode = "remediate",
         NEW in, in = [maxAttempts |-> MaxAttempts, delivery |-> task, mixed |-> FALSE,
                       chain |-> chain, request |-> request, results |-> results, turnId |-> u]
  PROVE  /\ StepOK(DecideRemediateStep(in), u)
         /\ chain # None /\ task = Mark(chain.chainId, chain.attempts, MaxAttempts) =>
              GoesOn(DecideRemediateStep(in), chain.chainId)
<1> DEFINE asked == [in EXCEPT !.request = in.request /\ ~in.mixed]
           failures == ChainFailures(asked.results)
           step == DecideRemediateStep(in)
<1>1. /\ asked.maxAttempts = MaxAttempts /\ asked.delivery = task /\ asked.chain = chain
      /\ asked.turnId = u
  OBVIOUS
<1>2. ~in.mixed
  OBVIOUS
<1>3. step = DecideChainStep(asked, "remediate")
  BY <1>2 DEF DecideRemediateStep
<1> HIDE DEF asked, failures, step
<1>4. \/ step = NoStep /\ task = Legacy
      \/ step = StartOf(asked, failures) /\ task = HumanTurn
      \/ step = UnverifiedWithoutState(task, None) /\ chain = None
      \/ /\ step = UnverifiedWithoutState(task, chain)
         /\ chain.chainId # task.chainId \/ chain.attempts # task.attempt
      \/ step = Continuation(asked, chain, failures) /\ chain # None
  BY <1>1, <1>3 DEF DecideChainStep, failures
<1>5. StepOK(step, u)
  <2>1. StepOK(NoStep, u)
    BY DEF StepOK, NoStep
  <2>2. StepOK(StartOf(asked, failures), u)
    BY <1>1, StartStep
  <2>3. /\ StepOK(UnverifiedWithoutState(task, None), u)
        /\ StepOK(UnverifiedWithoutState(task, chain), u)
    BY UnverifiedStep
  <2>4. chain # None => StepOK(Continuation(asked, chain, failures), u)
    BY <1>1, ContinuationStep
  <2> QED BY <1>4, <2>1, <2>2, <2>3, <2>4
<1>6. ASSUME chain # None, task = Mark(chain.chainId, chain.attempts, MaxAttempts)
      PROVE  GoesOn(step, chain.chainId)
  <2>1. task # Legacy /\ task # HumanTurn /\ task.chainId = chain.chainId /\ task.attempt = chain.attempts
    BY <1>6 DEF Mark, Legacy, HumanTurn
  <2> QED BY <1>1, <1>4, <1>6, <2>1, ContinuationStep
<1> QED BY <1>5, <1>6 DEF step

LEMMA LoadedChain ==
  ASSUME ChainsOK, NEW chainId
  PROVE  /\ LoadChain(chainId) = None \/ StateOK(LoadChain(chainId))
         /\ \A e \in Elements(chains) : e.state.chainId = chainId => LoadChain(chainId) = e.state
<1>1. \A s \in SavedStates : StateOK(s)
  BY DEF ChainsOK, SavedStates
<1>2. \A s, t \in SavedStates : s.chainId = t.chainId => s = t
  BY DEF ChainsOK, SavedStates
<1>3. CASE \E s \in SavedStates : s.chainId = chainId
  <2>1. LoadChain(chainId) \in SavedStates /\ LoadChain(chainId).chainId = chainId
    BY <1>3 DEF LoadChain
  <2>2. \A e \in Elements(chains) : e.state \in SavedStates
    BY DEF SavedStates
  <2> QED BY <1>1, <1>2, <2>1, <2>2
<1>4. CASE ~\E s \in SavedStates : s.chainId = chainId
  BY <1>4 DEF LoadChain, SavedStates
<1> QED BY <1>3, <1>4

\* What a worker decides for the unit it holds, and for a reply to a saved chain.
LEMMA DecidedStep ==
  ASSUME ChainsOK, StepsOK, NEW w \in Workers
  PROVE  /\ StepOK(StepOf(w), workers[w].path.unit)
         /\ \A e \in Elements(chains) :
              Unit(w).task = MarkOf(e) /\ workers[w].settings = "remediate" /\ e.state # None =>
                IF Unit(w).turn THEN GoesOn(StepOf(w), e.state.chainId) ELSE StepOf(w).kind = "STOP"
<1> DEFINE u == workers[w].path.unit
           task == Unit(w).task
           chain == IF task.kind = "MARK" THEN LoadChain(task.chainId) ELSE None
           in == [maxAttempts |-> MaxAttempts, delivery |-> task, mixed |-> FALSE, chain |-> chain,
                  request |-> workers[w].review.request, results |-> workers[w].review.results,
                  turnId |-> u]
           newest == chains[Len(chains)].state
           orphan == DecideOrphanStep(newest)
<1>1. /\ workers[w].settings # "remediate" => StepOf(w) = NoStep
      /\ workers[w].settings = "remediate" /\ ~Unit(w).turn =>
           IF chains = <<>> THEN StepOf(w) = NoStep
           ELSE StepOf(w) = orphan
      /\ workers[w].settings = "remediate" /\ Unit(w).turn => StepOf(w) = DecideRemediateStep(in)
  BY DEF StepOf
<1>2. chain = None \/ StateOK(chain)
  BY LoadedChain
<1>3. workers[w].settings = "remediate" => Mode = "remediate"
  BY DEF StepsOK
<1>4. StepOK(NoStep, u)
  BY DEF StepOK, NoStep
<1>5. orphan.kind = "STOP" /\ (chains # <<>> /\ Mode = "remediate" => StepOK(orphan, u))
  <2>1. chains # <<>> => StateOK(newest)
    BY LastOfList, ElementsAreMembers DEF ChainsOK
  <2> QED BY <2>1 DEF DecideOrphanStep, Stop, StepOK, StateOK
<1>8. \A e \in Elements(chains) : chains # <<>>
  BY ElementsAreMembers, EmptyList
<1> HIDE DEF chain, task, u, orphan, newest
<1>6. Mode = "remediate" => /\ StepOK(DecideRemediateStep(in), u)
                            /\ chain # None /\ task = Mark(chain.chainId, chain.attempts, MaxAttempts) =>
                                 GoesOn(DecideRemediateStep(in), chain.chainId)
  BY <1>2, TurnStep
<1>7. ASSUME NEW e \in Elements(chains), task = MarkOf(e), e.state # None
      PROVE  chain = e.state
  <2>1. task.kind = "MARK" /\ task.chainId = e.state.chainId
    BY <1>7 DEF MarkOf, Mark
  <2> QED BY <2>1, LoadedChain DEF chain
<1> HIDE DEF in
<1>9. ASSUME NEW e \in Elements(chains), task = MarkOf(e), workers[w].settings = "remediate",
             e.state # None
      PROVE  IF Unit(w).turn THEN GoesOn(StepOf(w), e.state.chainId) ELSE StepOf(w).kind = "STOP"
  BY <1>1, <1>3, <1>5, <1>6, <1>7, <1>8, <1>9 DEF MarkOf
<1>10. StepOK(StepOf(w), u)
  BY <1>1, <1>3, <1>4, <1>5, <1>6
<1> QED BY <1>9, <1>10 DEF task, u
-----------------------------------------------------------------------------
(* The saved chains.                                                        *)

\* A worker writes a request and saves the chain it belongs to.
Saves(w) ==
  /\ workers[w].step.kind = "DELIVER"
  /\ requests' = requests \union {Request(w)} /\ workers'[w].proposed
  /\ IsList(chains') /\ UNCHANGED chainLog
  /\ Elements(chains') = {e \in Elements(chains) : e.state.chainId # workers[w].step.chainId}
                           \union {ChainFile(workers[w].step.state)}

\* A worker ends a chain with a record.
EndsChain(id) ==
  /\ IsList(chains')
  /\ Elements(chains') = {e \in Elements(chains) : e.state.chainId # id}
  /\ chainLog \subseteq chainLog' /\ \E r \in chainLog' : r.chainId = id
  /\ UNCHANGED requests

LEMMA EndsIt ==
  ASSUME IsList(chains), NEW w, NEW step, Ends(w, step), UNCHANGED requests
  PROVE  /\ EndsChain(step.state.chainId)
         /\ IsList(step.state.turnIds) =>
              \E r \in chainLog' : /\ r.chainId = step.state.chainId
                                   /\ workers[w].path.unit \in Elements(r.turnIds)
<1> DEFINE u == workers[w].path.unit
           r == ChainEndOf(step, u)
           turns == step.state.turnIds
<1>1. chains' = Without(step.state.chainId) /\ chainLog' = chainLog \union {r}
  BY DEF Ends
<1>2. r.chainId = step.state.chainId
      /\ r.turnIds = IF \E i \in DOMAIN turns : turns[i] = u THEN turns ELSE Append(turns, u)
  BY DEF ChainEndOf, EndRecord
<1>3. IsList(turns) => u \in Elements(Append(turns, u))
  BY AppendList, ElementsAreMembers
<1>4. IsList(turns) => u \in Elements(r.turnIds)
  BY <1>2, <1>3 DEF Elements
<1> QED BY <1>1, <1>2, <1>4, WithoutChain DEF EndsChain

LEMMA SettleCases ==
  ASSUME ClaimsInv, ChainsOK, StepsOK, DOMAIN None = {}, NEW w \in Workers, Settle(w),
         NEW step, step = workers[w].step
  PROVE  /\ At(w, "decided")
         /\ \/ Saves(w)
            \/ /\ step.kind \in {"STOP", "RESOLVED"} /\ EndsChain(step.state.chainId)
               /\ \E r \in chainLog' : /\ r.chainId = step.state.chainId
                                       /\ workers[w].path.unit \in Elements(r.turnIds)
            \/ step.kind = "DELIVER" /\ EndsChain(step.chainId)
            \/ step.kind = "DELIVER" /\ step.attempt <= 1 /\ UNCHANGED <<chains, chainLog, requests>>
            \/ step.kind = "NONE" /\ UNCHANGED <<chains, chainLog>>
<1>1. At(w, "decided") /\ IsList(chains) /\ StepOK(step, workers[w].path.unit)
  BY DEF Settle, StepsOK, ChainsOK
<1>2. CASE step.kind \in {"STOP", "RESOLVED"} /\ Ends(w, step) /\ UNCHANGED requests
  BY <1>1, <1>2, EndsIt DEF StepOK
<1>3. CASE step.kind = "NONE" /\ UNCHANGED <<chains, chainLog>>
  BY <1>1, <1>3
<1>4. CASE /\ step.kind = "DELIVER" /\ requests' = requests \union {Request(w)}
           /\ Goes(w, [workers[w] EXCEPT !.stage = "settled", !.proposed = TRUE])
           /\ chains' = Append(Without(step.chainId), ChainFile(step.state))
           /\ UNCHANGED chainLog
  <2>1. workers'[w].proposed
    <3> DEFINE r == [workers[w] EXCEPT !.stage = "settled", !.proposed = TRUE]
    <3>1. "proposed" \in DOMAIN workers[w] /\ DOMAIN workers = Workers
      BY DEF ClaimsInv, WorkersOK, Idle
    <3>2. r.proposed
      BY <3>1
    <3> HIDE DEF r
    <3>3. Goes(w, r)
      BY <1>4 DEF r
    <3> QED BY <3>1, <3>2, <3>3, GoesFacts
  <2>2. PICK kept, new : kept = Without(step.chainId) /\ new = ChainFile(step.state)
    OBVIOUS
  <2>3. IsList(kept) /\ Elements(kept) = {e \in Elements(chains) : e.state.chainId # step.chainId}
    BY <1>1, <2>2, WithoutChain
  <2>4. chains' = Append(kept, new)
    BY <1>4, <2>2
  <2>5. IsList(chains') /\ Elements(chains') = Elements(kept) \union {new}
    BY <2>3, <2>4, AppendList, ElementsAreMembers
  <2> QED BY <1>1, <1>4, <2>1, <2>2, <2>3, <2>5 DEF Saves
<1>5. CASE /\ step.kind = "DELIVER" /\ UNCHANGED requests
           /\ LET stop == AbandonDeliver(step, workers[w].review.results)
              IN  IF stop = None THEN UNCHANGED <<chains, chainLog>> ELSE Ends(w, stop)
  <2> DEFINE stop == AbandonDeliver(step, workers[w].review.results)
             before == [step.state EXCEPT
                          !.attempts = @ - 1,
                          !.signatures = SubSeq(@, 1, Len(@) - 1),
                          !.turnIds = SubSeq(@, 1, Len(@) - 1)]
             ids == ChainIdsOf(before, workers[w].review.results)
  <2>1. before.chainId = step.chainId
    BY <1>1, <1>5 DEF StepOK, StateOK, ChainFields
  <2> HIDE DEF before, ids
  <2>2. step.attempt <= 1 \/ stop = Stop("DELIVERY_FAILED", before, ids)
    BY DEF AbandonDeliver, before, ids
  <2>3. DOMAIN Stop("DELIVERY_FAILED", before, ids) # {} /\ Stop("DELIVERY_FAILED", before, ids).state = before
    BY DEF Stop
  <2>4. stop = None => step.attempt <= 1
    BY <2>2, <2>3
  <2> HIDE DEF stop
  <2>5. CASE stop = None
    BY <1>1, <1>5, <2>4, <2>5 DEF stop
  <2>6. CASE stop # None
    <3>1. Ends(w, stop)
      BY <1>5, <2>6 DEF stop
    <3>2. EndsChain(stop.state.chainId)
      BY <1>1, <1>5, <3>1, EndsIt
    <3>3. CASE stop = Stop("DELIVERY_FAILED", before, ids)
      BY <1>1, <1>5, <2>1, <2>3, <3>2, <3>3
    <3>4. CASE step.attempt <= 1
      <4>1. stop = None
        BY <3>4 DEF stop, AbandonDeliver
      <4> QED BY <2>6, <4>1
    <3> QED BY <2>2, <3>3, <3>4
  <2> QED BY <2>5, <2>6
<1> QED BY <1>2, <1>3, <1>4, <1>5 DEF Settle

\* Only a worker that saves one adds a chain.
LEMMA ChainStep ==
  ASSUME ClaimsInv, ChainsOK, StepsOK, DOMAIN None = {}, [Next]_vars
  PROVE  \/ IsList(chains') /\ Elements(chains') \subseteq Elements(chains)
         \/ \E w \in Workers : Settle(w) /\ Saves(w)
<1>1. IsList(chains)
  BY DEF ChainsOK
<1>2. ASSUME UNCHANGED chains
      PROVE  IsList(chains') /\ Elements(chains') \subseteq Elements(chains)
  BY <1>1, <1>2 DEF Elements
<1>3. CASE UserMessage \/ Tick \/ ModStep \/ ModReload \/ UNCHANGED vars
  BY <1>2, <1>3 DEF UserMessage, Tick, ModStep, ModShow, ModTake, ModFails, ModDeliver, ModReload,
                    vars, fileVars, proposalVars
<1>4. ASSUME NEW w \in Workers, CloseUnit(w) \/ SessionStart(w) \/ Dies(w)
      PROVE  UNCHANGED chains
  BY <1>4 DEF CloseUnit, SessionStart, Dies, fileVars, proposalVars
<1>5. ASSUME NEW w \in Workers, WorkerStep(w)
      PROVE  \/ IsList(chains') /\ Elements(chains') \subseteq Elements(chains)
             \/ Settle(w) /\ Saves(w)
  <2>1. CASE Settle(w)
    <3>1. PICK step : step = workers[w].step
      OBVIOUS
    <3>2. Saves(w) \/ UNCHANGED chains \/ \E id : EndsChain(id)
      BY <2>1, <3>1, SettleCases
    <3>3. \A id : EndsChain(id) => IsList(chains') /\ Elements(chains') \subseteq Elements(chains)
      BY DEF EndsChain
    <3> QED BY <1>2, <2>1, <3>2, <3>3
  <2>2. CASE SweepApply(w)
    <3>1. PICK wanted : chains' = Kept(chains, wanted)
      BY <2>2 DEF SweepApply
    <3> QED BY <1>1, <3>1, KeptMembers, ElementsAreMembers
  <2>3. CASE Announce(w)
    <3>1. UNCHANGED chains \/ chains' = Without(workers[w].step.chainId)
      BY <2>3 DEF Announce
    <3>2. PICK id : id = workers[w].step.chainId
      OBVIOUS
    <3> QED BY <1>1, <1>2, <3>1, <3>2, WithoutChain
  <2>4. CASE \/ DropAbandonedClaims(w) \/ SweepRead(w) \/ RecordClosures(w) \/ List(w) \/ Claim(w)
             \/ EndPass(w) \/ Begin(w) \/ Review(w) \/ Decide(w) \/ Exit(w)
    <3>1. UNCHANGED chains
      BY <2>4 DEF DropAbandonedClaims, SweepRead, RecordClosures, List, Claim, EndPass, Begin,
                  Review, Decide, Exit, fileVars, proposalVars
    <3> QED BY <1>2, <3>1
  <2> QED BY <1>5, <2>1, <2>2, <2>3, <2>4 DEF WorkerStep
<1> QED BY <1>2, <1>3, <1>4, <1>5 DEF Next

\* The chain a worker saves, in the place of the one with its name.
LEMMA SavedChain ==
  ASSUME ClaimsInv, StepsOK, NEW w \in Workers, Settle(w), Saves(w)
  PROVE  \E new : /\ new = ChainFile(workers[w].step.state)
                  /\ DOMAIN new = {"state", "at"} /\ StateOK(new.state) /\ new.at = now /\ now' = now
                  /\ LastTurn(new.state) = workers[w].path.unit
                  /\ new.state.chainId = workers[w].step.chainId
                  /\ MarkOf(new) = Mark(workers[w].step.chainId, workers[w].step.attempt,
                                        workers[w].step.maxAttempts)
                  /\ Elements(chains') =
                       {e \in Elements(chains) : e.state.chainId # new.state.chainId} \union {new}
                  /\ Mode = "remediate" /\ now \in Nat
<1> DEFINE step == workers[w].step
           new == ChainFile(step.state)
<1>1. StepOK(step, workers[w].path.unit) /\ step.kind = "DELIVER" /\ now \in Nat /\ now' = now
  BY DEF Settle, StepsOK, Saves, ClaimsInv, FilesOK
<1>2. DOMAIN new = {"state", "at"} /\ new.state = step.state /\ new.at = now
  BY DEF ChainFile
<1> HIDE DEF step, new
<1>3. Elements(chains') = {e \in Elements(chains) : e.state.chainId # step.chainId} \union {new}
  BY DEF Saves, step, new
<1>4. MarkOf(new) = Mark(step.chainId, step.attempt, step.maxAttempts)
  BY <1>1, <1>2 DEF MarkOf, StepOK
<1> WITNESS new
<1> QED BY <1>1, <1>2, <1>3, <1>4 DEF StepOK, new, step

LEMMA NextChainsOK ==
  ASSUME ClaimsInv, ChainsOK, StepsOK, DOMAIN None = {}, [Next]_vars
  PROVE  ChainsOK'
<1>1. now \in Nat /\ now' \in Nat /\ now <= now'
  BY Grows
<1>2. CASE IsList(chains') /\ Elements(chains') \subseteq Elements(chains)
  BY <1>1, <1>2 DEF ChainsOK
<1>3. ASSUME NEW w \in Workers, Settle(w), Saves(w)
      PROVE  ChainsOK'
  <2>1. IsList(chains')
    BY <1>3 DEF Saves
  <2>2. PICK new : /\ DOMAIN new = {"state", "at"} /\ StateOK(new.state) /\ new.at = now /\ now' = now
                   /\ Elements(chains') =
                        {e \in Elements(chains) : e.state.chainId # new.state.chainId} \union {new}
                   /\ Mode = "remediate" /\ now \in Nat
    BY <1>3, SavedChain
  <2>3. new.at \in 0..now
    BY <2>2
  <2> QED BY <2>1, <2>2, <2>3 DEF ChainsOK
<1> QED BY <1>2, <1>3, ChainStep

\* The other workers are as they were, and this one is as Records says.
LEMMA OneWorker ==
  ASSUME ClaimsInv, NEW w \in Workers,
         WorkerStep(w) \/ Dies(w) \/ Spawned(w)
  PROVE  \A v \in Workers \ {w} : workers'[v] = workers[v]
<1>1. DOMAIN workers = Workers
  BY DEF ClaimsInv, WorkersOK
<1>2. CASE WorkerStep(w)
  BY <1>2, WorkerHolds
<1>3. CASE Dies(w)
  BY <1>1, <1>3, GoesFacts DEF Dies
<1>4. CASE Spawned(w)
  BY <1>1, <1>4, GoesFacts DEF Spawned
<1> QED BY <1>2, <1>3, <1>4

LEMMA NextSteps ==
  ASSUME ClaimsInv, ChainsOK, StepsOK, DOMAIN None = {}, [Next]_vars
  PROVE  StepsOK'
<1>1. ASSUME UNCHANGED workers
      PROVE  StepsOK'
  BY <1>1 DEF StepsOK, At
<1>2. ASSUME NEW w \in Workers, \A v \in Workers \ {w} : workers'[v] = workers[v],
             workers'[w].settings = "remediate" => Mode = "remediate",
             At(w, "decided")' => StepOK(workers'[w].step, workers'[w].path.unit)
      PROVE  StepsOK'
  BY <1>2 DEF StepsOK, At
<1>3. CASE UserMessage \/ Tick \/ ModStep \/ ModReload \/ UNCHANGED vars
  BY <1>1, <1>3 DEF UserMessage, Tick, ModStep, ModShow, ModTake, ModFails, ModDeliver, ModReload, vars
<1>4. ASSUME NEW w \in Workers, Spawned(w) \/ Dies(w)
      PROVE  StepsOK'
  BY <1>2, <1>4, OneWorker, Records DEF At
<1>5. ASSUME NEW w \in Workers, WorkerStep(w)
      PROVE  StepsOK'
  <2>1. \A v \in Workers \ {w} : workers'[v] = workers[v]
    BY <1>5, OneWorker
  <2>2. workers[w].settings = "remediate" => Mode = "remediate"
    BY DEF StepsOK
  <2>3. CASE Decide(w)
    <3>1. StepOK(StepOf(w), workers[w].path.unit)
      BY DecidedStep
    <3> QED BY <1>2, <2>1, <2>2, <2>3, <3>1, Records
  <2>4. CASE ~Decide(w)
    <3>1. workers'[w].settings = workers[w].settings \/ workers'[w].settings \in {"off", Mode}
      BY <1>5, <2>4, Records DEF WorkerStep
    <3>2. workers'[w].stage # "decided"
      BY <1>5, <2>4, Records DEF WorkerStep
    <3> QED BY <1>2, <2>1, <2>2, <3>1, <3>2 DEF At
  <2> QED BY <2>3, <2>4
<1> QED BY <1>1, <1>3, <1>4, <1>5 DEF Next, CloseUnit, SessionStart

-----------------------------------------------------------------------------
(* Sweeps, outcomes and requests.                                           *)

\* A sweep has read what it needs of every chain, whatever is saved meanwhile.
LEMMA StillSwept ==
  ASSUME ClaimsInv, FeedOK, ChainsOK, StepsOK, SweptOK, OutcomesOK, DOMAIN None = {}, [Next]_vars,
         NEW v \in Workers, workers'[v] = workers[v]
  PROVE  SweptOf(v)'
<1>1. SweptOf(v)
  BY DEF SweptOK
<1>2. CASE Elements(chains') \subseteq Elements(chains)
  BY <1>1, <1>2 DEF SweptOf, At
<1>3. ASSUME NEW w \in Workers, Settle(w), Saves(w)
      PROVE  SweptOf(v)'
  <2>1. PICK new : /\ new.at = now /\ LastTurn(new.state) = workers[w].path.unit /\ now \in Nat
                   /\ Elements(chains') =
                        {e \in Elements(chains) : e.state.chainId # new.state.chainId} \union {new}
    BY <1>3, SavedChain
  <2>2. workers[v].since \in 0..now
    BY DEF ClaimsInv, WorkersOK
  <2>3. new.at >= workers[v].since
    BY <2>1, <2>2
  <2>4. LastTurn(new.state) \notin FeedUnits
    BY <1>3, <2>1 DEF FeedOK, Settle, At, Holds, Holding
  <2>5. At(v, "swept") => \A o \in workers[v].read : o.unit # LastTurn(new.state)
    BY <2>4 DEF OutcomesOK
  <2> QED BY <1>1, <2>1, <2>3, <2>5 DEF SweptOf, At
<1> QED BY <1>2, <1>3, ChainStep

LEMMA NextSwept ==
  ASSUME ClaimsInv, FeedOK, ChainsOK, StepsOK, SweptOK, OutcomesOK, DOMAIN None = {}, [Next]_vars
  PROVE  SweptOK'
<1>1. ASSUME NEW w \in Workers, \A v \in Workers \ {w} : workers'[v] = workers[v], SweptOf(w)'
      PROVE  SweptOK'
  BY <1>1, StillSwept DEF SweptOK
<1>2. ASSUME UNCHANGED workers
      PROVE  SweptOK'
  BY <1>2, StillSwept DEF SweptOK
<1>3. CASE UserMessage \/ Tick \/ ModStep \/ ModReload \/ UNCHANGED vars
  BY <1>2, <1>3 DEF UserMessage, Tick, ModStep, ModShow, ModTake, ModFails, ModDeliver, ModReload, vars
<1>4. ASSUME NEW w \in Workers, Spawned(w) \/ Dies(w)
      PROVE  SweptOK'
  <2>1. SweptOf(w)'
    BY <1>4, Records DEF SweptOf, At
  <2> QED BY <1>1, <1>4, <2>1, OneWorker
<1>5. ASSUME NEW w \in Workers, WorkerStep(w)
      PROVE  SweptOK'
  <2>1. SweptOf(w)'
    <3>1. At(w, "closing") \/ workers[w].ended = {}
      BY DEF SweptOK, SweptOf
    <3>2. CASE SweepRead(w)
      <4>1. /\ ~At(w, "closing") /\ UNCHANGED chains
        BY <3>2 DEF SweepRead, At, fileVars, proposalVars
      <4>2. \A e \in Elements(chains) : e.state \in SavedStates
        BY DEF SavedStates
      <4> QED BY <3>1, <3>2, <4>1, <4>2, Records DEF SweptOf, At
    <3>3. CASE SweepApply(w) \/ RecordClosures(w)
      BY <3>3, Records DEF SweptOf, At
    <3>4. CASE ~SweepRead(w) /\ ~SweepApply(w) /\ ~RecordClosures(w)
      <4>1. ~At(w, "closing")
        BY <1>5, <3>4 DEF WorkerStep, DropAbandonedClaims, List, Claim, EndPass, Begin, Review,
                          Decide, Settle, Announce, Exit, At
      <4>2. /\ workers'[w].ended = workers[w].ended \/ workers'[w].ended = {}
            /\ workers'[w].stage # "swept"
        BY <1>5, <3>4, Records DEF WorkerStep
      <4> QED BY <3>1, <4>1, <4>2 DEF SweptOf, At
    <3> QED BY <3>2, <3>3, <3>4
  <2> QED BY <1>1, <1>5, <2>1, OneWorker
<1> QED BY <1>2, <1>3, <1>4, <1>5 DEF Next, CloseUnit, SessionStart

\* The feed's lines are of distinct units, and only grow.
LEMMA FeedGrows ==
  ASSUME ClaimsInv, FeedOK, OutcomesOK, [Next]_vars
  PROVE  /\ FeedUnits \subseteq FeedUnits'
         /\ \A i, j \in DOMAIN feed' : feed'[i].unit = feed'[j].unit => i = j
         /\ Proposed \subseteq Proposed'
<1>1. ASSUME UNCHANGED feed
      PROVE  /\ FeedUnits \subseteq FeedUnits'
             /\ \A i, j \in DOMAIN feed' : feed'[i].unit = feed'[j].unit => i = j
             /\ Proposed \subseteq Proposed'
  BY <1>1 DEF FeedUnits, Proposed, OutcomesOK
<1>2. ASSUME NEW w \in Workers, Announce(w), ~UNCHANGED feed
      PROVE  /\ FeedUnits \subseteq FeedUnits'
             /\ \A i, j \in DOMAIN feed' : feed'[i].unit = feed'[j].unit => i = j
             /\ Proposed \subseteq Proposed'
  <2> DEFINE line == [unit |-> workers[w].path.unit, proposal |-> workers[w].proposed]
  <2>1. line.unit \notin FeedUnits
    BY <1>2 DEF Announce, FeedOK, Holds, Holding, At
  <2> HIDE DEF line
  <2>2. feed' = Append(feed, line)
    BY <1>2 DEF Announce, line
  <2>3. /\ Len(feed) \in Nat
        /\ DOMAIN feed = 1..Len(feed) /\ DOMAIN feed' = 1..(Len(feed) + 1)
        /\ \A i \in 1..Len(feed) : feed'[i] = feed[i]
        /\ feed'[Len(feed) + 1] = line
    BY <2>2, AppendList DEF FeedOK
  <2>4. \A i \in DOMAIN feed : i \in DOMAIN feed' /\ feed'[i] = feed[i] /\ feed[i].unit # line.unit
    BY <2>1, <2>3 DEF FeedUnits
  <2>5. \A i \in DOMAIN feed' : i \in DOMAIN feed \/ i = Len(feed) + 1
    BY <2>3
  <2>6. \A i, j \in DOMAIN feed' : feed'[i].unit = feed'[j].unit => i = j
    BY <2>3, <2>4, <2>5 DEF OutcomesOK
  <2> QED BY <2>4, <2>6 DEF FeedUnits, Proposed
<1>3. CASE UserMessage \/ Tick \/ ModStep \/ ModReload \/ UNCHANGED vars
  BY <1>1, <1>3 DEF UserMessage, Tick, ModStep, ModShow, ModTake, ModFails, ModDeliver, ModReload,
                    vars, fileVars, recordVars
<1>4. ASSUME NEW w \in Workers, CloseUnit(w) \/ SessionStart(w) \/ Dies(w) \/ WorkerStep(w), ~Announce(w)
      PROVE  UNCHANGED feed
  BY <1>4 DEF CloseUnit, SessionStart, Dies, WorkerStep, DropAbandonedClaims, SweepRead, SweepApply,
              RecordClosures, List, Claim, EndPass, Begin, Review, Decide, Settle, Exit, fileVars,
              recordVars
<1> QED BY <1>1, <1>2, <1>3, <1>4 DEF Next, WorkerStep

\* An outcome is of the proposal the mod was working on.
LEMMA OutcomesStep ==
  ASSUME [Next]_vars
  PROVE  \A o \in outcomes' : \/ o \in outcomes
                              \/ /\ modTask # None /\ o.unit = modTask.unit /\ o.at = now
                                 /\ now' = now /\ UNCHANGED workers
<1>1. CASE UNCHANGED outcomes
  BY <1>1
<1>2. CASE ModFails \/ ModDeliver
  <2>1. UNCHANGED <<now, workers>> /\ modTask # None
    BY <1>2 DEF ModFails, ModDeliver
  <2>2. UNCHANGED outcomes \/ \E code : Outcome(code)
    BY <1>2 DEF ModFails, ModDeliver
  <2>3. ASSUME NEW code, Outcome(code)
        PROVE  \A o \in outcomes' : o \in outcomes \/ (o.unit = modTask.unit /\ o.at = now)
    BY <2>3 DEF Outcome
  <2> QED BY <2>1, <2>2, <2>3
<1>3. CASE UserMessage \/ Tick \/ ModShow \/ ModTake \/ ModReload \/ UNCHANGED vars
  BY <1>1, <1>3 DEF UserMessage, Tick, ModShow, ModTake, ModReload, vars, fileVars, proposalVars
<1>4. ASSUME NEW w \in Workers, CloseUnit(w) \/ SessionStart(w) \/ Dies(w) \/ WorkerStep(w)
      PROVE  outcomes' \subseteq outcomes
  BY <1>4 DEF CloseUnit, SessionStart, Dies, WorkerStep, DropAbandonedClaims, SweepRead, SweepApply,
              RecordClosures, List, Claim, EndPass, Begin, Review, Decide, Settle, Announce, Exit,
              fileVars, proposalVars
<1> QED BY <1>1, <1>2, <1>3, <1>4 DEF Next, ModStep

LEMMA NextOutcomes ==
  ASSUME ClaimsInv, RequestsOK, FeedOK, OutcomesOK, [Next]_vars
  PROVE  OutcomesOK'
<1>1. now \in Nat /\ now' \in Nat /\ now <= now'
  BY Grows
<1>2. \A o \in outcomes' : o.unit \in FeedUnits' /\ o.at \in 0..now'
  BY <1>1, OutcomesStep, FeedGrows DEF OutcomesOK
<1>3. modTask' # None => modTask'.unit \in FeedUnits'
  <2>1. CASE modTask' = modTask \/ modTask' = None
    BY <2>1, FeedGrows DEF OutcomesOK
  <2>2. CASE ModTake /\ modTask' # modTask
    <3>1. modTask'.unit = Head(modQueue) /\ modQueue # <<>>
      BY <2>2 DEF ModTake
    <3>2. Head(modQueue) \in FeedUnits
      BY <3>1, TailList, ElementsAreMembers DEF FeedOK
    <3> QED BY <3>1, <3>2, FeedGrows
  <2>3. CASE UserMessage \/ Tick \/ ModShow \/ ModFails \/ ModDeliver \/ ModReload \/ UNCHANGED vars
    BY <2>1, <2>3 DEF UserMessage, Tick, ModShow, ModFails, ModDeliver, ModReload, vars, modVars
  <2>4. ASSUME NEW w \in Workers, CloseUnit(w) \/ SessionStart(w) \/ Dies(w) \/ WorkerStep(w)
        PROVE  modTask' = modTask
    BY <2>4, WorkerRequests DEF CloseUnit, SessionStart, Dies, modVars
  <2> QED BY <2>1, <2>2, <2>3, <2>4 DEF Next, ModStep
<1>4. ASSUME NEW v \in Workers, At(v, "swept")'
      PROVE  \A o \in workers'[v].read : o.unit \in FeedUnits'
  <2>1. CASE workers'[v] = workers[v]
    BY <1>4, <2>1, FeedGrows DEF OutcomesOK, At
  <2>2. CASE SweepRead(v)
    BY <2>2, Records, FeedGrows DEF OutcomesOK
  <2>3. CASE WorkerStep(v) /\ ~SweepRead(v)
    <3>1. CASE SweepApply(v) \/ RecordClosures(v) \/ Begin(v) \/ Review(v) \/ Decide(v) \/ Settle(v)
      BY <1>4, <3>1, Records DEF At
    <3>2. CASE DropAbandonedClaims(v) \/ List(v) \/ EndPass(v) \/ Claim(v) \/ Announce(v) \/ Exit(v)
      BY <1>4, <3>2, Records DEF At
    <3> QED BY <2>3, <3>1, <3>2 DEF WorkerStep
  <2>4. CASE Spawned(v) \/ Dies(v)
    BY <1>4, <2>4, Records DEF At
  <2>5. CASE UserMessage \/ Tick \/ ModStep \/ ModReload \/ UNCHANGED vars
    BY <2>1, <2>5 DEF UserMessage, Tick, ModStep, ModShow, ModTake, ModFails, ModDeliver, ModReload, vars
  <2>6. ASSUME NEW w \in Workers, CloseUnit(w) \/ SessionStart(w) \/ Dies(w) \/ WorkerStep(w)
        PROVE  workers'[v] = workers[v] \/ WorkerStep(v) \/ Spawned(v) \/ Dies(v)
    BY <2>6, OneWorker DEF CloseUnit, SessionStart
  <2> QED BY <2>1, <2>2, <2>3, <2>4, <2>5, <2>6 DEF Next
<1> QED BY <1>2, <1>3, <1>4, FeedGrows DEF OutcomesOK

SettledUnit(u) ==
  /\ u \in Elements(history)
  /\ \A w \in Workers : Holds(w) /\ workers[w].path.unit = u => At(w, "settled")

\* A unit that was settled is not settled again.
LEMMA StaysSettled ==
  ASSUME ClaimsInv, [Next]_vars, NEW u, SettledUnit(u)
  PROVE  SettledUnit(u)'
<1>1. u \in Elements(history')
  <2>1. CASE UNCHANGED history
    BY <2>1 DEF SettledUnit, Elements
  <2>2. ASSUME NEW w \in Workers, Review(w)
        PROVE  u \in Elements(history')
    BY <2>2, AppendList DEF Review, ClaimsInv, FilesOK, Elements, Members, SettledUnit
  <2>3. CASE UserMessage \/ Tick \/ ModStep \/ ModReload \/ UNCHANGED vars
    BY <2>1, <2>3 DEF UserMessage, Tick, ModStep, ModShow, ModTake, ModFails, ModDeliver, ModReload,
                      vars, fileVars, recordVars
  <2>4. ASSUME NEW w \in Workers, CloseUnit(w) \/ SessionStart(w) \/ Dies(w) \/ WorkerStep(w), ~Review(w)
        PROVE  UNCHANGED history
    BY <2>4 DEF CloseUnit, SessionStart, Dies, WorkerStep, DropAbandonedClaims, SweepRead, SweepApply,
                RecordClosures, List, Claim, EndPass, Begin, Decide, Settle, Announce, Exit, fileVars,
                recordVars
  <2> QED BY <2>1, <2>2, <2>3, <2>4 DEF Next, WorkerStep
<1>2. ASSUME NEW v \in Workers, Holds(v)', workers'[v].path.unit = u
      PROVE  At(v, "settled")'
  <2>1. CASE workers'[v] = workers[v]
    BY <1>2, <2>1 DEF SettledUnit, Holds, At
  <2>2. CASE WorkerStep(v)
    <3>1. u \notin pending
      BY DEF SettledUnit, ClaimsInv, HandoffsOK, Past
    <3>2. Holds(v) /\ workers[v].path.unit = u
      BY <1>2, <2>2, <3>1, WorkerHolds
    <3>3. At(v, "settled")
      BY <3>2 DEF SettledUnit
    <3>4. Announce(v)
      BY <2>2, <3>3 DEF WorkerStep, DropAbandonedClaims, SweepRead, SweepApply, RecordClosures, List,
                        Claim, EndPass, Begin, Review, Decide, Settle, Exit, At
    <3> QED BY <1>2, <3>4, Records DEF Holds, Holding
  <2>3. CASE Spawned(v) \/ Dies(v)
    BY <1>2, <2>3, Records DEF Holds, Holding
  <2>4. CASE UserMessage \/ Tick \/ ModStep \/ ModReload \/ UNCHANGED vars
    BY <2>1, <2>4 DEF UserMessage, Tick, ModStep, ModShow, ModTake, ModFails, ModDeliver, ModReload, vars
  <2>5. ASSUME NEW w \in Workers, CloseUnit(w) \/ SessionStart(w) \/ Dies(w) \/ WorkerStep(w)
        PROVE  workers'[v] = workers[v] \/ WorkerStep(v) \/ Spawned(v) \/ Dies(v)
    BY <2>5, OneWorker DEF CloseUnit, SessionStart
  <2> QED BY <2>1, <2>2, <2>3, <2>4, <2>5 DEF Next
<1> QED BY <1>1, <1>2 DEF SettledUnit

\* Where the requests of the next state come from.
LEMMA RequestsStep ==
  ASSUME ClaimsInv, [Next]_vars
  PROVE  \A r \in requests' :
           \/ r \in requests
           \/ /\ ModTake /\ \E q \in requests : r = [q EXCEPT !.blank = TRUE]
           \/ \E w \in Workers : Settle(w) /\ r = Request(w)
<1>1. CASE requests' \subseteq requests
  BY <1>1
<1>2. ASSUME NEW w \in Workers, WorkerStep(w)
      PROVE  requests' \subseteq requests \/ (Settle(w) /\ requests' \subseteq requests \union {Request(w)})
  <2>1. CASE Settle(w)
    BY <1>2, <2>1, WorkerRequests
  <2>2. CASE ~Settle(w)
    BY <1>2, <2>2 DEF WorkerStep, DropAbandonedClaims, SweepRead, SweepApply, RecordClosures, List,
                Claim, EndPass, Begin, Review, Decide, Announce, Exit, fileVars, proposalVars
  <2> QED BY <2>1, <2>2
<1>3. CASE ModTake
  BY <1>3 DEF ModTake
<1>4. CASE UserMessage \/ Tick \/ ModShow \/ ModFails \/ ModDeliver \/ ModReload \/ UNCHANGED vars
  BY <1>1, <1>4 DEF UserMessage, Tick, ModShow, ModFails, ModDeliver, ModReload, vars, fileVars, proposalVars
<1>5. ASSUME NEW w \in Workers, CloseUnit(w) \/ SessionStart(w) \/ Dies(w)
      PROVE  UNCHANGED requests
  BY <1>5 DEF CloseUnit, SessionStart, Dies, fileVars, proposalVars
<1> QED BY <1>1, <1>2, <1>3, <1>4, <1>5 DEF Next, ModStep

LEMMA NextEarly ==
  ASSUME ClaimsInv, RequestsOK, EarlyOK, [Next]_vars
  PROVE  EarlyOK'
<1>1. \A r \in requests : SettledUnit(r.unit)
  BY DEF EarlyOK, SettledUnit
<1>2. ASSUME NEW r \in requests'
      PROVE  \E u : u = r.unit /\ SettledUnit(u)'
  <2>1. CASE \E q \in requests : r.unit = q.unit
    <3>1. PICK q \in requests : r.unit = q.unit
      BY <2>1
    <3>2. PICK u : u = q.unit
      OBVIOUS
    <3> QED BY <1>1, <3>1, <3>2, StaysSettled
  <2>2. CASE ModTake /\ \E q \in requests : r = [q EXCEPT !.blank = TRUE]
    BY <2>1, <2>2 DEF RequestsOK, RequestOK
  <2>3. ASSUME NEW w \in Workers, Settle(w), r = Request(w)
        PROVE  \E u : u = r.unit /\ SettledUnit(u)'
    <3>1. PICK u : u = workers[w].path.unit
      OBVIOUS
    <3>2. r.unit = u
      BY <2>3, <3>1 DEF Request
    <3>3. Holds(w) /\ Reviewed(w) /\ UNCHANGED history
      BY <2>3 DEF Settle, At, Holds, Holding, Reviewed, recordVars
    <3>4. u \in Elements(history')
      BY <3>1, <3>3 DEF ClaimsInv, HeldOK, Elements
    <3>5. \A v \in Workers \ {w} : Holds(v) => workers[v].path.unit # u
      BY <3>1, <3>3 DEF ClaimsInv, HeldOK, HandoffsOK
    <3>6. \A v \in Workers \ {w} : workers'[v] = workers[v]
      BY <2>3, OneWorker DEF WorkerStep
    <3>7. workers'[w].stage = "settled"
      BY <2>3, Records
    <3> QED BY <3>2, <3>4, <3>5, <3>6, <3>7 DEF SettledUnit, Holds, At
  <2> QED BY <2>1, <2>2, <2>3, RequestsStep
<1> QED BY <1>2 DEF EarlyOK, SettledUnit

-----------------------------------------------------------------------------
(* The messages that were sent: their chains are saved or told.             *)

LEMMA RecordsGrow ==
  ASSUME ClaimsInv, [Next]_vars
  PROVE  chainLog \subseteq chainLog' /\ mishaps \subseteq mishaps'
<1>1. CASE UNCHANGED <<chainLog, mishaps>>
  BY <1>1
<1>2. CASE ModFails \/ ModDeliver
  <2>1. UNCHANGED chainLog /\ (UNCHANGED mishaps \/ \E code : Outcome(code))
    BY <1>2 DEF ModFails, ModDeliver
  <2>2. \A code : Outcome(code) => mishaps \subseteq mishaps'
    BY DEF Outcome
  <2> QED BY <2>1, <2>2
<1>3. CASE UserMessage \/ Tick \/ ModShow \/ ModTake \/ ModReload \/ UNCHANGED vars
  BY <1>1, <1>3 DEF UserMessage, Tick, ModShow, ModTake, ModReload, vars, fileVars, proposalVars, ghostVars
<1>4. ASSUME NEW w \in Workers, CloseUnit(w) \/ SessionStart(w) \/ Dies(w)
      PROVE  chainLog \subseteq chainLog' /\ mishaps \subseteq mishaps'
  BY <1>4 DEF CloseUnit, SessionStart, Dies, fileVars, proposalVars, ghostVars
<1>5. ASSUME NEW w \in Workers, WorkerStep(w)
      PROVE  chainLog \subseteq chainLog' /\ mishaps \subseteq mishaps'
  <2>1. CASE Settle(w)
    BY <2>1 DEF Settle, Ends, ghostVars
  <2>2. CASE ~Settle(w)
    BY <1>5, <2>2 DEF WorkerStep, DropAbandonedClaims, SweepRead, SweepApply, RecordClosures, List,
                Claim, EndPass, Begin, Review, Decide, Announce, Exit, fileVars, proposalVars, ghostVars
  <2> QED BY <2>1, <2>2
<1> QED BY <1>1, <1>2, <1>3, <1>4, <1>5 DEF Next, ModStep

\* A sweep that takes a chain's file away ends the chain: it has read every chain
\* whose file may have aged out.
LEMMA SweptIsEnded ==
  ASSUME ClaimsInv, ChainsOK, SweptOK, NEW w \in Workers, SweepApply(w),
         NEW e \in Elements(chains), e \notin Elements(chains')
  PROVE  \E c \in Closures(w) : c.state.chainId = e.state.chainId
<1> DEFINE wanted == {x \in Elements(chains) :
                        (\A c \in Closures(w) : c.state.chainId # x.state.chainId) /\ ~Expired(x)}
<1>1. chains' = Kept(chains, wanted)
  BY DEF SweepApply
<1>2. Elements(chains') = Elements(chains) \cap wanted
  BY <1>1, KeptMembers, ElementsAreMembers DEF ChainsOK
<1>3. (\E c \in Closures(w) : c.state.chainId = e.state.chainId) \/ Expired(e)
  BY <1>2
<1>4. ASSUME Expired(e)
      PROVE  \E c \in Closures(w) : c.state.chainId = e.state.chainId
  <2>1. /\ now \in Nat /\ workers[w].since \in 0..now /\ now - workers[w].since <= WorkerCeiling
        /\ At(w, "swept") /\ e.at \in 0..now
    BY DEF ClaimsInv, FilesOK, WorkersOK, Running, SweepApply, At, ChainsOK
  <2>2. ~(e.at >= workers[w].since)
    BY <1>4, <2>1, WorkerAssumption DEF Expired
  <2>3. PICK s \in workers[w].saw : s.chainId = e.state.chainId
    BY <2>1, <2>2 DEF SweptOK, SweptOf
  <2> DEFINE told == {[state |-> x, code |-> o.code] : x \in workers[w].saw, o \in workers[w].read}
             ended == {c \in told : \E o \in workers[w].read :
                                      o.unit = LastTurn(c.state) /\ o.code = c.code}
             aged == [state |-> s, code |-> "EXPIRED"]
             old == {x \in workers[w].saw :
                       /\ \A c \in ended : c.state # x
                       /\ \E f \in Elements(chains) : f.state.chainId = x.chainId /\ Expired(f)}
  <2>4. Closures(w) = ended \union {[state |-> x, code |-> "EXPIRED"] : x \in old}
    BY DEF Closures
  <2> HIDE DEF ended
  <2>5. (\A c \in ended : c.state # s) => s \in old
    BY <1>4, <2>3
  <2>6. aged.state = s
    OBVIOUS
  <2> HIDE DEF told, old
  <2> QED BY <2>3, <2>4, <2>5, <2>6
<1> QED BY <1>3, <1>4

LEMMA StaysTold ==
  ASSUME ClaimsInv, ChainsOK, StepsOK, SweptOK, DOMAIN None = {}, [Next]_vars,
         NEW id, Told(id), mishaps' \intersect {"crash", "feed"} = {}
  PROVE  Told(id)'
<1>1. CASE \E r \in chainLog : r.chainId = id
  BY <1>1, RecordsGrow DEF Told
<1>2. ASSUME NEW w \in Workers, NEW c \in workers[w].ended, c.state.chainId = id
      PROVE  Told(id)'
  <2>1. At(w, "closing")
    BY <1>2 DEF SweptOK, SweptOf
  <2>2. CASE workers'[w] = workers[w]
    BY <1>2, <2>2 DEF Told
  <2>3. CASE WorkerStep(w)
    <3>1. RecordClosures(w)
      BY <2>1, <2>3 DEF WorkerStep, DropAbandonedClaims, SweepRead, SweepApply, List, Claim, EndPass,
                        Begin, Review, Decide, Settle, Announce, Exit, At
    <3>2. ClosureRecord(c.state, c.code) \in chainLog'
      BY <1>2, <3>1 DEF RecordClosures
    <3>3. ClosureRecord(c.state, c.code).chainId = id
      BY <1>2 DEF ClosureRecord, EndRecord
    <3> QED BY <3>2, <3>3 DEF Told
  <2>4. ~Dies(w)
    BY DEF Dies
  <2>5. CASE UserMessage \/ Tick \/ ModStep \/ ModReload \/ UNCHANGED vars
    BY <2>2, <2>5 DEF UserMessage, Tick, ModStep, ModShow, ModTake, ModFails, ModDeliver, ModReload, vars
  <2>6. ASSUME NEW v \in Workers, CloseUnit(v) \/ SessionStart(v) \/ Dies(v) \/ WorkerStep(v)
        PROVE  workers'[w] = workers[w] \/ WorkerStep(w)
    <3>1. CASE v = w
      BY <2>1, <2>4, <2>6, <3>1 DEF CloseUnit, SessionStart, At
    <3>2. CASE v # w
      BY <2>6, <3>2, OneWorker DEF CloseUnit, SessionStart
    <3> QED BY <3>1, <3>2
  <2> QED BY <2>2, <2>3, <2>5, <2>6 DEF Next
<1>3. ASSUME NEW e \in Elements(chains), e.state.chainId = id
      PROVE  Told(id)'
  <2>1. CASE e \in Elements(chains')
    BY <1>3, <2>1 DEF Told
  <2>2. ASSUME NEW w \in Workers, SweepApply(w), e \notin Elements(chains')
        PROVE  Told(id)'
    <3>1. \E c \in workers'[w].ended : c.state.chainId = id
      BY <1>3, <2>2, SweptIsEnded, Records
    <3> QED BY <3>1 DEF Told
  <2>3. ASSUME NEW w \in Workers, Settle(w)
        PROVE  Told(id)'
    <3>1. PICK step : step = workers[w].step
      OBVIOUS
    <3>2. CASE \E other : EndsChain(other)
      BY <1>3, <3>2 DEF EndsChain, Told
    <3>3. CASE UNCHANGED chains
      BY <1>3, <3>3 DEF Told
    <3>4. CASE Saves(w)
      <4>1. PICK new : Elements(chains') =
                         {x \in Elements(chains) : x.state.chainId # new.state.chainId} \union {new}
        BY <2>3, <3>4, SavedChain
      <4> QED BY <1>3, <4>1 DEF Told
    <3> QED BY <2>3, <3>1, <3>2, <3>3, <3>4, SettleCases
  <2>4. ASSUME NEW w \in Workers, Announce(w)
        PROVE  UNCHANGED chains
    <3>1. "feed" \notin mishaps'
      OBVIOUS
    <3> QED BY <2>4, <3>1 DEF Announce
  <2>5. CASE UserMessage \/ Tick \/ ModStep \/ ModReload \/ UNCHANGED vars
    BY <2>1, <2>5 DEF UserMessage, Tick, ModStep, ModShow, ModTake, ModFails, ModDeliver, ModReload,
                      vars, fileVars, proposalVars
  <2>6. ASSUME NEW w \in Workers, CloseUnit(w) \/ SessionStart(w) \/ Dies(w) \/ WorkerStep(w),
               ~SweepApply(w), ~Settle(w)
        PROVE  UNCHANGED chains
    BY <2>4, <2>6 DEF CloseUnit, SessionStart, Dies, WorkerStep, DropAbandonedClaims, SweepRead,
                RecordClosures, List, Claim, EndPass, Begin, Review, Decide, Exit, fileVars, proposalVars
  <2> QED BY <2>1, <2>2, <2>3, <2>5, <2>6 DEF Next, WorkerStep
<1> QED BY <1>1, <1>2, <1>3 DEF Told

LEMMA NextTold ==
  ASSUME ClaimsInv, RequestsOK, SentOK, ChainsOK, StepsOK, SweptOK, MessagesTold, DOMAIN None = {},
         [Next]_vars
  PROVE  MessagesTold'
<1> SUFFICES ASSUME mishaps' \intersect {"crash", "feed"} = {}
             PROVE  /\ (\A r \in requests : MessageTold(r.message))'
                    /\ (modTask # None => MessageTold(modTask.message))'
                    /\ (\A i \in DOMAIN sent : MessageTold(sent[i].message))'
  BY DEF MessagesTold
<1>1. /\ \A r \in requests : MessageTold(r.message)
      /\ modTask # None => MessageTold(modTask.message)
      /\ \A i \in DOMAIN sent : MessageTold(sent[i].message)
  BY RecordsGrow DEF MessagesTold
<1>2. ASSUME NEW m, MessageTold(m)
      PROVE  MessageTold(m)'
  BY <1>2, StaysTold DEF MessageTold
<1>3. ASSUME NEW r \in requests'
      PROVE  \E m : m = r.message /\ MessageTold(m)'
  <2>1. CASE \E q \in requests : r.message = q.message
    BY <1>1, <1>2, <2>1
  <2>2. CASE ModTake /\ \E q \in requests : r = [q EXCEPT !.blank = TRUE]
    BY <2>1, <2>2 DEF RequestsOK, RequestOK
  <2>3. ASSUME NEW w \in Workers, Settle(w), r = Request(w), r \notin requests
        PROVE  \E m : m = r.message /\ MessageTold(m)'
    <3>1. PICK step : step = workers[w].step
      OBVIOUS
    <3>2. CASE Saves(w)
      <4>1. PICK new : /\ new.state.chainId = step.chainId
                       /\ Elements(chains') =
                            {x \in Elements(chains) : x.state.chainId # new.state.chainId} \union {new}
        BY <2>3, <3>1, <3>2, SavedChain
      <4>2. r.message = Mark(step.chainId, step.attempt, step.maxAttempts)
        BY <2>3, <3>1, <3>2 DEF Request, Saves
      <4>3. r.message.chainId = step.chainId
        BY <4>2 DEF Mark
      <4>4. PICK m : m = r.message
        OBVIOUS
      <4>5. \E e \in Elements(chains') : e.state.chainId = m.chainId
        BY <4>1, <4>3, <4>4
      <4> QED BY <4>4, <4>5 DEF MessageTold, Told
    <3>3. CASE step.kind = "NONE"
      <4>1. r.message = Legacy
        BY <2>3, <3>1, <3>3 DEF Request
      <4> QED BY <4>1 DEF MessageTold
    <3>4. ~UNCHANGED requests
      BY <2>3
    <3> QED BY <2>3, <3>1, <3>2, <3>3, <3>4, SettleCases DEF EndsChain
  <2> QED BY <2>1, <2>2, <2>3, RequestsStep
<1>4. modTask' = modTask \/ modTask' = None \/ \E r \in requests : modTask' = r
  <2>1. CASE UserMessage \/ Tick \/ ModShow \/ ModTake \/ ModFails \/ ModDeliver \/ ModReload \/ UNCHANGED vars
    BY <2>1 DEF UserMessage, Tick, ModShow, ModTake, ModFails, ModDeliver, ModReload, vars, modVars
  <2>2. ASSUME NEW w \in Workers, CloseUnit(w) \/ SessionStart(w) \/ Dies(w) \/ WorkerStep(w)
        PROVE  modTask' = modTask
    BY <2>2, WorkerRequests DEF CloseUnit, SessionStart, Dies, modVars
  <2> QED BY <2>1, <2>2 DEF Next, ModStep
<1>5. ASSUME modTask' # None
      PROVE  \E m : m = modTask'.message /\ MessageTold(m)'
  BY <1>1, <1>2, <1>4, <1>5
<1>6. UNCHANGED sent \/ (modTask # None /\ sent' = Append(sent, [unit |-> modTask.unit, message |-> modTask.message]))
  <2>1. CASE UserMessage \/ Tick \/ ModShow \/ ModTake \/ ModFails \/ ModDeliver \/ ModReload \/ UNCHANGED vars
    BY <2>1 DEF UserMessage, Tick, ModShow, ModTake, ModFails, ModDeliver, ModReload, vars, modVars
  <2>2. ASSUME NEW w \in Workers, CloseUnit(w) \/ SessionStart(w) \/ Dies(w) \/ WorkerStep(w)
        PROVE  UNCHANGED sent
    BY <2>2, WorkerRequests DEF CloseUnit, SessionStart, Dies, modVars
  <2> QED BY <2>1, <2>2 DEF Next, ModStep
<1>7. ASSUME NEW i \in DOMAIN sent'
      PROVE  \E m : m = sent'[i].message /\ MessageTold(m)'
  <2>1. CASE UNCHANGED sent
    BY <1>1, <1>2, <1>7, <2>1
  <2>2. CASE modTask # None /\ sent' = Append(sent, [unit |-> modTask.unit, message |-> modTask.message])
    <3> DEFINE new == [unit |-> modTask.unit, message |-> modTask.message]
    <3>1. new.message = modTask.message
      OBVIOUS
    <3> HIDE DEF new
    <3>2. sent' = Append(sent, new)
      BY <2>2 DEF new
    <3>3. /\ Len(sent) \in Nat /\ DOMAIN sent = 1..Len(sent) /\ DOMAIN sent' = 1..(Len(sent) + 1)
          /\ \A j \in 1..Len(sent) : sent'[j] = sent[j]
          /\ sent'[Len(sent) + 1] = new
      BY <3>2, AppendList DEF SentOK
    <3>4. CASE i \in DOMAIN sent
      BY <1>1, <1>2, <3>3, <3>4
    <3>5. CASE i = Len(sent) + 1
      BY <1>1, <1>2, <2>2, <3>1, <3>3, <3>5
    <3> QED BY <1>7, <3>3, <3>4, <3>5
  <2> QED BY <1>6, <2>1, <2>2
<1>8. (\A r \in requests : MessageTold(r.message))'
  BY <1>3
<1>9. (modTask # None => MessageTold(modTask.message))'
  BY <1>5
<1>10. (\A i \in DOMAIN sent : MessageTold(sent[i].message))'
  BY <1>7
<1> QED BY <1>8, <1>9, <1>10

-----------------------------------------------------------------------------
(* A saved chain has something that goes on with it.                        *)

LEMMA StaysMisplaced ==
  ASSUME ClaimsInv, [Next]_vars, NEW state, Misplaced(state)
  PROVE  Misplaced(state)'
BY RecordsGrow, Grows DEF Misplaced

\* The request of a saved chain stays until the mod takes it or its worker
\* could not announce it.
LEMMA StaysRequested ==
  ASSUME ClaimsInv, RequestsOK, ChainsOK, EarlyOK, [Next]_vars,
         NEW e \in Elements(chains), ~Expired(e), HasRequest(e),
         NEW u, u = LastTurn(e.state),
         ~(ModTake /\ Head(modQueue) = u),
         \A w \in Workers : ~(Announce(w) /\ workers[w].path.unit = u /\ ~UNCHANGED requests)
  PROVE  HasRequest(e)'
<1>1. PICK r \in requests : r.unit = u /\ ~r.blank /\ r.at = e.at
  BY DEF HasRequest
<1>2. ~Expired(r)
  BY <1>1 DEF Expired
<1>3. r \in requests'
  <2>1. ASSUME NEW w \in Workers, WorkerStep(w)
        PROVE  r \in requests'
    <3>1. CASE SweepApply(w)
      BY <1>1, <1>2, <3>1 DEF SweepApply
    <3>2. CASE Settle(w)
      BY <3>2 DEF Settle
    <3>3. CASE Announce(w)
      BY <1>1, <3>3 DEF Announce
    <3>4. CASE ~SweepApply(w) /\ ~Settle(w) /\ ~Announce(w)
      BY <2>1, <3>4 DEF WorkerStep, DropAbandonedClaims, SweepRead, RecordClosures, List, Claim,
                  EndPass, Begin, Review, Decide, Exit, fileVars, proposalVars
    <3> QED BY <3>1, <3>2, <3>3, <3>4
  <2>2. CASE ModTake
    BY <1>1, <2>2 DEF ModTake
  <2>3. CASE UserMessage \/ Tick \/ ModShow \/ ModFails \/ ModDeliver \/ ModReload \/ UNCHANGED vars
    BY <2>3 DEF UserMessage, Tick, ModShow, ModFails, ModDeliver, ModReload, vars, fileVars, proposalVars
  <2>4. ASSUME NEW w \in Workers, CloseUnit(w) \/ SessionStart(w) \/ Dies(w)
        PROVE  UNCHANGED requests
    BY <2>4 DEF CloseUnit, SessionStart, Dies, fileVars, proposalVars
  <2> QED BY <2>1, <2>2, <2>3, <2>4 DEF Next, ModStep
<1>4. ASSUME NEW q \in requests', q.unit = u, ~q.blank
      PROVE  Asks(q, e)
  <2>1. CASE q \in requests
    BY <1>4, <2>1 DEF HasRequest
  <2>2. ASSUME NEW p \in requests, q = [p EXCEPT !.blank = TRUE]
        PROVE  FALSE
    BY <1>4, <2>2 DEF RequestsOK, RequestOK
  <2>3. ASSUME NEW w \in Workers, Settle(w), q = Request(w)
        PROVE  FALSE
    <3>1. At(w, "decided") /\ Holds(w) /\ workers[w].path.unit = u
      BY <1>4, <2>3 DEF Settle, At, Holds, Holding, Request
    <3> QED BY <1>1, <3>1 DEF EarlyOK, At
  <2> QED BY <2>1, <2>2, <2>3, RequestsStep
<1>5. Asks(r, e) /\ u = LastTurn(e.state)
  BY <1>1 DEF HasRequest
<1> QED BY <1>1, <1>3, <1>4, <1>5 DEF HasRequest, Asks, MarkOf

\* The chain a worker saves is announced by that worker.
LEMMA SavedMoves ==
  ASSUME ClaimsInv, RequestsOK, StepsOK, EarlyOK, NEW w \in Workers, Settle(w), Saves(w),
         NEW new, new = ChainFile(workers[w].step.state)
  PROVE  Announcing(new)'
<1> DEFINE u == workers[w].path.unit
           step == workers[w].step
           r == Request(w)
<1>1. /\ new.at = now /\ LastTurn(new.state) = u /\ new.state.chainId = step.chainId
      /\ MarkOf(new) = Mark(step.chainId, step.attempt, step.maxAttempts)
  BY SavedChain
<1>2. step.kind = "DELIVER" /\ requests' = requests \union {r} /\ workers'[w].proposed
  BY DEF Saves
<1>3. /\ r.unit = u /\ r.at = now /\ ~r.blank /\ r.delivery = "agent"
      /\ r.message = Mark(step.chainId, step.attempt, step.maxAttempts)
  BY <1>2 DEF Request
<1>4. At(w, "decided") /\ Holds(w)
  BY DEF Settle, At, Holds, Holding
<1>5. \A q \in requests : q.unit # u
  BY <1>4 DEF EarlyOK, At
<1>6. /\ workers'[w].stage = "settled" /\ workers'[w].path.unit = u
      /\ workers'[w].step = step
  BY Records
<1> HIDE DEF u, step, r
<1>7. HasRequest(new)'
  BY <1>1, <1>2, <1>3, <1>5 DEF HasRequest, Asks, MarkOf
<1> QED BY <1>1, <1>2, <1>6, <1>7 DEF Announcing, At

\* A prompt waits until its turn is closed as a unit.
LEMMA InboxStep ==
  ASSUME IsList(inbox), ClaimsInv, [Next]_vars
  PROVE  /\ IsList(inbox')
         /\ \A m \in Elements(inbox) :
              m \in Elements(inbox') \/ \E v \in pending' : units'[v].task = m
<1>1. ASSUME UNCHANGED inbox
      PROVE  IsList(inbox') /\ Elements(inbox') = Elements(inbox)
  BY <1>1 DEF Elements
<1>2. ASSUME NEW m, inbox' = Append(inbox, m)
      PROVE  IsList(inbox') /\ Elements(inbox) \subseteq Elements(inbox')
  BY <1>2, AppendList, ElementsAreMembers
<1>3. ASSUME NEW w \in Workers, CloseUnit(w)
      PROVE  /\ IsList(inbox')
             /\ \A m \in Elements(inbox) :
                  m \in Elements(inbox') \/ \E v \in pending' : units'[v].task = m
  <2>1. IsList(inbox') /\ Elements(inbox) = Elements(inbox') \union {Head(inbox)}
    BY <1>3, TailList, ElementsAreMembers DEF CloseUnit
  <2>2. PICK unit : units' = Append(units, unit) /\ unit.task = Head(inbox)
    BY <1>3 DEF CloseUnit
  <2>3. Len(units') \in pending'
    BY <1>3 DEF CloseUnit
  <2>4. units'[Len(units')] = unit
    BY <2>2, AppendList DEF ClaimsInv, FilesOK
  <2> QED BY <2>1, <2>2, <2>3, <2>4
<1>4. CASE UserMessage
  BY <1>2, <1>4 DEF UserMessage
<1>5. CASE ModDeliver
  BY <1>1, <1>2, <1>5 DEF ModDeliver
<1>6. CASE Tick \/ ModShow \/ ModTake \/ ModFails \/ ModReload \/ UNCHANGED vars
  BY <1>1, <1>6 DEF Tick, ModShow, ModTake, ModFails, ModReload, vars, sessionVars
<1>7. ASSUME NEW w \in Workers, SessionStart(w) \/ Dies(w) \/ WorkerStep(w)
      PROVE  UNCHANGED inbox
  BY <1>7 DEF SessionStart, Dies, WorkerStep, DropAbandonedClaims, SweepRead, SweepApply,
              RecordClosures, List, Claim, EndPass, Begin, Review, Decide, Settle, Announce, Exit,
              sessionVars
<1> QED BY <1>1, <1>3, <1>4, <1>5, <1>6, <1>7 DEF Next, ModStep

\* A request the mod works on becomes a message, or an outcome.
LEMMA WorkingStep ==
  ASSUME ClaimsInv, ChainsOK, IsList(inbox), [Next]_vars,
         NEW e \in Elements(chains), Working(e), mishaps' \intersect {"crash", "reload", "outcome"} = {}
  PROVE  Working(e)' \/ Refused(e)' \/ Answering(e)'
<1>1. /\ modTask # None /\ modTask.unit = LastTurn(e.state) /\ modTask.message = MarkOf(e)
      /\ modTask.delivery = "agent" /\ MarkOf(e) # Legacy /\ e.at <= now
  BY DEF Working, Asks, MarkOf, Mark, Legacy, ChainsOK
<1>2. ASSUME UNCHANGED modTask
      PROVE  Working(e)'
  BY <1>1, <1>2 DEF Working, Asks, MarkOf
<1>3. ASSUME NEW code, Outcome(code), UNCHANGED now
      PROVE  Refused(e)'
  <2>1. PICK o : o = [unit |-> modTask.unit, code |-> code, at |-> now]
    OBVIOUS
  <2>2. o.unit = LastTurn(e.state) /\ o.at >= e.at
    BY <1>1, <2>1, Grows DEF ChainsOK
  <2>3. o \in outcomes'
    BY <1>1, <1>3, <2>1 DEF Outcome
  <2> QED BY <2>2, <2>3 DEF Refused
<1>4. CASE ModFails
  BY <1>3, <1>4 DEF ModFails
<1>5. ASSUME ModDeliver
      PROVE  Refused(e)' \/ Answering(e)'
  <2>1. CASE \E code : Outcome(code)
    BY <1>3, <1>5, <2>1 DEF ModDeliver
  <2>2. CASE inbox' = Append(inbox, modTask.message)
    <3>1. MarkOf(e) \in Elements(inbox')
      BY <1>1, <2>2, AppendList, ElementsAreMembers
    <3> QED BY <3>1 DEF Answering, MarkOf
  <2> QED BY <1>1, <1>5, <2>1, <2>2 DEF ModDeliver
<1>6. ~ModTake /\ ~ModReload
  BY <1>1 DEF ModTake, ModReload
<1>7. CASE UserMessage \/ Tick \/ ModShow \/ UNCHANGED vars
  BY <1>2, <1>7 DEF UserMessage, Tick, ModShow, vars, modVars
<1>8. ASSUME NEW w \in Workers, CloseUnit(w) \/ SessionStart(w) \/ Dies(w) \/ WorkerStep(w)
      PROVE  UNCHANGED modTask
  BY <1>8, WorkerRequests DEF CloseUnit, SessionStart, Dies, modVars
<1> QED BY <1>2, <1>4, <1>5, <1>6, <1>7, <1>8 DEF Next, ModStep

\* An outcome stays until a sweep ends the chain it is of.
LEMMA RefusedStep ==
  ASSUME ClaimsInv, ChainsOK, SweptOK, OutcomesOK, [Next]_vars,
         NEW e \in Elements(chains), Refused(e), ~Expired(e), e \in Elements(chains')
  PROVE  Refused(e)'
<1>1. PICK o \in outcomes : o.unit = LastTurn(e.state) /\ o.at >= e.at
  BY DEF Refused
<1>2. now \in Nat /\ o.at \in Nat /\ e.at \in Nat /\ FileTTL \in Nat
  BY WorkerAssumption DEF OutcomesOK, ChainsOK, ClaimsInv, FilesOK
<1>3. ASSUME o \in outcomes'
      PROVE  Refused(e)'
  BY <1>1, <1>3 DEF Refused
<1>4. ASSUME NEW w \in Workers, SweepApply(w)
      PROVE  o \in outcomes'
  <2>1. o \notin workers[w].read
    <3> SUFFICES ASSUME o \in workers[w].read
                 PROVE  FALSE
      OBVIOUS
    <3>1. At(w, "swept")
      BY <1>4 DEF SweepApply
    <3>2. e.state \in workers[w].saw
      BY <1>1, <3>1 DEF SweptOK, SweptOf
    <3> DEFINE told == {[state |-> s, code |-> p.code] : s \in workers[w].saw, p \in workers[w].read}
               ended == {c \in told : \E p \in workers[w].read :
                                        p.unit = LastTurn(c.state) /\ p.code = c.code}
               c == [state |-> e.state, code |-> o.code]
    <3>3. c \in told /\ c.state = e.state /\ c.code = o.code
      BY <3>2
    <3>4. ended \subseteq Closures(w)
      BY DEF Closures
    <3> HIDE DEF told, c
    <3>5. c \in Closures(w)
      BY <1>1, <3>3, <3>4
    <3> HIDE DEF ended
    <3> DEFINE wanted == {x \in Elements(chains) :
                            (\A d \in Closures(w) : d.state.chainId # x.state.chainId) /\ ~Expired(x)}
    <3>6. chains' = Kept(chains, wanted)
      BY <1>4 DEF SweepApply
    <3>7. e \in wanted
      BY <3>6, KeptMembers, ElementsAreMembers DEF ChainsOK
    <3> QED BY <3>3, <3>5, <3>7
  <2>2. ~Expired(o)
    BY <1>1, <1>2 DEF Expired
  <2> QED BY <1>4, <2>1, <2>2 DEF SweepApply
<1>5. ASSUME NEW code, modTask # None, Outcome(code), UNCHANGED now
      PROVE  Refused(e)'
  <2>1. PICK p : p = [unit |-> modTask.unit, code |-> code, at |-> now]
    OBVIOUS
  <2>2. o \in outcomes' \/ (o.unit = modTask.unit /\ p \in outcomes')
    BY <1>1, <1>5, <2>1 DEF Outcome
  <2>3. p.unit = modTask.unit /\ p.at >= e.at
    BY <1>2, <2>1 DEF ChainsOK
  <2> QED BY <1>1, <1>3, <2>2, <2>3 DEF Refused
<1>6. ASSUME UNCHANGED outcomes
      PROVE  Refused(e)'
  BY <1>1, <1>3, <1>6
<1>7. CASE ModFails
  BY <1>5, <1>7 DEF ModFails
<1>8. CASE ModDeliver
  BY <1>5, <1>6, <1>8 DEF ModDeliver
<1>9. CASE UserMessage \/ Tick \/ ModShow \/ ModTake \/ ModReload \/ UNCHANGED vars
  BY <1>6, <1>9 DEF UserMessage, Tick, ModShow, ModTake, ModReload, vars, fileVars, proposalVars
<1>10. ASSUME NEW w \in Workers, CloseUnit(w) \/ SessionStart(w) \/ Dies(w) \/ WorkerStep(w),
              ~SweepApply(w)
       PROVE  UNCHANGED outcomes
  BY <1>10 DEF CloseUnit, SessionStart, Dies, WorkerStep, DropAbandonedClaims, SweepRead,
               RecordClosures, List, Claim, EndPass, Begin, Review, Decide, Settle, Announce, Exit,
               fileVars, proposalVars
<1> QED BY <1>3, <1>4, <1>6, <1>7, <1>8, <1>9, <1>10 DEF Next, ModStep

\* A handoff leaves the directory for the worker that claims it.
LEMMA PendingStep ==
  ASSUME ClaimsInv, [Next]_vars, NEW v \in pending
  PROVE  v \in pending' \/ \E w \in Workers : At(w, "claimed")' /\ workers'[w].path.unit = v
<1>1. ASSUME NEW w \in Workers, Claim(w), v \notin pending'
      PROVE  workers'[w].stage = "claimed" /\ workers'[w].path.unit = v
  <2> DEFINE rest == [workers[w] EXCEPT !.todo = @ \ {v}]
             path == [unit |-> v, at |-> now]
             taken == [rest EXCEPT !.stage = "claimed", !.any = TRUE, !.path = path]
  <2>1. v = Oldest(workers[w].todo) /\ Goes(w, taken)
    BY <1>1 DEF Claim, claimVars
  <2>2. DOMAIN workers = Workers /\ DOMAIN workers[w] = DOMAIN Idle
    BY DEF ClaimsInv, WorkersOK
  <2>3. taken.stage = "claimed" /\ taken.path = path
    BY <2>2 DEF Idle
  <2>4. path.unit = v
    OBVIOUS
  <2> HIDE DEF taken, path
  <2> QED BY <2>1, <2>2, <2>3, <2>4, GoesFacts
<1>2. CASE UserMessage \/ Tick \/ ModStep \/ ModReload \/ UNCHANGED vars
  BY <1>2 DEF UserMessage, Tick, ModStep, ModShow, ModTake, ModFails, ModDeliver, ModReload, vars,
              fileVars, claimVars
<1>3. ASSUME NEW w \in Workers, CloseUnit(w) \/ SessionStart(w) \/ Dies(w) \/ WorkerStep(w), ~Claim(w)
      PROVE  v \in pending'
  BY <1>3 DEF CloseUnit, SessionStart, Dies, WorkerStep, DropAbandonedClaims, SweepRead, SweepApply,
              RecordClosures, List, EndPass, Begin, Review, Decide, Settle, Announce, Exit,
              fileVars, claimVars
<1> QED BY <1>1, <1>2, <1>3 DEF Next, At

\* A unit that answers a saved chain is reviewed until its worker settles it.
LEMMA AnsweredStep ==
  ASSUME ClaimsInv, ChainsOK, StepsOK, DOMAIN None = {}, [Next]_vars,
         NEW e \in Elements(chains), NEW w \in Workers, AnsweredBy(w, e), ~Dies(w), ~Settle(w)
  PROVE  AnsweredBy(w, e)'
<1> DEFINE u == workers[w].path.unit
<1>1. /\ Holds(w) /\ u \in Units /\ units'[u] = units[u] /\ units[u].task = MarkOf(e)
      /\ workers[w].path \in claimed /\ Mode = "remediate" /\ chains # <<>>
      /\ e.state # None
  <2>1. Holds(w) /\ units[u].task = MarkOf(e) /\ workers[w].path \in claimed /\ u \in Units
    BY DEF AnsweredBy, ClaimsInv, HeldOK, FilesOK
  <2>2. e.state # None /\ Mode = "remediate"
    BY DEF ChainsOK, StateOK, ChainFields
  <2>3. chains # <<>>
    BY EmptyList, ElementsAreMembers
  <2> QED BY <2>1, <2>2, <2>3, Grows
<1>2. CASE workers'[w] = workers[w]
  BY <1>1, <1>2 DEF AnsweredBy, Holds, At, Settles, MarkOf
<1>3. ASSUME NEW stage, workers'[w].stage = stage, stage \in Holding, workers'[w].path = workers[w].path,
             \/ stage \in {"reviewing", "recorded"} /\ workers'[w].settings = "remediate"
             \/ stage = "decided" /\ Settles(workers'[w].step, u, e)
      PROVE  AnsweredBy(w, e)'
  BY <1>1, <1>3 DEF AnsweredBy, Holds, At, Settles, MarkOf
<1>4. CASE Begin(w)
  BY <1>1, <1>3, <1>4, Records DEF Holding
<1>5. CASE Review(w)
  <2>1. workers[w].settings = "remediate"
    BY <1>5 DEF AnsweredBy, Review, At
  <2> QED BY <1>3, <1>5, <2>1, Records DEF Holding
<1>6. CASE Decide(w)
  <2>1. workers[w].settings = "remediate"
    BY <1>6 DEF AnsweredBy, Decide, At
  <2>2. IF Unit(w).turn THEN GoesOn(StepOf(w), e.state.chainId) ELSE StepOf(w).kind = "STOP"
    BY <1>1, <2>1, DecidedStep DEF Unit
  <2>3. Settles(StepOf(w), u, e)
    BY <2>2 DEF Settles, GoesOn, Unit
  <2> QED BY <1>3, <1>6, <2>3, Records DEF Holding
<1>7. ~Announce(w)
  BY DEF Announce, AnsweredBy, At
<1>8. WorkerStep(w) => workers'[w] = workers[w] \/ Begin(w) \/ Review(w) \/ Decide(w)
  BY <1>1, <1>7 DEF WorkerStep, DropAbandonedClaims, SweepRead, SweepApply, RecordClosures, List,
                    Claim, EndPass, Exit, At, Holds, Holding
<1>9. CASE UserMessage \/ Tick \/ ModStep \/ ModReload \/ UNCHANGED vars
  BY <1>2, <1>9 DEF UserMessage, Tick, ModStep, ModShow, ModTake, ModFails, ModDeliver, ModReload, vars
<1>10. ASSUME NEW v \in Workers, CloseUnit(v) \/ SessionStart(v) \/ Dies(v) \/ WorkerStep(v)
       PROVE  workers'[w] = workers[w] \/ WorkerStep(w)
  <2>1. CASE v = w
    BY <1>1, <1>10, <2>1 DEF CloseUnit, SessionStart, At, Holds, Holding
  <2>2. CASE v # w
    BY <1>10, <2>2, OneWorker DEF CloseUnit, SessionStart
  <2> QED BY <2>1, <2>2
<1> QED BY <1>2, <1>4, <1>5, <1>6, <1>8, <1>9, <1>10 DEF Next

\* What a settled answer leaves: the chain ended, or saved anew, or another
\* chain ended in its place.
LEMMA SettledAnswer ==
  ASSUME ClaimsInv, RequestsOK, ChainsOK, StepsOK, EarlyOK, DOMAIN None = {}, [Next]_vars,
         NEW e \in Elements(chains), e \in Elements(chains'),
         NEW w \in Workers, AnsweredBy(w, e), Settle(w)
  PROVE  Announcing(e)' \/ Misplaced(e.state)'
<1>1. PICK step, u : step = workers[w].step /\ u = workers[w].path.unit
  OBVIOUS
<1>2. /\ At(w, "decided") /\ Settles(step, u, e) /\ units[u].task = MarkOf(e) /\ u \in Units
      /\ units'[u] = units[u] /\ u \in Units'
  BY <1>1, Grows DEF AnsweredBy, Settle, At, ClaimsInv, HeldOK, FilesOK
<1>3. CASE Saves(w)
  <2>1. PICK new : /\ new = ChainFile(workers[w].step.state)
                   /\ new.state.chainId = step.chainId
                   /\ Elements(chains') =
                        {x \in Elements(chains) : x.state.chainId # new.state.chainId} \union {new}
    BY <1>1, <1>3, SavedChain
  <2>2. step.kind = "DELIVER" /\ step.chainId = e.state.chainId
    BY <1>1, <1>2, <1>3 DEF Saves, Settles
  <2>3. e = new
    BY <2>1, <2>2
  <2> QED BY <1>3, <2>1, <2>3, SavedMoves
<1>4. ASSUME NEW id, EndsChain(id)
      PROVE  e.state.chainId # id
  BY <1>4 DEF EndsChain
<1>5. CASE step.kind \in {"STOP", "RESOLVED"} /\ EndsChain(step.state.chainId)
           /\ \E r \in chainLog' : /\ r.chainId = step.state.chainId
                                   /\ workers[w].path.unit \in Elements(r.turnIds)
  <2>1. e.state.chainId # step.state.chainId
    BY <1>4, <1>5
  <2>2. ~units[u].turn
    BY <1>2, <1>5, <2>1 DEF Settles
  <2>3. \E r \in chainLog' : r.chainId # e.state.chainId /\ u \in Elements(r.turnIds)
    BY <1>1, <1>5, <2>1
  <2> QED BY <1>2, <2>2, <2>3 DEF Misplaced, MarkOf
<1>6. step.kind = "DELIVER" => ~EndsChain(step.chainId) /\ ~(step.attempt <= 1)
  <2>1. step.kind = "DELIVER" => step.attempt >= 2 /\ step.chainId = e.state.chainId /\ StepOK(step, u)
    BY <1>1, <1>2 DEF Settles, StepsOK
  <2>2. step.kind = "DELIVER" => step.attempt \in Nat
    BY <2>1 DEF StepOK, StateOK
  <2> QED BY <1>4, <2>1, <2>2
<1>7. step.kind # "NONE"
  BY <1>2 DEF Settles
<1> QED BY <1>1, <1>3, <1>5, <1>6, <1>7, SettleCases

LEMMA AnsweringStep ==
  ASSUME ClaimsInv, RequestsOK, ChainsOK, StepsOK, EarlyOK, IsList(inbox), DOMAIN None = {}, [Next]_vars,
         NEW e \in Elements(chains), e \in Elements(chains'), Answering(e), "crash" \notin mishaps'
  PROVE  Moves(e)'
<1>1. CASE MarkOf(e) \in Elements(inbox)
  BY <1>1, InboxStep DEF Moves, Answering, MarkOf
<1>2. ASSUME NEW v \in pending, units[v].task = MarkOf(e)
      PROVE  Moves(e)'
  <2>1. units'[v] = units[v]
    BY <1>2, Grows DEF ClaimsInv, FilesOK
  <2>2. CASE v \in pending'
    BY <1>2, <2>1, <2>2 DEF Moves, Answering, MarkOf
  <2>3. ASSUME NEW w \in Workers, At(w, "claimed")', workers'[w].path.unit = v
        PROVE  AnsweredBy(w, e)'
    BY <1>2, <2>1, <2>3 DEF AnsweredBy, At, Holds, Holding, MarkOf
  <2> QED BY <2>2, <2>3, PendingStep DEF Moves, Answering
<1>3. ASSUME NEW w \in Workers, AnsweredBy(w, e)
      PROVE  Moves(e)'
  <2>1. ~Dies(w)
    BY DEF Dies
  <2>2. CASE Settle(w)
    BY <1>3, <2>2, SettledAnswer DEF Moves
  <2>3. CASE ~Settle(w)
    BY <1>3, <2>1, <2>3, AnsweredStep DEF Moves, Answering
  <2> QED BY <2>2, <2>3
<1> QED BY <1>1, <1>2, <1>3 DEF Answering

\* The unit of the request a worker or the mod is about to pass on.
ToAnnounce(w, e) ==
  /\ At(w, "settled") /\ workers[w].path.unit = LastTurn(e.state)
  /\ workers[w].proposed /\ workers[w].step.kind = "DELIVER"
  /\ workers[w].step.chainId = e.state.chainId
OnFeed(e) == LastTurn(e.state) \in Proposed \ shown \/ LastTurn(e.state) \in Elements(modQueue)

LEMMA AnnouncingParts ==
  ASSUME NEW e
  PROVE  Announcing(e) <=> HasRequest(e) /\ ((\E w \in Workers : ToAnnounce(w, e)) \/ OnFeed(e))
BY DEF Announcing, ToAnnounce, OnFeed

\* The mod takes the request it announced.
LEMMA TakenRequest ==
  ASSUME RequestsOK, DOMAIN None = {}, ModTake,
         NEW e \in Elements(chains), ~Expired(e), HasRequest(e), Head(modQueue) = LastTurn(e.state)
  PROVE  Working(e)'
<1> DEFINE mine == {r \in requests : r.unit = Head(modQueue) /\ ~r.blank}
           task == CHOOSE r \in mine : ~Expired(r)
<1>1. PICK r \in mine : r.at = e.at
  BY DEF HasRequest
<1>2. ~Expired(r)
  BY <1>1 DEF Expired
<1>3. task \in mine /\ modTask' = task
  BY <1>1, <1>2 DEF ModTake
<1>4. Asks(task, e) /\ task.unit = LastTurn(e.state) /\ task \in requests
  BY <1>3 DEF HasRequest
<1>5. task # None
  BY <1>4 DEF RequestsOK, RequestOK
<1> HIDE DEF task
<1> QED BY <1>3, <1>4, <1>5 DEF Working, Asks, MarkOf

\* The worker that saved the chain announces it, or takes both back.
LEMMA AnnouncedStep ==
  ASSUME ClaimsInv, RequestsOK, FeedOK, ChainsOK, EarlyOK, [Next]_vars,
         NEW e \in Elements(chains), e \in Elements(chains'), ~Expired(e), HasRequest(e),
         NEW w \in Workers, ToAnnounce(w, e), Announce(w)
  PROVE  Announcing(e)'
<1> DEFINE u == workers[w].path.unit
           line == [unit |-> u, proposal |-> workers[w].proposed]
<1>1. IsList(chains) /\ Holds(w) /\ u = LastTurn(e.state) /\ u \notin FeedUnits
      /\ workers[w].proposed /\ workers[w].step.kind = "DELIVER" /\ workers[w].step.chainId = e.state.chainId
  BY DEF ToAnnounce, ChainsOK, At, Holds, Holding, FeedOK
<1>2. chains' # Without(workers[w].step.chainId)
  <2>1. PICK id : id = workers[w].step.chainId
    OBVIOUS
  <2>2. e \notin Elements(Without(id))
    BY <1>1, <2>1, WithoutChain
  <2> QED BY <2>1, <2>2
<1>3. feed' = Append(feed, line) /\ UNCHANGED requests
  BY <1>1, <1>2 DEF Announce
<1>4. line.unit = u /\ line.proposal = workers[w].proposed
  OBVIOUS
<1> HIDE DEF line
<1>5. UNCHANGED shown /\ u \notin shown
  BY <1>1 DEF Announce, modVars, FeedOK
<1>6. u \in Proposed'
  <2>1. /\ Len(feed) \in Nat /\ DOMAIN feed' = 1..(Len(feed) + 1) /\ feed'[Len(feed) + 1] = line
    BY <1>3, AppendList DEF FeedOK
  <2>2. Len(feed) + 1 \in DOMAIN feed'
    BY <2>1
  <2> QED BY <1>1, <1>4, <2>1, <2>2 DEF Proposed
<1>7. HasRequest(e)'
  <2>1. ~ModTake
    BY <1>3, AppendList DEF ModTake, recordVars, FeedOK
  <2>2. PICK v : v = LastTurn(e.state)
    OBVIOUS
  <2> QED BY <1>3, <2>1, <2>2, StaysRequested
<1> QED BY <1>1, <1>5, <1>6, <1>7 DEF Announcing

\* The worker that saved the chain stays, until it announces it.
LEMMA StillToAnnounce ==
  ASSUME ClaimsInv, [Next]_vars, NEW e, NEW w \in Workers, ToAnnounce(w, e), ~Announce(w), ~Dies(w)
  PROVE  ToAnnounce(w, e)'
<1>1. At(w, "settled")
  BY DEF ToAnnounce
<1>2. ~WorkerStep(w)
  BY <1>1 DEF WorkerStep, DropAbandonedClaims, SweepRead, SweepApply, RecordClosures, List, Claim,
              EndPass, Begin, Review, Decide, Settle, Exit, At
<1>3. CASE UserMessage \/ Tick \/ ModStep \/ ModReload \/ UNCHANGED vars
  BY <1>3 DEF UserMessage, Tick, ModStep, ModShow, ModTake, ModFails, ModDeliver, ModReload, vars,
              ToAnnounce, At
<1>4. ASSUME NEW v \in Workers, CloseUnit(v) \/ SessionStart(v) \/ Dies(v) \/ WorkerStep(v)
      PROVE  workers'[w] = workers[w]
  <2>1. CASE v = w
    BY <1>1, <1>2, <1>4, <2>1 DEF CloseUnit, SessionStart, At
  <2>2. CASE v # w
    BY <1>4, <2>2, OneWorker DEF CloseUnit, SessionStart
  <2> QED BY <2>1, <2>2
<1> QED BY <1>3, <1>4 DEF Next, ToAnnounce, At

\* A proposal of the feed goes to the mod's queue, and stays there.
LEMMA StillOnFeed ==
  ASSUME ClaimsInv, FeedOK, OutcomesOK, [Next]_vars, NEW e, OnFeed(e), "reload" \notin mishaps',
         ~(ModTake /\ Head(modQueue) = LastTurn(e.state))
  PROVE  OnFeed(e)'
<1> DEFINE u == LastTurn(e.state)
<1>1. IsList(modQueue) /\ Proposed \subseteq Proposed'
  BY FeedGrows DEF FeedOK
<1>2. CASE ModShow
  <2>1. PICK i \in DOMAIN feed :
          /\ shown' = shown \union {feed[i].unit}
          /\ modQueue' = IF feed[i].proposal THEN Append(modQueue, feed[i].unit) ELSE modQueue
    BY <1>2 DEF ModShow
  <2>2. Elements(modQueue') = Elements(modQueue) \union (IF feed[i].proposal THEN {feed[i].unit} ELSE {})
    BY <1>1, <2>1, AppendList, ElementsAreMembers
  <2>3. u \in Proposed /\ u = feed[i].unit => feed[i].proposal
    BY DEF OutcomesOK, Proposed
  <2> QED BY <1>1, <2>1, <2>2, <2>3 DEF OnFeed
<1>3. CASE ModTake
  <2>1. Elements(modQueue) = Elements(modQueue') \union {Head(modQueue)} /\ UNCHANGED shown
    BY <1>1, <1>3, TailList, ElementsAreMembers DEF ModTake
  <2> QED BY <1>1, <1>3, <2>1 DEF OnFeed
<1>4. ASSUME UNCHANGED <<shown, modQueue>>
      PROVE  OnFeed(e)'
  BY <1>1, <1>4 DEF OnFeed, Elements
<1>5. ~ModReload
  BY DEF ModReload
<1>6. CASE UserMessage \/ Tick \/ ModFails \/ ModDeliver \/ UNCHANGED vars
  BY <1>4, <1>6 DEF UserMessage, Tick, ModFails, ModDeliver, vars, modVars
<1>7. ASSUME NEW w \in Workers, CloseUnit(w) \/ SessionStart(w) \/ Dies(w) \/ WorkerStep(w)
      PROVE  UNCHANGED <<shown, modQueue>>
  BY <1>7, WorkerRequests DEF CloseUnit, SessionStart, Dies, modVars
<1> QED BY <1>2, <1>3, <1>4, <1>5, <1>6, <1>7 DEF Next, ModStep

LEMMA AnnouncingStep ==
  ASSUME ClaimsInv, RequestsOK, FeedOK, ChainsOK, OutcomesOK, EarlyOK, DOMAIN None = {}, [Next]_vars,
         NEW e \in Elements(chains), e \in Elements(chains'), ~Expired(e), Announcing(e),
         mishaps' \intersect {"crash", "reload"} = {}
  PROVE  Announcing(e)' \/ Working(e)'
<1>1. HasRequest(e) /\ ((\E w \in Workers : ToAnnounce(w, e)) \/ OnFeed(e))
  BY AnnouncingParts
<1>2. CASE ModTake /\ Head(modQueue) = LastTurn(e.state)
  BY <1>1, <1>2, TakenRequest
<1>3. ASSUME NEW w \in Workers, Holds(w), workers[w].path.unit = LastTurn(e.state)
      PROVE  ToAnnounce(w, e)
  <2>1. ~OnFeed(e)
    BY <1>3 DEF OnFeed, FeedOK, FeedUnits, Proposed
  <2>2. PICK v \in Workers : ToAnnounce(v, e)
    BY <1>1, <2>1
  <2>3. Holds(v) /\ workers[v].path.unit = workers[w].path.unit
    BY <1>3, <2>2 DEF ToAnnounce, At, Holds, Holding
  <2>4. v = w
    BY <1>3, <2>3 DEF ClaimsInv, HeldOK, HandoffsOK
  <2> QED BY <2>2, <2>4
<1>4. CASE \E w \in Workers : Announce(w) /\ workers[w].path.unit = LastTurn(e.state)
  <2>1. PICK w \in Workers : Announce(w) /\ workers[w].path.unit = LastTurn(e.state)
    BY <1>4
  <2>2. ToAnnounce(w, e)
    BY <1>3, <2>1 DEF Announce, At, Holds, Holding
  <2> QED BY <1>1, <2>1, <2>2, AnnouncedStep
<1>5. CASE /\ ~(ModTake /\ Head(modQueue) = LastTurn(e.state))
           /\ \A w \in Workers : ~(Announce(w) /\ workers[w].path.unit = LastTurn(e.state))
  <2>1. HasRequest(e)'
    BY <1>1, <1>5, StaysRequested
  <2>2. \A w \in Workers : ToAnnounce(w, e) => ToAnnounce(w, e)'
    BY <1>5, StillToAnnounce DEF ToAnnounce, Dies
  <2>3. OnFeed(e) => OnFeed(e)'
    BY <1>5, StillOnFeed
  <2> QED BY <1>1, <2>1, <2>2, <2>3 DEF Announcing, ToAnnounce, OnFeed
<1> QED BY <1>2, <1>4, <1>5

\* A saved chain goes on, ages out, or is misplaced.
LEMMA MovesStep ==
  ASSUME IInv, ChainInv, DOMAIN None = {}, [Next]_vars,
         NEW e \in Elements(chains), e \in Elements(chains'), Moves(e), ~Expired(e),
         mishaps' \intersect {"crash", "reload", "outcome"} = {}
  PROVE  Moves(e)'
<1>1. CASE Announcing(e)
  BY <1>1, AnnouncingStep DEF IInv, MessagesInv, FeedInv, ChainInv, Moves
<1>2. CASE Working(e)
  BY <1>2, WorkingStep DEF IInv, ChainInv, Moves
<1>3. CASE Refused(e)
  BY <1>3, RefusedStep DEF IInv, ChainInv, Moves
<1>4. CASE Answering(e)
  BY <1>4, AnsweringStep DEF IInv, MessagesInv, ChainInv
<1>5. CASE Misplaced(e.state)
  <2>1. PICK state : state = e.state
    OBVIOUS
  <2> QED BY <1>5, <2>1, StaysMisplaced DEF IInv, Moves
<1> QED BY <1>1, <1>2, <1>3, <1>4, <1>5 DEF Moves

LEMMA NextProgress ==
  ASSUME IInv, ChainInv, DOMAIN None = {}, [Next]_vars
  PROVE  ProgressOK'
<1> SUFFICES ASSUME mishaps' \intersect {"crash", "reload", "outcome"} = {}
             PROVE  (\A e \in Elements(chains) : Expired(e) \/ Moves(e))'
  BY DEF ProgressOK
<1>1. \A e \in Elements(chains) : Expired(e) \/ Moves(e)
  BY RecordsGrow DEF ChainInv, ProgressOK, IInv
<1>2. ASSUME NEW e \in Elements(chains), e \in Elements(chains')
      PROVE  Expired(e)' \/ Moves(e)'
  <2>1. CASE Expired(e)
    <3>1. now \in Nat /\ now' \in Nat /\ now <= now' /\ e.at \in Nat /\ FileTTL \in Nat
      BY <1>2, Grows, WorkerAssumption DEF IInv, ChainInv, ChainsOK
    <3>2. PICK at : at = e.at
      OBVIOUS
    <3> QED BY <2>1, <3>1, <3>2 DEF Expired
  <2>2. CASE ~Expired(e)
    BY <1>1, <1>2, <2>2, MovesStep
  <2> QED BY <2>1, <2>2
<1>3. ASSUME NEW w \in Workers, Settle(w), Saves(w), NEW e \in Elements(chains'), e \notin Elements(chains)
      PROVE  Moves(e)'
  <2>1. e = ChainFile(workers[w].step.state)
    BY <1>3, SavedChain DEF IInv, ChainInv
  <2>2. Announcing(e)'
    BY <1>3, <2>1, SavedMoves DEF IInv, MessagesInv, ChainInv
  <2> QED BY <2>2 DEF Moves
<1>4. ASSUME NEW e \in Elements(chains'), e \notin Elements(chains)
      PROVE  Moves(e)'
  BY <1>3, <1>4, ChainStep DEF IInv, ChainInv
<1> QED BY <1>2, <1>4

-----------------------------------------------------------------------------
(* No chain ends in silence.                                                *)

LEMMA InitChains == Init => ChainInv
<1> SUFFICES ASSUME Init
             PROVE  ChainInv
  OBVIOUS
<1>1. /\ now = 0 /\ inbox = <<>> /\ chains = <<>> /\ feed = <<>> /\ requests = {} /\ outcomes = {}
      /\ modTask = None /\ sent = <<>> /\ \A w \in Workers : workers[w] = Idle
  BY DEF Init
<1>2. \A w \in Workers : /\ workers[w].stage = "idle" /\ workers[w].settings = "off"
                         /\ workers[w].ended = {}
  BY <1>1 DEF Idle
<1>3. Elements(chains) = {} /\ IsList(chains) /\ IsList(inbox) /\ DOMAIN feed = {} /\ DOMAIN sent = {}
  BY <1>1, EmptyList, ElementsAreMembers
<1>4. ChainsOK /\ ProgressOK
  BY <1>3 DEF ChainsOK, ProgressOK
<1>5. StepsOK /\ SweptOK
  BY <1>2 DEF StepsOK, SweptOK, SweptOf, At
<1>6. OutcomesOK /\ EarlyOK /\ MessagesTold
  BY <1>1, <1>2, <1>3 DEF OutcomesOK, EarlyOK, MessagesTold, At
<1> QED BY <1>3, <1>4, <1>5, <1>6 DEF ChainInv

LEMMA NextChainInv == IInv /\ ChainInv /\ DOMAIN None = {} /\ [Next]_vars => ChainInv'
<1> SUFFICES ASSUME IInv, ChainInv, DOMAIN None = {}, [Next]_vars
             PROVE  ChainInv'
  OBVIOUS
<1> USE DEF IInv, MessagesInv, FeedInv, ChainInv
<1>1. ChainsOK' /\ StepsOK' /\ SweptOK'
  BY NextChainsOK, NextSteps, NextSwept
<1>2. OutcomesOK' /\ EarlyOK'
  BY NextOutcomes, NextEarly
<1>3. MessagesTold'
  BY NextTold
<1>4. IsList(inbox)'
  BY InboxStep
<1>5. ProgressOK'
  BY NextProgress
<1> QED BY <1>1, <1>2, <1>3, <1>4, <1>5

LEMMA ChainsOfInv == ClaimsInv /\ ChainInv => ChainsAccounted
<1> SUFFICES ASSUME ClaimsInv, ChainInv
             PROVE  ChainsAccounted
  OBVIOUS
<1>1. EveryChainAccounted
  <2> SUFFICES ASSUME mishaps \intersect {"crash", "feed"} = {}, NEW i \in DOMAIN sent,
                      sent[i].message # Legacy
               PROVE  \/ \E s \in SavedStates : s.chainId = sent[i].message.chainId
                      \/ \E w \in Workers : \E c \in workers[w].ended :
                           c.state.chainId = sent[i].message.chainId
                      \/ \E r \in chainLog : r.chainId = sent[i].message.chainId
    BY DEF EveryChainAccounted
  <2>1. PICK id : id = sent[i].message.chainId
    OBVIOUS
  <2>2. Told(id)
    BY <2>1 DEF ChainInv, MessagesTold, MessageTold
  <2> QED BY <2>1, <2>2 DEF Told, SavedStates
<1>2. NoStrandedChain
  <2> SUFFICES ASSUME mishaps \intersect {"crash", "reload", "outcome"} = {},
                      NEW e \in Elements(chains), ~Expired(e), ~Misplaced(e.state)
               PROVE  InProgress(e.state)
    BY DEF NoStrandedChain
  <2>1. Announcing(e) \/ Working(e) \/ Refused(e) \/ Answering(e)
    BY DEF ChainInv, ProgressOK, Moves
  <2>2. Announcing(e) => InProgress(e.state)
    BY DEF Announcing, InProgress
  <2>3. Working(e) => InProgress(e.state)
    BY DEF Working, InProgress
  <2>4. Refused(e) => InProgress(e.state)
    BY DEF Refused, InProgress
  <2>5. ASSUME NEW w \in Workers, AnsweredBy(w, e)
        PROVE  InProgress(e.state)
    <3>1. workers[w].stage \in Holding \ {"settled"}
      BY <2>5 DEF AnsweredBy, At, Holding
    <3> QED BY <2>5, <3>1 DEF AnsweredBy, InProgress, MarkOf
  <2>6. pending \subseteq Units
    BY DEF ClaimsInv, FilesOK
  <2>7. Answering(e) => InProgress(e.state)
    BY <2>5, <2>6 DEF Answering, InProgress, MarkOf
  <2> QED BY <2>1, <2>2, <2>3, <2>4, <2>7
<1> QED BY <1>1, <1>2 DEF ChainsAccounted

\* Every chain that sent a message is saved or its end is told, and a saved one
\* always has something that goes on with it.  null has no fields.
THEOREM ChainsAreAccounted == DOMAIN None = {} => (Spec => []ChainsAccounted)
<1> SUFFICES ASSUME DOMAIN None = {}
             PROVE  Spec => []ChainsAccounted
  OBVIOUS
<1>1. Init => ChainInv
  BY InitChains
<1>2. IInv /\ ChainInv /\ [Next]_vars => ChainInv'
  BY NextChainInv
<1>3. IInv /\ ChainInv => ChainsAccounted
  BY ChainsOfInv DEF IInv
<1> QED BY <1>1, <1>2, <1>3, Invariance, PTL DEF Spec
=============================================================================
