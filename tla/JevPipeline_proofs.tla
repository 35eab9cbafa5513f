------------------------- MODULE JevPipeline_proofs -------------------------
(***************************************************************************)
(* Proofs about the FIFO limiter and the transport behind it, for every    *)
(* set of calls of every size and every concurrency.                       *)
(*                                                                         *)
(* First the limiter by itself: one inductive invariant, IInv, carries its *)
(* type invariant, its safety invariants and its refinement of JevService. *)
(* Then the two together: the transport takes no step the limiter would    *)
(* not, so what is proved of the limiter holds of both, and no answer is   *)
(* lost, doubled or put at another index.                                  *)
(***************************************************************************)
EXTENDS JevPipeline, FiniteSetTheorems, SequenceTheorems, TLAPS

\* A queued call waits once, and only queued calls wait.
WaitingOK(q, ph) ==
  /\ \A i, j \in 1..Len(q) : q[i] = q[j] => i = j
  /\ \A i \in 1..Len(q) : ph[q[i]] = "queued"

\* Calls reach the histories when their phase says so.
HistoryOK(sub, st, ph) ==
  /\ \A i \in 1..Len(sub) : ph[sub[i]] # "unsent"
  /\ \A c \in Calls : ph[c] \notin {"unsent", "queued"} =>
                        \E i \in 1..Len(st) : st[i] = c

\* The slots taken and the calls answered add up to the calls started.
CountOK(st, n, ph) ==
  /\ IsFiniteSet(InService(ph))
  /\ n = Cardinality(InService(ph))
  /\ IsFiniteSet({c \in Calls : ph[c] = "settled"})
  /\ Len(st) = Cardinality({c \in Calls : ph[c] = "settled"}) + n

IInv ==
  /\ TypeOK
  /\ WaitingOK(queue, phase)
  /\ HistoryOK(submitted, started, phase)
  /\ CountOK(started, active, phase)
  /\ NoIdleSlot
  /\ FifoOrder

-----------------------------------------------------------------------------
(* What drain() does to a queue of distinct waiting calls.                  *)

LEMMA TakenBounds ==
  ASSUME NEW q \in Seq(Calls), NEW n \in 0..MaxConcurrency
  PROVE  /\ Taken(q, n) \in 0..Len(q)
         /\ n + Taken(q, n) \in 0..MaxConcurrency
         /\ Taken(q, n) < Len(q) => n + Taken(q, n) = MaxConcurrency
  BY ConcurrencyAssumption DEF Taken

\* The first k of a sequence of distinct elements are k in number.
LEMMA PrefixCardinality ==
  ASSUME NEW q \in Seq(Calls), NEW k \in 0..Len(q),
         \A i, j \in 1..Len(q) : q[i] = q[j] => i = j
  PROVE  /\ IsFiniteSet({q[i] : i \in 1..k})
         /\ Cardinality({q[i] : i \in 1..k}) = k
<1> DEFINE T == {q[i] : i \in 1..k}
           f == [i \in 1..k |-> q[i]]
<1>1. f \in Bijection(1..k, T)
  <2>1. f \in [1..k -> T]
    OBVIOUS
  <2>2. IsInjective(f)
    BY DEF IsInjective
  <2>3. \A t \in T : \E i \in 1..k : f[i] = t
    OBVIOUS
  <2> QED BY <2>1, <2>2, <2>3 DEF Bijection, Injection, Surjection
<1>2. ExistsBijection(1..k, T)
  BY <1>1 DEF ExistsBijection
<1>3. IsFiniteSet(1..k) /\ Cardinality(1..k) = k
  BY FS_Interval
<1> HIDE DEF T
<1>4. IsFiniteSet(T) /\ Cardinality(T) = k
  BY <1>2, <1>3, FS_Bijection
<1> QED BY <1>4 DEF T

\* drain() re-establishes every part of the invariant from a queue, a
\* counter and phases that agree with each other, whatever its caller did.
LEMMA DrainLemma ==
  ASSUME TypeOK,
         NEW q \in Seq(Calls), NEW n \in 0..MaxConcurrency,
         NEW ph \in [Calls -> Phases],
         WaitingOK(q, ph), CountOK(started, n, ph),
         NEW sub \in Seq(Calls), HistoryOK(sub, started, ph),
         started \o q = sub,
         Drain(q, n, ph)
  PROVE  /\ queue' \in Seq(Calls)
         /\ active' \in 0..MaxConcurrency
         /\ phase' \in [Calls -> Phases]
         /\ started' \in Seq(Calls)
         /\ WaitingOK(queue', phase')
         /\ HistoryOK(sub, started', phase')
         /\ CountOK(started', active', phase')
         /\ NoIdleSlot'
         /\ started' \o queue' = sub
         /\ {c \in Calls : phase'[c] = "settled"} = {c \in Calls : ph[c] = "settled"}
<1> DEFINE k == Taken(q, n)
           taken == {q[i] : i \in 1..k}
           front == SubSeq(q, 1, k)
           back == SubSeq(q, k + 1, Len(q))
<1>k. /\ k \in 0..Len(q)
      /\ n + k \in 0..MaxConcurrency
      /\ k < Len(q) => n + k = MaxConcurrency
  BY TakenBounds
<1> HIDE DEF k
<1>d. /\ queue' = back
      /\ active' = n + k
      /\ started' = started \o front
      /\ phase' = [c \in Calls |-> IF c \in taken THEN "starting" ELSE ph[c]]
  BY DEF Drain, k
<1>f. /\ front \in Seq(Calls)
      /\ Len(front) = k
      /\ \A i \in 1..k : front[i] = q[i]
  <2>1. \A i \in 1..k : q[i] \in Calls
    BY <1>k
  <2> QED BY <1>k, <2>1, SubSeqProperties, Z3
<1>b. /\ back \in Seq(Calls)
      /\ Len(back) = Len(q) - k
      /\ \A i \in 1..(Len(q) - k) : back[i] = q[k + i]
  <2>1. \A i \in (k + 1)..Len(q) : q[i] \in Calls
    BY <1>k
  <2>2. /\ SubSeq(q, k + 1, Len(q)) \in Seq(Calls)
        /\ Len(SubSeq(q, k + 1, Len(q)))
             = IF k + 1 <= Len(q) THEN Len(q) - (k + 1) + 1 ELSE 0
        /\ \A i \in 1..(Len(q) - (k + 1) + 1) :
             SubSeq(q, k + 1, Len(q))[i] = q[(k + 1) + i - 1]
    BY <1>k, <2>1, SubSeqProperties
  <2> QED BY <1>k, <2>2
<1> HIDE DEF front, back
<1>e. started \in Seq(Calls)
  BY DEF TypeOK
<1>1. queue' \in Seq(Calls) /\ active' \in 0..MaxConcurrency /\ started' \in Seq(Calls)
  BY <1>k, <1>d, <1>f, <1>b, <1>e, ConcatProperties
<1>2. phase' \in [Calls -> Phases]
  BY <1>d DEF Phases
<1>t. \A c \in taken : c \in Calls /\ ph[c] = "queued"
  BY <1>k DEF WaitingOK
<1>3. WaitingOK(queue', phase')
  <2>1. \A i, j \in 1..Len(back) : back[i] = back[j] => i = j
    <3> SUFFICES ASSUME NEW i \in 1..Len(back), NEW j \in 1..Len(back), back[i] = back[j]
                 PROVE  i = j
      OBVIOUS
    <3>1. /\ k + i \in 1..Len(q) /\ k + j \in 1..Len(q)
          /\ q[k + i] = q[k + j]
      BY <1>k, <1>b
    <3>2. k + i = k + j
      BY <3>1 DEF WaitingOK
    <3> QED BY <1>k, <3>2
  <2>2. ASSUME NEW i \in 1..Len(back)
        PROVE  phase'[back[i]] = "queued"
    <3>1. k + i \in 1..Len(q) /\ back[i] = q[k + i] /\ i # 0 /\ i > 0
      BY <1>k, <1>b
    <3>2. q[k + i] \notin taken
      <4> SUFFICES ASSUME NEW j \in 1..k, q[k + i] = q[j]
                   PROVE  FALSE
        OBVIOUS
      <4>1. j \in 1..Len(q) /\ j <= k /\ j # k + i
        BY <1>k, <3>1
      <4> QED BY <3>1, <4>1 DEF WaitingOK
    <3>3. q[k + i] \in Calls /\ ph[q[k + i]] = "queued"
      BY <3>1 DEF WaitingOK
    <3> QED BY <1>d, <3>1, <3>2, <3>3
  <2> QED BY <1>d, <2>1, <2>2 DEF WaitingOK
<1>4. started' \o queue' = sub
  <2>1. front \o back = q
    <3>1. SubSeq(q, 1, k) \o SubSeq(q, k + 1, Len(q)) = SubSeq(q, 1, Len(q))
      <4>1. 1 \in 1..(Len(q) + 1) /\ k \in (1 - 1)..Len(q) /\ Len(q) \in k..Len(q)
        BY <1>k
      <4> QED BY <4>1, ConcatAdjacentSubSeq
    <3> QED BY <3>1, SubSeqFull DEF front, back
  <2>2. front \in Seq(Calls) /\ back \in Seq(Calls)
    BY <1>f, <1>b
  <2>3. (started \o front) \o back = started \o (front \o back)
    BY <1>e, <2>2, ConcatAssociative, SMTT(60)
  <2> QED BY <1>d, <2>1, <2>3
<1>c. /\ Len(started') = Len(started) + k
      /\ \A i \in 1..(Len(started) + k) :
           started'[i] = IF i <= Len(started) THEN started[i]
                         ELSE front[i - Len(started)]
  <2>1. front \in Seq(Calls) /\ Len(front) = k
    BY <1>f
  <2>2. /\ Len(started \o front) = Len(started) + Len(front)
        /\ \A i \in 1..(Len(started) + Len(front)) :
             (started \o front)[i] = IF i <= Len(started) THEN started[i]
                                     ELSE front[i - Len(started)]
    BY <1>e, <2>1, ConcatProperties
  <2> QED BY <1>d, <2>1, <2>2
<1>5. HistoryOK(sub, started', phase')
  <2>1. ASSUME NEW i \in 1..Len(sub)
        PROVE  phase'[sub[i]] # "unsent"
    <3>1. sub[i] \in Calls /\ ph[sub[i]] # "unsent"
      BY DEF HistoryOK
    <3> QED BY <1>d, <3>1
  <2>2. ASSUME NEW c \in Calls, phase'[c] \notin {"unsent", "queued"}
        PROVE  \E i \in 1..Len(started') : started'[i] = c
    <3>2. CASE c \in taken
      <4>1. PICK i \in 1..k : q[i] = c
        BY <3>2
      <4>2. /\ Len(started) + i \in 1..(Len(started) + k)
            /\ ~(Len(started) + i <= Len(started))
            /\ (Len(started) + i) - Len(started) = i
        BY <1>k, <1>e
      <4> QED BY <1>f, <1>c, <4>1, <4>2
    <3>3. CASE c \notin taken
      <4>1. ph[c] = phase'[c]
        BY <1>d, <3>3
      <4>2. PICK i \in 1..Len(started) : started[i] = c
        BY <2>2, <4>1 DEF HistoryOK
      <4>3. i \in 1..(Len(started) + k) /\ i <= Len(started)
        BY <1>k, <1>e
      <4> QED BY <1>c, <4>2, <4>3
    <3> QED BY <3>2, <3>3
  <2> QED BY <2>1, <2>2 DEF HistoryOK
<1>6. {c \in Calls : phase'[c] = "settled"} = {c \in Calls : ph[c] = "settled"}
  BY <1>d, <1>t
<1>7. CountOK(started', active', phase')
  <2>1. InService(phase') = InService(ph) \cup taken
    BY <1>d, <1>t DEF InService
  <2>2. InService(ph) \cap taken = {}
    BY <1>t DEF InService
  <2>3. IsFiniteSet(taken) /\ Cardinality(taken) = k
    BY <1>k, PrefixCardinality DEF WaitingOK
  <2> HIDE DEF taken
  <2>4. IsFiniteSet(InService(ph)) /\ Cardinality(InService(ph)) = n
    BY DEF CountOK
  <2>5. /\ IsFiniteSet(InService(phase'))
        /\ Cardinality(InService(phase')) = n + k - Cardinality({})
    BY <2>1, <2>2, <2>3, <2>4, FS_Union, SMTT(60)
  <2>6. /\ Len(started') = Len(started) + k
        /\ Len(started) = Cardinality({c \in Calls : ph[c] = "settled"}) + n
    BY <1>c DEF CountOK
  <2>7. Cardinality({c \in Calls : ph[c] = "settled"}) \in Nat
    BY FS_CardinalityType DEF CountOK
  <2>8. Cardinality({}) = 0
    BY FS_EmptySet
  <2>9. n + k - Cardinality({}) = n + k
    BY <1>k, <2>8
  <2>10. IsFiniteSet({c \in Calls : phase'[c] = "settled"})
    BY <1>6 DEF CountOK
  <2>11. Len(started') = Cardinality({c \in Calls : phase'[c] = "settled"}) + (n + k)
    <3>1. \A m, l \in Nat : l = m + n => l + k = m + (n + k)
      BY <1>k
    <3>2. Len(started) \in Nat
      BY <1>e
    <3>3. Len(started) + k = Cardinality({c \in Calls : ph[c] = "settled"}) + (n + k)
      BY <2>6, <2>7, <3>1, <3>2
    <3> QED BY <1>6, <2>6, <3>3
  <2> QED BY <1>d, <2>5, <2>9, <2>10, <2>11 DEF CountOK
<1>8. NoIdleSlot'
  <2>1. queue' # <<>> => k < Len(q)
    <3> SUFFICES ASSUME ~(k < Len(q)) PROVE back = <<>>
      BY <1>d
    <3>1. Len(back) = 0
      BY <1>k, <1>b
    <3> QED BY <1>b, <3>1
  <2> QED BY <1>k, <1>d, <2>1 DEF NoIdleSlot
<1> QED BY <1>1, <1>2, <1>3, <1>4, <1>5, <1>6, <1>7, <1>8

-----------------------------------------------------------------------------
(* The inductive invariant.                                                 *)

LEMMA InitInvariant == Init => IInv
<1> SUFFICES ASSUME Init PROVE IInv
  OBVIOUS
<1>1. TypeOK
  BY ConcurrencyAssumption DEF Init, TypeOK, Phases
<1>2. WaitingOK(queue, phase) /\ HistoryOK(submitted, started, phase) /\ NoIdleSlot
  BY DEF Init, WaitingOK, HistoryOK, NoIdleSlot
<1>3. FifoOrder
  BY DEF Init, FifoOrder
<1>4. CountOK(started, active, phase)
  <2>1. InService(phase) = {} /\ {c \in Calls : phase[c] = "settled"} = {}
    BY DEF Init, InService
  <2>2. active = 0 /\ Len(started) = 0
    BY DEF Init
  <2> QED BY <2>1, <2>2, FS_EmptySet DEF CountOK
<1> QED BY <1>1, <1>2, <1>3, <1>4 DEF IInv

\* A submission pushes a fresh call behind the others and drains.
LEMMA SubmitStep ==
  ASSUME IInv, NEW c \in Calls, Submit(c)
  PROVE  /\ IInv'
         /\ Answered' = Answered
<1> DEFINE q == Append(queue, c)
           ph == [phase EXCEPT ![c] = "queued"]
           sub == Append(submitted, c)
<1>1. q \in Seq(Calls) /\ sub \in Seq(Calls) /\ ph \in [Calls -> Phases]
  BY DEF IInv, TypeOK, Phases
<1>p. phase[c] = "unsent" /\ queue \in Seq(Calls) /\ phase \in [Calls -> Phases]
  BY DEF Submit, IInv, TypeOK
<1>2. WaitingOK(q, ph)
  <2>1. \A i \in 1..Len(queue) : queue[i] \in Calls /\ phase[queue[i]] = "queued" /\ queue[i] # c
    BY <1>p DEF IInv, WaitingOK
  <2>2. /\ Len(q) = Len(queue) + 1
        /\ \A i \in 1..Len(queue) : q[i] = queue[i]
        /\ q[Len(queue) + 1] = c
    BY <1>p, AppendProperties
  <2>3. \A i, j \in 1..Len(queue) : queue[i] = queue[j] => i = j
    BY DEF IInv, WaitingOK
  <2>4. \A i, j \in 1..Len(q) : q[i] = q[j] => i = j
    <3> SUFFICES ASSUME NEW i \in 1..Len(q), NEW j \in 1..Len(q), q[i] = q[j]
                 PROVE  i = j
      OBVIOUS
    <3> HIDE DEF q
    <3>1. (i \in 1..Len(queue) \/ i = Len(queue) + 1) /\ (j \in 1..Len(queue) \/ j = Len(queue) + 1)
      BY <1>p, <2>2
    <3> QED BY <3>1, <2>1, <2>2, <2>3
  <2>5. \A i \in 1..Len(q) : ph[q[i]] = "queued"
    <3> SUFFICES ASSUME NEW i \in 1..Len(q) PROVE ph[q[i]] = "queued"
      OBVIOUS
    <3> HIDE DEF q
    <3>1. i \in 1..Len(queue) \/ i = Len(queue) + 1
      BY <1>p, <2>2
    <3> QED BY <1>p, <3>1, <2>1, <2>2
  <2> QED BY <2>4, <2>5 DEF WaitingOK
<1>3. InService(ph) = InService(phase)
      /\ {d \in Calls : ph[d] = "settled"} = {d \in Calls : phase[d] = "settled"}
  BY <1>p DEF InService
<1>4. CountOK(started, active, ph)
  BY <1>3 DEF IInv, CountOK
<1>5. HistoryOK(sub, started, ph)
  <2>1. /\ Len(sub) = Len(submitted) + 1
        /\ \A i \in 1..Len(submitted) : sub[i] = submitted[i] /\ submitted[i] \in Calls
        /\ sub[Len(submitted) + 1] = c
        /\ Len(submitted) \in Nat
    BY AppendProperties DEF IInv, TypeOK
  <2>2. \A i \in 1..Len(sub) : ph[sub[i]] # "unsent"
    <3> SUFFICES ASSUME NEW i \in 1..Len(sub) PROVE ph[sub[i]] # "unsent"
      OBVIOUS
    <3> HIDE DEF sub
    <3>1. i \in 1..Len(submitted) \/ i = Len(submitted) + 1
      BY <2>1
    <3>2. \A j \in 1..Len(submitted) : phase[submitted[j]] # "unsent"
      BY DEF IInv, HistoryOK
    <3> QED BY <1>p, <2>1, <3>1, <3>2
  <2>3. \A d \in Calls : ph[d] \notin {"unsent", "queued"} => phase[d] \notin {"unsent", "queued"}
    BY <1>p
  <2>4. \A d \in Calls : ph[d] \notin {"unsent", "queued"} =>
          \E i \in 1..Len(started) : started[i] = d
    BY <2>3 DEF IInv, HistoryOK
  <2> QED BY <2>2, <2>4 DEF HistoryOK
<1>6. started \o q = sub
  <2>1. started \in Seq(Calls) /\ submitted \in Seq(Calls) /\ started \o queue = submitted
    BY DEF IInv, TypeOK, FifoOrder
  <2>2. q = queue \o <<c>> /\ sub = submitted \o <<c>> /\ <<c>> \in Seq(Calls)
    BY <1>p, <2>1, AppendIsConcat
  <2>3. started \in Seq(Calls) /\ <<c>> \in Seq(Calls) /\ queue \in Seq(Calls)
    BY <1>p, <2>1, <2>2
  <2>4. (started \o queue) \o <<c>> = started \o (queue \o <<c>>)
    BY <2>3, ConcatAssociative, SMTT(60)
  <2> QED BY <2>1, <2>2, <2>4
<1>7. Drain(q, active, ph) /\ submitted' = sub
  BY DEF Submit
<1>8. TypeOK /\ active \in 0..MaxConcurrency
  BY DEF IInv, TypeOK
<1> HIDE DEF q, ph, sub
<1>9. /\ queue' \in Seq(Calls)
      /\ active' \in 0..MaxConcurrency
      /\ phase' \in [Calls -> Phases]
      /\ started' \in Seq(Calls)
      /\ WaitingOK(queue', phase')
      /\ HistoryOK(sub, started', phase')
      /\ CountOK(started', active', phase')
      /\ NoIdleSlot'
      /\ started' \o queue' = sub
      /\ {d \in Calls : phase'[d] = "settled"} = {d \in Calls : ph[d] = "settled"}
  BY <1>1, <1>2, <1>4, <1>5, <1>6, <1>7, <1>8, DrainLemma
<1>10. IInv'
  BY <1>1, <1>7, <1>9 DEF IInv, TypeOK, FifoOrder
<1>11. Answered' = Answered
  BY <1>3, <1>9 DEF Answered
<1> QED BY <1>10, <1>11

\* The microtask and the port's answer move a call within its slot.
LEMMA InSlotStep ==
  ASSUME IInv, NEW c \in Calls, Invoke(c) \/ PortReturns(c)
  PROVE  IInv' /\ Answered' = Answered
<1>1. /\ phase[c] \in {"starting", "inFlight"}
      /\ phase' = [phase EXCEPT ![c] = phase'[c]]
      /\ phase'[c] \in {"inFlight", "returned"}
      /\ UNCHANGED <<queue, active, submitted, started>>
      /\ phase \in [Calls -> Phases]
  BY DEF Invoke, PortReturns, IInv, TypeOK
<1>2. TypeOK'
  BY <1>1 DEF IInv, TypeOK, Phases
<1>3. WaitingOK(queue', phase')
  <2>1. \A i \in 1..Len(queue) : queue[i] \in Calls /\ phase[queue[i]] = "queued"
    BY DEF IInv, TypeOK, WaitingOK
  <2>2. \A i \in 1..Len(queue) : phase'[queue[i]] = "queued"
    BY <1>1, <2>1
  <2> QED BY <1>1, <2>2 DEF IInv, WaitingOK
<1>4. HistoryOK(submitted', started', phase')
  <2>1. \A i \in 1..Len(submitted) : submitted[i] \in Calls /\ phase[submitted[i]] # "unsent"
    BY DEF IInv, TypeOK, HistoryOK
  <2>2. \A i \in 1..Len(submitted) : phase'[submitted[i]] # "unsent"
    BY <1>1, <2>1
  <2>3. \A d \in Calls : phase'[d] \notin {"unsent", "queued"} => phase[d] \notin {"unsent", "queued"}
    BY <1>1
  <2>4. \A d \in Calls : phase'[d] \notin {"unsent", "queued"} =>
          \E i \in 1..Len(started) : started[i] = d
    BY <2>3 DEF IInv, HistoryOK
  <2> QED BY <1>1, <2>2, <2>4 DEF HistoryOK
<1>5. InService(phase') = InService(phase)
      /\ {d \in Calls : phase'[d] = "settled"} = {d \in Calls : phase[d] = "settled"}
  BY <1>1 DEF InService
<1>6. CountOK(started', active', phase')
  BY <1>1, <1>5 DEF IInv, CountOK
<1>7. NoIdleSlot' /\ FifoOrder'
  BY <1>1 DEF IInv, NoIdleSlot, FifoOrder
<1>8. Answered' = Answered
  BY <1>5 DEF Answered
<1> QED BY <1>2, <1>3, <1>4, <1>6, <1>7, <1>8 DEF IInv

\* The settlement callback gives the slot back, answers and drains.
LEMMA SettleStep ==
  ASSUME IInv, NEW c \in Calls, Settle(c)
  PROVE  /\ IInv'
         /\ c \notin Answered
         /\ Answered' = Answered \cup {c}
<1> DEFINE ph == [phase EXCEPT ![c] = "settled"]
<1>p. phase[c] = "returned" /\ queue \in Seq(Calls) /\ phase \in [Calls -> Phases]
      /\ active \in 0..MaxConcurrency /\ submitted \in Seq(Calls)
  BY DEF Settle, IInv, TypeOK
<1>1. ph \in [Calls -> Phases]
  BY <1>p DEF Phases
<1>2. WaitingOK(queue, ph)
  <2>1. \A i \in 1..Len(queue) : queue[i] \in Calls /\ phase[queue[i]] = "queued" /\ queue[i] # c
    BY <1>p DEF IInv, WaitingOK
  <2> QED BY <1>p, <2>1 DEF IInv, WaitingOK
<1>3. InService(ph) = InService(phase) \ {c} /\ c \in InService(phase)
  BY <1>p DEF InService
<1>4. {d \in Calls : ph[d] = "settled"} = Answered \cup {c} /\ c \notin Answered
  BY <1>p DEF Answered
<1>5. active - 1 \in 0..MaxConcurrency /\ CountOK(started, active - 1, ph)
  <2>1. /\ IsFiniteSet(InService(phase)) /\ active = Cardinality(InService(phase))
        /\ IsFiniteSet(Answered) /\ Len(started) = Cardinality(Answered) + active
    BY DEF IInv, CountOK, Answered
  <2>2. IsFiniteSet(InService(ph)) /\ Cardinality(InService(ph)) = active - 1
    BY <1>3, <2>1, FS_RemoveElement
  <2>3. Cardinality(InService(ph)) \in Nat
    BY <2>2, FS_CardinalityType
  <2>4. /\ IsFiniteSet({d \in Calls : ph[d] = "settled"})
        /\ Cardinality({d \in Calls : ph[d] = "settled"}) = Cardinality(Answered) + 1
    BY <1>4, <2>1, FS_AddElement
  <2>5. Cardinality(Answered) \in Nat
    BY <2>1, FS_CardinalityType
  <2>6. Len(started) = (Cardinality(Answered) + 1) + (active - 1)
    BY <1>p, <2>1, <2>5
  <2>7. active - 1 \in 0..MaxConcurrency
    BY <1>p, <2>2, <2>3, ConcurrencyAssumption
  <2> QED BY <2>2, <2>4, <2>6, <2>7 DEF CountOK
<1>6. HistoryOK(submitted, started, ph)
  <2>1. \A i \in 1..Len(submitted) : submitted[i] \in Calls /\ phase[submitted[i]] # "unsent"
    BY <1>p DEF IInv, HistoryOK
  <2>2. \A i \in 1..Len(submitted) : ph[submitted[i]] # "unsent"
    BY <1>p, <2>1
  <2>3. \A d \in Calls : ph[d] \notin {"unsent", "queued"} => phase[d] \notin {"unsent", "queued"}
    BY <1>p
  <2>4. \A d \in Calls : ph[d] \notin {"unsent", "queued"} =>
          \E i \in 1..Len(started) : started[i] = d
    BY <2>3 DEF IInv, HistoryOK
  <2> QED BY <2>2, <2>4 DEF HistoryOK
<1>7. Drain(queue, active - 1, ph) /\ submitted' = submitted
  BY DEF Settle
<1>8. TypeOK /\ started \o queue = submitted
  BY DEF IInv, FifoOrder
<1> HIDE DEF ph
<1>9. /\ queue' \in Seq(Calls)
      /\ active' \in 0..MaxConcurrency
      /\ phase' \in [Calls -> Phases]
      /\ started' \in Seq(Calls)
      /\ WaitingOK(queue', phase')
      /\ HistoryOK(submitted, started', phase')
      /\ CountOK(started', active', phase')
      /\ NoIdleSlot'
      /\ started' \o queue' = submitted
      /\ {d \in Calls : phase'[d] = "settled"} = {d \in Calls : ph[d] = "settled"}
  BY <1>p, <1>1, <1>2, <1>5, <1>6, <1>7, <1>8, DrainLemma
<1>10. IInv'
  BY <1>p, <1>7, <1>9 DEF IInv, TypeOK, FifoOrder
<1>11. Answered' = Answered \cup {c}
  BY <1>4, <1>9 DEF Answered
<1> QED BY <1>4, <1>10, <1>11

LEMMA StutterStep == IInv /\ UNCHANGED vars => IInv'
  BY DEF IInv, vars, TypeOK, WaitingOK, HistoryOK, CountOK, InService, NoIdleSlot, FifoOrder

LEMMA NextInvariant == IInv /\ [Next]_vars => IInv'
<1> SUFFICES ASSUME IInv, [Next]_vars PROVE IInv'
  OBVIOUS
<1>1. ASSUME NEW c \in Calls, Submit(c) PROVE IInv'
  BY <1>1, SubmitStep
<1>2. ASSUME NEW c \in Calls, Invoke(c) \/ PortReturns(c) PROVE IInv'
  BY <1>2, InSlotStep
<1>3. ASSUME NEW c \in Calls, Settle(c) PROVE IInv'
  BY <1>3, SettleStep
<1>4. ASSUME UNCHANGED vars PROVE IInv'
  BY <1>4, StutterStep
<1> QED BY <1>1, <1>2, <1>3, <1>4 DEF Next

\* The inductive invariant holds throughout, for any set of calls.
THEOREM Invariance == Spec => []IInv
  BY InitInvariant, NextInvariant, PTL DEF Spec

-----------------------------------------------------------------------------
(* The safety properties, for every set of calls and every concurrency.     *)

\* The limiter's variables keep their types.
THEOREM TypeCorrect == Spec => []TypeOK
<1>1. IInv => TypeOK
  BY DEF IInv
<1> QED BY <1>1, Invariance, PTL

\* The counter agrees with the calls in a slot and never passes the limit
\* (fifo-port.ts: "at most maxConcurrency underlying entries are in flight").
THEOREM SlotsAreAccounted == Spec => []SlotsAccounted
<1>1. IInv => SlotsAccounted
  BY DEF IInv, TypeOK, CountOK, SlotsAccounted
<1> QED BY <1>1, Invariance, PTL

\* drain() never leaves a call waiting behind a free slot.
THEOREM NoSlotIdles == Spec => []NoIdleSlot
<1>1. IInv => NoIdleSlot
  BY DEF IInv
<1> QED BY <1>1, Invariance, PTL

\* Calls start in the order they were submitted.
THEOREM StartsAreFifo == Spec => []FifoOrder
<1>1. IInv => FifoOrder
  BY DEF IInv
<1> QED BY <1>1, Invariance, PTL

-----------------------------------------------------------------------------
(* The limiter implements JevService.                                       *)

\* What has started is exactly what the service would have begun.
LEMMA StartedIsAdmitted == IInv => started = Service!Admitted(submitted, Answered)
<1> SUFFICES ASSUME IInv PROVE started = Service!Admitted(submitted, Answered)
  OBVIOUS
<1>0. Service!Admitted(submitted, Answered) =
        SubSeq(submitted, 1, IF Len(submitted) < Cardinality(Answered) + MaxConcurrency
                             THEN Len(submitted) ELSE Cardinality(Answered) + MaxConcurrency)
  BY DEF Service!Admitted, Service!Cardinality, Cardinality
<1>1. /\ started \in Seq(Calls) /\ queue \in Seq(Calls)
      /\ submitted = started \o queue
      /\ active \in 0..MaxConcurrency
  BY DEF IInv, TypeOK, FifoOrder
<1>2. /\ IsFiniteSet(Answered)
      /\ Len(started) = Cardinality(Answered) + active
  BY DEF IInv, CountOK, Answered
<1>3. Cardinality(Answered) \in Nat
  BY <1>2, FS_CardinalityType
<1>4. Len(submitted) = Len(started) + Len(queue)
  BY <1>1, ConcatProperties
<1>5. SubSeq(submitted, 1, Len(started)) = started
  BY <1>1
<1>6. CASE queue = <<>>
  <2>1. Len(queue) = 0
    BY <1>6
  <2>2. Len(submitted) <= Cardinality(Answered) + MaxConcurrency /\ Len(submitted) = Len(started)
    BY <1>1, <1>2, <1>3, <1>4, <2>1, ConcurrencyAssumption
  <2>3. (IF Len(submitted) < Cardinality(Answered) + MaxConcurrency
         THEN Len(submitted) ELSE Cardinality(Answered) + MaxConcurrency) = Len(started)
    BY <1>1, <1>3, <2>2, ConcurrencyAssumption
  <2> QED BY <1>0, <1>5, <2>3
<1>7. CASE queue # <<>>
  <2>1. Len(queue) \in Nat /\ Len(queue) > 0
    BY <1>1, <1>7
  <2>2. active = MaxConcurrency
    BY <1>7 DEF IInv, NoIdleSlot
  <2>3. (IF Len(submitted) < Cardinality(Answered) + MaxConcurrency
         THEN Len(submitted) ELSE Cardinality(Answered) + MaxConcurrency) = Len(started)
    BY <1>1, <1>2, <1>3, <1>4, <2>1, <2>2, ConcurrencyAssumption
  <2> QED BY <1>0, <1>5, <2>3
<1> QED BY <1>6, <1>7

LEMMA StartedIsAdmittedNext == IInv' => (started = Service!Admitted(submitted, Answered))'
  BY StartedIsAdmitted, PTL

LEMMA InitRefines == Init => Service!SInit
  BY DEF Init, Service!SInit, Answered

LEMMA NextRefines == IInv /\ IInv' /\ [Next]_vars => [Service!SNext]_(Service!svars)
<1> SUFFICES ASSUME IInv, IInv', [Next]_vars PROVE [Service!SNext]_(Service!svars)
  OBVIOUS
<1>a. started' = Service!Admitted(submitted', Answered')
  BY StartedIsAdmittedNext
<1>1. ASSUME NEW c \in Calls, Submit(c) PROVE Service!Arrive(c)
  <2>1. \A i \in DOMAIN submitted : submitted[i] # c
    <3>1. submitted \in Seq(Calls) /\ phase[c] = "unsent"
      BY <1>1 DEF IInv, TypeOK, Submit
    <3>2. \A i \in 1..Len(submitted) : phase[submitted[i]] # "unsent"
      BY DEF IInv, HistoryOK
    <3> QED BY <3>1, <3>2
  <2>2. submitted' = Append(submitted, c) /\ Answered' = Answered
    BY <1>1, SubmitStep DEF Submit
  <2> QED BY <1>a, <2>1, <2>2 DEF Service!Arrive
<1>2. ASSUME NEW c \in Calls, Invoke(c) \/ PortReturns(c) PROVE UNCHANGED Service!svars
  <2>1. Answered' = Answered
    BY <1>2, InSlotStep
  <2>2. submitted' = submitted /\ started' = started
    BY <1>2 DEF Invoke, PortReturns
  <2> QED BY <2>1, <2>2 DEF Service!svars
<1>3. ASSUME NEW c \in Calls, Settle(c) PROVE Service!Finish(c)
  <2>1. \E i \in DOMAIN started : started[i] = c
    <3>1. started \in Seq(Calls) /\ phase[c] = "returned"
      BY <1>3 DEF IInv, TypeOK, Settle
    <3>2. \E i \in 1..Len(started) : started[i] = c
      BY <3>1 DEF IInv, HistoryOK
    <3> QED BY <3>1, <3>2
  <2>2. c \notin Answered /\ Answered' = Answered \cup {c}
    BY <1>3, SettleStep
  <2>3. submitted' = submitted
    BY <1>3 DEF Settle
  <2> QED BY <1>a, <2>1, <2>2, <2>3 DEF Service!Finish
<1>4. ASSUME UNCHANGED vars PROVE UNCHANGED Service!svars
  BY <1>4 DEF vars, Service!svars, Answered
<1> QED BY <1>1, <1>2, <1>3, <1>4 DEF Next, Service!SNext

\* Seen through its history the limiter is the abstract service: each step
\* begins exactly the calls the service would, in the same order.
THEOREM Refinement == Spec => ImplementsService
<1>1. Spec => Service!SSpec
  BY InitRefines, NextRefines, Invariance, PTL DEF Spec, Service!SSpec
<1> QED BY <1>1 DEF ImplementsService

-----------------------------------------------------------------------------
(* The transport behind the limiter. *)
Stages == {"idle", "credential", "dispatching", "complete"}

\* How far the transport is with a call says where the limiter has it.
StageOK(c) ==
  /\ stage[c] = "idle" => phase[c] \in {"unsent", "queued", "starting"}
  /\ stage[c] \in {"credential", "dispatching"} => phase[c] = "inFlight"
  /\ stage[c] = "complete" => phase[c] \in {"inFlight", "returned", "settled"}

\* The answers that are in: all of a complete call's, else those of the indexes
\* pulled and no longer at the SDK.
IsIn(c, i) == stage[c] = "complete" \/ (i < cursor[c] /\ i \notin flying[c])

\* Requests go out in index order, each once; while there is one to send, some
\* worker is busy and will pull it.
BatchOK(c) ==
  /\ flying[c] \subseteq {i \in Indexes(c) : i < cursor[c]}
  /\ results[c] = [i \in Indexes(c) |-> IF IsIn(c, i) THEN i ELSE Unwritten]
  /\ stage[c] \in {"idle", "credential"} => cursor[c] = 1
  /\ stage[c] = "complete" => flying[c] = {}
  /\ stage[c] = "dispatching" /\ cursor[c] \in Indexes(c) => flying[c] # {}

ShapesOK ==
  /\ stage \in [Calls -> Stages]
  /\ cursor \in [Calls -> Nat \ {0}]
  /\ flying \in [Calls -> SUBSET Nat]
  /\ results = [c \in Calls |-> results[c]]

PInv == IInv /\ ShapesOK /\ \A c \in Calls : StageOK(c) /\ BatchOK(c)

-----------------------------------------------------------------------------
(* The limiter below the transport.                                         *)

\* The steps of the transport are the limiter's, or leave it alone.
LEMMA StepsRefine == PNext => [Next]_vars
<1> SUFFICES ASSUME PNext PROVE [Next]_vars
  OBVIOUS
<1>1. PICK c \in Calls :
        \/ PSubmit(c) \/ PInvoke(c) \/ NoClient(c) \/ Dispatch(c)
        \/ \E i \in Indexes(c) : RequestReturns(c, i)
        \/ Complete(c) \/ PReturns(c) \/ PSettle(c)
  BY DEF PNext
<1>2. CASE PSubmit(c) \/ PInvoke(c) \/ PReturns(c) \/ PSettle(c)
  BY <1>2 DEF PSubmit, PInvoke, PReturns, PSettle, Next
<1>3. CASE NoClient(c) \/ Dispatch(c) \/ Complete(c) \/ \E i \in Indexes(c) : RequestReturns(c, i)
  BY <1>3 DEF NoClient, Dispatch, Complete, RequestReturns, vars
<1> QED BY <1>1, <1>2, <1>3

\* A limiter with the transport behind it is a limiter.
LEMMA LimiterUnderneath == PSpec => Spec
<1>1. PInit => Init
  BY DEF PInit
<1>2. [PNext]_pvars => [Next]_vars
  BY StepsRefine DEF pvars, vars
<1> QED BY <1>1, <1>2, PTL DEF PSpec, Spec

\* drain() moves waiting calls only.
LEMMA DrainMoves ==
  ASSUME IInv, NEW c \in Calls, Submit(c) \/ Settle(c)
  PROVE  /\ \/ phase'[c] = "settled" /\ phase[c] = "returned"
            \/ phase'[c] \in {"queued", "starting"} /\ phase[c] = "unsent"
         /\ \A d \in Calls \ {c} :
              \/ phase'[d] = phase[d]
              \/ phase[d] = "queued" /\ phase'[d] = "starting"
<1>1. /\ queue \in Seq(Calls) /\ active \in Nat /\ phase \in [Calls -> Phases]
      /\ \A i \in 1..Len(queue) : phase[queue[i]] = "queued"
  BY DEF IInv, TypeOK, WaitingOK
<1>2. CASE Submit(c)
  <2> DEFINE q == Append(queue, c)
             k == Taken(q, active)
             ph == [phase EXCEPT ![c] = "queued"]
  <2>1. q \in Seq(Calls) /\ active \in 0..MaxConcurrency
    BY <1>1 DEF IInv, TypeOK
  <2>2. k \in 0..Len(q)
    BY <2>1, TakenBounds
  <2>3. phase' = [x \in Calls |-> IF x \in {q[i] : i \in 1..k} THEN "starting" ELSE ph[x]]
    BY <1>2 DEF Submit, Drain
  <2>4. \A i \in 1..k : q[i] = c \/ phase[q[i]] = "queued"
    BY <1>1, <2>2
  <2>5. phase[c] = "unsent"
    BY <1>2 DEF Submit
  <2> HIDE DEF q, k
  <2> QED BY <1>1, <2>3, <2>4, <2>5
<1>3. CASE Settle(c)
  <2> DEFINE k == Taken(queue, active - 1)
             ph == [phase EXCEPT ![c] = "settled"]
  <2>0. phase[c] = "returned"
    BY <1>3 DEF Settle
  <2>1. active - 1 \in 0..MaxConcurrency
    <3>1. InService(phase) # {}
      BY <2>0 DEF InService
    <3>2. active # 0
      BY <3>1, FS_EmptySet DEF IInv, CountOK
    <3> QED BY <3>2, ConcurrencyAssumption DEF IInv, TypeOK
  <2>2. k \in 0..Len(queue)
    BY <1>1, <2>1, TakenBounds
  <2>3. phase' = [x \in Calls |-> IF x \in {queue[i] : i \in 1..k} THEN "starting" ELSE ph[x]]
    BY <1>3 DEF Settle, Drain
  <2>4. \A i \in 1..k : phase[queue[i]] = "queued"
    BY <1>1, <2>2
  <2> HIDE DEF k
  <2> QED BY <1>1, <2>0, <2>3, <2>4
<1> QED BY <1>2, <1>3

-----------------------------------------------------------------------------
(* The transport's own invariant.                                           *)

TransportInv == ShapesOK /\ \A c \in Calls : StageOK(c) /\ BatchOK(c)

LEMMA InitTransport == PInit => TransportInv
<1> SUFFICES ASSUME PInit PROVE TransportInv
  OBVIOUS
<1>1. ShapesOK
  BY DEF PInit, ShapesOK, Stages
<1>2. ASSUME NEW c \in Calls PROVE StageOK(c) /\ BatchOK(c)
  BY SizeAssumption DEF PInit, Init, StageOK, BatchOK, IsIn, Indexes, Unwritten
<1> QED BY <1>1, <1>2 DEF TransportInv

\* Only the phases move: the batches stay as they are.
LEMMA BatchesUnchanged ==
  ASSUME TransportInv, UNCHANGED tvars
  PROVE  ShapesOK' /\ \A c \in Calls : BatchOK(c)'
BY DEF TransportInv, tvars, ShapesOK, BatchOK, IsIn

LEMMA LimiterSteps ==
  ASSUME PInv, NEW c \in Calls, PSubmit(c) \/ PSettle(c) \/ PReturns(c)
  PROVE  TransportInv'
<1>0. TransportInv /\ IInv
  BY DEF PInv, TransportInv
<1>1. UNCHANGED tvars
  BY DEF PSubmit, PSettle, PReturns
<1>2. ShapesOK' /\ \A d \in Calls : BatchOK(d)'
  BY <1>0, <1>1, BatchesUnchanged
<1>3. ASSUME NEW d \in Calls PROVE StageOK(d)'
  <2>1. StageOK(d) /\ StageOK(c) /\ stage[d] \in Stages /\ stage[c] \in Stages /\ stage' = stage
    BY <1>0, <1>1 DEF TransportInv, ShapesOK, tvars
  <2>2. CASE PSubmit(c) \/ PSettle(c)
    <3>1. /\ \/ phase'[c] = "settled" /\ phase[c] = "returned"
             \/ phase'[c] \in {"queued", "starting"} /\ phase[c] = "unsent"
          /\ d # c => \/ phase'[d] = phase[d]
                      \/ phase[d] = "queued" /\ phase'[d] = "starting"
      BY <1>0, <2>2, DrainMoves DEF PSubmit, PSettle
    <3> QED BY <2>1, <3>1 DEF StageOK, Stages
  <2>3. CASE PReturns(c)
    <3>1. phase' = [phase EXCEPT ![c] = "returned"] /\ stage[c] = "complete"
      BY <2>3 DEF PReturns, PortReturns
    <3>2. phase \in [Calls -> Phases]
      BY <1>0 DEF IInv, TypeOK
    <3> QED BY <2>1, <3>1, <3>2 DEF StageOK
  <2> QED BY <2>2, <2>3
<1> QED BY <1>2, <1>3 DEF TransportInv

LEMMA InvokeStep ==
  ASSUME PInv, NEW c \in Calls, PInvoke(c)
  PROVE  TransportInv'
<1>1. /\ phase[c] = "starting"
      /\ phase' = [phase EXCEPT ![c] = "inFlight"]
      /\ stage' = [stage EXCEPT ![c] = "credential"]
      /\ UNCHANGED <<cursor, flying, results>>
  BY DEF PInvoke, Invoke
<1>2. ShapesOK /\ phase \in [Calls -> Phases]
  BY DEF PInv, IInv, TypeOK
<1>3. stage[c] = "idle"
  BY <1>1, <1>2 DEF PInv, StageOK, ShapesOK, Stages
<1>4. ShapesOK'
  BY <1>1, <1>2 DEF ShapesOK, Stages
<1>5. ASSUME NEW d \in Calls PROVE StageOK(d)' /\ BatchOK(d)'
  <2>1. StageOK(d) /\ BatchOK(d)
    BY DEF PInv
  <2>2. CASE d = c
    <3>1. stage'[d] = "credential" /\ phase'[d] = "inFlight"
      BY <1>1, <1>2, <2>2 DEF ShapesOK
    <3>2. \A i \in Indexes(d) : IsIn(d, i)' <=> IsIn(d, i)
      BY <1>1, <1>3, <2>2, <3>1 DEF IsIn
    <3> QED BY <1>1, <1>3, <2>1, <2>2, <3>1, <3>2 DEF StageOK, BatchOK
  <2>3. CASE d # c
    <3>1. stage'[d] = stage[d] /\ phase'[d] = phase[d]
      BY <1>1, <1>2, <2>3 DEF ShapesOK
    <3> QED BY <1>1, <2>1, <3>1 DEF StageOK, BatchOK, IsIn
  <2> QED BY <2>2, <2>3
<1> QED BY <1>4, <1>5 DEF TransportInv

LEMMA NoClientStep ==
  ASSUME PInv, NEW c \in Calls, NoClient(c)
  PROVE  TransportInv'
<1>1. /\ stage[c] = "credential"
      /\ stage' = [stage EXCEPT ![c] = "complete"]
      /\ results' = [results EXCEPT ![c] = [i \in Indexes(c) |-> i]]
      /\ UNCHANGED <<phase, cursor, flying>>
  BY DEF NoClient
<1>2. ShapesOK
  BY DEF PInv
<1>3. ShapesOK'
  BY <1>1, <1>2 DEF ShapesOK, Stages
<1>4. ASSUME NEW d \in Calls PROVE StageOK(d)' /\ BatchOK(d)'
  <2>1. StageOK(d) /\ BatchOK(d)
    BY DEF PInv
  <2>2. CASE d = c
    <3>1. stage'[d] = "complete" /\ results'[d] = [i \in Indexes(d) |-> i]
      BY <1>1, <1>2, <2>2 DEF ShapesOK
    <3>2. flying[d] = {}
      BY <1>1, <2>1, <2>2, SizeAssumption DEF BatchOK, Indexes
    <3> QED BY <1>1, <2>1, <2>2, <3>1, <3>2 DEF StageOK, BatchOK, IsIn
  <2>3. CASE d # c
    <3>1. stage'[d] = stage[d] /\ results'[d] = results[d]
      BY <1>1, <1>2, <2>3 DEF ShapesOK
    <3> QED BY <1>1, <2>1, <3>1 DEF StageOK, BatchOK, IsIn
  <2> QED BY <2>2, <2>3
<1> QED BY <1>3, <1>4 DEF TransportInv

LEMMA DispatchStep ==
  ASSUME PInv, NEW c \in Calls, Dispatch(c)
  PROVE  TransportInv'
<1>1. /\ stage[c] = "credential"
      /\ stage' = [stage EXCEPT ![c] = "dispatching"]
      /\ flying' = [flying EXCEPT ![c] = 1..Workers(c)]
      /\ cursor' = [cursor EXCEPT ![c] = Workers(c) + 1]
      /\ UNCHANGED <<phase, results>>
  BY DEF Dispatch
<1>2. ShapesOK
  BY DEF PInv
<1>3. /\ Size[c] \in Nat \ {0}
      /\ Workers(c) \in 1..Size[c]
  BY SizeAssumption, BatchAssumption DEF Workers
<1>4. ShapesOK'
  BY <1>1, <1>2, <1>3 DEF ShapesOK, Stages
<1>5. ASSUME NEW d \in Calls PROVE StageOK(d)' /\ BatchOK(d)'
  <2>1. StageOK(d) /\ BatchOK(d)
    BY DEF PInv
  <2>2. CASE d = c
    <3>1. stage'[d] = "dispatching" /\ flying'[d] = 1..Workers(c) /\ cursor'[d] = Workers(c) + 1
      BY <1>1, <1>2, <2>2 DEF ShapesOK
    <3>2. \A i \in Indexes(d) : ~IsIn(d, i) /\ ~IsIn(d, i)'
      BY <1>1, <1>3, <2>1, <2>2, <3>1 DEF BatchOK, IsIn, Indexes
    <3>3. results'[d] = [i \in Indexes(d) |-> IF IsIn(d, i)' THEN i ELSE Unwritten]
      BY <1>1, <2>1, <3>2 DEF BatchOK
    <3>4. flying'[d] \subseteq {i \in Indexes(d) : i < cursor'[d]} /\ flying'[d] # {}
      BY <1>3, <2>2, <3>1 DEF Indexes
    <3> QED BY <1>1, <2>1, <2>2, <3>1, <3>3, <3>4 DEF StageOK, BatchOK
  <2>3. CASE d # c
    <3>1. stage'[d] = stage[d] /\ flying'[d] = flying[d] /\ cursor'[d] = cursor[d]
      BY <1>1, <1>2, <2>3 DEF ShapesOK
    <3> QED BY <1>1, <2>1, <3>1 DEF StageOK, BatchOK, IsIn
  <2> QED BY <2>2, <2>3
<1> QED BY <1>4, <1>5 DEF TransportInv

\* An answer comes in: its worker pulls the next index, if there is one.
LEMMA ReturnStep ==
  ASSUME PInv, NEW c \in Calls, NEW i \in Indexes(c), RequestReturns(c, i)
  PROVE  TransportInv'
<1> DEFINE next == {cursor[c]} \cap Indexes(c)
<1>1. /\ i \in flying[c]
      /\ results' = [results EXCEPT ![c][i] = i]
      /\ flying' = [flying EXCEPT ![c] = (@ \ {i}) \cup next]
      /\ cursor' = [cursor EXCEPT ![c] = @ + 1]
      /\ UNCHANGED <<phase, stage>>
  BY DEF RequestReturns
<1>2. ShapesOK /\ BatchOK(c)
  BY DEF PInv
<1>3. /\ cursor[c] \in Nat \ {0} /\ i < cursor[c] /\ i \in Nat
      /\ flying[c] \subseteq {j \in Indexes(c) : j < cursor[c]}
      /\ Indexes(c) = 1..Size[c] /\ Size[c] \in Nat \ {0}
  BY <1>1, <1>2, SizeAssumption DEF BatchOK, ShapesOK, Indexes
<1>4. stage[c] = "dispatching"
  BY <1>1, <1>2, <1>3 DEF BatchOK, ShapesOK, Stages
<1>5. /\ flying'[c] = (flying[c] \ {i}) \cup next
      /\ cursor'[c] = cursor[c] + 1
      /\ results'[c] = [results[c] EXCEPT ![i] = i]
      /\ \A d \in Calls \ {c} :
           flying'[d] = flying[d] /\ cursor'[d] = cursor[d] /\ results'[d] = results[d]
  BY <1>1, <1>2 DEF ShapesOK
<1>6. ShapesOK'
  <2>1. flying' \in [Calls -> SUBSET Nat] /\ cursor' \in [Calls -> Nat \ {0}]
    BY <1>1, <1>2, <1>3 DEF ShapesOK
  <2>2. results' = [d \in Calls |-> results'[d]]
    BY <1>1, <1>2 DEF ShapesOK
  <2> QED BY <1>1, <1>2, <2>1, <2>2 DEF ShapesOK
<1>7. BatchOK(c)'
  <2>1. \A j \in Indexes(c) : IsIn(c, j)' <=> (IsIn(c, j) \/ j = i)
    BY <1>1, <1>3, <1>4, <1>5 DEF IsIn
  <2>2. results'[c] = [j \in Indexes(c) |-> IF IsIn(c, j)' THEN j ELSE Unwritten]
    BY <1>2, <1>5, <2>1 DEF BatchOK
  <2>3. flying'[c] \subseteq {j \in Indexes(c) : j < cursor'[c]}
    BY <1>3, <1>5
  <2>4. cursor'[c] \in Indexes(c) => flying'[c] # {}
    BY <1>3, <1>5
  <2> QED BY <1>1, <1>4, <2>2, <2>3, <2>4 DEF BatchOK
<1>8. ASSUME NEW d \in Calls PROVE StageOK(d)' /\ BatchOK(d)'
  <2>1. StageOK(d) /\ BatchOK(d)
    BY DEF PInv
  <2>2. StageOK(d)'
    BY <1>1, <2>1 DEF StageOK
  <2>3. CASE d # c
    <3>1. flying'[d] = flying[d] /\ cursor'[d] = cursor[d] /\ results'[d] = results[d]
      BY <1>5, <2>3
    <3>2. BatchOK(d)'
      BY <1>1, <2>1, <3>1 DEF BatchOK, IsIn
    <3> QED BY <2>2, <3>2
  <2> QED BY <1>7, <2>2, <2>3
<1> QED BY <1>6, <1>8 DEF TransportInv

LEMMA CompleteStep ==
  ASSUME PInv, NEW c \in Calls, Complete(c)
  PROVE  TransportInv'
<1>1. /\ stage[c] = "dispatching" /\ flying[c] = {}
      /\ stage' = [stage EXCEPT ![c] = "complete"]
      /\ UNCHANGED <<phase, cursor, flying, results>>
  BY DEF Complete
<1>2. ShapesOK /\ BatchOK(c)
  BY DEF PInv
<1>3. ShapesOK'
  BY <1>1, <1>2 DEF ShapesOK, Stages
<1>4. \A i \in Indexes(c) : IsIn(c, i)
  <2>1. cursor[c] \in Nat \ {0} /\ cursor[c] \notin 1..Size[c] /\ Size[c] \in Nat
    BY <1>1, <1>2, SizeAssumption DEF BatchOK, ShapesOK, Indexes
  <2> QED BY <1>1, <2>1 DEF IsIn, Indexes
<1>5. ASSUME NEW d \in Calls PROVE StageOK(d)' /\ BatchOK(d)'
  <2>1. StageOK(d) /\ BatchOK(d)
    BY DEF PInv
  <2>2. CASE d = c
    <3>1. stage'[d] = "complete"
      BY <1>1, <1>2, <2>2 DEF ShapesOK
    <3>2. \A i \in Indexes(d) : IsIn(d, i)' <=> IsIn(d, i)
      BY <1>4, <2>2, <3>1 DEF IsIn
    <3> QED BY <1>1, <2>1, <2>2, <3>1, <3>2 DEF StageOK, BatchOK
  <2>3. CASE d # c
    <3>1. stage'[d] = stage[d]
      BY <1>1, <1>2, <2>3 DEF ShapesOK
    <3> QED BY <1>1, <2>1, <3>1 DEF StageOK, BatchOK, IsIn
  <2> QED BY <2>2, <2>3
<1> QED BY <1>3, <1>5 DEF TransportInv

LEMMA NextTransport == PInv /\ [PNext]_pvars => TransportInv'
<1> SUFFICES ASSUME PInv, [PNext]_pvars PROVE TransportInv'
  OBVIOUS
<1>1. CASE UNCHANGED pvars
  BY <1>1 DEF PInv, TransportInv, pvars, ShapesOK, StageOK, BatchOK, IsIn
<1>2. ASSUME PNext PROVE TransportInv'
  <2>1. PICK c \in Calls :
          \/ PSubmit(c) \/ PInvoke(c) \/ NoClient(c) \/ Dispatch(c)
          \/ \E i \in Indexes(c) : RequestReturns(c, i)
          \/ Complete(c) \/ PReturns(c) \/ PSettle(c)
    BY <1>2 DEF PNext
  <2> QED BY <2>1, LimiterSteps, InvokeStep, NoClientStep, DispatchStep, ReturnStep, CompleteStep
<1> QED BY <1>1, <1>2

-----------------------------------------------------------------------------
(* The theorems.                                                            *)

\* The inductive invariant of limiter and transport together (fifo-port.ts,
\* transport.ts).
THEOREM PipelineInvariance == PSpec => []PInv
<1>1. PInit => TransportInv
  BY InitTransport
<1>2. PInv <=> IInv /\ TransportInv
  BY DEF PInv, TransportInv
<1>3. IInv /\ TransportInv /\ [PNext]_pvars => TransportInv'
  BY <1>2, NextTransport
<1> QED BY <1>1, <1>2, <1>3, LimiterUnderneath, Invariance, PTL DEF PSpec

\* However the SDK answers, every request is sent once, its answer is at its
\* index, and a caller that gets its reply gets every answer (transport.ts).
THEOREM AnswersAreAligned == PSpec => []RepliesAligned
<1>1. PInv => RepliesAligned
  <2> SUFFICES ASSUME PInv, NEW c \in Calls
               PROVE  /\ \A i \in flying[c] : results[c][i] = Unwritten
                      /\ phase[c] \in {"returned", "settled"} =>
                           \A i \in Indexes(c) : results[c][i] = i
    BY DEF RepliesAligned
  <2>1. StageOK(c) /\ BatchOK(c) /\ stage[c] \in Stages
    BY DEF PInv, ShapesOK
  <2>2. \A i \in flying[c] : results[c][i] = Unwritten
    BY <2>1 DEF BatchOK, IsIn
  <2>3. phase[c] \in {"returned", "settled"} => stage[c] = "complete"
    BY <2>1 DEF StageOK, Stages
  <2> QED BY <2>1, <2>2, <2>3 DEF BatchOK, IsIn
<1> QED BY <1>1, PipelineInvariance, PTL

\* Behind the limiter the transport never leaves a slot idle while a call
\* waits (fifo-port.ts drain).
THEOREM PipelineKeepsSlotsBusy == PSpec => []NoIdleSlot
BY LimiterUnderneath, NoSlotIdles, PTL

\* Limiter and transport together implement the abstract service: calls start
\* in the order of submission, within the limit (fifo-port.ts).
THEOREM PipelineImplementsService == PSpec => ImplementsService
BY LimiterUnderneath, Refinement
=============================================================================
