------------------------- MODULE OpenCode_proofs -------------------------
(***************************************************************************)
(* Proofs about OpenCode's attribution, for any sessions, any nesting one  *)
(* level deep, any number of executions and replies, and any of the        *)
(* faults: what overlapped is refused, and an attributed turn's patch and  *)
(* reply are its own, while the tracker has room for the open executions.  *)
(*                                                                         *)
(* The argument follows the line of events the plugin has not worked off:  *)
(* the queue, then the events still coming.  Who ran with whom is told by  *)
(* the order of starts and ends in that line, and the tracker reads it in  *)
(* that order however far the host is ahead.                               *)
(*                                                                         *)
(* Then the same plugin's installation: whatever the commands and the user *)
(* do, opencode.json is what the user left or that with the entry, and a   *)
(* process has remediation on only for what the user's own file says.      *)
(***************************************************************************)
EXTENDS TurnTracker, Setup, ListLemmas, FiniteSetTheorems, TLAPS

\* The tracker never has to forget an open execution: at most MAX_OPEN_SNAPSHOTS
\* sessions are in progress at once.
RoomToOpen ==
  tasks # <<>> /\ Head(tasks).kind = "STARTED" =>
    Len(WithoutOpen(SessionOf(Head(tasks).execution))) < MaxOpenSnapshots

-----------------------------------------------------------------------------
(* The line of events: the queue, then what the plugin has not handled.     *)

Waiting == Len(tasks) + Len(events)
Item(i) == IF i <= Len(tasks) THEN tasks[i] ELSE events[i - Len(tasks)]
Tag(i) == IF Item(i).kind = "STARTED" THEN "start" ELSE "end"
Who(i) == Item(i).execution

Pending(tag, e) == \E i \in 1..Waiting : Tag(i) = tag /\ Who(i) = e
Starting(e) == Pending("start", e)
Ending(e) == Pending("end", e)

\* Every item <<tag, e>> comes before every item <<tag2, f>>.
Before(tag, e, tag2, f) ==
  \A i, j \in 1..Waiting :
    Tag(i) = tag /\ Who(i) = e /\ Tag(j) = tag2 /\ Who(j) = f => i < j

\* The second of two equal ends is all that is left of the first.
Repeated(e) == Waiting > 0 /\ Tag(1) = "end" /\ Who(1) = e

Known == UNION {{<<s, k>> : k \in 1..Len(context[s])} : s \in Sessions}
Live(e) == e[1] \in running /\ e = Current(e[1])
Met(e, f) == {e, f} \in overlaps

\* Execution f of a nested session ran inside execution e of its parent.
IsInside(f, e) == Met(f, e) /\ Parent[f[1]] = e[1]

-----------------------------------------------------------------------------
(* The inductive invariant.                                                 *)

ShapesOK ==
  /\ context \in [Sessions -> Seq(Nat)]
  /\ running \subseteq Sessions
  /\ \A s \in running : Len(context[s]) > 0
  /\ made \subseteq Known \X {"shown", "ignored"}
  /\ IsList(tasks) /\ IsList(events) /\ IsList(open)
  /\ nestedRoots \in [Sessions -> Sessions \union {None}]
  /\ \A s \in Sessions : nestedRoots[s] \in {None, Parent[s]}
  /\ writes \in [Sessions -> SUBSET made]
  /\ \A o \in Members(open) : o.execution \in Known /\ (o.snapshot # None => o.snapshot \subseteq made)

\* Who runs, and who has run together.
HostOK ==
  /\ \A p \in overlaps : \E e, f \in Known : p = {e, f} /\ e[1] # f[1]
  /\ \A s, t \in running : s # t => Met(Current(s), Current(t))
  /\ \A s \in running : Parent[s] # None => Parent[s] \in running
  /\ \A e \in Known : Parent[e[1]] # None => \E f \in Known : IsInside(e, f)
  /\ \A e, f \in Known : IsInside(f, e) /\ Live(f) => Live(e)
  /\ \A e, f \in Known :
       Met(f, e) /\ Parent[f[1]] \notin {None, e[1]} =>
         \E g \in Known : g[1] = Parent[f[1]] /\ Met(g, e)

\* The executions of a session are in the line in their order, each with its
\* start before its end, up to the newest.
LineOK ==
  /\ \A i \in 1..Waiting : Who(i) \in Known
  /\ \A i, j \in 1..Waiting :
       i < j /\ Who(i)[1] = Who(j)[1] =>
         Who(i)[2] < Who(j)[2] \/ (Who(i) = Who(j) /\ Tag(j) = "end")
  /\ \A i \in 1..Waiting : \A e \in Known :
       e[1] = Who(i)[1] /\ e[2] > Who(i)[2] => Starting(e)
  /\ \A s \in running : ~Ending(Current(s))
  /\ \A i, m, j \in 1..Waiting :
       i < m /\ m < j /\ Tag(i) = "end" /\ Who(i) = Who(j) => Who(m) = Who(i)

\* An execution is over only with its end in the line.
Going(e) == Live(e) \/ Ending(e)

\* Of two executions that met, neither ends in the line before the other starts.
OrderOK ==
  /\ \A e \in Known : Starting(e) => Going(e)
  /\ \A e, f \in Known :
       /\ Met(e, f) /\ Starting(f) => Going(e) /\ Before("start", f, "end", e)
       /\ IsInside(f, e) => Before("end", f, "end", e) /\ Before("start", e, "start", f)
       /\ IsInside(f, e) /\ Starting(e) => Starting(f)

OneEach(q) == \A i, j \in DOMAIN q : q[i].execution[1] = q[j].execution[1] => i = j

\* An open record is that of an execution begun and not over, every such
\* execution of a root session has one, and it is flagged if another met it.
RecordsOK ==
  /\ OneEach(open)
  /\ \A o \in Members(open) :
       ~Starting(o.execution) /\ Going(o.execution) /\ nestedRoots[o.execution[1]] = None
  /\ \A e \in Known :
       e[1] \in Roots /\ ~Starting(e) /\ Going(e) =>
         Repeated(e) \/ \E o \in Members(open) : o.execution = e
  /\ \A o \in Members(open) : \A f \in Known :
       Met(o.execution, f) /\ f[1] \in Roots /\ ~Starting(f) => o.concurrent
  /\ \A s \in Sessions :
       nestedRoots[s] # None => \E e \in Known : e[1] = s /\ ~Starting(e) /\ Going(e)

\* An execution taken for attribution is over and met no root execution.
Alone(e) ==
  e \in Known /\ ~Live(e) /\ \A f \in Known : Met(e, f) => f[1] \notin Roots
AloneOK ==
  /\ work # None => Alone(work.execution)
  /\ \A t \in Attributed : Alone(t.execution)

\* An end the host did not overtake: nothing started since.
Late(e) == <<e, "late">> \in crossings
LateOK ==
  \A e \in Known :
    Ending(e) \/ (work # None /\ work.execution = e) =>
      Late(e) \/ (/\ ~Live(e) /\ e = Current(e[1])
                  /\ \A s \in running : Met(Current(s), e))

IsFinish(w) ==
  w = [execution |-> w.execution, snapshot |-> w.snapshot, written |-> w.written, reply |-> w.reply]

ReplyOK ==
  /\ IsList(attributed)
  /\ work # None => IsFinish(work)
  /\ \A i, j \in DOMAIN attributed : attributed[i].reply = attributed[j].reply => i = j
  /\ \A t \in Attributed : t.reply \in processed
  /\ work # None /\ work.reply # None =>
       /\ work.reply \notin processed
       /\ work.snapshot # None
       /\ Late(work.execution) \/ work.reply[1] = work.execution
  /\ \A t \in Attributed : Late(t.execution) \/ t.reply[1] = t.execution

\* What changed since a start snapshot was made by its execution or by one it met.
SnapshotOK(e, snapshot) ==
  snapshot # None =>
    /\ snapshot \subseteq made
    /\ Late(e) \/ \A c \in Tree \ snapshot : c[1] = e \/ Met(c[1], e)
PatchOK ==
  /\ \A o \in Members(open) : SnapshotOK(o.execution, o.snapshot)
  /\ work # None => SnapshotOK(work.execution, work.snapshot)
  /\ PatchIsOwn

\* The changes of an execution that was open before its first are not in its
\* snapshot, and all of them are recorded or will be.
Early(e) == <<e, "early">> \in crossings
Crossed(f) == <<f, "crossed">> \in crossings
Recorded(e, c) ==
  \/ c \in writes[e[1]]
  \/ /\ c[1] # e /\ c \in writes[c[1][1]]
     /\ Going(c[1])
     /\ Starting(c[1]) \/ nestedRoots[c[1][1]] = e[1]
Clear(e) == ~Early(e) /\ \A f \in Inside(e) : ~Crossed(f)
EarlyOK ==
  /\ \A e \in Known : e[1] \in Roots /\ Starting(e) /\ ~Early(e) => Own(e) = {}
  /\ \A o \in Members(open) :
       /\ o.execution[1] \in Roots /\ ~Early(o.execution) /\ o.snapshot # None
       => Own(o.execution) \intersect o.snapshot = {}
RecordedOK ==
  /\ \A o \in Members(open) :
       o.execution[1] \in Roots /\ Clear(o.execution) /\ ~o.concurrent =>
         \A c \in Own(o.execution) : Recorded(o.execution, c)
  /\ \A o \in Members(open) : \A f \in Known :
       /\ o.execution[1] \in Roots /\ ~o.concurrent
       /\ IsInside(f, o.execution) /\ ~Starting(f) /\ Going(f)
       => Repeated(f) \/ nestedRoots[f[1]] = o.execution[1]
CrossedOK ==
  \A i \in 1..Waiting : \A f \in Known :
    Tag(i) = "end" /\ f[1] = Who(i)[1] /\ Who(i)[2] < f[2] => Crossed(f)
WorkOK ==
  work # None =>
    /\ ~Early(work.execution) /\ work.snapshot # None
       => Own(work.execution) \intersect work.snapshot = {}
    /\ Clear(work.execution) => Own(work.execution) \subseteq work.written
WholeOK == EarlyOK /\ RecordedOK /\ CrossedOK /\ WorkOK /\ PatchIsWhole

IInv ==
  /\ ShapesOK /\ HostOK /\ LineOK /\ OrderOK /\ RecordsOK /\ AloneOK
  /\ LateOK /\ ReplyOK /\ PatchOK /\ WholeOK

-----------------------------------------------------------------------------
(* How a step moves the line.                                               *)

Grows(tag, e) ==
  /\ Waiting' = Waiting + 1
  /\ \A i \in 1..Waiting' :
       IF i <= Waiting THEN Tag(i)' = Tag(i) /\ Who(i)' = Who(i) ELSE Tag(i)' = tag /\ Who(i)' = e
Stays ==
  /\ Waiting' = Waiting
  /\ \A i \in 1..Waiting : Tag(i)' = Tag(i) /\ Who(i)' = Who(i)
Takes(tag, e) ==
  /\ Waiting > 0 /\ Waiting' = Waiting - 1
  /\ Tag(1) = tag /\ Who(1) = e
  /\ \A i \in 1..Waiting' : Tag(i)' = Tag(i + 1) /\ Who(i)' = Who(i + 1)

LEMMA GrowsFacts ==
  ASSUME NEW tag, NEW e, Waiting \in Nat, Grows(tag, e)
  PROVE  /\ \A t, x : Pending(t, x)' <=> Pending(t, x) \/ (t = tag /\ x = e)
         /\ \A t, x, u, y :
              Before(t, x, u, y) /\ ~(t = tag /\ x = e /\ (Pending(u, y) \/ (u = tag /\ y = e)))
              => Before(t, x, u, y)'
         /\ \A x : Repeated(x) => Repeated(x)'
<1>1. ASSUME NEW t, NEW x PROVE Pending(t, x)' <=> Pending(t, x) \/ (t = tag /\ x = e)
  <2>1. Pending(t, x)' => Pending(t, x) \/ (t = tag /\ x = e)
    BY DEF Pending, Grows
  <2>2. ASSUME Pending(t, x) PROVE Pending(t, x)'
    <3>1. PICK i \in 1..Waiting : Tag(i) = t /\ Who(i) = x
      BY <2>2 DEF Pending
    <3>2. i \in 1..Waiting' /\ Tag(i)' = t /\ Who(i)' = x
      BY <3>1 DEF Grows
    <3> QED BY <3>2 DEF Pending
  <2>3. ASSUME t = tag, x = e PROVE Pending(t, x)'
    <3>1. PICK i : i = Waiting + 1
      OBVIOUS
    <3>2. i \in 1..Waiting' /\ Tag(i)' = t /\ Who(i)' = x
      BY <2>3, <3>1 DEF Grows
    <3> QED BY <3>2 DEF Pending
  <2> QED BY <2>1, <2>2, <2>3
<1>2. ASSUME NEW t, NEW x, NEW u, NEW y,
             Before(t, x, u, y), ~(t = tag /\ x = e /\ (Pending(u, y) \/ (u = tag /\ y = e)))
      PROVE  Before(t, x, u, y)'
  <2>1. ASSUME NEW i \in 1..Waiting', NEW j \in 1..Waiting',
               Tag(i)' = t, Who(i)' = x, Tag(j)' = u, Who(j)' = y
        PROVE  i < j
    <3>1. CASE i <= Waiting /\ j <= Waiting
      BY <1>2, <2>1, <3>1 DEF Before, Grows
    <3>2. CASE i <= Waiting /\ ~(j <= Waiting)
      BY <3>2 DEF Grows
    <3>3. CASE ~(i <= Waiting)
      <4>1. t = tag /\ x = e
        BY <2>1, <3>3 DEF Grows
      <4>2. ~Pending(u, y) /\ ~(u = tag /\ y = e)
        BY <1>2, <4>1
      <4> QED BY <2>1, <4>2 DEF Grows, Pending
    <3> QED BY <3>1, <3>2, <3>3
  <2> QED BY <2>1 DEF Before
<1>3. ASSUME NEW x, Repeated(x) PROVE Repeated(x)'
  BY <1>3 DEF Grows, Repeated
<1> QED BY <1>1, <1>2, <1>3

LEMMA StaysFacts ==
  ASSUME Waiting \in Nat, Stays
  PROVE  /\ \A t, x : Pending(t, x)' <=> Pending(t, x)
         /\ \A t, x, u, y : Before(t, x, u, y) => Before(t, x, u, y)'
         /\ \A x : Repeated(x) => Repeated(x)'
<1>1. ASSUME NEW t, NEW x PROVE Pending(t, x)' <=> Pending(t, x)
  BY DEF Pending, Stays
<1>2. ASSUME NEW t, NEW x, NEW u, NEW y, Before(t, x, u, y) PROVE Before(t, x, u, y)'
  BY <1>2 DEF Before, Stays
<1>3. ASSUME NEW x, Repeated(x) PROVE Repeated(x)'
  BY <1>3 DEF Repeated, Stays
<1> QED BY <1>1, <1>2, <1>3

LEMMA TakesFacts ==
  ASSUME NEW tag, NEW e, Waiting \in Nat, Takes(tag, e)
  PROVE  /\ Pending(tag, e)
         /\ \A t, x : Pending(t, x)' => Pending(t, x)
         /\ \A t, x : Pending(t, x) => Pending(t, x)' \/ (t = tag /\ x = e)
         /\ \A t, x, u, y : Before(t, x, u, y) => Before(t, x, u, y)'
         /\ \A t, x : Before(t, x, tag, e) => ~Pending(t, x)
         /\ \A x : ~(tag = "end" /\ x = e) => ~Repeated(x)
<1>0. Pending(tag, e)
  BY DEF Pending, Takes
<1>1. ASSUME NEW t, NEW x, Pending(t, x)' PROVE Pending(t, x)
  <2>1. PICK i \in 1..Waiting' : Tag(i)' = t /\ Who(i)' = x
    BY <1>1 DEF Pending
  <2>2. i + 1 \in 1..Waiting /\ Tag(i + 1) = t /\ Who(i + 1) = x
    BY <2>1 DEF Takes
  <2> QED BY <2>2 DEF Pending
<1>2. ASSUME NEW t, NEW x, Pending(t, x), ~(t = tag /\ x = e) PROVE Pending(t, x)'
  <2>1. PICK i \in 1..Waiting : Tag(i) = t /\ Who(i) = x
    BY <1>2 DEF Pending
  <2>2. i # 1
    BY <1>2, <2>1 DEF Takes
  <2>3. PICK k : k = i - 1
    OBVIOUS
  <2>4. k \in 1..Waiting' /\ k + 1 = i
    BY <2>1, <2>2, <2>3 DEF Takes
  <2>5. Tag(k)' = t /\ Who(k)' = x
    BY <2>1, <2>4 DEF Takes
  <2> QED BY <2>4, <2>5 DEF Pending
<1>3. ASSUME NEW t, NEW x, NEW u, NEW y, Before(t, x, u, y) PROVE Before(t, x, u, y)'
  <2>1. ASSUME NEW i \in 1..Waiting', NEW j \in 1..Waiting',
               Tag(i)' = t, Who(i)' = x, Tag(j)' = u, Who(j)' = y
        PROVE  i < j
    <3>1. i + 1 \in 1..Waiting /\ j + 1 \in 1..Waiting
      BY DEF Takes
    <3>2. Tag(i + 1) = t /\ Who(i + 1) = x /\ Tag(j + 1) = u /\ Who(j + 1) = y
      BY <2>1 DEF Takes
    <3>3. i + 1 < j + 1
      BY <1>3, <3>1, <3>2 DEF Before
    <3> QED BY <3>3
  <2> QED BY <2>1 DEF Before
<1>4. ASSUME NEW t, NEW x, Before(t, x, tag, e) PROVE ~Pending(t, x)
  <2>1. 1 \in 1..Waiting /\ Tag(1) = tag /\ Who(1) = e
    BY DEF Takes
  <2>2. ASSUME NEW i \in 1..Waiting, Tag(i) = t, Who(i) = x PROVE FALSE
    BY <1>4, <2>1, <2>2 DEF Before
  <2> QED BY <2>2 DEF Pending
<1>5. ASSUME NEW x, ~(tag = "end" /\ x = e) PROVE ~Repeated(x)
  BY <1>5 DEF Repeated, Takes
<1> QED BY <1>0, <1>1, <1>2, <1>3, <1>4, <1>5

-----------------------------------------------------------------------------
(* The executions of the host, and what its steps do to them.               *)

LEMMA KnownIs ==
  ASSUME context \in [Sessions -> Seq(Nat)], NEW e
  PROVE  e \in Known <=> /\ e = <<e[1], e[2]>> /\ e[1] \in Sessions
                         /\ e[2] \in Nat /\ 1 <= e[2] /\ e[2] <= Len(context[e[1]])
<1>1. \A s \in Sessions : Len(context[s]) \in Nat
  BY LenProperties
<1>2. ASSUME e \in Known
      PROVE  /\ e = <<e[1], e[2]>> /\ e[1] \in Sessions
             /\ e[2] \in Nat /\ 1 <= e[2] /\ e[2] <= Len(context[e[1]])
  <2>1. PICK s \in Sessions : e \in {<<s, k>> : k \in 1..Len(context[s])}
    BY <1>2 DEF Known
  <2>2. PICK k \in 1..Len(context[s]) : e = <<s, k>>
    BY <2>1
  <2>3. e[1] = s /\ e[2] = k
    BY <2>2
  <2> QED BY <1>1, <2>2, <2>3
<1>3. ASSUME e = <<e[1], e[2]>>, e[1] \in Sessions, e[2] \in Nat, 1 <= e[2], e[2] <= Len(context[e[1]])
      PROVE  e \in Known
  <2>1. e[2] \in 1..Len(context[e[1]])
    BY <1>1, <1>3
  <2>2. e \in {<<e[1], k>> : k \in 1..Len(context[e[1]])}
    BY <1>3, <2>1
  <2> QED BY <1>3, <2>2 DEF Known
<1> QED BY <1>2, <1>3

KnownTold ==
  context \in [Sessions -> Seq(Nat)] =>
    \A e : e \in Known <=> /\ e = <<e[1], e[2]>> /\ e[1] \in Sessions
                           /\ e[2] \in Nat /\ 1 <= e[2] /\ e[2] <= Len(context[e[1]])
LEMMA KnownIsTold == KnownTold
BY KnownIs DEF KnownTold

\* What is used of the executions everywhere: they are pairs, the newest of a
\* session that runs is one, and only that one is live.
LEMMA Executions ==
  ASSUME ShapesOK
  PROVE  /\ \A e \in Known : /\ e = <<e[1], e[2]>> /\ e[1] \in Sessions
                             /\ e[2] \in Nat /\ 1 <= e[2] /\ e[2] <= Current(e[1])[2]
         /\ \A s \in Sessions : Current(s) = <<s, Len(context[s])>> /\ Len(context[s]) \in Nat
                                /\ Current(s)[1] = s /\ Current(s)[2] = Len(context[s])
         /\ \A s \in running : Current(s) \in Known /\ Live(Current(s)) /\ s \in Sessions
         /\ \A e \in Known : Live(e) => e[1] \in running /\ e = Current(e[1])
<1>0. context \in [Sessions -> Seq(Nat)] /\ running \subseteq Sessions
  BY DEF ShapesOK
<1>1. ASSUME NEW s \in Sessions
      PROVE  Current(s) = <<s, Len(context[s])>> /\ Len(context[s]) \in Nat
             /\ Current(s)[1] = s /\ Current(s)[2] = Len(context[s])
  BY <1>0, LenProperties DEF Current
<1>2. ASSUME NEW e \in Known
      PROVE  /\ e = <<e[1], e[2]>> /\ e[1] \in Sessions
             /\ e[2] \in Nat /\ 1 <= e[2] /\ e[2] <= Current(e[1])[2]
  BY <1>0, <1>1, KnownIs
<1>3. ASSUME NEW s \in running
      PROVE  Current(s) \in Known /\ Live(Current(s)) /\ s \in Sessions
  <2>1. s \in Sessions /\ Len(context[s]) > 0
    BY <1>0 DEF ShapesOK
  <2>2. Current(s) = <<s, Len(context[s])>> /\ Current(s)[1] = s /\ Current(s)[2] = Len(context[s])
        /\ Len(context[s]) \in Nat
    BY <2>1, <1>1
  <2>3. Current(s) \in Known
    BY <2>1, <2>2, <1>0, KnownIs
  <2> QED BY <2>1, <2>2, <2>3 DEF Live
<1>4. \A e \in Known : Live(e) => e[1] \in running /\ e = Current(e[1])
  BY DEF Live
<1> QED BY <1>1, <1>2, <1>3, <1>4

LEMMA WaitingIsNat == ASSUME ShapesOK PROVE Waiting \in Nat
<1>1. IsList(tasks) /\ IsList(events)
  BY DEF ShapesOK
<1>2. Len(tasks) \in Nat /\ Len(events) \in Nat
  BY <1>1, ListOfSeq DEF IsList
<1> QED BY <1>2 DEF Waiting

Newest(s) == <<s, Len(context[s]) + 1>>

\* A session starts an execution while the others run theirs.
StartFrame(s) ==
  /\ s \in Sessions /\ s \notin running
  /\ Parent[s] # None => Parent[s] \in running
  /\ overlaps' = overlaps \union {{Newest(s), Current(o)} : o \in running}
  /\ Newest(s) \notin Known /\ Known' = Known \union {Newest(s)}
  /\ Newest(s)[1] = s
  /\ \A e \in Known : e[1] = s => e[2] < Newest(s)[2]
  /\ running' = running \union {s}
  /\ Current(s)' = Newest(s)
  /\ \A t \in Sessions \ {s} : Current(t)' = Current(t)
  /\ \A e \in Known' : Live(e)' <=> Live(e) \/ e = Newest(s)
  /\ \A e, f \in Known' :
       Met(e, f)' <=> \/ Met(e, f)
                      \/ \E o \in running : e = Newest(s) /\ f = Current(o)
                      \/ \E o \in running : f = Newest(s) /\ e = Current(o)
  /\ Grows("start", Newest(s))

LEMMA AppendedEvent ==
  ASSUME ShapesOK, NEW x, events' = Append(events, x), UNCHANGED tasks
  PROVE  Grows(IF x.kind = "STARTED" THEN "start" ELSE "end", x.execution)
         /\ IsList(events')
<1>1. IsList(tasks) /\ IsList(events)
  BY DEF ShapesOK
<1>2. Len(tasks) \in Nat
  BY <1>1, ListOfSeq DEF IsList
<1>3. /\ IsList(events') /\ Len(events) \in Nat /\ Len(events') = Len(events) + 1
      /\ \A i \in 1..Len(events) : events'[i] = events[i]
      /\ events'[Len(events) + 1] = x
  BY <1>1, AppendList
<1>4. Waiting' = Waiting + 1 /\ Waiting \in Nat
  BY <1>2, <1>3 DEF Waiting
<1>5. ASSUME NEW i \in 1..Waiting'
      PROVE  IF i <= Waiting THEN Item(i)' = Item(i) ELSE Item(i)' = x
  <2>1. CASE i <= Len(tasks)
    BY <2>1, <1>2, <1>3 DEF Item, Waiting
  <2>2. CASE ~(i <= Len(tasks)) /\ i <= Waiting
    <3>1. i - Len(tasks) \in 1..Len(events)
      BY <2>2, <1>2, <1>3 DEF Waiting
    <3> QED BY <2>2, <3>1, <1>3 DEF Item
  <2>3. CASE ~(i <= Waiting)
    <3>1. i = Waiting + 1 /\ i - Len(tasks) = Len(events) + 1 /\ ~(i <= Len(tasks))
      BY <2>3, <1>2, <1>3, <1>4 DEF Waiting
    <3> QED BY <2>3, <3>1, <1>3 DEF Item
  <2> QED BY <2>1, <2>2, <2>3, <1>2, <1>3 DEF Waiting
<1> QED BY <1>3, <1>4, <1>5 DEF Grows, Tag, Who

LEMMA HostStartFrame ==
  ASSUME TrackerAssumption, ShapesOK, NEW s \in Sessions, HostStart(s)
  PROVE  /\ StartFrame(s)
         /\ context' \in [Sessions -> Seq(Nat)] /\ \A t \in running' : Len(context'[t]) > 0
<1>0. context \in [Sessions -> Seq(Nat)] /\ running \subseteq Sessions
  BY DEF ShapesOK
<1>1. /\ s \notin running /\ (Parent[s] # None => Parent[s] \in running)
      /\ context' = [context EXCEPT ![s] = Append(@, 0)]
      /\ running' = running \union {s}
      /\ events' = Append(events, [kind |-> "STARTED", execution |-> Newest(s), repeated |-> FALSE])
      /\ overlaps' = overlaps \union {{Newest(s), Current(o)} : o \in running}
      /\ UNCHANGED tasks
  BY DEF HostStart, Newest, trackerVars
<1>2. /\ context' \in [Sessions -> Seq(Nat)] /\ Len(context[s]) \in Nat
      /\ Len(context'[s]) = Len(context[s]) + 1
      /\ \A t \in Sessions \ {s} : context'[t] = context[t]
  <2>1. context'[s] = Append(context[s], 0) /\ context[s] \in Seq(Nat)
    BY <1>0, <1>1
  <2>2. Append(context[s], 0) \in Seq(Nat) /\ Len(Append(context[s], 0)) = Len(context[s]) + 1
    BY <2>1, AppendProperties
  <2> QED BY <1>0, <1>1, <2>1, <2>2, LenProperties
<1>3. Newest(s)[1] = s /\ Newest(s)[2] = Len(context[s]) + 1 /\ Newest(s) = <<s, Len(context[s]) + 1>>
  BY DEF Newest
<1>4. \A e : e \in Known' <=> /\ e = <<e[1], e[2]>> /\ e[1] \in Sessions
                              /\ e[2] \in Nat /\ 1 <= e[2] /\ e[2] <= Len(context'[e[1]])
  <2>1. KnownTold'
    BY KnownIsTold, PTL
  <2> QED BY <1>2, <2>1 DEF KnownTold
<1>5. \A e \in Known : e[1] = s => e[2] < Newest(s)[2]
  BY <1>0, <1>2, <1>3, KnownIs
<1>6. Newest(s) \notin Known
  <2>1. Newest(s)[2] \in Nat /\ ~(Newest(s)[2] < Newest(s)[2])
    BY <1>2, <1>3
  <2> QED BY <2>1, <1>3, <1>5
<1>7. ASSUME NEW e PROVE e \in Known' <=> e \in Known \/ e = Newest(s)
  <2>1. CASE e[1] = s
    <3>1. e \in Known <=> /\ e = <<e[1], e[2]>> /\ e[1] \in Sessions
                          /\ e[2] \in Nat /\ 1 <= e[2] /\ e[2] <= Len(context[s])
      BY <1>0, <2>1, KnownIs
    <3>2. e \in Known' <=> /\ e = <<e[1], e[2]>> /\ e[1] \in Sessions
                          /\ e[2] \in Nat /\ 1 <= e[2] /\ e[2] <= Len(context[s]) + 1
      BY <1>4, <2>1, <1>2
    <3> QED BY <3>1, <3>2, <2>1, <1>2, <1>3
  <2>2. CASE e[1] # s
    BY <2>2, <1>0, <1>2, <1>3, <1>4, KnownIs
  <2> QED BY <2>1, <2>2
<1>8. Known' = Known \union {Newest(s)}
  BY <1>7
<1>9. Current(s)' = Newest(s) /\ \A t \in Sessions \ {s} : Current(t)' = Current(t)
  BY <1>2, <1>3 DEF Current
<1>10. ASSUME NEW e \in Known' PROVE Live(e)' <=> Live(e) \/ e = Newest(s)
  <2>1. e[1] \in Sessions
    BY <1>4
  <2>2. CASE e[1] = s
    <3>1. Live(e)' <=> e = Newest(s)
      BY <2>2, <1>1, <1>9 DEF Live
    <3> QED BY <3>1, <2>2, <1>1 DEF Live
  <2>3. CASE e[1] # s
    <3>1. e # Newest(s) /\ Current(e[1])' = Current(e[1])
      BY <2>1, <2>3, <1>3, <1>9
    <3> QED BY <3>1, <2>3, <1>1 DEF Live
  <2> QED BY <2>2, <2>3
<1>11. ASSUME NEW e \in Known', NEW f \in Known'
       PROVE  Met(e, f)' <=> \/ Met(e, f)
                             \/ \E o \in running : e = Newest(s) /\ f = Current(o)
                             \/ \E o \in running : f = Newest(s) /\ e = Current(o)
  BY <1>1 DEF Met
<1>12. Grows("start", Newest(s))
  BY <1>1, AppendedEvent
<1>13. \A t \in running' : Len(context'[t]) > 0
  BY <1>0, <1>1, <1>2 DEF ShapesOK
<1> QED BY <1>1, <1>2, <1>3, <1>5, <1>6, <1>8, <1>9, <1>10, <1>11, <1>12, <1>13 DEF StartFrame

\* A session ends its execution.
EndFrame(s) ==
  /\ s \in running /\ Current(s) \in Known
  /\ \A t \in running : Parent[t] # s
  /\ Known' = Known /\ running' = running \ {s} /\ overlaps' = overlaps
  /\ \A t \in Sessions : Current(t)' = Current(t)
  /\ \A e \in Known : Live(e)' <=> Live(e) /\ e # Current(s)
  /\ Grows("end", Current(s))

\* Everything else leaves the executions as they are.
SameHost ==
  /\ Known' = Known /\ running' = running /\ overlaps' = overlaps
  /\ \A t \in Sessions : Current(t)' = Current(t)
  /\ \A e \in Known : Live(e)' <=> Live(e)
RepeatFrame(e) ==
  SameHost /\ Waiting > 0 /\ Tag(Waiting) = "end" /\ Who(Waiting) = e /\ Grows("end", e)

LEMMA HostEndFrame ==
  ASSUME ShapesOK, NEW s \in Sessions, HostEnd(s)
  PROVE  EndFrame(s)
<1>1. s \in running /\ running' = running \ {s} /\ context' = context /\ overlaps' = overlaps
      /\ UNCHANGED tasks
  BY DEF HostEnd, trackerVars, historyVars
<1>0. \A t \in running : Parent[t] # s
  BY DEF HostEnd, Children, ShapesOK
<1>2. PICK kind \in {"SUCCEEDED", "ENDED_OTHER"} : events' = Append(events, Event(kind, s))
  BY DEF HostEnd
<1>3. Grows("end", Current(s))
  BY <1>1, <1>2, AppendedEvent DEF Event
<1>4. Current(s) \in Known
  BY <1>1, Executions
<1>5. Known' = Known /\ \A t \in Sessions : Current(t)' = Current(t)
  BY <1>1 DEF Known, Current
<1>6. ASSUME NEW e \in Known PROVE Live(e)' <=> Live(e) /\ e # Current(s)
  <2>1. e[1] \in Sessions
    BY Executions
  <2>2. Current(e[1])' = Current(e[1]) /\ Current(s)[1] = s
    BY <1>5, <2>1, Executions
  <2> QED BY <1>1, <2>2 DEF Live
<1> QED BY <1>0, <1>1, <1>3, <1>4, <1>5, <1>6 DEF EndFrame

LEMMA SameHostOf ==
  ASSUME context' = context, running' = running, overlaps' = overlaps
  PROVE  SameHost
BY DEF SameHost, Known, Current, Live

LEMMA HostReplyFrame ==
  ASSUME ShapesOK, NEW s \in Sessions, HostReply(s)
  PROVE  /\ SameHost /\ Stays
         /\ context' \in [Sessions -> Seq(Nat)] /\ \A t \in running' : Len(context'[t]) > 0
<1>1. /\ running' = running /\ overlaps' = overlaps /\ UNCHANGED <<tasks, events>>
      /\ context' = [context EXCEPT ![s][Len(context[s])] = @ + 1]
      /\ s \in running
  BY DEF HostReply, trackerVars, historyVars
<1>2. context \in [Sessions -> Seq(Nat)] /\ Len(context[s]) > 0
  BY <1>1 DEF ShapesOK
<1>3. context'[s] = [context[s] EXCEPT ![Len(context[s])] = context[s][Len(context[s])] + 1]
      /\ DOMAIN context' = Sessions /\ \A t \in Sessions \ {s} : context'[t] = context[t]
  BY <1>1, <1>2
<1>4. Len(context'[s]) = Len(context[s]) /\ context'[s] \in Seq(Nat)
  <2>1. Len(context[s]) \in Nat /\ DOMAIN context[s] = 1..Len(context[s])
    BY <1>2, LenProperties
  <2>2. DOMAIN context'[s] = 1..Len(context[s])
    BY <1>3, <2>1
  <2>3. context'[s] \in Seq(Nat)
    <3>1. context[s] \in [1..Len(context[s]) -> Nat]
      BY <1>2, LenProperties
    <3>2. Len(context[s]) \in 1..Len(context[s])
      BY <1>2, <2>1
    <3>3. context[s][Len(context[s])] + 1 \in Nat
      BY <3>1, <3>2
    <3>4. context'[s] \in [1..Len(context[s]) -> Nat]
      BY <1>3, <3>1, <3>3
    <3> QED BY <3>4, <2>1, SeqDef
  <2> QED BY <2>1, <2>2, <2>3, LenProperties
<1>5. \A t \in Sessions : Len(context'[t]) = Len(context[t])
  BY <1>3, <1>4
<1>6. Known' = Known /\ \A t \in Sessions : Current(t)' = Current(t)
  BY <1>5 DEF Known, Current
<1>7. \A e \in Known : Live(e)' <=> Live(e)
  BY <1>1, <1>6, Executions DEF Live
<1>8. Stays
  BY <1>1 DEF Stays, Waiting, Tag, Who, Item
<1>9. context' \in [Sessions -> Seq(Nat)]
  BY <1>1, <1>2, <1>3, <1>4
<1>10. \A t \in running' : Len(context'[t]) > 0
  BY <1>1, <1>5 DEF ShapesOK
<1> QED BY <1>1, <1>6, <1>7, <1>8, <1>9, <1>10 DEF SameHost

LEMMA HostRepeatFrame ==
  ASSUME ShapesOK, HostRepeat
  PROVE  RepeatFrame(Head(events).execution)
<1>1. /\ Len(events) = 1 /\ Head(events).kind = "SUCCEEDED"
      /\ events' = <<[Head(events) EXCEPT !.repeated = TRUE], [Head(events) EXCEPT !.repeated = TRUE]>>
      /\ UNCHANGED <<context, running, overlaps, tasks>>
  BY DEF HostRepeat, trackerVars, historyVars
<1>2. IsList(tasks) /\ IsList(events) /\ Len(tasks) \in Nat
  <2>1. IsList(tasks) /\ IsList(events)
    BY DEF ShapesOK
  <2> QED BY <2>1, ListOfSeq DEF IsList
<1>3. Head(events) = events[1]
  <2>1. events # <<>>
    BY <1>1, EmptyList
  <2> QED BY <1>2, <2>1, TailList
<1>4. /\ Len(events') = 2 /\ Waiting = Len(tasks) + 1 /\ Waiting' = Len(tasks) + 2
      /\ events'[1].kind # "STARTED" /\ events'[2].kind # "STARTED"
      /\ events'[1].execution = events[1].execution /\ events'[2].execution = events[1].execution
      /\ events[1].kind # "STARTED"
  <2> DEFINE copy == [Head(events) EXCEPT !.repeated = TRUE]
  <2>1. copy.kind = Head(events).kind /\ copy.execution = Head(events).execution
    OBVIOUS
  <2>2. events' = <<copy, copy>>
    BY <1>1
  <2> HIDE DEF copy
  <2>3. Len(events') = 2 /\ events'[1] = copy /\ events'[2] = copy
    BY <2>2
  <2> QED BY <1>1, <1>3, <2>1, <2>3 DEF Waiting
<1>5. Tag(Waiting) = "end" /\ Who(Waiting) = events[1].execution
  BY <1>2, <1>4 DEF Tag, Who, Item
<1>6. ASSUME NEW i \in 1..Waiting'
      PROVE  IF i <= Waiting THEN Tag(i)' = Tag(i) /\ Who(i)' = Who(i)
             ELSE Tag(i)' = "end" /\ Who(i)' = events[1].execution
  <2>1. CASE i <= Len(tasks)
    BY <1>1, <1>2, <1>4, <2>1 DEF Tag, Who, Item
  <2>2. CASE i = Len(tasks) + 1
    <3>1. ~(i <= Len(tasks)) /\ i - Len(tasks) = 1 /\ i <= Waiting
      BY <2>2, <1>2, <1>4
    <3> QED BY <1>1, <1>4, <3>1 DEF Tag, Who, Item
  <2>3. CASE i = Len(tasks) + 2
    <3>1. ~(i <= Len(tasks)) /\ i - Len(tasks) = 2 /\ ~(i <= Waiting)
      BY <2>3, <1>2, <1>4
    <3> QED BY <1>1, <1>4, <3>1 DEF Tag, Who, Item
  <2> QED BY <2>1, <2>2, <2>3, <1>2, <1>4
<1>7. Grows("end", events[1].execution)
  BY <1>2, <1>4, <1>6 DEF Grows
<1>8. SameHost
  BY <1>1, SameHostOf
<1> QED BY <1>2, <1>3, <1>4, <1>5, <1>7, <1>8 DEF RepeatFrame

LEMMA OnEventFrame ==
  ASSUME ShapesOK, OnEvent
  PROVE  SameHost /\ Stays /\ IsList(tasks') /\ IsList(events')
<1>1. events # <<>> /\ events' = Tail(events) /\ UNCHANGED <<context, running, overlaps>>
  BY DEF OnEvent, historyVars
<1>2. PICK x : /\ tasks' = Append(tasks, x)
               /\ x.execution = Head(events).execution
               /\ (x.kind = "STARTED") <=> (Head(events).kind = "STARTED")
  <2>1. CASE Head(events).kind = "STARTED"
    BY <2>1 DEF OnEvent
  <2>2. CASE Head(events).kind # "STARTED"
    BY <2>2 DEF OnEvent
  <2> QED BY <2>1, <2>2
<1>3. IsList(tasks) /\ IsList(events)
  BY DEF ShapesOK
<1>4. /\ IsList(events') /\ Len(events) \in Nat \ {0} /\ Len(events') = Len(events) - 1
      /\ \A i \in 1..(Len(events) - 1) : events'[i] = events[i + 1]
      /\ Head(events) = events[1]
  BY <1>1, <1>3, TailList
<1>5. /\ IsList(tasks') /\ Len(tasks) \in Nat /\ Len(tasks') = Len(tasks) + 1
      /\ \A i \in 1..Len(tasks) : tasks'[i] = tasks[i]
      /\ tasks'[Len(tasks) + 1] = x
  BY <1>2, <1>3, AppendList
<1>6. Waiting' = Waiting
  BY <1>4, <1>5 DEF Waiting
<1>7. ASSUME NEW i \in 1..Waiting PROVE Tag(i)' = Tag(i) /\ Who(i)' = Who(i)
  <2>1. CASE i <= Len(tasks)
    BY <2>1, <1>5 DEF Tag, Who, Item
  <2>2. CASE i = Len(tasks) + 1
    <3>1. ~(i <= Len(tasks)) /\ i - Len(tasks) = 1 /\ i <= Len(tasks') /\ i \in Nat
      BY <2>2, <1>5
    <3>2. Item(i)' = x /\ Item(i) = Head(events)
      BY <3>1, <2>2, <1>4, <1>5 DEF Item
    <3> QED BY <3>2, <1>2 DEF Tag, Who
  <2>3. CASE i > Len(tasks) + 1
    <3>1. ~(i <= Len(tasks)) /\ ~(i <= Len(tasks'))
      BY <2>3, <1>5
    <3>2. PICK k : k = i - Len(tasks')
      OBVIOUS
    <3>3. k \in 1..(Len(events) - 1) /\ i - Len(tasks) = k + 1
      BY <2>3, <1>4, <1>5, <3>2 DEF Waiting
    <3>4. Item(i)' = events'[k] /\ Item(i) = events[k + 1]
      BY <3>1, <3>2, <3>3 DEF Item
    <3> QED BY <3>3, <3>4, <1>4 DEF Tag, Who
  <2> QED BY <2>1, <2>2, <2>3, <1>4, <1>5 DEF Waiting
<1> QED BY <1>1, <1>4, <1>5, <1>6, <1>7, SameHostOf DEF Stays

\* The head of the queue is taken.
LEMMA TakeTaskFrame ==
  ASSUME ShapesOK, NEW kind, TakeTask(kind), UNCHANGED <<context, running, overlaps, events>>
  PROVE  /\ SameHost /\ IsList(tasks') /\ tasks # <<>>
         /\ Takes(IF kind = "STARTED" THEN "start" ELSE "end", Head(tasks).execution)
<1>1. tasks # <<>> /\ Head(tasks).kind = kind /\ tasks' = Tail(tasks) /\ UNCHANGED events
  BY DEF TakeTask
<1>2. IsList(tasks) /\ IsList(events) /\ Len(events) \in Nat
  <2>1. IsList(tasks) /\ IsList(events)
    BY DEF ShapesOK
  <2> QED BY <2>1, ListOfSeq DEF IsList
<1>3. /\ IsList(tasks') /\ Len(tasks) \in Nat \ {0} /\ Len(tasks') = Len(tasks) - 1
      /\ \A i \in 1..(Len(tasks) - 1) : tasks'[i] = tasks[i + 1]
      /\ Head(tasks) = tasks[1]
  BY <1>1, <1>2, TailList
<1>4. Waiting > 0 /\ Waiting' = Waiting - 1
  BY <1>1, <1>2, <1>3 DEF Waiting
<1>5. Item(1) = Head(tasks)
  BY <1>3 DEF Item
<1>6. ASSUME NEW i \in 1..Waiting' PROVE Item(i)' = Item(i + 1)
  <2>1. CASE i <= Len(tasks')
    <3>1. i \in 1..(Len(tasks) - 1) /\ i + 1 <= Len(tasks)
      BY <2>1, <1>3
    <3> QED BY <2>1, <3>1, <1>3 DEF Item
  <2>2. CASE ~(i <= Len(tasks'))
    <3>1. ~(i + 1 <= Len(tasks)) /\ i - Len(tasks') = (i + 1) - Len(tasks)
      BY <2>2, <1>3
    <3> QED BY <2>2, <3>1, <1>1 DEF Item
  <2> QED BY <2>1, <2>2
<1>7. Takes(IF kind = "STARTED" THEN "start" ELSE "end", Head(tasks).execution)
  BY <1>1, <1>4, <1>5, <1>6 DEF Takes, Tag, Who
<1> QED BY <1>1, <1>3, <1>7, SameHostOf

-----------------------------------------------------------------------------
(* The line stays in the order of each session.                             *)

LEMMA LineStart ==
  ASSUME ShapesOK, LineOK, NEW s, StartFrame(s) PROVE LineOK'
<1>0. Waiting \in Nat
  BY WaitingIsNat
<1> DEFINE N == Newest(s)
<1>1. /\ s \in Sessions /\ s \notin running /\ N \notin Known /\ Known' = Known \union {N} /\ N[1] = s
      /\ \A e \in Known : e[1] = s => e[2] < N[2]
      /\ running' = running \union {s} /\ Current(s)' = N
      /\ \A t \in Sessions \ {s} : Current(t)' = Current(t)
      /\ Grows("start", N)
  BY DEF StartFrame
<1>2. /\ Waiting' = Waiting + 1
      /\ \A i \in 1..Waiting' :
           IF i <= Waiting THEN Tag(i)' = Tag(i) /\ Who(i)' = Who(i) /\ Who(i) \in Known
           ELSE i = Waiting + 1 /\ Tag(i)' = "start" /\ Who(i)' = N
  BY <1>0, <1>1 DEF Grows, LineOK
<1>3. \A t, x : Pending(t, x)' <=> Pending(t, x) \/ (t = "start" /\ x = N)
  BY <1>0, <1>1, GrowsFacts
<1> HIDE DEF N
<1>4. ASSUME NEW i \in 1..Waiting' PROVE Who(i)' \in Known'
  BY <1>1, <1>2
<1>5. ASSUME NEW i \in 1..Waiting', NEW j \in 1..Waiting', i < j, Who(i)'[1] = Who(j)'[1]
      PROVE  Who(i)'[2] < Who(j)'[2] \/ (Who(i)' = Who(j)' /\ Tag(j)' = "end")
  <2>1. i <= Waiting /\ i \in 1..Waiting
    BY <1>0, <1>2, <1>5
  <2>2. CASE j <= Waiting
    BY <2>1, <2>2, <1>0, <1>2, <1>5 DEF LineOK
  <2>3. CASE ~(j <= Waiting)
    BY <2>1, <2>3, <1>0, <1>1, <1>2, <1>5
  <2> QED BY <2>2, <2>3
<1>6. ASSUME NEW i \in 1..Waiting', NEW e \in Known', e[1] = Who(i)'[1], e[2] > Who(i)'[2]
      PROVE  Starting(e)'
  <2>1. CASE e = N
    BY <2>1, <1>3 DEF Starting
  <2>2. CASE e # N
    <3>1. e \in Known
      BY <2>2, <1>1
    <3>2. e[1] = s => e[2] < N[2]
      BY <3>1, <1>1
    <3>3. e[2] \in Nat
      BY <3>1, Executions
    <3>4. i <= Waiting
      <4> SUFFICES ASSUME ~(i <= Waiting) PROVE FALSE
        OBVIOUS
      <4>1. e[1] = s /\ e[2] > N[2]
        BY <1>1, <1>2, <1>6
      <4>2. N[2] \in Nat
        BY <1>1, Executions DEF N, Newest
      <4> QED BY <4>1, <4>2, <3>2, <3>3
    <3>5. i \in 1..Waiting /\ Who(i)' = Who(i)
      BY <3>4, <1>0, <1>2
    <3>6. Starting(e)
      BY <3>1, <3>5, <1>6 DEF LineOK
    <3> QED BY <3>6, <1>3 DEF Starting
  <2> QED BY <2>1, <2>2
<1>7. ASSUME NEW t \in running' PROVE ~Ending(Current(t))'
  <2>1. Current(t)' = IF t = s THEN N ELSE Current(t)
    BY <1>1 DEF ShapesOK
  <2>2. ~Pending("end", Current(t)')
    <3>1. CASE t = s
      BY <3>1, <2>1, <1>1 DEF Pending, LineOK
    <3>2. CASE t # s
      BY <3>2, <2>1, <1>1 DEF Ending, LineOK
    <3> QED BY <3>1, <3>2
  <2>3. PICK c : c = Current(t)'
    OBVIOUS
  <2>4. ~Pending("end", c)'
    BY <2>2, <2>3, <1>3
  <2> QED BY <2>3, <2>4 DEF Ending, Pending
<1>8. ASSUME NEW i \in 1..Waiting', NEW m \in 1..Waiting', NEW j \in 1..Waiting',
             i < m, m < j, Tag(i)' = "end", Who(i)' = Who(j)'
      PROVE  Who(m)' = Who(i)'
  <2>1. i \in 1..Waiting /\ m \in 1..Waiting /\ i <= Waiting /\ m <= Waiting
    BY <1>0, <1>2, <1>8
  <2>2. j <= Waiting
    BY <2>1, <1>1, <1>2, <1>8
  <2> QED BY <2>1, <2>2, <1>0, <1>2, <1>8 DEF LineOK
<1> QED BY <1>4, <1>5, <1>6, <1>7, <1>8 DEF LineOK

LEMMA LineEnd ==
  ASSUME ShapesOK, LineOK, NEW s, EndFrame(s) PROVE LineOK'
<1>0. Waiting \in Nat
  BY WaitingIsNat
<1> DEFINE C == Current(s)
<1>1. /\ s \in running /\ C \in Known /\ Known' = Known /\ running' = running \ {s} /\ s \in Sessions
      /\ \A t \in Sessions : Current(t)' = Current(t)
      /\ Grows("end", C) /\ C[1] = s /\ ~Ending(C)
  BY Executions DEF EndFrame, LineOK
<1>2. /\ Waiting' = Waiting + 1
      /\ \A i \in 1..Waiting' :
           IF i <= Waiting THEN Tag(i)' = Tag(i) /\ Who(i)' = Who(i) /\ Who(i) \in Known
           ELSE i = Waiting + 1 /\ Tag(i)' = "end" /\ Who(i)' = C
  BY <1>0, <1>1 DEF Grows, LineOK
<1>3. \A t, x : Pending(t, x)' <=> Pending(t, x) \/ (t = "end" /\ x = C)
  BY <1>0, <1>1, GrowsFacts
<1>4. \A e \in Known : e[1] = s => e[2] \in Nat /\ C[2] \in Nat /\ e[2] <= C[2] /\ (e[2] < C[2] \/ e = C)
  <2>1. ASSUME NEW e \in Known, e[1] = s PROVE e[2] \in Nat /\ C[2] \in Nat /\ e[2] <= C[2] /\ (e[2] < C[2] \/ e = C)
    <3>1. e = <<e[1], e[2]>> /\ e[2] \in Nat /\ e[2] <= C[2] /\ C = <<C[1], C[2]>> /\ C[2] \in Nat
      BY <2>1, <1>1, Executions
    <3> QED BY <3>1, <2>1, <1>1
  <2> QED BY <2>1
<1> HIDE DEF C
<1>5. ASSUME NEW i \in 1..Waiting' PROVE Who(i)' \in Known'
  BY <1>1, <1>2
<1>6. ASSUME NEW i \in 1..Waiting', NEW j \in 1..Waiting', i < j, Who(i)'[1] = Who(j)'[1]
      PROVE  Who(i)'[2] < Who(j)'[2] \/ (Who(i)' = Who(j)' /\ Tag(j)' = "end")
  <2>1. i <= Waiting /\ i \in 1..Waiting
    BY <1>0, <1>2, <1>6
  <2>2. CASE j <= Waiting
    BY <2>1, <2>2, <1>0, <1>2, <1>6 DEF LineOK
  <2>3. CASE ~(j <= Waiting)
    BY <2>1, <2>3, <1>0, <1>1, <1>2, <1>4, <1>6
  <2> QED BY <2>2, <2>3
<1>7. ASSUME NEW i \in 1..Waiting', NEW e \in Known', e[1] = Who(i)'[1], e[2] > Who(i)'[2]
      PROVE  Starting(e)'
  <2>1. e \in Known
    BY <1>1
  <2>2. i <= Waiting
    BY <2>1, <1>1, <1>2, <1>4, <1>7
  <2>3. i \in 1..Waiting /\ Who(i)' = Who(i)
    BY <2>2, <1>0, <1>2
  <2>4. Starting(e)
    BY <2>1, <2>3, <1>7 DEF LineOK
  <2> QED BY <2>4, <1>3 DEF Starting
<1>8. ASSUME NEW t \in running' PROVE ~Ending(Current(t))'
  <2>0. t \in running /\ t # s /\ t \in Sessions
    BY <1>1 DEF ShapesOK
  <2>1. Current(t)' = Current(t) /\ Current(t) # C /\ ~Pending("end", Current(t))
    BY <2>0, <1>1, Executions DEF LineOK, Ending
  <2>2. PICK c : c = Current(t)'
    OBVIOUS
  <2>3. ~Pending("end", c)'
    BY <2>1, <2>2, <1>3
  <2> QED BY <2>2, <2>3 DEF Ending, Pending
<1>9. ASSUME NEW i \in 1..Waiting', NEW m \in 1..Waiting', NEW j \in 1..Waiting',
             i < m, m < j, Tag(i)' = "end", Who(i)' = Who(j)'
      PROVE  Who(m)' = Who(i)'
  <2>1. i \in 1..Waiting /\ m \in 1..Waiting /\ i <= Waiting /\ m <= Waiting
    BY <1>0, <1>2, <1>9
  <2>2. j <= Waiting
    <3> SUFFICES ASSUME ~(j <= Waiting) PROVE FALSE
      OBVIOUS
    <3>1. Tag(i) = "end" /\ Who(i) = C
      BY <2>1, <1>2, <1>9
    <3> QED BY <3>1, <2>1, <1>1 DEF Ending, Pending
  <2> QED BY <2>1, <2>2, <1>0, <1>2, <1>9 DEF LineOK
<1> QED BY <1>5, <1>6, <1>7, <1>8, <1>9 DEF LineOK

LEMMA LineRepeat ==
  ASSUME ShapesOK, LineOK, NEW x, RepeatFrame(x) PROVE LineOK'
<1>0. Waiting \in Nat
  BY WaitingIsNat
<1>1. /\ Known' = Known /\ running' = running
      /\ \A t \in Sessions : Current(t)' = Current(t)
      /\ Waiting > 0 /\ Tag(Waiting) = "end" /\ Who(Waiting) = x /\ Grows("end", x)
  BY DEF RepeatFrame, SameHost
<1>2. /\ Waiting' = Waiting + 1 /\ Waiting \in 1..Waiting
      /\ \A i \in 1..Waiting' :
           IF i <= Waiting THEN Tag(i)' = Tag(i) /\ Who(i)' = Who(i) /\ Who(i) \in Known
           ELSE i = Waiting + 1 /\ Tag(i)' = "end" /\ Who(i)' = x
  BY <1>0, <1>1 DEF Grows, LineOK
<1>3. /\ \A t, y : Pending(t, y)' <=> Pending(t, y) \/ (t = "end" /\ y = x)
      /\ Pending("end", x) /\ x \in Known
  BY <1>0, <1>1, <1>2, GrowsFacts DEF Pending, LineOK
<1>5. ASSUME NEW i \in 1..Waiting' PROVE Who(i)' \in Known'
  BY <1>1, <1>2, <1>3
<1>6. ASSUME NEW i \in 1..Waiting', NEW j \in 1..Waiting', i < j, Who(i)'[1] = Who(j)'[1]
      PROVE  Who(i)'[2] < Who(j)'[2] \/ (Who(i)' = Who(j)' /\ Tag(j)' = "end")
  <2>1. i <= Waiting /\ i \in 1..Waiting
    BY <1>0, <1>2, <1>6
  <2>2. CASE j <= Waiting
    BY <2>1, <2>2, <1>0, <1>2, <1>6 DEF LineOK
  <2>3. CASE ~(j <= Waiting)
    <3>1. CASE i = Waiting
      BY <2>1, <2>3, <3>1, <1>0, <1>1, <1>2, <1>6
    <3>2. CASE i # Waiting
      <4>1. i < Waiting /\ Who(i)[1] = Who(Waiting)[1] /\ Who(j)' = Who(Waiting) /\ Tag(j)' = "end" /\ Who(i)' = Who(i)
        BY <2>1, <2>3, <3>2, <1>0, <1>1, <1>2, <1>6
      <4>2. Who(i)[2] < Who(Waiting)[2] \/ Who(i) = Who(Waiting)
        BY <4>1, <2>1, <1>2 DEF LineOK
      <4> QED BY <4>1, <4>2
    <3> QED BY <3>1, <3>2
  <2> QED BY <2>2, <2>3
<1>7. ASSUME NEW i \in 1..Waiting', NEW e \in Known', e[1] = Who(i)'[1], e[2] > Who(i)'[2]
      PROVE  Starting(e)'
  <2>1. e \in Known
    BY <1>1
  <2>2. PICK k \in 1..Waiting : Who(k) = Who(i)'
    BY <1>0, <1>1, <1>2
  <2>3. Starting(e)
    BY <2>1, <2>2, <1>7 DEF LineOK
  <2> QED BY <2>3, <1>3 DEF Starting
<1>8. ASSUME NEW t \in running' PROVE ~Ending(Current(t))'
  <2>0. t \in running /\ t \in Sessions
    BY <1>1 DEF ShapesOK
  <2>1. Current(t)' = Current(t) /\ ~Pending("end", Current(t))
    BY <2>0, <1>1 DEF LineOK, Ending
  <2>2. PICK c : c = Current(t)'
    OBVIOUS
  <2>3. ~Pending("end", c)'
    BY <2>1, <2>2, <1>3
  <2> QED BY <2>2, <2>3 DEF Ending, Pending
<1>9. ASSUME NEW i \in 1..Waiting', NEW m \in 1..Waiting', NEW j \in 1..Waiting',
             i < m, m < j, Tag(i)' = "end", Who(i)' = Who(j)'
      PROVE  Who(m)' = Who(i)'
  <2>1. i \in 1..Waiting /\ m \in 1..Waiting /\ i <= Waiting /\ m <= Waiting
    BY <1>0, <1>2, <1>9
  <2>2. CASE j <= Waiting
    BY <2>1, <2>2, <1>0, <1>2, <1>9 DEF LineOK
  <2>3. CASE ~(j <= Waiting)
    <3>1. Who(j)' = x /\ Who(i) = x /\ Tag(i) = "end" /\ Who(m)' = Who(m) /\ Who(i)' = x
      BY <2>1, <2>3, <1>2, <1>9
    <3>2. CASE m = Waiting
      BY <3>1, <3>2, <1>1
    <3>3. CASE m # Waiting
      <4>1. m < Waiting
        BY <3>3, <2>1, <1>0
      <4> QED BY <4>1, <3>1, <2>1, <1>1, <1>2, <1>9 DEF LineOK
    <3> QED BY <3>2, <3>3
  <2> QED BY <2>2, <2>3
<1> QED BY <1>5, <1>6, <1>7, <1>8, <1>9 DEF LineOK

LEMMA LineStays ==
  ASSUME ShapesOK, LineOK, SameHost, Stays PROVE LineOK'
<1>0. Waiting \in Nat
  BY WaitingIsNat
<1>1. /\ Known' = Known /\ running' = running
      /\ \A t \in Sessions : Current(t)' = Current(t)
      /\ \A t, y : Pending(t, y)' <=> Pending(t, y)
  BY <1>0, StaysFacts DEF SameHost
<1>2. Waiting' = Waiting /\ \A i \in 1..Waiting : Tag(i)' = Tag(i) /\ Who(i)' = Who(i)
  BY DEF Stays
<1>3. ASSUME NEW t \in running' PROVE ~Ending(Current(t))'
  <2>0. t \in running /\ t \in Sessions
    BY <1>1 DEF ShapesOK
  <2>1. Current(t)' = Current(t) /\ ~Pending("end", Current(t))
    BY <2>0, <1>1 DEF LineOK, Ending
  <2>2. PICK c : c = Current(t)'
    OBVIOUS
  <2>3. ~Pending("end", c)'
    BY <2>1, <2>2, <1>1
  <2> QED BY <2>2, <2>3 DEF Ending, Pending
<1>4. ASSUME NEW i \in 1..Waiting', NEW e \in Known', e[1] = Who(i)'[1], e[2] > Who(i)'[2]
      PROVE  Starting(e)'
  <2>1. Starting(e)
    BY <1>1, <1>2, <1>4 DEF LineOK
  <2> QED BY <2>1, <1>1 DEF Starting
<1>5. ASSUME NEW i \in 1..Waiting' PROVE Who(i)' \in Known'
  BY <1>1, <1>2 DEF LineOK
<1>6. ASSUME NEW i \in 1..Waiting', NEW j \in 1..Waiting', i < j, Who(i)'[1] = Who(j)'[1]
      PROVE  Who(i)'[2] < Who(j)'[2] \/ (Who(i)' = Who(j)' /\ Tag(j)' = "end")
  BY <1>2, <1>6 DEF LineOK
<1>7. ASSUME NEW i \in 1..Waiting', NEW m \in 1..Waiting', NEW j \in 1..Waiting',
             i < m, m < j, Tag(i)' = "end", Who(i)' = Who(j)'
      PROVE  Who(m)' = Who(i)'
  BY <1>2, <1>7 DEF LineOK
<1> QED BY <1>3, <1>4, <1>5, <1>6, <1>7 DEF LineOK

LEMMA LineTakes ==
  ASSUME ShapesOK, LineOK, SameHost, NEW tag, NEW x, Takes(tag, x) PROVE LineOK'
<1>0. Waiting \in Nat
  BY WaitingIsNat
<1>1. /\ Known' = Known /\ running' = running
      /\ \A t \in Sessions : Current(t)' = Current(t)
      /\ \A t, y : Pending(t, y)' => Pending(t, y)
      /\ \A t, y : Pending(t, y) => Pending(t, y)' \/ (t = tag /\ y = x)
  BY <1>0, TakesFacts DEF SameHost
<1>2. /\ Waiting > 0 /\ Waiting' = Waiting - 1 /\ Tag(1) = tag /\ Who(1) = x
      /\ \A i \in 1..Waiting' : Tag(i)' = Tag(i + 1) /\ Who(i)' = Who(i + 1)
      /\ \A i \in 1..Waiting' : i + 1 \in 1..Waiting
  BY <1>0 DEF Takes
<1>3. ASSUME NEW t \in running' PROVE ~Ending(Current(t))'
  <2>0. t \in running /\ t \in Sessions
    BY <1>1 DEF ShapesOK
  <2>1. Current(t)' = Current(t) /\ ~Pending("end", Current(t))
    BY <2>0, <1>1 DEF LineOK, Ending
  <2>2. PICK c : c = Current(t)'
    OBVIOUS
  <2>3. ~Pending("end", c)'
    BY <2>1, <2>2, <1>1
  <2> QED BY <2>2, <2>3 DEF Ending, Pending
<1>4. ASSUME NEW i \in 1..Waiting', NEW e \in Known', e[1] = Who(i)'[1], e[2] > Who(i)'[2]
      PROVE  Starting(e)'
  <2>1. Starting(e) /\ Who(i)' = Who(i + 1) /\ e \in Known
    BY <1>1, <1>2, <1>4 DEF LineOK
  <2>2. e # x
    <3> SUFFICES ASSUME e = x PROVE FALSE
      OBVIOUS
    <3>1. 1 \in 1..Waiting /\ i + 1 \in 1..Waiting /\ 1 < i + 1 /\ Who(1) = e /\ Who(i + 1)[1] = e[1]
      BY <1>0, <1>2, <1>4, <2>1
    <3>2. e[2] < Who(i + 1)[2] \/ e = Who(i + 1)
      BY <3>1 DEF LineOK
    <3>3. e[2] \in Nat /\ Who(i + 1)[2] \in Nat
      BY <2>1, <3>1, Executions DEF LineOK
    <3> QED BY <3>2, <3>3, <2>1, <1>4
  <2> QED BY <2>1, <2>2, <1>1 DEF Starting
<1>5. ASSUME NEW i \in 1..Waiting' PROVE Who(i)' \in Known'
  BY <1>1, <1>2 DEF LineOK
<1>6. ASSUME NEW i \in 1..Waiting', NEW j \in 1..Waiting', i < j, Who(i)'[1] = Who(j)'[1]
      PROVE  Who(i)'[2] < Who(j)'[2] \/ (Who(i)' = Who(j)' /\ Tag(j)' = "end")
  <2>1. i + 1 < j + 1 /\ i + 1 \in 1..Waiting /\ j + 1 \in 1..Waiting
    BY <1>2, <1>6
  <2> QED BY <2>1, <1>2, <1>6 DEF LineOK
<1>7. ASSUME NEW i \in 1..Waiting', NEW m \in 1..Waiting', NEW j \in 1..Waiting',
             i < m, m < j, Tag(i)' = "end", Who(i)' = Who(j)'
      PROVE  Who(m)' = Who(i)'
  <2>1. /\ i + 1 < m + 1 /\ m + 1 < j + 1
        /\ i + 1 \in 1..Waiting /\ m + 1 \in 1..Waiting /\ j + 1 \in 1..Waiting
    BY <1>2, <1>7
  <2> QED BY <2>1, <1>2, <1>7 DEF LineOK
<1> QED BY <1>3, <1>4, <1>5, <1>6, <1>7 DEF LineOK

-----------------------------------------------------------------------------
(* Who ran with whom, and in which order the line tells it.                 *)

LEMMA MetFacts ==
  ASSUME HostOK, NEW e, NEW f, Met(e, f)
  PROVE  e \in Known /\ f \in Known /\ e[1] # f[1] /\ Met(f, e)
<1>1. PICK a \in Known, b \in Known : {e, f} = {a, b} /\ a[1] # b[1]
  BY DEF HostOK, Met
<1>2. (e = a /\ f = b) \/ (e = b /\ f = a)
  <2>1. e \in {a, b} /\ f \in {a, b} /\ a \in {e, f} /\ b \in {e, f} /\ a # b
    BY <1>1
  <2> QED BY <2>1
<1>3. {e, f} = {f, e}
  OBVIOUS
<1> QED BY <1>1, <1>2, <1>3 DEF Met

\* The pairs a start adds are of the new execution with those in progress.
LEMMA MetAtStart ==
  ASSUME ShapesOK, HostOK, NEW s, StartFrame(s), NEW e \in Known', NEW f \in Known', Met(e, f)'
  PROVE  \/ e \in Known /\ f \in Known /\ Met(e, f)
         \/ \E o \in running : e = Newest(s) /\ f = Current(o) /\ o # s /\ f \in Known /\ Live(f) /\ f[1] = o
         \/ \E o \in running : f = Newest(s) /\ e = Current(o) /\ o # s /\ e \in Known /\ Live(e) /\ e[1] = o
<1>1. \/ Met(e, f)
      \/ \E o \in running : e = Newest(s) /\ f = Current(o)
      \/ \E o \in running : f = Newest(s) /\ e = Current(o)
  BY DEF StartFrame
<1>2. CASE Met(e, f)
  BY <1>2, MetFacts
<1>3. CASE \E o \in running : e = Newest(s) /\ f = Current(o)
  BY <1>3, Executions DEF StartFrame
<1>4. CASE \E o \in running : f = Newest(s) /\ e = Current(o)
  BY <1>4, Executions DEF StartFrame
<1> QED BY <1>1, <1>2, <1>3, <1>4

LEMMA StartMeets ==
  ASSUME ShapesOK, HostOK, NEW s, StartFrame(s)
  PROVE  /\ \A e, f \in Known : Met(e, f)' <=> Met(e, f)
         /\ \A o \in running : Parent[o] # s
         /\ \A e \in Known : Live(e)' <=> Live(e)
         /\ Newest(s) \in Known' /\ Known \subseteq Known'
<1>1. /\ Known' = Known \union {Newest(s)} /\ Newest(s) \notin Known
      /\ \A e \in Known' : Live(e)' <=> Live(e) \/ e = Newest(s)
      /\ \A e, f \in Known' :
           Met(e, f)' <=> \/ Met(e, f)
                          \/ \E o \in running : e = Newest(s) /\ f = Current(o)
                          \/ \E o \in running : f = Newest(s) /\ e = Current(o)
  BY DEF StartFrame
<1>2. \A o \in running : Current(o) \in Known
  BY Executions
<1>3. \A o \in running : Parent[o] # s
  <2> SUFFICES ASSUME NEW o \in running, Parent[o] = s PROVE FALSE
    OBVIOUS
  <2>1. Parent[o] # None
    BY TrackerAssumption DEF StartFrame
  <2> QED BY <2>1 DEF HostOK, StartFrame
<1>4. ASSUME NEW e \in Known PROVE Live(e)' <=> Live(e)
  <2>1. e \in Known' /\ e # Newest(s)
    BY <1>1
  <2> QED BY <1>1, <2>1
<1>5. ASSUME NEW e \in Known, NEW f \in Known PROVE Met(e, f)' <=> Met(e, f)
  <2>1. e \in Known' /\ e # Newest(s) /\ f \in Known' /\ f # Newest(s)
    BY <1>1
  <2> QED BY <1>1, <2>1
<1> QED BY <1>1, <1>3, <1>4, <1>5

LEMMA HostAtStart ==
  ASSUME ShapesOK, HostOK, NEW s, StartFrame(s) PROVE HostOK'
<1>1. /\ \A e, f \in Known : Met(e, f)' <=> Met(e, f)
      /\ \A o \in running : Parent[o] # s
      /\ \A e \in Known : Live(e)' <=> Live(e)
      /\ Newest(s) \in Known' /\ Known \subseteq Known'
  BY StartMeets
<1>2. /\ s \in Sessions /\ s \notin running /\ running' = running \union {s}
      /\ (Parent[s] # None => Parent[s] \in running)
      /\ Known' = Known \union {Newest(s)} /\ Newest(s)[1] = s
      /\ Current(s)' = Newest(s)
      /\ \A t \in running : Current(t)' = Current(t) /\ Current(t) \in Known /\ Current(t)[1] = t /\ Live(Current(t))
      /\ overlaps' = overlaps \union {{Newest(s), Current(o)} : o \in running}
  BY Executions DEF StartFrame, ShapesOK
<1>3. \A p \in overlaps' : \E e, f \in Known' : p = {e, f} /\ e[1] # f[1]
  <2>1. ASSUME NEW p \in overlaps PROVE \E e, f \in Known' : p = {e, f} /\ e[1] # f[1]
    BY <1>1 DEF HostOK
  <2>2. ASSUME NEW o \in running
        PROVE  \E e, f \in Known' : {Newest(s), Current(o)} = {e, f} /\ e[1] # f[1]
    BY <1>1, <1>2
  <2> QED BY <1>2, <2>1, <2>2
<1>4. ASSUME NEW t \in running', NEW u \in running', t # u PROVE Met(Current(t), Current(u))'
  <2>1. CASE t \in running /\ u \in running
    <3>1. Met(Current(t), Current(u))
      BY <2>1, <1>4 DEF HostOK
    <3>2. PICK a \in Known, b \in Known : a = Current(t) /\ b = Current(u)
      BY <2>1, <1>2
    <3>3. Met(a, b)'
      BY <3>1, <3>2, <1>1
    <3> QED BY <3>2, <3>3, <2>1, <1>2 DEF Met
  <2>2. CASE t = s
    <3>1. u \in running
      BY <2>2, <1>2, <1>4
    <3>2. PICK a : a = Current(u)
      OBVIOUS
    <3>3. PICK b : b = Newest(s)
      OBVIOUS
    <3>4. {Newest(s), Current(u)} \in overlaps'
      BY <3>1, <1>2
    <3> QED BY <3>1, <3>4, <2>2, <1>2 DEF Met
  <2>3. CASE u = s
    <3>1. t \in running
      BY <2>3, <1>2, <1>4
    <3>4. {Newest(s), Current(t)} \in overlaps'
      BY <3>1, <1>2
    <3>5. {Newest(s), Current(t)} = {Current(t), Newest(s)}
      OBVIOUS
    <3> QED BY <3>1, <3>4, <3>5, <2>3, <1>2 DEF Met
  <2> QED BY <2>1, <2>2, <2>3, <1>2
<1>5. ASSUME NEW t \in running', Parent[t] # None PROVE Parent[t] \in running'
  BY <1>2, <1>5 DEF HostOK
<1>6. ASSUME NEW e \in Known', Parent[e[1]] # None PROVE \E f \in Known' : IsInside(e, f)'
  <2>1. CASE e \in Known
    <3>1. PICK f \in Known : Met(e, f) /\ Parent[e[1]] = f[1]
      BY <1>6, <2>1 DEF HostOK, IsInside
    <3> QED BY <2>1, <3>1, <1>1 DEF IsInside
  <2>2. CASE e = Newest(s)
    <3>1. Parent[s] \in running
      BY <2>2, <1>2, <1>6
    <3>2. PICK f : f = Current(Parent[s])
      OBVIOUS
    <3>3. f \in Known /\ f[1] = Parent[s] /\ Parent[e[1]] = f[1] /\ {e, f} \in overlaps'
      BY <3>1, <3>2, <2>2, <1>2
    <3> QED BY <3>3, <1>1 DEF IsInside, Met
  <2> QED BY <2>1, <2>2, <1>2
<1>7. ASSUME NEW e \in Known', NEW f \in Known', Met(f, e)', Parent[f[1]] = e[1], Live(f)'
      PROVE  Live(e)'
  <2>1. CASE e \in Known /\ f \in Known /\ Met(f, e)
    BY <1>1, <1>7, <2>1 DEF HostOK, IsInside
  <2>2. CASE \E o \in running : f = Newest(s) /\ e = Current(o)
    BY <1>1, <1>2, <2>2
  <2>3. CASE \E o \in running : e = Newest(s) /\ f = Current(o)
    BY <1>1, <1>2, <1>7, <2>3
  <2> QED BY <2>1, <2>2, <2>3, <1>7, MetAtStart
<1>8. ASSUME NEW e \in Known', NEW f \in Known', Met(f, e)', Parent[f[1]] \notin {None, e[1]}
      PROVE  \E g \in Known' : g[1] = Parent[f[1]] /\ Met(g, e)'
  <2>1. CASE e \in Known /\ f \in Known /\ Met(f, e)
    BY <1>1, <1>8, <2>1 DEF HostOK
  <2>2. CASE \E o \in running : f = Newest(s) /\ e = Current(o) /\ o # s
    <3>1. PICK o \in running : f = Newest(s) /\ e = Current(o)
      BY <2>2
    <3>2. Parent[s] \in running /\ Parent[s] # o /\ f[1] = s
      BY <3>1, <1>2, <1>8
    <3>3. PICK g : g = Current(Parent[s])
      OBVIOUS
    <3>4. g \in Known /\ g[1] = Parent[s] /\ Met(g, e) /\ e \in Known
      BY <3>1, <3>2, <3>3, <1>2 DEF HostOK
    <3> QED BY <3>2, <3>4, <1>1
  <2>3. CASE \E o \in running : e = Newest(s) /\ f = Current(o) /\ o # s
    <3>1. PICK o \in running : e = Newest(s) /\ f = Current(o)
      BY <2>3
    <3>2. f[1] = o /\ Parent[o] \in running
      BY <3>1, <1>2, <1>8 DEF HostOK
    <3>3. PICK g : g = Current(Parent[o])
      OBVIOUS
    <3>4. g \in Known /\ g[1] = Parent[o]
      BY <3>2, <3>3, <1>2
    <3>5. {Newest(s), Current(Parent[o])} \in overlaps'
      BY <3>2, <1>2
    <3>6. {e, g} = {g, e} /\ {e, g} \in overlaps'
      BY <3>1, <3>3, <3>5
    <3> QED BY <3>2, <3>4, <3>6, <1>1 DEF Met
  <2> QED BY <2>1, <2>2, <2>3, <1>8, MetAtStart
<1> QED BY <1>3, <1>4, <1>5, <1>6, <1>7, <1>8 DEF HostOK, IsInside

LEMMA HostAtEnd ==
  ASSUME ShapesOK, HostOK, NEW s, EndFrame(s) PROVE HostOK'
<1>1. /\ s \in running /\ Current(s) \in Known /\ \A t \in running : Parent[t] # s
      /\ Known' = Known /\ running' = running \ {s} /\ overlaps' = overlaps
      /\ \A t \in Sessions : Current(t)' = Current(t)
      /\ \A e \in Known : Live(e)' <=> Live(e) /\ e # Current(s)
      /\ Current(s)[1] = s /\ running \subseteq Sessions
  BY Executions DEF EndFrame, ShapesOK
<1>2. \A e, f : (Met(e, f)' <=> Met(e, f)) /\ (IsInside(e, f)' <=> IsInside(e, f))
  BY <1>1 DEF Met, IsInside
<1>3. \A p \in overlaps' : \E e, f \in Known' : p = {e, f} /\ e[1] # f[1]
  BY <1>1 DEF HostOK
<1>4. ASSUME NEW t \in running', NEW u \in running', t # u PROVE Met(Current(t), Current(u))'
  <2>1. Met(Current(t), Current(u)) /\ t \in Sessions /\ u \in Sessions
    BY <1>1, <1>4 DEF HostOK
  <2> QED BY <2>1, <1>1 DEF Met
<1>5. ASSUME NEW t \in running', Parent[t] # None PROVE Parent[t] \in running'
  BY <1>1, <1>5 DEF HostOK
<1>6. ASSUME NEW e \in Known', Parent[e[1]] # None PROVE \E f \in Known' : IsInside(e, f)'
  BY <1>1, <1>2, <1>6 DEF HostOK
<1>7. ASSUME NEW e \in Known', NEW f \in Known', IsInside(f, e)', Live(f)' PROVE Live(e)'
  <2>1. Live(f) /\ Live(e) /\ f[1] \in running /\ Parent[f[1]] = e[1]
    BY <1>1, <1>2, <1>7 DEF HostOK, IsInside, Live
  <2>2. e # Current(s)
    BY <2>1, <1>1
  <2> QED BY <2>1, <2>2, <1>1
<1>8. ASSUME NEW e \in Known', NEW f \in Known', Met(f, e)', Parent[f[1]] \notin {None, e[1]}
      PROVE  \E g \in Known' : g[1] = Parent[f[1]] /\ Met(g, e)'
  BY <1>1, <1>2, <1>8 DEF HostOK
<1> QED BY <1>3, <1>4, <1>5, <1>6, <1>7, <1>8 DEF HostOK

LEMMA HostSame ==
  ASSUME ShapesOK, HostOK, SameHost PROVE HostOK'
<1>1. /\ Known' = Known /\ running' = running /\ overlaps' = overlaps
      /\ \A t \in Sessions : Current(t)' = Current(t)
      /\ \A e \in Known : Live(e)' <=> Live(e)
      /\ running \subseteq Sessions
  BY DEF SameHost, ShapesOK
<1>2. \A e, f : (Met(e, f)' <=> Met(e, f)) /\ (IsInside(e, f)' <=> IsInside(e, f))
  BY <1>1 DEF Met, IsInside
<1>3. \A p \in overlaps' : \E e, f \in Known' : p = {e, f} /\ e[1] # f[1]
  BY <1>1 DEF HostOK
<1>4. ASSUME NEW t \in running', NEW u \in running', t # u PROVE Met(Current(t), Current(u))'
  <2>1. Met(Current(t), Current(u)) /\ t \in Sessions /\ u \in Sessions
    BY <1>1, <1>4 DEF HostOK
  <2> QED BY <2>1, <1>1 DEF Met
<1>5. ASSUME NEW t \in running', Parent[t] # None PROVE Parent[t] \in running'
  BY <1>1, <1>5 DEF HostOK
<1>6. ASSUME NEW e \in Known', Parent[e[1]] # None PROVE \E f \in Known' : IsInside(e, f)'
  BY <1>1, <1>2, <1>6 DEF HostOK
<1>7. ASSUME NEW e \in Known', NEW f \in Known', IsInside(f, e)', Live(f)' PROVE Live(e)'
  BY <1>1, <1>2, <1>7 DEF HostOK
<1>8. ASSUME NEW e \in Known', NEW f \in Known', Met(f, e)', Parent[f[1]] \notin {None, e[1]}
      PROVE  \E g \in Known' : g[1] = Parent[f[1]] /\ Met(g, e)'
  BY <1>1, <1>2, <1>8 DEF HostOK
<1> QED BY <1>3, <1>4, <1>5, <1>6, <1>7, <1>8 DEF HostOK

\* What is not pending comes before anything.
LEMMA BeforeNothing ==
  ASSUME NEW t, NEW x, NEW u, NEW y, ~Pending(t, x) \/ ~Pending(u, y)
  PROVE  Before(t, x, u, y)
BY DEF Before, Pending

LEMMA OrderStart ==
  ASSUME ShapesOK, HostOK, LineOK, OrderOK, NEW s, StartFrame(s) PROVE OrderOK'
<1>0. Waiting \in Nat
  BY WaitingIsNat
<1>n. PICK N : N = Newest(s)
  OBVIOUS
<1>1. /\ \A e, f \in Known : Met(e, f)' <=> Met(e, f)
      /\ \A o \in running : Parent[o] # s
      /\ \A e \in Known : Live(e)' <=> Live(e)
      /\ N \in Known' /\ Known \subseteq Known' /\ Live(N)'
      /\ N \notin Known /\ N[1] = s /\ Grows("start", N)
  BY <1>n, StartMeets DEF StartFrame
<1>2. /\ \A t, x : Pending(t, x)' <=> Pending(t, x) \/ (t = "start" /\ x = N)
      /\ \A t, x, u, y :
           Before(t, x, u, y) /\ ~(t = "start" /\ x = N /\ (Pending(u, y) \/ (u = "start" /\ y = N)))
           => Before(t, x, u, y)'
  BY <1>0, <1>1, GrowsFacts
<1>3. \A t : ~Pending(t, N)
  BY <1>1 DEF Pending, LineOK
<1>4. ASSUME NEW e \in Known', NEW f \in Known', Met(e, f)', Starting(f)'
      PROVE  Going(e)' /\ Before("start", f, "end", e)'
  <2>1. CASE e \in Known /\ f \in Known /\ Met(e, f)
    <3>1. Starting(f) /\ f # N
      BY <2>1, <1>1, <1>2, <1>4 DEF Starting
    <3>2. Going(e) /\ Before("start", f, "end", e)
      BY <3>1, <2>1 DEF OrderOK
    <3> QED BY <3>1, <3>2, <2>1, <1>1, <1>2 DEF Ending, Going
  <2>2. CASE e = N
    <3>1. ~Pending("end", N)'
      BY <1>2, <1>3
    <3>2. Before("start", f, "end", N) /\ ~(f = N /\ Pending("end", N))
      BY <1>3, BeforeNothing
    <3> QED BY <3>2, <2>2, <1>1, <1>2 DEF Going
  <2>3. CASE f = N /\ \E o \in running : e = Current(o) /\ e \in Known /\ Live(e)
    <3>1. Live(e) /\ ~Pending("end", e) /\ e \in Known
      BY <2>3 DEF LineOK, Ending
    <3>2. Before("start", f, "end", e)
      BY <3>1, BeforeNothing
    <3> QED BY <3>1, <3>2, <1>1, <1>2 DEF Going
  <2> QED BY <2>1, <2>2, <2>3, <1>4, MetAtStart, <1>n
<1>5. ASSUME NEW e \in Known', NEW f \in Known', IsInside(f, e)'
      PROVE  /\ Before("end", f, "end", e)' /\ Before("start", e, "start", f)'
             /\ Starting(e)' => Starting(f)'
  <2>0. Met(f, e)' /\ Parent[f[1]] = e[1]
    BY <1>5 DEF IsInside
  <2>1. CASE e \in Known /\ f \in Known /\ Met(f, e)
    <3>1. IsInside(f, e) /\ e # N /\ f # N
      BY <2>0, <2>1, <1>1 DEF IsInside
    <3>2. /\ Before("end", f, "end", e) /\ Before("start", e, "start", f)
          /\ Starting(e) => Starting(f)
      BY <3>1, <2>1 DEF OrderOK
    <3> QED BY <3>1, <3>2, <1>2 DEF Starting
  <2>2. CASE \E o \in running : e = N /\ f = Current(o) /\ f[1] = o
    BY <2>0, <2>2, <1>1
  <2>3. CASE f = N /\ e \in Known
    <3>1. Before("end", f, "end", e) /\ Before("start", e, "start", f) /\ e # N
      BY <2>3, <1>1, <1>3, BeforeNothing
    <3>2. Starting(f)'
      BY <2>3, <1>2 DEF Starting
    <3> QED BY <3>1, <3>2, <1>2
  <2> QED BY <2>0, <2>1, <2>2, <2>3, MetAtStart, <1>n
<1>6. ASSUME NEW e \in Known', Starting(e)' PROVE Going(e)'
  <2>1. CASE e = N
    BY <2>1, <1>1 DEF Going
  <2>2. CASE e # N
    <3>1. e \in Known /\ Starting(e)
      BY <2>2, <1>1, <1>2, <1>6, <1>n DEF Starting, StartFrame
    <3> QED BY <3>1, <1>1, <1>2 DEF OrderOK, Going, Ending
  <2> QED BY <2>1, <2>2
<1> QED BY <1>4, <1>5, <1>6 DEF OrderOK

LEMMA OrderEnd ==
  ASSUME ShapesOK, HostOK, LineOK, OrderOK, NEW s, EndFrame(s) PROVE OrderOK'
<1>0. Waiting \in Nat
  BY WaitingIsNat
<1> DEFINE C == Current(s)
<1>1. /\ s \in running /\ C \in Known
      /\ Known' = Known /\ overlaps' = overlaps
      /\ \A e \in Known : Live(e)' <=> Live(e) /\ e # C
      /\ C[1] = s /\ Live(C) /\ Grows("end", C)
  BY Executions DEF EndFrame
<1>2. \A e, f : (Met(e, f)' <=> Met(e, f)) /\ (IsInside(e, f)' <=> IsInside(e, f))
  BY <1>1 DEF Met, IsInside
<1>3. /\ \A t, x : Pending(t, x)' <=> Pending(t, x) \/ (t = "end" /\ x = C)
      /\ \A t, x, u, y :
           Before(t, x, u, y) /\ ~(t = "end" /\ x = C /\ (Pending(u, y) \/ (u = "end" /\ y = C)))
           => Before(t, x, u, y)'
  BY <1>0, <1>1, GrowsFacts
<1> HIDE DEF C
<1>4. ASSUME NEW e \in Known', NEW f \in Known', Met(e, f)', Starting(f)'
      PROVE  Going(e)' /\ Before("start", f, "end", e)'
  <2>1. Met(e, f) /\ Starting(f) /\ e \in Known /\ f \in Known
    BY <1>1, <1>2, <1>3, <1>4 DEF Starting
  <2>2. Going(e) /\ Before("start", f, "end", e)
    BY <2>1 DEF OrderOK
  <2> QED BY <2>1, <2>2, <1>1, <1>3 DEF Ending, Going
<1>5. ASSUME NEW e \in Known', NEW f \in Known', IsInside(f, e)'
      PROVE  /\ Before("end", f, "end", e)' /\ Before("start", e, "start", f)'
             /\ Starting(e)' => Starting(f)'
  <2>1. IsInside(f, e) /\ Met(f, e) /\ e \in Known /\ f \in Known /\ e # f
    BY <1>1, <1>2, <1>5, MetFacts DEF IsInside
  <2>2. /\ Before("end", f, "end", e) /\ Before("start", e, "start", f)
        /\ Starting(e) => Starting(f)
    BY <2>1 DEF OrderOK
  <2>3. f = C => ~Pending("end", e)
    <3> SUFFICES ASSUME f = C PROVE ~Pending("end", e)
      OBVIOUS
    <3>1. Live(e)
      BY <2>1, <1>1 DEF HostOK
    <3>2. e[1] \in running /\ e = Current(e[1])
      BY <3>1 DEF Live
    <3> QED BY <3>2 DEF LineOK, Ending
  <2> QED BY <2>1, <2>2, <2>3, <1>3 DEF Starting
<1>6. ASSUME NEW e \in Known', Starting(e)' PROVE Going(e)'
  BY <1>1, <1>3, <1>6 DEF OrderOK, Going, Starting, Ending
<1> QED BY <1>4, <1>5, <1>6 DEF OrderOK

LEMMA OrderRepeat ==
  ASSUME ShapesOK, HostOK, LineOK, OrderOK, NEW x, RepeatFrame(x) PROVE OrderOK'
<1>0. Waiting \in Nat
  BY WaitingIsNat
<1>1. /\ Known' = Known /\ overlaps' = overlaps
      /\ \A e \in Known : Live(e)' <=> Live(e)
      /\ Waiting > 0 /\ Tag(Waiting) = "end" /\ Who(Waiting) = x /\ Grows("end", x)
  BY DEF RepeatFrame, SameHost
<1>2. \A e, f : (Met(e, f)' <=> Met(e, f)) /\ (IsInside(e, f)' <=> IsInside(e, f))
  BY <1>1 DEF Met, IsInside
<1>3. /\ \A t, y : Pending(t, y)' <=> Pending(t, y) \/ (t = "end" /\ y = x)
      /\ \A t, y, u, z :
           Before(t, y, u, z) /\ ~(t = "end" /\ y = x /\ (Pending(u, z) \/ (u = "end" /\ z = x)))
           => Before(t, y, u, z)'
  BY <1>0, <1>1, GrowsFacts
<1>4. ASSUME NEW e \in Known', NEW f \in Known', Met(e, f)', Starting(f)'
      PROVE  Going(e)' /\ Before("start", f, "end", e)'
  <2>1. Met(e, f) /\ Starting(f) /\ e \in Known /\ f \in Known
    BY <1>1, <1>2, <1>3, <1>4 DEF Starting
  <2>2. Going(e) /\ Before("start", f, "end", e)
    BY <2>1 DEF OrderOK
  <2> QED BY <2>1, <2>2, <1>1, <1>3 DEF Ending, Going
<1>5. ASSUME NEW e \in Known', NEW f \in Known', IsInside(f, e)'
      PROVE  /\ Before("end", f, "end", e)' /\ Before("start", e, "start", f)'
             /\ Starting(e)' => Starting(f)'
  <2>1. IsInside(f, e) /\ Met(f, e) /\ e \in Known /\ f \in Known /\ e # f
    BY <1>1, <1>2, <1>5, MetFacts DEF IsInside
  <2>2. /\ Before("end", f, "end", e) /\ Before("start", e, "start", f)
        /\ Starting(e) => Starting(f)
    BY <2>1 DEF OrderOK
  <2>3. f = x => ~Pending("end", e)
    <3> SUFFICES ASSUME f = x, NEW j \in 1..Waiting, Tag(j) = "end", Who(j) = e PROVE FALSE
      BY DEF Pending
    <3>1. Waiting \in 1..Waiting /\ Tag(Waiting) = "end" /\ Who(Waiting) = f
      BY <1>0, <1>1
    <3>2. Waiting < j
      BY <3>1, <2>2 DEF Before
    <3> QED BY <3>2, <1>0
  <2> QED BY <2>1, <2>2, <2>3, <1>3 DEF Starting
<1>6. ASSUME NEW e \in Known', Starting(e)' PROVE Going(e)'
  BY <1>1, <1>3, <1>6 DEF OrderOK, Going, Starting, Ending
<1> QED BY <1>4, <1>5, <1>6 DEF OrderOK

LEMMA OrderStays ==
  ASSUME ShapesOK, HostOK, OrderOK, SameHost, Stays PROVE OrderOK'
<1>0. Waiting \in Nat
  BY WaitingIsNat
<1>1. /\ Known' = Known /\ overlaps' = overlaps
      /\ \A e \in Known : Live(e)' <=> Live(e)
  BY DEF SameHost
<1>2. \A e, f : (Met(e, f)' <=> Met(e, f)) /\ (IsInside(e, f)' <=> IsInside(e, f))
  BY <1>1 DEF Met, IsInside
<1>3. /\ \A t, y : Pending(t, y)' <=> Pending(t, y)
      /\ \A t, y, u, z : Before(t, y, u, z) => Before(t, y, u, z)'
  BY <1>0, StaysFacts
<1>4. /\ \A e : (Starting(e)' <=> Starting(e)) /\ (Ending(e)' <=> Ending(e))
      /\ \A e \in Known : Going(e)' <=> Going(e)
  BY <1>1, <1>3 DEF Starting, Ending, Going
<1> QED BY <1>1, <1>2, <1>3, <1>4 DEF OrderOK

\* An execution that starts in the line is not in it before.
LEMMA StartIsFirst ==
  ASSUME ShapesOK, LineOK, NEW tag, NEW x, Takes(tag, x)
  PROVE  ~Pending("start", x)'
<1>0. Waiting \in Nat
  BY WaitingIsNat
<1>1. /\ Waiting > 0 /\ Waiting' = Waiting - 1 /\ Tag(1) = tag /\ Who(1) = x
      /\ \A i \in 1..Waiting' : Tag(i)' = Tag(i + 1) /\ Who(i)' = Who(i + 1)
  BY DEF Takes
<1>2. ASSUME NEW i \in 1..Waiting', Tag(i)' = "start", Who(i)' = x PROVE FALSE
  <2>1. 1 \in 1..Waiting /\ i + 1 \in 1..Waiting /\ 1 < i + 1
    BY <1>0, <1>1
  <2>2. Tag(i + 1) = "start" /\ Who(i + 1) = Who(1)
    BY <1>1, <1>2
  <2>3. Who(1)[2] < Who(i + 1)[2]
    BY <2>1, <2>2 DEF LineOK
  <2>4. Who(1)[2] \in Nat
    BY <2>1, Executions DEF LineOK
  <2> QED BY <2>2, <2>3, <2>4
<1> QED BY <1>2 DEF Pending

\* When an end is taken nothing that met it is still to start.
LEMMA OrderTakes ==
  ASSUME ShapesOK, HostOK, LineOK, OrderOK, SameHost, NEW tag, NEW x, Takes(tag, x)
  PROVE  /\ OrderOK'
         /\ tag = "end" => /\ \A f : Met(x, f) => ~Starting(f)
                           /\ \A f : IsInside(f, x) => ~Ending(f)
<1>0. Waiting \in Nat
  BY WaitingIsNat
<1>1. /\ Known' = Known /\ overlaps' = overlaps
      /\ \A e \in Known : Live(e)' <=> Live(e)
  BY DEF SameHost
<1>2. \A e, f : (Met(e, f)' <=> Met(e, f)) /\ (IsInside(e, f)' <=> IsInside(e, f))
  BY <1>1 DEF Met, IsInside
<1>3. /\ Pending(tag, x)
      /\ \A t, y : Pending(t, y)' => Pending(t, y)
      /\ \A t, y : Pending(t, y) => Pending(t, y)' \/ (t = tag /\ y = x)
      /\ \A t, y, u, z : Before(t, y, u, z) => Before(t, y, u, z)'
      /\ \A t, y : Before(t, y, tag, x) => ~Pending(t, y)
  BY <1>0, TakesFacts
<1>4. ASSUME NEW e \in Known', NEW f \in Known', Met(e, f)', Starting(f)'
      PROVE  Going(e)' /\ Before("start", f, "end", e)'
  <2>1. Met(e, f) /\ Starting(f) /\ e \in Known /\ f \in Known
    BY <1>1, <1>2, <1>3, <1>4 DEF Starting
  <2>2. Going(e) /\ Before("start", f, "end", e)
    BY <2>1 DEF OrderOK
  <2>3. ~(tag = "end" /\ e = x)
    BY <2>1, <2>2, <1>3 DEF Starting
  <2> QED BY <2>1, <2>2, <2>3, <1>1, <1>3 DEF Ending, Going
<1>5. ASSUME NEW e \in Known', NEW f \in Known', IsInside(f, e)'
      PROVE  /\ Before("end", f, "end", e)' /\ Before("start", e, "start", f)'
             /\ Starting(e)' => Starting(f)'
  <2>1. IsInside(f, e) /\ e \in Known /\ f \in Known
    BY <1>1, <1>2, <1>5
  <2>2. /\ Before("end", f, "end", e) /\ Before("start", e, "start", f)
        /\ Starting(e) => Starting(f)
    BY <2>1 DEF OrderOK
  <2> QED BY <2>2, <1>3 DEF Starting
<1>6. ASSUME tag = "end", NEW f, Met(x, f) PROVE ~Starting(f)
  <2>1. x \in Known /\ f \in Known
    BY <1>6, MetFacts
  <2>2. Starting(f) => Before("start", f, "end", x)
    BY <1>6, <2>1 DEF OrderOK
  <2> QED BY <2>2, <1>3, <1>6 DEF Starting
<1>7. ASSUME tag = "end", NEW f, IsInside(f, x) PROVE ~Ending(f)
  <2>1. x \in Known /\ f \in Known
    BY <1>7, MetFacts DEF IsInside
  <2>2. Before("end", f, "end", x)
    BY <1>7, <2>1 DEF OrderOK
  <2> QED BY <2>2, <1>3, <1>7 DEF Ending, Going
<1>8. ASSUME NEW e \in Known', Starting(e)' PROVE Going(e)'
  <2>1. e \in Known /\ Starting(e) /\ Going(e)
    BY <1>1, <1>3, <1>8 DEF OrderOK, Starting
  <2>2. ~(tag = "end" /\ e = x)
    BY <1>8, StartIsFirst DEF Starting
  <2> QED BY <2>1, <2>2, <1>1, <1>3 DEF Going, Ending
<1> QED BY <1>4, <1>5, <1>6, <1>7, <1>8 DEF OrderOK

-----------------------------------------------------------------------------
(* The host's steps, as the tracker sees them: an execution comes to the    *)
(* line, or an event does, and nothing else about the known ones changes.   *)

Calm ==
  /\ Known \subseteq Known'
  /\ \A e \in Known' : e \notin Known => Starting(e)' /\ \A f \in Known : e[1] = f[1] => f[2] < e[2]
  /\ \A e \in Known : /\ Starting(e)' <=> Starting(e)
                      /\ Going(e)' <=> Going(e)
                      /\ Repeated(e) => Repeated(e)'
                      /\ Live(e)' => Live(e)
  /\ \A e, f \in Known : Met(e, f)' <=> Met(e, f)
  /\ \A e, f \in Known' : Met(e, f)' /\ e \in Known /\ f \notin Known => Live(e)
  /\ \A e, f \in Known' : Met(e, f)' /\ e \notin Known => Parent[f[1]] # e[1]

LEMMA CalmStart ==
  ASSUME ShapesOK, HostOK, LineOK, NEW s, StartFrame(s) PROVE Calm
<1>0. Waiting \in Nat
  BY WaitingIsNat
<1>n. PICK N : N = Newest(s)
  OBVIOUS
<1>1. /\ \A e, f \in Known : Met(e, f)' <=> Met(e, f)
      /\ \A o \in running : Parent[o] # s
      /\ \A e \in Known : Live(e)' <=> Live(e)
      /\ Known' = Known \union {N} /\ N \notin Known /\ N[1] = s
      /\ Grows("start", N)
      /\ \A e \in Known : e[1] = s => e[2] < N[2]
  BY <1>n, StartMeets DEF StartFrame
<1>2. /\ \A t, x : Pending(t, x)' <=> Pending(t, x) \/ (t = "start" /\ x = N)
      /\ \A x : Repeated(x) => Repeated(x)'
  BY <1>0, <1>1, GrowsFacts
<1>3. ASSUME NEW e \in Known', e \notin Known
      PROVE  Starting(e)' /\ \A f \in Known : e[1] = f[1] => f[2] < e[2]
  BY <1>1, <1>2, <1>3 DEF Starting
<1>4. ASSUME NEW e \in Known
      PROVE  /\ Starting(e)' <=> Starting(e)
             /\ Going(e)' <=> Going(e)
             /\ Repeated(e) => Repeated(e)'
             /\ Live(e)' => Live(e)
  <2>1. e # N
    BY <1>1
  <2> QED BY <2>1, <1>1, <1>2 DEF Starting, Going, Ending
<1>5. ASSUME NEW e \in Known', NEW f \in Known', Met(e, f)', e \in Known, f \notin Known PROVE Live(e)
  BY <1>1, <1>5, <1>n, MetAtStart
<1>6. ASSUME NEW e \in Known', NEW f \in Known', Met(e, f)', e \notin Known PROVE Parent[f[1]] # e[1]
  BY <1>1, <1>6, <1>n, MetAtStart
<1> QED BY <1>1, <1>3, <1>4, <1>5, <1>6 DEF Calm

LEMMA CalmEnd ==
  ASSUME ShapesOK, NEW s, EndFrame(s) PROVE Calm
<1>0. Waiting \in Nat
  BY WaitingIsNat
<1>n. PICK C : C = Current(s)
  OBVIOUS
<1>1. /\ C \in Known /\ Live(C)
      /\ Known' = Known /\ overlaps' = overlaps
      /\ \A e \in Known : Live(e)' <=> Live(e) /\ e # C
      /\ Grows("end", C)
  BY <1>n, Executions DEF EndFrame
<1>2. /\ \A t, x : Pending(t, x)' <=> Pending(t, x) \/ (t = "end" /\ x = C)
      /\ \A x : Repeated(x) => Repeated(x)'
  BY <1>0, <1>1, GrowsFacts
<1>3. ASSUME NEW e \in Known
      PROVE  /\ Starting(e)' <=> Starting(e)
             /\ Going(e)' <=> Going(e)
             /\ Repeated(e) => Repeated(e)'
             /\ Live(e)' => Live(e)
  BY <1>1, <1>2 DEF Starting, Going, Ending
<1> QED BY <1>1, <1>3 DEF Calm, Met

LEMMA CalmRepeat ==
  ASSUME ShapesOK, NEW x, RepeatFrame(x) PROVE Calm
<1>0. Waiting \in Nat
  BY WaitingIsNat
<1>1. /\ Known' = Known /\ overlaps' = overlaps
      /\ \A e \in Known : Live(e)' <=> Live(e)
      /\ Grows("end", x) /\ Waiting > 0 /\ Tag(Waiting) = "end" /\ Who(Waiting) = x
  BY DEF RepeatFrame, SameHost
<1>2. /\ \A t, y : Pending(t, y)' <=> Pending(t, y) \/ (t = "end" /\ y = x)
      /\ \A y : Repeated(y) => Repeated(y)'
      /\ Pending("end", x)
  BY <1>0, <1>1, GrowsFacts DEF Pending
<1>3. ASSUME NEW e \in Known
      PROVE  /\ Starting(e)' <=> Starting(e)
             /\ Going(e)' <=> Going(e)
             /\ Repeated(e) => Repeated(e)'
             /\ Live(e)' => Live(e)
  BY <1>1, <1>2 DEF Starting, Going, Ending
<1> QED BY <1>1, <1>3 DEF Calm, Met

LEMMA CalmStays ==
  ASSUME ShapesOK, SameHost, Stays PROVE Calm
<1>0. Waiting \in Nat
  BY WaitingIsNat
<1>1. /\ Known' = Known /\ overlaps' = overlaps
      /\ \A e \in Known : Live(e)' <=> Live(e)
  BY DEF SameHost
<1>2. /\ \A t, y : Pending(t, y)' <=> Pending(t, y)
      /\ \A y : Repeated(y) => Repeated(y)'
  BY <1>0, StaysFacts
<1>3. ASSUME NEW e \in Known
      PROVE  /\ Starting(e)' <=> Starting(e)
             /\ Going(e)' <=> Going(e)
             /\ Repeated(e) => Repeated(e)'
             /\ Live(e)' => Live(e)
  BY <1>1, <1>2 DEF Starting, Going, Ending
<1> QED BY <1>1, <1>3 DEF Calm, Met

-----------------------------------------------------------------------------
(* The head of the line and its session.                                    *)

\* When a start is taken, no earlier execution of the session is going on.
LEMMA HeadStart ==
  ASSUME ShapesOK, LineOK, NEW x, Takes("start", x),
         NEW e \in Known, e[1] = x[1], ~Starting(e), Going(e)
  PROVE  FALSE
<1>0. Waiting \in Nat
  BY WaitingIsNat
<1>1. 1 \in 1..Waiting /\ Tag(1) = "start" /\ Who(1) = x /\ x \in Known
  BY <1>0 DEF Takes, LineOK
<1>2. Starting(x)
  BY <1>1 DEF Starting, Pending
<1>3. /\ e = <<e[1], e[2]>> /\ e[2] \in Nat /\ e[2] <= Current(e[1])[2]
      /\ x = <<x[1], x[2]>> /\ x[2] \in Nat /\ x[2] <= Current(x[1])[2]
      /\ Current(e[1])[2] \in Nat
  BY <1>1, Executions
<1>4. e # x
  BY <1>2
<1>5. e[2] < x[2]
  <2>1. ~(e[2] > x[2])
    BY <1>1 DEF LineOK
  <2> QED BY <2>1, <1>3, <1>4
<1>6. CASE Live(e)
  <2>1. e = Current(e[1])
    BY <1>6 DEF Live
  <2>2. e[2] = Current(x[1])[2]
    BY <2>1
  <2> QED BY <2>2, <1>3, <1>5
<1>7. CASE Ending(e)
  <2>1. PICK j \in 1..Waiting : Tag(j) = "end" /\ Who(j) = e
    BY <1>7 DEF Ending, Pending
  <2>2. 1 < j
    BY <2>1, <1>1
  <2>3. Who(1)[2] < Who(j)[2]
    BY <2>1, <2>2, <1>1, <1>4 DEF LineOK
  <2> QED BY <2>1, <2>3, <1>1, <1>3, <1>5
<1> QED BY <1>6, <1>7 DEF Going

\* When an end is taken, it is that of the one execution of its session that is
\* going on: the later ones have still to start.
LEMMA HeadEnd ==
  ASSUME ShapesOK, LineOK, NEW x, Takes("end", x)
  PROVE  /\ x \in Known /\ Ending(x) /\ ~Live(x) /\ ~Starting(x)
         /\ \A e \in Known : e[1] = x[1] /\ ~Starting(e) /\ Going(e) => e = x
         /\ \A e \in Known : e[1] = x[1] /\ Starting(e) => x[2] < e[2]
         /\ Ending(x)' => Repeated(x)'
<1>0. Waiting \in Nat
  BY WaitingIsNat
<1>1. 1 \in 1..Waiting /\ Tag(1) = "end" /\ Who(1) = x /\ x \in Known
  BY <1>0 DEF Takes, LineOK
<1>2. Ending(x)
  BY <1>1 DEF Ending, Pending
<1>3. ~Live(x)
  BY <1>2 DEF Live, LineOK
<1>4. ASSUME NEW j \in 1..Waiting, j # 1, Who(j)[1] = x[1]
      PROVE  x[2] < Who(j)[2] \/ (Who(j) = x /\ Tag(j) = "end")
  BY <1>1, <1>4 DEF LineOK
<1>5. x[2] \in Nat /\ Current(x[1])[2] \in Nat /\ x = <<x[1], x[2]>> /\ x[2] <= Current(x[1])[2]
  BY <1>1, Executions
<1>6. ASSUME NEW e \in Known, e[1] = x[1], Starting(e) PROVE x[2] < e[2]
  <2>1. PICK j \in 1..Waiting : Tag(j) = "start" /\ Who(j) = e
    BY <1>6 DEF Starting, Pending
  <2> QED BY <2>1, <1>1, <1>4, <1>6
<1>7. ~Starting(x)
  BY <1>1, <1>5, <1>6
<1>8. ASSUME NEW e \in Known, e[1] = x[1], ~Starting(e), Going(e) PROVE e = x
  <2>1. e[2] \in Nat /\ e = <<e[1], e[2]>>
    BY Executions
  <2>2. ~(e[2] > x[2])
    BY <1>1, <1>8 DEF LineOK
  <2>3. ~(e[2] < x[2])
    <3>1. CASE Live(e)
      <4>1. e[2] = Current(x[1])[2]
        BY <3>1, <1>8 DEF Live
      <4> QED BY <4>1, <1>5
    <3>2. CASE Ending(e)
      <4>1. PICK j \in 1..Waiting : Tag(j) = "end" /\ Who(j) = e
        BY <3>2 DEF Ending, Pending
      <4> QED BY <4>1, <1>1, <1>4, <1>5, <1>8, <2>1
    <3> QED BY <3>1, <3>2, <1>8 DEF Going
  <2> QED BY <2>1, <2>2, <2>3, <1>5, <1>8
<1>9. ASSUME Ending(x)' PROVE Repeated(x)'
  <2>1. PICK k \in 1..Waiting' : Tag(k)' = "end" /\ Who(k)' = x
    BY <1>9 DEF Ending, Pending
  <2>2. /\ Waiting' = Waiting - 1 /\ k + 1 \in 1..Waiting /\ Who(k + 1) = x
        /\ Waiting' > 0 /\ 1 \in 1..Waiting'
    BY <2>1, <1>0 DEF Takes
  <2>3. Tag(1)' = Tag(2) /\ Who(1)' = Who(2) /\ 2 \in 1..Waiting
    <3>1. \A i \in 1..Waiting' : Tag(i)' = Tag(i + 1) /\ Who(i)' = Who(i + 1)
      BY DEF Takes
    <3>2. 1 + 1 = 2
      OBVIOUS
    <3> QED BY <3>1, <3>2, <2>2, <1>0
  <2>4. Who(2) = x
    <3>1. CASE k = 1
      BY <3>1, <2>1, <2>3
    <3>2. CASE k # 1
      <4>1. 1 < 2 /\ 2 < k + 1 /\ Who(1) = Who(k + 1)
        BY <3>2, <2>1, <2>2, <1>1
      <4> QED BY <4>1, <2>2, <2>3, <1>1 DEF LineOK
    <3> QED BY <3>1, <3>2
  <2>5. Tag(2) = "end"
    <3>1. x[2] < Who(2)[2] \/ Tag(2) = "end"
      BY <2>3, <2>4, <1>4
    <3> QED BY <3>1, <2>4, <1>5
  <2> QED BY <2>2, <2>3, <2>4, <2>5 DEF Repeated
<1> QED BY <1>1, <1>2, <1>3, <1>6, <1>7, <1>8, <1>9

-----------------------------------------------------------------------------
(* The map of open executions.                                              *)

LEMMA WithoutOpenFacts ==
  ASSUME IsList(open), OneEach(open), NEW s
  PROVE  /\ IsList(WithoutOpen(s)) /\ OneEach(WithoutOpen(s))
         /\ Members(WithoutOpen(s)) = {o \in Members(open) : o.execution[1] # s}
<1>1. CASE IsOpen(s)
  <2>1. PICK i \in DOMAIN open : /\ open[i].execution[1] = s
                                 /\ i = CHOOSE k \in DOMAIN open : open[k].execution[1] = s
    <3>1. \E k \in DOMAIN open : open[k].execution[1] = s
      BY <1>1 DEF IsOpen, Elements, SessionOf
    <3> QED BY <3>1
  <2>2. PICK t : t = SubSeq(open, 1, i - 1) \o SubSeq(open, i + 1, Len(open))
    OBVIOUS
  <2>3. WithoutOpen(s) = t
    BY <1>1, <2>1, <2>2 DEF WithoutOpen, Without, SessionOf
  <2>4. /\ IsList(t)
        /\ Len(open) \in Nat \ {0} /\ DOMAIN open = 1..Len(open)
        /\ Len(t) = Len(open) - 1 /\ DOMAIN t = 1..(Len(open) - 1)
        /\ \A k \in 1..(i - 1) : t[k] = open[k]
        /\ \A k \in i..(Len(open) - 1) : t[k] = open[k + 1]
        /\ Members(t) \subseteq Members(open)
    <3>0. i \in DOMAIN open
      BY <2>1
    <3>1. IsList(t) /\ Members(t) \subseteq Members(open)
      BY <3>0, <2>2, RemoveList
    <3>2. Len(open) \in Nat \ {0} /\ DOMAIN open = 1..Len(open)
      BY <3>0, <2>2, RemoveList
    <3>3. Len(t) = Len(open) - 1 /\ DOMAIN t = 1..(Len(open) - 1)
      BY <3>0, <2>2, RemoveList
    <3>4. \A k \in 1..(i - 1) : t[k] = open[k]
      BY <3>0, <2>2, RemoveList, SMTT(60)
    <3>5. \A k \in i..(Len(open) - 1) : t[k] = open[k + 1]
      BY <3>0, <2>2, RemoveList, SMTT(60)
    <3> QED BY <3>1, <3>2, <3>3, <3>4, <3>5
  <2>5. Members(open) = Members(t) \union {open[i]}
    BY <2>1, <2>4, RemoveListMembers
  <2>6. ASSUME NEW k \in DOMAIN t
        PROVE  \E m \in DOMAIN open : m # i /\ t[k] = open[m] /\ m = IF k < i THEN k ELSE k + 1
    <3>1. CASE k < i
      <4>1. k \in 1..(i - 1) /\ k \in DOMAIN open /\ k # i
        BY <3>1, <2>4
      <4> QED BY <4>1, <3>1, <2>4
    <3>2. CASE ~(k < i)
      <4>0. /\ Len(open) \in Nat \ {0} /\ i \in 1..Len(open) /\ k \in 1..(Len(open) - 1)
            /\ DOMAIN open = 1..Len(open)
        BY <2>1, <2>4
      <4>1. k \in i..(Len(open) - 1) /\ k + 1 \in DOMAIN open /\ k + 1 # i
        BY <3>2, <4>0
      <4>2. t[k] = open[k + 1]
        BY <4>1, <2>4
      <4>3. \E m \in DOMAIN open : m = k + 1 /\ m # i /\ t[k] = open[m]
        BY <4>1, <4>2
      <4> QED BY <4>3, <3>2
    <3> QED BY <3>1, <3>2
  <2>7. \A k \in DOMAIN t : t[k].execution[1] # s
    BY <2>1, <2>6 DEF OneEach
  <2>8. OneEach(t)
    <3>1. ASSUME NEW k \in DOMAIN t, NEW m \in DOMAIN t, t[k].execution[1] = t[m].execution[1] PROVE k = m
      <4>1. PICK k2 \in DOMAIN open : t[k] = open[k2] /\ k2 = IF k < i THEN k ELSE k + 1
        BY <2>6
      <4>2. PICK m2 \in DOMAIN open : t[m] = open[m2] /\ m2 = IF m < i THEN m ELSE m + 1
        BY <2>6
      <4>3. k2 = m2
        BY <3>1, <4>1, <4>2 DEF OneEach
      <4> QED BY <4>1, <4>2, <4>3, <2>1, <2>4
    <3> QED BY <3>1 DEF OneEach
  <2>9. Members(t) = {o \in Members(open) : o.execution[1] # s}
    <3>1. \A o \in Members(t) : o.execution[1] # s
      BY <2>7 DEF Members
    <3> QED BY <3>1, <2>1, <2>4, <2>5
  <2> QED BY <2>3, <2>4, <2>8, <2>9
<1>2. CASE ~IsOpen(s)
  <2>1. WithoutOpen(s) = open
    BY <1>2 DEF WithoutOpen
  <2>2. \A o \in Members(open) : o.execution[1] # s
    BY <1>2 DEF IsOpen, Elements, Members, SessionOf
  <2> QED BY <2>1, <2>2
<1> QED BY <1>1, <1>2

\* The records once task has opened one: those of the other sessions, flagged,
\* and its own, flagged if there is another.
Flagged(o) == [o EXCEPT !.concurrent = TRUE]
Fresh(task, snapshot, others) ==
  [execution |-> task.execution, generation |-> task.generation,
   snapshot |-> snapshot, concurrent |-> others # <<>>]

LEMMA OpenedFacts ==
  ASSUME IsList(open), OneEach(open), NEW task, NEW snapshot, NEW s, s = task.execution[1],
         Len(WithoutOpen(s)) < MaxOpenSnapshots, NEW q, q = Opened(task, snapshot)
  PROVE  /\ IsList(q) /\ OneEach(q)
         /\ Members(q) = {Flagged(o) : o \in {r \in Members(open) : r.execution[1] # s}}
                           \union {Fresh(task, snapshot, WithoutOpen(s))}
<1> PICK others : others = WithoutOpen(s)
  OBVIOUS
<1>1. /\ IsList(others) /\ OneEach(others)
      /\ Members(others) = {o \in Members(open) : o.execution[1] # s}
  BY WithoutOpenFacts
<1>2. Len(others) \in Nat /\ DOMAIN others = 1..Len(others)
  BY <1>1, ListOfSeq DEF IsList
<1> PICK flagged : flagged = [i \in DOMAIN others |-> Flagged(others[i])]
  OBVIOUS
<1>3. /\ IsList(flagged) /\ DOMAIN flagged = DOMAIN others /\ Len(flagged) = Len(others)
      /\ \A i \in DOMAIN others : flagged[i] = Flagged(others[i])
  <2>1. flagged \in [1..Len(others) -> Members(flagged)]
    BY <1>2 DEF Members
  <2>2. flagged \in Seq(Members(flagged))
    BY <2>1, <1>2, SeqDef
  <2>3. Len(flagged) = Len(others)
    <3>1. DOMAIN flagged = 1..Len(flagged) /\ Len(flagged) \in Nat
      BY <2>2, LenProperties
    <3> QED BY <3>1, <1>2
  <2> QED BY <2>2, <2>3 DEF IsList
<1>4. q = Append(flagged, Fresh(task, snapshot, others))
  <2>1. ~(Len(flagged) >= MaxOpenSnapshots)
    BY <1>2, <1>3, TrackerAssumption
  <2> QED BY <2>1 DEF Opened, Fresh, Flagged, SessionOf
<1>5. /\ IsList(q) /\ DOMAIN q = 1..(Len(flagged) + 1) /\ DOMAIN flagged = 1..Len(flagged)
      /\ \A i \in 1..Len(flagged) : q[i] = flagged[i]
      /\ q[Len(flagged) + 1] = Fresh(task, snapshot, others)
      /\ Members(q) = Members(flagged) \union {Fresh(task, snapshot, others)}
  BY <1>3, <1>4, AppendList
<1>6. Members(flagged) = {Flagged(o) : o \in Members(others)}
  BY <1>3 DEF Members
<1>7. ASSUME NEW i \in DOMAIN others PROVE q[i].execution = others[i].execution /\ q[i].execution[1] # s
  <2>1. others[i] \in Members(others)
    BY DEF Members
  <2>2. q[i] = Flagged(others[i])
    BY <1>3, <1>5
  <2> QED BY <2>1, <2>2, <1>1 DEF Flagged
<1>8. OneEach(q)
  <2>1. ASSUME NEW i \in DOMAIN q, NEW j \in DOMAIN q, q[i].execution[1] = q[j].execution[1] PROVE i = j
    <3>1. q[Len(flagged) + 1].execution[1] = s
      BY <1>5 DEF Fresh
    <3>2. CASE i \in DOMAIN others /\ j \in DOMAIN others
      BY <3>2, <2>1, <1>1, <1>7 DEF OneEach
    <3>3. CASE i \notin DOMAIN others
      <4>1. i = Len(flagged) + 1
        BY <3>3, <1>2, <1>3, <1>5
      <4>2. j \notin DOMAIN others
        BY <4>1, <3>1, <2>1, <1>7
      <4> QED BY <4>1, <4>2, <1>2, <1>3, <1>5
    <3>4. CASE j \notin DOMAIN others
      <4>1. j = Len(flagged) + 1
        BY <3>4, <1>2, <1>3, <1>5
      <4>2. i \notin DOMAIN others
        BY <4>1, <3>1, <2>1, <1>7
      <4> QED BY <4>1, <4>2, <1>2, <1>3, <1>5
    <3> QED BY <3>2, <3>3, <3>4
  <2> QED BY <2>1 DEF OneEach
<1> QED BY <1>1, <1>5, <1>6, <1>8

-----------------------------------------------------------------------------
(* The shapes.                                                              *)

LEMMA ShapesKept ==
  ASSUME ShapesOK,
         context' \in [Sessions -> Seq(Nat)], running' \subseteq Sessions,
         \A s \in running' : Len(context'[s]) > 0,
         Known \subseteq Known', made \subseteq made', made' \subseteq Known' \X {"shown", "ignored"},
         IsList(tasks'), IsList(events'),
         UNCHANGED <<open, nestedRoots>>,
         writes' \in [Sessions -> SUBSET made']
  PROVE  ShapesOK'
<1>1. \A o \in Members(open') : o.execution \in Known' /\ (o.snapshot # None => o.snapshot \subseteq made')
  BY DEF ShapesOK
<1> QED BY <1>1 DEF ShapesOK

LEMMA ShapesHost ==
  ASSUME TrackerAssumption, ShapesOK, LineOK, Host \/ OnEvent
  PROVE  ShapesOK'
<1>0. /\ context \in [Sessions -> Seq(Nat)] /\ running \subseteq Sessions
      /\ \A s \in running : Len(context[s]) > 0
      /\ made \subseteq Known \X {"shown", "ignored"}
      /\ IsList(tasks) /\ IsList(events)
      /\ writes \in [Sessions -> SUBSET made]
  BY DEF ShapesOK
<1>1. ASSUME NEW s \in Sessions, HostStart(s) PROVE ShapesOK'
  <2>1. /\ context' \in [Sessions -> Seq(Nat)] /\ \A t \in running' : Len(context'[t]) > 0
        /\ Known' = Known \union {Newest(s)} /\ running' = running \union {s}
    BY <1>1, HostStartFrame DEF StartFrame
  <2>2. UNCHANGED <<made, writes, open, nestedRoots, tasks>>
    BY <1>1 DEF HostStart, trackerVars
  <2>3. IsList(events')
    <3>1. \E x : events' = Append(events, x)
      BY <1>1 DEF HostStart
    <3> QED BY <3>1, <2>2, AppendedEvent
  <2> QED BY <2>1, <2>2, <2>3, <1>0, ShapesKept
<1>2. ASSUME NEW s \in Sessions, HostReply(s) PROVE ShapesOK'
  <2>1. /\ context' \in [Sessions -> Seq(Nat)] /\ \A t \in running' : Len(context'[t]) > 0
        /\ Known' = Known
    BY <1>2, HostReplyFrame DEF SameHost
  <2>2. UNCHANGED <<running, made, events, writes, open, nestedRoots, tasks>>
    BY <1>2 DEF HostReply, trackerVars
  <2> QED BY <2>1, <2>2, <1>0, ShapesKept
<1>3. ASSUME NEW s \in Sessions, HostEnd(s) PROVE ShapesOK'
  <2>1. Known' = Known /\ running' = running \ {s}
    BY <1>3, HostEndFrame DEF EndFrame
  <2>2. UNCHANGED <<context, made, writes, open, nestedRoots, tasks>>
    BY <1>3 DEF HostEnd, trackerVars
  <2>3. IsList(events')
    <3>1. \E x : events' = Append(events, x)
      BY <1>3 DEF HostEnd
    <3> QED BY <3>1, <2>2, AppendedEvent
  <2> QED BY <2>1, <2>2, <2>3, <1>0, ShapesKept
<1>4. ASSUME NEW s \in Sessions, NEW kind \in Kinds, HostWrite(s, kind) PROVE ShapesOK'
  <2>1. /\ UNCHANGED <<context, running, events, open, nestedRoots, tasks>>
        /\ made' = made \union {<<Current(s), kind>>}
        /\ writes' = [writes EXCEPT ![s] = @ \union {<<Current(s), kind>>}]
        /\ s \in running
    BY <1>4 DEF HostWrite
  <2>2. Known' = Known
    BY <2>1 DEF Known
  <2>3. <<Current(s), kind>> \in Known \X {"shown", "ignored"}
    <3>1. Current(s) \in Known
      BY <2>1, Executions
    <3>2. kind \in {"shown", "ignored"}
      BY DEF TrackerAssumption
    <3> QED BY <3>1, <3>2
  <2>4. writes' \in [Sessions -> SUBSET made']
    BY <2>1, <1>0
  <2> QED BY <2>1, <2>2, <2>3, <2>4, <1>0, ShapesKept
<1>5. ASSUME HostRepeat PROVE ShapesOK'
  <2>1. UNCHANGED <<context, running, made, writes, open, nestedRoots, tasks>>
    BY <1>5 DEF HostRepeat, trackerVars
  <2>2. PICK copy : events' = <<copy, copy>>
    BY <1>5 DEF HostRepeat
  <2>3. IsList(events')
    <3>1. <<copy, copy>> \in Seq({copy})
      OBVIOUS
    <3> QED BY <3>1, <2>2, ListOfSeq
  <2>4. Known' = Known
    BY <2>1 DEF Known
  <2> QED BY <2>1, <2>3, <2>4, <1>0, ShapesKept
<1>6. ASSUME OnEvent PROVE ShapesOK'
  <2>1. UNCHANGED <<context, running, made, writes, open, nestedRoots>>
    BY <1>6 DEF OnEvent
  <2>2. IsList(tasks') /\ IsList(events') /\ Known' = Known
    BY <1>6, OnEventFrame DEF SameHost
  <2> QED BY <2>1, <2>2, <1>0, ShapesKept
<1> QED BY <1>1, <1>2, <1>3, <1>4, <1>5, <1>6 DEF Host

\* A nested session's parent is another session, and has no parent.
LEMMA Parents ==
  ASSUME TrackerAssumption, NEW s \in Sessions, Parent[s] # None
  PROVE  Parent[s] \in Roots /\ Parent[s] # s /\ Parent[s] \in Sessions
BY DEF TrackerAssumption, Roots

LEMMA CloseNestedFacts ==
  ASSUME TrackerAssumption, ShapesOK, NEW s \in Sessions, nestedRoots[s] # None, CloseNested(s)
  PROVE  /\ nestedRoots[s] = Parent[s] /\ Parent[s] # None /\ Parent[s] # s
         /\ nestedRoots' \in [Sessions -> Sessions \union {None}]
         /\ nestedRoots'[s] = None /\ \A t \in Sessions \ {s} : nestedRoots'[t] = nestedRoots[t]
         /\ writes' \in [Sessions -> SUBSET made]
         /\ writes'[s] = {} /\ writes'[Parent[s]] = writes[Parent[s]] \union writes[s]
         /\ \A t \in Sessions \ {s} : writes[t] \subseteq writes'[t]
<1>1. /\ nestedRoots \in [Sessions -> Sessions \union {None}] /\ writes \in [Sessions -> SUBSET made]
      /\ nestedRoots[s] = Parent[s]
  BY DEF ShapesOK
<1>2. Parent[s] \in Sessions /\ Parent[s] # s /\ Parent[s] # None
  BY <1>1, Parents
<1>3. /\ nestedRoots' = [nestedRoots EXCEPT ![s] = None]
      /\ writes' = [writes EXCEPT ![Parent[s]] = writes[Parent[s]] \union writes[s], ![s] = {}]
  BY <1>1 DEF CloseNested
<1>4. /\ writes' \in [Sessions -> SUBSET made] /\ writes'[s] = {}
      /\ writes'[Parent[s]] = writes[Parent[s]] \union writes[s]
      /\ \A t \in Sessions \ {s} : writes[t] \subseteq writes'[t]
  BY <1>1, <1>2, <1>3
<1> QED BY <1>1, <1>2, <1>3, <1>4

-----------------------------------------------------------------------------
(* What a task of the queue does.                                           *)

LEMMA RunStartFacts ==
  ASSUME TrackerAssumption, ShapesOK, LineOK, RunStart, NEW x, x = Head(tasks).execution
  PROVE  /\ SameHost /\ Takes("start", x) /\ IsList(tasks')
         /\ tasks # <<>> /\ Head(tasks).kind = "STARTED"
         /\ x \in Known /\ x[1] \in Sessions
         /\ UNCHANGED <<context, running, made, events, writes, work, processed,
                        attributed, overlaps, crossings>>
         /\ \/ /\ Parent[x[1]] # None /\ IsOpen(Parent[x[1]])
               /\ nestedRoots' = [nestedRoots EXCEPT ![x[1]] = Parent[x[1]]]
               /\ UNCHANGED open
            \/ /\ \E snapshot \in {Tree, None} : open' = Opened(Head(tasks), snapshot)
               /\ UNCHANGED nestedRoots
<1>1. /\ TakeTask("STARTED")
      /\ UNCHANGED <<context, running, made, events, writes, work, processed,
                     attributed, overlaps, crossings>>
  BY DEF RunStart, hostVars, historyVars
<1>2. /\ SameHost /\ IsList(tasks') /\ Takes("start", x)
      /\ tasks # <<>> /\ Head(tasks).kind = "STARTED"
  BY <1>1, TakeTaskFrame DEF TakeTask
<1>3. x \in Known /\ x[1] \in Sessions
  <2>0. Waiting \in Nat
    BY WaitingIsNat
  <2>1. x \in Known
    BY <1>2, <2>0 DEF Takes, LineOK
  <2> QED BY <2>1, Executions
<1> PICK s : s = x[1]
  OBVIOUS
<1> PICK root : root = IF Parent[s] = None THEN None ELSE RootOf(Parent[s])
  OBVIOUS
<1>4. \/ root # None /\ nestedRoots' = [nestedRoots EXCEPT ![s] = root] /\ UNCHANGED open
      \/ /\ \E snapshot \in {Tree, None} : open' = Opened(Head(tasks), snapshot)
         /\ UNCHANGED nestedRoots
  BY DEF RunStart, SessionOf
<1>5. ASSUME root # None PROVE Parent[s] # None /\ IsOpen(Parent[s]) /\ root = Parent[s]
  <2>1. Parent[s] # None /\ root = RootOf(Parent[s])
    BY <1>5
  <2>2. Parent[s] \in Sessions /\ Parent[Parent[s]] = None
    BY <2>1, <1>3, Parents DEF Roots
  <2>3. nestedRoots[Parent[s]] = None
    BY <2>2 DEF ShapesOK
  <2> QED BY <2>1, <2>3, <1>5 DEF RootOf
<1> QED BY <1>1, <1>2, <1>3, <1>4, <1>5

\* RunDiscard and RunFinish forget the execution in the same way.
LEMMA RunEndFacts ==
  ASSUME ShapesOK, LineOK, RunDiscard \/ RunFinish, NEW x, x = Head(tasks).execution
  PROVE  /\ SameHost /\ Takes("end", x) /\ IsList(tasks')
         /\ x \in Known /\ x[1] \in Sessions
         /\ UNCHANGED <<context, running, made, events, processed, attributed, overlaps, crossings>>
         /\ \/ /\ nestedRoots[x[1]] # None
               /\ CloseNested(x[1])
               /\ UNCHANGED <<open, work>>
            \/ /\ nestedRoots[x[1]] = None
               /\ open' = WithoutOpen(x[1])
               /\ writes' = [writes EXCEPT ![x[1]] = {}]
               /\ UNCHANGED nestedRoots
               /\ work' # None =>
                    /\ IsOpen(x[1]) /\ ~OpenOf(x[1]).concurrent
                    /\ work' = [execution |-> x, snapshot |-> OpenOf(x[1]).snapshot,
                                written |-> writes[x[1]], reply |-> None]
<1>1. /\ TakeTask("ENDED_OTHER") \/ TakeTask("SUCCEEDED")
      /\ UNCHANGED <<context, running, made, events, processed, attributed, overlaps, crossings>>
  BY DEF RunDiscard, RunFinish, hostVars, historyVars
<1>2. SameHost /\ IsList(tasks') /\ Takes("end", x)
  BY <1>1, TakeTaskFrame
<1>3. x \in Known /\ x[1] \in Sessions
  <2>0. Waiting \in Nat
    BY WaitingIsNat
  <2>1. x \in Known
    BY <1>2, <2>0 DEF Takes, LineOK
  <2> QED BY <2>1, Executions
<1>4. work = None
  BY <1>1 DEF TakeTask
<1>5. \/ nestedRoots[x[1]] # None /\ CloseNested(x[1]) /\ UNCHANGED <<open, work>>
      \/ /\ nestedRoots[x[1]] = None
         /\ open' = WithoutOpen(x[1])
         /\ writes' = [writes EXCEPT ![x[1]] = {}]
         /\ UNCHANGED nestedRoots
         /\ work' # None =>
              /\ IsOpen(x[1]) /\ ~OpenOf(x[1]).concurrent
              /\ work' = [execution |-> x, snapshot |-> OpenOf(x[1]).snapshot,
                          written |-> writes[x[1]], reply |-> None]
  <2>1. CASE RunDiscard
    BY <2>1, <1>4 DEF RunDiscard, SessionOf
  <2>2. CASE RunFinish
    BY <2>2, <1>4 DEF RunFinish, SessionOf
  <2> QED BY <2>1, <2>2
<1> QED BY <1>1, <1>2, <1>3, <1>5

LEMMA OpenOfFacts ==
  ASSUME NEW s, IsOpen(s)
  PROVE  OpenOf(s) \in Members(open) /\ OpenOf(s).execution[1] = s
<1>1. \E o \in Members(open) : o.execution[1] = s
  BY DEF IsOpen, Elements, Members, SessionOf
<1>2. Members(open) = Elements(open)
  BY DEF Members, Elements
<1> QED BY <1>1, <1>2 DEF OpenOf, SessionOf

LEMMA ShapesQueue ==
  ASSUME TrackerAssumption, ShapesOK, LineOK, RecordsOK, RoomToOpen, Queue
  PROVE  ShapesOK'
<1>0. /\ IsList(open) /\ OneEach(open) /\ nestedRoots \in [Sessions -> Sessions \union {None}]
      /\ \A o \in Members(open) : o.execution \in Known /\ (o.snapshot # None => o.snapshot \subseteq made)
      /\ writes \in [Sessions -> SUBSET made]
      /\ \A s \in Sessions : nestedRoots[s] \in {None, Parent[s]}
      /\ IsList(events)
  BY DEF ShapesOK, RecordsOK
<1> PICK x : x = Head(tasks).execution
  OBVIOUS
<1>1. ASSUME RunStart PROVE ShapesOK'
  <2>1. /\ SameHost /\ IsList(tasks') /\ tasks # <<>> /\ Head(tasks).kind = "STARTED" /\ x \in Known /\ x[1] \in Sessions
        /\ UNCHANGED <<context, running, made, events, writes>>
        /\ \/ /\ Parent[x[1]] # None
              /\ nestedRoots' = [nestedRoots EXCEPT ![x[1]] = Parent[x[1]]]
              /\ UNCHANGED open
           \/ /\ \E snapshot \in {Tree, None} : open' = Opened(Head(tasks), snapshot)
              /\ UNCHANGED nestedRoots
    BY <1>1, RunStartFacts
  <2>2. Known' = Known
    BY <2>1 DEF SameHost
  <2>3. CASE Parent[x[1]] # None /\ nestedRoots' = [nestedRoots EXCEPT ![x[1]] = Parent[x[1]]] /\ UNCHANGED open
    <3>1. Parent[x[1]] \in Sessions
      BY <2>1, <2>3, Parents
    <3>2. nestedRoots' \in [Sessions -> Sessions \union {None}] /\ \A s \in Sessions : nestedRoots'[s] \in {None, Parent[s]}
      BY <2>3, <3>1, <1>0
    <3>3. \A o \in Members(open') : o.execution \in Known' /\ (o.snapshot # None => o.snapshot \subseteq made')
      BY <2>1, <2>2, <2>3, <1>0
    <3> QED BY <2>1, <2>2, <2>3, <3>2, <3>3 DEF ShapesOK
  <2>4. CASE (\E snapshot \in {Tree, None} : open' = Opened(Head(tasks), snapshot)) /\ UNCHANGED nestedRoots
    <3>1. PICK snapshot \in {Tree, None} : open' = Opened(Head(tasks), snapshot)
      BY <2>4
    <3>2. Len(WithoutOpen(x[1])) < MaxOpenSnapshots
      BY <2>1 DEF RoomToOpen, SessionOf
    <3>3. /\ IsList(open')
          /\ Members(open') = {Flagged(o) : o \in {r \in Members(open) : r.execution[1] # x[1]}}
                                \union {Fresh(Head(tasks), snapshot, WithoutOpen(x[1]))}
      BY <3>1, <3>2, <1>0, OpenedFacts
    <3>4. \A o \in Members(open') : o.execution \in Known' /\ (o.snapshot # None => o.snapshot \subseteq made')
      <4>1. ASSUME NEW o \in Members(open)
            PROVE  Flagged(o).execution \in Known' /\ (Flagged(o).snapshot # None => Flagged(o).snapshot \subseteq made')
        <5>1. Flagged(o).execution = o.execution /\ Flagged(o).snapshot = o.snapshot
          BY DEF Flagged
        <5> QED BY <5>1, <2>1, <2>2, <1>0
      <4>2. PICK new : new = Fresh(Head(tasks), snapshot, WithoutOpen(x[1]))
        OBVIOUS
      <4>3. new.execution = x /\ new.snapshot = snapshot
        BY <4>2 DEF Fresh
      <4>4. snapshot # None => snapshot \subseteq made
        BY <3>1 DEF Tree
      <4> QED BY <3>3, <4>1, <4>2, <4>3, <4>4, <2>1, <2>2
    <3> QED BY <2>1, <2>2, <2>4, <3>3, <3>4 DEF ShapesOK
  <2> QED BY <2>1, <2>3, <2>4
<1>2. ASSUME RunDiscard \/ RunFinish PROVE ShapesOK'
  <2>1. /\ SameHost /\ IsList(tasks') /\ x \in Known /\ x[1] \in Sessions
        /\ UNCHANGED <<context, running, made, events>>
        /\ \/ nestedRoots[x[1]] # None /\ CloseNested(x[1]) /\ UNCHANGED open
           \/ /\ open' = WithoutOpen(x[1])
              /\ writes' = [writes EXCEPT ![x[1]] = {}]
              /\ UNCHANGED nestedRoots
    BY <1>2, RunEndFacts
  <2>2. Known' = Known
    BY <2>1 DEF SameHost
  <2>3. CASE nestedRoots[x[1]] # None /\ CloseNested(x[1]) /\ UNCHANGED open
    <3>1. /\ nestedRoots' \in [Sessions -> Sessions \union {None}]
          /\ nestedRoots'[x[1]] = None /\ \A t \in Sessions \ {x[1]} : nestedRoots'[t] = nestedRoots[t]
          /\ writes' \in [Sessions -> SUBSET made]
      BY <2>1, <2>3, CloseNestedFacts
    <3>2. \A s \in Sessions : nestedRoots'[s] \in {None, Parent[s]}
      BY <3>1, <1>0
    <3>3. \A o \in Members(open') : o.execution \in Known' /\ (o.snapshot # None => o.snapshot \subseteq made')
      BY <2>1, <2>2, <2>3, <1>0
    <3> QED BY <2>1, <2>2, <2>3, <3>1, <3>2, <3>3 DEF ShapesOK
  <2>4. CASE /\ open' = WithoutOpen(x[1])
             /\ writes' = [writes EXCEPT ![x[1]] = {}]
             /\ UNCHANGED nestedRoots
    <3>1. IsList(open') /\ Members(open') \subseteq Members(open)
      BY <2>4, <1>0, WithoutOpenFacts
    <3>2. writes' \in [Sessions -> SUBSET made]
      BY <2>4, <1>0
    <3> QED BY <2>1, <2>2, <2>4, <3>1, <3>2, <1>0 DEF ShapesOK
  <2> QED BY <2>1, <2>3, <2>4
<1>3. ASSUME ReadMessages \/ ReadTree PROVE ShapesOK'
  <2>1. UNCHANGED <<context, running, made, events, open, nestedRoots, writes, tasks>>
    BY <1>3 DEF ReadMessages, ReadTree, hostVars
  <2>2. Known' = Known
    BY <2>1 DEF Known
  <2> QED BY <2>1, <2>2 DEF ShapesOK
<1> QED BY <1>1, <1>2, <1>3 DEF Queue

-----------------------------------------------------------------------------
(* The open records.                                                        *)

LEMMA RecordsCalm ==
  ASSUME ShapesOK, RecordsOK, Calm, UNCHANGED <<open, nestedRoots>>
  PROVE  RecordsOK'
<1>0. \A o \in Members(open) : o.execution \in Known
  BY DEF ShapesOK
<1>1. /\ Known \subseteq Known'
      /\ \A e \in Known' : e \notin Known => Starting(e)'
      /\ \A e \in Known : /\ Starting(e)' <=> Starting(e)
                          /\ Going(e)' <=> Going(e)
                          /\ Repeated(e) => Repeated(e)'
      /\ \A e, f \in Known : Met(e, f)' <=> Met(e, f)
  BY DEF Calm
<1>2. OneEach(open)'
  BY DEF RecordsOK, OneEach
<1>3. ASSUME NEW o \in Members(open')
      PROVE  ~Starting(o.execution)' /\ Going(o.execution)' /\ nestedRoots'[o.execution[1]] = None
  <2>1. o \in Members(open) /\ o.execution \in Known
    BY <1>0
  <2>2. PICK e \in Known : e = o.execution
    BY <2>1
  <2>3. ~Starting(e) /\ Going(e) /\ nestedRoots[e[1]] = None
    BY <2>1, <2>2 DEF RecordsOK
  <2>4. ~Starting(e)' /\ Going(e)'
    BY <2>2, <2>3, <1>1
  <2> QED BY <2>2, <2>3, <2>4
<1>4. ASSUME NEW e \in Known', e[1] \in Roots, ~Starting(e)', Going(e)'
      PROVE  Repeated(e)' \/ \E o \in Members(open') : o.execution = e
  <2>1. e \in Known /\ ~Starting(e) /\ Going(e)
    BY <1>1, <1>4
  <2> QED BY <2>1, <1>1, <1>4 DEF RecordsOK
<1>5. ASSUME NEW o \in Members(open'), NEW f \in Known', Met(o.execution, f)', f[1] \in Roots, ~Starting(f)'
      PROVE  o.concurrent
  <2>1. o \in Members(open) /\ o.execution \in Known
    BY <1>0
  <2>2. PICK e \in Known : e = o.execution
    BY <2>1
  <2>3. f \in Known /\ ~Starting(f)
    BY <1>1, <1>5
  <2>4. Met(e, f)
    BY <2>2, <2>3, <1>1, <1>5
  <2> QED BY <2>1, <2>2, <2>3, <2>4, <1>5 DEF RecordsOK
<1>6. ASSUME NEW s \in Sessions, nestedRoots'[s] # None
      PROVE  \E e \in Known' : e[1] = s /\ ~Starting(e)' /\ Going(e)'
  <2>1. PICK e \in Known : e[1] = s /\ ~Starting(e) /\ Going(e)
    BY <1>6 DEF RecordsOK
  <2> QED BY <2>1, <1>1
<1> QED BY <1>2, <1>3, <1>4, <1>5, <1>6 DEF RecordsOK

LEMMA RecordsStart ==
  ASSUME TrackerAssumption, ShapesOK, HostOK, LineOK, OrderOK, RecordsOK, RoomToOpen, RunStart
  PROVE  RecordsOK'
<1>0. /\ IsList(open) /\ OneEach(open) /\ nestedRoots \in [Sessions -> Sessions \union {None}]
      /\ \A o \in Members(open) : o.execution \in Known /\ o.execution[1] \in Sessions
      /\ Waiting \in Nat
  BY WaitingIsNat, Executions DEF ShapesOK, RecordsOK
<1> PICK x : x = Head(tasks).execution
  OBVIOUS
<1>1. /\ SameHost /\ Takes("start", x) /\ tasks # <<>> /\ Head(tasks).kind = "STARTED"
      /\ x \in Known /\ x[1] \in Sessions
      /\ \/ /\ Parent[x[1]] # None /\ IsOpen(Parent[x[1]])
            /\ nestedRoots' = [nestedRoots EXCEPT ![x[1]] = Parent[x[1]]]
            /\ UNCHANGED open
         \/ /\ \E snapshot \in {Tree, None} : open' = Opened(Head(tasks), snapshot)
            /\ UNCHANGED nestedRoots
  BY RunStartFacts
<1>2. /\ Known' = Known
      /\ \A e \in Known : Live(e)' <=> Live(e)
      /\ \A e, f : Met(e, f)' <=> Met(e, f)
  BY <1>1 DEF SameHost, Met
<1>3. /\ Pending("start", x) /\ ~Pending("start", x)'
      /\ \A t, y : Pending(t, y)' => Pending(t, y)
      /\ \A t, y : Pending(t, y) => Pending(t, y)' \/ (t = "start" /\ y = x)
      /\ \A y : ~Repeated(y)
  BY <1>0, <1>1, TakesFacts, StartIsFirst
<1>4. /\ Starting(x) /\ ~Starting(x)' /\ Going(x)
      /\ \A e \in Known : (Going(e)' <=> Going(e)) /\ ~Repeated(e)
      /\ \A e \in Known : (e # x /\ ~Starting(e)') => ~Starting(e)
      /\ \A e \in Known : ~Starting(e) => ~Starting(e)'
  BY <1>1, <1>2, <1>3 DEF Starting, Going, Ending, OrderOK
<1>5. \A e \in Known : ~(e[1] = x[1] /\ ~Starting(e) /\ Going(e))
  BY <1>1, HeadStart
<1>6. nestedRoots[x[1]] = None
  BY <1>1, <1>5 DEF RecordsOK
<1>7. \A o \in Members(open) : /\ ~Starting(o.execution) /\ Going(o.execution)
                               /\ nestedRoots[o.execution[1]] = None /\ o.execution[1] # x[1]
  BY <1>0, <1>5 DEF RecordsOK
<1>8. ASSUME NEW s \in Sessions, nestedRoots'[s] # None
      PROVE  \E e \in Known' : e[1] = s /\ ~Starting(e)' /\ Going(e)'
  <2>1. CASE s = x[1]
    BY <2>1, <1>1, <1>2, <1>4
  <2>2. CASE s # x[1]
    <3>1. nestedRoots[s] # None
      BY <2>2, <1>0, <1>1, <1>8
    <3>2. PICK e \in Known : e[1] = s /\ ~Starting(e) /\ Going(e)
      BY <3>1 DEF RecordsOK
    <3> QED BY <3>2, <1>2, <1>4
  <2> QED BY <2>1, <2>2
<1>9. ASSUME Parent[x[1]] # None, nestedRoots' = [nestedRoots EXCEPT ![x[1]] = Parent[x[1]]], UNCHANGED open
      PROVE  RecordsOK'
  <2>1. OneEach(open)'
    BY <1>9 DEF RecordsOK, OneEach
  <2>2. ASSUME NEW o \in Members(open')
        PROVE  ~Starting(o.execution)' /\ Going(o.execution)' /\ nestedRoots'[o.execution[1]] = None
    <3>1. o \in Members(open) /\ o.execution \in Known
      BY <1>0, <1>9
    <3>2. PICK e \in Known : e = o.execution
      BY <3>1
    <3>3. ~Starting(e)' /\ Going(e)'
      BY <3>1, <3>2, <1>4, <1>7
    <3>4. nestedRoots'[e[1]] = None
      BY <3>1, <3>2, <1>0, <1>7, <1>9
    <3> QED BY <3>2, <3>3, <3>4
  <2>3. ASSUME NEW e \in Known', e[1] \in Roots, ~Starting(e)', Going(e)'
        PROVE  Repeated(e)' \/ \E o \in Members(open') : o.execution = e
    <3>1. e \in Known /\ e # x
      BY <2>3, <1>2, <1>9 DEF Roots
    <3> QED BY <3>1, <2>3, <1>4, <1>9 DEF RecordsOK
  <2>4. ASSUME NEW o \in Members(open'), NEW f \in Known', Met(o.execution, f)', f[1] \in Roots, ~Starting(f)'
        PROVE  o.concurrent
    <3>1. f \in Known /\ f # x /\ ~Starting(f)
      BY <2>4, <1>2, <1>4, <1>9 DEF Roots
    <3>2. PICK e : e = o.execution
      OBVIOUS
    <3>3. Met(e, f)
      BY <3>2, <2>4, <1>2
    <3> QED BY <3>1, <3>2, <3>3, <2>4, <1>9 DEF RecordsOK
  <2> QED BY <2>1, <2>2, <2>3, <2>4, <1>8 DEF RecordsOK
<1>10. ASSUME NEW snapshot, open' = Opened(Head(tasks), snapshot), UNCHANGED nestedRoots
       PROVE  RecordsOK'
  <2>1. Len(WithoutOpen(x[1])) < MaxOpenSnapshots
    BY <1>1 DEF RoomToOpen, SessionOf
  <2> PICK others : others = WithoutOpen(x[1])
    OBVIOUS
  <2> PICK new : new = Fresh(Head(tasks), snapshot, others)
    OBVIOUS
  <2>2. /\ OneEach(open')
        /\ Members(open') = {Flagged(o) : o \in {r \in Members(open) : r.execution[1] # x[1]}} \union {new}
        /\ IsList(others) /\ Members(others) = {o \in Members(open) : o.execution[1] # x[1]}
    BY <2>1, <1>0, <1>10, OpenedFacts, WithoutOpenFacts
  <2>3. new.execution = x /\ new.concurrent = (others # <<>>)
    BY DEF Fresh
  <2>4. ASSUME NEW o \in Members(open')
        PROVE  \/ o.execution = x /\ o = new
               \/ \E r \in Members(open) : o.execution = r.execution /\ o.concurrent = TRUE
    <3>1. CASE o = new
      BY <3>1, <2>3
    <3>2. CASE \E r \in Members(open) : o = Flagged(r)
      <4>1. PICK r \in Members(open) : o = Flagged(r)
        BY <3>2
      <4>2. o.execution = r.execution /\ o.concurrent = TRUE
        BY <4>1 DEF Flagged
      <4> QED BY <4>1, <4>2
    <3> QED BY <3>1, <3>2, <2>2, <2>4
  <2>5. ASSUME NEW r \in Members(open)
        PROVE  \E o \in Members(open') : o.execution = r.execution
    <3>1. Flagged(r) \in Members(open')
      BY <2>2, <1>7
    <3>2. Flagged(r).execution = r.execution
      BY DEF Flagged
    <3> QED BY <3>1, <3>2
  <2>6. ASSUME NEW o \in Members(open')
        PROVE  ~Starting(o.execution)' /\ Going(o.execution)' /\ nestedRoots'[o.execution[1]] = None
    <3>1. PICK e : e = o.execution
      OBVIOUS
    <3>2. CASE e = x
      <4>1. ~Starting(e)' /\ Going(e)'
        BY <3>2, <1>1, <1>4
      <4> QED BY <4>1, <3>1, <3>2, <1>6, <1>10
    <3>3. CASE \E r \in Members(open) : e = r.execution
      <4>1. e \in Known /\ ~Starting(e) /\ Going(e) /\ nestedRoots[e[1]] = None
        BY <3>3, <1>0, <1>7
      <4>2. ~Starting(e)' /\ Going(e)'
        BY <4>1, <1>4
      <4> QED BY <4>1, <4>2, <3>1, <1>10
    <3> QED BY <3>1, <3>2, <3>3, <2>4
  <2>7. ASSUME NEW e \in Known', e[1] \in Roots, ~Starting(e)', Going(e)'
        PROVE  Repeated(e)' \/ \E o \in Members(open') : o.execution = e
    <3>1. CASE e = x
      BY <3>1, <2>2, <2>3
    <3>2. CASE e # x
      <4>1. PICK r \in Members(open) : r.execution = e
        BY <3>2, <2>7, <1>2, <1>4 DEF RecordsOK
      <4> QED BY <4>1, <2>5
    <3> QED BY <3>1, <3>2
  <2>8. ASSUME NEW o \in Members(open'), NEW f \in Known', Met(o.execution, f)', f[1] \in Roots, ~Starting(f)'
        PROVE  o.concurrent
    <3>1. PICK e : e = o.execution
      OBVIOUS
    <3>2. Met(e, f)
      BY <3>1, <2>8, <1>2
    <3>3. CASE e = x /\ o = new
      <4>1. Met(f, x) /\ f \in Known /\ f[1] # x[1] /\ f # x
        BY <3>2, <3>3, MetFacts
      <4>2. ~Starting(f)
        BY <4>1, <2>8, <1>4
      <4>3. Going(f)
        BY <4>1, <1>1, <1>4 DEF OrderOK
      <4>4. PICK r \in Members(open) : r.execution = f
        BY <4>1, <4>2, <4>3, <2>8, <1>4 DEF RecordsOK
      <4>5. r \in Members(others)
        BY <4>1, <4>4, <2>2
      <4>6. others # <<>>
        BY <4>5, EmptyList
      <4> QED BY <4>6, <3>3, <2>3
    <3>4. CASE o.concurrent = TRUE
      BY <3>4
    <3> QED BY <3>1, <3>3, <3>4, <2>4
  <2> QED BY <2>2, <2>6, <2>7, <2>8, <1>8 DEF RecordsOK, OneEach
<1> QED BY <1>1, <1>9, <1>10

LEMMA RecordsEnd ==
  ASSUME TrackerAssumption, ShapesOK, LineOK, OrderOK, RecordsOK, RunDiscard \/ RunFinish
  PROVE  RecordsOK'
<1>0. /\ IsList(open) /\ OneEach(open) /\ nestedRoots \in [Sessions -> Sessions \union {None}]
      /\ \A o \in Members(open) : o.execution \in Known
      /\ Waiting \in Nat
  BY WaitingIsNat DEF ShapesOK, RecordsOK
<1> PICK x : x = Head(tasks).execution
  OBVIOUS
<1>1. /\ SameHost /\ Takes("end", x) /\ x \in Known /\ x[1] \in Sessions
      /\ \/ nestedRoots[x[1]] # None /\ CloseNested(x[1]) /\ UNCHANGED open
         \/ nestedRoots[x[1]] = None /\ open' = WithoutOpen(x[1]) /\ UNCHANGED nestedRoots
  BY RunEndFacts
<1>2. /\ Known' = Known
      /\ \A e \in Known : Live(e)' <=> Live(e)
      /\ \A e, f : Met(e, f)' <=> Met(e, f)
  BY <1>1 DEF SameHost, Met
<1>3. /\ \A t, y : Pending(t, y)' => Pending(t, y)
      /\ \A t, y : Pending(t, y) => Pending(t, y)' \/ (t = "end" /\ y = x)
      /\ \A y : y # x => ~Repeated(y)
  BY <1>0, <1>1, TakesFacts
<1>4. /\ \A e \in Known : Starting(e)' <=> Starting(e)
      /\ \A e \in Known : Going(e)' => Going(e)
      /\ \A e \in Known : e # x => (Going(e)' <=> Going(e)) /\ ~Repeated(e)
  BY <1>1, <1>2, <1>3 DEF Starting, Going, Ending
<1>5. /\ Ending(x) /\ ~Live(x) /\ ~Starting(x)
      /\ \A e \in Known : e[1] = x[1] /\ ~Starting(e) /\ Going(e) => e = x
      /\ Ending(x)' => Repeated(x)'
  BY <1>1, HeadEnd
<1>6. Going(x)' => Repeated(x)'
  BY <1>1, <1>2, <1>5 DEF Going
<1>7. \A o \in Members(open) : ~Starting(o.execution) /\ Going(o.execution) /\ nestedRoots[o.execution[1]] = None
  BY DEF RecordsOK
<1>8. /\ OneEach(open') /\ Members(open') \subseteq Members(open)
      /\ \A o \in Members(open') : o.execution # x
      /\ \A o \in Members(open) : o.execution[1] # x[1] => o \in Members(open')
      /\ nestedRoots'[x[1]] = None /\ \A t \in Sessions \ {x[1]} : nestedRoots'[t] = nestedRoots[t]
  <2>1. CASE nestedRoots[x[1]] # None /\ CloseNested(x[1]) /\ UNCHANGED open
    BY <2>1, <1>0, <1>1, <1>7, CloseNestedFacts
  <2>2. CASE nestedRoots[x[1]] = None /\ open' = WithoutOpen(x[1]) /\ UNCHANGED nestedRoots
    BY <2>2, <1>0, <1>1, WithoutOpenFacts
  <2> QED BY <2>1, <2>2, <1>1
<1>9. ASSUME NEW o \in Members(open')
      PROVE  ~Starting(o.execution)' /\ Going(o.execution)' /\ nestedRoots'[o.execution[1]] = None
  <2>1. PICK e \in Known : e = o.execution /\ e # x
    BY <1>0, <1>8
  <2>2. ~Starting(e) /\ Going(e) /\ nestedRoots[e[1]] = None /\ e[1] \in Sessions
    BY <2>1, <1>7, <1>8, Executions
  <2>3. ~Starting(e)' /\ Going(e)' /\ nestedRoots'[e[1]] = None
    BY <2>1, <2>2, <1>4, <1>8
  <2> QED BY <2>1, <2>3
<1>10. ASSUME NEW e \in Known', e[1] \in Roots, ~Starting(e)', Going(e)'
       PROVE  Repeated(e)' \/ \E o \in Members(open') : o.execution = e
  <2>1. CASE e = x
    BY <2>1, <1>6, <1>10
  <2>2. CASE e # x
    <3>1. e \in Known /\ ~Starting(e) /\ Going(e) /\ ~Repeated(e)
      BY <2>2, <1>2, <1>4, <1>10
    <3>2. PICK o \in Members(open) : o.execution = e
      BY <3>1, <1>10 DEF RecordsOK
    <3>3. e[1] # x[1]
      BY <2>2, <3>1, <1>5
    <3> QED BY <3>2, <3>3, <1>8
  <2> QED BY <2>1, <2>2
<1>11. ASSUME NEW o \in Members(open'), NEW f \in Known', Met(o.execution, f)', f[1] \in Roots, ~Starting(f)'
       PROVE  o.concurrent
  <2>1. PICK e : e = o.execution
    OBVIOUS
  <2>2. Met(e, f) /\ ~Starting(f) /\ f \in Known
    BY <2>1, <1>2, <1>4, <1>11
  <2> QED BY <2>1, <2>2, <1>8, <1>11 DEF RecordsOK
<1>12. ASSUME NEW s \in Sessions, nestedRoots'[s] # None
       PROVE  \E e \in Known' : e[1] = s /\ ~Starting(e)' /\ Going(e)'
  <2>1. s # x[1] /\ nestedRoots[s] # None
    BY <1>8, <1>12
  <2>2. PICK e \in Known : e[1] = s /\ ~Starting(e) /\ Going(e)
    BY <2>1 DEF RecordsOK
  <2> QED BY <2>1, <2>2, <1>2, <1>4
<1> QED BY <1>8, <1>9, <1>10, <1>11, <1>12 DEF RecordsOK, OneEach

-----------------------------------------------------------------------------
(* Who is taken for attribution.                                            *)

LEMMA AloneCalm ==
  ASSUME AloneOK, Calm, UNCHANGED <<work, attributed>>
  PROVE  AloneOK'
<1>1. ASSUME NEW e, Alone(e) PROVE Alone(e)'
  <2>1. e \in Known' /\ ~Live(e)' /\ e \in Known /\ ~Live(e)
    BY <1>1 DEF Alone, Calm
  <2>2. ASSUME NEW f \in Known', Met(e, f)' PROVE f[1] \notin Roots
    <3>1. f \in Known
      BY <2>1, <2>2 DEF Calm
    <3> QED BY <3>1, <2>1, <2>2, <1>1 DEF Alone, Calm
  <2> QED BY <2>1, <2>2 DEF Alone
<1>2. (work # None => Alone(work.execution))'
  <2>1. PICK e : e = work.execution
    OBVIOUS
  <2>2. work # None => Alone(e)'
    BY <2>1, <1>1 DEF AloneOK
  <2>3. work' = work /\ e = work'.execution
    BY <2>1
  <2> QED BY <2>2, <2>3
<1>3. ASSUME NEW t \in Attributed' PROVE Alone(t.execution)'
  <2>1. t \in Attributed
    BY DEF Attributed, Elements
  <2>2. PICK e : e = t.execution
    OBVIOUS
  <2>3. Alone(e)'
    BY <2>1, <2>2, <1>1 DEF AloneOK
  <2> QED BY <2>2, <2>3
<1> QED BY <1>2, <1>3 DEF AloneOK

LEMMA SameAlone ==
  ASSUME SameHost, NEW e
  PROVE  Alone(e)' <=> Alone(e)
BY DEF SameHost, Alone, Met

LEMMA SameHostQueue ==
  ASSUME ReadMessages \/ ReadTree
  PROVE  /\ SameHost /\ Stays
         /\ UNCHANGED <<context, running, made, events, open, nestedRoots, writes, tasks, overlaps, crossings>>
<1>1. UNCHANGED <<context, running, made, events, open, nestedRoots, writes, tasks, overlaps, crossings>>
  BY DEF ReadMessages, ReadTree, hostVars, historyVars
<1>2. Stays
  BY <1>1 DEF Stays, Waiting, Tag, Who, Item
<1> QED BY <1>1, <1>2, SameHostOf

\* The steps of a finish.
LEMMA ReadMessagesFacts ==
  ASSUME ReadMessages, NEW reply, reply = Located(work.execution[1])
  PROVE  /\ work # None /\ work.reply = None /\ UNCHANGED <<processed, attributed>>
         /\ work' # None =>
              /\ reply # None /\ reply \notin processed /\ work.snapshot # None
              /\ work' = [work EXCEPT !.reply = reply]
              /\ work'.execution = work.execution /\ work'.snapshot = work.snapshot
              /\ work'.written = work.written
<1>1. /\ work # None /\ work.reply = None /\ UNCHANGED <<processed, attributed>>
      /\ work' # None =>
           /\ reply # None /\ reply \notin processed /\ work.snapshot # None
           /\ work' = [work EXCEPT !.reply = reply]
  BY DEF ReadMessages, historyVars, SessionOf
<1>2. ASSUME work' = [work EXCEPT !.reply = reply]
      PROVE  /\ work'.execution = work.execution /\ work'.snapshot = work.snapshot
             /\ work'.written = work.written
  BY <1>2
<1> QED BY <1>1, <1>2

LEMMA AppendedTurn ==
  ASSUME IsList(attributed), NEW turn, attributed' = Append(attributed, turn)
  PROVE  /\ IsList(attributed') /\ Attributed' = Attributed \union {turn}
         /\ Len(attributed) \in Nat /\ DOMAIN attributed = 1..Len(attributed)
         /\ DOMAIN attributed' = 1..(Len(attributed) + 1)
         /\ \A i \in 1..Len(attributed) : attributed'[i] = attributed[i]
         /\ attributed'[Len(attributed) + 1] = turn
<1>1. /\ IsList(attributed')
      /\ Len(attributed) \in Nat /\ DOMAIN attributed = 1..Len(attributed)
      /\ DOMAIN attributed' = 1..(Len(attributed) + 1)
      /\ \A i \in 1..Len(attributed) : attributed'[i] = attributed[i]
      /\ attributed'[Len(attributed) + 1] = turn
      /\ Members(attributed') = Members(attributed) \union {turn}
  BY AppendList
<1>2. Attributed = Members(attributed) /\ Attributed' = Members(attributed')
  BY DEF Attributed, Elements, Members
<1> QED BY <1>1, <1>2

\* ReadTree attributes the turn, or gives it up.
Turn == [execution |-> work.execution, reply |-> work.reply, files |-> Tree \ work.snapshot]
LEMMA ReadTreeFacts ==
  ASSUME ReadTree, IsList(attributed)
  PROVE  /\ work # None /\ work.reply # None /\ work' = None
         /\ \/ UNCHANGED <<processed, attributed, Attributed>> /\ IsList(attributed')
            \/ /\ work.written \subseteq (work.snapshot \union Tree)
               /\ processed' = processed \union {work.reply}
               /\ attributed' = Append(attributed, Turn)
               /\ IsList(attributed') /\ Attributed' = Attributed \union {Turn}
<1>1. /\ work # None /\ work.reply # None /\ work' = None
      /\ \/ UNCHANGED <<processed, attributed>>
         \/ /\ work.written \subseteq (work.snapshot \union Tree)
            /\ processed' = processed \union {work.reply}
            /\ attributed' = Append(attributed, Turn)
  BY DEF ReadTree, Turn
<1>2. CASE UNCHANGED <<processed, attributed>>
  BY <1>1, <1>2 DEF Attributed, Elements
<1>3. CASE attributed' = Append(attributed, Turn)
  BY <1>1, <1>3, AppendedTurn
<1> QED BY <1>1, <1>2, <1>3

LEMMA AloneQueue ==
  ASSUME TrackerAssumption, ShapesOK, HostOK, LineOK, OrderOK, RecordsOK, AloneOK,
         IsList(attributed), Queue
  PROVE  AloneOK'
<1> PICK x : x = Head(tasks).execution
  OBVIOUS
<1>1. ASSUME RunStart PROVE AloneOK'
  <2>1. SameHost /\ UNCHANGED <<work, attributed>>
    BY <1>1, RunStartFacts
  <2>2. \A e : Alone(e)' <=> Alone(e)
    BY <2>1, SameAlone
  <2>3. PICK w : w = work.execution
    OBVIOUS
  <2>4. work' # None => Alone(w)'
    BY <2>1, <2>2, <2>3 DEF AloneOK
  <2>5. ASSUME NEW t \in Attributed' PROVE Alone(t.execution)'
    <3>1. t \in Attributed
      BY <2>1 DEF Attributed, Elements
    <3>2. PICK e : e = t.execution
      OBVIOUS
    <3>3. Alone(e)'
      BY <3>1, <3>2, <2>2 DEF AloneOK
    <3> QED BY <3>2, <3>3
  <2>6. w = work'.execution
    BY <2>1, <2>3
  <2> QED BY <2>4, <2>5, <2>6 DEF AloneOK
<1>2. ASSUME RunDiscard \/ RunFinish PROVE AloneOK'
  <2>1. /\ SameHost /\ Takes("end", x) /\ UNCHANGED attributed /\ x \in Known
        /\ \/ UNCHANGED work
           \/ work' # None => IsOpen(x[1]) /\ ~OpenOf(x[1]).concurrent /\ work'.execution = x
    BY <1>2, RunEndFacts
  <2>2. \A e : Alone(e)' <=> Alone(e)
    BY <2>1, SameAlone
  <2>3. ASSUME NEW t \in Attributed' PROVE Alone(t.execution)'
    <3>1. t \in Attributed
      BY <2>1 DEF Attributed, Elements
    <3>2. PICK e : e = t.execution
      OBVIOUS
    <3>3. Alone(e)'
      BY <3>1, <3>2, <2>2 DEF AloneOK
    <3> QED BY <3>2, <3>3
  <2>4. CASE UNCHANGED work
    <3>1. PICK w : w = work.execution
      OBVIOUS
    <3>2. work' # None => Alone(w)'
      BY <3>1, <2>2, <2>4 DEF AloneOK
    <3>3. w = work'.execution
      BY <3>1, <2>4
    <3> QED BY <3>2, <3>3, <2>3 DEF AloneOK
  <2>5. CASE work' # None => IsOpen(x[1]) /\ ~OpenOf(x[1]).concurrent /\ work'.execution = x
    <3>1. ASSUME IsOpen(x[1]), ~OpenOf(x[1]).concurrent PROVE Alone(x)
      <4>1. PICK o \in Members(open) : o = OpenOf(x[1]) /\ o.execution[1] = x[1]
        BY <3>1, OpenOfFacts
      <4>2. o.execution \in Known /\ ~Starting(o.execution) /\ Going(o.execution)
        BY <4>1 DEF ShapesOK, RecordsOK
      <4>3. o.execution = x /\ ~Live(x)
        BY <4>1, <4>2, <2>1, HeadEnd
      <4>4. ASSUME NEW f \in Known, Met(x, f) PROVE f[1] \notin Roots
        <5>1. ~Starting(f)
          BY <4>4, <2>1, OrderTakes
        <5> QED BY <5>1, <4>1, <4>3, <4>4, <3>1 DEF RecordsOK
      <4> QED BY <4>3, <4>4, <2>1 DEF Alone
    <3>2. work' # None => Alone(x)' /\ work'.execution = x
      BY <3>1, <2>2, <2>5
    <3> QED BY <3>2, <2>3 DEF AloneOK
  <2> QED BY <2>1, <2>4, <2>5
<1>3. ASSUME ReadMessages PROVE AloneOK'
  <2>1. SameHost /\ UNCHANGED attributed /\ work # None
        /\ (work' # None => work'.execution = work.execution)
    BY <1>3, SameHostQueue, ReadMessagesFacts
  <2>2. \A e : Alone(e)' <=> Alone(e)
    BY <2>1, SameAlone
  <2>3. PICK w : w = work.execution
    OBVIOUS
  <2>4. Alone(w)' /\ (work' # None => work'.execution = w)
    BY <2>1, <2>2, <2>3 DEF AloneOK
  <2>5. ASSUME NEW t \in Attributed' PROVE Alone(t.execution)'
    <3>1. t \in Attributed
      BY <2>1 DEF Attributed, Elements
    <3>2. PICK e : e = t.execution
      OBVIOUS
    <3>3. Alone(e)'
      BY <3>1, <3>2, <2>2 DEF AloneOK
    <3> QED BY <3>2, <3>3
  <2> QED BY <2>4, <2>5 DEF AloneOK
<1>4. ASSUME ReadTree PROVE AloneOK'
  <2>1. /\ SameHost /\ work # None /\ work' = None
        /\ Attributed' = Attributed \/ Attributed' = Attributed \union {Turn}
    BY <1>4, SameHostQueue, ReadTreeFacts
  <2>2. \A e : Alone(e)' <=> Alone(e)
    BY <2>1, SameAlone
  <2>3. ASSUME NEW t \in Attributed' PROVE Alone(t.execution)'
    <3>1. t \in Attributed \/ t.execution = work.execution
      BY <2>1 DEF Turn
    <3>2. PICK e : e = t.execution
      OBVIOUS
    <3>3. Alone(e)'
      BY <3>1, <3>2, <2>1, <2>2 DEF AloneOK
    <3> QED BY <3>2, <3>3
  <2> QED BY <2>1, <2>3 DEF AloneOK
<1> QED BY <1>1, <1>2, <1>3, <1>4 DEF Queue

\* An execution taken for attribution is one of a root session.
LEMMA AloneIsRoot ==
  ASSUME TrackerAssumption, ShapesOK, HostOK, NEW e, Alone(e)
  PROVE  e[1] \in Roots
<1>1. e \in Known /\ e[1] \in Sessions
  BY Executions DEF Alone
<1>2. ASSUME Parent[e[1]] # None PROVE FALSE
  <2>1. PICK f \in Known : Met(e, f) /\ Parent[e[1]] = f[1]
    BY <1>1, <1>2 DEF HostOK, IsInside
  <2>2. f[1] \in Roots
    BY <2>1, <1>1, <1>2, Parents
  <2> QED BY <2>1, <2>2 DEF Alone
<1> QED BY <1>1, <1>2 DEF Roots

\* What it met ran inside it.
LEMMA AloneMet ==
  ASSUME TrackerAssumption, ShapesOK, HostOK, NEW e, Alone(e), NEW f, Met(f, e)
  PROVE  Parent[f[1]] = e[1]
<1>1. e \in Known /\ f \in Known /\ Met(e, f) /\ f[1] \in Sessions
  BY MetFacts, Executions
<1>2. Parent[f[1]] # None
  BY <1>1 DEF Alone, Roots
<1>3. ASSUME Parent[f[1]] # e[1] PROVE FALSE
  <2>1. PICK g \in Known : g[1] = Parent[f[1]] /\ Met(g, e)
    BY <1>1, <1>2, <1>3 DEF HostOK
  <2>2. g[1] \in Roots
    BY <2>1, <1>1, <1>2, Parents
  <2>3. Met(e, g)
    BY <2>1, MetFacts
  <2> QED BY <2>1, <2>2, <2>3 DEF Alone
<1> QED BY <1>3

-----------------------------------------------------------------------------
(* The ends the host overtook, and the reply a turn is named by.            *)

Past(e) == Ending(e) \/ (work # None /\ work.execution = e)

LEMMA OverIsUnsettled ==
  ASSUME ShapesOK, NEW e, Past(e)
  PROVE  e \in Unsettled
<1>1. CASE work # None /\ work.execution = e
  BY <1>1 DEF Unsettled
<1>2. CASE Ending(e)
  <2>0. /\ Len(tasks) \in Nat /\ DOMAIN tasks = 1..Len(tasks)
        /\ Len(events) \in Nat /\ DOMAIN events = 1..Len(events)
    <3>1. IsList(tasks) /\ IsList(events)
      BY DEF ShapesOK
    <3> QED BY <3>1, ListOfSeq DEF IsList
  <2>1. PICK i \in 1..Waiting : Tag(i) = "end" /\ Who(i) = e
    BY <1>2 DEF Ending, Pending
  <2>2. PICK t : t = Item(i)
    OBVIOUS
  <2>3. t.kind # "STARTED" /\ t.execution = e
    BY <2>1, <2>2 DEF Tag, Who
  <2>4. t \in Elements(events) \union Elements(tasks)
    <3>1. CASE i <= Len(tasks)
      <4>1. i \in DOMAIN tasks /\ t = tasks[i]
        BY <3>1, <2>0, <2>1, <2>2 DEF Item
      <4> QED BY <4>1 DEF Elements
    <3>2. CASE ~(i <= Len(tasks))
      <4>1. i - Len(tasks) \in DOMAIN events /\ t = events[i - Len(tasks)]
        BY <3>2, <2>0, <2>1, <2>2 DEF Item, Waiting
      <4> QED BY <4>1 DEF Elements
    <3> QED BY <3>1, <3>2
  <2> QED BY <2>3, <2>4 DEF Unsettled
<1> QED BY <1>1, <1>2 DEF Past

\* The newest of its session, over, that met whoever runs now.
LastMet(e) == ~Live(e) /\ e = Current(e[1]) /\ \A s \in running : Met(Current(s), e)

LEMMA LateIs ==
  LateOK <=> \A e \in Known : Past(e) => Late(e) \/ LastMet(e)
BY DEF LateOK, Past, LastMet

LEMMA LateStart ==
  ASSUME TrackerAssumption, ShapesOK, LineOK, NEW s \in Sessions, HostStart(s), AloneOK
  PROVE  LateOK'
<1>0. Waiting \in Nat
  BY WaitingIsNat
<1>n. PICK N : N = Newest(s)
  OBVIOUS
<1>1. Grows("start", N)
  BY <1>n, HostStartFrame DEF StartFrame
<1>2. \A e : Ending(e)' => Ending(e)
  BY <1>0, <1>1, GrowsFacts DEF Ending
<1>3. UNCHANGED work /\ \A u \in Unsettled : <<u, "late">> \in crossings'
  BY DEF HostStart, trackerVars
<1>4. ASSUME NEW e \in Known', Past(e)' PROVE Late(e)'
  <2>1. Past(e)
    BY <1>2, <1>3, <1>4 DEF Past
  <2>2. e \in Unsettled
    BY <2>1, OverIsUnsettled
  <2> QED BY <2>2, <1>3 DEF Late
<1> QED BY <1>4 DEF LateOK, Past

LEMMA LateKept ==
  ASSUME ShapesOK, LateOK,
         Known' = Known, running' \subseteq running, overlaps' = overlaps,
         \A t \in Sessions : Current(t)' = Current(t),
         \A e \in Known : Live(e)' => Live(e),
         crossings \subseteq crossings',
         \A e \in Known : Past(e)' => Past(e) \/ LastMet(e)'
  PROVE  LateOK'
<1>1. ASSUME NEW e \in Known', Past(e)' PROVE Late(e)' \/ LastMet(e)'
  <2>1. CASE Past(e) /\ Late(e)
    BY <2>1 DEF Late
  <2>2. CASE Past(e) /\ LastMet(e)
    <3>1. e \in Known /\ e[1] \in Sessions /\ ~Live(e)' /\ e = Current(e[1])
      BY <2>2, Executions DEF LastMet
    <3>2. e = Current(e[1])'
      BY <3>1
    <3>3. ASSUME NEW t \in running' PROVE Met(Current(t), e)'
      <4>1. Met(Current(t), e) /\ t \in Sessions
        BY <2>2 DEF LastMet, ShapesOK
      <4> QED BY <4>1 DEF Met
    <3> QED BY <3>1, <3>2, <3>3 DEF LastMet
  <2>3. CASE LastMet(e)'
    BY <2>3
  <2> QED BY <2>1, <2>2, <2>3, <1>1 DEF LateOK, Past, LastMet
<1> QED BY <1>1 DEF LateOK, Past, LastMet

LEMMA LateEnd ==
  ASSUME ShapesOK, HostOK, LineOK, LateOK, NEW s \in Sessions, HostEnd(s)
  PROVE  LateOK'
<1>0. Waiting \in Nat
  BY WaitingIsNat
<1>n. PICK C : C = Current(s)
  OBVIOUS
<1>1. /\ s \in running /\ C \in Known /\ C[1] = s
      /\ Known' = Known /\ running' = running \ {s} /\ overlaps' = overlaps
      /\ \A t \in Sessions : Current(t)' = Current(t)
      /\ \A e \in Known : Live(e)' <=> Live(e) /\ e # C
      /\ Grows("end", C)
  BY <1>n, HostEndFrame, Executions DEF EndFrame
<1>2. \A e : Ending(e)' => Ending(e) \/ e = C
  BY <1>0, <1>1, GrowsFacts DEF Ending
<1>3. UNCHANGED <<work, crossings>>
  BY DEF HostEnd, trackerVars, historyVars
<1>4. LastMet(C)'
  <2>1. ~Live(C)' /\ C = Current(C[1])'
    BY <1>1, <1>n
  <2>2. ASSUME NEW t \in running' PROVE Met(Current(t), C)'
    <3>1. Met(Current(t), Current(s)) /\ t \in Sessions
      BY <1>1 DEF HostOK, ShapesOK
    <3> QED BY <3>1, <1>1, <1>n DEF Met
  <2> QED BY <2>1, <2>2 DEF LastMet
<1>5. \A e \in Known : Past(e)' => Past(e) \/ LastMet(e)'
  BY <1>2, <1>3, <1>4 DEF Past
<1> QED BY <1>1, <1>3, <1>5, LateKept

LEMMA LateSame ==
  ASSUME ShapesOK, LateOK, SameHost, crossings \subseteq crossings',
         \A e \in Known : Past(e)' => Past(e)
  PROVE  LateOK'
<1>1. /\ Known' = Known /\ running' = running /\ overlaps' = overlaps
      /\ \A t \in Sessions : Current(t)' = Current(t)
      /\ \A e \in Known : Live(e)' => Live(e)
  BY DEF SameHost
<1> QED BY <1>1, LateKept

LEMMA LateQueue ==
  ASSUME TrackerAssumption, ShapesOK, LineOK, LateOK, Queue
  PROVE  LateOK'
<1>0. Waiting \in Nat
  BY WaitingIsNat
<1> PICK x : x = Head(tasks).execution
  OBVIOUS
<1>1. CASE RunStart
  <2>1. SameHost /\ Takes("start", x) /\ UNCHANGED <<work, crossings>>
    BY <1>1, RunStartFacts
  <2>2. \A e : Ending(e)' => Ending(e)
    BY <2>1, <1>0, TakesFacts DEF Ending
  <2>3. \A e \in Known : Past(e)' => Past(e)
    BY <2>1, <2>2 DEF Past
  <2> QED BY <2>1, <2>3, LateSame
<1>2. CASE RunDiscard \/ RunFinish
  <2>1. /\ SameHost /\ Takes("end", x) /\ UNCHANGED crossings
        /\ UNCHANGED work \/ work' = None \/ work'.execution = x
    BY <1>2, RunEndFacts
  <2>2. Ending(x) /\ \A e : Ending(e)' => Ending(e)
    BY <2>1, <1>0, TakesFacts DEF Ending
  <2>3. \A e \in Known : Past(e)' => Past(e)
    BY <2>1, <2>2 DEF Past
  <2> QED BY <2>1, <2>3, LateSame
<1>3. CASE ReadMessages \/ ReadTree
  <2>1. /\ SameHost /\ Stays /\ UNCHANGED crossings
        /\ work' # None => work # None /\ work'.execution = work.execution
    <3>1. CASE ReadMessages
      BY <3>1, SameHostQueue, ReadMessagesFacts
    <3>2. CASE ReadTree
      BY <3>2, SameHostQueue DEF ReadTree
    <3> QED BY <3>1, <3>2, <1>3
  <2>2. \A e : Ending(e)' <=> Ending(e)
    BY <2>1, <1>0, StaysFacts DEF Ending
  <2>3. \A e \in Known : Past(e)' => Past(e)
    BY <2>1, <2>2 DEF Past
  <2> QED BY <2>1, <2>3, LateSame
<1> QED BY <1>1, <1>2, <1>3 DEF Queue

LEMMA LateHost ==
  ASSUME TrackerAssumption, ShapesOK, HostOK, LineOK, AloneOK, LateOK, Host \/ OnEvent
  PROVE  LateOK'
<1>0. Waiting \in Nat
  BY WaitingIsNat
<1>1. CASE \E s \in Sessions : HostStart(s)
  BY <1>1, LateStart
<1>2. CASE \E s \in Sessions : HostEnd(s)
  BY <1>2, LateEnd
<1>3. CASE HostRepeat
  <2>1. PICK x : RepeatFrame(x)
    BY <1>3, HostRepeatFrame
  <2>2. SameHost /\ UNCHANGED <<work, crossings>>
    BY <2>1, <1>3 DEF RepeatFrame, HostRepeat, trackerVars, historyVars
  <2>3. \A e : Ending(e)' => Ending(e)
    <3>1. Grows("end", x) /\ Pending("end", x)
      BY <2>1, <1>0 DEF RepeatFrame, Pending
    <3> QED BY <3>1, <1>0, GrowsFacts DEF Ending
  <2>4. \A e \in Known : Past(e)' => Past(e)
    BY <2>2, <2>3 DEF Past
  <2> QED BY <2>2, <2>4, LateSame
<1>4. CASE OnEvent \/ \E s \in Sessions : HostReply(s) \/ \E kind \in Kinds : HostWrite(s, kind)
  <2>1. SameHost /\ Stays /\ UNCHANGED work /\ crossings \subseteq crossings'
    <3>1. CASE OnEvent
      BY <3>1, OnEventFrame DEF OnEvent, historyVars
    <3>2. ASSUME NEW s \in Sessions, HostReply(s)
          PROVE  SameHost /\ Stays /\ UNCHANGED work /\ crossings \subseteq crossings'
      BY <3>2, HostReplyFrame DEF HostReply, trackerVars, historyVars
    <3>3. ASSUME NEW s \in Sessions, NEW kind \in Kinds, HostWrite(s, kind)
          PROVE  SameHost /\ Stays /\ UNCHANGED work /\ crossings \subseteq crossings'
      <4>1. UNCHANGED <<context, running, events, overlaps, tasks, work>> /\ crossings \subseteq crossings'
        BY <3>3 DEF HostWrite
      <4>2. Stays
        BY <4>1 DEF Stays, Waiting, Tag, Who, Item
      <4> QED BY <4>1, <4>2, SameHostOf
    <3> QED BY <3>1, <3>2, <3>3, <1>4
  <2>2. \A e : Ending(e)' <=> Ending(e)
    BY <2>1, <1>0, StaysFacts DEF Ending
  <2>3. \A e \in Known : Past(e)' => Past(e)
    BY <2>1, <2>2 DEF Past
  <2> QED BY <2>1, <2>3, LateSame
<1> QED BY <1>1, <1>2, <1>3, <1>4 DEF Host

LEMMA ReplyKept ==
  ASSUME ReplyOK, crossings \subseteq crossings', UNCHANGED <<processed, attributed>>,
         work' # None => work' = work \/ (IsFinish(work') /\ work'.reply = None)
  PROVE  ReplyOK'
<1>1. Attributed' = Attributed
  BY DEF Attributed, Elements
<1>2. \A t \in Attributed' : Late(t.execution)' \/ t.reply[1] = t.execution
  BY <1>1 DEF ReplyOK, Late
<1>3. ASSUME work' # None, work'.reply # None
      PROVE  /\ work'.reply \notin processed' /\ work'.snapshot # None
             /\ Late(work.execution)' \/ work'.reply[1] = work'.execution
  <2>1. work' = work
    BY <1>3
  <2> QED BY <2>1, <1>3 DEF ReplyOK, Late
<1>4. work' # None => IsFinish(work')
  BY DEF ReplyOK
<1> QED BY <1>1, <1>2, <1>3, <1>4 DEF ReplyOK, IsFinish

LEMMA ReplyQueue ==
  ASSUME TrackerAssumption, ShapesOK, LineOK, AloneOK, LateOK, ReplyOK, Queue
  PROVE  ReplyOK'
<1> PICK x : x = Head(tasks).execution
  OBVIOUS
<1>1. CASE RunStart
  <2>1. UNCHANGED <<processed, attributed, crossings, work>>
    BY <1>1, RunStartFacts
  <2> QED BY <2>1, ReplyKept
<1>2. CASE RunDiscard \/ RunFinish
  <2>1. /\ UNCHANGED <<processed, attributed, crossings>>
        /\ work' # None => work' = work \/ (IsFinish(work') /\ work'.reply = None)
    BY <1>2, RunEndFacts DEF IsFinish
  <2> QED BY <2>1, ReplyKept
<1>3. CASE ReadMessages
  <2> PICK reply : reply = Located(work.execution[1])
    OBVIOUS
  <2> PICK w : w = work.execution
    OBVIOUS
  <2>1. /\ work # None /\ UNCHANGED <<processed, attributed, crossings>>
        /\ work' # None =>
             /\ reply # None /\ reply \notin processed /\ work.snapshot # None
             /\ work'.reply = reply
             /\ work'.execution = w /\ work'.snapshot = work.snapshot
             /\ IsFinish(work')
    <3>1. IsFinish(work)
      BY <1>3 DEF ReadMessages, ReplyOK
    <3>2. ASSUME work' = [work EXCEPT !.reply = reply]
          PROVE  work'.reply = reply /\ IsFinish(work')
      BY <3>1, <3>2 DEF IsFinish
    <3>3. work' # None => work' = [work EXCEPT !.reply = reply]
      BY <1>3, ReadMessagesFacts
    <3> QED BY <3>2, <3>3, <1>3, ReadMessagesFacts, SameHostQueue
  <2>2. reply # None => Late(w) \/ reply[1] = w
    <3>1. w \in Known
      BY <2>1 DEF AloneOK, Alone
    <3>2. Late(w) \/ w = Current(w[1])
      BY <2>1, <3>1 DEF LateOK
    <3>3. reply # None => reply[1] = Current(w[1])
      BY DEF Located
    <3> QED BY <3>2, <3>3
  <2>3. Attributed' = Attributed /\ \A e : Late(e)' <=> Late(e)
    BY <2>1 DEF Attributed, Elements, Late
  <2>4. \A t \in Attributed' : Late(t.execution)' \/ t.reply[1] = t.execution
    BY <2>1, <2>3 DEF ReplyOK, Late
  <2>5. (work # None /\ work.reply # None =>
           /\ work.reply \notin processed /\ work.snapshot # None
           /\ Late(work.execution) \/ work.reply[1] = work.execution)'
    BY <2>1, <2>2 DEF Late
  <2> QED BY <2>1, <2>3, <2>4, <2>5 DEF ReplyOK, IsFinish
<1>4. CASE ReadTree
  <2>0. IsList(attributed)
    BY DEF ReplyOK
  <2>1. /\ work # None /\ work.reply # None /\ work' = None /\ UNCHANGED crossings
        /\ \/ UNCHANGED <<processed, attributed, Attributed>>
           \/ /\ processed' = processed \union {work.reply}
              /\ attributed' = Append(attributed, Turn)
              /\ Attributed' = Attributed \union {Turn}
    BY <1>4, <2>0, ReadTreeFacts, SameHostQueue
  <2>2. Turn.reply = work.reply /\ Turn.execution = work.execution
    BY DEF Turn
  <2>3. CASE UNCHANGED <<processed, attributed, Attributed>>
    BY <2>1, <2>3, ReplyKept
  <2>4. CASE /\ processed' = processed \union {work.reply}
             /\ attributed' = Append(attributed, Turn)
             /\ Attributed' = Attributed \union {Turn}
    <3>1. /\ IsList(attributed')
          /\ Len(attributed) \in Nat /\ DOMAIN attributed = 1..Len(attributed)
          /\ DOMAIN attributed' = 1..(Len(attributed) + 1)
          /\ \A i \in 1..Len(attributed) : attributed'[i] = attributed[i]
          /\ attributed'[Len(attributed) + 1] = Turn
      BY <2>0, <2>4, AppendedTurn
    <3>2. \A t \in Attributed : t.reply \in processed
      BY DEF ReplyOK
    <3>3. work.reply \notin processed /\ (Late(work.execution) \/ work.reply[1] = work.execution)
      BY <2>1 DEF ReplyOK
    <3>4. \A i \in DOMAIN attributed : attributed[i].reply # work.reply
      <4>1. \A i \in DOMAIN attributed : attributed[i] \in Attributed
        BY DEF Attributed, Elements
      <4> QED BY <4>1, <3>2, <3>3
    <3>5. ASSUME NEW i \in DOMAIN attributed', NEW j \in DOMAIN attributed',
                 attributed'[i].reply = attributed'[j].reply
          PROVE  i = j
      <4>1. CASE i \in DOMAIN attributed /\ j \in DOMAIN attributed
        <5>1. attributed[i].reply = attributed[j].reply
          BY <4>1, <3>1, <3>5
        <5> QED BY <4>1, <5>1 DEF ReplyOK
      <4>2. CASE i \in DOMAIN attributed /\ j \notin DOMAIN attributed
        <5>1. j = Len(attributed) + 1 /\ attributed'[i] = attributed[i]
          BY <4>2, <3>1
        <5> QED BY <5>1, <4>2, <3>1, <3>4, <3>5, <2>2
      <4>3. CASE i \notin DOMAIN attributed /\ j \in DOMAIN attributed
        <5>1. i = Len(attributed) + 1 /\ attributed'[j] = attributed[j]
          BY <4>3, <3>1
        <5> QED BY <5>1, <4>3, <3>1, <3>4, <3>5, <2>2
      <4>4. CASE i \notin DOMAIN attributed /\ j \notin DOMAIN attributed
        BY <4>4, <3>1
      <4> QED BY <4>1, <4>2, <4>3, <4>4
    <3>6. \A t \in Attributed' : t.reply \in processed'
      BY <3>2, <2>2, <2>4
    <3>7. \A t \in Attributed' : Late(t.execution)' \/ t.reply[1] = t.execution
      BY <3>3, <2>1, <2>2, <2>4 DEF ReplyOK, Late
    <3> QED BY <2>1, <3>1, <3>5, <3>6, <3>7 DEF ReplyOK
  <2> QED BY <2>1, <2>3, <2>4
<1> QED BY <1>1, <1>2, <1>3, <1>4 DEF Queue

-----------------------------------------------------------------------------
(* The host's steps together.                                               *)

LEMMA HostWriteFacts ==
  ASSUME ShapesOK, NEW s \in Sessions, NEW kind, HostWrite(s, kind), NEW c, c = <<Current(s), kind>>
  PROVE  /\ SameHost /\ Stays
         /\ s \in running /\ c[1] = Current(s) /\ c[1] \in Known /\ Live(c[1]) /\ c[1][1] = s
         /\ c \notin made /\ made' = made \union {c}
         /\ writes' = [writes EXCEPT ![s] = @ \union {c}]
         /\ UNCHANGED <<open, nestedRoots, work, processed, attributed, overlaps>>
         /\ crossings \subseteq crossings'
         /\ \A e : e = OwnerOf(s) => Early(e)' \/ \E o \in Members(open) : o.execution = e
<1>1. /\ UNCHANGED <<context, running, events, overlaps, tasks, work, open, nestedRoots, processed, attributed>>
      /\ crossings \subseteq crossings'
      /\ s \in running /\ c \notin made /\ made' = made \union {c}
      /\ writes' = [writes EXCEPT ![s] = @ \union {c}]
  BY DEF HostWrite
<1>2. Stays
  BY <1>1 DEF Stays, Waiting, Tag, Who, Item
<1>3. c[1] = Current(s) /\ c[1] \in Known /\ Live(c[1]) /\ c[1][1] = s
  BY <1>1, Executions
<1>4. ASSUME NEW e, e = OwnerOf(s) PROVE Early(e)' \/ \E o \in Members(open) : o.execution = e
  <2>1. (\E o \in Members(open) : o.execution = e) \/ <<e, "early">> \in crossings'
    BY <1>4 DEF HostWrite, Elements, Members
  <2> QED BY <2>1 DEF Early
<1> QED BY <1>1, <1>2, <1>3, <1>4, SameHostOf

LEMMA HostCalm ==
  ASSUME TrackerAssumption, ShapesOK, HostOK, LineOK, Host \/ OnEvent
  PROVE  /\ Calm
         /\ UNCHANGED <<open, nestedRoots, work, processed, attributed>>
         /\ overlaps \subseteq overlaps' /\ crossings \subseteq crossings'
         /\ \/ UNCHANGED <<made, writes>>
            \/ \E s \in Sessions, kind \in Kinds : HostWrite(s, kind)
<1>1. CASE \E s \in Sessions : HostStart(s)
  <2>1. PICK s \in Sessions : HostStart(s)
    BY <1>1
  <2>2. Calm
    BY <2>1, HostStartFrame, CalmStart
  <2>3. UNCHANGED <<open, nestedRoots, work, processed, attributed, made, writes>>
        /\ overlaps \subseteq overlaps' /\ crossings \subseteq crossings'
    BY <2>1 DEF HostStart, trackerVars
  <2> QED BY <2>2, <2>3
<1>2. CASE \E s \in Sessions : HostEnd(s)
  <2>1. PICK s \in Sessions : HostEnd(s)
    BY <1>2
  <2>2. Calm
    BY <2>1, HostEndFrame, CalmEnd
  <2>3. UNCHANGED <<open, nestedRoots, work, processed, attributed, made, writes, overlaps, crossings>>
    BY <2>1 DEF HostEnd, trackerVars, historyVars
  <2> QED BY <2>2, <2>3
<1>3. CASE \E s \in Sessions : HostReply(s)
  <2>1. PICK s \in Sessions : HostReply(s)
    BY <1>3
  <2>2. Calm
    BY <2>1, HostReplyFrame, CalmStays
  <2>3. UNCHANGED <<open, nestedRoots, work, processed, attributed, made, writes, overlaps, crossings>>
    BY <2>1 DEF HostReply, trackerVars, historyVars
  <2> QED BY <2>2, <2>3
<1>4. CASE \E s \in Sessions, kind \in Kinds : HostWrite(s, kind)
  <2>1. PICK s \in Sessions, kind \in Kinds : HostWrite(s, kind)
    BY <1>4
  <2>2. /\ SameHost /\ Stays /\ UNCHANGED <<open, nestedRoots, work, processed, attributed, overlaps>>
        /\ crossings \subseteq crossings'
    BY <2>1, HostWriteFacts
  <2> QED BY <2>2, <1>4, CalmStays
<1>5. CASE HostRepeat
  <2>1. PICK x : RepeatFrame(x)
    BY <1>5, HostRepeatFrame
  <2>2. Calm
    BY <2>1, CalmRepeat
  <2>3. UNCHANGED <<open, nestedRoots, work, processed, attributed, made, writes, overlaps, crossings>>
    BY <1>5 DEF HostRepeat, trackerVars, historyVars
  <2> QED BY <2>2, <2>3
<1>6. CASE OnEvent
  <2>1. Calm
    BY <1>6, OnEventFrame, CalmStays
  <2>2. UNCHANGED <<open, nestedRoots, work, processed, attributed, made, writes, overlaps, crossings>>
    BY <1>6 DEF OnEvent, historyVars
  <2> QED BY <2>1, <2>2
<1> QED BY <1>1, <1>2, <1>3, <1>4, <1>5, <1>6 DEF Host

\* The queue's steps together.
LEMMA QueueFrame ==
  ASSUME TrackerAssumption, ShapesOK, LineOK, Queue
  PROVE  SameHost /\ UNCHANGED <<made, overlaps, crossings>>
<1> PICK x : x = Head(tasks).execution
  OBVIOUS
<1>1. CASE RunStart
  BY <1>1, RunStartFacts
<1>2. CASE RunDiscard \/ RunFinish
  BY <1>2, RunEndFacts
<1>3. CASE ReadMessages \/ ReadTree
  BY <1>3, SameHostQueue
<1> QED BY <1>1, <1>2, <1>3 DEF Queue

-----------------------------------------------------------------------------
(* The changes of an execution.                                             *)

LEMMA OwnIs ==
  ASSUME ShapesOK, NEW e, NEW c
  PROVE  /\ c \in Own(e) <=> c \in made /\ (c[1] = e \/ (Parent[c[1][1]] = e[1] /\ Met(c[1], e)))
         /\ c \in made => c[1] \in Known
<1>1. c \in made => c[1] \in Known
  BY DEF ShapesOK
<1> QED BY <1>1 DEF Own, Met, SessionOf

OwnTold == \A e, c : c \in Own(e) <=> c \in made /\ (c[1] = e \/ (Parent[c[1][1]] = e[1] /\ Met(c[1], e)))
LEMMA OwnIsTold == OwnTold
BY DEF OwnTold, Own, Met, SessionOf

LEMMA OwnSame ==
  ASSUME ShapesOK, made' = made, NEW e \in Known, \A f \in Known : Met(f, e)' <=> Met(f, e)
  PROVE  Own(e)' = Own(e)
<1>1. OwnTold'
  BY OwnIsTold, PTL
<1>2. ASSUME NEW c PROVE c \in Own(e)' <=> c \in Own(e)
  BY <1>1, OwnIs DEF OwnTold
<1> QED BY <1>2

\* An execution that has just started owns nothing.
LEMMA OwnOfNew ==
  ASSUME ShapesOK, made' = made, Calm, NEW e \in Known', e \notin Known
  PROVE  Own(e)' = {}
<1>1. OwnTold'
  BY OwnIsTold, PTL
<1>2. ASSUME NEW c, c \in Own(e)' PROVE FALSE
  <2>1. c \in made /\ (c[1] = e \/ (Parent[c[1][1]] = e[1] /\ Met(c[1], e)'))
    BY <1>1, <1>2 DEF OwnTold
  <2>2. c[1] \in Known
    BY <2>1, OwnIs
  <2>3. Parent[c[1][1]] = e[1] /\ Met(c[1], e)' /\ c[1] \in Known'
    BY <2>1, <2>2 DEF Calm
  <2>4. Met(e, c[1])'
    <3>1. {e, c[1]} = {c[1], e}
      OBVIOUS
    <3> QED BY <2>3, <3>1 DEF Met
  <2>5. PICK f : f = c[1]
    OBVIOUS
  <2> QED BY <2>3, <2>4, <2>5 DEF Calm
<1> QED BY <1>2

\* A change is its owner's, and the owner is in progress.
LEMMA OwnAtWrite ==
  ASSUME TrackerAssumption, ShapesOK, HostOK, NEW s \in Sessions, NEW kind, HostWrite(s, kind),
         NEW c, c = <<Current(s), kind>>, NEW e \in Known, e[1] \in Roots
  PROVE  /\ Own(e) \subseteq Own(e)' /\ Own(e)' \subseteq Own(e) \union {c}
         /\ c \in Own(e)' =>
              /\ e = OwnerOf(s) /\ Live(e)
              /\ e = c[1] \/ IsInside(c[1], e)
<1>1. /\ SameHost /\ s \in running /\ c[1] = Current(s) /\ c[1] \in Known /\ Live(c[1]) /\ c[1][1] = s
      /\ c \notin made /\ made' = made \union {c}
  BY HostWriteFacts
<1>2. \A f, g : Met(f, g)' <=> Met(f, g)
  BY <1>1 DEF SameHost, Met
<1>3. OwnTold'
  BY OwnIsTold, PTL
<1>4. ASSUME NEW d PROVE d \in Own(e)' <=> \/ d \in Own(e)
                                           \/ d = c /\ (c[1] = e \/ (Parent[s] = e[1] /\ Met(c[1], e)))
  BY <1>1, <1>2, <1>3, OwnIs DEF OwnTold
<1>5. c \notin Own(e)
  BY <1>1, OwnIs
<1>6. ASSUME c[1] = e PROVE e = OwnerOf(s) /\ Live(e)
  <2>1. Parent[s] = None
    BY <1>1, <1>6 DEF Roots
  <2> QED BY <1>1, <1>6, <2>1 DEF OwnerOf
<1>7. ASSUME Parent[s] = e[1], Met(c[1], e) PROVE e = OwnerOf(s) /\ Live(e) /\ IsInside(c[1], e)
  <2>1. IsInside(c[1], e)
    BY <1>1, <1>7 DEF IsInside
  <2>2. Live(e)
    BY <2>1, <1>1 DEF HostOK
  <2>3. Parent[s] # None
    BY <1>7, Executions, TrackerAssumption
  <2>4. e = Current(Parent[s])
    BY <2>2, <1>7 DEF Live
  <2> QED BY <2>1, <2>2, <2>3, <2>4 DEF OwnerOf
<1>8. Own(e) \subseteq Own(e)' /\ Own(e)' \subseteq Own(e) \union {c}
  BY <1>4
<1>9. c \in Own(e)' => c[1] = e \/ (Parent[s] = e[1] /\ Met(c[1], e))
  BY <1>4, <1>5
<1>10. ASSUME c \in Own(e)' PROVE e = OwnerOf(s) /\ Live(e) /\ (e = c[1] \/ IsInside(c[1], e))
  BY <1>6, <1>7, <1>9, <1>10
<1> QED BY <1>8, <1>10

-----------------------------------------------------------------------------
(* The records a start opens and those an end leaves.                       *)

\* A record after task x has opened its own: that one, or an earlier one, flagged.
OpenedOrFlagged(x, snapshot, o) ==
  \/ /\ o.execution = x /\ o.snapshot = snapshot
     /\ \A r \in Members(open) : r.execution[1] # x[1] => o.concurrent
  \/ \E r \in Members(open) :
       /\ o.execution = r.execution /\ o.snapshot = r.snapshot /\ o.concurrent = TRUE

LEMMA OpenedRecords ==
  ASSUME TrackerAssumption, ShapesOK, LineOK, RecordsOK, RoomToOpen, RunStart,
         NEW x, x = Head(tasks).execution, NEW snapshot, open' = Opened(Head(tasks), snapshot)
  PROVE  \A o \in Members(open') : OpenedOrFlagged(x, snapshot, o)
<1>0. IsList(open) /\ OneEach(open)
  BY DEF ShapesOK, RecordsOK
<1>1. Len(WithoutOpen(x[1])) < MaxOpenSnapshots
  BY RunStartFacts DEF RoomToOpen, SessionOf
<1> PICK others : others = WithoutOpen(x[1])
  OBVIOUS
<1> PICK new : new = Fresh(Head(tasks), snapshot, others)
  OBVIOUS
<1>2. /\ Members(open') = {Flagged(o) : o \in {r \in Members(open) : r.execution[1] # x[1]}} \union {new}
      /\ IsList(others) /\ Members(others) = {o \in Members(open) : o.execution[1] # x[1]}
  BY <1>0, <1>1, OpenedFacts, WithoutOpenFacts
<1>3. new.execution = x /\ new.snapshot = snapshot /\ new.concurrent = (others # <<>>)
  BY DEF Fresh
<1>4. ASSUME NEW r \in Members(open), r.execution[1] # x[1] PROVE others # <<>>
  <2>1. r \in Members(others)
    BY <1>2, <1>4
  <2> QED BY <2>1, EmptyList
<1>5. \A r : /\ Flagged(r).execution = r.execution /\ Flagged(r).snapshot = r.snapshot
             /\ Flagged(r).concurrent = TRUE
  BY DEF Flagged
<1>6. ASSUME NEW o \in Members(open')
      PROVE  \/ /\ o.execution = x /\ o.snapshot = snapshot
                /\ \A r \in Members(open) : r.execution[1] # x[1] => o.concurrent
             \/ \E r \in Members(open) :
                  /\ o.execution = r.execution /\ o.snapshot = r.snapshot /\ o.concurrent = TRUE
  <2>1. CASE o = new
    BY <2>1, <1>3, <1>4
  <2>2. ASSUME NEW r \in Members(open), o = Flagged(r)
        PROVE  o.execution = r.execution /\ o.snapshot = r.snapshot /\ o.concurrent = TRUE
    BY <2>2, <1>5
  <2> QED BY <2>1, <2>2, <1>2, <1>6
<1> QED BY <1>6 DEF OpenedOrFlagged

LEMMA LeftRecords ==
  ASSUME TrackerAssumption, ShapesOK, LineOK, RecordsOK, RunDiscard \/ RunFinish,
         NEW x, x = Head(tasks).execution
  PROVE  /\ Members(open') \subseteq Members(open)
         /\ \A o \in Members(open') : o.execution[1] # x[1]
<1>1. /\ Takes("end", x) /\ x[1] \in Sessions
      /\ \/ nestedRoots[x[1]] # None /\ UNCHANGED open
         \/ open' = WithoutOpen(x[1])
  BY RunEndFacts
<1>2. IsList(open) /\ OneEach(open) /\ \A o \in Members(open) : nestedRoots[o.execution[1]] = None
  BY DEF ShapesOK, RecordsOK
<1>3. CASE nestedRoots[x[1]] # None /\ UNCHANGED open
  BY <1>2, <1>3
<1>4. CASE open' = WithoutOpen(x[1])
  BY <1>2, <1>4, WithoutOpenFacts
<1> QED BY <1>1, <1>3, <1>4

\* A finish that goes on takes the record of the execution that ended.
LEMMA TakenRecord ==
  ASSUME TrackerAssumption, ShapesOK, LineOK, RecordsOK, RunDiscard \/ RunFinish,
         NEW x, x = Head(tasks).execution, work' # None
  PROVE  \/ work' = work /\ nestedRoots[x[1]] # None
         \/ \E o \in Members(open) :
              /\ o.execution = x /\ ~o.concurrent
              /\ work'.execution = x /\ work'.snapshot = o.snapshot /\ work'.written = writes[x[1]]
<1>1. Takes("end", x) /\ x \in Known
  BY RunEndFacts
<1>2. CASE UNCHANGED work /\ nestedRoots[x[1]] # None
  BY <1>2
<1>3. CASE /\ IsOpen(x[1]) /\ ~OpenOf(x[1]).concurrent
           /\ work' = [execution |-> x, snapshot |-> OpenOf(x[1]).snapshot,
                       written |-> writes[x[1]], reply |-> None]
  <2>1. PICK o \in Members(open) : o = OpenOf(x[1]) /\ o.execution[1] = x[1]
    BY <1>3, OpenOfFacts
  <2>2. o.execution \in Known /\ ~Starting(o.execution) /\ Going(o.execution)
    BY DEF ShapesOK, RecordsOK
  <2>3. o.execution = x
    BY <1>1, <2>1, <2>2, HeadEnd
  <2> QED BY <1>3, <2>1, <2>3
<1> QED BY <1>2, <1>3, RunEndFacts

-----------------------------------------------------------------------------
(* The patch holds nothing else.                                            *)

LEMMA SnapshotKept ==
  ASSUME made' = made, crossings \subseteq crossings', overlaps \subseteq overlaps',
         NEW e, NEW snap, SnapshotOK(e, snap)
  PROVE  SnapshotOK(e, snap)'
BY DEF SnapshotOK, Tree, Late, Met

LEMMA SnapshotWrite ==
  ASSUME ShapesOK, HostOK, LateOK, NEW s \in Sessions, NEW kind, HostWrite(s, kind),
         NEW e \in Known, NEW snap, SnapshotOK(e, snap), Live(e) \/ Past(e)
  PROVE  SnapshotOK(e, snap)'
<1> PICK c : c = <<Current(s), kind>>
  OBVIOUS
<1>1. /\ s \in running /\ c[1] = Current(s) /\ c[1] \in Known /\ c[1][1] = s
      /\ made' = made \union {c}
      /\ overlaps' = overlaps /\ crossings \subseteq crossings'
  BY HostWriteFacts
<1>2. Tree' \subseteq Tree \union {c}
  BY <1>1 DEF Tree
<1>3. Late(e) \/ c[1] = e \/ Met(c[1], e)
  <2>1. CASE Live(e) /\ e[1] = s
    BY <2>1, <1>1 DEF Live
  <2>2. CASE Live(e) /\ e[1] # s
    <3>1. e[1] \in running /\ e = Current(e[1])
      BY <2>2 DEF Live
    <3>2. Met(Current(s), Current(e[1]))
      BY <3>1, <2>2, <1>1 DEF HostOK
    <3> QED BY <3>1, <3>2, <1>1
  <2>3. CASE Past(e)
    <3>1. Late(e) \/ LastMet(e)
      BY <2>3, LateIs
    <3> QED BY <3>1, <1>1 DEF LastMet
  <2> QED BY <2>1, <2>2, <2>3
<1>4. Late(e) => Late(e)'
  BY <1>1 DEF Late
<1>5. \A f : Met(f, e) => Met(f, e)'
  BY <1>1 DEF Met
<1> QED BY <1>1, <1>2, <1>3, <1>4, <1>5 DEF SnapshotOK

LEMMA OwnGrows ==
  ASSUME made \subseteq made', overlaps \subseteq overlaps', NEW e
  PROVE  Own(e) \subseteq Own(e)'
BY DEF Own

LEMMA PatchIsOwnKept ==
  ASSUME PatchIsOwn, made \subseteq made', overlaps \subseteq overlaps', crossings \subseteq crossings',
         UNCHANGED attributed
  PROVE  PatchIsOwn'
<1>1. ASSUME NEW t \in Attributed', <<t.execution, "late">> \notin crossings'
      PROVE  t.files \subseteq Own(t.execution)'
  <2>1. t \in Attributed
    BY DEF Attributed, Elements
  <2>2. PICK e : e = t.execution
    OBVIOUS
  <2>3. t.files \subseteq Own(e)
    BY <2>1, <2>2, <1>1 DEF PatchIsOwn
  <2>4. Own(e) \subseteq Own(e)'
    BY OwnGrows
  <2> QED BY <2>2, <2>3, <2>4
<1> QED BY <1>1 DEF PatchIsOwn

LEMMA PatchHost ==
  ASSUME TrackerAssumption, ShapesOK, HostOK, LineOK, RecordsOK, AloneOK, LateOK, PatchOK, Host \/ OnEvent
  PROVE  PatchOK'
<1>1. /\ UNCHANGED <<open, work, attributed>>
      /\ overlaps \subseteq overlaps' /\ crossings \subseteq crossings'
      /\ \/ made' = made
         \/ \E s \in Sessions, kind \in Kinds : HostWrite(s, kind)
  BY HostCalm
<1>2. ASSUME NEW e \in Known, NEW snap, SnapshotOK(e, snap), Live(e) \/ Past(e)
      PROVE  SnapshotOK(e, snap)'
  <2>1. CASE made' = made
    BY <2>1, <1>1, <1>2, SnapshotKept
  <2>2. CASE \E s \in Sessions, kind \in Kinds : HostWrite(s, kind)
    BY <2>2, <1>2, SnapshotWrite
  <2> QED BY <2>1, <2>2, <1>1
<1>3. \A o \in Members(open') : SnapshotOK(o.execution, o.snapshot)'
  <2>1. ASSUME NEW o \in Members(open') PROVE SnapshotOK(o.execution, o.snapshot)'
    <3>1. PICK e, snap : e = o.execution /\ snap = o.snapshot
      OBVIOUS
    <3>2. e \in Known /\ Going(e)
      BY <1>1, <3>1 DEF ShapesOK, RecordsOK
    <3>3. SnapshotOK(e, snap)
      BY <1>1, <3>1 DEF PatchOK
    <3>4. SnapshotOK(e, snap)'
      BY <3>2, <3>3, <1>2 DEF Going, Past
    <3> QED BY <3>1, <3>4
  <2> QED BY <2>1
<1>4. work' # None => SnapshotOK(work.execution, work.snapshot)'
  <2>1. ASSUME work # None PROVE SnapshotOK(work.execution, work.snapshot)'
    <3>1. PICK e, snap : e = work.execution /\ snap = work.snapshot
      OBVIOUS
    <3>2. e \in Known /\ Past(e) /\ SnapshotOK(e, snap)
      BY <2>1, <3>1 DEF AloneOK, Alone, Past, PatchOK
    <3>3. SnapshotOK(e, snap)'
      BY <3>2, <1>2
    <3> QED BY <3>1, <3>3, <1>1
  <2> QED BY <2>1, <1>1
<1>5. PatchIsOwn'
  <2>1. made \subseteq made'
    BY <1>1, HostWriteFacts
  <2> QED BY <2>1, <1>1, PatchIsOwnKept DEF PatchOK
<1> QED BY <1>3, <1>4, <1>5 DEF PatchOK

LEMMA PatchQueue ==
  ASSUME TrackerAssumption, ShapesOK, HostOK, LineOK, RecordsOK, RoomToOpen, AloneOK, ReplyOK, PatchOK, Queue
  PROVE  PatchOK'
<1> PICK x : x = Head(tasks).execution
  OBVIOUS
<1>1. UNCHANGED <<made, overlaps, crossings>>
  BY QueueFrame
<1>2. ASSUME NEW e, NEW snap, SnapshotOK(e, snap) PROVE SnapshotOK(e, snap)'
  BY <1>1, <1>2, SnapshotKept
<1>3. ASSUME NEW o, \E r \in Members(open) : o.execution = r.execution /\ o.snapshot = r.snapshot
      PROVE  SnapshotOK(o.execution, o.snapshot)'
  <2>1. PICK e, snap : e = o.execution /\ snap = o.snapshot
    OBVIOUS
  <2>2. SnapshotOK(e, snap)
    BY <2>1, <1>3 DEF PatchOK
  <2>3. SnapshotOK(e, snap)'
    BY <2>2, <1>2
  <2> QED BY <2>1, <2>3
<1>4. ASSUME UNCHANGED attributed PROVE PatchIsOwn'
  BY <1>1, <1>4, PatchIsOwnKept DEF PatchOK
<1>5. ASSUME work' # None,
             \/ work # None /\ work'.execution = work.execution /\ work'.snapshot = work.snapshot
             \/ \E o \in Members(open) : work'.execution = o.execution /\ work'.snapshot = o.snapshot
      PROVE  SnapshotOK(work.execution, work.snapshot)'
  <2>1. PICK e, snap : e = work'.execution /\ snap = work'.snapshot
    OBVIOUS
  <2>2. SnapshotOK(e, snap)
    BY <2>1, <1>5 DEF PatchOK
  <2>3. SnapshotOK(e, snap)'
    BY <2>2, <1>2
  <2> QED BY <2>1, <2>3
<1>6. CASE RunStart
  <2>1. /\ UNCHANGED <<work, attributed>>
        /\ UNCHANGED open \/ \E snapshot \in {Tree, None} : open' = Opened(Head(tasks), snapshot)
    BY <1>6, RunStartFacts
  <2>2. ASSUME NEW o \in Members(open') PROVE SnapshotOK(o.execution, o.snapshot)'
    <3>1. CASE UNCHANGED open
      BY <3>1, <2>2, <1>3
    <3>2. ASSUME NEW snapshot \in {Tree, None}, open' = Opened(Head(tasks), snapshot)
          PROVE  SnapshotOK(o.execution, o.snapshot)'
      <4>1. CASE o.snapshot = snapshot
        <5>1. Tree' = Tree /\ Tree \subseteq made'
          BY <1>1 DEF Tree
        <5> QED BY <5>1, <4>1, <3>2 DEF SnapshotOK
      <4>2. CASE \E r \in Members(open) : o.execution = r.execution /\ o.snapshot = r.snapshot
        BY <4>2, <1>3
      <4>3. OpenedOrFlagged(x, snapshot, o)
        BY <3>2, <2>2, <1>6, OpenedRecords
      <4> QED BY <4>1, <4>2, <4>3 DEF OpenedOrFlagged
    <3> QED BY <3>1, <3>2, <2>1
  <2>3. work' # None => SnapshotOK(work.execution, work.snapshot)'
    BY <2>1, <1>5
  <2> QED BY <2>1, <2>2, <2>3, <1>4 DEF PatchOK
<1>7. CASE RunDiscard \/ RunFinish
  <2>1. UNCHANGED attributed /\ Members(open') \subseteq Members(open)
    BY <1>7, RunEndFacts, LeftRecords
  <2>2. \A o \in Members(open') : SnapshotOK(o.execution, o.snapshot)'
    BY <2>1, <1>3
  <2>3. work' # None => SnapshotOK(work.execution, work.snapshot)'
    <3>1. ASSUME work' # None
          PROVE  \/ work # None /\ work'.execution = work.execution /\ work'.snapshot = work.snapshot
                 \/ \E o \in Members(open) : work'.execution = o.execution /\ work'.snapshot = o.snapshot
      BY <3>1, <1>7, TakenRecord
    <3> QED BY <3>1, <1>5
  <2> QED BY <2>1, <2>2, <2>3, <1>4 DEF PatchOK
<1>8. CASE ReadMessages
  <2>1. /\ UNCHANGED <<open, attributed>> /\ work # None
        /\ work' # None => work'.execution = work.execution /\ work'.snapshot = work.snapshot
    BY <1>8, ReadMessagesFacts, SameHostQueue
  <2>2. \A o \in Members(open') : SnapshotOK(o.execution, o.snapshot)'
    BY <2>1, <1>3
  <2>3. work' # None => SnapshotOK(work.execution, work.snapshot)'
    BY <2>1, <1>5
  <2> QED BY <2>1, <2>2, <2>3, <1>4 DEF PatchOK
<1>9. CASE ReadTree
  <2>1. /\ UNCHANGED open /\ work # None /\ work.reply # None /\ work' = None
        /\ \/ UNCHANGED attributed
           \/ Attributed' = Attributed \union {Turn}
    BY <1>9, ReadTreeFacts, SameHostQueue DEF ReplyOK
  <2>2. \A o \in Members(open') : SnapshotOK(o.execution, o.snapshot)'
    BY <2>1, <1>3
  <2>3. CASE Attributed' = Attributed \union {Turn}
    <3>1. PICK e : e = work.execution
      OBVIOUS
    <3>2. Alone(e) /\ work.snapshot # None /\ SnapshotOK(e, work.snapshot)
      BY <2>1, <3>1 DEF AloneOK, ReplyOK, PatchOK
    <3>3. ASSUME <<e, "late">> \notin crossings, NEW c \in Tree \ work.snapshot PROVE c \in Own(e)
      <4>1. c \in made /\ (c[1] = e \/ Met(c[1], e))
        BY <3>2, <3>3 DEF SnapshotOK, Late, Tree
      <4>2. Met(c[1], e) => Parent[c[1][1]] = e[1]
        BY <3>2, AloneMet
      <4> QED BY <4>1, <4>2, OwnIs
    <3>4. \A f : Own(f)' = Own(f)
      BY <1>1 DEF Own
    <3>5. Turn.execution = e /\ Turn.files = Tree \ work.snapshot
      BY <3>1 DEF Turn
    <3>6. ASSUME NEW t \in Attributed', <<t.execution, "late">> \notin crossings'
          PROVE  t.files \subseteq Own(t.execution)'
      <4>1. CASE t = Turn
        BY <4>1, <3>3, <3>4, <3>5, <3>6, <1>1
      <4>2. CASE t \in Attributed
        <5>1. t.files \subseteq Own(t.execution)
          BY <4>2, <3>6, <1>1 DEF PatchOK, PatchIsOwn
        <5>2. PICK f : f = t.execution
          OBVIOUS
        <5> QED BY <5>1, <5>2, <3>4
      <4> QED BY <4>1, <4>2, <2>3, <3>6
    <3>7. PatchIsOwn'
      BY <3>6 DEF PatchIsOwn
    <3> QED BY <3>7, <2>1, <2>2 DEF PatchOK
  <2> QED BY <2>1, <2>2, <2>3, <1>4 DEF PatchOK
<1> QED BY <1>6, <1>7, <1>8, <1>9 DEF Queue

-----------------------------------------------------------------------------
(* The patch is whole: what is settled when the execution's record is taken. *)

LEMMA ClearKept ==
  ASSUME overlaps \subseteq overlaps', crossings \subseteq crossings', NEW e, Clear(e)'
  PROVE  Clear(e)
<1>1. Inside(e) \subseteq Inside(e)'
  BY DEF Inside
<1>2. ~Early(e) /\ \A f : Crossed(f) => Crossed(f)'
  BY DEF Clear, Early, Crossed
<1>3. \A f \in Inside(e)' : ~Crossed(f)'
  BY DEF Clear
<1> QED BY <1>1, <1>2, <1>3 DEF Clear

\* An execution that is over makes no change.
LEMMA OwnOver ==
  ASSUME TrackerAssumption, ShapesOK, HostOK, LineOK, Host \/ OnEvent,
         NEW e \in Known, e[1] \in Roots, ~Live(e)
  PROVE  Own(e)' = Own(e)
<1>1. Calm /\ (UNCHANGED made \/ \E s \in Sessions, kind \in Kinds : HostWrite(s, kind))
  BY HostCalm
<1>2. CASE UNCHANGED made
  <2>1. \A f \in Known : Met(f, e)' <=> Met(f, e)
    BY <1>1 DEF Calm
  <2> QED BY <2>1, <1>2, OwnSame
<1>3. ASSUME NEW s \in Sessions, NEW kind \in Kinds, HostWrite(s, kind) PROVE Own(e)' = Own(e)
  <2> PICK c : c = <<Current(s), kind>>
    OBVIOUS
  <2>1. /\ Own(e) \subseteq Own(e)' /\ Own(e)' \subseteq Own(e) \union {c}
        /\ c \in Own(e)' => Live(e)
    BY <1>3, OwnAtWrite
  <2> QED BY <2>1
<1> QED BY <1>1, <1>2, <1>3

LEMMA OwnAtQueue ==
  ASSUME UNCHANGED <<made, overlaps, crossings>>, NEW e
  PROVE  /\ Own(e)' = Own(e) /\ Inside(e)' = Inside(e)
         /\ (Early(e)' <=> Early(e)) /\ (Crossed(e)' <=> Crossed(e)) /\ (Clear(e)' <=> Clear(e))
<1>1. Own(e)' = Own(e) /\ Inside(e)' = Inside(e)
  BY DEF Own, Inside
<1>2. Early(e)' <=> Early(e)
  BY DEF Early
<1>3. \A f : Crossed(f)' <=> Crossed(f)
  BY DEF Crossed
<1> QED BY <1>1, <1>2, <1>3 DEF Clear

LEMMA EarlyHost ==
  ASSUME TrackerAssumption, ShapesOK, HostOK, LineOK, RecordsOK, EarlyOK, Host \/ OnEvent
  PROVE  EarlyOK'
<1>1. /\ Calm /\ UNCHANGED open /\ crossings \subseteq crossings'
      /\ UNCHANGED made \/ \E s \in Sessions, kind \in Kinds : HostWrite(s, kind)
  BY HostCalm
<1>2. /\ Known \subseteq Known' /\ \A e \in Known : Starting(e)' <=> Starting(e)
      /\ \A e, f \in Known : Met(e, f)' <=> Met(e, f)
  BY <1>1 DEF Calm
<1>3. \A e : Early(e) => Early(e)'
  BY <1>1 DEF Early
<1>4. \A o \in Members(open) : /\ o.execution \in Known /\ ~Starting(o.execution)
                               /\ o.snapshot # None => o.snapshot \subseteq made
  BY DEF ShapesOK, RecordsOK
<1>5. CASE UNCHANGED made
  <2>1. ASSUME NEW e \in Known', e[1] \in Roots, Starting(e)', ~Early(e)' PROVE Own(e)' = {}
    <3>1. CASE e \in Known
      <4>1. Starting(e) /\ ~Early(e) /\ Own(e)' = Own(e)
        BY <3>1, <2>1, <1>2, <1>3, <1>5, OwnSame
      <4> QED BY <3>1, <4>1, <2>1 DEF EarlyOK
    <3>2. CASE e \notin Known
      BY <3>2, <2>1, <1>1, <1>5, OwnOfNew
    <3> QED BY <3>1, <3>2
  <2>2. ASSUME NEW o \in Members(open'), o.execution[1] \in Roots, ~Early(o.execution)', o.snapshot # None
        PROVE  Own(o.execution)' \intersect o.snapshot = {}
    <3>1. PICK e \in Known : e = o.execution
      BY <1>1, <1>4
    <3>2. ~Early(e) /\ Own(e)' = Own(e)
      BY <3>1, <2>2, <1>2, <1>3, <1>5, OwnSame
    <3>3. Own(e) \intersect o.snapshot = {}
      BY <3>1, <3>2, <2>2, <1>1 DEF EarlyOK
    <3> QED BY <3>1, <3>2, <3>3
  <2> QED BY <2>1, <2>2 DEF EarlyOK
<1>6. ASSUME NEW s \in Sessions, NEW kind \in Kinds, HostWrite(s, kind) PROVE EarlyOK'
  <2> PICK c : c = <<Current(s), kind>>
    OBVIOUS
  <2>1. /\ Known' = Known /\ c \notin made
        /\ \A e : e = OwnerOf(s) => Early(e)' \/ \E o \in Members(open) : o.execution = e
    BY <1>6, HostWriteFacts DEF SameHost
  <2>2. \A e \in Known : e[1] \in Roots =>
          /\ Own(e) \subseteq Own(e)' /\ Own(e)' \subseteq Own(e) \union {c}
          /\ c \in Own(e)' => e = OwnerOf(s)
    BY <1>6, OwnAtWrite
  <2>3. ASSUME NEW e \in Known', e[1] \in Roots, Starting(e)', ~Early(e)' PROVE Own(e)' = {}
    <3>1. e \in Known /\ Starting(e) /\ ~Early(e)
      BY <2>1, <2>3, <1>2, <1>3
    <3>2. Own(e) = {}
      BY <3>1, <2>3 DEF EarlyOK
    <3>3. c \notin Own(e)'
      BY <3>1, <2>1, <2>2, <2>3, <1>4
    <3> QED BY <3>1, <3>2, <3>3, <2>2, <2>3
  <2>4. ASSUME NEW o \in Members(open'), o.execution[1] \in Roots, ~Early(o.execution)', o.snapshot # None
        PROVE  Own(o.execution)' \intersect o.snapshot = {}
    <3>1. PICK e \in Known : e = o.execution
      BY <1>1, <1>4
    <3>2. ~Early(e) /\ Own(e)' \subseteq Own(e) \union {c}
      BY <3>1, <2>2, <2>4, <1>3
    <3>3. Own(e) \intersect o.snapshot = {}
      BY <3>1, <3>2, <2>4, <1>1 DEF EarlyOK
    <3>4. c \notin o.snapshot
      BY <2>1, <2>4, <1>1, <1>4
    <3> QED BY <3>1, <3>2, <3>3, <3>4
  <2> QED BY <2>3, <2>4 DEF EarlyOK
<1> QED BY <1>1, <1>5, <1>6

LEMMA EarlyQueue ==
  ASSUME TrackerAssumption, ShapesOK, HostOK, LineOK, RecordsOK, RoomToOpen, EarlyOK, Queue
  PROVE  EarlyOK'
<1>0. Waiting \in Nat
  BY WaitingIsNat
<1> PICK x : x = Head(tasks).execution
  OBVIOUS
<1>1. SameHost /\ UNCHANGED <<made, overlaps, crossings>>
  BY QueueFrame
<1>2. \A e : Own(e)' = Own(e) /\ (Early(e)' <=> Early(e))
  BY <1>1, OwnAtQueue
<1>3. /\ \A e : Starting(e)' => Starting(e)
      /\ \A o \in Members(open') :
           \/ \E r \in Members(open) : o.execution = r.execution /\ o.snapshot = r.snapshot
           \/ o.execution = x /\ x \in Known /\ Starting(x)
  <2>1. CASE RunStart
    <3>1. /\ Takes("start", x) /\ x \in Known
          /\ UNCHANGED open \/ \E snapshot \in {Tree, None} : open' = Opened(Head(tasks), snapshot)
      BY <2>1, RunStartFacts
    <3>2. Starting(x) /\ \A e : Starting(e)' => Starting(e)
      BY <3>1, <1>0, TakesFacts DEF Starting
    <3>3. ASSUME NEW snapshot \in {Tree, None}, open' = Opened(Head(tasks), snapshot), NEW o \in Members(open')
          PROVE  \/ \E r \in Members(open) : o.execution = r.execution /\ o.snapshot = r.snapshot
                 \/ o.execution = x
      <4>1. OpenedOrFlagged(x, snapshot, o)
        BY <3>3, <2>1, OpenedRecords
      <4> QED BY <4>1 DEF OpenedOrFlagged
    <3>4. CASE UNCHANGED open
      BY <3>2, <3>4
    <3> QED BY <3>1, <3>2, <3>3, <3>4
  <2>2. CASE RunDiscard \/ RunFinish
    <3>1. Takes("end", x) /\ Members(open') \subseteq Members(open)
      BY <2>2, RunEndFacts, LeftRecords
    <3>2. \A e : Starting(e)' => Starting(e)
      BY <3>1, <1>0, TakesFacts DEF Starting
    <3> QED BY <3>1, <3>2
  <2>3. CASE ReadMessages \/ ReadTree
    <3>1. Stays /\ UNCHANGED open
      BY <2>3, SameHostQueue
    <3>2. \A e : Starting(e)' => Starting(e)
      BY <3>1, <1>0, StaysFacts DEF Starting
    <3> QED BY <3>1, <3>2
  <2> QED BY <2>1, <2>2, <2>3 DEF Queue
<1>4. ASSUME NEW e \in Known', e[1] \in Roots, Starting(e)', ~Early(e)' PROVE Own(e)' = {}
  <2>1. e \in Known /\ Starting(e) /\ ~Early(e)
    BY <1>1, <1>2, <1>3, <1>4 DEF SameHost
  <2> QED BY <2>1, <1>2, <1>4 DEF EarlyOK
<1>5. ASSUME NEW o \in Members(open'), o.execution[1] \in Roots, ~Early(o.execution)', o.snapshot # None
      PROVE  Own(o.execution)' \intersect o.snapshot = {}
  <2>1. PICK e : e = o.execution
    OBVIOUS
  <2>2. ~Early(e) /\ e[1] \in Roots
    BY <2>1, <1>2, <1>5
  <2>3. CASE e = x /\ x \in Known /\ Starting(x)
    <3>1. Own(e) = {}
      BY <2>2, <2>3 DEF EarlyOK
    <3> QED BY <3>1, <2>1, <1>2
  <2>4. ASSUME NEW r \in Members(open), o.execution = r.execution, o.snapshot = r.snapshot
        PROVE  Own(o.execution)' \intersect o.snapshot = {}
    <3>1. Own(e) \intersect o.snapshot = {}
      BY <2>1, <2>2, <2>4, <1>5 DEF EarlyOK
    <3> QED BY <3>1, <2>1, <1>2
  <2> QED BY <2>1, <2>3, <2>4, <1>3
<1> QED BY <1>4, <1>5 DEF EarlyOK

-----------------------------------------------------------------------------
(* A session started again before its last end was worked off is crossed.   *)

LEMMA CrossedSame ==
  ASSUME CrossedOK, SameHost, crossings \subseteq crossings',
         \A i \in 1..Waiting' : \E j \in 1..Waiting : Tag(j) = Tag(i)' /\ Who(j) = Who(i)'
  PROVE  CrossedOK'
<1>1. ASSUME NEW i \in 1..Waiting', NEW f \in Known',
             Tag(i)' = "end", f[1] = Who(i)'[1], Who(i)'[2] < f[2]
      PROVE  Crossed(f)'
  <2>1. f \in Known
    BY DEF SameHost
  <2>2. PICK j \in 1..Waiting : Tag(j) = Tag(i)' /\ Who(j) = Who(i)'
    OBVIOUS
  <2>3. Crossed(f)
    BY <1>1, <2>1, <2>2 DEF CrossedOK
  <2> QED BY <2>3 DEF Crossed
<1> QED BY <1>1 DEF CrossedOK

LEMMA CrossedStart ==
  ASSUME TrackerAssumption, ShapesOK, CrossedOK, NEW s \in Sessions, HostStart(s)
  PROVE  CrossedOK'
<1>0. Waiting \in Nat
  BY WaitingIsNat
<1>n. PICK N : N = Newest(s)
  OBVIOUS
<1>1. /\ Grows("start", N) /\ Known' = Known \union {N} /\ N[1] = s
  BY <1>n, HostStartFrame DEF StartFrame
<1>2. /\ crossings \subseteq crossings'
      /\ \A u \in Unsettled : u[1] = s => <<N, "crossed">> \in crossings'
  BY <1>n DEF HostStart, Newest, SessionOf
<1>3. ASSUME NEW i \in 1..Waiting', NEW f \in Known',
             Tag(i)' = "end", f[1] = Who(i)'[1], Who(i)'[2] < f[2]
      PROVE  Crossed(f)'
  <2>1. i \in 1..Waiting /\ Tag(i) = "end" /\ Who(i) = Who(i)'
    BY <1>0, <1>1, <1>3 DEF Grows
  <2>2. CASE f \in Known
    <3>1. Crossed(f)
      BY <2>1, <2>2, <1>3 DEF CrossedOK
    <3> QED BY <3>1, <1>2 DEF Crossed
  <2>3. CASE f = N
    <3>1. PICK u : u = Who(i)
      OBVIOUS
    <3>2. Ending(u)
      BY <2>1, <3>1 DEF Ending, Pending
    <3>3. u \in Unsettled
      BY <3>2, OverIsUnsettled DEF Past
    <3> QED BY <3>1, <3>3, <2>1, <2>3, <1>1, <1>2, <1>3 DEF Crossed
  <2> QED BY <2>2, <2>3, <1>1
<1> QED BY <1>3 DEF CrossedOK

LEMMA CrossedEnd ==
  ASSUME ShapesOK, CrossedOK, NEW s \in Sessions, HostEnd(s)
  PROVE  CrossedOK'
<1>0. Waiting \in Nat
  BY WaitingIsNat
<1>n. PICK C : C = Current(s)
  OBVIOUS
<1>1. Grows("end", C) /\ Known' = Known /\ C \in Known /\ C[1] = s
  BY <1>n, HostEndFrame, Executions DEF EndFrame
<1>2. UNCHANGED crossings
  BY DEF HostEnd, historyVars
<1>3. ASSUME NEW i \in 1..Waiting', NEW f \in Known',
             Tag(i)' = "end", f[1] = Who(i)'[1], Who(i)'[2] < f[2]
      PROVE  Crossed(f)'
  <2>1. CASE i <= Waiting
    <3>1. i \in 1..Waiting /\ Tag(i) = "end" /\ Who(i) = Who(i)'
      BY <1>0, <1>1, <1>3, <2>1 DEF Grows
    <3>2. Crossed(f)
      BY <3>1, <1>1, <1>3 DEF CrossedOK
    <3> QED BY <3>2, <1>2 DEF Crossed
  <2>2. CASE ~(i <= Waiting)
    <3>1. Who(i)' = C
      BY <1>0, <1>1, <2>2 DEF Grows
    <3>2. f \in Known /\ f[1] = s /\ f[2] \in Nat /\ f[2] <= C[2] /\ C[2] \in Nat
      BY <3>1, <1>1, <1>3, <1>n, Executions
    <3> QED BY <3>1, <3>2, <1>3
  <2> QED BY <2>1, <2>2
<1> QED BY <1>3 DEF CrossedOK

LEMMA CrossedHost ==
  ASSUME TrackerAssumption, ShapesOK, HostOK, LineOK, CrossedOK, Host \/ OnEvent
  PROVE  CrossedOK'
<1>0. Waiting \in Nat
  BY WaitingIsNat
<1>1. crossings \subseteq crossings'
  BY HostCalm
<1>2. CASE HostRepeat
  <2>1. PICK x : RepeatFrame(x)
    BY <1>2, HostRepeatFrame
  <2>2. /\ SameHost /\ Grows("end", x) /\ Waiting > 0 /\ Tag(Waiting) = "end" /\ Who(Waiting) = x
    BY <2>1 DEF RepeatFrame
  <2>3. ASSUME NEW i \in 1..Waiting' PROVE \E j \in 1..Waiting : Tag(j) = Tag(i)' /\ Who(j) = Who(i)'
    <3>1. CASE i <= Waiting
      BY <3>1, <2>2, <1>0 DEF Grows
    <3>2. CASE ~(i <= Waiting)
      <4>1. Tag(i)' = "end" /\ Who(i)' = x /\ Waiting \in 1..Waiting
        BY <3>2, <2>2, <1>0 DEF Grows
      <4> QED BY <4>1, <2>2
    <3> QED BY <3>1, <3>2
  <2> QED BY <2>2, <2>3, <1>1, CrossedSame
<1>3. ASSUME SameHost, Stays PROVE CrossedOK'
  BY <1>1, <1>3, CrossedSame DEF Stays
<1>4. CASE OnEvent
  BY <1>3, <1>4, OnEventFrame
<1>5. ASSUME NEW s \in Sessions, HostReply(s) PROVE CrossedOK'
  BY <1>3, <1>5, HostReplyFrame
<1>6. ASSUME NEW s \in Sessions, NEW kind \in Kinds, HostWrite(s, kind) PROVE CrossedOK'
  BY <1>3, <1>6, HostWriteFacts
<1> QED BY <1>2, <1>4, <1>5, <1>6, CrossedStart, CrossedEnd DEF Host

LEMMA CrossedQueue ==
  ASSUME TrackerAssumption, ShapesOK, LineOK, CrossedOK, Queue
  PROVE  CrossedOK'
<1>0. Waiting \in Nat
  BY WaitingIsNat
<1> PICK x : x = Head(tasks).execution
  OBVIOUS
<1>1. SameHost /\ UNCHANGED crossings
  BY QueueFrame
<1>2. ASSUME NEW tag, Takes(tag, x)
      PROVE  \A i \in 1..Waiting' : \E j \in 1..Waiting : Tag(j) = Tag(i)' /\ Who(j) = Who(i)'
  <2>1. ASSUME NEW i \in 1..Waiting' PROVE i + 1 \in 1..Waiting /\ Tag(i + 1) = Tag(i)' /\ Who(i + 1) = Who(i)'
    BY <1>0, <1>2, <2>1 DEF Takes
  <2> QED BY <2>1
<1>3. ASSUME Stays
      PROVE  \A i \in 1..Waiting' : \E j \in 1..Waiting : Tag(j) = Tag(i)' /\ Who(j) = Who(i)'
  BY <1>3 DEF Stays
<1>4. \A i \in 1..Waiting' : \E j \in 1..Waiting : Tag(j) = Tag(i)' /\ Who(j) = Who(i)'
  BY <1>2, <1>3, RunStartFacts, RunEndFacts, SameHostQueue DEF Queue
<1> QED BY <1>1, <1>4, CrossedSame

-----------------------------------------------------------------------------
(* The patch is whole: every change of an open execution is recorded.       *)

\* The two parts of RecordedOK, of one record.
RecordedAll(o) ==
  o.execution[1] \in Roots /\ Clear(o.execution) /\ ~o.concurrent =>
    \A c \in Own(o.execution) : Recorded(o.execution, c)
RootedAll(o, f) ==
  /\ o.execution[1] \in Roots /\ ~o.concurrent
  /\ IsInside(f, o.execution) /\ ~Starting(f) /\ Going(f)
  => Repeated(f) \/ nestedRoots[f[1]] = o.execution[1]

LEMMA RecordedParts ==
  RecordedOK <=> /\ \A o \in Members(open) : RecordedAll(o)
                 /\ \A o \in Members(open) : \A f \in Known : RootedAll(o, f)
BY DEF RecordedOK, RecordedAll, RootedAll

LEMMA RootedCalm ==
  ASSUME ShapesOK, Calm, RecordedOK, UNCHANGED <<open, nestedRoots>>,
         NEW o \in Members(open), NEW f \in Known'
  PROVE  RootedAll(o, f)'
<1>1. PICK e \in Known : e = o.execution
  BY DEF ShapesOK
<1>2. ASSUME e[1] \in Roots, ~o.concurrent, IsInside(f, e)', ~Starting(f)', Going(f)'
      PROVE  Repeated(f)' \/ nestedRoots'[f[1]] = e[1]
  <2>1. f \in Known /\ ~Starting(f) /\ Going(f) /\ (Met(f, e)' <=> Met(f, e))
    BY <1>2 DEF Calm
  <2>2. IsInside(f, e)
    BY <2>1, <1>2 DEF IsInside
  <2>3. Repeated(f) \/ nestedRoots[f[1]] = e[1]
    BY <2>1, <2>2, <1>1, <1>2 DEF RecordedOK
  <2> QED BY <2>1, <2>3 DEF Calm
<1> QED BY <1>1, <1>2 DEF RootedAll

LEMMA RecordedCalm ==
  ASSUME ShapesOK, Calm, RecordedOK, UNCHANGED <<open, nestedRoots, made, writes>>,
         overlaps \subseteq overlaps', crossings \subseteq crossings'
  PROVE  RecordedOK'
<1>1. ASSUME NEW o \in Members(open') PROVE RecordedAll(o)'
  <2>1. PICK e \in Known : e = o.execution
    BY DEF ShapesOK
  <2>2. ASSUME e[1] \in Roots, Clear(e)', ~o.concurrent, NEW c \in Own(e)' PROVE Recorded(e, c)'
    <3>1. Clear(e)
      BY <2>2, ClearKept
    <3>2. \A f \in Known : Met(f, e)' <=> Met(f, e)
      BY DEF Calm
    <3>3. c \in Own(e)
      BY <2>2, <3>2, OwnSame
    <3>4. Recorded(e, c)
      BY <2>1, <2>2, <3>1, <3>3 DEF RecordedOK
    <3>5. PICK g \in Known : g = c[1]
      BY <3>3, OwnIs
    <3>6. (Going(g)' <=> Going(g)) /\ (Starting(g)' <=> Starting(g))
      BY DEF Calm
    <3> QED BY <3>4, <3>5, <3>6 DEF Recorded
  <2> QED BY <2>1, <2>2 DEF RecordedAll
<1>2. \A o \in Members(open') : \A f \in Known' : RootedAll(o, f)'
  BY RootedCalm
<1>3. (\A o \in Members(open) : RecordedAll(o))'
  BY <1>1
<1>4. (\A o \in Members(open) : \A f \in Known : RootedAll(o, f))'
  BY <1>2
<1>5. (RecordedOK <=> /\ \A o \in Members(open) : RecordedAll(o)
                      /\ \A o \in Members(open) : \A f \in Known : RootedAll(o, f))'
  BY RecordedParts, PTL
<1> QED BY <1>3, <1>4, <1>5

LEMMA RecordedWrite ==
  ASSUME TrackerAssumption, ShapesOK, HostOK, LineOK, RecordsOK, RecordedOK,
         NEW s \in Sessions, NEW kind \in Kinds, HostWrite(s, kind)
  PROVE  RecordedOK'
<1> PICK c : c = <<Current(s), kind>>
  OBVIOUS
<1>1. /\ s \in running /\ c[1] = Current(s) /\ c[1] \in Known /\ Live(c[1]) /\ c[1][1] = s
      /\ writes' = [writes EXCEPT ![s] = @ \union {c}]
      /\ UNCHANGED <<open, nestedRoots, overlaps>>
      /\ crossings \subseteq crossings'
  BY HostWriteFacts
<1>2. Calm
  BY HostCalm DEF Host
<1>3. writes \in [Sessions -> SUBSET made]
  BY DEF ShapesOK
<1>4. c \in writes'[s] /\ \A t \in Sessions : writes[t] \subseteq writes'[t]
  BY <1>1, <1>3
<1>5. ~Repeated(c[1]) /\ ~Ending(c[1])
  <2>1. ~Ending(c[1])
    BY <1>1 DEF LineOK
  <2> QED BY <2>1, WaitingIsNat DEF Repeated, Ending, Pending
<1>6. ASSUME NEW o \in Members(open') PROVE RecordedAll(o)'
  <2>1. PICK e \in Known : e = o.execution
    BY <1>1 DEF ShapesOK
  <2>2. ASSUME e[1] \in Roots, Clear(e)', ~o.concurrent, NEW d \in Own(e)' PROVE Recorded(e, d)'
    <3>1. Clear(e)
      BY <1>1, <2>2, ClearKept
    <3>2. /\ Own(e)' \subseteq Own(e) \union {c}
          /\ c \in Own(e)' => e = c[1] \/ IsInside(c[1], e)
      BY <2>2, OwnAtWrite
    <3>3. e[1] \in Sessions
      BY <2>1, Executions
    <3>4. CASE d \in Own(e)
      <4>1. Recorded(e, d)
        BY <1>1, <2>1, <2>2, <3>1, <3>4 DEF RecordedOK
      <4>2. PICK g \in Known : g = d[1]
        BY <3>4, OwnIs
      <4>3. g[1] \in Sessions /\ (Going(g)' <=> Going(g)) /\ (Starting(g)' <=> Starting(g))
        BY <1>2, <4>2, Executions DEF Calm
      <4> QED BY <4>1, <4>2, <4>3, <3>3, <1>1, <1>4 DEF Recorded
    <3>5. CASE d = c /\ e = c[1]
      BY <3>5, <1>1, <1>4 DEF Recorded
    <3>6. CASE d = c /\ IsInside(c[1], e)
      <4>1. PICK f \in Known : f = c[1]
        BY <1>1
      <4>2. f # e /\ IsInside(f, e) /\ Going(f)
        BY <3>6, <4>1, <1>1, MetFacts DEF IsInside, Going
      <4>3. Starting(f) \/ nestedRoots[s] = e[1]
        BY <4>1, <4>2, <1>1, <1>5, <2>1, <2>2 DEF RecordedOK
      <4>4. Going(f)' /\ (Starting(f)' <=> Starting(f))
        BY <4>1, <4>2, <1>2 DEF Calm
      <4> QED BY <4>1, <4>2, <4>3, <4>4, <3>6, <1>1, <1>4 DEF Recorded
    <3> QED BY <3>2, <3>4, <3>5, <3>6, <2>2
  <2> QED BY <2>1, <2>2 DEF RecordedAll
<1>7. (\A o \in Members(open) : RecordedAll(o))'
  BY <1>6
<1>8. (\A o \in Members(open) : \A f \in Known : RootedAll(o, f))'
  BY <1>1, <1>2, RootedCalm
<1>9. (RecordedOK <=> /\ \A o \in Members(open) : RecordedAll(o)
                      /\ \A o \in Members(open) : \A f \in Known : RootedAll(o, f))'
  BY RecordedParts, PTL
<1> QED BY <1>7, <1>8, <1>9

LEMMA RecordedHost ==
  ASSUME TrackerAssumption, ShapesOK, HostOK, LineOK, RecordsOK, RecordedOK, Host \/ OnEvent
  PROVE  RecordedOK'
BY HostCalm, RecordedCalm, RecordedWrite

LEMMA RecordedStart ==
  ASSUME TrackerAssumption, ShapesOK, HostOK, LineOK, OrderOK, RecordsOK, RoomToOpen,
         EarlyOK, RecordedOK, RunStart
  PROVE  RecordedOK'
<1>0. /\ Waiting \in Nat /\ nestedRoots \in [Sessions -> Sessions \union {None}]
      /\ \A o \in Members(open) : o.execution \in Known
  BY WaitingIsNat DEF ShapesOK
<1> PICK x : x = Head(tasks).execution
  OBVIOUS
<1>1. /\ SameHost /\ Takes("start", x) /\ x \in Known /\ x[1] \in Sessions
      /\ UNCHANGED <<made, writes, overlaps, crossings>>
      /\ \/ /\ Parent[x[1]] # None
            /\ nestedRoots' = [nestedRoots EXCEPT ![x[1]] = Parent[x[1]]]
            /\ UNCHANGED open
         \/ /\ \E snapshot \in {Tree, None} : open' = Opened(Head(tasks), snapshot)
            /\ UNCHANGED nestedRoots
  BY RunStartFacts
<1>2. Known' = Known /\ \A e \in Known : Live(e)' <=> Live(e)
  BY <1>1 DEF SameHost
<1>3. /\ Pending("start", x)
      /\ \A t, y : Pending(t, y)' => Pending(t, y)
      /\ \A t, y : Pending(t, y) => Pending(t, y)' \/ (t = "start" /\ y = x)
      /\ \A y : ~Repeated(y)
  BY <1>0, <1>1, TakesFacts
<1>4. /\ Starting(x) /\ \A e \in Known : e # x => (Starting(e)' <=> Starting(e))
      /\ \A e \in Known : Going(e)' <=> Going(e)
      /\ \A e : ~Repeated(e)
  BY <1>2, <1>3 DEF Starting, Going, Ending
<1>5. \A e : Own(e)' = Own(e) /\ (Clear(e)' <=> Clear(e))
  BY <1>1, OwnAtQueue
<1>6. \A f, e : IsInside(f, e)' <=> IsInside(f, e)
  BY <1>1 DEF IsInside, Met
<1>7. ASSUME nestedRoots' = [nestedRoots EXCEPT ![x[1]] = Parent[x[1]]], UNCHANGED open,
             NEW o \in Members(open')
      PROVE  RecordedAll(o)' /\ \A f \in Known' : RootedAll(o, f)'
  <2>1. PICK e \in Known : e = o.execution
    BY <1>0, <1>7
  <2>2. \A f \in Known : /\ f[1] \in Sessions
                         /\ nestedRoots'[f[1]] = IF f[1] = x[1] THEN Parent[f[1]] ELSE nestedRoots[f[1]]
    BY <1>0, <1>1, <1>7, Executions
  <2>3. ASSUME e[1] \in Roots, Clear(e)', ~o.concurrent, NEW c \in Own(e)' PROVE Recorded(e, c)'
    <3>1. c \in Own(e) /\ Recorded(e, c)
      BY <1>5, <1>7, <2>1, <2>3 DEF RecordedOK
    <3>2. PICK g \in Known : g = c[1]
      BY <3>1, OwnIs
    <3>3. g = e \/ Parent[g[1]] = e[1]
      BY <3>1, <3>2, OwnIs
    <3>4. (Going(g)' <=> Going(g)) /\ (g # x => (Starting(g)' <=> Starting(g)))
      BY <1>4
    <3>5. CASE c \in writes[e[1]]
      BY <3>5, <1>1 DEF Recorded
    <3>6. CASE /\ g # e /\ c \in writes[g[1]] /\ Going(g)
               /\ Starting(g) \/ nestedRoots[g[1]] = e[1]
      <4>1. Starting(g)' \/ nestedRoots'[g[1]] = e[1]
        BY <3>3, <3>4, <3>6, <2>2
      <4> QED BY <4>1, <3>2, <3>4, <3>6, <1>1 DEF Recorded
    <3> QED BY <3>1, <3>2, <3>5, <3>6 DEF Recorded
  <2>4. ASSUME NEW f \in Known', e[1] \in Roots, ~o.concurrent, IsInside(f, e)', ~Starting(f)', Going(f)'
        PROVE  nestedRoots'[f[1]] = e[1]
    <3>1. f \in Known /\ IsInside(f, e) /\ Parent[f[1]] = e[1] /\ Going(f)
      BY <1>2, <1>4, <1>6, <2>4 DEF IsInside
    <3>2. f[1] # x[1] => ~Starting(f) /\ nestedRoots[f[1]] = e[1]
      BY <3>1, <2>1, <2>4, <1>4, <1>7 DEF RecordedOK
    <3> QED BY <3>1, <3>2, <2>2
  <2> QED BY <2>1, <2>3, <2>4 DEF RecordedAll, RootedAll
<1>8. ASSUME NEW snapshot \in {Tree, None}, open' = Opened(Head(tasks), snapshot),
             NEW o \in Members(open')
      PROVE  RecordedAll(o)' /\ \A f \in Known' : RootedAll(o, f)'
  <2>1. OpenedOrFlagged(x, snapshot, o)
    BY <1>8, OpenedRecords
  <2>2. CASE o.concurrent = TRUE
    BY <2>2 DEF RecordedAll, RootedAll
  <2>3. CASE o.execution = x
    <3>1. ASSUME x[1] \in Roots, Clear(x)', NEW c \in Own(x)' PROVE FALSE
      <4>1. ~Early(x) /\ c \in Own(x)
        BY <3>1, <1>5 DEF Clear
      <4> QED BY <3>1, <4>1, <1>1, <1>4 DEF EarlyOK
    <3>2. ASSUME NEW f \in Known', IsInside(f, x)', ~Starting(f)' PROVE FALSE
      <4>1. f \in Known /\ IsInside(f, x) /\ Met(x, f) /\ f[1] # x[1]
        BY <3>2, <1>2, <1>6, MetFacts DEF IsInside
      <4>2. Starting(f)
        BY <4>1, <1>1, <1>4 DEF OrderOK
      <4> QED BY <4>1, <4>2, <3>2, <1>4
    <3> QED BY <2>3, <3>1, <3>2 DEF RecordedAll, RootedAll
  <2> QED BY <2>1, <2>2, <2>3 DEF OpenedOrFlagged
<1>9. \A o \in Members(open') : RecordedAll(o)' /\ \A f \in Known' : RootedAll(o, f)'
  BY <1>1, <1>7, <1>8
<1>10. (\A o \in Members(open) : RecordedAll(o))' /\ (\A o \in Members(open) : \A f \in Known : RootedAll(o, f))'
  BY <1>9
<1>11. (RecordedOK <=> /\ \A o \in Members(open) : RecordedAll(o)
                       /\ \A o \in Members(open) : \A f \in Known : RootedAll(o, f))'
  BY RecordedParts, PTL
<1> QED BY <1>10, <1>11

LEMMA RecordedEnd ==
  ASSUME TrackerAssumption, ShapesOK, HostOK, LineOK, RecordsOK, CrossedOK, RecordedOK, RunDiscard \/ RunFinish
  PROVE  RecordedOK'
<1>0. /\ Waiting \in Nat /\ nestedRoots \in [Sessions -> Sessions \union {None}]
      /\ writes \in [Sessions -> SUBSET made]
      /\ \A o \in Members(open) : o.execution \in Known
  BY WaitingIsNat DEF ShapesOK
<1> PICK x : x = Head(tasks).execution
  OBVIOUS
<1>1. /\ SameHost /\ Takes("end", x) /\ x \in Known /\ x[1] \in Sessions
      /\ UNCHANGED <<made, overlaps, crossings>>
      /\ \/ nestedRoots[x[1]] # None /\ CloseNested(x[1]) /\ UNCHANGED open
         \/ /\ nestedRoots[x[1]] = None /\ open' = WithoutOpen(x[1])
            /\ writes' = [writes EXCEPT ![x[1]] = {}] /\ UNCHANGED nestedRoots
  BY RunEndFacts
<1>2. Known' = Known /\ \A e \in Known : Live(e)' <=> Live(e)
  BY <1>1 DEF SameHost
<1>3. /\ \A t, y : Pending(t, y)' => Pending(t, y)
      /\ \A t, y : Pending(t, y) => Pending(t, y)' \/ (t = "end" /\ y = x)
      /\ \A y : y # x => ~Repeated(y)
  BY <1>0, <1>1, TakesFacts
<1>4. /\ \A e \in Known : (Starting(e)' <=> Starting(e)) /\ (Going(e)' => Going(e))
      /\ \A e \in Known : e # x => (Going(e)' <=> Going(e)) /\ ~Repeated(e)
  BY <1>1, <1>2, <1>3 DEF Starting, Going, Ending
<1>5. /\ ~Live(x) /\ ~Starting(x)
      /\ \A e \in Known : e[1] = x[1] /\ ~Starting(e) /\ Going(e) => e = x
      /\ \A e \in Known : e[1] = x[1] /\ Starting(e) => x[2] < e[2]
      /\ Ending(x)' => Repeated(x)'
  BY <1>1, HeadEnd
<1>6. Going(x)' => Repeated(x)'
  BY <1>1, <1>2, <1>5 DEF Going
<1>7. \A e : Own(e)' = Own(e) /\ (Clear(e)' <=> Clear(e))
  BY <1>1, OwnAtQueue
<1>8. \A f, e : IsInside(f, e)' <=> IsInside(f, e)
  BY <1>1 DEF IsInside, Met
<1>9. /\ Members(open') \subseteq Members(open)
      /\ \A o \in Members(open') : o.execution[1] # x[1]
  BY LeftRecords
<1>10. /\ \A t \in Sessions \ {x[1]} : writes[t] \subseteq writes'[t] /\ nestedRoots'[t] = nestedRoots[t]
       /\ nestedRoots[x[1]] # None => nestedRoots[x[1]] = Parent[x[1]] /\ writes[x[1]] \subseteq writes'[Parent[x[1]]]
  <2>1. CASE nestedRoots[x[1]] # None /\ CloseNested(x[1])
    BY <2>1, <1>1, CloseNestedFacts
  <2>2. CASE /\ nestedRoots[x[1]] = None
             /\ writes' = [writes EXCEPT ![x[1]] = {}] /\ UNCHANGED nestedRoots
    BY <2>2, <1>0, <1>1
  <2> QED BY <2>1, <2>2, <1>1
<1>11. ASSUME NEW o \in Members(open')
       PROVE  RecordedAll(o)' /\ \A f \in Known' : RootedAll(o, f)'
  <2>1. PICK e \in Known : e = o.execution /\ e[1] # x[1] /\ e[1] \in Sessions
    BY <1>0, <1>9, Executions
  <2>2. ASSUME e[1] \in Roots, Clear(e)', ~o.concurrent, NEW c \in Own(e)' PROVE Recorded(e, c)'
    <3>1. c \in Own(e) /\ Recorded(e, c) /\ Clear(e)
      BY <1>7, <1>9, <2>1, <2>2 DEF RecordedOK
    <3>2. PICK g \in Known : g = c[1] /\ g[1] \in Sessions
      BY <3>1, OwnIs, Executions
    <3>3. CASE c \in writes[e[1]]
      BY <3>3, <2>1, <1>10 DEF Recorded
    <3>4. CASE /\ g # e /\ c \in writes[g[1]] /\ Going(g)
               /\ Starting(g) \/ nestedRoots[g[1]] = e[1]
      <4>1. Parent[g[1]] = e[1] /\ Met(g, e)
        BY <3>1, <3>2, <3>4, OwnIs
      <4>2. CASE g[1] # x[1]
        <5>1. c \in writes'[g[1]] /\ nestedRoots'[g[1]] = nestedRoots[g[1]]
          BY <4>2, <3>2, <3>4, <1>10
        <5>2. Going(g)' /\ (Starting(g)' <=> Starting(g))
          BY <4>2, <3>4, <1>4
        <5> QED BY <5>1, <5>2, <3>2, <3>4 DEF Recorded
      <4>3. CASE g[1] = x[1] /\ nestedRoots[x[1]] # None
        <5>1. c \in writes'[e[1]]
          BY <4>1, <4>3, <3>4, <1>10
        <5> QED BY <5>1 DEF Recorded
      <4>4. CASE g[1] = x[1] /\ nestedRoots[x[1]] = None
        <5>1. Starting(g)
          BY <4>4, <3>4, <2>1, TrackerAssumption
        <5>2. x[2] < g[2]
          BY <5>1, <4>4, <1>5
        <5>3. Tag(1) = "end" /\ Who(1) = x /\ 1 \in 1..Waiting
          BY <1>0, <1>1 DEF Takes
        <5>4. Crossed(g)
          BY <5>2, <5>3, <4>4 DEF CrossedOK
        <5>5. g \in Inside(e)
          <6>1. {e, g} = {g, e}
            OBVIOUS
          <6> QED BY <6>1, <4>1 DEF Inside, Met, SessionOf
        <5> QED BY <5>4, <5>5, <3>1 DEF Clear
      <4> QED BY <4>2, <4>3, <4>4
    <3> QED BY <3>1, <3>2, <3>3, <3>4 DEF Recorded
  <2>3. ASSUME NEW f \in Known', e[1] \in Roots, ~o.concurrent, IsInside(f, e)', ~Starting(f)', Going(f)'
        PROVE  Repeated(f)' \/ nestedRoots'[f[1]] = e[1]
    <3>1. CASE f = x
      BY <3>1, <2>3, <1>6
    <3>2. CASE f # x
      <4>1. f \in Known /\ IsInside(f, e) /\ ~Starting(f) /\ Going(f) /\ ~Repeated(f) /\ f[1] \in Sessions
        BY <3>2, <2>3, <1>2, <1>4, <1>8, Executions
      <4>2. nestedRoots[f[1]] = e[1]
        BY <4>1, <2>1, <2>3, <1>9 DEF RecordedOK
      <4>3. f[1] # x[1]
        BY <3>2, <4>1, <1>5
      <4> QED BY <4>1, <4>2, <4>3, <1>10
    <3> QED BY <3>1, <3>2
  <2> QED BY <2>1, <2>2, <2>3 DEF RecordedAll, RootedAll
<1>12. (\A o \in Members(open) : RecordedAll(o))' /\ (\A o \in Members(open) : \A f \in Known : RootedAll(o, f))'
  BY <1>11
<1>13. (RecordedOK <=> /\ \A o \in Members(open) : RecordedAll(o)
                       /\ \A o \in Members(open) : \A f \in Known : RootedAll(o, f))'
  BY RecordedParts, PTL
<1> QED BY <1>12, <1>13

LEMMA RecordedQueue ==
  ASSUME TrackerAssumption, ShapesOK, HostOK, LineOK, OrderOK, RecordsOK, RoomToOpen,
         EarlyOK, CrossedOK, RecordedOK, Queue
  PROVE  RecordedOK'
<1>1. CASE ReadMessages \/ ReadTree
  <2>1. /\ SameHost /\ Stays
        /\ UNCHANGED <<made, open, nestedRoots, writes, overlaps, crossings>>
    BY <1>1, SameHostQueue
  <2> QED BY <2>1, CalmStays, RecordedCalm
<1> QED BY <1>1, RecordedStart, RecordedEnd DEF Queue

-----------------------------------------------------------------------------
(* The patch is whole: the finish in progress, and the attributed turns.    *)

LEMMA WorkIsOver ==
  ASSUME TrackerAssumption, ShapesOK, HostOK, NEW e, Alone(e)
  PROVE  e \in Known /\ e[1] \in Roots /\ ~Live(e)
BY AloneIsRoot DEF Alone

LEMMA WorkHost ==
  ASSUME TrackerAssumption, ShapesOK, HostOK, LineOK, AloneOK, WorkOK, PatchIsWhole, Host \/ OnEvent
  PROVE  WorkOK' /\ PatchIsWhole'
<1>1. UNCHANGED <<work, attributed>> /\ overlaps \subseteq overlaps' /\ crossings \subseteq crossings'
  BY HostCalm
<1>2. ASSUME NEW e, Alone(e) PROVE Own(e)' = Own(e) /\ (Clear(e)' => Clear(e)) /\ (Early(e) => Early(e)')
  <2>1. Own(e)' = Own(e)
    BY <1>2, WorkIsOver, OwnOver
  <2>2. Clear(e)' => Clear(e)
    BY <1>1, ClearKept
  <2> QED BY <2>1, <2>2, <1>1 DEF Early
<1>3. WorkOK'
  <2>1. ASSUME work' # None
        PROVE  /\ ~Early(work.execution)' /\ work'.snapshot # None
                  => Own(work.execution)' \intersect work'.snapshot = {}
               /\ Clear(work.execution)' => Own(work.execution)' \subseteq work'.written
    <3>1. PICK e : e = work.execution
      OBVIOUS
    <3>2. Alone(e) /\ work # None
      BY <1>1, <2>1, <3>1 DEF AloneOK
    <3>3. Own(e)' = Own(e) /\ (Clear(e)' => Clear(e)) /\ (Early(e) => Early(e)')
      BY <3>2, <1>2
    <3>4. /\ ~Early(e) /\ work.snapshot # None => Own(e) \intersect work.snapshot = {}
          /\ Clear(e) => Own(e) \subseteq work.written
      BY <3>1, <3>2 DEF WorkOK
    <3>5. work'.execution = e
      BY <1>1, <3>1
    <3> QED BY <3>3, <3>4, <3>5, <1>1
  <2> QED BY <2>1 DEF WorkOK
<1>4. ASSUME NEW t \in Attributed', Clear(t.execution)' PROVE Own(t.execution)' \subseteq t.files
  <2>1. t \in Attributed
    BY <1>1 DEF Attributed, Elements
  <2>2. PICK e : e = t.execution
    OBVIOUS
  <2>3. Alone(e)
    BY <2>1, <2>2 DEF AloneOK
  <2>4. Own(e)' = Own(e) /\ Clear(e)
    BY <2>2, <2>3, <1>2, <1>4
  <2>5. Own(e) \subseteq t.files
    BY <2>1, <2>2, <2>4 DEF PatchIsWhole, Clear, Early, Crossed
  <2> QED BY <2>2, <2>4, <2>5
<1> QED BY <1>3, <1>4 DEF PatchIsWhole, Clear, Early, Crossed

\* What the finish of x takes with it.
LEMMA WorkTaken ==
  ASSUME TrackerAssumption, ShapesOK, HostOK, LineOK, OrderOK, RecordsOK, EarlyOK, RecordedOK,
         RunDiscard \/ RunFinish, NEW x, x = Head(tasks).execution, Alone(x),
         NEW o \in Members(open), o.execution = x, ~o.concurrent
  PROVE  /\ ~Early(x) /\ o.snapshot # None => Own(x) \intersect o.snapshot = {}
         /\ Clear(x) => Own(x) \subseteq writes[x[1]]
<1>1. SameHost /\ Takes("end", x) /\ x \in Known
  BY RunEndFacts
<1>2. x[1] \in Roots
  BY AloneIsRoot
<1>3. ~Early(x) /\ o.snapshot # None => Own(x) \intersect o.snapshot = {}
  BY <1>2 DEF EarlyOK
<1>4. ASSUME Clear(x), NEW c \in Own(x) PROVE c \in writes[x[1]]
  <2>1. Recorded(x, c)
    BY <1>2, <1>4 DEF RecordedOK
  <2>2. ASSUME c[1] # x, Going(c[1]) PROVE FALSE
    <3>1. PICK g \in Known : g = c[1]
      BY <1>4, OwnIs
    <3>2. IsInside(g, x) /\ Met(g, x)
      BY <1>4, <2>2, <3>1, OwnIs DEF IsInside
    <3>3. ~Ending(g)
      BY <3>2, <1>1, OrderTakes
    <3>4. ~Live(x)
      BY <1>1, HeadEnd
    <3>5. ~Live(g)
      BY <3>2, <3>4, <1>1 DEF HostOK
    <3> QED BY <2>2, <3>1, <3>3, <3>5 DEF Going
  <2> QED BY <2>1, <2>2 DEF Recorded
<1> QED BY <1>3, <1>4

LEMMA WorkQueue ==
  ASSUME TrackerAssumption, ShapesOK, HostOK, LineOK, OrderOK, RecordsOK, AloneOK, ReplyOK,
         EarlyOK, RecordedOK, WorkOK, PatchIsWhole, AloneOK', Queue
  PROVE  WorkOK' /\ PatchIsWhole'
<1> PICK x : x = Head(tasks).execution
  OBVIOUS
<1>1. SameHost /\ UNCHANGED <<made, overlaps, crossings>>
  BY QueueFrame
<1>2. \A e : Own(e)' = Own(e) /\ (Early(e)' <=> Early(e)) /\ (Clear(e)' <=> Clear(e))
  BY <1>1, OwnAtQueue
<1>3. ASSUME UNCHANGED attributed PROVE PatchIsWhole'
  <2>1. ASSUME NEW t \in Attributed', Clear(t.execution)' PROVE Own(t.execution)' \subseteq t.files
    <3>1. t \in Attributed
      BY <1>3 DEF Attributed, Elements
    <3>2. PICK e : e = t.execution
      OBVIOUS
    <3>3. Clear(e) /\ Own(e)' = Own(e)
      BY <3>2, <2>1, <1>2
    <3>4. Own(e) \subseteq t.files
      BY <3>1, <3>2, <3>3 DEF PatchIsWhole, Clear, Early, Crossed
    <3> QED BY <3>2, <3>3, <3>4
  <2> QED BY <2>1 DEF PatchIsWhole, Clear, Early, Crossed
<1>4. ASSUME work' # None =>
               LET e == work'.execution
               IN /\ ~Early(e) /\ work'.snapshot # None => Own(e) \intersect work'.snapshot = {}
                  /\ Clear(e) => Own(e) \subseteq work'.written
      PROVE  WorkOK'
  <2>1. ASSUME work' # None
        PROVE  /\ ~Early(work.execution)' /\ work'.snapshot # None
                  => Own(work.execution)' \intersect work'.snapshot = {}
               /\ Clear(work.execution)' => Own(work.execution)' \subseteq work'.written
    <3>1. PICK e : e = work'.execution
      OBVIOUS
    <3>2. Own(e)' = Own(e) /\ (Early(e)' <=> Early(e)) /\ (Clear(e)' <=> Clear(e))
      BY <1>2
    <3>3. /\ ~Early(e) /\ work'.snapshot # None => Own(e) \intersect work'.snapshot = {}
          /\ Clear(e) => Own(e) \subseteq work'.written
      BY <3>1, <2>1, <1>4
    <3> QED BY <3>1, <3>2, <3>3
  <2> QED BY <2>1 DEF WorkOK
<1>5. ASSUME work' # None => /\ work # None /\ work'.execution = work.execution
                             /\ work'.snapshot = work.snapshot /\ work'.written = work.written
      PROVE  WorkOK'
  BY <1>4, <1>5 DEF WorkOK
<1>6. CASE RunStart
  <2>1. UNCHANGED <<work, attributed>>
    BY <1>6, RunStartFacts
  <2> QED BY <2>1, <1>3, <1>5
<1>7. CASE RunDiscard \/ RunFinish
  <2>1. UNCHANGED attributed
    BY <1>7, RunEndFacts
  <2>2. ASSUME work' # None, work' = work PROVE WorkOK'
    BY <2>2, <1>5
  <2>3. ASSUME work' # None, NEW o \in Members(open), o.execution = x, ~o.concurrent,
               work'.execution = x, work'.snapshot = o.snapshot, work'.written = writes[x[1]]
        PROVE  WorkOK'
    <3>1. PICK e : e = work'.execution
      OBVIOUS
    <3>2. Alone(e)'
      BY <2>3, <3>1 DEF AloneOK
    <3>3. Alone(e)
      BY <3>2, <1>1, SameAlone
    <3>4. /\ ~Early(x) /\ o.snapshot # None => Own(x) \intersect o.snapshot = {}
          /\ Clear(x) => Own(x) \subseteq writes[x[1]]
      BY <2>3, <3>1, <3>3, <1>7, WorkTaken
    <3> QED BY <2>3, <3>4, <1>4
  <2>4. ASSUME work' = None PROVE WorkOK'
    BY <2>4, <1>5
  <2>5. WorkOK'
    BY <2>2, <2>3, <2>4, <1>7, TakenRecord
  <2> QED BY <2>1, <2>5, <1>3
<1>8. CASE ReadMessages
  <2>1. /\ UNCHANGED attributed /\ work # None
        /\ work' # None => /\ work'.execution = work.execution
                           /\ work'.snapshot = work.snapshot /\ work'.written = work.written
    BY <1>8, ReadMessagesFacts
  <2> QED BY <2>1, <1>3, <1>5
<1>9. CASE ReadTree
  <2>1. /\ work # None /\ work.reply # None /\ work' = None
        /\ \/ UNCHANGED attributed
           \/ /\ work.written \subseteq (work.snapshot \union Tree)
              /\ Attributed' = Attributed \union {Turn}
    BY <1>9, ReadTreeFacts DEF ReplyOK
  <2>2. WorkOK'
    BY <2>1, <1>5
  <2>3. CASE work.written \subseteq (work.snapshot \union Tree) /\ Attributed' = Attributed \union {Turn}
    <3>1. PICK e : e = work.execution
      OBVIOUS
    <3>2. Turn.execution = e /\ Turn.files = Tree \ work.snapshot
      BY <3>1 DEF Turn
    <3>3. Clear(e) => Own(e) \subseteq Tree \ work.snapshot
      <4>1. work.snapshot # None
        BY <2>1 DEF ReplyOK
      <4>2. ASSUME Clear(e) PROVE Own(e) \subseteq work.written /\ Own(e) \intersect work.snapshot = {}
        BY <4>1, <4>2, <2>1, <3>1 DEF WorkOK, Clear
      <4> QED BY <4>2, <2>3
    <3>4. ASSUME NEW t \in Attributed', Clear(t.execution)' PROVE Own(t.execution)' \subseteq t.files
      <4>1. PICK f : f = t.execution
        OBVIOUS
      <4>2. Clear(f) /\ Own(f)' = Own(f)
        BY <4>1, <3>4, <1>2
      <4>3. CASE t = Turn
        BY <4>1, <4>2, <4>3, <3>2, <3>3
      <4>4. CASE t \in Attributed
        <5>1. Own(f) \subseteq t.files
          BY <4>1, <4>2, <4>4 DEF PatchIsWhole, Clear, Early, Crossed
        <5> QED BY <5>1, <4>1, <4>2
      <4> QED BY <4>3, <4>4, <2>3, <3>4
    <3>5. PatchIsWhole'
      BY <3>4 DEF PatchIsWhole, Clear, Early, Crossed
    <3> QED BY <3>5, <2>2
  <2> QED BY <2>1, <2>2, <2>3, <1>3
<1> QED BY <1>6, <1>7, <1>8, <1>9 DEF Queue

-----------------------------------------------------------------------------
(* The invariant is inductive.                                              *)

LEMMA LineHost ==
  ASSUME TrackerAssumption, ShapesOK, HostOK, LineOK, OrderOK, Host \/ OnEvent
  PROVE  HostOK' /\ LineOK' /\ OrderOK'
<1>1. ASSUME NEW s \in Sessions, HostStart(s) PROVE HostOK' /\ LineOK' /\ OrderOK'
  <2>1. StartFrame(s)
    BY <1>1, HostStartFrame
  <2> QED BY <2>1, HostAtStart, LineStart, OrderStart
<1>2. ASSUME NEW s \in Sessions, HostEnd(s) PROVE HostOK' /\ LineOK' /\ OrderOK'
  <2>1. EndFrame(s)
    BY <1>2, HostEndFrame
  <2> QED BY <2>1, HostAtEnd, LineEnd, OrderEnd
<1>3. ASSUME HostRepeat PROVE HostOK' /\ LineOK' /\ OrderOK'
  <2>1. PICK x : RepeatFrame(x)
    BY <1>3, HostRepeatFrame
  <2>2. SameHost
    BY <2>1 DEF RepeatFrame
  <2> QED BY <2>1, <2>2, HostSame, LineRepeat, OrderRepeat
<1>4. ASSUME SameHost, Stays PROVE HostOK' /\ LineOK' /\ OrderOK'
  BY <1>4, HostSame, LineStays, OrderStays
<1>5. ASSUME NEW s \in Sessions, HostReply(s) PROVE HostOK' /\ LineOK' /\ OrderOK'
  BY <1>4, <1>5, HostReplyFrame
<1>6. ASSUME NEW s \in Sessions, NEW kind \in Kinds, HostWrite(s, kind) PROVE HostOK' /\ LineOK' /\ OrderOK'
  BY <1>4, <1>6, HostWriteFacts
<1>7. ASSUME OnEvent PROVE HostOK' /\ LineOK' /\ OrderOK'
  BY <1>4, <1>7, OnEventFrame
<1> QED BY <1>1, <1>2, <1>3, <1>5, <1>6, <1>7 DEF Host

LEMMA LineQueue ==
  ASSUME TrackerAssumption, ShapesOK, HostOK, LineOK, OrderOK, Queue
  PROVE  HostOK' /\ LineOK' /\ OrderOK'
<1> PICK x : x = Head(tasks).execution
  OBVIOUS
<1>1. SameHost /\ (Stays \/ \E tag : Takes(tag, x))
  BY RunStartFacts, RunEndFacts, SameHostQueue DEF Queue
<1> QED BY <1>1, HostSame, LineStays, LineTakes, OrderStays, OrderTakes

LEMMA HostStep ==
  ASSUME TrackerAssumption, IInv, Host \/ OnEvent
  PROVE  IInv'
<1>1. /\ ShapesOK /\ HostOK /\ LineOK /\ OrderOK /\ RecordsOK /\ AloneOK /\ LateOK /\ ReplyOK /\ PatchOK
      /\ EarlyOK /\ RecordedOK /\ CrossedOK /\ WorkOK /\ PatchIsWhole
  BY DEF IInv, WholeOK
<1>2. Calm /\ UNCHANGED <<open, nestedRoots, work, processed, attributed>> /\ crossings \subseteq crossings'
  BY <1>1, HostCalm
<1>3. ShapesOK' /\ HostOK' /\ LineOK' /\ OrderOK'
  BY <1>1, ShapesHost, LineHost
<1>4. RecordsOK' /\ AloneOK' /\ LateOK' /\ ReplyOK'
  BY <1>1, <1>2, RecordsCalm, AloneCalm, LateHost, ReplyKept
<1>5. PatchOK' /\ EarlyOK' /\ RecordedOK' /\ CrossedOK' /\ WorkOK' /\ PatchIsWhole'
  BY <1>1, PatchHost, EarlyHost, RecordedHost, CrossedHost, WorkHost
<1> QED BY <1>3, <1>4, <1>5 DEF IInv, WholeOK

LEMMA QueueStep ==
  ASSUME TrackerAssumption, IInv, RoomToOpen, Queue
  PROVE  IInv'
<1>1. /\ ShapesOK /\ HostOK /\ LineOK /\ OrderOK /\ RecordsOK /\ AloneOK /\ LateOK /\ ReplyOK /\ PatchOK
      /\ EarlyOK /\ RecordedOK /\ CrossedOK /\ WorkOK /\ PatchIsWhole
  BY DEF IInv, WholeOK
<1>2. ShapesOK' /\ HostOK' /\ LineOK' /\ OrderOK'
  BY <1>1, ShapesQueue, LineQueue
<1>3. RecordsOK'
  <2>1. CASE RunStart
    BY <2>1, <1>1, RecordsStart
  <2>2. CASE RunDiscard \/ RunFinish
    BY <2>2, <1>1, RecordsEnd
  <2>3. CASE ReadMessages \/ ReadTree
    BY <2>3, <1>1, SameHostQueue, CalmStays, RecordsCalm
  <2> QED BY <2>1, <2>2, <2>3 DEF Queue
<1>4. AloneOK'
  BY <1>1, AloneQueue DEF ReplyOK
<1>5. LateOK' /\ ReplyOK' /\ PatchOK'
  BY <1>1, LateQueue, ReplyQueue, PatchQueue
<1>6. EarlyOK' /\ RecordedOK' /\ CrossedOK' /\ WorkOK' /\ PatchIsWhole'
  BY <1>1, <1>4, EarlyQueue, RecordedQueue, CrossedQueue, WorkQueue
<1> QED BY <1>2, <1>3, <1>4, <1>5, <1>6 DEF IInv, WholeOK

LEMMA StutterStep ==
  ASSUME IInv, UNCHANGED vars
  PROVE  IInv'
<1>0. /\ ShapesOK /\ HostOK /\ LineOK /\ OrderOK /\ RecordsOK /\ AloneOK /\ LateOK /\ ReplyOK /\ PatchOK
      /\ EarlyOK /\ RecordedOK /\ CrossedOK /\ WorkOK /\ PatchIsWhole /\ Waiting \in Nat
  BY WaitingIsNat DEF IInv, WholeOK
<1>1. UNCHANGED <<context, running, made, events, open, nestedRoots, writes, processed, tasks, work,
                  attributed, overlaps, crossings>>
  BY DEF vars
<1>2. SameHost /\ Stays /\ Attributed' = Attributed
  BY <1>1, SameHostOf DEF Stays, Waiting, Tag, Who, Item, Attributed, Elements
<1>3. Calm /\ \A t, e : Pending(t, e)' <=> Pending(t, e)
  BY <1>0, <1>2, CalmStays, StaysFacts
<1>4. ShapesOK'
  BY <1>0, <1>1 DEF ShapesOK, Known
<1>5. HostOK' /\ LineOK' /\ OrderOK'
  BY <1>0, <1>2, HostSame, LineStays, OrderStays
<1>6. RecordsOK' /\ AloneOK' /\ ReplyOK'
  BY <1>0, <1>1, <1>3, RecordsCalm, AloneCalm, ReplyKept
<1>7. LateOK'
  BY <1>0, <1>1, <1>2, <1>3, LateSame DEF Past, Ending
<1>8. PatchOK'
  BY <1>0, <1>1 DEF PatchOK, SnapshotOK, PatchIsOwn, Late, Met, Own, Attributed, Tree, Elements
<1>9. \A e : Own(e)' = Own(e) /\ (Early(e)' <=> Early(e)) /\ (Clear(e)' <=> Clear(e)) /\ (Starting(e)' <=> Starting(e))
  BY <1>1, <1>3, OwnAtQueue DEF Starting
<1>10. RecordedOK' /\ CrossedOK'
  BY <1>0, <1>1, <1>2, <1>3, RecordedCalm, CrossedSame DEF Stays
<1>11. EarlyOK'
  BY <1>0, <1>1, <1>2, <1>9 DEF EarlyOK, SameHost
<1>12. WorkOK'
  BY <1>0, <1>1, <1>9 DEF WorkOK
<1>13. PatchIsWhole'
  BY <1>0, <1>1 DEF PatchIsWhole, Attributed, Elements, Inside, Own
<1> QED BY <1>4, <1>5, <1>6, <1>7, <1>8, <1>10, <1>11, <1>12, <1>13 DEF IInv, WholeOK

LEMMA InitIInv ==
  ASSUME TrackerAssumption, Init
  PROVE  IInv
<1>1. /\ IsList(tasks) /\ IsList(events) /\ IsList(open) /\ IsList(attributed)
      /\ Waiting = 0 /\ Known = {} /\ Members(open) = {} /\ Attributed = {}
  <2>2. IsList(<<>>) /\ Members(<<>>) = {} /\ Len(<<>>) = 0 /\ DOMAIN <<>> = {}
    BY EmptyList
  <2>3. \A s \in Sessions : Len(context[s]) = 0
    BY DEF Init
  <2>4. Known = {}
    BY <2>3 DEF Known
  <2> QED BY <2>2, <2>4 DEF Init, Waiting, Attributed, Elements
<1>2. context \in [Sessions -> Seq(Nat)]
  BY DEF Init
<1>3. ShapesOK
  BY <1>1, <1>2 DEF Init, ShapesOK
<1>4. HostOK /\ LineOK /\ OrderOK
  BY <1>1 DEF Init, HostOK, LineOK, OrderOK
<1>5. RecordsOK /\ AloneOK /\ LateOK /\ ReplyOK /\ PatchOK
  BY <1>1 DEF Init, RecordsOK, OneEach, AloneOK, LateOK, ReplyOK, PatchOK, PatchIsOwn
<1>6. WholeOK
  BY <1>1 DEF Init, WholeOK, EarlyOK, RecordedOK, CrossedOK, WorkOK, PatchIsWhole
<1> QED BY <1>3, <1>4, <1>5, <1>6 DEF IInv

LEMMA NextIInv ==
  ASSUME TrackerAssumption, IInv, RoomToOpen, [Next]_vars
  PROVE  IInv'
BY HostStep, QueueStep, StutterStep DEF Next

\* The invariant holds as long as the tracker has room for the open executions.
THEOREM Invariance == Spec /\ []RoomToOpen => []IInv
<1>1. Init => IInv
  BY TrackerAssumption, InitIInv
<1>2. IInv /\ RoomToOpen /\ [Next]_vars => IInv'
  BY TrackerAssumption, NextIInv
<1> QED BY <1>1, <1>2, PTL DEF Spec

LEMMA IInvImpliesOverlapRefused == IInv => OverlapRefused
<1> SUFFICES ASSUME IInv, NEW t \in Attributed, NEW pair \in overlaps, t.execution \in pair,
                    NEW e \in pair \ {t.execution}
             PROVE  e[1] \notin Roots
  BY DEF OverlapRefused, SessionOf
<1>1. AloneOK /\ HostOK
  BY DEF IInv
<1>2. PICK a, b \in Known : pair = {a, b}
  BY <1>1 DEF HostOK
<1>3. e \in Known /\ pair = {t.execution, e}
  BY <1>2
<1>4. Met(t.execution, e)
  BY <1>3 DEF Met
<1> QED BY <1>1, <1>3, <1>4 DEF AloneOK, Alone

LEMMA IInvImpliesAttributionExact == IInv => AttributionExact
<1> SUFFICES ASSUME IInv PROVE AttributionExact
  OBVIOUS
<1>1. ReplyIsOwn
  BY DEF IInv, ReplyOK, ReplyIsOwn, Late
<1> QED BY <1>1 DEF IInv, PatchOK, WholeOK, AttributionExact

\* A turn is never attributed to an execution that ran while an execution of
\* another root session did, as long as the tracker has room for the open
\* executions (turn-tracker.ts: every open execution and a new one flag each other).
THEOREM OverlapIsRefused == Spec /\ []RoomToOpen => []OverlapRefused
BY Invariance, IInvImpliesOverlapRefused, PTL

\* An attributed turn is named by a reply of its own execution and reviewed once,
\* and its patch is all its execution changed and nothing else, up to the ways the
\* host overtakes the plugin; as long as the tracker has room for the open executions.
THEOREM AttributionIsExact == Spec /\ []RoomToOpen => []AttributionExact
BY Invariance, IInvImpliesAttributionExact, PTL

-----------------------------------------------------------------------------
(* A tracker with as many places as there are sessions always has room.     *)

FewSessions == IsFiniteSet(Sessions) /\ Cardinality(Sessions) <= MaxOpenSnapshots

\* A function into a smaller set takes some value twice.
LEMMA SharedValue ==
  ASSUME NEW S, NEW T, IsFiniteSet(S), IsFiniteSet(T), NEW f \in [S -> T],
         Cardinality(T) < Cardinality(S)
  PROVE  \E i, j \in S : i # j /\ f[i] = f[j]
BY FS_PigeonHole

LEMMA CountedTo ==
  ASSUME NEW n \in Nat
  PROVE  IsFiniteSet(1..n) /\ Cardinality(1..n) = n
<1>1. IsFiniteSet(1..n) /\ Cardinality(1..n) = IF 1 > n THEN 0 ELSE n - 1 + 1
  BY FS_Interval
<1> QED BY <1>1

\* Executions of as many sessions, one session left out, are fewer than the sessions.
LEMMA FewerThanSessions ==
  ASSUME FewSessions, NEW s \in Sessions, NEW list, Len(list) \in Nat,
         \A i \in 1..Len(list) : list[i].execution[1] \in Sessions \ {s},
         \A i, j \in 1..Len(list) :
           list[i].execution[1] = list[j].execution[1] => i = j
  PROVE  Cardinality(Sessions) \in Nat /\ Len(list) < Cardinality(Sessions)
<1> DEFINE S == 1..Len(list)
           T == Sessions \ {s}
           f == [i \in S |-> list[i].execution[1]]
<1>1. IsFiniteSet(T) /\ Cardinality(T) = Cardinality(Sessions) - 1
  BY FS_RemoveElement DEF FewSessions
<1>2. IsFiniteSet(S) /\ Cardinality(S) = Len(list)
  BY CountedTo
<1>3. f \in [S -> T] /\ \A i, j \in S : f[i] = f[j] => i = j
  OBVIOUS
<1>4. Cardinality(Sessions) \in Nat
  BY FS_CardinalityType DEF FewSessions
<1> HIDE DEF S, T, f
<1>5. ASSUME Cardinality(T) < Cardinality(S) PROVE FALSE
  <2>1. \E i, j \in S : i # j /\ f[i] = f[j]
    BY <1>1, <1>2, <1>3, <1>5, SharedValue
  <2> QED BY <2>1, <1>3
<1> QED BY <1>1, <1>2, <1>4, <1>5

\* With no more sessions than places, opening one more never closes another.
LEMMA RoomForAll ==
  ASSUME TrackerAssumption, FewSessions, IInv
  PROVE  RoomToOpen
<1> SUFFICES ASSUME tasks # <<>>, Head(tasks).kind = "STARTED"
             PROVE  Len(WithoutOpen(SessionOf(Head(tasks).execution))) < MaxOpenSnapshots
  BY DEF RoomToOpen
<1> PICK x : x = Head(tasks).execution
  OBVIOUS
<1> PICK others : others = WithoutOpen(x[1])
  OBVIOUS
<1>1. ShapesOK /\ LineOK /\ RecordsOK /\ Waiting \in Nat
  BY WaitingIsNat DEF IInv
<1>2. x[1] \in Sessions
  <2>1. IsList(tasks)
    BY <1>1 DEF ShapesOK
  <2>2. Len(tasks) \in Nat /\ Len(tasks) # 0 /\ Head(tasks) = tasks[1]
    BY <2>1, ListOfSeq DEF IsList
  <2>3. Who(1) = x /\ 1 \in 1..Waiting
    BY <2>2, <1>1 DEF Who, Item, Waiting
  <2> QED BY <2>3, <1>1, Executions DEF LineOK
<1>3. /\ IsList(others) /\ OneEach(others)
      /\ Members(others) = {o \in Members(open) : o.execution[1] # x[1]}
  BY <1>1, WithoutOpenFacts DEF ShapesOK, RecordsOK
<1>4. Len(others) \in Nat /\ DOMAIN others = 1..Len(others)
  BY <1>3, ListOfSeq DEF IsList
<1>5. ASSUME NEW i \in 1..Len(others)
      PROVE  others[i].execution[1] \in Sessions \ {x[1]}
  <2>1. others[i] \in Members(others)
    BY <1>4 DEF Members
  <2>2. others[i].execution \in Known /\ others[i].execution[1] # x[1]
    BY <2>1, <1>1, <1>3 DEF ShapesOK
  <2> QED BY <2>2, <1>1, Executions
<1>6. \A i, j \in 1..Len(others) :
        others[i].execution[1] = others[j].execution[1] => i = j
  BY <1>3, <1>4 DEF OneEach
<1>7. Cardinality(Sessions) \in Nat /\ Len(others) < Cardinality(Sessions)
  BY <1>2, <1>4, <1>5, <1>6, FewerThanSessions
<1> QED BY <1>4, <1>7 DEF FewSessions, SessionOf, TrackerAssumption

\* With no more sessions than the tracker keeps open executions for
\* (MAX_OPEN_SNAPSHOTS), what overlapped is refused and what is attributed is exact.
THEOREM AttributionOfFewSessions ==
  ASSUME FewSessions
  PROVE  Spec => [](OverlapRefused /\ AttributionExact)
<1>1. Init => IInv
  BY TrackerAssumption, InitIInv
<1>2. IInv /\ [Next]_vars => IInv'
  BY TrackerAssumption, RoomForAll, NextIInv
<1>3. IInv => OverlapRefused /\ AttributionExact
  BY IInvImpliesOverlapRefused, IInvImpliesAttributionExact
<1> QED BY <1>1, <1>2, <1>3, PTL DEF Spec

----------------------------------------------------------------------------
(* Setup.                                                                  *)
LOCAL INSTANCE SequencesExt
LOCAL INSTANCE FiniteSetsExt

\* What opencode.json may be: no document, or one with two lists of plugins.
IsConfigText(json) ==
  \/ json \in {Json(shape) : shape \in {"missing", "unreadable", "malformed", "odd"}}
  \/ /\ json = Document(json.rest, json.plugins, json.legacy)
     /\ IsList(json.plugins) /\ IsList(json.legacy)

IsConfigFile(file) == DOMAIN file = {"json", "jsonc"} /\ IsConfigText(file.json)

IsWorld(now) ==
  /\ "files" \in DOMAIN now /\ DOMAIN now.files = Targets
  /\ \A t \in Targets : IsConfigFile(now.files[t])

\* The worlds there may be at the start, with commands that have not begun.
WorldsAreWorlds ==
  \A start \in Worlds :
    /\ IsWorld(start.world)
    /\ \A p \in DOMAIN start.commands :
         start.commands[p] \in {Login, Doctor} \cup {Install(target) : target \in Targets}

\* The user makes worlds of worlds.
EditsAreWorlds == \A now : IsWorld(now) => \A edited \in UserEdits(now) : IsWorld(edited)

----------------------------------------------------------------------------
(* Facts about documents. *)

HasEntry(document) == "jevguard" \in Members(document.plugins \o document.legacy)

LEMMA EntryAdded ==
  ASSUME NEW d
  PROVE  /\ AddPluginEntry(d) = "ADDED" <=> d.shape # "odd" /\ ~HasEntry(d)
         /\ AddPluginEntry(d) = "PRESENT" <=> d.shape # "odd" /\ HasEntry(d)
BY DEF AddPluginEntry, ToSet, HasEntry, Members

\* A text that can be read and that lacks the entry is a document or nothing at
\* all, and what is read of it has the parts it has.
LEMMA ReadDocument ==
  ASSUME NEW file, IsConfigFile(file), ReadConfigDocument(file) = "READ",
         AddPluginEntry(DocumentOf(file)) = "ADDED"
  PROVE  /\ file.json.shape = "document" \/ (file.json.shape = "missing" /\ ~file.jsonc)
         /\ DocumentOf(file) = Document(file.json.rest, file.json.plugins, file.json.legacy)
         /\ IsList(file.json.plugins) /\ IsList(file.json.legacy)
         /\ ~HasEntry(file.json)
<1>1. DocumentOf(file).shape # "odd" /\ ~HasEntry(DocumentOf(file))
  BY EntryAdded
<1>2. CASE file.json \in {Json(shape) : shape \in {"missing", "unreadable", "malformed", "odd"}}
  <2>1. PICK shape \in {"missing", "unreadable", "malformed", "odd"} : file.json = Json(shape)
    BY <1>2
  <2>2. /\ file.json.shape = shape /\ file.json.rest = 0
        /\ file.json.plugins = <<>> /\ file.json.legacy = <<>>
    BY <2>1 DEF Json
  <2>3. shape # "unreadable" /\ shape # "malformed" /\ ~(shape = "missing" /\ file.jsonc)
    BY <2>2 DEF ReadConfigDocument
  <2>4. shape = "missing"
    BY <2>1, <2>2, <2>3, <1>1 DEF DocumentOf
  <2>5. DocumentOf(file) = Document(0, <<>>, <<>>)
    BY <2>4, <2>2 DEF DocumentOf
  <2>6. ~HasEntry(file.json)
    BY <2>5, <2>2, <1>1 DEF Document, HasEntry
  <2> QED BY <2>2, <2>3, <2>4, <2>5, <2>6, EmptyList
<1>3. CASE /\ file.json = Document(file.json.rest, file.json.plugins, file.json.legacy)
           /\ IsList(file.json.plugins) /\ IsList(file.json.legacy)
  <2>1. file.json.shape = "document"
    BY <1>3 DEF Document
  <2>2. DocumentOf(file) = file.json
    BY <2>1 DEF DocumentOf
  <2> QED BY <2>1, <2>2, <1>1, <1>3
<1> QED BY <1>2, <1>3 DEF IsConfigFile, IsConfigText

\* A document with the entry appended to it is one, and says that it is registered.
LEMMA EntryRegistered ==
  ASSUME NEW rest, NEW plugins, IsList(plugins), NEW legacy, IsList(legacy),
         NEW file, file.json = WithEntry(Document(rest, plugins, legacy))
  PROVE  /\ IsConfigText(file.json)
         /\ ReadConfigDocument(file) = "READ"
         /\ AddPluginEntry(DocumentOf(file)) = "PRESENT"
         /\ Inspect(file) = "REGISTERED"
<1> DEFINE added == Append(plugins, "jevguard")
           S == Members(added) \cup Members(legacy)
<1>1. file.json = Document(rest, added, legacy)
  BY DEF WithEntry, Document
<1>2. IsList(added) /\ Members(added) = Members(plugins) \cup {"jevguard"}
  BY AppendList
<1>3. file.json.shape = "document" /\ file.json.rest = rest
      /\ file.json.plugins = added /\ file.json.legacy = legacy
  BY <1>1 DEF Document
<1>4. IsConfigText(file.json)
  BY <1>1, <1>2, <1>3 DEF IsConfigText
<1>5. HasEntry(file.json)
  <2>1. added \in Seq(S) /\ legacy \in Seq(S)
    BY <1>2, SeqMonotonic DEF IsList
  <2>2. /\ Len(added) \in Nat /\ Len(legacy) \in Nat
        /\ added \o legacy \in Seq(S) /\ Len(added \o legacy) = Len(added) + Len(legacy)
        /\ \A i \in 1..(Len(added) + Len(legacy)) :
             (added \o legacy)[i] = IF i <= Len(added) THEN added[i] ELSE legacy[i - Len(added)]
    BY <2>1, ConcatProperties, LenProperties
  <2>3. PICK i \in 1..Len(added) : added[i] = "jevguard"
    BY <1>2, AppendList
  <2>4. i \in DOMAIN (added \o legacy) /\ (added \o legacy)[i] = "jevguard"
    BY <2>2, <2>3, LenProperties
  <2> QED BY <2>4, <1>3 DEF HasEntry, Members
<1>6. ReadConfigDocument(file) = "READ" /\ DocumentOf(file) = file.json
  BY <1>3 DEF ReadConfigDocument, DocumentOf
<1>7. AddPluginEntry(DocumentOf(file)) = "PRESENT"
  BY <1>3, <1>5, <1>6, EntryAdded
<1>8. Inspect(file) = "REGISTERED"
  BY <1>6, <1>7 DEF Inspect
<1> QED BY <1>3, <1>4, <1>6, <1>7, <1>8

\* The entry written into what an install read makes a document that is registered
\* and keeps the rest.
LEMMA EntryWritten ==
  ASSUME NEW asked, IsConfigFile(asked), ReadConfigDocument(asked) = "READ",
         AddPluginEntry(DocumentOf(asked)) = "ADDED",
         NEW file, file.json = WithEntry(DocumentOf(asked))
  PROVE  /\ IsConfigText(file.json)
         /\ file.json.rest = asked.json.rest /\ file.json.legacy = asked.json.legacy
         /\ file.json.plugins = asked.json.plugins \o <<"jevguard">>
         /\ AddPluginEntry(DocumentOf(file)) = "PRESENT"
         /\ Inspect(file) = "REGISTERED"
<1> PICK rest, plugins, legacy : /\ rest = asked.json.rest /\ plugins = asked.json.plugins
                                 /\ legacy = asked.json.legacy
  OBVIOUS
<1>1. /\ DocumentOf(asked) = Document(rest, plugins, legacy)
      /\ IsList(plugins) /\ IsList(legacy)
  BY ReadDocument
<1>2. file.json = WithEntry(Document(rest, plugins, legacy))
  BY <1>1
<1>3. /\ IsConfigText(file.json)
      /\ AddPluginEntry(DocumentOf(file)) = "PRESENT"
      /\ Inspect(file) = "REGISTERED"
  BY <1>1, <1>2, EntryRegistered
<1>4. /\ file.json.rest = rest /\ file.json.legacy = legacy
      /\ file.json.plugins = Append(plugins, "jevguard")
  BY <1>2 DEF WithEntry, Document
<1>5. Append(plugins, "jevguard") = plugins \o <<"jevguard">>
  <2>1. plugins \in Seq(Members(plugins) \cup {"jevguard"})
    BY <1>1, SeqMonotonic DEF IsList
  <2> QED BY <2>1, AppendIsConcat
<1> QED BY <1>3, <1>4, <1>5

----------------------------------------------------------------------------
(* The invariant. *)

Latest(t) == userLeft[t][Len(userLeft[t])]

VersionsKept ==
  /\ DOMAIN userLeft = Targets
  /\ \A t \in Targets : /\ IsList(userLeft[t]) /\ userLeft[t] # <<>>
                        /\ \A v \in Members(userLeft[t]) : IsConfigFile(v)

IsCommand(c) ==
  /\ {"command", "stage", "outcome", "exit"} \subseteq DOMAIN c
  /\ c.command \in {"login", "install", "doctor"}
  /\ c.stage # "done" => c.outcome = "none" /\ c.exit = -1
  /\ c.command = "install" => {"target", "read", "versions", "answer"} \subseteq DOMAIN c
                                /\ c.target \in Targets

CommandsKept == \A p \in DOMAIN commands : IsCommand(commands[p])

Installs == {p \in DOMAIN commands : commands[p].command = "install"}

\* The version of its file that an install counts as read.
AskedOf(p) == userLeft[commands[p].target][commands[p].versions]

\* An install counts versions the user did leave.
VersionsCounted ==
  \A p \in Installs : commands[p].versions \in 0..Len(userLeft[commands[p].target])

\* An install that asks, writes or has written read a version the user left, whole.
ReadWhole ==
  \A p \in Installs :
    commands[p].stage \in {"ask", "write"} \/ commands[p].outcome = "INSTALLED" =>
      /\ commands[p].versions \in 1..Len(userLeft[commands[p].target])
      /\ ReadConfigDocument(AskedOf(p)) = "READ"
      /\ commands[p].read = DocumentOf(AskedOf(p))
      /\ AddPluginEntry(commands[p].read) = "ADDED"

Confirmed ==
  \A p \in Installs :
    commands[p].stage = "write" \/ commands[p].outcome = "INSTALLED" => commands[p].answer = "CONFIRMED"

\* A file is what the user left last, or what an install made of a version.
FileExplained ==
  \A t \in Targets :
    /\ world.files[t].jsonc = Latest(t).jsonc
    /\ \/ world.files[t] = Latest(t)
       \/ \E p \in Installs : /\ commands[p].target = t /\ commands[p].outcome = "INSTALLED"
                              /\ world.files[t].json = WithEntry(commands[p].read)

RegisteredAsSaid ==
  \A p \in Installs :
    commands[p].exit = 0 /\ commands[p].versions = Len(userLeft[commands[p].target])
      => Inspect(world.files[commands[p].target]) = "REGISTERED"

SetupInv ==
  /\ IsWorld(world) /\ VersionsKept /\ CommandsKept /\ VersionsCounted
  /\ ReadWhole /\ Confirmed /\ FileExplained /\ RegisteredAsSaid

\* What the invariant says of a file that is read: either the user left it so, or
\* it has the entry.
LEMMA FileRead ==
  ASSUME SetupInv, NEW t \in Targets
  PROVE  /\ Len(userLeft[t]) \in Nat \ {0} /\ Latest(t) \in Members(userLeft[t])
         /\ IsConfigFile(Latest(t)) /\ IsConfigFile(world.files[t])
         /\ \/ world.files[t] = Latest(t)
            \/ /\ Inspect(world.files[t]) = "REGISTERED"
               /\ AddPluginEntry(DocumentOf(world.files[t])) = "PRESENT"
<1>1. /\ IsList(userLeft[t]) /\ userLeft[t] # <<>>
      /\ \A v \in Members(userLeft[t]) : IsConfigFile(v)
      /\ IsConfigFile(world.files[t])
  BY DEF SetupInv, VersionsKept, IsWorld
<1>2. Len(userLeft[t]) \in Nat \ {0} /\ DOMAIN userLeft[t] = 1..Len(userLeft[t])
  BY <1>1, TailList
<1>3. Latest(t) \in Members(userLeft[t])
  BY <1>2 DEF Latest, Members
<1>4. CASE world.files[t] # Latest(t)
  <2>1. PICK p \in Installs : /\ commands[p].target = t /\ commands[p].outcome = "INSTALLED"
                              /\ world.files[t].json = WithEntry(commands[p].read)
    BY <1>4 DEF SetupInv, FileExplained
  <2>2. /\ AskedOf(p) \in Members(userLeft[t])
        /\ ReadConfigDocument(AskedOf(p)) = "READ"
        /\ commands[p].read = DocumentOf(AskedOf(p))
        /\ AddPluginEntry(commands[p].read) = "ADDED"
    BY <2>1, <1>2 DEF SetupInv, ReadWhole, AskedOf, Members
  <2>3. IsConfigFile(AskedOf(p))
    BY <2>2, <1>1
  <2>4. world.files[t].json = WithEntry(DocumentOf(AskedOf(p)))
    BY <2>1, <2>2
  <2>5. /\ Inspect(world.files[t]) = "REGISTERED"
        /\ AddPluginEntry(DocumentOf(world.files[t])) = "PRESENT"
    BY <2>2, <2>3, <2>4, EntryWritten
  <2> QED BY <2>5, <1>1, <1>2, <1>3
<1> QED BY <1>1, <1>2, <1>3, <1>4

LEMMA InitSetup ==
  ASSUME WorldsAreWorlds, SetupInit
  PROVE  SetupInv
<1>1. PICK start \in Worlds : world = start.world /\ commands = start.commands
  BY DEF SetupInit
<1>2. /\ IsWorld(world)
      /\ \A p \in DOMAIN commands :
           commands[p] \in {Login, Doctor} \cup {Install(target) : target \in Targets}
  BY <1>1 DEF WorldsAreWorlds
<1>3. userLeft = [t \in Targets |-> <<world.files[t]>>]
  BY DEF SetupInit
<1>4. ASSUME NEW t \in Targets
      PROVE  /\ IsList(userLeft[t]) /\ userLeft[t] # <<>> /\ Len(userLeft[t]) = 1
             /\ Members(userLeft[t]) = {world.files[t]} /\ userLeft[t][1] = world.files[t]
  <2>1. userLeft[t] = <<world.files[t]>>
    BY <1>3
  <2>2. <<world.files[t]>> \in Seq({world.files[t]})
    OBVIOUS
  <2>3. Len(<<world.files[t]>>) = 1 /\ <<world.files[t]>>[1] = world.files[t]
    OBVIOUS
  <2>4. IsList(userLeft[t]) /\ DOMAIN userLeft[t] = 1..1
    BY <2>1, <2>2, <2>3, ListOfSeq
  <2> QED BY <2>1, <2>3, <2>4, EmptyList DEF Members
<1>5. VersionsKept
  BY <1>2, <1>3, <1>4 DEF VersionsKept, IsWorld
<1>6. ASSUME NEW p \in DOMAIN commands
      PROVE  /\ IsCommand(commands[p]) /\ commands[p].outcome = "none" /\ commands[p].exit = -1
             /\ commands[p].stage \notin {"ask", "write", "done"}
             /\ commands[p].command = "install" => commands[p].versions = 0
  <2>1. CASE commands[p] = Login
    BY <2>1 DEF Login, IsCommand
  <2>2. CASE commands[p] = Doctor
    BY <2>2 DEF Doctor, IsCommand
  <2>3. CASE \E target \in Targets : commands[p] = Install(target)
    BY <2>3 DEF Install, IsCommand
  <2> QED BY <1>2, <2>1, <2>2, <2>3
<1>7. VersionsCounted
  BY <1>4, <1>6 DEF VersionsCounted, Installs, IsCommand
<1>8. FileExplained
  BY <1>4 DEF FileExplained, Latest
<1> QED BY <1>2, <1>5, <1>6, <1>7, <1>8
        DEF SetupInv, CommandsKept, ReadWhole, Confirmed, RegisteredAsSaid, Installs

----------------------------------------------------------------------------
(* The steps. *)

\* What the invariant says of one install.
InstallKept(p) ==
  LET versions == userLeft[commands[p].target]
  IN  /\ commands[p].versions \in 0..Len(versions)
      /\ commands[p].stage \in {"ask", "write"} \/ commands[p].outcome = "INSTALLED" =>
           /\ commands[p].versions \in 1..Len(versions)
           /\ ReadConfigDocument(AskedOf(p)) = "READ"
           /\ commands[p].read = DocumentOf(AskedOf(p))
           /\ AddPluginEntry(commands[p].read) = "ADDED"
      /\ commands[p].stage = "write" \/ commands[p].outcome = "INSTALLED" => commands[p].answer = "CONFIRMED"
      /\ commands[p].exit = 0 /\ commands[p].versions = Len(versions)
           => Inspect(world.files[commands[p].target]) = "REGISTERED"

LEMMA InstallsKept ==
  /\ VersionsCounted /\ ReadWhole /\ Confirmed /\ RegisteredAsSaid <=> \A p \in Installs : InstallKept(p)
BY DEF VersionsCounted, ReadWhole, Confirmed, RegisteredAsSaid, InstallKept

\* A step of one command that leaves the files alone keeps the invariant when it
\* keeps what is said of that command.
LEMMA CommandStep ==
  ASSUME SetupInv, NEW p \in DOMAIN commands,
         IsWorld(world)', world'.files = world.files, userLeft' = userLeft,
         DOMAIN commands' = DOMAIN commands,
         \A q \in DOMAIN commands \ {p} : commands'[q] = commands[q],
         IsCommand(commands'[p]), commands[p].stage # "done",
         commands'[p].command = commands[p].command,
         commands[p].command = "install" => InstallKept(p)'
  PROVE  SetupInv'
<1>1. Installs' = Installs
  BY DEF Installs
<1>2. CommandsKept'
  BY DEF SetupInv, CommandsKept
<1>3. ASSUME NEW q \in Installs
      PROVE  InstallKept(q)'
  <2>1. CASE q = p
    BY <2>1, <1>3 DEF Installs
  <2>2. CASE q # p
    <3>1. commands'[q] = commands[q] /\ InstallKept(q)
      BY <2>2, InstallsKept DEF Installs, SetupInv
    <3> QED BY <3>1 DEF InstallKept, AskedOf
  <2> QED BY <2>1, <2>2
<1>4. VersionsKept'
  BY DEF SetupInv, VersionsKept
<1>5. FileExplained'
  <2>1. commands[p].outcome # "INSTALLED"
    BY DEF SetupInv, CommandsKept, IsCommand
  <2>2. ASSUME NEW q \in Installs, commands[q].outcome = "INSTALLED"
        PROVE  commands'[q] = commands[q]
    BY <2>1, <2>2 DEF Installs
  <2> QED BY <1>1, <2>2 DEF SetupInv, FileExplained, Latest
<1>6. (VersionsCounted /\ ReadWhole /\ Confirmed /\ RegisteredAsSaid)'
  BY <1>1, <1>3 DEF VersionsCounted, ReadWhole, Confirmed, RegisteredAsSaid, InstallKept
<1> QED BY <1>2, <1>4, <1>5, <1>6 DEF SetupInv

\* The command that ends: it changes in three fields.
LEMMA EndStep ==
  ASSUME SetupInv, NEW p \in DOMAIN commands, NEW outcome, Ends(p, outcome)
  PROVE  /\ DOMAIN commands' = DOMAIN commands
         /\ \A q \in DOMAIN commands \ {p} : commands'[q] = commands[q]
         /\ commands'[p].outcome = outcome /\ commands'[p].exit = ExitCode(outcome)
         /\ commands'[p].stage = "done" /\ commands'[p].command = commands[p].command
         /\ IsCommand(commands'[p])
         /\ commands[p].command = "install" =>
              /\ commands'[p].target = commands[p].target /\ commands'[p].read = commands[p].read
              /\ commands'[p].versions = commands[p].versions /\ commands'[p].answer = commands[p].answer
BY DEF SetupInv, CommandsKept, IsCommand, Ends

LEMMA LoginStep ==
  ASSUME SetupInv, NEW p \in DOMAIN commands,
         \/ \E prompted \in {"ABORTED", "NOT_A_TTY", "PROMPT_FAILURE", "blank", "key"} : LoginReads(p, prompted)
         \/ LoginWrites(p)
  PROVE  SetupInv'
<1>1. IsCommand(commands[p]) /\ commands[p].command = "login" /\ commands[p].stage # "done"
  BY DEF LoginReads, LoginWrites, At, SetupInv, CommandsKept
<1>2. userLeft' = userLeft /\ world'.files = world.files /\ IsWorld(world)'
  BY DEF LoginReads, LoginWrites, SetupInv, IsWorld
<1>3. CASE \E outcome \in {"ABORTED", "NOT_A_TTY", "PROMPT_FAILURE", "EMPTY_SECRET", "SAVED",
                           "STORE_WRITE_FAILURE"} : Ends(p, outcome)
  BY <1>1, <1>2, <1>3, EndStep, CommandStep
<1>4. CASE commands' = [commands EXCEPT ![p].stage = "write"]
  <2>1. /\ DOMAIN commands' = DOMAIN commands
        /\ \A q \in DOMAIN commands \ {p} : commands'[q] = commands[q]
        /\ commands'[p].command = commands[p].command /\ IsCommand(commands'[p])
    BY <1>1, <1>4 DEF IsCommand
  <2> QED BY <1>1, <1>2, <2>1, CommandStep
<1> QED BY <1>3, <1>4 DEF LoginReads, LoginWrites

LEMMA DoctorStep ==
  ASSUME SetupInv, NEW p \in DOMAIN commands,
         \/ DoctorCredential(p) \/ DoctorRules(p) \/ DoctorConfig(p) \/ DoctorEnds(p)
         \/ \E target \in Targets : DoctorInspects(p, target)
  PROVE  SetupInv'
<1>1. IsCommand(commands[p]) /\ commands[p].command = "doctor" /\ commands[p].stage # "done"
  BY DEF DoctorCredential, DoctorRules, DoctorConfig, DoctorEnds, DoctorInspects, At, SetupInv, CommandsKept
<1>2. userLeft' = userLeft /\ world'.files = world.files /\ IsWorld(world)'
  BY DEF DoctorCredential, DoctorRules, DoctorConfig, DoctorEnds, DoctorInspects, SetupInv, IsWorld
<1>3. CASE \E outcome \in {"FAIL", "WARN", "OK"} : Ends(p, outcome)
  BY <1>1, <1>2, <1>3, EndStep, CommandStep
<1>4. CASE DoctorCredential(p) \/ DoctorRules(p) \/ DoctorConfig(p)
             \/ \E target \in Targets : DoctorInspects(p, target)
  <2>1. /\ DOMAIN commands' = DOMAIN commands
        /\ \A q \in DOMAIN commands \ {p} : commands'[q] = commands[q]
        /\ commands'[p].command = commands[p].command /\ IsCommand(commands'[p])
    BY <1>1, <1>4 DEF IsCommand, DoctorCredential, DoctorRules, DoctorConfig, DoctorInspects, At
  <2> QED BY <1>1, <1>2, <2>1, CommandStep
<1> QED BY <1>3, <1>4 DEF DoctorEnds

LEMMA InstallReadsStep ==
  ASSUME SetupInv, NEW p \in DOMAIN commands, InstallReads(p)
  PROVE  SetupInv'
<1> DEFINE t == commands[p].target
           file == world.files[t]
           document == DocumentOf(file)
<1>1. /\ IsCommand(commands[p]) /\ commands[p].command = "install" /\ commands[p].stage = "read"
      /\ t \in Targets /\ commands[p].outcome = "none" /\ commands[p].exit = -1
  BY DEF InstallReads, At, SetupInv, CommandsKept, IsCommand
<1>2. userLeft' = userLeft /\ world' = world /\ IsWorld(world)'
  BY DEF InstallReads, SetupInv
<1>3. InstallKept(p)
  BY <1>1, InstallsKept DEF SetupInv, Installs
<1>4. /\ Len(userLeft[t]) \in Nat \ {0}
      /\ file = Latest(t) \/ AddPluginEntry(document) = "PRESENT"
  BY <1>1, FileRead
<1>5. CASE \E outcome \in {"READ_FAILURE", "INVALID_JSON", "UNSUPPORTED_JSONC", "INVALID_CONFIG_SHAPE"} :
             Ends(p, outcome)
  <2>1. PICK outcome \in {"READ_FAILURE", "INVALID_JSON", "UNSUPPORTED_JSONC", "INVALID_CONFIG_SHAPE"} :
          Ends(p, outcome)
    BY <1>5
  <2>2. commands'[p].exit = 1
    BY <2>1, EndStep DEF ExitCode
  <2>3. InstallKept(p)'
    BY <1>1, <1>2, <1>3, <2>1, <2>2, EndStep DEF InstallKept
  <2> QED BY <1>1, <1>2, <2>1, <2>3, EndStep, CommandStep
<1>6. CASE /\ ReadConfigDocument(file) = "READ" /\ AddPluginEntry(document) = "PRESENT"
           /\ commands' = [commands EXCEPT ![p].stage = "done", ![p].outcome = "ALREADY_INSTALLED",
                             ![p].exit = ExitCode("ALREADY_INSTALLED"), ![p].versions = Len(userLeft[t])]
  <2>1. /\ DOMAIN commands' = DOMAIN commands
        /\ \A q \in DOMAIN commands \ {p} : commands'[q] = commands[q]
        /\ commands'[p].command = commands[p].command /\ IsCommand(commands'[p])
        /\ commands'[p].versions = Len(userLeft[t]) /\ commands'[p].target = t
        /\ commands'[p].stage = "done" /\ commands'[p].outcome = "ALREADY_INSTALLED"
    BY <1>1, <1>6 DEF IsCommand
  <2>2. Inspect(file) = "REGISTERED"
    BY <1>6 DEF Inspect
  <2>3. InstallKept(p)'
    BY <1>2, <1>4, <2>1, <2>2 DEF InstallKept
  <2> QED BY <1>1, <1>2, <2>1, <2>3, CommandStep
<1>7. CASE /\ ReadConfigDocument(file) = "READ" /\ AddPluginEntry(document) = "ADDED"
           /\ commands' = [commands EXCEPT ![p].stage = "ask", ![p].read = document,
                             ![p].versions = Len(userLeft[t])]
  <2>1. /\ DOMAIN commands' = DOMAIN commands
        /\ \A q \in DOMAIN commands \ {p} : commands'[q] = commands[q]
        /\ commands'[p].command = commands[p].command /\ IsCommand(commands'[p])
        /\ commands'[p].versions = Len(userLeft[t]) /\ commands'[p].target = t
        /\ commands'[p].read = document /\ commands'[p].exit = -1
        /\ commands'[p].stage = "ask" /\ commands'[p].outcome = "none"
    BY <1>1, <1>7 DEF IsCommand
  <2>2. AskedOf(p)' = file
    BY <1>2, <1>4, <1>7, <2>1 DEF AskedOf, Latest
  <2>3. InstallKept(p)'
    BY <1>2, <1>4, <1>7, <2>1, <2>2 DEF InstallKept
  <2> QED BY <1>1, <1>2, <2>1, <2>3, CommandStep
<1>8. ReadConfigDocument(file) \in {"READ", "READ_FAILURE", "INVALID_JSON", "UNSUPPORTED_JSONC"}
      /\ AddPluginEntry(document) \in {"INVALID_SHAPE", "PRESENT", "ADDED"}
  BY DEF ReadConfigDocument, AddPluginEntry
<1> QED BY <1>5, <1>6, <1>7, <1>8 DEF InstallReads

LEMMA InstallAnsweredStep ==
  ASSUME SetupInv, NEW p \in DOMAIN commands, NEW answer \in {"CONFIRMED", "DECLINED", "NOT_A_TTY"},
         InstallAnswered(p, answer)
  PROVE  SetupInv'
<1>1. /\ IsCommand(commands[p]) /\ commands[p].command = "install" /\ commands[p].stage = "ask"
      /\ commands[p].outcome = "none" /\ commands[p].exit = -1
  BY DEF InstallAnswered, At, SetupInv, CommandsKept, IsCommand
<1>2. userLeft' = userLeft /\ world' = world /\ IsWorld(world)'
  BY DEF InstallAnswered, SetupInv
<1>3. InstallKept(p)
  BY <1>1, InstallsKept DEF SetupInv, Installs
<1>4. CASE \E outcome \in {"NOT_A_TTY", "ABORTED"} : Ends(p, outcome)
  <2>1. PICK outcome \in {"NOT_A_TTY", "ABORTED"} : Ends(p, outcome)
    BY <1>4
  <2>2. commands'[p].exit = 1
    BY <2>1, EndStep DEF ExitCode
  <2>3. InstallKept(p)'
    BY <1>1, <1>2, <1>3, <2>1, <2>2, EndStep DEF InstallKept
  <2> QED BY <1>1, <1>2, <2>1, <2>3, EndStep, CommandStep
<1>5. CASE /\ answer = "CONFIRMED"
           /\ commands' = [commands EXCEPT ![p].stage = "write", ![p].answer = answer]
  <2>1. /\ DOMAIN commands' = DOMAIN commands
        /\ \A q \in DOMAIN commands \ {p} : commands'[q] = commands[q]
        /\ commands'[p].command = commands[p].command /\ IsCommand(commands'[p])
        /\ commands'[p].versions = commands[p].versions /\ commands'[p].target = commands[p].target
        /\ commands'[p].read = commands[p].read /\ commands'[p].exit = -1
        /\ commands'[p].outcome = "none" /\ commands'[p].answer = "CONFIRMED"
    BY <1>1, <1>5 DEF IsCommand
  <2>2. AskedOf(p)' = AskedOf(p)
    BY <1>2, <2>1 DEF AskedOf
  <2>3. InstallKept(p)'
    BY <1>1, <1>2, <1>3, <2>1, <2>2 DEF InstallKept
  <2> QED BY <1>1, <1>2, <2>1, <2>3, CommandStep
<1> QED BY <1>4, <1>5 DEF InstallAnswered

LEMMA InstallWritesStep ==
  ASSUME SetupInv, NEW p \in DOMAIN commands, InstallWrites(p)
  PROVE  SetupInv'
<1> DEFINE t == commands[p].target
<1>1. /\ IsCommand(commands[p]) /\ commands[p].command = "install" /\ commands[p].stage = "write"
      /\ t \in Targets /\ commands[p].outcome = "none" /\ p \in Installs
  BY DEF InstallWrites, At, SetupInv, CommandsKept, IsCommand, Installs
<1>2. userLeft' = userLeft
  BY DEF InstallWrites
<1>3. InstallKept(p)
  BY <1>1, InstallsKept DEF SetupInv
<1>4. CASE Ends(p, "WRITE_FAILURE") /\ world' = world
  <2>1. commands'[p].exit = 1
    BY <1>4, EndStep DEF ExitCode
  <2>2. InstallKept(p)'
    BY <1>1, <1>2, <1>3, <1>4, <2>1, EndStep DEF InstallKept
  <2>3. IsWorld(world)'
    BY <1>4 DEF SetupInv
  <2> QED BY <1>1, <1>2, <1>4, <2>2, <2>3, EndStep, CommandStep
<1>5. CASE /\ Ends(p, "INSTALLED")
           /\ world' = [world EXCEPT !.files[t].json = WithEntry(commands[p].read)]
  <2>1. /\ DOMAIN commands' = DOMAIN commands
        /\ \A q \in DOMAIN commands \ {p} : commands'[q] = commands[q]
        /\ commands'[p].outcome = "INSTALLED" /\ commands'[p].stage = "done"
        /\ commands'[p].command = "install" /\ IsCommand(commands'[p])
        /\ commands'[p].target = t /\ commands'[p].read = commands[p].read
        /\ commands'[p].versions = commands[p].versions /\ commands'[p].answer = commands[p].answer
    BY <1>1, <1>5, EndStep
  <2>2. /\ IsList(userLeft[t]) /\ Len(userLeft[t]) \in Nat \ {0}
        /\ \A v \in Members(userLeft[t]) : IsConfigFile(v)
    BY <1>1, FileRead DEF SetupInv, VersionsKept
  <2> DEFINE asked == AskedOf(p)
  <2>3. /\ asked \in Members(userLeft[t]) /\ ReadConfigDocument(asked) = "READ"
        /\ commands[p].read = DocumentOf(asked) /\ AddPluginEntry(commands[p].read) = "ADDED"
        /\ commands[p].answer = "CONFIRMED"
    BY <1>1, <1>3, <2>2, ListOfSeq DEF InstallKept, AskedOf, Members, IsList
  <2>4. IsConfigFile(asked)
    BY <2>2, <2>3
  <2>5. /\ "files" \in DOMAIN world /\ DOMAIN world.files = Targets
        /\ \A u \in Targets : DOMAIN world.files[u] = {"json", "jsonc"} /\ IsConfigText(world.files[u].json)
    BY DEF SetupInv, IsWorld, IsConfigFile
  <2>6. /\ DOMAIN world' = DOMAIN world /\ DOMAIN world'.files = Targets
        /\ \A u \in Targets \ {t} : world'.files[u] = world.files[u]
        /\ DOMAIN world'.files[t] = {"json", "jsonc"}
        /\ world'.files[t].json = WithEntry(commands[p].read)
        /\ world'.files[t].jsonc = world.files[t].jsonc
    BY <1>1, <1>5, <2>5
  <2>7. IsConfigText(world'.files[t].json) /\ Inspect(world'.files[t]) = "REGISTERED"
    <3>1. world'.files[t].json = WithEntry(DocumentOf(asked))
      BY <2>3, <2>6
    <3> HIDE DEF asked
    <3> QED BY <2>3, <2>4, <3>1, EntryWritten
  <2>8. IsWorld(world)'
    <3>1. ASSUME NEW u \in Targets
          PROVE  IsConfigFile(world'.files[u])
      BY <2>5, <2>6, <2>7 DEF IsConfigFile
    <3> QED BY <2>5, <2>6, <3>1 DEF IsWorld
  <2>9. Installs' = Installs
    BY <1>1, <2>1 DEF Installs
  <2>10. ASSUME NEW q \in Installs
         PROVE  InstallKept(q)'
    <3>1. /\ commands'[q].versions = commands[q].versions /\ commands'[q].target = commands[q].target
          /\ commands'[q].read = commands[q].read /\ commands'[q].answer = commands[q].answer
          /\ AskedOf(q)' = AskedOf(q)
      BY <1>2, <2>1 DEF AskedOf, Installs
    <3>2. InstallKept(q)
      BY InstallsKept DEF SetupInv
    <3>3. commands[q].target \in Targets
      BY DEF Installs, SetupInv, CommandsKept, IsCommand
    <3>4. CASE q = p
      BY <1>1, <1>2, <1>3, <2>1, <2>7, <3>1, <3>4 DEF InstallKept
    <3>5. CASE q # p
      <4>1. commands'[q] = commands[q]
        BY <2>1, <3>5 DEF Installs
      <4>2. world'.files[commands[q].target] = world.files[commands[q].target]
              \/ Inspect(world'.files[commands[q].target]) = "REGISTERED"
        BY <2>6, <2>7, <3>3
      <4> QED BY <1>2, <3>1, <3>2, <4>1, <4>2 DEF InstallKept
    <3> QED BY <3>4, <3>5
  <2>11. FileExplained'
    <3>1. ASSUME NEW u \in Targets
          PROVE  /\ world'.files[u].jsonc = Latest(u)'.jsonc
                 /\ \/ world'.files[u] = Latest(u)'
                    \/ \E q \in Installs' : /\ commands'[q].target = u /\ commands'[q].outcome = "INSTALLED"
                                            /\ world'.files[u].json = WithEntry(commands'[q].read)
      <4>1. Latest(u)' = Latest(u) /\ world'.files[u].jsonc = Latest(u).jsonc
        BY <1>2, <2>6 DEF Latest, SetupInv, FileExplained
      <4>2. CASE u = t
        BY <1>1, <2>1, <2>6, <2>9, <4>1, <4>2
      <4>3. CASE u # t
        <5>1. world'.files[u] = world.files[u]
          BY <2>6, <4>3
        <5>2. CASE world.files[u] = Latest(u)
          BY <4>1, <5>1, <5>2
        <5>3. CASE world.files[u] # Latest(u)
          <6>1. PICK q \in Installs : /\ commands[q].target = u /\ commands[q].outcome = "INSTALLED"
                                      /\ world.files[u].json = WithEntry(commands[q].read)
            BY <5>3 DEF SetupInv, FileExplained
          <6>2. commands'[q] = commands[q]
            BY <1>1, <2>1, <6>1 DEF Installs
          <6> QED BY <2>9, <4>1, <5>1, <6>1, <6>2
        <5> QED BY <5>2, <5>3
      <4> QED BY <4>2, <4>3
    <3> QED BY <3>1 DEF FileExplained
  <2>12. VersionsKept' /\ CommandsKept'
    BY <1>2, <2>1 DEF SetupInv, VersionsKept, CommandsKept
  <2>13. (VersionsCounted /\ ReadWhole /\ Confirmed /\ RegisteredAsSaid)'
    BY <2>9, <2>10 DEF VersionsCounted, ReadWhole, Confirmed, RegisteredAsSaid, InstallKept
  <2> QED BY <2>8, <2>11, <2>12, <2>13 DEF SetupInv
<1> QED BY <1>4, <1>5 DEF InstallWrites

LEMMA UserStep ==
  ASSUME EditsAreWorlds, SetupInv, UserChanges
  PROVE  SetupInv'
<1>1. PICK edited \in UserEdits(world) :
        /\ world' = edited
        /\ userLeft' = [t \in Targets |-> IF edited.files[t] = world.files[t] THEN userLeft[t]
                                          ELSE Append(userLeft[t], edited.files[t])]
  BY DEF UserChanges
<1>2. IsWorld(world) /\ IsWorld(world)' /\ commands' = commands
  BY <1>1 DEF EditsAreWorlds, SetupInv, UserChanges
<1>3. Installs' = Installs /\ CommandsKept'
  BY <1>2 DEF Installs, SetupInv, CommandsKept
<1>4. ASSUME NEW t \in Targets
      PROVE  /\ IsList(userLeft'[t]) /\ userLeft'[t] # <<>>
             /\ \A v \in Members(userLeft'[t]) : IsConfigFile(v)
             /\ Len(userLeft[t]) \in Nat \ {0}
             /\ \A i \in 1..Len(userLeft[t]) : userLeft'[t][i] = userLeft[t][i]
             /\ \/ userLeft'[t] = userLeft[t] /\ world'.files[t] = world.files[t]
                \/ Len(userLeft'[t]) = Len(userLeft[t]) + 1 /\ world'.files[t] = Latest(t)'
  <2>1. /\ IsList(userLeft[t]) /\ userLeft[t] # <<>> /\ Len(userLeft[t]) \in Nat \ {0}
        /\ \A v \in Members(userLeft[t]) : IsConfigFile(v)
    BY FileRead DEF SetupInv, VersionsKept
  <2>2. CASE edited.files[t] = world.files[t]
    BY <1>1, <2>1, <2>2
  <2>3. CASE edited.files[t] # world.files[t]
    <3>1. userLeft'[t] = Append(userLeft[t], world'.files[t])
      BY <1>1, <2>3
    <3>2. IsConfigFile(world'.files[t])
      BY <1>2 DEF IsWorld
    <3>3. /\ IsList(userLeft'[t]) /\ Len(userLeft'[t]) = Len(userLeft[t]) + 1
          /\ \A i \in 1..Len(userLeft[t]) : userLeft'[t][i] = userLeft[t][i]
          /\ userLeft'[t][Len(userLeft[t]) + 1] = world'.files[t]
          /\ Members(userLeft'[t]) = Members(userLeft[t]) \cup {world'.files[t]}
      BY <2>1, <3>1, AppendList
    <3>4. userLeft'[t] # <<>>
      BY <2>1, <3>3, EmptyList
    <3> QED BY <2>1, <3>2, <3>3, <3>4 DEF Latest
  <2> QED BY <2>2, <2>3
<1>5. VersionsKept'
  BY <1>1, <1>4 DEF VersionsKept
<1>6. ASSUME NEW p \in Installs
      PROVE  InstallKept(p)'
  <2> DEFINE t == commands[p].target
  <2>1. InstallKept(p) /\ t \in Targets
    BY InstallsKept DEF SetupInv, Installs, CommandsKept, IsCommand
  <2>2. commands[p].versions \in 1..Len(userLeft[t]) => AskedOf(p)' = AskedOf(p)
    BY <1>2, <1>4, <2>1 DEF AskedOf
  <2>3. CASE userLeft'[t] = userLeft[t] /\ world'.files[t] = world.files[t]
    BY <1>2, <2>1, <2>2, <2>3 DEF InstallKept
  <2>4. CASE Len(userLeft'[t]) = Len(userLeft[t]) + 1
    <3>1. commands[p].versions \in 0..Len(userLeft[t]) /\ Len(userLeft[t]) \in Nat
      BY <1>4, <2>1 DEF InstallKept
    <3>2. commands[p].versions \in 0..Len(userLeft'[t]) /\ commands[p].versions # Len(userLeft'[t])
      BY <2>4, <3>1
    <3>3. commands[p].versions \in 1..Len(userLeft[t]) => commands[p].versions \in 1..Len(userLeft'[t])
      BY <2>4, <3>1
    <3> QED BY <1>2, <2>1, <2>2, <3>2, <3>3 DEF InstallKept
  <2> QED BY <1>4, <2>1, <2>3, <2>4
<1>7. FileExplained'
  <2>1. ASSUME NEW t \in Targets
        PROVE  /\ world'.files[t].jsonc = Latest(t)'.jsonc
               /\ \/ world'.files[t] = Latest(t)'
                  \/ \E p \in Installs' : /\ commands'[p].target = t /\ commands'[p].outcome = "INSTALLED"
                                          /\ world'.files[t].json = WithEntry(commands'[p].read)
    <3>1. CASE userLeft'[t] = userLeft[t] /\ world'.files[t] = world.files[t]
      BY <1>2, <1>3, <3>1 DEF SetupInv, FileExplained, Latest
    <3> QED BY <1>4, <3>1
  <2> QED BY <2>1 DEF FileExplained
<1>8. (VersionsCounted /\ ReadWhole /\ Confirmed /\ RegisteredAsSaid)'
  BY <1>3, <1>6 DEF VersionsCounted, ReadWhole, Confirmed, RegisteredAsSaid, InstallKept
<1> QED BY <1>2, <1>3, <1>5, <1>7, <1>8 DEF SetupInv

LEMMA UnchangedStep ==
  ASSUME SetupInv, UNCHANGED <<world, commands, userLeft>>
  PROVE  SetupInv'
BY DEF SetupInv, VersionsKept, CommandsKept, VersionsCounted, ReadWhole, Confirmed, FileExplained,
       RegisteredAsSaid, Installs, AskedOf, Latest

LEMMA NextSetup ==
  ASSUME EditsAreWorlds, SetupInv, [SetupNext]_setupVars
  PROVE  SetupInv'
<1>1. CASE UNCHANGED setupVars
  BY <1>1, UnchangedStep DEF setupVars
<1>2. CASE \E root \in world.roots : LoadSettings(root)
  BY <1>2, UnchangedStep DEF LoadSettings
<1>3. CASE UserChanges
  BY <1>3, UserStep
<1>4. ASSUME NEW p \in DOMAIN commands,
             \/ \E prompted \in {"ABORTED", "NOT_A_TTY", "PROMPT_FAILURE", "blank", "key"} :
                  LoginReads(p, prompted)
             \/ LoginWrites(p)
      PROVE  SetupInv'
  BY <1>4, LoginStep
<1>5. ASSUME NEW p \in DOMAIN commands,
             \/ InstallReads(p) \/ InstallWrites(p)
             \/ \E answer \in {"CONFIRMED", "DECLINED", "NOT_A_TTY"} : InstallAnswered(p, answer)
      PROVE  SetupInv'
  BY <1>5, InstallReadsStep, InstallWritesStep, InstallAnsweredStep
<1>6. ASSUME NEW p \in DOMAIN commands,
             \/ DoctorCredential(p) \/ DoctorRules(p) \/ DoctorConfig(p) \/ DoctorEnds(p)
             \/ \E target \in Targets : DoctorInspects(p, target)
      PROVE  SetupInv'
  BY <1>6, DoctorStep
<1> QED BY <1>1, <1>2, <1>3, <1>4, <1>5, <1>6 DEF SetupNext

\* What is found in a list is a member of it.
LEMMA ListedMembers == \A s : ToSet(s) = Members(s)
BY DEF ToSet, Members

LEMMA SetupInvSafe ==
  ASSUME SetupInv
  PROVE  ConfigEditSafe
<1> DEFINE Explained(t) ==
             LET versions == userLeft[t]
                 file == world.files[t]
                 Asked(p) == versions[commands[p].versions]
                 installs == {p \in DOMAIN commands : commands[p].command = "install" /\ commands[p].target = t
                                                        /\ commands[p].outcome = "INSTALLED"}
             IN  /\ file # versions[Len(versions)] =>
                      /\ file.jsonc = versions[Len(versions)].jsonc
                      /\ \E p \in installs :
                           /\ commands[p].answer = "CONFIRMED"
                           /\ \/ Asked(p).json.shape = "document"
                              \/ Asked(p).json.shape = "missing" /\ ~Asked(p).jsonc
                           /\ \A k \in {"rest", "legacy"} : file.json[k] = Asked(p).json[k]
                           /\ file.json.plugins = Asked(p).json.plugins \o <<"jevguard">>
                           /\ "jevguard" \notin ToSet(Asked(p).json.plugins \o Asked(p).json.legacy)
                 /\ \A p \in DOMAIN commands :
                      commands[p].command = "install" /\ commands[p].target = t /\ commands[p].exit = 0
                        /\ Len(versions) = commands[p].versions => Inspect(file) = "REGISTERED"
<1>1. ASSUME NEW t \in Targets
      PROVE  Explained(t)
  <2>1. ASSUME world.files[t] # Latest(t)
        PROVE  /\ world.files[t].jsonc = Latest(t).jsonc
               /\ \E p \in Installs :
                    /\ commands[p].target = t /\ commands[p].outcome = "INSTALLED"
                    /\ commands[p].answer = "CONFIRMED"
                    /\ \/ AskedOf(p).json.shape = "document"
                       \/ AskedOf(p).json.shape = "missing" /\ ~AskedOf(p).jsonc
                    /\ world.files[t].json.rest = AskedOf(p).json.rest
                    /\ world.files[t].json.legacy = AskedOf(p).json.legacy
                    /\ world.files[t].json.plugins = AskedOf(p).json.plugins \o <<"jevguard">>
                    /\ "jevguard" \notin ToSet(AskedOf(p).json.plugins \o AskedOf(p).json.legacy)
    <3>1. PICK p \in Installs : /\ commands[p].target = t /\ commands[p].outcome = "INSTALLED"
                                /\ world.files[t].json = WithEntry(commands[p].read)
      BY <2>1 DEF SetupInv, FileExplained
    <3>2. /\ commands[p].versions \in 1..Len(userLeft[t])
          /\ ReadConfigDocument(AskedOf(p)) = "READ"
          /\ commands[p].read = DocumentOf(AskedOf(p))
          /\ AddPluginEntry(DocumentOf(AskedOf(p))) = "ADDED"
          /\ commands[p].answer = "CONFIRMED"
      BY <3>1 DEF SetupInv, ReadWhole, Confirmed
    <3>3. IsConfigFile(AskedOf(p))
      <4>1. /\ IsList(userLeft[t]) /\ \A v \in Members(userLeft[t]) : IsConfigFile(v)
        BY DEF SetupInv, VersionsKept
      <4>2. AskedOf(p) \in Members(userLeft[t])
        BY <3>1, <3>2, <4>1, ListOfSeq DEF AskedOf, Members, IsList
      <4> QED BY <4>1, <4>2
    <3>4. /\ AskedOf(p).json.shape = "document" \/ (AskedOf(p).json.shape = "missing" /\ ~AskedOf(p).jsonc)
          /\ ~HasEntry(AskedOf(p).json)
      BY <3>2, <3>3, ReadDocument
    <3>5. world.files[t].json = WithEntry(DocumentOf(AskedOf(p)))
      BY <3>1, <3>2
    <3>6. /\ world.files[t].json.rest = AskedOf(p).json.rest
          /\ world.files[t].json.legacy = AskedOf(p).json.legacy
          /\ world.files[t].json.plugins = AskedOf(p).json.plugins \o <<"jevguard">>
      BY <3>2, <3>3, <3>5, EntryWritten
    <3>7. "jevguard" \notin ToSet(AskedOf(p).json.plugins \o AskedOf(p).json.legacy)
      BY <3>4, ListedMembers DEF HasEntry
    <3>8. world.files[t].jsonc = Latest(t).jsonc
      BY DEF SetupInv, FileExplained
    <3> QED BY <3>1, <3>2, <3>4, <3>6, <3>7, <3>8
  <2>2. ASSUME NEW p \in DOMAIN commands, commands[p].command = "install", commands[p].target = t,
               commands[p].exit = 0, Len(userLeft[t]) = commands[p].versions
        PROVE  Inspect(world.files[t]) = "REGISTERED"
    BY <2>2 DEF SetupInv, RegisteredAsSaid, Installs
  <2>3. ASSUME world.files[t] # userLeft[t][Len(userLeft[t])]
        PROVE  \E p \in {p \in DOMAIN commands : commands[p].command = "install" /\ commands[p].target = t
                                                   /\ commands[p].outcome = "INSTALLED"} :
                 /\ commands[p].answer = "CONFIRMED"
                 /\ \/ userLeft[t][commands[p].versions].json.shape = "document"
                    \/ userLeft[t][commands[p].versions].json.shape = "missing"
                         /\ ~userLeft[t][commands[p].versions].jsonc
                 /\ \A k \in {"rest", "legacy"} :
                      world.files[t].json[k] = userLeft[t][commands[p].versions].json[k]
                 /\ world.files[t].json.plugins = userLeft[t][commands[p].versions].json.plugins \o <<"jevguard">>
                 /\ "jevguard" \notin ToSet(userLeft[t][commands[p].versions].json.plugins
                                              \o userLeft[t][commands[p].versions].json.legacy)
    <3>1. world.files[t] # Latest(t)
      BY <2>3 DEF Latest
    <3> QED BY <2>1, <3>1 DEF Installs, AskedOf
  <2> QED BY <2>1, <2>2, <2>3 DEF Latest
<1> QED BY <1>1 DEF ConfigEditSafe

\* Whatever commands run beside each other and whatever the user does to opencode.json
\* between their steps: only a confirmed install changes the file, into what the user had
\* there when it asked plus the entry, and an install that exits with 0 leaves it
\* registered until the user edits it (install.ts:15-19).
THEOREM SetupConfigEditSafe ==
  ASSUME WorldsAreWorlds, EditsAreWorlds
  PROVE  SetupSpec => []ConfigEditSafe
<1>1. SetupInit => SetupInv
  BY InitSetup
<1>2. SetupInv /\ [SetupNext]_setupVars => SetupInv'
  BY NextSetup
<1>3. SetupInv => ConfigEditSafe
  BY SetupInvSafe
<1> QED BY <1>1, <1>2, <1>3, PTL DEF SetupSpec

----------------------------------------------------------------------------
(* The settings. *)

\* A finite set of numbers has a largest one.
LEMMA LargestNumber ==
  ASSUME NEW k \in Nat, NEW S \in SUBSET (0..k), S # {}
  PROVE  \E m \in S : \A j \in S : j <= m
<1> DEFINE Below == {k - j : j \in S}
<1>1. Below \in SUBSET Nat /\ Below # {}
  <2>1. \A j \in S : k - j \in Nat
    OBVIOUS
  <2> QED BY <2>1
<1>2. PICK d \in Below : \A e \in Below : d <= e
  <2> HIDE DEF Below
  <2> QED BY <1>1, LeastNumber
<1>3. PICK m \in S : d = k - m
  BY <1>2
<1>4. ASSUME NEW j \in S PROVE j <= m
  <2>1. k - m <= k - j
    BY <1>2, <1>3
  <2>2. j \in Nat /\ m \in Nat
    OBVIOUS
  <2> QED BY <2>1, <2>2
<1> QED BY <1>4

\* The nearest of the marked directories a path leads through is the longest one.
LEMMA ToplevelIsNearest ==
  ASSUME NEW start, Len(start) \in Nat, NEW markers,
         NEW n \in WorkTreesOver(start, markers), \A j \in WorkTreesOver(start, markers) : j <= n
  PROVE  GitToplevelOf(start, markers) = {SubSeq(start, 1, n)}
<1> DEFINE L == Len(start)
           Marked(j) == SubSeq(start, 1, j) \in markers
           Step(f, k) == IF SubSeq(start, 1, k) \in markers THEN {SubSeq(start, 1, k)}
                         ELSE IF k <= 1 THEN {} ELSE f[k - 1]
           Solves(f) == f = [k \in 0..L |-> Step(f, k)]
           Trees(k) == {j \in 0..k : (j > 0 \/ k = 0) /\ Marked(j)}
           Final(k) == CHOOSE m \in Trees(k) : \A j \in Trees(k) : j <= m
           g == [k \in 0..L |-> IF Trees(k) # {} THEN {SubSeq(start, 1, Final(k))} ELSE {}]
<1>0. Trees(L) = WorkTreesOver(start, markers)
  BY DEF WorkTreesOver
<1>1. \A k \in 0..L : Trees(k) # {} => Final(k) \in Trees(k) /\ \A j \in Trees(k) : j <= Final(k)
  <2> SUFFICES ASSUME NEW k \in 0..L, Trees(k) # {}
               PROVE  \E m \in Trees(k) : \A j \in Trees(k) : j <= m
    BY Zenon
  <2>1. k \in Nat /\ Trees(k) \in SUBSET (0..k)
    OBVIOUS
  <2> HIDE DEF Trees
  <2> QED BY <2>1, LargestNumber
<1>2. Solves(g)
  <2>1. ASSUME NEW k \in 0..L PROVE g[k] = Step(g, k)
    <3> HIDE DEF Marked, Final
    <3>1. CASE k <= 1 /\ ~Marked(k)
      <4>1. Trees(k) = {}
        BY <3>1
      <4> QED BY <3>1, <4>1 DEF Marked
    <3>2. CASE Marked(k)
      <4>1. k \in Trees(k)
        BY <3>2
      <4>2. Final(k) \in 0..k /\ k <= Final(k)
        BY <1>1, <4>1
      <4>3. Final(k) = k
        BY <4>2
      <4> HIDE DEF Trees
      <4> QED BY <3>2, <4>1, <4>3 DEF Marked
    <3>3. CASE ~(k <= 1) /\ ~Marked(k)
      <4>1. k - 1 \in 0..L
        BY <3>3
      <4>2. Trees(k) = Trees(k - 1)
        <5>1. ASSUME NEW j \in Trees(k) PROVE j \in Trees(k - 1)
          BY <3>3, <5>1
        <5>2. ASSUME NEW j \in Trees(k - 1) PROVE j \in Trees(k)
          BY <3>3, <5>2
        <5> QED BY <5>1, <5>2
      <4> HIDE DEF Trees
      <4>3. Final(k) = Final(k - 1)
        BY <4>2 DEF Final
      <4>4. g[k - 1] = IF Trees(k - 1) # {} THEN {SubSeq(start, 1, Final(k - 1))} ELSE {}
        BY <4>1
      <4> QED BY <3>3, <4>2, <4>3, <4>4 DEF Marked
    <3> QED BY <3>1, <3>2, <3>3
  <2> HIDE DEF Step
  <2> QED BY <2>1
<1>3. \E f : Solves(f)
  <2> HIDE DEF Solves, g
  <2> QED BY <1>2
<1> DEFINE Nearest == CHOOSE f : Solves(f)
<1>4. Solves(Nearest)
  <2> HIDE DEF Solves
  <2> QED BY <1>3
<1>5. GitToplevelOf(start, markers) = Nearest[L]
  BY DEF GitToplevelOf
<1> HIDE DEF Nearest, g
<1>6. \A k \in 0..L : Nearest[k] = Step(Nearest, k)
  <2> HIDE DEF Step
  <2> QED BY <1>4
<1>a. /\ n \in 0..L /\ (n > 0 \/ L = 0) /\ Marked(n)
      /\ \A j \in 0..L : (j > 0 \/ L = 0) /\ Marked(j) => j <= n
  BY DEF WorkTreesOver
<1>7. \A k \in n..L : Nearest[k] = {SubSeq(start, 1, n)}
  <2> DEFINE Bad == {k \in n..L : Nearest[k] # {SubSeq(start, 1, n)}}
  <2> SUFFICES ASSUME Bad # {} PROVE FALSE
    OBVIOUS
  <2>1. PICK k \in Bad : \A m \in Bad : k <= m
    <3>1. Bad \in SUBSET Nat
      BY <1>a
    <3> HIDE DEF Bad
    <3> QED BY <3>1, LeastNumber
  <2>2. k \in 0..L
    BY <1>a, <2>1
  <2>3. k # n
    BY <1>6, <1>a, <2>1, <2>2
  <2>4. k - 1 \in n..L /\ ~(k <= 1) /\ k > n
    BY <1>a, <2>1, <2>2, <2>3
  <2>5. ~Marked(k)
    BY <1>a, <2>2, <2>4
  <2>6. Nearest[k] = Nearest[k - 1]
    BY <1>6, <2>2, <2>4, <2>5
  <2>7. k - 1 \notin Bad
    BY <1>a, <2>1, <2>4
  <2> QED BY <2>1, <2>4, <2>6, <2>7
<1> QED BY <1>5, <1>7, <1>a

\* What is above a path, as SettingsSafe writes it.
LEMMA LongestIsMax ==
  ASSUME NEW k \in Nat, NEW S \in SUBSET (0..k), S # {}
  PROVE  Max(S) \in S /\ \A j \in S : j <= Max(S)
<1>1. \E m \in S : \A j \in S : m >= j
  <2>1. PICK m \in S : \A j \in S : j <= m
    BY LargestNumber
  <2> QED BY <2>1
<1>2. Max(S) = CHOOSE m \in S : \A j \in S : m >= j
  BY DEF Max
<1>3. Max(S) \in S /\ \A j \in S : Max(S) >= j
  BY <1>1, <1>2, Zenon
<1> QED BY <1>3

\* A system whose links lead from paths to paths, and whose texts are of the
\* kinds a text can be.
IsSystem(system) ==
  /\ \A l \in DOMAIN system.links : IsList(l) /\ IsList(system.links[l])
  /\ \A f \in DOMAIN system.text :
       system.text[f].kind \in {"unreadable", "invalid", "empty", "section"}

LEMMA CanonicalPath ==
  ASSUME NEW path, IsList(path), NEW links,
         \A l \in DOMAIN links : IsList(l) /\ IsList(links[l])
  PROVE  Len(Canonical(path, links)) \in Nat
<1> DEFINE linked == {l \in DOMAIN links : IsPrefix(l, path)}
           link == CHOOSE l \in linked : TRUE
<1>1. CASE linked = {}
  <2>1. Canonical(path, links) = path
    BY <1>1 DEF Canonical
  <2> QED BY <2>1, ListOfSeq DEF IsList
<1>2. CASE linked # {}
  <2>1. link \in linked
    BY <1>2
  <2>2. Canonical(path, links) = links[link] \o SubSeq(path, Len(link) + 1, Len(path))
    BY <1>2 DEF Canonical
  <2>3. /\ Len(links[link]) \in Nat /\ Len(link) \in Nat /\ Len(path) \in Nat
        /\ IsList(links[link])
    <3>1. IsList(link) /\ IsList(links[link])
      BY <2>1
    <3> HIDE DEF link, linked
    <3> QED BY <3>1, ListOfSeq DEF IsList
  <2>4. SubSeq(path, Len(link) + 1, Len(path)) \in Seq(Members(path))
    <3> HIDE DEF link, linked
    <3>1. \A i \in (Len(link) + 1)..Len(path) : path[i] \in Members(path)
      <4>1. DOMAIN path = 1..Len(path)
        BY ListOfSeq DEF IsList
      <4> QED BY <2>3, <4>1 DEF Members
    <3> QED BY <2>3, <3>1, SubSeqProperties
  <2> HIDE DEF link, linked
  <2>5. links[link] \in Seq(Members(links[link])) /\ Members(links[link]) \subseteq Members(links[link]) \cup Members(path)
    BY <2>3 DEF IsList
  <2>6. /\ links[link] \in Seq(Members(links[link]) \cup Members(path))
        /\ SubSeq(path, Len(link) + 1, Len(path)) \in Seq(Members(links[link]) \cup Members(path))
    BY <2>4, <2>5, SeqMonotonic
  <2> QED BY <2>2, <2>6, ConcatProperties, LenProperties
<1> QED BY <1>1, <1>2

\* A section that turns remediation on is valid, and says so.
LEMMA SectionEnables ==
  ASSUME NEW section, SectionResult(section).status = "ENABLED"
  PROVE  /\ section.enabled = "true"
         /\ SectionResult(section).settings.mode = "remediate" =>
              SectionResult(section).settings.delivery = "agent"
         /\ SectionResult(section).settings.maxAttempts \in 1..3
<1> DEFINE delivery == Default(section.delivery, "user")
           mode == Default(section.mode, "observe")
           attempts == IF section.attempts = -1 THEN 2 ELSE section.attempts
           valid == /\ ~section.extra
                    /\ section.enabled \in {"absent", "true", "false"}
                    /\ delivery \in {"user", "agent"} /\ mode \in {"observe", "remediate"}
                    /\ mode = "remediate" => delivery = "agent"
                    /\ section.attempts # -1 => mode = "remediate" /\ section.attempts \in 1..3
           settings == [delivery |-> delivery, mode |-> mode, maxAttempts |-> attempts]
<1>1. SectionResult(section) = IF ~valid THEN InvalidSettings("USER_CONFIG_INVALID")
                               ELSE IF section.enabled # "true" THEN Disabled ELSE Enabled(settings)
  BY DEF SectionResult
<1> HIDE DEF delivery, mode
<1>2. valid /\ section.enabled = "true"
  <2> HIDE DEF valid, settings
  <2>1. InvalidSettings("USER_CONFIG_INVALID").status # "ENABLED" /\ Disabled.status # "ENABLED"
    BY DEF InvalidSettings, Disabled
  <2> QED BY <1>1, <2>1
<1>3. SectionResult(section).settings = settings
  <2> HIDE DEF settings, valid
  <2> QED BY <1>1, <1>2 DEF Enabled
<1>4. attempts \in 1..3
  BY <1>2
<1> HIDE DEF attempts, valid
<1>5. settings.mode = mode /\ settings.delivery = delivery /\ settings.maxAttempts = attempts
  OBVIOUS
<1>6. mode = "remediate" => delivery = "agent"
  BY <1>2 DEF valid
<1> QED BY <1>2, <1>3, <1>4, <1>5, <1>6

\* What SettingsSafe says of a result that turns remediation on.
ReadOutside(environment, root, system, result) ==
  LET realRoot == Canonical(root, system.links)
      above == WorkTreesOver(realRoot, system.markers)
      path == Canonical(UserConfigFileOf(environment), system.links)
  IN  /\ path \in DOMAIN system.text /\ system.text[path].kind = "section"
      /\ system.text[path].section.enabled = "true"
      /\ ~IsPrefix(Lowered(realRoot), Lowered(path))
      /\ above # {} => ~IsPrefix(Lowered(SubSeq(realRoot, 1, Max(above))), Lowered(path))
      /\ result.settings.mode = "remediate" => result.settings.delivery = "agent"
      /\ result.settings.maxAttempts \in 1..3

LEMMA EnabledOutside ==
  ASSUME NEW environment, NEW root, NEW system, NEW result, IsList(root), IsSystem(system),
         result = LoadUserSettings(environment, root, system), result.status = "ENABLED"
  PROVE  ReadOutside(environment, root, system, result)
<1>a. PICK path : path = Canonical(UserConfigFileOf(environment), system.links)
  OBVIOUS
<1>b. PICK realRoot : realRoot = Canonical(root, system.links)
  OBVIOUS
<1>c. PICK above : above = WorkTreesOver(realRoot, system.markers)
  OBVIOUS
<1>1. InvalidSettings("USER_CONFIG_IN_PROJECT").status # "ENABLED" /\ Disabled.status # "ENABLED"
  BY DEF InvalidSettings, Disabled
<1>2. /\ path \in DOMAIN system.text /\ ~IsInsideProject(path, root, system)
      /\ result = TextResult(system.text[path])
  <2>1. result = IF UserConfigFileOf(environment) = NoFile \/ path \notin DOMAIN system.text THEN Disabled
                 ELSE IF IsInsideProject(path, root, system) THEN InvalidSettings("USER_CONFIG_IN_PROJECT")
                 ELSE TextResult(system.text[path])
    BY <1>a DEF LoadUserSettings
  <2> QED BY <1>1, <2>1
<1>3. system.text[path].kind = "section" /\ result = SectionResult(system.text[path].section)
  <2> DEFINE text == system.text[path]
  <2>1. text.kind \in {"unreadable", "invalid", "empty", "section"}
    BY <1>2 DEF IsSystem
  <2>2. text.kind = "unreadable" => result = InvalidSettings("USER_CONFIG_UNREADABLE")
    BY <1>2 DEF TextResult
  <2>3. text.kind = "invalid" => result = InvalidSettings("USER_CONFIG_INVALID")
    BY <1>2 DEF TextResult
  <2>4. text.kind = "empty" => result = Disabled
    BY <1>2 DEF TextResult
  <2>5. text.kind = "section" => result = SectionResult(text.section)
    BY <1>2 DEF TextResult
  <2>6. \A reason : InvalidSettings(reason).status # "ENABLED"
    BY DEF InvalidSettings
  <2> HIDE DEF text
  <2>7. text.kind = "section" /\ result = SectionResult(text.section)
    BY <1>1, <2>1, <2>2, <2>3, <2>4, <2>5, <2>6
  <2> QED BY <2>7 DEF text
<1>4. /\ system.text[path].section.enabled = "true"
      /\ result.settings.mode = "remediate" => result.settings.delivery = "agent"
      /\ result.settings.maxAttempts \in 1..3
  BY <1>3, SectionEnables
<1>5. Len(realRoot) \in Nat
  BY <1>b, CanonicalPath DEF IsSystem
<1> DEFINE toplevel == GitToplevelOf(realRoot, system.markers)
<1>6. /\ ~IsPrefix(Lowered(realRoot), Lowered(path))
      /\ \A directory \in toplevel : ~IsPrefix(Lowered(directory), Lowered(path))
  BY <1>2, <1>b DEF IsInsideProject, IsInsidePath
<1>7. ASSUME above # {} PROVE ~IsPrefix(Lowered(SubSeq(realRoot, 1, Max(above))), Lowered(path))
  <2>1. above \in SUBSET (0..Len(realRoot))
    BY <1>c DEF WorkTreesOver
  <2>2. Max(above) \in above /\ \A j \in above : j <= Max(above)
    BY <1>5, <1>7, <2>1, LongestIsMax
  <2> DEFINE n == Max(above)
  <2> HIDE DEF n
  <2>3. toplevel = {SubSeq(realRoot, 1, n)}
    BY <1>5, <1>c, <2>2, ToplevelIsNearest DEF n
  <2> QED BY <1>6, <2>3 DEF n
<1> QED BY <1>a, <1>b, <1>c, <1>2, <1>3, <1>4, <1>6, <1>7, Zenon DEF ReadOutside

\* The file system the settings process sees, and the projects it is asked about.
HasPaths(now) ==
  /\ {"environment", "system", "roots"} \subseteq DOMAIN now
  /\ IsSystem(now.system)
  /\ \A root \in now.roots : IsList(root)

\* The worlds at the start have them; the user's changes keep them, and leave
\* the environment the process was started with.
WorldsHavePaths == \A start \in Worlds : HasPaths(start.world)
EditsKeepPaths ==
  \A now : HasPaths(now) => \A edited \in UserEdits(now) : /\ HasPaths(edited)
                                                           /\ edited.environment = now.environment

\* A remembered answer is what the first look at the root came to.
SettingsInv ==
  /\ HasPaths(world)
  /\ \A root \in DOMAIN remembered :
       /\ IsList(root) /\ IsSystem(remembered[root].at)
       /\ remembered[root].result = LoadUserSettings(world.environment, root, remembered[root].at)

LEMMA SettingsStep ==
  ASSUME EditsKeepPaths, SettingsInv, [SetupNext]_setupVars
  PROVE  SettingsInv'
<1>1. ASSUME HasPaths(world)', world'.environment = world.environment, remembered' = remembered
      PROVE  SettingsInv'
  BY <1>1 DEF SettingsInv
<1>2. ASSUME UNCHANGED <<world, remembered>>
      PROVE  SettingsInv'
  BY <1>2 DEF SettingsInv, HasPaths
<1>3. ASSUME NEW root \in world.roots, LoadSettings(root)
      PROVE  SettingsInv'
  <2>1. world' = world /\ HasPaths(world)
    BY <1>3 DEF LoadSettings, SettingsInv
  <2>2. CASE root \in DOMAIN remembered
    BY <1>2, <1>3, <2>1, <2>2 DEF LoadSettings
  <2>3. CASE root \notin DOMAIN remembered
    <3> DEFINE answer == [at |-> world.system,
                          result |-> LoadUserSettings(world.environment, root, world.system)]
    <3>1. remembered' = [r \in DOMAIN remembered \cup {root} |->
                           IF r \in DOMAIN remembered THEN remembered[r] ELSE answer]
      BY <1>3, <2>3 DEF LoadSettings
    <3>2. answer.at = world.system /\ answer.result = LoadUserSettings(world.environment, root, world.system)
      OBVIOUS
    <3> HIDE DEF answer
    <3>3. DOMAIN remembered' = DOMAIN remembered \cup {root}
      BY <3>1
    <3>4. \A r \in DOMAIN remembered : remembered'[r] = remembered[r]
      BY <3>1
    <3>5. remembered'[root] = answer
      BY <2>3, <3>1
    <3>6. IsList(root) /\ IsSystem(world.system)
      BY <1>3, <2>1 DEF HasPaths
    <3> QED BY <2>1, <3>2, <3>3, <3>4, <3>5, <3>6 DEF SettingsInv
  <2> QED BY <2>2, <2>3
<1>4. CASE UserChanges
  <2>1. PICK edited \in UserEdits(world) : world' = edited
    BY <1>4 DEF UserChanges
  <2>2. HasPaths(edited) /\ edited.environment = world.environment
    BY <2>1 DEF EditsKeepPaths, SettingsInv
  <2>3. HasPaths(world)' /\ world'.environment = world.environment /\ remembered' = remembered
    BY <1>4, <2>1, <2>2 DEF UserChanges, HasPaths
  <2> QED BY <1>1, <2>3
<1>5. ASSUME NEW p \in DOMAIN commands, LoginWrites(p)
      PROVE  SettingsInv'
  <2>1. world' = world \/ world' = [world EXCEPT !.keyring = "key"]
    BY <1>5 DEF LoginWrites
  <2>2. remembered' = remembered
    BY <1>5 DEF LoginWrites
  <2> QED BY <1>1, <2>1, <2>2 DEF SettingsInv, HasPaths
<1>6. ASSUME NEW p \in DOMAIN commands, InstallWrites(p)
      PROVE  SettingsInv'
  <2>1. \/ world' = world
        \/ world' = [world EXCEPT !.files[commands[p].target].json = WithEntry(commands[p].read)]
    BY <1>6 DEF InstallWrites
  <2>2. remembered' = remembered
    BY <1>6 DEF InstallWrites
  <2>3. /\ world'.environment = world.environment /\ world'.system = world.system
        /\ world'.roots = world.roots /\ DOMAIN world' = DOMAIN world
    <3>1. CASE world' = world
      BY <3>1
    <3>2. CASE world' = [world EXCEPT !.files[commands[p].target].json = WithEntry(commands[p].read)]
      <4> DEFINE file == [world.files EXCEPT ![commands[p].target].json = WithEntry(commands[p].read)]
      <4>1. world' = [world EXCEPT !.files = file]
        BY <3>2
      <4> HIDE DEF file
      <4> QED BY <4>1 DEF SettingsInv, HasPaths
    <3> QED BY <2>1, <3>1, <3>2
  <2> QED BY <1>1, <2>2, <2>3 DEF SettingsInv, HasPaths
<1>7. ASSUME NEW p \in DOMAIN commands,
             \/ \E prompted \in {"ABORTED", "NOT_A_TTY", "PROMPT_FAILURE", "blank", "key"} :
                  LoginReads(p, prompted)
             \/ InstallReads(p)
             \/ \E answer \in {"CONFIRMED", "DECLINED", "NOT_A_TTY"} : InstallAnswered(p, answer)
             \/ DoctorCredential(p) \/ DoctorRules(p) \/ DoctorConfig(p) \/ DoctorEnds(p)
             \/ \E target \in Targets : DoctorInspects(p, target)
      PROVE  SettingsInv'
  <2>1. UNCHANGED <<world, remembered>>
    BY <1>7 DEF LoginReads, InstallReads, InstallAnswered, DoctorCredential, DoctorRules, DoctorConfig,
                DoctorEnds, DoctorInspects
  <2> QED BY <1>2, <2>1
<1>8. CASE UNCHANGED setupVars
  BY <1>2, <1>8 DEF setupVars
<1> QED BY <1>3, <1>4, <1>5, <1>6, <1>7, <1>8 DEF SetupNext

LEMMA SettingsInvSafe ==
  ASSUME SettingsInv
  PROVE  SettingsSafe
<1>1. ASSUME NEW root \in DOMAIN remembered, remembered[root].result.status = "ENABLED"
      PROVE  ReadOutside(world.environment, root, remembered[root].at, remembered[root].result)
  <2>1. /\ IsList(root) /\ IsSystem(remembered[root].at)
        /\ remembered[root].result = LoadUserSettings(world.environment, root, remembered[root].at)
    BY <1>1, Zenon DEF SettingsInv
  <2> QED BY <1>1, <2>1, EnabledOutside, Zenon
<1> QED BY <1>1, Zenon DEF SettingsSafe, ReadOutside

\* Whatever links, markers, letter cases and texts there are and however the user
\* changes them: a process that has remediation on for a project read so, when it
\* first looked, in a file outside the project and outside the nearest working tree
\* below the file system's root that the project is in (containment.ts:20-47), and
\* what it read suits the chains.
THEOREM SetupSettingsSafe ==
  ASSUME WorldsHavePaths, EditsKeepPaths
  PROVE  SetupSpec => []SettingsSafe
<1>1. SetupInit => SettingsInv
  BY DEF SetupInit, SettingsInv, WorldsHavePaths
<1>2. SettingsInv /\ [SetupNext]_setupVars => SettingsInv'
  BY SettingsStep
<1>3. SettingsInv => SettingsSafe
  BY SettingsInvSafe
<1> QED BY <1>1, <1>2, <1>3, PTL DEF SetupSpec
=============================================================================
