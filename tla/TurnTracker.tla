----------------------------- MODULE TurnTracker -----------------------------
(***************************************************************************)
(* How the OpenCode plugin decides which changes belong to which execution *)
(* (packages/opencode-adapter/src/attribution/turn-tracker.ts, execution.ts,*)
(* turn-snapshot.ts, with the serialized queue of plugin/src/runtime.ts).  *)
(* The host keeps running while the plugin catches up with its events: a   *)
(* start snapshot, a context read and an end diff each see the working     *)
(* tree and the session as they are when the read happens.                 *)
(*                                                                         *)
(* Execution e = <<s, k>> is the k-th of session s.  It makes at most one  *)
(* change the working-tree diff shows and one it does not (a path Git      *)
(* ignores); a change stands for its path.  The host is external.          *)
(***************************************************************************)
EXTENDS Naturals, Sequences, FiniteSets

CONSTANTS
  Sessions,
  Parent,            \* the parent session of a nested session, or None
  None,
  MaxExecutions,     \* bound: executions of each session
  MaxReplies,        \* bound: completed assistant messages of one execution
  MaxOpenSnapshots,  \* MAX_OPEN_SNAPSHOTS
  Kinds,             \* the changes executions make: subset of {"shown", "ignored"}
  Faults             \* what may go wrong around the plugin: subset of FaultKinds

\* "read": a host read fails.  "repeat": a succeeded event comes twice.
\* "interrupt": an execution ends without success.
FaultKinds == {"read", "repeat", "interrupt"}

ASSUME TrackerAssumption ==
  /\ None \notin Sessions
  /\ Parent \in [Sessions -> Sessions \union {None}]
  /\ \A s \in Sessions : Parent[s] # None => Parent[Parent[s]] = None
  /\ MaxExecutions \in [Sessions -> Nat]
  /\ MaxReplies \in Nat /\ MaxOpenSnapshots \in Nat \ {0}
  /\ Kinds \subseteq {"shown", "ignored"}
  /\ Faults \subseteq FaultKinds

VARIABLES
  \* the host
  context,      \* per session, the replies completed by each of its executions
  running,      \* sessions with an execution in progress
  made,         \* changes made so far: <<execution, "shown" or "ignored">>
  events,       \* lifecycle events not yet handled by the plugin
  \* the tracker
  generations,  \* executions started per session, as arrived
  open,         \* open executions in insertion order
  nestedRoots,  \* the root session of each nested session in progress, or None
  writes,       \* changes the write-tool hook recorded per session
  processed,    \* assistant messages already attributed
  tasks,        \* the serialized queue
  work,         \* the finish in progress at the head of the queue, or None
  \* history
  attributed,   \* the attributed turns, in order
  overlaps,     \* pairs of executions that were once in progress together
  crossings     \* ways the host overtook the plugin, per execution

hostVars == <<context, running, made, events>>
trackerVars == <<generations, open, nestedRoots, writes, processed, tasks, work>>
historyVars == <<attributed, overlaps, crossings>>
vars == <<context, running, made, events,
          generations, open, nestedRoots, writes, processed, tasks, work,
          attributed, overlaps, crossings>>

Elements(q) == {q[i] : i \in DOMAIN q}
Current(s) == <<s, Len(context[s])>>
Roots == {s \in Sessions : Parent[s] = None}
Children(s) == {n \in Sessions : Parent[n] = s}

Event(kind, s) == [kind |-> kind, execution |-> Current(s), repeated |-> FALSE]
SessionOf(e) == e[1]

\* What the working-tree diff shows.
Tree == {c \in made : c[2] = "shown"}

-----------------------------------------------------------------------------
(* The host.  A nested session runs inside an execution of its parent.      *)

\* Executions that ended and whose end the plugin has not finished with.
Unsettled ==
  {t.execution : t \in {x \in Elements(events) \union Elements(tasks) : x.kind # "STARTED"}}
    \union (IF work = None THEN {} ELSE {work.execution})

HostStart(s) ==
  /\ s \notin running
  /\ Len(context[s]) < MaxExecutions[s]
  /\ Parent[s] # None => Parent[s] \in running
  /\ context' = [context EXCEPT ![s] = Append(@, 0)]
  /\ running' = running \union {s}
  /\ LET e == <<s, Len(context[s]) + 1>>
     IN /\ events' = Append(events, [kind |-> "STARTED", execution |-> e, repeated |-> FALSE])
        /\ overlaps' = overlaps \union {{e, Current(o)} : o \in running}
        /\ crossings' = crossings
             \union {<<u, "late">> : u \in Unsettled}
             \union {<<e, "crossed">> : u \in {x \in Unsettled : SessionOf(x) = s}}
  /\ UNCHANGED <<made, attributed>> /\ UNCHANGED trackerVars

\* The model finishes one more assistant message of the execution.
HostReply(s) ==
  /\ s \in running
  /\ context[s][Len(context[s])] < MaxReplies
  /\ context' = [context EXCEPT ![s][Len(context[s])] = @ + 1]
  /\ UNCHANGED <<running, made, events>> /\ UNCHANGED trackerVars /\ UNCHANGED historyVars

\* The execution whose patch a change of s belongs to: its own, or its parent's.
OwnerOf(s) == IF Parent[s] = None THEN Current(s) ELSE Current(Parent[s])

\* A write tool changes a path; the tool hook (plugin.ts) calls recordWrite.
HostWrite(s, kind) ==
  /\ s \in running
  /\ LET change == <<Current(s), kind>>
     IN /\ change \notin made
        /\ made' = made \union {change}
        /\ writes' = [writes EXCEPT ![s] = @ \union {change}]
  /\ crossings' = crossings \union
       (IF \E o \in Elements(open) : o.execution = OwnerOf(s)
        THEN {} ELSE {<<OwnerOf(s), "early">>})
  /\ UNCHANGED <<context, running, events, attributed, overlaps>>
  /\ UNCHANGED <<generations, open, nestedRoots, processed, tasks, work>>

HostEnd(s) ==
  /\ s \in running
  /\ Children(s) \intersect running = {}
  /\ running' = running \ {s}
  /\ \E kind \in {"SUCCEEDED"} \union (IF "interrupt" \in Faults THEN {"ENDED_OTHER"} ELSE {}) :
       events' = Append(events, Event(kind, s))
  /\ UNCHANGED <<context, made>> /\ UNCHANGED trackerVars /\ UNCHANGED historyVars

\* The host sends a succeeded event twice.
HostRepeat ==
  /\ "repeat" \in Faults
  /\ Len(events) = 1
  /\ Head(events).kind = "SUCCEEDED" /\ ~Head(events).repeated
  /\ LET copy == [Head(events) EXCEPT !.repeated = TRUE]
     IN events' = <<copy, copy>>
  /\ UNCHANGED <<context, running, made>> /\ UNCHANGED trackerVars /\ UNCHANGED historyVars

-----------------------------------------------------------------------------
(* The tracker.                                                             *)

\* onEvent: noteStarted stamps the generation at arrival; the work is queued.
OnEvent ==
  /\ events # <<>>
  /\ LET e == Head(events)
         s == SessionOf(e.execution)
         generation == generations[s] + 1
     IN \/ /\ e.kind = "STARTED"
           /\ generations' = [generations EXCEPT ![s] = generation]
           /\ tasks' = Append(tasks, [kind |-> "STARTED", execution |-> e.execution,
                                      generation |-> generation])
        \/ /\ e.kind # "STARTED"
           /\ tasks' = Append(tasks, e)
           /\ UNCHANGED generations
  /\ events' = Tail(events)
  /\ UNCHANGED <<context, running, made>>
  /\ UNCHANGED <<open, nestedRoots, writes, processed, work>> /\ UNCHANGED historyVars

Without(q, i) == SubSeq(q, 1, i - 1) \o SubSeq(q, i + 1, Len(q))

IsOpen(s) == \E o \in Elements(open) : SessionOf(o.execution) = s
OpenOf(s) == CHOOSE o \in Elements(open) : SessionOf(o.execution) = s
WithoutOpen(s) ==
  IF IsOpen(s) THEN Without(open, CHOOSE i \in DOMAIN open : SessionOf(open[i].execution) = s) ELSE open

RootOf(s) == IF IsOpen(s) THEN s ELSE nestedRoots[s]

\* Variant of Opened: only the new execution is flagged.
OpenedFlaggingNew(task, snapshot) ==
  LET others == WithoutOpen(SessionOf(task.execution))
      kept == IF Len(others) >= MaxOpenSnapshots THEN Tail(others) ELSE others
  IN Append(kept, [execution |-> task.execution, generation |-> task.generation,
                   snapshot |-> snapshot, concurrent |-> others # <<>>])

\* start: every other open execution and the new one flag each other; the
\* oldest is evicted at the cap.
Opened(task, snapshot) ==
  LET s == SessionOf(task.execution)
      others == WithoutOpen(s)
      flagged == [i \in DOMAIN others |-> [others[i] EXCEPT !.concurrent = TRUE]]
      kept == IF Len(flagged) >= MaxOpenSnapshots THEN Tail(flagged) ELSE flagged
  IN Append(kept, [execution |-> task.execution, generation |-> task.generation,
                   snapshot |-> snapshot, concurrent |-> others # <<>>])

TakeTask(kind) ==
  /\ work = None
  /\ tasks # <<>>
  /\ Head(tasks).kind = kind
  /\ tasks' = Tail(tasks)

\* start: the parent read may fail (null, as without a parent), and the
\* snapshot is the diff at the time of the read, or null when it fails.
RunStart ==
  /\ TakeTask("STARTED")
  /\ LET task == Head(tasks)
         s == SessionOf(task.execution)
         root == IF Parent[s] = None THEN None ELSE RootOf(Parent[s])
     IN \/ /\ root # None
           /\ nestedRoots' = [nestedRoots EXCEPT ![s] = root]
           /\ UNCHANGED open
        \/ /\ root = None \/ "read" \in Faults
           /\ \E snapshot \in {Tree} \union (IF "read" \in Faults THEN {None} ELSE {}) :
                open' = Opened(task, snapshot)
           /\ UNCHANGED nestedRoots
  /\ UNCHANGED <<generations, writes, processed, work>>
  /\ UNCHANGED hostVars /\ UNCHANGED historyVars

\* Variant of CloseNested: the writes are dropped.
CloseNestedForgetting(s) ==
  /\ nestedRoots' = [nestedRoots EXCEPT ![s] = None]
  /\ writes' = [writes EXCEPT ![s] = {}]

\* closeNested: the writes of a nested session move to its root.
CloseNested(s) ==
  /\ nestedRoots' = [nestedRoots EXCEPT ![s] = None]
  /\ writes' = [writes EXCEPT ![nestedRoots[s]] = @ \union writes[s], ![s] = {}]

\* Variant of RunDiscard: the writes of an interrupted execution stay.
RunDiscardKeepingWrites ==
  /\ TakeTask("ENDED_OTHER")
  /\ LET s == SessionOf(Head(tasks).execution)
     IN \/ nestedRoots[s] # None /\ CloseNested(s) /\ UNCHANGED open
        \/ nestedRoots[s] = None /\ open' = WithoutOpen(s) /\ UNCHANGED <<nestedRoots, writes>>
  /\ UNCHANGED <<generations, processed, work>> /\ UNCHANGED hostVars /\ UNCHANGED historyVars

RunDiscard ==
  /\ TakeTask("ENDED_OTHER")
  /\ LET s == SessionOf(Head(tasks).execution)
     IN \/ /\ nestedRoots[s] # None
           /\ CloseNested(s)
           /\ UNCHANGED open
        \/ /\ nestedRoots[s] = None
           /\ open' = WithoutOpen(s)
           /\ writes' = [writes EXCEPT ![s] = {}]
           /\ UNCHANGED nestedRoots
  /\ UNCHANGED <<generations, processed, work>> /\ UNCHANGED hostVars /\ UNCHANGED historyVars

\* finish, up to its first await: a nested session, a lost start, a race and
\* a concurrent session never go further; finishWithoutStart attributes
\* nothing, so its context read is left out.
RunFinish ==
  /\ TakeTask("SUCCEEDED")
  /\ LET s == SessionOf(Head(tasks).execution)
     IN \/ /\ nestedRoots[s] # None
           /\ CloseNested(s)
           /\ UNCHANGED <<open, work>>
        \/ /\ nestedRoots[s] = None
           /\ open' = WithoutOpen(s)
           /\ writes' = [writes EXCEPT ![s] = {}]
           /\ work' = IF /\ IsOpen(s)
                         /\ generations[s] = OpenOf(s).generation
                         /\ ~OpenOf(s).concurrent
                      THEN [execution |-> Head(tasks).execution, snapshot |-> OpenOf(s).snapshot,
                            written |-> writes[s], reply |-> None]
                      ELSE None
           /\ UNCHANGED nestedRoots
  /\ UNCHANGED <<generations, processed>> /\ UNCHANGED hostVars /\ UNCHANGED historyVars

\* locateExecution: the latest execution of the session at the time of the
\* read, named by its last completed assistant message; None without one.
Located(s) ==
  IF context[s] = <<>> \/ context[s][Len(context[s])] = 0 THEN None
  ELSE <<Current(s), context[s][Len(context[s])]>>

\* attributeExecution: the context read, and the checks before the diff.
ReadMessages ==
  /\ work # None
  /\ work.reply = None
  /\ LET reply == Located(SessionOf(work.execution))
     IN \/ /\ reply # None /\ reply \notin processed /\ work.snapshot # None
           /\ work' = [work EXCEPT !.reply = reply]
        \/ /\ reply = None \/ reply \in processed \/ work.snapshot = None \/ "read" \in Faults
           /\ work' = None
  /\ UNCHANGED <<generations, open, nestedRoots, writes, processed, tasks>>
  /\ UNCHANGED hostVars /\ UNCHANGED historyVars

\* The end diff; a recorded write it does not show makes the turn incomplete.
\* A cap or an unreadable file has the same effect as a failed read.
ReadTree ==
  /\ work # None
  /\ work.reply # None
  /\ \/ /\ work.written \subseteq (work.snapshot \union Tree)
        /\ processed' = processed \union {work.reply}
        /\ attributed' = Append(attributed,
             [execution |-> work.execution, reply |-> work.reply,
              files |-> Tree \ work.snapshot])
     \/ /\ ~(work.written \subseteq (work.snapshot \union Tree)) \/ "read" \in Faults
        /\ UNCHANGED <<processed, attributed>>
  /\ work' = None
  /\ UNCHANGED <<generations, open, nestedRoots, writes, tasks, overlaps, crossings>>
  /\ UNCHANGED hostVars

-----------------------------------------------------------------------------

Init ==
  /\ context = [s \in Sessions |-> <<>>]
  /\ running = {}
  /\ made = {}
  /\ events = <<>>
  /\ generations = [s \in Sessions |-> 0]
  /\ open = <<>>
  /\ nestedRoots = [s \in Sessions |-> None]
  /\ writes = [s \in Sessions |-> {}]
  /\ processed = {}
  /\ tasks = <<>>
  /\ work = None
  /\ attributed = <<>>
  /\ overlaps = {}
  /\ crossings = {}

Host ==
  \/ \E s \in Sessions :
       \/ HostStart(s) \/ HostReply(s) \/ HostEnd(s)
       \/ \E kind \in Kinds : HostWrite(s, kind)
  \/ HostRepeat

Queue == RunStart \/ RunDiscard \/ RunFinish \/ ReadMessages \/ ReadTree

Next == Host \/ OnEvent \/ Queue

Spec == Init /\ [][Next]_vars

-----------------------------------------------------------------------------
(* Properties.                                                              *)

Attributed == Elements(attributed)

\* The changes that belong to execution e: its own and, for an execution of a
\* root session, those of the nested sessions that ran inside it.
Own(e) ==
  {c \in made : \/ c[1] = e
                \/ Parent[SessionOf(c[1])] = SessionOf(e) /\ {c[1], e} \in overlaps}

\* A turn is never attributed to an execution that ran while an execution of
\* another root session did, in whatever order the two started and ended
\* (docs/configuration.md: "Overlapping executions are not reviewed").
OverlapRefused ==
  \A t \in Attributed : \A pair \in overlaps :
    t.execution \in pair => \A e \in pair \ {t.execution} : SessionOf(e) \notin Roots

\* An attributed patch holds no change of anything but its execution: nothing
\* that was in the tree before, that an interrupted execution left, or that
\* another session made; given that no execution started between its end and
\* the end of its attribution.
PatchIsOwn ==
  \A t \in Attributed :
    <<t.execution, "late">> \notin crossings => t.files \subseteq Own(t.execution)

\* The executions of nested sessions that ran inside execution e.
Inside(e) ==
  {f \in UNION overlaps : {e, f} \in overlaps /\ Parent[SessionOf(f)] = SessionOf(e)}

\* ... and it holds every change its execution made, given that the start
\* snapshot was taken before the first of them and that no nested session was
\* started again before its last end was worked off.  In particular an execution
\* that wrote where the diff does not look is never attributed.
PatchIsWhole ==
  \A t \in Attributed :
    /\ <<t.execution, "early">> \notin crossings
    /\ \A f \in Inside(t.execution) : <<f, "crossed">> \notin crossings
    => Own(t.execution) \subseteq t.files

\* No assistant message is reviewed twice, although a finish that reads the
\* context late takes the message of the next execution, whose own finish comes
\* later, and the host may repeat an event (deduplicator.ts); and the reply a
\* turn is named by is one of its own execution, unless it was read late.
ReplyIsOwn ==
  /\ \A i, j \in DOMAIN attributed : attributed[i].reply = attributed[j].reply => i = j
  /\ \A t \in Attributed :
       <<t.execution, "late">> \notin crossings => t.reply[1] = t.execution

\* A turn that is reviewed is the user's: its own reply, and its own patch.
AttributionExact == ReplyIsOwn /\ PatchIsOwn /\ PatchIsWhole
=============================================================================
