---------------------------- MODULE TurnCoverage ----------------------------
(***************************************************************************)
(* What the tracker owes the user in return for what it refuses: TurnTracker *)
(* says which turns must not be attributed, this module which must be.     *)
(* Its one variable is history: the tracker's steps are as they are.       *)
(***************************************************************************)
EXTENDS TurnTracker

VARIABLE spoilt   \* executions that ended without success, or of which a host read failed

\* The execution that started in this step without the snapshot, or the parent, the
\* host was asked for.
UnreadAtStart ==
  IF tasks = <<>> \/ tasks' # Tail(tasks) \/ nestedRoots' # nestedRoots THEN {}
  ELSE {e \in {Head(tasks).execution} :
          /\ Head(tasks).kind = "STARTED"
          /\ \/ Parent[SessionOf(e)] # None /\ RootOf(Parent[SessionOf(e)]) # None
             \/ \E o \in Elements(open') : o.execution = e /\ o.snapshot = None}

\* The execution whose finish ended in this step although there was nothing against it.
UnreadAtEnd ==
  IF work = None \/ work' # None \/ attributed' # attributed THEN {}
  ELSE LET reply == Located(SessionOf(work.execution))
       IN IF \/ work.reply = None /\ reply # None /\ reply \notin processed /\ work.snapshot # None
             \/ work.reply # None /\ work.written \subseteq (work.snapshot \union Tree)
          THEN {work.execution} ELSE {}

Interrupted ==
  {e.execution : e \in {x \in Elements(events') : x.kind = "ENDED_OTHER" /\ SessionOf(x.execution) \in Roots}}

Spoils == spoilt' = spoilt \union UnreadAtStart \union UnreadAtEnd \union Interrupted

Executions == UNION {{<<s, k>> : k \in 1..Len(context[s])} : s \in Roots}

\* Its end has been worked off, and nothing waits behind it.
WorkedOff(e) == e \notin Unsettled /\ e \notin {Current(s) : s \in running}

\* Neither the execution nor one nested in it followed another of its session whose
\* end was still to be worked off, nor did the next one of the session follow it so.
InStep(e) ==
  \A f \in Inside(e) \union {e, <<SessionOf(e), e[2] + 1>>} : <<f, "crossed">> \notin crossings

\* No turn is lost in silence: an execution of a root session that succeeded with a
\* reply, ran beside no other root session and in step with its own, changed only what
\* the diff shows, and of which every host read was answered, is attributed as soon as
\* its end is worked off; whatever was written, nested, interrupted or repeated before
\* it (runtime.ts:14-24, "an attributed turn is reviewed").
CleanTurnsAttributed ==
  \A e \in Executions :
    /\ WorkedOff(e) /\ InStep(e)
    /\ (Inside(e) \union {e}) \intersect spoilt = {}
    /\ \A pair \in overlaps : e \in pair => \A f \in pair \ {e} : SessionOf(f) \notin Roots
    /\ context[SessionOf(e)][e[2]] > 0
    /\ \A c \in Own(e) : c[2] = "shown"
    => \E t \in Attributed : t.execution = e
=============================================================================
