--------------------------- MODULE MCTurnTracker ---------------------------
(***************************************************************************)
(* TLC instances of TurnTracker, six of them in one run: two root sessions *)
(* of which one runs twice; one that runs twice with changes the diff does *)
(* not show, and two that run once, while events repeat and executions are *)
(* interrupted; a session nested in another while host reads fail; a       *)
(* nested session that runs twice inside one execution while events        *)
(* repeat; and an execution that follows an interrupted or nested one.     *)
(***************************************************************************)
EXTENDS TurnCoverage

CONSTANTS p, q, n

VARIABLE scene

NestedInP == [s \in Sessions |-> IF s = n THEN p ELSE None]
Times(ofP, ofQ, ofN) ==
  [s \in Sessions |-> CASE s = p -> ofP [] s = q -> ofQ [] s = n -> ofN]
TwoAndOne == Times(2, 1, 0)

Twice == INSTANCE TurnTracker
  WITH MaxExecutions <- Times(2, 0, 0), Kinds <- {"shown", "ignored"},
       Faults <- {"interrupt", "repeat"}
Aside == INSTANCE TurnTracker
  WITH MaxExecutions <- Times(1, 1, 0), Faults <- {"interrupt", "repeat"}
Nested == INSTANCE TurnTracker
  WITH MaxExecutions <- Times(1, 0, 1), MaxOpenSnapshots <- 1,
       Kinds <- {"shown", "ignored"}, Faults <- {"interrupt", "read"}
Again == INSTANCE TurnTracker
  WITH MaxExecutions <- Times(1, 0, 2), Kinds <- {"ignored"}, Faults <- {"repeat"}
Carried == INSTANCE TurnTracker
  WITH MaxExecutions <- Times(2, 0, 1), Kinds <- {"ignored"}, Faults <- {"interrupt"}

ScenesInit == scene \in {"overlap", "twice", "aside", "nested", "again", "carried"} /\ Init /\ spoilt = {}

ScenesNext ==
  /\ UNCHANGED scene
  /\ \/ scene = "overlap" /\ Next
     \/ scene = "twice" /\ Twice!Next
     \/ scene = "aside" /\ Aside!Next
     \/ scene = "nested" /\ Nested!Next
     \/ scene = "again" /\ Again!Next
     \/ scene = "carried" /\ Carried!Next
  /\ Spoils

ScenesSpec == ScenesInit /\ [][ScenesNext]_<<vars, spoilt, scene>>
=============================================================================
