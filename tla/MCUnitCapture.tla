--------------------------- MODULE MCUnitCapture ---------------------------
(***************************************************************************)
(* TLC instances of UnitCapture, three of them in one run: few calls and   *)
(* files, two states per file.  In the first, hooks of two calls and an    *)
(* agent race over two files, one of them refused, and nothing fails.  In  *)
(* the others one call goes through every kind of tool while hooks,        *)
(* markers, reads and sessions fail: over two prompts, or within one that  *)
(* ends without the host knowing of its background tasks.                  *)
(***************************************************************************)
EXTENDS UnitCapture

CONSTANTS c1, c2, f, g

VARIABLE scene   \* "races", "faults" or "stops"

MCForeign == {"other"}
MCContents == {"old", "new"} \cup MCForeign
AllTools == {"EDIT", "SHELL", "BACKGROUND", "MCP"}

Failing == INSTANCE UnitCapture
  WITH Calls <- {c1}, Agents <- {c1}, Paths <- {f}, Blocked <- {}, ToolKinds <- AllTools,
       Endings <- {"EMPTY", "ACTIVE"}, Faults <- FaultKinds,
       MaxFaults <- 1, MaxPrompts <- 2, MaxStops <- 2

Stopping == INSTANCE UnitCapture
  WITH Calls <- {c1}, Agents <- {c1}, Paths <- {f}, Blocked <- {}, ToolKinds <- AllTools,
       Endings <- {"EMPTY", "ACTIVE", "UNKNOWN"}, Faults <- FaultKinds,
       MaxFaults <- 1, MaxPrompts <- 1, MaxStops <- 2

ScenesInit ==
  \/ scene = "races" /\ Init
  \/ scene = "faults" /\ Failing!Init
  \/ scene = "stops" /\ Stopping!Init

ScenesNext ==
  /\ UNCHANGED scene
  /\ \/ scene = "races" /\ Next
     \/ scene = "faults" /\ Failing!Next
     \/ scene = "stops" /\ Stopping!Next

ScenesSpec == ScenesInit /\ [][ScenesNext]_<<vars, scene>>
=============================================================================
