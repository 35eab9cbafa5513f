----------------------------- MODULE MCCommands -----------------------------
(***************************************************************************)
(* TLC instance of JevGuard's commands: the local store with `feedback`    *)
(* and `report` on it, or `login`, `install`, `doctor` and the user's      *)
(* settings, with or without the calibration harness.  The store shares no *)
(* state with the rest, so a behaviour takes the steps of one of them: the *)
(* scene of its world says of which.                                       *)
(***************************************************************************)
EXTENDS MCLocalStore, MCSetup, MCCalibration

CommandsInit ==
  /\ Init /\ SetupInit
  /\ IF world.scene = "harness" THEN HarnessStarts ELSE harness = NotRun

CommandsNext ==
  \/ world.scene = "store" /\ Next /\ UNCHANGED harnessVars
  \/ world.scene # "store" /\ SetupNext /\ UNCHANGED <<vars, harness>>
  \/ harness # NotRun /\ HarnessNext /\ UNCHANGED vars

CommandsSpec == CommandsInit /\ [][CommandsNext]_<<vars, harnessVars>>
=============================================================================
