--------------------------- MODULE MCJevPipeline ---------------------------
(* TLC instance of JevPipeline: one rule batch that needs a second round of *)
(* its workers and three single calls, so two calls can wait.                *)
EXTENDS JevPipeline

CONSTANTS batch, single1, single2, single3

Sizes == [c \in Calls |-> IF c = batch THEN 3 ELSE 1]
=============================================================================
