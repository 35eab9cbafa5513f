----------------------------- MODULE JevService -----------------------------
(***************************************************************************)
(* What the FIFO limiter promises its callers, with no queue and no        *)
(* counter: the calls begun are always the longest prefix of the calls     *)
(* made that keeps at most Width of them unfinished.  FifoJevPort          *)
(* implements it (packages/core/src/concurrency/fifo-port.ts).             *)
(***************************************************************************)
EXTENDS Naturals, Sequences, FiniteSets

CONSTANTS Calls, Width

VARIABLES
  arrivals,  \* the calls made, in order
  begun,     \* the calls begun, in order
  finished   \* the calls answered

svars == <<arrivals, begun, finished>>

\* The prefix of a that is begun once the calls of f are finished.
Admitted(a, f) ==
  SubSeq(a, 1, IF Len(a) < Cardinality(f) + Width THEN Len(a) ELSE Cardinality(f) + Width)

SInit == arrivals = <<>> /\ begun = <<>> /\ finished = {}

Arrive(c) ==
  /\ \A i \in DOMAIN arrivals : arrivals[i] # c
  /\ arrivals' = Append(arrivals, c)
  /\ begun' = Admitted(arrivals', finished)
  /\ UNCHANGED finished

Finish(c) ==
  /\ \E i \in DOMAIN begun : begun[i] = c
  /\ c \notin finished
  /\ finished' = finished \union {c}
  /\ begun' = Admitted(arrivals, finished')
  /\ UNCHANGED arrivals

SNext == \E c \in Calls : Arrive(c) \/ Finish(c)

SSpec == SInit /\ [][SNext]_svars
=============================================================================
