--------------------------- MODULE ChainLifecycle ---------------------------
(***************************************************************************)
(* What mode: remediate promises about each remediation chain              *)
(* (docs/configuration.md, "mode: remediate"): its messages are numbered   *)
(* 1, 2, ... up to the attempt limit, it ends with exactly one result,     *)
(* nothing is sent once it has ended, and a chain that sent a message does *)
(* end.                                                                    *)
(***************************************************************************)
EXTENDS Naturals, Sequences

CONSTANTS ChainIds, MaxAttempts

Results == {"RESOLVED", "LIMIT", "REPEATED_FAILURE", "REGRESSION_INTRODUCED", "UNVERIFIED",
            "SESSION_LIMIT", "DELIVERY_FAILED", "PROPOSAL_FAILED", "EXPIRED"}

\* The results a chain can get before it sent anything.
UnsentResults == {"UNVERIFIED", "SESSION_LIMIT", "DELIVERY_FAILED", "PROPOSAL_FAILED"}

VARIABLES
  messages,   \* per chain, the attempt numbers sent, in order
  results     \* per chain, the results it ended with

lvars == <<messages, results>>

LInit ==
  /\ messages = [c \in ChainIds |-> <<>>]
  /\ results = [c \in ChainIds |-> <<>>]

Send(c) ==
  /\ results[c] = <<>>
  /\ Len(messages[c]) < MaxAttempts
  /\ messages' = [messages EXCEPT ![c] = Append(@, Len(@) + 1)]
  /\ UNCHANGED results

End(c) ==
  /\ results[c] = <<>>
  /\ \E result \in Results :
       /\ messages[c] = <<>> => result \in UnsentResults
       /\ result = "LIMIT" => Len(messages[c]) = MaxAttempts
       /\ results' = [results EXCEPT ![c] = <<result>>]
  /\ UNCHANGED messages

LNext == \E c \in ChainIds : Send(c) \/ End(c)

\* Only a chain that sent something is bound to end.
LSpec ==
  /\ LInit /\ [][LNext]_lvars
  /\ \A c \in ChainIds : WF_lvars(messages[c] # <<>> /\ (Send(c) \/ End(c)))
=============================================================================
