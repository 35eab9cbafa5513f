-------------------------------- MODULE Lists --------------------------------
(***************************************************************************)
(* What the components' files and queues are built with: a selection from  *)
(* a list, and functions and records with something put into them.         *)
(***************************************************************************)
EXTENDS Naturals, Sequences

\* The elements of a list that are wanted, in their order.
Kept(list, wanted) ==
  LET Upto[n \in 0..Len(list)] ==
        IF n = 0 THEN <<>>
        ELSE IF list[n] \in wanted THEN Append(Upto[n - 1], list[n]) ELSE Upto[n - 1]
  IN  Upto[Len(list)]

\* f with x mapped to v, and a record with the fields of another put into it.
With(f, x, v) == [y \in DOMAIN f \cup {x} |-> IF y = x THEN v ELSE f[y]]
Over(fields, record) ==
  [x \in DOMAIN fields \cup DOMAIN record |-> IF x \in DOMAIN fields THEN fields[x] ELSE record[x]]
=============================================================================
