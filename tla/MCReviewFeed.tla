---------------------------- MODULE MCReviewFeed ----------------------------
EXTENDS ReviewFeed

CONSTANTS s1, s2

MCSessions == {s1, s2}
A1 == [session |-> s1, ordinal |-> 1]
A2 == [session |-> s1, ordinal |-> 2]
A3 == [session |-> s1, ordinal |-> 3]
B1 == [session |-> s2, ordinal |-> 1]

Counts(f, u, w, p) == [fail |-> f, unavailable |-> u, warn |-> w, pass |-> p]
Chain(result) == [result |-> result, attempt |-> 1, maxAttempts |-> 2]
Content(counts, results, chain, config) ==
  [counts |-> counts, results |-> results, proposal |-> counts.fail > 0, chain |-> chain,
   config |-> config]
Fail == Content(Counts(1, 0, 0, 1), 1, None, None)
Kinds == {Content(Counts(0, 0, 0, 0), 0, None, "ENABLED_IGNORED"),
          Content(Counts(0, 0, 0, 1), 1, Chain("RESOLVED"), None),
          Content(Counts(0, 1, 1, 0), 1, Chain("DELIVERING"), "ENABLED_IGNORED"),
          Content(Counts(0, 0, 1, 0), 2, None, None)}

Scenario(turns, contents, faults, events, time) ==
  [turns |-> turns, contents |-> contents, faults |-> faults, events |-> events, time |-> time]
MCScenarios ==
  {Scenario({A1, A2}, {Fail}, 0, 1, 2),  \* two reviews of a session, and the file's cut
   Scenario({A1, A2, A3}, {Fail}, 0, 1, 0),  \* three, and two cuts of it
   Scenario({A1, B1}, {Fail}, 0, 3, 1),  \* two sessions
   Scenario({A1}, {Fail}, 1, 2, 2),      \* a fault
   Scenario({A1}, {Fail}, 2, 5, 0),      \* two faults
   Scenario({A1}, Kinds, 0, 2, 1)}       \* every kind of line
MCFaults == {"read", "host", "ui"}
=============================================================================
