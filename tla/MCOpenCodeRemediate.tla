------------------------ MODULE MCOpenCodeRemediate ------------------------
(* TLC instances of OpenCodeRemediate.                                      *)
EXTENDS OpenCodeRemediate

\* One finding "a" over one or two files and a second finding "b".
A(outcome, paths) == Result("a", FALSE, TRUE, outcome, paths)
B(outcome, paths) == Result("b", FALSE, TRUE, outcome, paths)

\* All passes, the origin fails (the same way, or over more files), passes
\* over fewer files, is not judged, and a second finding fails with it.
ReviewsWide ==
  { <<A("PASS", {1, 2}), B("PASS", {1})>>,
    <<A("FAIL", {1, 2}), B("PASS", {1})>>,
    <<A("FAIL", {1, 2, 3}), B("PASS", {1})>>,
    <<A("PASS", {1}), B("PASS", {1})>>,
    <<A("WARN", {1, 2}), B("PASS", {1})>>,
    <<A("FAIL", {1, 2}), B("FAIL", {1})>> }

ReviewsSmall ==
  { <<A("PASS", {1, 2})>>, <<A("FAIL", {1, 2})>>, <<A("FAIL", {1, 2, 3})>> }
=============================================================================
