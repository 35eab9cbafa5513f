---------------------------- MODULE MCTurnReview ----------------------------
(* TLC instance of RulesCheck and TurnReview.  At most four characters fit into a request. *)
EXTENDS RulesCheck

CONSTANTS f, g
LOCAL INSTANCE SequencesExt

File(path, class, preamble, hunks) ==
  [path |-> path, class |-> class, preamble |-> preamble, hunks |-> hunks]

\* A small file; two that must be cut, into two and three; two that cannot be.
OfF == {File(f, "code", 1, <<1>>), File(f, "code", 1, <<3, 2>>),
        File(f, "code", 1, <<2, 2, 1>>), File(f, "code", 1, <<4>>), File(f, "code", 5, <<>>)}
\* With the small file above: at the limit, and one over it.
OfG == {File(g, "code", 0, <<1>>), File(g, "docs", 1, <<1>>),
        File(g, "denied", 0, <<1>>), File(g, "unknown", 0, <<1>>)}

MCTurns == {<<>>} \cup {<<x>> : x \in OfF \cup OfG} \cup {<<x, y>> : x \in OfF, y \in OfG}

Rule(id, scope, evidence, severity) ==
  [status |-> "PARSED", id |-> id, scope |-> scope, evidence |-> evidence, severity |-> severity]
Broken(id) == [status |-> "INVALID", id |-> id]

MCRuleLists ==
  LET All == Rule("any", {f, g}, "any", "error")
      Code == Rule("code", {f, g}, "code", "warning")
      Docs == Rule("docs", {g}, "docs", "error")
      Narrow == Rule("narrow", {f}, "any", "error")
  IN  {<<All>>, <<Code, Docs>>, <<Narrow, Code>>, <<Broken("none"), Narrow>>,
       <<All, Broken("x"), Broken("x"), Docs>>, <<All, Code, Narrow>>,
       <<Narrow, All, Code, Docs>>}

Config(warn, fail, warning, remediation) ==
  [text |-> "given", warn |-> warn, fail |-> fail, warning |-> warning,
   remediation |-> remediation]
MCConfigs ==
  {[text |-> "absent"], [text |-> "unparseable"], Config(50, 95, 20, TRUE),
   Config(70, 70, 20, TRUE), Config(40, 101, 20, TRUE), Config(40, 70, 60, FALSE)}
MCProbabilities == {20, 60, 95, 101}
MCBuiltInProbabilities == {60, 95, 101}

MCClassOf(path) == IF path = "g" THEN "docs" ELSE "code"

\* Diffs: a file with two hunks, a new one without a newline at its end, a
\* deleted one, a rename, a change of mode; a plain diff of two files that holds
\* a removed line "-- x" before an added "++ x", as if a third file started there.
Prefixed(path) == Value("own", path)
Changed == <<Git("f", "f"), Plainly("extended"), Old(Prefixed("f")), New(Prefixed("f")),
             Hunk(1, 2), Body(" "), Body("+"), Hunk(1, 0), Body("-")>>
Created == <<Git("g", "g"), Plainly("extended"), Old(DevNull), New(Prefixed("g")),
             Hunk(0, 1), Body("+"), Plainly("no newline")>>
Deleted == <<Git("f", "f"), Plainly("extended"), Old(Prefixed("f")), New(DevNull),
             Hunk(1, 0), Body("-")>>
Renamed == <<Git("f", "g"), Moved("moved from", Prefixed("f")), Moved("moved to", Prefixed("g"))>>
Mode == <<Git("g", "g"), Plainly("extended")>>
Plain == <<Old(Prefixed("f")), New(Prefixed("f")), Hunk(2, 2), Body(" "),
           Old(Value("bare", "x")), New(Value("bare", "x"))>>
PlainSecond == <<Old(Value("bare", "g")), New(Value("bare", "g")), Hunk(1, 1), Body("-"), Body("+")>>
Blank == Plainly("blank")

Whole == {<<>>, <<Blank>>, Changed \o Created, Created \o <<Blank>>, Deleted \o Mode, Renamed \o Deleted,
          Mode \o Renamed, <<Blank>> \o Plain \o PlainSecond}

Odd == {Git("f", "f"), Git("f", "g"), Git("f", ""), GitOdd("quoted"), GitOdd("no prefix"),
        Old(Prefixed("f")), Old(Value("quoted", "f")), New(Prefixed("g")), New(DevNull), New(Value("bare", "f")),
        Hunk(1, 1), Hunk(0, 0), Plainly("@@"), Body(" "), Body("-"), Body("+"),
        Plainly("no newline"), Blank, Plainly("combined"), Plainly("binary"), Plainly("extended"),
        Moved("moved from", Prefixed("g")), Moved("moved to", Value("quoted", "g")), Plainly("other")}

Cut(text, i) == SubSeq(text, 1, i - 1)
Drop(text, i) == RemoveAt(text, i)
Twice(text, i) == InsertAt(text, i, text[i])

\* Each of these as it is, or with one line cut off, dropped, doubled, put in or
\* replaced.
Edited ==
  UNION {UNION {{Cut(text, i), Drop(text, i), Twice(text, i)}
                  \cup {InsertAt(text, i, line) : line \in Odd}
                  \cup {ReplaceAt(text, i, line) : line \in Odd} : i \in DOMAIN text} : text \in Whole}

MCInputs ==
  {[args |-> <<"--diff", "-">>, text |-> text] : text \in Whole \cup Edited}
    \cup {[args |-> args, text |-> Created] : args \in
            {<<"--rule", "narrow", "--json", "--diff", "d">>, <<"--diff", "d", "--rule", "x">>,
             <<"--diff", "--json">>, <<"--diff", "d", "--diff", "d">>, <<"--task", "t">>,
             <<"--diff", "d", "--rule">>, <<"--json", "--json", "--diff", "d">>}}
=============================================================================
