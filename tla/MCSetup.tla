------------------------------- MODULE MCSetup -------------------------------
(* TLC instance of Setup: four scenes, each with its own worlds and commands. *)
EXTENDS Setup
LOCAL INSTANCE SequencesExt

\* A well-formed rule with id "a", and a second one.
Rule(id) == <<RuleHeading(id, TRUE), Entry("severity", FALSE, "error"), Entry("scope", FALSE, "src"),
              BlankLine, SectionHeading("Rule"), Words("do"), SectionHeading("Violation"), Words("bad"),
              SectionHeading("Allowed"), BlankLine, Words("good")>>
Documents == {Rule("a"), Rule("a") \o Rule("b"), <<Words("intro")>> \o Rule("a") \o Rule("a")}

OtherLines ==
  {RuleHeading("a", TRUE), RuleHeading("c", FALSE), SectionHeading("Rule"), SectionHeading("Allowed"),
   SectionHeading("Notes"), Entry("severity", FALSE, "fatal"), Entry("severity", FALSE, "warning"),
   Entry("scope", TRUE, "lib"), Entry("scope", FALSE, ""), Entry("evidence", FALSE, "docs"),
   Entry("evidence", TRUE, "code"), Entry("owner", FALSE, "me"), Words("bad"), BlankLine}

\* One line cut, doubled, inserted or replaced, or the end cut off.
Edited(lines) ==
  {lines} \cup {RemoveAt(lines, i) : i \in DOMAIN lines}
    \cup {InsertAt(lines, i, lines[i]) : i \in DOMAIN lines}
    \cup {InsertAt(lines, i, l) : i \in DOMAIN lines, l \in OtherLines}
    \cup {ReplaceAt(lines, i, l) : i \in DOMAIN lines, l \in OtherLines}
    \cup {SubSeq(lines, 1, i) : i \in DOMAIN lines}

Given(lines) == [kind |-> "given", lines |-> lines]
Other(kind) == [kind |-> kind, lines |-> <<>>]
BadRules == Given(Rule("a") \o <<RuleHeading("b", TRUE)>>)

File(json, jsonc) == [json |-> json, jsonc |-> jsonc]
FileTexts ==
  {File(Json(shape), FALSE) : shape \in {"missing", "unreadable", "malformed", "odd"}}
    \cup {File(Json("missing"), TRUE), File(Document(1, <<"other">>, <<>>), TRUE),
          File(Document(1, <<>>, <<>>), FALSE), File(Document(2, <<"other">>, <<"jevguard">>), FALSE),
          File(Document(2, <<"jevguard">>, <<>>), FALSE)}

Home == [xdg |-> <<>>, profile |-> "unset", profilePath |-> <<>>, home |-> <<"home">>]
Settings == <<"home", ".config", "jevguard", "settings.yaml">>
System == [links |-> << >>, markers |-> {}, text |-> << >>]

Blank == [scene |-> "none", override |-> "none", keyring |-> "key", rules |-> Given(Rule("a")),
          config |-> "missing", version |-> <<2, 2, 2>>,
          files |-> [t \in Targets |-> File(Json("missing"), FALSE)],
          environment |-> Home, system |-> System, roots |-> {}]
Start(initial, running) == [world |-> initial, commands |-> running]

\* Two installs, while the user edits the file of the first.
InstallScene ==
  {Start([Blank EXCEPT !.scene = "install", !.files["project"] = file],
         [i1 |-> Install("project"), i2 |-> Install(target)]) : file \in FileTexts, target \in Targets}

\* doctor over the states of what it looks at.
DoctorScene ==
  {Start([Blank EXCEPT !.override = override, !.keyring = keyring, !.rules = rules, !.config = config],
         [d |-> Doctor]) :
     override \in {"none", "blank", "key"}, keyring \in {"none", "blank", "key", "broken"},
     rules \in {Given(Rule("a")), BadRules, Other("missing"), Other("unreadable")},
     config \in {"missing", "unreadable", "unparseable", "gate", "remediation", "valid"}}
  \cup
  {Start([Blank EXCEPT !.keyring = keyring, !.version = version, !.files["global"] = file], [d |-> Doctor]) :
     keyring \in {"none", "key"},
     version \in {<<>>, <<2, 2, 1>>, <<2, 2, 2>>, <<2, 2, 3>>, <<2, 2, 3, "rc">>, <<2, 3, 2>>, <<3, 2, 2>>},
     file \in {File(Json("missing"), FALSE), File(Json("malformed"), FALSE),
               File(Document(2, <<"jevguard">>, <<>>), FALSE)}}

\* doctor while a key is stored and the user edits the files of .jev.
MovingScene ==
  {Start([Blank EXCEPT !.scene = "moving", !.keyring = keyring], [d |-> Doctor, l |-> Login]) :
     keyring \in {"none", "broken"}}

RulesScene ==
  {Start([Blank EXCEPT !.rules = Given(lines)], [d |-> Doctor]) :
     lines \in UNION {Edited(document) : document \in Documents}}

Section == [enabled |-> "true", delivery |-> "absent", mode |-> "absent", attempts |-> -1, extra |-> FALSE]
Texts ==
  {[kind |-> kind, section |-> Section] : kind \in {"unreadable", "invalid", "empty"}}
    \cup {[kind |-> "section", section |-> [enabled |-> enabled, delivery |-> delivery, mode |-> mode,
                                            attempts |-> attempts, extra |-> extra]] :
            enabled \in {"absent", "true", "false", "yes"}, delivery \in {"absent", "user", "agent", "x"},
            mode \in {"absent", "observe", "remediate", "x"}, attempts \in {-1, 0, 1, 3, 4},
            extra \in BOOLEAN}

MCLowerCase(name) == IF name = "Repo" THEN "repo" ELSE name

\* A project nested in a working tree, and the ways its settings may be near it: in the
\* project, beside it, where a link leads or under the tree's name in another letter case.
Places ==
  {[links |-> links, markers |-> markers, text |-> [f \in {file} |-> [kind |-> "section", section |-> Section]]] :
     links \in {<< >>, [l \in {<<"home", ".config">>} |-> <<"repo", "pkg", "conf">>],
                [l \in {<<"w">>} |-> <<"repo", "pkg">>], [l \in {<<"w">>} |-> <<"home">>]},
     markers \in {{}, {<< >>}, {<<"repo">>}, {<<"home">>}, {<<"repo">>, <<"repo", "pkg">>}},
     file \in {Settings, <<"repo", "pkg", "conf", "jevguard", "settings.yaml">>,
               <<"repo", "jevguard", "settings.yaml">>, <<"Repo", "jevguard", "settings.yaml">>}}
Environments ==
  {Home, [Home EXCEPT !.xdg = <<"repo">>], [Home EXCEPT !.xdg = <<"Repo">>], [Home EXCEPT !.profile = "relative"],
   [Home EXCEPT !.profile = "absolute", !.profilePath = <<"home">>], [Home EXCEPT !.home = <<>>]}

SettingsScene ==
  {Start([Blank EXCEPT !.scene = "settings", !.system = system, !.environment = environment,
                       !.roots = {<<"repo", "pkg">>, <<"w">>}], << >>) :
     system \in Places, environment \in Environments}
  \cup {Start([Blank EXCEPT !.system = [System EXCEPT !.text = [f \in {Settings} |-> text]],
                            !.roots = {<<"repo", "pkg">>}], << >>) : text \in Texts}

\* The key of the calibration harness: there, stored meanwhile, or never.
HarnessScene ==
  {Start([Blank EXCEPT !.scene = "harness", !.rules = Other("missing"), !.keyring = keyring],
         IF keyring = "none" THEN [l |-> Login] ELSE << >>) : keyring \in {"key", "none", "broken"}}

\* Where no command of these runs.
StoreScene == {Start([Blank EXCEPT !.scene = "store", !.rules = Other("missing")], << >>)}

MCWorlds == InstallScene \cup DoctorScene \cup MovingScene \cup RulesScene \cup SettingsScene
              \cup HarnessScene \cup StoreScene

MCUserEdits(now) ==
  CASE now.scene = "install" ->
         {[now EXCEPT !.files["project"] = file] :
            file \in {File(Json("missing"), FALSE), File(Json("malformed"), FALSE),
                      File(Document(1, <<>>, <<>>), FALSE), File(Document(2, <<"jevguard">>, <<>>), FALSE)}}
    [] now.scene = "moving" ->
         {[now EXCEPT !.rules = rules] : rules \in {Given(Rule("a")), BadRules, Other("unreadable")}}
           \cup {[now EXCEPT !.config = config] : config \in {"missing", "valid", "gate", "unreadable"}}
           \cup {[now EXCEPT !.override = "key"], [now EXCEPT !.version = <<>>]}
    [] now.scene = "settings" ->
         {[now EXCEPT !.system = [@ EXCEPT !.text = << >>]],
          [now EXCEPT !.system = [@ EXCEPT !.links = << >>]],
          [now EXCEPT !.system = [@ EXCEPT !.markers = {<<"repo">>}]]}
    [] OTHER -> {}
=============================================================================
