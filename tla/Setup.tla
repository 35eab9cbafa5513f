-------------------------------- MODULE Setup --------------------------------
(***************************************************************************)
(* What a user sets JevGuard up with: `jevguard login`, `install` and      *)
(* `doctor` (plugin/src/cli), the credential store, opencode.json, the     *)
(* files of .jev, and the user's remediation settings as a long-lived      *)
(* process reads them.  Commands run in several terminals at once, and     *)
(* between any two steps of theirs the user may change what they read.     *)
(***************************************************************************)
EXTENDS RuleDocument, UserSettings
LOCAL INSTANCE SequencesExt
LOCAL INSTANCE FiniteSetsExt

CONSTANTS
  Worlds,        \* what there may be at the start, with the commands that run
  UserEdits(_),  \* what the user may make of a world
  MaxChanges     \* bound on the user's changes

VARIABLES
  world,       \* [override, keyring, rules, config, version, files, environment,
               \* system]: all the commands read; files maps a target to
               \* [json, jsonc]
  commands,    \* the running commands, by process
  changes,     \* how often the world changed
  userLeft,    \* the files the user left, by target: the last is the latest
  remembered   \* the settings process's answers, by project root

setupVars == <<world, commands, changes, userLeft, remembered>>

Targets == {"global", "project"}

----------------------------------------------------------------------------
(* Credentials. *)

\* An environment variable or a stored key is "none", "blank" or a key; the
\* store may be "broken".
NormalizeSecret(value) == IF value = "blank" THEN "none" ELSE value

ResolveCredential(override, keyring) ==
  CASE NormalizeSecret(override) # "none" -> "CREDENTIAL_ENVIRONMENT"
    [] NormalizeSecret(override) = "none" /\ keyring = "broken" -> "STORE_READ_FAILURE"
    [] OTHER -> IF NormalizeSecret(keyring) = "none" THEN "MISSING_CREDENTIAL"
                ELSE "CREDENTIAL_STORE"

----------------------------------------------------------------------------
(* opencode.json.  Its text is missing, unreadable, malformed, of an odd   *)
(* shape, or a document [rest, plugins, legacy]: everything else, and the  *)
(* entries of the two plugin lists.                                        *)

Json(shape) == [shape |-> shape, rest |-> 0, plugins |-> <<>>, legacy |-> <<>>]
Document(rest, plugins, legacy) ==
  [shape |-> "document", rest |-> rest, plugins |-> plugins, legacy |-> legacy]

\* readConfigDocument: the document, or why there is none.
ReadConfigDocument(file) ==
  CASE file.json.shape = "unreadable" -> "READ_FAILURE"
    [] file.json.shape = "malformed" -> "INVALID_JSON"
    [] file.json.shape = "missing" /\ file.jsonc -> "UNSUPPORTED_JSONC"
    [] OTHER -> "READ"

DocumentOf(file) == IF file.json.shape = "missing" THEN Document(0, <<>>, <<>>) ELSE file.json

AddPluginEntry(document) ==
  CASE document.shape = "odd" -> "INVALID_SHAPE"
    [] document.shape # "odd" /\ "jevguard" \in ToSet(document.plugins \o document.legacy) -> "PRESENT"
    [] OTHER -> "ADDED"

WithEntry(document) == [document EXCEPT !.plugins = Append(@, "jevguard")]

\* inspectInstall.
Inspect(file) ==
  IF ReadConfigDocument(file) # "READ" THEN "FAILED"
  ELSE CASE AddPluginEntry(DocumentOf(file)) = "PRESENT" -> "REGISTERED"
         [] AddPluginEntry(DocumentOf(file)) = "ADDED" -> "NOT_REGISTERED"
         [] OTHER -> "FAILED"

----------------------------------------------------------------------------
(* Commands. *)

Login == [command |-> "login", stage |-> "prompt", outcome |-> "none", exit |-> -1]
Install(target) ==
  [command |-> "install", stage |-> "read", outcome |-> "none", exit |-> -1, target |-> target,
   read |-> Json("missing"), versions |-> 0, answer |-> "none"]
Doctor == [command |-> "doctor", stage |-> "credential", outcome |-> "none", exit |-> -1,
           startedAt |-> 0, credential |-> "none", rules |-> "none", config |-> "none",
           inspected |-> [target \in Targets |-> "none"]]

SetupInit ==
  /\ \E start \in Worlds : world = start.world /\ commands = start.commands
  /\ changes = 0
  /\ userLeft = [t \in Targets |-> <<world.files[t]>>]
  /\ remembered = << >>

At(p, command, stage) == commands[p].command = command /\ commands[p].stage = stage

\* What the process exits with.
ExitCode(outcome) ==
  IF outcome \in {"SAVED", "INSTALLED", "ALREADY_INSTALLED", "OK", "WARN"} THEN 0 ELSE 1

\* A command ends with an outcome: the process prints it and exits.
Ends(p, outcome) ==
  commands' = [commands EXCEPT ![p].stage = "done", ![p].outcome = outcome, ![p].exit = ExitCode(outcome)]

LoginReads(p, prompted) ==
  /\ At(p, "login", "prompt")
  /\ CASE prompted \in {"ABORTED", "NOT_A_TTY", "PROMPT_FAILURE"} -> Ends(p, prompted)
       [] prompted = "blank" -> Ends(p, "EMPTY_SECRET")
       [] OTHER -> commands' = [commands EXCEPT ![p].stage = "write"]
  /\ UNCHANGED <<world, changes, userLeft, remembered>>

LoginWrites(p) ==
  /\ At(p, "login", "write")
  /\ \/ Ends(p, "SAVED") /\ world.keyring # "broken"
        /\ world' = [world EXCEPT !.keyring = "key"] /\ changes' = changes + 1
     \/ Ends(p, "STORE_WRITE_FAILURE") /\ UNCHANGED <<world, changes>>
  /\ UNCHANGED <<userLeft, remembered>>

\* install up to its question.
InstallReads(p) ==
  LET file == world.files[commands[p].target]
      document == DocumentOf(file)
  IN  /\ At(p, "install", "read")
      /\ IF ReadConfigDocument(file) # "READ" THEN Ends(p, ReadConfigDocument(file))
         ELSE CASE AddPluginEntry(document) = "INVALID_SHAPE" -> Ends(p, "INVALID_CONFIG_SHAPE")
                [] AddPluginEntry(document) = "PRESENT" ->
                     commands' = [commands EXCEPT ![p].stage = "done", ![p].outcome = "ALREADY_INSTALLED",
                                    ![p].exit = ExitCode("ALREADY_INSTALLED"),
                                    ![p].versions = Len(userLeft[commands[p].target])]
                [] OTHER -> commands' = [commands EXCEPT ![p].stage = "ask", ![p].read = document,
                                  ![p].versions = Len(userLeft[commands[p].target])]
      /\ UNCHANGED <<world, changes, userLeft, remembered>>

InstallAnswered(p, answer) ==
  /\ At(p, "install", "ask")
  /\ CASE answer = "NOT_A_TTY" -> Ends(p, answer)
       [] answer = "DECLINED" -> Ends(p, "ABORTED")
       [] OTHER -> commands' = [commands EXCEPT ![p].stage = "write", ![p].answer = answer]
  /\ UNCHANGED <<world, changes, userLeft, remembered>>

\* Variant of InstallWrites: the file itself is written, not one beside it that
\* then replaces it.
InstallWritesInPlace(p) ==
  LET target == commands[p].target
      Becomes(json) == world' = [world EXCEPT !.files[target].json = json]
  IN  /\ At(p, "install", "write")
      /\ \/ Ends(p, "INSTALLED") /\ Becomes(WithEntry(commands[p].read))
         \/ Ends(p, "WRITE_FAILURE") /\ Becomes(Json("malformed"))
      /\ changes' = changes + 1
      /\ UNCHANGED <<userLeft, remembered>>

\* The new text is written beside the file and renamed over it; a failure
\* removes it and leaves the file.
InstallWrites(p) ==
  /\ At(p, "install", "write")
  /\ \/ /\ Ends(p, "INSTALLED")
        /\ world' = [world EXCEPT !.files[commands[p].target].json = WithEntry(commands[p].read)]
        /\ changes' = changes + 1
     \/ Ends(p, "WRITE_FAILURE") /\ UNCHANGED <<world, changes>>
  /\ UNCHANGED <<userLeft, remembered>>

----------------------------------------------------------------------------
(* doctor: five checks, one after the other. *)

\* Variant of CheckRules: one rule that can be read is enough.
CheckSomeRules(rules) ==
  CASE rules.kind = "unreadable" -> "RULES_READ_FAILURE"
    [] rules.kind = "missing" -> "RULES_MISSING"
    [] OTHER -> LET results == ParseRules(rules.lines)
                IN  IF \A i \in DOMAIN results : results[i].status = "INVALID" THEN "RULES_INVALID"
                    ELSE "RULES_VALID"

\* A file of .jev is "missing", "unreadable" or given.
CheckRules(rules) ==
  CASE rules.kind = "unreadable" -> "RULES_READ_FAILURE"
    [] rules.kind = "missing" -> "RULES_MISSING"
    [] OTHER -> LET results == ParseRules(rules.lines)
                IN  IF \E i \in DOMAIN results : results[i].status = "INVALID" THEN "RULES_INVALID"
                    ELSE "RULES_VALID"

\* The loader reads the rules first and the configuration only then; the
\* first failing part of a configuration names it.
CheckConfig(config) ==
  CASE config = "unreadable" -> "CONFIG_READ_FAILURE"
    [] config = "missing" -> "CONFIG_DEFAULTS"
    [] config = "valid" -> "CONFIG_VALID"
    [] config = "unparseable" -> "CONFIG_PARSE_INVALID"
    [] config = "gate" -> "CONFIG_INVALID"
    [] OTHER -> "REMEDIATION_INVALID"

DoctorCredential(p) ==
  /\ At(p, "doctor", "credential")
  /\ commands' = [commands EXCEPT ![p].stage = "rules", ![p].startedAt = changes,
                    ![p].credential = ResolveCredential(world.override, world.keyring)]
  /\ UNCHANGED <<world, changes, userLeft, remembered>>

DoctorRules(p) ==
  /\ At(p, "doctor", "rules")
  /\ commands' = IF world.rules.kind = "unreadable"
                 THEN [commands EXCEPT ![p].stage = "opencode", ![p].rules = "RULES_READ_FAILURE",
                                       ![p].config = "CONFIG_NOT_CHECKED"]
                 ELSE [commands EXCEPT ![p].stage = "config", ![p].rules = CheckRules(world.rules)]
  /\ UNCHANGED <<world, changes, userLeft, remembered>>

DoctorConfig(p) ==
  /\ At(p, "doctor", "config")
  /\ commands' = [commands EXCEPT ![p].stage = "opencode", ![p].config = CheckConfig(world.config),
                    ![p].rules = IF world.config = "unreadable" THEN "RULES_NOT_CHECKED" ELSE @]
  /\ UNCHANGED <<world, changes, userLeft, remembered>>

\* The two files are read at the same time.
DoctorInspects(p, target) ==
  /\ At(p, "doctor", "opencode") /\ commands[p].inspected[target] = "none"
  /\ commands' = [commands EXCEPT ![p].inspected[target] = Inspect(world.files[target])]
  /\ UNCHANGED <<world, changes, userLeft, remembered>>

Registration(inspected) ==
  CASE \E t \in Targets : inspected[t] = "FAILED" -> "INSPECTION_FAILED"
    [] \A t \in Targets : inspected[t] = "NOT_REGISTERED" -> "NOT_REGISTERED"
    [] OTHER -> "REGISTERED"

StatusOf(code) ==
  CASE code \in {"CREDENTIAL_STORE", "CREDENTIAL_ENVIRONMENT", "RULES_VALID", "CONFIG_DEFAULTS",
                 "CONFIG_VALID", "REGISTERED", "VERSION_SUPPORTED"} -> "OK"
    [] code \in {"RULES_NOT_CHECKED", "CONFIG_NOT_CHECKED", "NOT_REGISTERED", "INSPECTION_FAILED",
                 "VERSION_UNKNOWN"} -> "WARN"
    [] OTHER -> "FAIL"

\* checkOpenCodeVersion: the supported line is 2.2.x from 2.2.2 on.
CheckVersion(version) ==
  CASE version = <<>> -> "VERSION_UNKNOWN"
    [] version # <<>> /\ SubSeq(version, 1, 2) = <<2, 2>> /\ version[3] >= 2 /\ Len(version) = 3 ->
         "VERSION_SUPPORTED"
    [] OTHER -> "VERSION_UNSUPPORTED"

DoctorEnds(p) ==
  LET report == commands[p]
      statuses == {StatusOf(code) : code \in
        {report.credential, report.rules, report.config, Registration(report.inspected),
         CheckVersion(world.version)}}
  IN  /\ At(p, "doctor", "opencode")
      /\ \A t \in Targets : report.inspected[t] # "none"
      /\ Ends(p, CASE "FAIL" \in statuses -> "FAIL"
                   [] "FAIL" \notin statuses /\ "WARN" \in statuses -> "WARN"
                   [] OTHER -> "OK")
      /\ UNCHANGED <<world, changes, userLeft, remembered>>

----------------------------------------------------------------------------
(* The user, and the process that reads the user's settings. *)

UserChanges ==
  /\ changes < MaxChanges
  /\ \E edited \in UserEdits(world) :
       /\ world' = edited /\ edited # world
       /\ userLeft' = [t \in Targets |-> IF edited.files[t] = world.files[t] THEN userLeft[t]
                                         ELSE Append(userLeft[t], edited.files[t])]
  /\ changes' = changes + 1
  /\ UNCHANGED <<commands, remembered>>

\* createUserRemediationSettings: the first answer for a root stays.
LoadSettings(root) ==
  /\ remembered' = IF root \in DOMAIN remembered THEN remembered
                   ELSE [r \in DOMAIN remembered \cup {root} |->
                           IF r \in DOMAIN remembered THEN remembered[r]
                           ELSE [at |-> world.system,
                                 result |-> LoadUserSettings(world.environment, root, world.system)]]
  /\ UNCHANGED <<world, commands, changes, userLeft>>

SetupNext ==
  \/ \E p \in DOMAIN commands :
       \/ \E prompted \in {"ABORTED", "NOT_A_TTY", "PROMPT_FAILURE", "blank", "key"} :
            LoginReads(p, prompted)
       \/ LoginWrites(p)
       \/ InstallReads(p)
       \/ \E answer \in {"CONFIRMED", "DECLINED", "NOT_A_TTY"} : InstallAnswered(p, answer)
       \/ InstallWrites(p)
       \/ DoctorCredential(p) \/ DoctorRules(p) \/ DoctorConfig(p) \/ DoctorEnds(p)
       \/ \E target \in Targets : DoctorInspects(p, target)
  \/ UserChanges
  \/ \E root \in world.roots : LoadSettings(root)

SetupSpec == SetupInit /\ [][SetupNext]_setupVars

(***************************************************************************)
(* Properties                                                              *)
(***************************************************************************)

\* Only a confirmed install changes opencode.json, and only into what the user had
\* there when it asked, usable and without the entry, plus the entry; never into part
\* of a text.  While the user leaves the file alone, an install that exits with 0 leaves
\* it registered (install.ts:15-19, entry.ts:18-23).
ConfigEditSafe ==
  \A t \in Targets :
    LET versions == userLeft[t]
        file == world.files[t]
        Asked(p) == versions[commands[p].versions]
        installs == {p \in DOMAIN commands : commands[p].command = "install" /\ commands[p].target = t
                                               /\ commands[p].outcome = "INSTALLED"}
    IN  /\ file # versions[Len(versions)] =>
             /\ file.jsonc = versions[Len(versions)].jsonc
             /\ \E p \in installs :
                  /\ commands[p].answer = "CONFIRMED"
                  /\ \/ Asked(p).json.shape = "document"
                     \/ Asked(p).json.shape = "missing" /\ ~Asked(p).jsonc
                  /\ \A k \in {"rest", "legacy"} : file.json[k] = Asked(p).json[k]
                  /\ file.json.plugins = Asked(p).json.plugins \o <<"jevguard">>
                  /\ "jevguard" \notin ToSet(Asked(p).json.plugins \o Asked(p).json.legacy)
        /\ \A p \in DOMAIN commands :
             commands[p].command = "install" /\ commands[p].target = t /\ commands[p].exit = 0
               /\ Len(versions) = commands[p].versions => Inspect(file) = "REGISTERED"

\* The grammar of a rule: lines from..end-1 behind its heading.
Written(lines, from, end) == \E i \in from..end - 1 : lines[i].kind # "blank"

IsRuleBody(lines, from, end) ==
  LET sections == {i \in from..end - 1 : lines[i].kind = "section"}
      metadata == {i \in from..Min(sections \cup {end}) - 1 : lines[i].kind # "blank"}
      Of(key) == {i \in metadata : lines[i].key = key}
      Named(name) == {i \in sections : lines[i].name = name}
      EndOf(i) == Min({j \in sections : j > i} \cup {end})
      Content(name) == LET i == Min(Named(name)) IN SubSeq(lines, i + 1, EndOf(i) - 1)
  IN  /\ \A i \in metadata : lines[i].kind = "entry" /\ lines[i].key \in {"scope", "severity", "evidence"}
      /\ Cardinality(Of("severity")) = 1 /\ Cardinality(Of("evidence")) <= 1
      /\ \A i \in Of("severity") : ~lines[i].negated /\ lines[i].value \in {"error", "warning"}
      /\ \A i \in Of("evidence") : ~lines[i].negated /\ lines[i].value \in {"code", "docs", "any"}
      /\ \A i \in Of("scope") : lines[i].value # ""
      /\ Of("scope") # {} => \E i \in Of("scope") : ~lines[i].negated
      /\ \A i \in sections : lines[i].name \in {"Rule", "Violation", "Allowed"}
                               /\ Cardinality(Named(lines[i].name)) = 1 /\ Written(lines, i + 1, EndOf(i))
      /\ Named("Rule") # {} /\ Named("Violation") # {}
      /\ Named("Allowed") # {} => Trimmed(Content("Allowed")) # Trimmed(Content("Violation"))

\* The headings that stand for a rule.
RuleHeadings(lines) == {i \in DOMAIN lines : lines[i].kind = "rule"}
IsRule(lines, h) ==
  /\ lines[h].valid
  /\ \A i \in RuleHeadings(lines) \ {h} : ~(lines[i].valid /\ lines[i].id = lines[h].id)
  /\ IsRuleBody(lines, h + 1, Min({i \in RuleHeadings(lines) : i > h} \cup {Len(lines) + 1}))

AreRules(rules) ==
  /\ rules.kind = "given" /\ RuleHeadings(rules.lines) # {}
  /\ \A h \in RuleHeadings(rules.lines) : IsRule(rules.lines, h)

\* One result for every "##" heading, in order; it is a rule exactly when the
\* grammar says so, whatever the other blocks are, and a rule alone in its document
\* is read no differently (parse-rules.ts:4-8, parse-rule.ts:4-11).
RulesReadExactly ==
  world.rules.kind = "given" =>
    LET lines == world.rules.lines
        headings == SetToSortSeq(RuleHeadings(lines), <)
        End(k) == IF k = Len(headings) THEN Len(lines) ELSE headings[k + 1] - 1
    IN  \A results \in {ParseRules(lines)} :
          /\ headings = <<>> => results = <<[status |-> "INVALID", code |-> "MISSING_ID", id |-> NoRuleId]>>
          /\ headings # <<>> => Len(results) = Len(headings)
          /\ \A k \in DOMAIN headings :
               /\ results[k].id = IF lines[headings[k]].valid THEN lines[headings[k]].id ELSE NoRuleId
               /\ results[k].status = "PARSED" <=> IsRule(lines, headings[k])
               /\ results[k] = ParseRules(SubSeq(lines, headings[k], End(k)))[1]
                    \/ results[k] = [status |-> "INVALID", code |-> "DUPLICATE_ID", id |-> results[k].id]
          /\ ParseRule(lines).status = "PARSED" <=> Len(headings) = 1 /\ results[1].status = "PARSED"

\* What doctor says of a setup that nobody changed while it looked: it exits with an error exactly
\* when a review would have no key, no rules, a broken rule or a broken
\* configuration, or OpenCode is of another version; and all is well only if the
\* plugin is registered too (doctor.md, diagnose.ts:39-44).
DoctorTruthful ==
  \A p \in DOMAIN commands :
    commands[p].command = "doctor" /\ commands[p].stage = "done" /\ commands[p].startedAt = changes =>
      LET hasKey == "key" \in {world.override, world.keyring}
          policy == AreRules(world.rules) /\ world.config \in {"missing", "valid"}
          unsupported == world.version # <<>> /\ ~(world.version \in {<<2, 2, n>> : n \in 2..9})
      IN  /\ commands[p].exit = 0 <=> hasKey /\ policy /\ ~unsupported
          /\ commands[p].outcome = "OK" =>
               /\ world.version # <<>>
               /\ \E t \in Targets : "jevguard" \in
                    ToSet(world.files[t].json.plugins \o world.files[t].json.legacy)
               /\ \A t \in Targets : world.files[t].json.shape \in {"document", "missing"}

\* The directories with a .git that a project's path leads through, its own included.
\* The root of a POSIX file system is none of them unless it is the project.
WorkTreesOver(realRoot, markers) ==
  {n \in 0..Len(realRoot) : (n > 0 \/ Len(realRoot) = 0) /\ SubSeq(realRoot, 1, n) \in markers}

\* "A cloned repository must never be able to switch remediation on"
\* (user-settings.ts:128-132): a process that has remediation on for a project read
\* it, when it first looked, from an enabled section of a file outside the project
\* and outside the nearest working tree below the file system's root that the project
\* is in, whatever links there were and whatever the letter case; and what it read
\* suits the chains that run with it.
SettingsSafe ==
  \A root \in DOMAIN remembered :
    LET system == remembered[root].at
        result == remembered[root].result
        realRoot == Canonical(root, system.links)
        above == WorkTreesOver(realRoot, system.markers)
    IN  result.status = "ENABLED" =>
          LET path == Canonical(UserConfigFileOf(world.environment), system.links)
          IN  /\ path \in DOMAIN system.text /\ system.text[path].kind = "section"
              /\ system.text[path].section.enabled = "true"
              /\ ~IsPrefix(Lowered(realRoot), Lowered(path))
              /\ above # {} => ~IsPrefix(Lowered(SubSeq(realRoot, 1, Max(above))), Lowered(path))
              /\ result.settings.mode = "remediate" => result.settings.delivery = "agent"
              /\ result.settings.maxAttempts \in 1..3
=============================================================================
