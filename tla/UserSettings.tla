---------------------------- MODULE UserSettings ----------------------------
(***************************************************************************)
(* The user's own remediation settings (node-infra/src/remediation): which *)
(* file holds them, why a file of a project is refused, and what a section *)
(* comes to.  Paths are sequences of names and the file system is a record *)
(* [links, markers, text]: symbolic links as a function from paths to      *)
(* paths, the directories with a .git, and the settings files that exist.  *)
(***************************************************************************)
EXTENDS Integers, Sequences, FiniteSets
LOCAL INSTANCE SequencesExt
LOCAL INSTANCE FiniteSetsExt

\* The lower case of a name (String.prototype.toLowerCase).
CONSTANT LowerCase(_)

NoFile == <<>>

Disabled == [status |-> "DISABLED"]
InvalidSettings(reason) == [status |-> "INVALID", reason |-> reason]
Enabled(settings) == [status |-> "ENABLED", settings |-> settings]

----------------------------------------------------------------------------
(* Where the file is. *)

\* An environment variable is a path, or <<>>: unset, or not absolute; an empty
\* USERPROFILE counts as unset, a relative one does not.
Configured(environment) ==
  LET home == IF environment.profile = "unset" THEN environment.home
              ELSE IF environment.profile = "relative" THEN <<>> ELSE environment.profilePath
  IN  CASE environment.xdg # <<>> -> environment.xdg
        [] environment.xdg = <<>> /\ home # <<>> -> Append(home, ".config")
        [] OTHER -> NoFile

UserConfigFileOf(environment) ==
  IF Configured(environment) = NoFile THEN NoFile
  ELSE Configured(environment) \o <<"jevguard", "settings.yaml">>

----------------------------------------------------------------------------
(* Containment. *)

Lowered(path) == [i \in DOMAIN path |-> LowerCase(path[i])]

\* Letter case never matters.
IsInsidePath(path, root) == IsPrefix(Lowered(root), Lowered(path))

\* The canonical path; a link stands for everything below it.
Canonical(path, links) ==
  LET linked == {l \in DOMAIN links : IsPrefix(l, path)}
      link == CHOOSE l \in linked : TRUE
  IN  IF linked = {} THEN path ELSE links[link] \o SubSeq(path, Len(link) + 1, Len(path))

\* The nearest directory with a .git, if any: the path itself, and what is above it
\* down to its first name.  That is the drive on Windows; above it, on a POSIX host,
\* the root <<>> of the file system is only looked at when it is the path itself.
GitToplevelOf(start, markers) ==
  LET Nearest[n \in 0..Len(start)] ==
        IF SubSeq(start, 1, n) \in markers THEN {SubSeq(start, 1, n)}
        ELSE IF n <= 1 THEN {} ELSE Nearest[n - 1]
  IN  Nearest[Len(start)]

\* Variant of IsInsideProject: the path as it is written.
IsInsideProjectAsWritten(path, root, system) ==
  IsInsidePath(path, root)

IsInsideProject(path, root, system) ==
  LET realRoot == Canonical(root, system.links)
      directories == {realRoot} \cup GitToplevelOf(realRoot, system.markers)
  IN  \E directory \in directories : IsInsidePath(path, directory)

----------------------------------------------------------------------------
(* What a section comes to. *)

Default(value, default) == IF value = "absent" THEN default ELSE value

\* A section is [enabled, delivery, mode, attempts, extra]; "absent", "true" and
\* "false" are values of YAML, and attempts is -1 when absent.
SectionResult(section) ==
  LET delivery == Default(section.delivery, "user")
      mode == Default(section.mode, "observe")
      attempts == IF section.attempts = -1 THEN 2 ELSE section.attempts
      valid == /\ ~section.extra
               /\ section.enabled \in {"absent", "true", "false"}
               /\ delivery \in {"user", "agent"} /\ mode \in {"observe", "remediate"}
               /\ mode = "remediate" => delivery = "agent"
               /\ section.attempts # -1 => mode = "remediate" /\ section.attempts \in 1..3
  IN  IF ~valid THEN InvalidSettings("USER_CONFIG_INVALID")
      ELSE IF section.enabled # "true" THEN Disabled
      ELSE Enabled([delivery |-> delivery, mode |-> mode, maxAttempts |-> attempts])

\* The text is unreadable, is no valid YAML, or holds nothing but a section.
TextResult(text) ==
  CASE text.kind = "unreadable" -> InvalidSettings("USER_CONFIG_UNREADABLE")
    [] text.kind = "invalid" -> InvalidSettings("USER_CONFIG_INVALID")
    [] text.kind = "empty" -> Disabled
    [] OTHER -> SectionResult(text.section)

\* loadRemediationUserSettings: a missing file, one inside the project, or its text.
LoadUserSettings(environment, root, system) ==
  LET real == Canonical(UserConfigFileOf(environment), system.links)
  IN  IF UserConfigFileOf(environment) = NoFile \/ real \notin DOMAIN system.text THEN Disabled
      ELSE IF IsInsideProject(real, root, system) THEN InvalidSettings("USER_CONFIG_IN_PROJECT")
      ELSE TextResult(system.text[real])
=============================================================================
