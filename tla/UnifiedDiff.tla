----------------------------- MODULE UnifiedDiff -----------------------------
(***************************************************************************)
(* The strict reader of `git diff` output and of plain unified diffs       *)
(* (core/src/evidence/parse-unified-diff.ts), as functions of the lines of *)
(* a text.  A line is a record of its kind: which of the reader's prefixes *)
(* it starts with, and the paths or counts behind the prefix.  What a line *)
(* is depends on where it stands: inside a hunk, a "--- " line removes and *)
(* a "+++ " line adds.                                                     *)
(***************************************************************************)
EXTENDS Integers, Sequences, FiniteSets
LOCAL INSTANCE FiniteSetsExt

NoPath == "none"

\* A path behind a prefix: with its own a/ or b/, without, quoted, or /dev/null.
Value(form, path) == [form |-> form, path |-> path]
DevNull == Value("null", NoPath)

\* The lines.  The two paths of a git header may be unreadable.
Git(from, to) == [kind |-> "git", form |-> "paths", from |-> from, to |-> to]
GitOdd(form) == [kind |-> "git", form |-> form, from |-> NoPath, to |-> NoPath]
Old(value) == [kind |-> "old", value |-> value]
New(value) == [kind |-> "new", value |-> value]
Hunk(removed, added) == [kind |-> "hunk", removed |-> removed, added |-> added]
Body(marker) == [kind |-> "body", marker |-> marker]
\* "moved from", "moved to": rename and copy headers; "extended": the other
\* extended headers; "binary", "combined", "no newline" (a line "\ ..."),
\* "blank", "@@" (no hunk header) and "other" lines.
Moved(kind, value) == [kind |-> kind, value |-> value]
Plainly(kind) == [kind |-> kind]

Line(text, i) == IF i \in DOMAIN text THEN text[i] ELSE Plainly("end")
Kind(text, i) == Line(text, i).kind

Invalid(reason) == [status |-> "INVALID", reason |-> reason]

----------------------------------------------------------------------------
(* Where things start. *)

\* "PLAIN" is for a text without any git header.
DetectFormat(text, first) ==
  CASE text[first].kind = "git" -> "GIT"
    [] \E i \in DOMAIN text : text[i].kind = "git" -> "none"
    [] Kind(text, first) = "old" /\ Kind(text, first + 1) = "new" -> "PLAIN"
    [] OTHER -> "none"

IsSectionStart(text, i, format) ==
  IF format = "GIT" THEN Kind(text, i) = "git"
  ELSE Kind(text, i) = "old" /\ Kind(text, i + 1) = "new"

IsBlankTail(text, from) == \A i \in from..Len(text) : text[i].kind = "blank"

----------------------------------------------------------------------------
(* The headers of a section. *)

ReadGitHeader(line) ==
  CASE line.form = "quoted" -> Invalid("QUOTED_PATH")
    [] line.form = "no prefix" -> Invalid("UNSUPPORTED_PREFIX")
    [] line.form = "no second path" -> Invalid("UNRECOGNIZED_DIFF")
    [] line.form = "paths" /\ "" \in {line.from, line.to} -> Invalid("MISSING_PATH")
    [] OTHER -> [status |-> "OK", from |-> line.from, to |-> line.to]

\* The first line that is no extended header, and the paths moved from and to.
ReadExtendedHeaders(text, start) ==
  LET Read[i \in start..Len(text) + 1, from \in STRING, to \in STRING] ==
        CASE Kind(text, i) = "binary" -> Invalid("BINARY_PATCH")
          [] Kind(text, i) \in {"moved from", "moved to"} ->
               IF text[i].value.form = "quoted" THEN Invalid("QUOTED_PATH")
               ELSE IF Kind(text, i) = "moved from" THEN Read[i + 1, text[i].value.path, to]
               ELSE Read[i + 1, from, text[i].value.path]
          [] Kind(text, i) = "extended" -> Read[i + 1, from, to]
          [] OTHER -> [status |-> "OK", next |-> i, from |-> from, to |-> to]
  IN  Read[start, NoPath, NoPath]

\* stripPrefixes: both paths carry their prefix, or, in a plain diff, neither.
PrefixesAllowed(old, new, format) ==
  \/ {old.form, new.form} \subseteq {"own", "null"}
  \/ format = "PLAIN" /\ {old.form, new.form} \subseteq {"bare", "null"}

\* The two paths of a section; NoPath stands for /dev/null.
ReadFilePaths(text, i, format) ==
  IF Kind(text, i) # "old" \/ Kind(text, i + 1) # "new" THEN Invalid("UNRECOGNIZED_DIFF")
  ELSE LET old == text[i].value
           new == text[i + 1].value
       IN  CASE "quoted" \in {old.form, new.form} -> Invalid("QUOTED_PATH")
             [] "quoted" \notin {old.form, new.form} /\ ~PrefixesAllowed(old, new, format) ->
                  Invalid("UNSUPPORTED_PREFIX")
             [] PrefixesAllowed(old, new, format) /\
                  ("" \in {old.path, new.path} \/ {old.path, new.path} = {NoPath}) ->
                  Invalid("MISSING_PATH")
             [] OTHER -> [status |-> "OK", old |-> old.path, new |-> new.path]

\* A path may be missing on one side and else is the header's; a section with
\* content may not move its file.
CheckGitPaths(header, extended, paths) ==
  IF paths.old \notin {NoPath, header.from} \/ paths.new \notin {NoPath, header.to}
  THEN Invalid("UNRECOGNIZED_DIFF")
  ELSE IF \/ header.from # header.to
          \/ NoPath \notin {extended.from, extended.to} /\ extended.from # extended.to
  THEN Invalid("RENAMED_PATH")
  ELSE [status |-> "OK"]

----------------------------------------------------------------------------
(* Hunks. *)

\* An empty line of a hunk is a line of context.
Marker(line) ==
  CASE line.kind = "body" -> line.marker
    [] line.kind = "blank" -> " "
    [] line.kind = "old" -> "-"
    [] line.kind = "new" -> "+"
    [] OTHER -> "none"

ConsumesOld(line) == Marker(line) \in {" ", "-"}
ConsumesNew(line) == Marker(line) \in {" ", "+"}
Count(consumes) == IF consumes THEN 1 ELSE 0

\* Variant of ReadHunk: the lines are those up to the next header.
ReadHunkToHeader(text, at) ==
  LET Ends(i) == \/ i > Len(text)
                 \/ Marker(Line(text, i)) = "none" /\ Kind(text, i) # "no newline"
  IN  IF Kind(text, at) # "hunk" THEN Invalid("UNRECOGNIZED_DIFF")
      ELSE [status |-> "OK", next |-> Min({i \in at + 1..Len(text) + 1 : Ends(i)})]

\* The header's counts say where a hunk ends; a "no newline" line is only read
\* behind a line of the body.
ReadHunk(text, at) ==
  LET Read[i \in at + 1..Len(text) + 1, old \in Nat, new \in Nat, body \in BOOLEAN] ==
        CASE old + new = 0 ->
               [status |-> "OK",
                next |-> IF body /\ Kind(text, i) = "no newline" THEN i + 1 ELSE i]
          [] old + new > 0 /\ i > Len(text) -> Invalid("TRUNCATED_HUNK")
          [] old + new > 0 /\ Kind(text, i) = "no newline" /\ body ->
               Read[i + 1, old, new, FALSE]
          [] old + new > 0 /\ Marker(Line(text, i)) # "none"
               /\ (ConsumesOld(text[i]) => old > 0) /\ (ConsumesNew(text[i]) => new > 0) ->
               Read[i + 1, old - Count(ConsumesOld(text[i])),
                    new - Count(ConsumesNew(text[i])), TRUE]
          [] OTHER -> Invalid("UNRECOGNIZED_DIFF")
  IN  IF Kind(text, at) # "hunk" THEN Invalid("UNRECOGNIZED_DIFF")
      ELSE Read[at + 1, text[at].removed, text[at].added, FALSE]

\* At least one hunk; they end at the first line that starts none.
ReadHunks(text, start) ==
  LET Read[i \in start..Len(text) + 1] ==
        IF Kind(text, i) \notin {"hunk", "@@"} THEN [status |-> "OK", end |-> i]
        ELSE LET hunk == ReadHunk(text, i)
             IN  IF hunk.status = "INVALID" THEN hunk ELSE Read[hunk.next]
  IN  IF Kind(text, start) \in {"hunk", "@@"} THEN Read[start]
      ELSE Invalid(IF start > Len(text) THEN "TRUNCATED_HUNK" ELSE "UNRECOGNIZED_DIFF")

----------------------------------------------------------------------------
(* Sections. *)

NoFile == [path |-> NoPath, first |-> 0, end |-> 0]
Section(file, next) == [status |-> "OK", file |-> file, next |-> next]

\* A file's patch is the text from its section's first line to its last hunk.
ReadContent(text, start, hunks, paths, format) ==
  LET file == [path |-> IF paths.new # NoPath THEN paths.new ELSE paths.old,
               first |-> start, end |-> hunks.end]
  IN  CASE hunks.status = "INVALID" -> hunks
        [] hunks.status = "OK" /\ (hunks.end > Len(text) \/ IsSectionStart(text, hunks.end, format)) ->
             Section(file, hunks.end)
        [] hunks.status = "OK" /\ hunks.end <= Len(text) /\ IsBlankTail(text, hunks.end) ->
             Section(file, Len(text) + 1)
        [] OTHER -> Invalid("UNRECOGNIZED_DIFF")

\* Renames, mode changes: a section without content has no file.
ReadSectionWithoutContent(text, i) ==
  CASE i > Len(text) \/ Kind(text, i) = "git" -> Section(NoFile, i)
    [] i <= Len(text) /\ IsBlankTail(text, i) -> Section(NoFile, Len(text) + 1)
    [] OTHER -> Invalid("UNRECOGNIZED_DIFF")

ReadGitSection(text, start) ==
  LET header == ReadGitHeader(text[start])
      extended == ReadExtendedHeaders(text, start + 1)
      paths == ReadFilePaths(text, extended.next, "GIT")
      check == CheckGitPaths(header, extended, paths)
  IN  IF header.status = "INVALID" THEN header
      ELSE IF extended.status = "INVALID" THEN extended
      ELSE IF Kind(text, extended.next) # "old"
      THEN ReadSectionWithoutContent(text, extended.next)
      ELSE IF paths.status = "INVALID" THEN paths
      ELSE IF check.status = "INVALID" THEN check
      ELSE ReadContent(text, start, ReadHunks(text, extended.next + 2), paths, "GIT")

ReadPlainSection(text, start) ==
  LET paths == ReadFilePaths(text, start, "PLAIN")
  IN  IF paths.status = "INVALID" THEN paths
      ELSE IF NoPath \notin {paths.old, paths.new} /\ paths.old # paths.new
      THEN Invalid("RENAMED_PATH")
      ELSE ReadContent(text, start, ReadHunks(text, start + 2), paths, "PLAIN")

\* A section and those behind it: one that is invalid invalidates the text.
JoinSections(section, rest) ==
  CASE section.status = "INVALID" -> section
    [] section.status = "OK" /\ (rest.status = "INVALID" \/ section.file = NoFile) -> rest
    [] OTHER -> [rest EXCEPT !.files = <<section.file>> \o @]

CollectFiles(text, first, format) ==
  LET Collect[i \in first..Len(text) + 1] ==
        IF i > Len(text) THEN [status |-> "PARSED", files |-> <<>>]
        ELSE LET section == IF format = "GIT" THEN ReadGitSection(text, i)
                            ELSE ReadPlainSection(text, i)
             IN  JoinSections(section, Collect[section.next])
  IN  Collect[first]

ParseUnifiedDiff(text) ==
  LET written == {i \in DOMAIN text : text[i].kind # "blank"}
      first == Min(written)
      format == DetectFormat(text, first)
  IN  IF written = {} THEN [status |-> "PARSED", files |-> <<>>]
      ELSE IF \E i \in DOMAIN text : text[i].kind = "combined" THEN Invalid("COMBINED_DIFF")
      ELSE IF format = "none" THEN Invalid("UNRECOGNIZED_DIFF")
      ELSE CollectFiles(text, first, format)
=============================================================================
