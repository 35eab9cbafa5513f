--------------------------- MODULE UnitAcquisition ---------------------------
(***************************************************************************)
(* What the hook concludes from one closed unit of a Claude Code session:  *)
(* the pure part of claude-code-adapter (src/acquisition, src/turn, the    *)
(* Git comparison of src/capture/git-shell-diff.ts and the overlap test of *)
(* src/capture/capture-event.ts).  A unit is the sequence of its persisted *)
(* lines; a line is an event with the evidence captured for it, or a taint.*)
(*                                                                         *)
(* A file's state (absent, or its text) is one element of Contents.        *)
(***************************************************************************)
EXTENDS Naturals, Sequences, FiniteSets, Lists
LOCAL INSTANCE SequencesExt

CONSTANTS
  Calls,      \* tool use ids
  Paths,      \* the files the session's tools touch
  Blocked,    \* the paths the evidence policy refuses: denied, linked, outside the project
  Contents    \* the states of a file

ASSUME AcquisitionAssumption == Blocked \subseteq Paths

NoDiff(status) == [status |-> status]
NoEvidence == [problem |-> FALSE, images |-> <<>>, diff |-> NoDiff("none")]
Problem == [NoEvidence EXCEPT !.problem = TRUE]
Taint == [event |-> "taint"]

IsTool(line) == line.event \in {"pre", "post", "fail"}
IsShell(tool) == tool.kind \in {"SHELL", "BACKGROUND"}
WriteCapable(tool) == tool.kind = "EDIT" \/ IsShell(tool)
\* A main-agent Stop whose background tasks are not active, or a StopFailure.
IsClosing(line) ==
  \/ line.event = "failure"
  \/ line.event = "stop" /\ line.background # "ACTIVE"

----------------------------------------------------------------------------
(* Two pictures of the working tree around one shell call. *)

\* takeGitSnapshot: HEAD, and the state of every path that differs from it.
Picture(tree, head) ==
  LET dirty == {p \in Paths : tree[p] # head[p]}
  IN  [status |-> "TAKEN", head |-> head, dirty |-> [p \in dirty |-> tree[p]]]

\* Variant of PictureDiff: the state before the call is the committed one.
PictureDiffFromHead(before, after, tree) ==
  LET candidates == DOMAIN before.dirty \cup DOMAIN after.dirty
      Is(p) == IF p \in DOMAIN after.dirty THEN after.dirty[p] ELSE tree[p]
  IN  [status |-> "AVAILABLE",
       read |-> [p \in {p \in candidates \ Blocked : before.head[p] # Is(p)} |->
                   [was |-> before.head[p], is |-> Is(p)]],
       unread |-> {}]

\* The change between the picture before the call and the one after it.  tree
\* is read at the end of the call, for a candidate that is not dirty there.
PictureDiff(before, after, tree) ==
  LET moved == {p \in Paths : before.head[p] # after.head[p]}
      candidates == DOMAIN before.dirty \cup DOMAIN after.dirty \cup moved
      Was(p) == IF p \in DOMAIN before.dirty THEN before.dirty[p] ELSE before.head[p]
      Is(p) == IF p \in DOMAIN after.dirty THEN after.dirty[p] ELSE tree[p]
      Unread(p) == p \in Blocked /\ (p \in DOMAIN before.dirty => Was(p) # Is(p))
  IN  [status |-> "AVAILABLE",
       read |-> [p \in {p \in candidates \ Blocked : Was(p) # Is(p)} |->
                   [was |-> Was(p), is |-> Is(p)]],
       unread |-> {p \in candidates : Unread(p)}]

\* Whether another write-capable call was open when the shell call started, or
\* has shown any event since; an unreadable unit or a missing start counts.
Overlaps(lines, call) ==
  LET writers == Kept(lines, {l \in ToSet(lines) : IsTool(l) /\ WriteCapable(l.tool)})
      Open(i) == {writers[j].call : j \in {j \in 1..(i - 1) : writers[j].event = "pre"}}
                   \ {writers[j].call : j \in {j \in 1..(i - 1) : writers[j].event # "pre"}}
  IN  ~ \E i \in DOMAIN writers :
          /\ writers[i].event = "pre" /\ writers[i].call = call
          /\ i = Len(writers)
          /\ Open(i) = {}

----------------------------------------------------------------------------
(* attributeToolEvents: the files of the unit and their two states. *)

NothingAttributed ==
  [reasons |-> {}, universe |-> {}, before |-> <<>>, last |-> <<>>, known |-> <<>>]

AddReason(at, reason) == [at EXCEPT !.reasons = @ \cup {reason}]

ToolReasons(tool) ==
  (IF tool.kind = "MCP" THEN {"MCP_TOOL"} ELSE {})
    \cup (IF tool.kind = "BACKGROUND" THEN {"SHELL_BACKGROUND"} ELSE {})

OnPre(at, line, preImages) ==
  LET p == line.tool.path
  IN  CASE IsShell(line.tool) ->
             [at EXCEPT !.known = With(@, line.call, at.universe)]
        [] line.tool.kind # "EDIT" -> at
        [] p \in Blocked -> AddReason(at, "BLOCKED_PATH")
        [] p \notin Blocked /\ p \notin DOMAIN preImages -> AddReason(at, "MISSING_CAPTURE")
        [] OTHER -> IF p \in at.universe THEN at
                    ELSE [at EXCEPT !.universe = @ \cup {p},
                                    !.before = With(@, p, preImages[p])]

OnEditPost(at, line) ==
  LET p == line.tool.path
  IN  CASE p \in Blocked -> AddReason(at, "BLOCKED_PATH")
        [] p \notin Blocked /\ p \notin DOMAIN line.capture.images ->
             AddReason(at, "MISSING_CAPTURE")
        [] OTHER -> [at EXCEPT !.last = With(@, p, line.capture.images[p])]

\* A failed edit is taken to have left the file as it was before the unit,
\* unless the unit already attributed a state to it.
OnEditFailed(at, line) ==
  LET p == line.tool.path
  IN  IF p \in DOMAIN at.before /\ p \notin DOMAIN at.last
      THEN [at EXCEPT !.last = With(@, p, at.before[p])]
      ELSE at

OnShellFinished(at, line) ==
  LET diff == line.capture.diff
      known == IF line.call \in DOMAIN at.known THEN at.known[line.call] ELSE at.universe
      changed == DOMAIN diff.read
      fresh == changed \ known
      lost == (IF diff.unread \cap Blocked # {} THEN {"BLOCKED_PATH"} ELSE {})
                \cup (IF diff.unread \ Blocked # {} THEN {"MISSING_CAPTURE"} ELSE {})
  IN  CASE line.tool.kind = "BACKGROUND" -> at
        [] line.tool.kind = "SHELL" /\ diff.status \in {"none", "UNPROVEN"} ->
             AddReason(at, "SHELL_GIT_DIFF_UNAVAILABLE")
        [] line.tool.kind = "SHELL" /\ diff.status = "LIMIT_EXCEEDED" ->
             AddReason(at, "SHELL_DIFF_LIMIT_EXCEEDED")
        [] OTHER -> [at EXCEPT !.reasons = @ \cup lost,
                               !.universe = @ \cup fresh,
                               !.before = Over([p \in fresh |-> diff.read[p].was], @),
                               !.last = Over([p \in changed |-> diff.read[p].is], @)]

AttributeEvent(at, line, preImages) ==
  IF ~IsTool(line) THEN at
  ELSE LET flagged == [at EXCEPT !.reasons = @ \cup ToolReasons(line.tool)]
       IN  CASE line.event = "pre" -> OnPre(flagged, line, preImages)
             [] line.event # "pre" /\ IsShell(line.tool) -> OnShellFinished(flagged, line)
             [] line.event = "post" /\ line.tool.kind = "EDIT" -> OnEditPost(flagged, line)
             [] line.event = "fail" /\ line.tool.kind = "EDIT" -> OnEditFailed(flagged, line)
             [] OTHER -> flagged

\* flagPairing: a write-capable call with a start and no end, or the reverse.
Unpaired(lines) ==
  LET CallsOf(events) == {lines[i].call : i \in
                            {i \in DOMAIN lines : /\ lines[i].event \in events
                                                  /\ WriteCapable(lines[i].tool)}}
  IN  CallsOf({"pre"}) # CallsOf({"post", "fail"})

Attribute(lines, preImages) ==
  LET walked == FoldLeft(LAMBDA at, line : AttributeEvent(at, line, preImages),
                         NothingAttributed, lines)
  IN  IF Unpaired(lines) THEN AddReason(walked, "PAIRING_BROKEN") ELSE walked

----------------------------------------------------------------------------
(* acquireUnit and resolveAcquisition. *)

Unavailable(reasons) == [status |-> "UNAVAILABLE", reasons |-> reasons]
CaptureFailed == Unavailable({"CAPTURE_FAILED"})
Skipped == [status |-> "SKIPPED"]

PromptsOf(lines) == Kept(lines, {l \in ToSet(lines) : l.event = "prompt"})

PromptReasons(lines) ==
  LET prompts == PromptsOf(lines)
  IN  IF prompts = <<>> THEN {"MISSING_PROMPT"}
      ELSE IF \E i \in DOMAIN prompts : ~prompts[i].text THEN {"PROMPT_NOT_TEXT"} ELSE {}

ClosingReasons(line) ==
  IF line.event = "failure" THEN {"TURN_FAILED"}
  ELSE IF line.background = "UNKNOWN" THEN {"BACKGROUND_STATE_UNKNOWN"} ELSE {}

\* Variant of FileReasons: the final state is not compared.
FileReasonsUncompared(at, final) ==
  IF \E p \in at.universe : p \notin DOMAIN at.before \/ p \notin DOMAIN at.last
  THEN {"MISSING_CAPTURE"} ELSE {}

\* The states a file of the unit must have to be reviewed: before it, last
\* attributed, and final; the last two must agree.
FileReasons(at, final) ==
  (IF \E p \in at.universe : p \notin DOMAIN at.before \/ p \notin DOMAIN at.last
   THEN {"MISSING_CAPTURE"} ELSE {})
    \cup
  (IF \E p \in at.universe \cap DOMAIN at.before \cap DOMAIN at.last : final[p] # at.last[p]
   THEN {"UNATTRIBUTED_WRITER"} ELSE {})

Turn(at, final, lines) ==
  LET files == {p \in at.universe : at.before[p] # final[p]}
      prompts == PromptsOf(lines)
  IN  IF files = {} THEN Skipped
      ELSE [status |-> "TURN",
            prompts |-> [i \in DOMAIN prompts |-> prompts[i].id],
            files |-> [p \in files |-> [before |-> at.before[p], after |-> final[p]]]]

\* problem: whether a line or a pre-image record carries a capture problem.
AcquireUnit(lines, preImages, problem, final) ==
  LET at == Attribute(lines, preImages)
      reasons == at.reasons \cup PromptReasons(lines) \cup ClosingReasons(lines[Len(lines)])
                   \cup (IF problem THEN {"CAPTURE_FAILED"} ELSE {})
  IN  CASE reasons # {} -> Unavailable(reasons)
        [] reasons = {} /\ at.universe = {} -> Skipped
        [] reasons = {} /\ at.universe # {} /\ FileReasons(at, final) # {} ->
             Unavailable(FileReasons(at, final))
        [] OTHER -> Turn(at, final, lines)

\* foldUnit and resolveUnit.  pre is the directory of first images: a path that
\* was claimed and never filled makes it unreadable.
ResolveUnit(lines, pre, final) ==
  LET events == Kept(lines, {l \in ToSet(lines) : l.event # "taint"})
      closings == {i \in DOMAIN events : IsClosing(events[i])}
      readable == \A p \in DOMAIN pre : pre[p] # "claimed"
      images == [p \in {p \in DOMAIN pre : readable /\ pre[p] # "problem"} |-> pre[p]]
      problem == \/ ~readable
                 \/ \E p \in DOMAIN pre : pre[p] = "problem"
                 \/ \E i \in DOMAIN lines :
                      lines[i].event = "taint" \/ (IsTool(lines[i]) /\ lines[i].capture.problem)
  IN  IF closings = {Len(events)} THEN AcquireUnit(events, images, problem, final)
      ELSE CaptureFailed
=============================================================================
