----------------------------- MODULE UnitCapture -----------------------------
(***************************************************************************)
(* The hook processes of one Claude Code session                           *)
(* (claude-code-adapter/src/hook/run-hook.ts and src/capture).  The host   *)
(* starts one process for every event and waits for it: before and after   *)
(* each tool call, at a prompt, at a stop.  Parallel tool calls and        *)
(* background agents make these processes run side by side; they share     *)
(* only the files of the session, so every file operation that another     *)
(* process can come between is a step of its own.                          *)
(*                                                                         *)
(* Left to UnitAcquisition: what a closed unit's lines mean.               *)
(***************************************************************************)
EXTENDS UnitAcquisition

CONSTANTS
  Agents,            \* the calls of background agents: subset of Calls
  ToolKinds,         \* subset of {"EDIT", "SHELL", "BACKGROUND", "MCP"}
  PromptTexts,       \* whether prompts are text: subset of BOOLEAN
  Endings,           \* how the main agent stops: subset of EndingKinds
  Faults,            \* the failures allowed: subset of FaultKinds
  ForeignContents,   \* what other processes write: states no tool of the session writes
  MaxFaults,         \* bound: failures
  MaxPrompts,        \* bound: prompts
  MaxStops           \* bound: stops

\* "foreign" is a write by a process outside the session, "session" its end.
FaultKinds == {"kill", "state", "read", "limit", "link", "marker", "session", "foreign"}

\* A stop, by the state of the background tasks it reports, or a failure.
EndingKinds == {"EMPTY", "ACTIVE", "UNKNOWN", "failure"}

Main == "main"        \* the actor of the events that belong to no call

ASSUME CaptureAssumption ==
  /\ Agents \subseteq Calls
  /\ ToolKinds \subseteq {"EDIT", "SHELL", "BACKGROUND", "MCP"}
  /\ PromptTexts \subseteq BOOLEAN
  /\ Endings \subseteq EndingKinds
  /\ Faults \subseteq FaultKinds
  /\ ForeignContents \subseteq Contents
  /\ {MaxFaults, MaxPrompts, MaxStops} \subseteq Nat
  /\ Main \notin Calls

OwnContents == Contents \ ForeignContents
NoEpoch == 0

VARIABLES
  tree,       \* the working tree
  head,       \* the tree of the HEAD commit
  session,    \* the session directory: epoch, current marker, taint marker
  units,      \* the unit directories, by ordinal: lines, first images, shell pictures
  handoffs,   \* the handoff directory
  hooks,      \* the hook process of each actor
  calls,      \* the host: what each call does and how far it is
  turn,       \* the host: whether the main agent works
  used,       \* bounds: epochs, prompts, stops and faults so far
  truth       \* history variable: what really happened since the last unit closed

fileVars == <<session, units, handoffs>>
hostVars == <<calls, turn>>
treeVars == <<tree, head>>
vars == <<tree, head, session, units, handoffs, hooks, calls, turn, used, truth>>

NoUnit == [lines |-> <<>>, pre |-> <<>>, shell |-> <<>>]
\* A directory that was never written, or was removed, holds nothing.
UnitAt(ordinal) == IF ordinal \in DOMAIN units THEN units[ordinal] ELSE NoUnit
Put(ordinal, unit) == units' = With(units, ordinal, unit)
Appended(unit, line) == [unit EXCEPT !.lines = Append(@, line)]

NoHook == [stage |-> "none"]
NoCall == [state |-> "idle", tool |-> [kind |-> "MCP", path |-> "none"]]
InFlight(call) == call.state \notin {"idle", "done"}
Actors == Calls \cup {Main}

\* own: the paths the session's tools wrote, with their state before the first
\* of these writes; settled: the tree when the last of the session's calls was
\* in flight; foreign: the paths other processes wrote; prompts: the prompts
\* sent; writers: the calls that wrote, and in a closed unit those of them it
\* has no line of; misled: whether a write fell into one of the windows
\* Misleads names; serial: how many units have closed; excused: the ones whose hand-over a failure cut off.
FreshTruth(t, serial, excused) ==
  [own |-> <<>>, settled |-> t, foreign |-> {}, prompts |-> <<>>, writers |-> {}, misled |-> FALSE,
   serial |-> serial, excused |-> excused]

Init ==
  /\ tree \in [Paths -> OwnContents]
  /\ head = [p \in Paths |-> CHOOSE c \in OwnContents : TRUE]
  /\ session = [epoch |-> NoEpoch, current |-> 0, damaged |-> FALSE, tainted |-> FALSE]
  /\ units = <<>>
  /\ handoffs = {}
  /\ hooks = [a \in Actors |-> NoHook]
  /\ calls = [c \in Calls |-> NoCall]
  /\ turn = "idle"
  /\ used = [epochs |-> 0, prompts |-> 0, stops |-> 0, faults |-> 0]
  /\ truth = FreshTruth(tree, 0, {})

----------------------------------------------------------------------------
(* The host: it starts a hook for each event and goes on when the hook ends. *)

Start(a, event) == hooks' = [hooks EXCEPT ![a] = [stage |-> "open", event |-> event]]

\* A prompt, text or not, when the main agent is idle and its hooks are over.
Prompt(text) ==
  /\ turn = "idle" /\ hooks[Main] = NoHook
  /\ used.prompts < MaxPrompts
  /\ used' = [used EXCEPT !.prompts = @ + 1]
  /\ turn' = "working"
  /\ Start(Main, [event |-> "prompt", id |-> used.prompts + 1, text |-> text])
  /\ truth' = [truth EXCEPT !.prompts = Append(@, used.prompts + 1)]
  /\ UNCHANGED <<treeVars, fileVars, calls>>

\* The main agent goes on without a prompt once a background agent has ended.
Resume ==
  /\ turn = "idle" /\ hooks[Main] = NoHook
  /\ \E c \in Agents : calls[c].state = "done"
  /\ turn' = "working"
  /\ UNCHANGED <<treeVars, fileVars, hooks, calls, used, truth>>

EventOf(event, c, tool) == [event |-> event, call |-> c, tool |-> tool, capture |-> NoEvidence]

\* The main agent's calls start while it works, a background agent's also while
\* its agent runs on.
PreTool(c, tool) ==
  /\ \/ turn = "working" /\ hooks[Main] = NoHook
     \/ c \in Agents /\ \E d \in Agents : InFlight(calls[d])
  /\ calls[c].state = "idle"
  /\ calls' = [calls EXCEPT ![c] = [state |-> "pre", tool |-> tool]]
  /\ Start(c, EventOf("pre", c, tool))
  /\ UNCHANGED <<treeVars, fileVars, turn, used, truth>>

\* The two windows in which a write misleads another call's hook: between the
\* claim of a first image and its reading, and between the search for other
\* writers and the picture after a shell call.
Misleads(p) ==
  \E a \in Calls : \/ hooks[a].stage = "record" /\ hooks[a].event.tool.path = p
                   \/ hooks[a].stage = "diff"

Own(c, p) == [truth EXCEPT !.writers = @ \cup {c},
                        !.own = IF p \in DOMAIN @ THEN @ ELSE With(@, p, tree[p]),
                        !.misled = @ \/ Misleads(p)]

\* The tool's own write: an edit to its file, a shell or MCP call to any.
ToolWrites(c, p, content) ==
  /\ calls[c].state = "running"
  /\ calls[c].tool.kind = "EDIT" => p = calls[c].tool.path
  /\ tree' = [tree EXCEPT ![p] = content]
  /\ truth' = Own(c, p)
  /\ calls' = [calls EXCEPT ![c].state = "ran"]
  /\ UNCHANGED <<head, fileVars, hooks, turn, used>>

\* A shell call commits the tree.
ToolCommits(c) ==
  /\ calls[c].state = "running" /\ IsShell(calls[c].tool)
  /\ head' = tree
  /\ calls' = [calls EXCEPT ![c].state = "ran"]
  /\ UNCHANGED <<tree, fileVars, hooks, turn, used, truth>>

\* The call has ended, well or not, whether or not it wrote.
PostTool(c, outcome) ==
  /\ calls[c].state \in {"running", "ran"}
  /\ calls' = [calls EXCEPT ![c].state = "post"]
  /\ Start(c, EventOf(outcome, c, calls[c].tool))
  /\ UNCHANGED <<treeVars, fileVars, turn, used, truth>>

\* The main agent stops: with no call of its own in flight, and reporting its
\* background tasks truthfully or not at all.
Stop(line) ==
  /\ turn = "working" /\ hooks[Main] = NoHook
  /\ used.stops < MaxStops
  /\ \A c \in Calls \ Agents : ~InFlight(calls[c])
  /\ line.event = "stop" /\ line.background # "UNKNOWN" =>
       (line.background = "ACTIVE" <=> \E c \in Agents : InFlight(calls[c]))
  /\ used' = [used EXCEPT !.stops = @ + 1]
  /\ turn' = "idle"
  /\ Start(Main, line)
  /\ UNCHANGED <<treeVars, fileVars, calls, truth>>

\* The user interrupts: the calls of the main agent end without a post event.
Interrupt ==
  /\ turn = "working"
  /\ \A a \in (Calls \ Agents) \cup {Main} : hooks[a] = NoHook
  /\ \E c \in Calls \ Agents : InFlight(calls[c])
  /\ turn' = "idle"
  /\ calls' = [c \in Calls |->
                 IF c \in Agents \/ ~InFlight(calls[c]) THEN calls[c]
                 ELSE [calls[c] EXCEPT !.state = "done"]]
  /\ truth' = [truth EXCEPT !.settled = tree]
  /\ UNCHANGED <<treeVars, fileVars, hooks, used>>

Fault(kind) ==
  /\ kind \in Faults /\ used.faults < MaxFaults
  /\ used' = [used EXCEPT !.faults = @ + 1]

\* A process outside the session writes a file.
ForeignWrite(p, content) ==
  /\ Fault("foreign")
  /\ content # tree[p]
  /\ tree' = [tree EXCEPT ![p] = content]
  /\ truth' = [truth EXCEPT !.foreign = @ \cup {p}]
  /\ UNCHANGED <<head, fileVars, hooks, hostVars>>

\* The hook of an actor is over: the call it belongs to moves on.
Ends(a) ==
  /\ hooks' = [hooks EXCEPT ![a] = NoHook]
  /\ IF a = Main THEN UNCHANGED <<calls, truth>>
     ELSE /\ calls' = [calls EXCEPT ![a].state = IF @ = "pre" THEN "running" ELSE "done"]
          /\ truth' = IF calls[a].state = "post" THEN [truth EXCEPT !.settled = tree] ELSE truth

Goes(a, stage) == hooks' = [hooks EXCEPT ![a].stage = stage]

----------------------------------------------------------------------------
(* The steps of one hook process. *)

Foreground(event) == IsTool(event) /\ event.tool.kind = "SHELL"

\* What the hook does before it appends its event's line.
FirstStage(event) ==
  CASE event.event = "pre" /\ event.tool.kind = "EDIT" /\ event.tool.path \notin Blocked -> "claim"
    [] event.event = "post" /\ event.tool.kind = "EDIT" /\ event.tool.path \notin Blocked -> "read"
    [] event.event \in {"post", "fail"} /\ Foreground(event) -> "window"
    [] OTHER -> "append"

\* The ordinal the marker names; a damaged one is rebuilt from the clock,
\* which is far above any ordinal, and from the unit directories.
WallClock == 100 * (1 + used.faults)
CurrentOrdinal ==
  IF session.damaged
  THEN CHOOSE n \in {WallClock} \cup {o + 1 : o \in DOMAIN units} :
         \A m \in {WallClock} \cup {o + 1 : o \in DOMAIN units} : m <= n
  ELSE session.current

\* openCurrentUnit: creates the epoch of a new session directory, rebuilds a
\* damaged marker, and folds a rebuilt marker or a taint marker into the unit.
LocatedEpoch == IF session.epoch = NoEpoch THEN used.epochs + 1 ELSE session.epoch
LocatedUnit ==
  IF session.damaged \/ session.tainted
  THEN Appended(UnitAt(CurrentOrdinal), Taint) ELSE UnitAt(CurrentOrdinal)
Located(count) ==
  /\ session' = [epoch |-> LocatedEpoch, current |-> CurrentOrdinal,
               damaged |-> FALSE, tainted |-> FALSE]
  /\ used' = [count EXCEPT !.epochs = IF session.epoch = NoEpoch THEN @ + 1 ELSE @]

\* Variant of OpenUnit: the epoch is not kept with the session.
OpenUnitWithoutEpoch(a) ==
  /\ hooks[a].stage = "open"
  /\ session' = [epoch |-> 1, current |-> CurrentOrdinal,
               damaged |-> FALSE, tainted |-> FALSE]
  /\ Put(CurrentOrdinal, LocatedUnit)
  /\ hooks' = [hooks EXCEPT ![a] = [stage |-> FirstStage(@.event), event |-> @.event,
                                    ordinal |-> CurrentOrdinal, epoch |-> 1]]
  /\ UNCHANGED <<treeVars, handoffs, hostVars, used, truth>>

OpenUnit(a) ==
  /\ hooks[a].stage = "open"
  /\ Located(used)
  /\ Put(CurrentOrdinal, LocatedUnit)
  /\ hooks' = [hooks EXCEPT ![a] = [stage |-> FirstStage(@.event), event |-> @.event,
                                    ordinal |-> CurrentOrdinal, epoch |-> LocatedEpoch]]
  /\ UNCHANGED <<treeVars, handoffs, hostVars, truth>>

UnitOf(a) == UnitAt(hooks[a].ordinal)

\* writeFirstPreRecord: an exclusive create claims the first image of a path;
\* the loser goes on at once.
ClaimFirstImage(a) ==
  LET p == hooks[a].event.tool.path
  IN  /\ hooks[a].stage = "claim"
      /\ IF p \in DOMAIN UnitOf(a).pre
         THEN Goes(a, "append") /\ UNCHANGED units
         ELSE Goes(a, "record") /\ Put(hooks[a].ordinal, [UnitOf(a) EXCEPT
                                                           !.pre = With(@, p, "claimed")])
      /\ UNCHANGED <<treeVars, session, handoffs, hostVars, used, truth>>

RecordFirstImage(a) ==
  LET p == hooks[a].event.tool.path
  IN  /\ hooks[a].stage = "record"
      /\ \/ /\ Put(hooks[a].ordinal, [UnitOf(a) EXCEPT !.pre = With(@, p, tree[p])])
            /\ UNCHANGED used
         \/ /\ Fault("read")
            /\ Put(hooks[a].ordinal, [UnitOf(a) EXCEPT !.pre = With(@, p, "problem")])
      /\ Goes(a, "append")
      /\ UNCHANGED <<treeVars, session, handoffs, hostVars, truth>>

Captures(a, capture) ==
  hooks' = [hooks EXCEPT ![a].stage = "append", ![a].event.capture = capture]

\* captureEditPost.
ReadPostImage(a) ==
  LET p == hooks[a].event.tool.path
  IN  /\ hooks[a].stage = "read"
      /\ \/ Captures(a, [NoEvidence EXCEPT !.images = With(@, p, tree[p])]) /\ UNCHANGED used
         \/ Captures(a, Problem) /\ Fault("read")
      /\ UNCHANGED <<treeVars, fileVars, hostVars, truth>>

\* capturePostShell: takes the call's own picture away and looks for other
\* writers in the lines.
JudgeWindow(a) ==
  LET c == hooks[a].event.call
      unit == UnitOf(a)
      picture == IF c \in DOMAIN unit.shell THEN unit.shell[c] ELSE NoDiff("MISSING")
  IN  /\ hooks[a].stage = "window"
      /\ Put(hooks[a].ordinal,
             [unit EXCEPT !.shell = [d \in DOMAIN @ \ {c} |-> @[d]]])
      /\ CASE unit.lines = <<>> \/ Overlaps(unit.lines, c) \/ picture.status = "MISSING" ->
                Captures(a, [NoEvidence EXCEPT !.diff = NoDiff("UNPROVEN")])
           [] ~(unit.lines = <<>> \/ Overlaps(unit.lines, c)) /\ picture.status = "LIMIT_EXCEEDED" ->
                Captures(a, [NoEvidence EXCEPT !.diff = NoDiff("LIMIT_EXCEEDED")])
           [] OTHER -> hooks' = [hooks EXCEPT ![a] = Over([before |-> picture, stage |-> "diff"], @)]
      /\ UNCHANGED <<treeVars, session, handoffs, hostVars, used, truth>>

DiffPictures(a) ==
  /\ hooks[a].stage = "diff"
  /\ \/ /\ Captures(a, [NoEvidence EXCEPT
                          !.diff = PictureDiff(hooks[a].before, Picture(tree, head), tree)])
        /\ UNCHANGED used
     \/ \E verdict \in {"UNPROVEN", "LIMIT_EXCEEDED"} :
          /\ Fault("limit")
          /\ Captures(a, [NoEvidence EXCEPT !.diff = NoDiff(verdict)])
  /\ UNCHANGED <<treeVars, fileVars, hostVars, truth>>

\* appendLine; a foreground shell call then takes its picture, a closing event
\* then closes the unit.
AppendLine(a) ==
  LET event == hooks[a].event
  IN  /\ hooks[a].stage = "append"
      /\ Put(hooks[a].ordinal, Appended(UnitOf(a), event))
      /\ CASE event.event = "pre" /\ Foreground(event) -> Goes(a, "picture") /\ UNCHANGED <<calls, truth>>
           [] IsClosing(event) -> Goes(a, "advance") /\ UNCHANGED <<calls, truth>>
           [] OTHER -> Ends(a)
      /\ UNCHANGED <<treeVars, session, handoffs, turn, used>>

\* captureAfterAppend: a picture that cannot be taken is left out, one over a
\* limit leaves a mark.
TakePicture(a) ==
  LET Keep(picture) == Put(hooks[a].ordinal,
                           [UnitOf(a) EXCEPT !.shell = With(@, hooks[a].event.call, picture)])
  IN  /\ hooks[a].stage = "picture"
      /\ \/ Keep(Picture(tree, head)) /\ UNCHANGED used
         \/ Fault("limit") /\ (Keep(NoDiff("LIMIT_EXCEEDED")) \/ UNCHANGED units)
      /\ Ends(a)
      /\ UNCHANGED <<treeVars, session, handoffs, turn>>

\* advanceCurrentOrdinal: from here on new events belong to the next unit.
Advance(a) ==
  /\ hooks[a].stage = "advance"
  /\ session' = [session EXCEPT !.current = hooks[a].ordinal + 1, !.damaged = FALSE]
  /\ hooks' = [hooks EXCEPT ![a] = Over([truth |-> truth, stage |-> "fold"], @)]
  /\ truth' = FreshTruth(tree, truth.serial + 1, truth.excused)
  /\ UNCHANGED <<treeVars, units, handoffs, hostVars, used>>

\* resolveUnit: reads the lines, the first images and the final state of the
\* files; a unit that cannot be read, or not in time, is CAPTURE_FAILED.  One
\* step reads them all: a unit that closes while a call is in flight is
\* unavailable by its lines, and otherwise no line is added meanwhile.
Fold(a) ==
  LET lines == UnitOf(a).lines
      shown == {lines[i].call : i \in {i \in DOMAIN lines : IsTool(lines[i])}}
      Seen == [hooks[a].truth EXCEPT !.foreign = @ \cup truth.foreign, !.writers = @ \ shown]
  IN
  /\ hooks[a].stage = "fold"
  /\ \/ /\ hooks' = [hooks EXCEPT ![a] =
                       Over([resolution |-> ResolveUnit(lines, UnitOf(a).pre, tree),
                             final |-> tree, truth |-> Seen, stage |-> "deliver"], @)]
        /\ UNCHANGED used
     \/ /\ Fault("read")
        /\ hooks' = [hooks EXCEPT ![a] =
                       Over([resolution |-> CaptureFailed, final |-> tree, truth |-> Seen,
                             stage |-> "deliver"], @)]
  /\ UNCHANGED <<treeVars, fileVars, hostVars, truth>>

SameName(h, a) == h.epoch = hooks[a].epoch /\ h.ordinal = hooks[a].ordinal
Excuse(serial) == truth' = [truth EXCEPT !.excused = @ \cup {serial}]

\* The sink links a complete file to a name that must be free; a failure to
\* write is only logged.
Deliver(a) ==
  /\ hooks[a].stage = "deliver"
  /\ \/ /\ handoffs' = IF \E h \in handoffs : SameName(h, a) THEN handoffs
                       ELSE handoffs \cup {[epoch |-> hooks[a].epoch, ordinal |-> hooks[a].ordinal,
                                            resolution |-> hooks[a].resolution,
                                            truth |-> hooks[a].truth, final |-> hooks[a].final]}
        /\ UNCHANGED <<used, truth>>
     \/ Fault("link") /\ Excuse(hooks[a].truth.serial) /\ UNCHANGED handoffs
  /\ Goes(a, "remove")
  /\ UNCHANGED <<treeVars, session, units, hostVars>>

\* Without(o): the unit directories but one.
Without(ordinal) == [o \in DOMAIN units \ {ordinal} |-> units[o]]

\* removeUnit, whatever came of the delivery.
RemoveUnit(a) ==
  /\ hooks[a].stage = "remove"
  /\ units' = Without(hooks[a].ordinal)
  /\ Ends(a)
  /\ UNCHANGED <<treeVars, session, handoffs, turn, used>>

----------------------------------------------------------------------------
(* Failures. *)

Closing(a) == hooks[a].stage \in {"fold", "deliver"}

\* The host kills a hook at its timeout and goes on without it.
Kill(a) ==
  /\ hooks[a] # NoHook
  /\ Fault("kill")
  /\ hooks' = [hooks EXCEPT ![a] = NoHook]
  /\ calls' = IF a = Main THEN calls
              ELSE [calls EXCEPT ![a].state = IF @ = "pre" THEN "running" ELSE "done"]
  /\ truth' = IF Closing(a) THEN [truth EXCEPT !.excused = @ \cup {hooks[a].truth.serial}]
              ELSE IF hooks[a].event.event # "prompt" THEN truth
              ELSE [truth EXCEPT !.prompts = Kept(@, (1..used.prompts) \ {hooks[a].event.id})]
  /\ UNCHANGED <<treeVars, fileVars, turn>>

\* Variant of HookFails: the failure leaves no taint.
HookFailsSilently(a) ==
  /\ hooks[a].stage \in {"open", "append", "advance"}
  /\ Fault("state")
  /\ Ends(a)
  /\ UNCHANGED <<treeVars, fileVars, turn>>

\* runHook's catch, and its answer to an event it cannot parse: a failed file
\* operation, or an unreadable event, taints the session's open unit, or leaves
\* the marker when that fails too.
HookFails(a) ==
  /\ hooks[a].stage \in {"open", "append", "advance"}
  /\ "state" \in Faults /\ used.faults < MaxFaults
  /\ LET count == [used EXCEPT !.faults = @ + 1]
     IN  \/ Located(count) /\ Put(CurrentOrdinal, Appended(LocatedUnit, Taint))
         \/ /\ session' = [session EXCEPT !.tainted = TRUE]
            /\ used' = count
            /\ UNCHANGED units
  /\ Ends(a)
  /\ UNCHANGED <<treeVars, handoffs, turn>>

\* The current marker is damaged on disk.
DamageMarker ==
  /\ Fault("marker")
  /\ session.epoch # NoEpoch /\ ~session.damaged
  /\ session' = [session EXCEPT !.damaged = TRUE]
  /\ UNCHANGED <<treeVars, units, handoffs, hooks, hostVars, truth>>

\* SessionEnd, or the orphan sweep of another session after a day without an
\* event: the session directory goes, with its epoch.
RemoveSession ==
  /\ Fault("session")
  /\ \A a \in Actors : hooks[a] = NoHook
  /\ session' = [epoch |-> NoEpoch, current |-> 0, damaged |-> FALSE, tainted |-> FALSE]
  /\ units' = <<>>
  /\ truth' = FreshTruth(tree, truth.serial, truth.excused)
  /\ UNCHANGED <<treeVars, handoffs, hooks, hostVars>>

----------------------------------------------------------------------------

Tools == [kind : ToolKinds \cap {"EDIT"}, path : Paths]
           \cup [kind : ToolKinds \ {"EDIT"}, path : {"none"}]
StopLines == {IF e = "failure" THEN [event |-> "failure"]
              ELSE [event |-> "stop", background |-> e] : e \in Endings}

HookStep(a) ==
  \/ OpenUnit(a) \/ ClaimFirstImage(a) \/ RecordFirstImage(a) \/ ReadPostImage(a)
  \/ JudgeWindow(a) \/ DiffPictures(a) \/ AppendLine(a) \/ TakePicture(a)
  \/ Advance(a) \/ Fold(a) \/ Deliver(a) \/ RemoveUnit(a)
  \/ Kill(a) \/ HookFails(a)

Next ==
  \/ \E text \in PromptTexts : Prompt(text)
  \/ Resume
  \/ \E c \in Calls, tool \in Tools : PreTool(c, tool)
  \/ \E c \in Calls, p \in Paths, content \in OwnContents : ToolWrites(c, p, content)
  \/ \E c \in Calls : ToolCommits(c)
  \/ \E c \in Calls, outcome \in {"post", "fail"} : PostTool(c, outcome)
  \/ \E line \in StopLines : Stop(line)
  \/ Interrupt
  \/ \E p \in Paths, content \in ForeignContents : ForeignWrite(p, content)
  \/ \E a \in Actors : HookStep(a)
  \/ DamageMarker \/ RemoveSession

Spec == Init /\ [][Next]_vars

(***************************************************************************)
(* Properties                                                              *)
(***************************************************************************)

\* The paths the unit's own tools left different from what they found.
NetOwn(h) == {p \in DOMAIN h.truth.own : h.truth.own[p] # h.final[p]}

\* A unit that is reviewed is reviewed whole: its patch covers exactly the
\* files the session's tools changed since the unit began, each from its state
\* before them to its final state, and a unit skipped for having no patch
\* changed nothing -- whatever hooks ran side by side, were killed or failed.
\* Left out: files another process wrote meanwhile, calls of which no hook left
\* a line in the unit, and writes in the two windows of Misleads (configuration.md "Evidence", close-unit.ts:286-292).
EvidenceExact ==
  \A h \in handoffs :
    LET mine == NetOwn(h) \ h.truth.foreign
        turned == h.resolution.status = "TURN"
    IN  h.truth.writers = {} /\ ~h.truth.misled =>
          /\ turned => /\ DOMAIN h.resolution.files \ h.truth.foreign = mine
                       /\ \A p \in mine : h.resolution.files[p] =
                            [before |-> h.truth.own[p], after |-> h.final[p]]
          /\ h.resolution.status = "SKIPPED" => mine = {}

\* A write by another process after the session's last call has ended never
\* enters a patch: a reviewed file that ends in such a state was already in it
\* at that point (acquire-unit.ts:80-83, UNATTRIBUTED_WRITER).
NoLateForeignWrite ==
  \A h \in handoffs : h.resolution.status = "TURN" =>
    \A p \in DOMAIN h.resolution.files :
      LET after == h.resolution.files[p].after
      IN  after \in ForeignContents => h.truth.settled[p] = after

\* A reviewed unit's task holds every prompt sent since the unit began, in
\* order, even when the hook of one of them failed (run-hook.ts:184-188).
TaskComplete ==
  \A h \in handoffs : h.resolution.status = "TURN" => h.resolution.prompts = h.truth.prompts

\* Every closed unit is handed over once, reviewable or not: its name is never
\* taken by another unit, through restarts of the session and a damaged marker
\* (unit-state.ts:92-96 and 121, close-unit.ts:286-292).
ClosedUnitsDelivered ==
  \A s \in 0..(truth.serial - 1) :
    \/ s \in truth.excused
    \/ \E h \in handoffs : h.truth.serial = s
    \/ \E a \in DOMAIN hooks : Closing(a) /\ hooks[a].truth.serial = s
=============================================================================
