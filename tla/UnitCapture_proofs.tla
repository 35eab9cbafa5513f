------------------------- MODULE UnitCapture_proofs -------------------------
(***************************************************************************)
(* Proofs about the capture of a Claude Code session, for every set of     *)
(* calls and paths, every fault of the model and every bound on the        *)
(* prompts and faults: a unit that was closed is handed over or its hook   *)
(* is known to have been killed, and a reviewed unit's task holds every    *)
(* prompt sent since the unit began.                                       *)
(*                                                                         *)
(* The inductive invariant has five parts.  Shaped: what the files, hooks  *)
(* and counts look like.  Bounded: no ordinal is above what the clock and  *)
(* the closes so far can name, so a clock read after a damaged marker      *)
(* names a fresh unit.  Named: no two hand-overs of an epoch get one       *)
(* ordinal.  Accounted: every close so far has its hand-over, its excuse   *)
(* or its hook on the way.  TruthTold: the ids of the prompts in a unit's  *)
(* lines are those sent since the last close, or the unit is tainted.      *)
(*                                                                         *)
(* The steps of the hook processes first come down to the few kinds of     *)
(* StepOf, by what they do to the files; the invariant is proved of those. *)
(*                                                                         *)
(* MaxStops < 100 keeps the ordinals, one more with each close, below the  *)
(* 100 by which the model's clock is ahead after a fault: they stand for   *)
(* counts of turns against a clock of milliseconds (unit-state.ts:101).    *)
(***************************************************************************)
EXTENDS UnitCapture, ListLemmas
LOCAL INSTANCE SequencesExt

\* What the counters and the session's markers hold.
Counts == [epochs : Nat, prompts : Nat, stops : Nat, faults : Nat]
Sessions == [epoch : Nat, current : Nat, damaged : BOOLEAN, tainted : BOOLEAN]

\* The stages of a call's hook, and of a hook of the main agent.
CallStages == {"open", "claim", "record", "read", "window", "diff", "append", "picture"}
MainStages == {"open", "append", "advance", "fold", "deliver", "remove"}

\* A hook past its opening knows its unit by ordinal and epoch; one that closed
\* its unit carries what was true at the close.
HookShape(a, h, epoch) ==
  \/ h = NoHook
  \/ /\ {"stage", "event"} \subseteq DOMAIN h /\ "event" \in DOMAIN h.event
     /\ a \in Calls => IsTool(h.event) /\ h.stage \in CallStages
     /\ a \notin Calls => h.event.event \in {"prompt", "stop", "failure"} /\ h.stage \in MainStages
     /\ h.stage # "open" => /\ {"ordinal", "epoch"} \subseteq DOMAIN h
                            /\ h.ordinal \in Nat /\ h.epoch = epoch /\ epoch # NoEpoch
     /\ h.stage \in {"advance", "fold", "deliver", "remove"} => IsClosing(h.event)
     /\ h.stage \in {"fold", "deliver", "remove"} =>
          "truth" \in DOMAIN h /\ {"serial", "prompts"} \subseteq DOMAIN h.truth
            /\ h.truth.serial \in Nat

\* A unit's directory: its lines, the first images and the shell pictures.
UnitShape(unit) == DOMAIN unit = {"lines", "pre", "shell"} /\ IsList(unit.lines)

\* The shape of everything: the type invariant the proofs need.
Shaped ==
  /\ session \in Sessions /\ used \in Counts
  /\ used.stops <= MaxStops /\ session.epoch <= used.epochs
  /\ {"serial", "excused", "prompts"} \subseteq DOMAIN truth /\ truth.serial \in Nat
  /\ DOMAIN units \subseteq Nat /\ \A o \in DOMAIN units : UnitShape(units[o])
  /\ DOMAIN hooks = Actors /\ \A a \in Actors : HookShape(a, hooks[a], session.epoch)

\* The hook has located its unit.
Held(h) == h.stage \notin {"none", "open"}

\* The closes counted whose ordinal is still unused, and the highest ordinal a
\* marker, a directory or a hook can have.
Pending(h) == IF h.stage \in {"open", "append", "advance"} /\ IsClosing(h.event) THEN 1 ELSE 0
Ceiling == IF session.damaged THEN WallClock - 1 ELSE WallClock + used.stops - Pending(hooks[Main])

\* No ordinal lies above the ceiling.
Bounded ==
  /\ Pending(hooks[Main]) <= used.stops
  /\ \A o \in DOMAIN units : o <= Ceiling
  /\ ~session.damaged => session.current <= Ceiling
  /\ \A a \in Actors : Held(hooks[a]) => hooks[a].ordinal <= Ceiling

\* The ordinal the next hook to open a unit gets; the stages in which a hook may
\* still hand its unit over, and those in which it has closed it.
NextOrdinal == IF session.damaged THEN WallClock ELSE session.current
Naming(h) == h.stage \in {"append", "advance", "fold", "deliver"}
Closed(h) == h.stage \in {"fold", "deliver", "remove"}
\* A hand-over is named below every ordinal to come, so none is overwritten.
Named ==
  /\ \A h \in handoffs :
       /\ h.epoch \in 1..used.epochs /\ h.ordinal \in Nat
       /\ h.epoch = session.epoch =>
            /\ h.ordinal < NextOrdinal
            /\ Naming(hooks[Main]) => h.ordinal < hooks[Main].ordinal
  /\ Closed(hooks[Main]) => hooks[Main].ordinal < NextOrdinal

\* Every close has its hand-over, its excuse, or its hook on the way.
Accounted ==
  \A s \in 0..(truth.serial - 1) :
    \/ s \in truth.excused
    \/ \E h \in handoffs : h.truth.serial = s
    \/ Closing(Main) /\ hooks[Main].truth.serial = s

\* The ids of the prompts in a unit's lines, and what else a unit's lines say.
PromptIds(lines) == [i \in DOMAIN PromptsOf(lines) |-> PromptsOf(lines)[i].id]
Lines(us, o) == IF o \in DOMAIN us THEN us[o].lines ELSE <<>>
Ids(us, o) == PromptIds(Lines(us, o))
Tainted(us, o) == \E i \in DOMAIN Lines(us, o) : Lines(us, o)[i].event = "taint"
Silent(us, o) == Tainted(us, o) \/ Ids(us, o) = <<>>

\* A prompt still to be written, and a close still to be made.
AtPrompt(h) == h.stage \in {"open", "append"} /\ h.event.event = "prompt"
AtClose(h) == h.stage \in {"append", "advance"} /\ IsClosing(h.event)

\* What the prompts sent since the last close have to do with the units' lines,
\* for the session's markers s, the main agent's hook h and the units us.
TaskOfCurrent(s, h, prompts, us) ==
  ~s.damaged /\ ~s.tainted /\ ~Tainted(us, s.current) =>
    /\ AtPrompt(h) => prompts = Append(Ids(us, s.current), h.event.id)
    /\ ~AtPrompt(h) => prompts = Ids(us, s.current)
    /\ AtPrompt(h) /\ Held(h) => h.ordinal = s.current
\* What a closed unit's fold and resolution hold of its prompts.
TaskOfClosed(h, prompts, us) ==
  /\ AtClose(h) /\ ~Tainted(us, h.ordinal) => prompts = Ids(us, h.ordinal)
  /\ h.stage = "fold" /\ ~Tainted(us, h.ordinal) => h.truth.prompts = Ids(us, h.ordinal)
  /\ h.stage = "deliver" /\ h.resolution.status = "TURN" => h.resolution.prompts = h.truth.prompts
\* Units past the current one have no prompts yet that a reviewer would see.
SilentAhead(s, h, us) ==
  /\ \A o \in Nat : ~s.damaged /\ s.current < o => Silent(us, o)
  /\ \A o \in Nat : AtClose(h) /\ h.ordinal < o => Silent(us, o)
  /\ AtPrompt(h) /\ Held(h) => s.damaged \/ h.ordinal <= s.current
\* A prompt in the lines was sent, and the one on its way is the latest.
IdsSent(h, us, sent) ==
  /\ AtPrompt(h) => sent > 0 /\ h.event.id = sent
  /\ \A o \in Nat : Members(Ids(us, o)) \subseteq 1..(IF AtPrompt(h) THEN sent - 1 ELSE sent)
\* All of it; a step's proof puts in the values before it and those after it.
Told(s, h, prompts, us, sent) ==
  /\ TaskOfCurrent(s, h, prompts, us) /\ TaskOfClosed(h, prompts, us)
  /\ SilentAhead(s, h, us) /\ IdsSent(h, us, sent)

TruthTold == Told(session, hooks[Main], truth.prompts, units, used.prompts)

----------------------------------------------------------------------------
(* The steps, by what they do to the files, the hooks and the counts. *)

\* A hook's next state, and counts and ghosts that stay as they are but for the
\* faults and what no proof here looks at.
HookBecomes(a, h) == hooks' = [hooks EXCEPT ![a] = h]
SameCount ==
  /\ used' \in Counts /\ used'.faults >= used.faults
  /\ used'.epochs = used.epochs /\ used'.prompts = used.prompts /\ used'.stops = used.stops
SameTruth ==
  /\ {"serial", "excused", "prompts"} \subseteq DOMAIN truth'
  /\ truth'.serial = truth.serial /\ truth'.excused = truth.excused /\ truth'.prompts = truth.prompts

\* A step outside the session's files and hooks.
HostStep == UNCHANGED <<fileVars, hooks>> /\ SameCount /\ SameTruth

\* A hook of a call moves on, over its own unit's directory if it has a unit.
CallMoves(c, h, unit) ==
  /\ HookBecomes(c, h) /\ HookShape(c, h, session.epoch)
  /\ Held(h) => Held(hooks[c]) /\ h.ordinal = hooks[c].ordinal
  /\ \/ UNCHANGED units
     \/ /\ Held(hooks[c]) /\ Put(hooks[c].ordinal, unit) /\ UnitShape(unit)
        /\ \/ unit.lines = UnitOf(c).lines
           \/ IsTool(hooks[c].event) /\ unit.lines = Append(UnitOf(c).lines, hooks[c].event)
  /\ UNCHANGED <<session, handoffs>> /\ SameCount /\ SameTruth

\* A hook of the main agent writes its line, and ends or goes on to the close.
MainAppends ==
  /\ hooks[Main].stage = "append"
  /\ Put(hooks[Main].ordinal, Appended(UnitOf(Main), hooks[Main].event))
  /\ HookBecomes(Main, IF IsClosing(hooks[Main].event) THEN [hooks[Main] EXCEPT !.stage = "advance"]
                       ELSE NoHook)
  /\ UNCHANGED <<session, handoffs, used, truth>>

\* The two ways of a failed hook: it taints the open unit, or leaves the marker.
FailsOpen(a) ==
  /\ hooks[a].stage \in {"open", "append", "advance"}
  /\ Located([used EXCEPT !.faults = @ + 1])
  /\ Put(CurrentOrdinal, Appended(LocatedUnit, Taint))
  /\ HookBecomes(a, NoHook) /\ UNCHANGED handoffs /\ SameTruth
FailsLeaving(a) ==
  /\ hooks[a].stage \in {"open", "append", "advance"}
  /\ session' = [session EXCEPT !.tainted = TRUE]
  /\ HookBecomes(a, NoHook) /\ UNCHANGED <<units, handoffs>> /\ SameCount /\ SameTruth

\* A hook of the main agent is killed, and its close excused.
MainDies ==
  /\ hooks[Main] # NoHook
  /\ HookBecomes(Main, NoHook) /\ UNCHANGED fileVars /\ SameCount
  /\ truth' = IF Closing(Main) THEN [truth EXCEPT !.excused = @ \cup {hooks[Main].truth.serial}]
              ELSE IF hooks[Main].event.event # "prompt" THEN truth
              ELSE [truth EXCEPT !.prompts = Kept(@, (1..used.prompts) \ {hooks[Main].event.id})]

\* Every step of the system is one of these.
StepOf ==
  \/ HostStep \/ (\E c \in Calls : \E h, unit : CallMoves(c, h, unit))
  \/ (\E text \in PromptTexts : Prompt(text)) \/ (\E line \in StopLines : Stop(line))
  \/ (\E a \in Actors : OpenUnit(a) \/ FailsOpen(a) \/ FailsLeaving(a))
  \/ MainAppends \/ Advance(Main) \/ Fold(Main) \/ Deliver(Main) \/ RemoveUnit(Main) \/ MainDies
  \/ DamageMarker \/ RemoveSession

\* What a directory holds after it was written.
LEMMA PutUnit ==
  ASSUME NEW o, NEW unit, Put(o, unit)
  PROVE  /\ DOMAIN units' = DOMAIN units \cup {o}
         /\ \A p : UnitAt(p)' = IF p = o THEN unit ELSE UnitAt(p)
BY DEF Put, With, UnitAt

\* Every directory has the shape of a unit, the one not made yet too.
LEMMA UnitsShaped ==
  ASSUME Shaped
  PROVE  \A o : UnitShape(UnitAt(o))
<1>1. UnitShape(NoUnit)
  BY EmptyList DEF UnitShape, NoUnit
<1> QED BY <1>1 DEF Shaped, UnitAt

\* A line more at the end of a unit's lines.
LEMMA LineAppended ==
  ASSUME NEW unit, UnitShape(unit), NEW line
  PROVE  /\ UnitShape(Appended(unit, line)) /\ Appended(unit, line).lines = Append(unit.lines, line)
<1>1. IsList(Append(unit.lines, line))
  BY AppendList DEF UnitShape
<1> QED BY <1>1 DEF Appended, UnitShape

\* The fields of a record with others put into it.
LEMMA OverFields ==
  ASSUME NEW fields, NEW record
  PROVE  /\ DOMAIN Over(fields, record) = DOMAIN fields \cup DOMAIN record
         /\ \A x \in DOMAIN fields : Over(fields, record)[x] = fields[x]
         /\ \A x \in DOMAIN record \ DOMAIN fields : Over(fields, record)[x] = record[x]
BY DEF Over

\* A fault counts, and a count stays a count.
LEMMA FaultCounts ==
  ASSUME Shaped, NEW kind, Fault(kind)
  PROVE  SameCount
BY DEF Shaped, Fault, SameCount, Counts
\* What leaves the counts alone counts nothing.
LEMMA NothingCounts ==
  ASSUME Shaped, UNCHANGED used
  PROVE  SameCount
BY DEF Shaped, SameCount, Counts

\* What leaves the ghosts alone keeps what the proofs look at.
LEMMA SameTruthKept ==
  ASSUME Shaped, UNCHANGED truth
  PROVE  SameTruth
BY DEF Shaped, SameTruth

\* The main agent is an actor of its own.
LEMMA MainIsNoCall == Main \notin Calls /\ Calls \subseteq Actors /\ Main \in Actors
BY CaptureAssumption DEF Actors

\* The hook of a call ends.
LEMMA CallEnds ==
  ASSUME Shaped, NEW c \in Calls, Ends(c)
  PROVE  HookBecomes(c, NoHook) /\ SameTruth
<1>1. hooks' = [hooks EXCEPT ![c] = NoHook]
  BY DEF Ends
<1>2. truth' = [truth EXCEPT !.settled = tree] \/ truth' = truth
  BY MainIsNoCall DEF Ends
<1> QED BY <1>1, <1>2 DEF HookBecomes, SameTruth, Shaped

\* No hook has the shape of a hook, and holds no unit.
LEMMA NoHookShape ==
  ASSUME NEW a, NEW epoch
  PROVE  HookShape(a, NoHook, epoch) /\ ~Held(NoHook)
BY DEF HookShape, NoHook, Held

\* A hook of a call goes on to a later stage of its unit.
LEMMA CallGoesOn ==
  ASSUME Shaped, NEW c \in Calls, hooks[c] # NoHook, hooks[c].stage # "open",
         NEW stage \in CallStages \ {"open"}, Goes(c, stage)
  PROVE  LET h == [hooks[c] EXCEPT !.stage = stage]
         IN  /\ HookBecomes(c, h) /\ HookShape(c, h, session.epoch)
             /\ Held(hooks[c]) /\ h.ordinal = hooks[c].ordinal
<1>1. HookShape(c, hooks[c], session.epoch)
  BY MainIsNoCall DEF Shaped
<1> QED BY <1>1 DEF HookShape, Goes, HookBecomes, Held, CallStages, NoHook, IsTool, IsClosing

\* A hook of a call puts what it read into its event.
LEMMA CallCaptures ==
  ASSUME Shaped, NEW c \in Calls, hooks[c] # NoHook, hooks[c].stage # "open",
         NEW capture, Captures(c, capture)
  PROVE  \E h : /\ HookBecomes(c, h) /\ HookShape(c, h, session.epoch)
                /\ Held(hooks[c]) /\ h.ordinal = hooks[c].ordinal
<1> DEFINE h == [hooks[c] EXCEPT !.stage = "append", !.event.capture = capture]
<1>1. HookShape(c, hooks[c], session.epoch)
  BY MainIsNoCall DEF Shaped
<1>2. hooks' = [hooks EXCEPT ![c] = h]
  BY MainIsNoCall DEF Captures, Shaped
<1>3. /\ DOMAIN h = DOMAIN hooks[c] /\ h.stage = "append" /\ h.event.event = hooks[c].event.event
      /\ DOMAIN h.event = DOMAIN hooks[c].event
      /\ h.ordinal = hooks[c].ordinal /\ h.epoch = hooks[c].epoch
  BY <1>1 DEF HookShape, NoHook
<1>4. HookShape(c, h, session.epoch) /\ Held(hooks[c])
  BY <1>1, <1>3 DEF HookShape, Held, CallStages, IsTool, NoHook
<1> HIDE DEF h
<1> QED BY <1>2, <1>3, <1>4 DEF HookBecomes

\* Every step of a call's hook between its opening and its end.
LEMMA CallClaims ==
  ASSUME Shaped, NEW c \in Calls, ClaimFirstImage(c)
  PROVE  \E h, unit : CallMoves(c, h, unit)
<1> DEFINE p == hooks[c].event.tool.path
           unit == [UnitOf(c) EXCEPT !.pre = With(@, p, "claimed")]
           Staged(stage) == [hooks[c] EXCEPT !.stage = stage]
<1>1. /\ hooks[c].stage = "claim" /\ hooks[c] # NoHook
      /\ UNCHANGED <<session, handoffs, used, truth>>
  BY DEF ClaimFirstImage, NoHook
<1>2. UnitShape(unit) /\ unit.lines = UnitOf(c).lines
  BY UnitsShaped DEF UnitOf, UnitShape
<1>3. SameCount /\ SameTruth
  BY <1>1, NothingCounts, SameTruthKept
<1>4. \/ Goes(c, "append") /\ UNCHANGED units
      \/ Goes(c, "record") /\ Put(hooks[c].ordinal, unit)
  BY DEF ClaimFirstImage
<1>5. CASE Goes(c, "append") /\ UNCHANGED units
  <2>1. CallMoves(c, Staged("append"), unit)
    BY <1>1, <1>3, <1>5, CallGoesOn DEF CallMoves, CallStages
  <2> QED BY <2>1
<1>6. CASE Goes(c, "record") /\ Put(hooks[c].ordinal, unit)
  <2> HIDE DEF unit
  <2>1. CallMoves(c, Staged("record"), unit)
    BY <1>1, <1>2, <1>3, <1>6, CallGoesOn DEF CallMoves, CallStages
  <2> QED BY <2>1
<1> QED BY <1>4, <1>5, <1>6

\* Writing the first image, which may fail.
LEMMA CallRecords ==
  ASSUME Shaped, NEW c \in Calls, RecordFirstImage(c)
  PROVE  \E h, unit : CallMoves(c, h, unit)
<1>1. /\ hooks[c].stage = "record" /\ hooks[c] # NoHook /\ Goes(c, "append")
      /\ UNCHANGED <<session, handoffs, truth>>
  BY DEF RecordFirstImage, NoHook
<1>2. PICK image : Put(hooks[c].ordinal, [UnitOf(c) EXCEPT
                                            !.pre = With(@, hooks[c].event.tool.path, image)])
  BY DEF RecordFirstImage
<1> DEFINE unit == [UnitOf(c) EXCEPT !.pre = With(@, hooks[c].event.tool.path, image)]
<1>3. UnitShape(unit) /\ unit.lines = UnitOf(c).lines
  BY UnitsShaped DEF UnitOf, UnitShape
<1>4. SameCount /\ SameTruth
  BY <1>1, NothingCounts, FaultCounts, SameTruthKept DEF RecordFirstImage
<1>5. CallMoves(c, [hooks[c] EXCEPT !.stage = "append"], unit)
  <2> HIDE DEF unit
  <2> QED BY <1>1, <1>2, <1>3, <1>4, CallGoesOn DEF CallMoves, CallStages, unit
<1> QED BY <1>5

\* Reading the post image, or comparing two pictures.
LEMMA CallReads ==
  ASSUME Shaped, NEW c \in Calls, ReadPostImage(c) \/ DiffPictures(c)
  PROVE  \E h, unit : CallMoves(c, h, unit)
<1>1. /\ hooks[c].stage # "open" /\ hooks[c] # NoHook
      /\ UNCHANGED <<session, units, handoffs, truth>>
  BY DEF ReadPostImage, DiffPictures, NoHook, fileVars
<1>2. \E capture : Captures(c, capture)
  BY DEF ReadPostImage, DiffPictures
<1>3. SameCount /\ SameTruth
  BY <1>1, NothingCounts, FaultCounts, SameTruthKept DEF ReadPostImage, DiffPictures
<1>4. PICK h : /\ HookBecomes(c, h) /\ HookShape(c, h, session.epoch)
               /\ Held(hooks[c]) /\ h.ordinal = hooks[c].ordinal
  BY <1>1, <1>2, CallCaptures
<1> QED BY <1>1, <1>3, <1>4 DEF CallMoves

\* Judging a shell's window by the picture taken before it.
LEMMA CallJudges ==
  ASSUME Shaped, NEW c \in Calls, JudgeWindow(c)
  PROVE  \E h, unit : CallMoves(c, h, unit)
<1> DEFINE called == hooks[c].event.call
           unit == [UnitOf(c) EXCEPT !.shell = [d \in DOMAIN @ \ {called} |-> @[d]]]
           picture == IF called \in DOMAIN UnitOf(c).shell THEN UnitOf(c).shell[called] ELSE NoDiff("MISSING")
           on == Over([before |-> picture, stage |-> "diff"], hooks[c])
<1>1. /\ hooks[c].stage = "window" /\ hooks[c] # NoHook
      /\ UNCHANGED <<session, handoffs, used, truth>> /\ Put(hooks[c].ordinal, unit)
  BY DEF JudgeWindow, NoHook
<1>2. UnitShape(unit) /\ unit.lines = UnitOf(c).lines
  BY UnitsShaped DEF UnitOf, UnitShape
<1>3. SameCount /\ SameTruth
  BY <1>1, NothingCounts, SameTruthKept
<1>4. (\E capture : Captures(c, capture)) \/ HookBecomes(c, on)
  BY DEF JudgeWindow, HookBecomes
<1>5. CASE \E capture : Captures(c, capture)
  <2> HIDE DEF unit
  <2>1. PICK h : /\ HookBecomes(c, h) /\ HookShape(c, h, session.epoch)
                 /\ Held(hooks[c]) /\ h.ordinal = hooks[c].ordinal
    BY <1>1, <1>5, CallCaptures
  <2> QED BY <1>1, <1>2, <1>3, <2>1 DEF CallMoves
<1>6. CASE HookBecomes(c, on)
  <2>1. HookShape(c, hooks[c], session.epoch)
    BY MainIsNoCall DEF Shaped
  <2>2. /\ {"stage", "event", "ordinal", "epoch"} \subseteq DOMAIN on /\ on.stage = "diff"
        /\ on.event = hooks[c].event /\ on.ordinal = hooks[c].ordinal /\ on.epoch = hooks[c].epoch
    BY <1>1, <2>1 DEF Over, HookShape, NoHook
  <2> HIDE DEF on, unit
  <2>3. HookShape(c, on, session.epoch) /\ Held(hooks[c])
    BY <1>1, <2>1, <2>2 DEF HookShape, Held, CallStages, NoHook
  <2> QED BY <1>1, <1>2, <1>3, <1>6, <2>2, <2>3 DEF CallMoves
<1> QED BY <1>4, <1>5, <1>6

\* Writing the call's line.
LEMMA CallAppends ==
  ASSUME Shaped, NEW c \in Calls, AppendLine(c)
  PROVE  \E h, unit : CallMoves(c, h, unit)
<1> DEFINE unit == Appended(UnitOf(c), hooks[c].event)
<1>1. /\ hooks[c].stage = "append" /\ hooks[c] # NoHook /\ Put(hooks[c].ordinal, unit)
      /\ UNCHANGED <<session, handoffs, used>>
  BY DEF AppendLine, NoHook
<1>2. HookShape(c, hooks[c], session.epoch)
  BY MainIsNoCall DEF Shaped
<1>3. IsTool(hooks[c].event) /\ ~IsClosing(hooks[c].event) /\ Held(hooks[c])
  BY <1>1, <1>2 DEF HookShape, IsTool, IsClosing, Held
<1>4. UnitShape(unit) /\ unit.lines = Append(UnitOf(c).lines, hooks[c].event)
  BY UnitsShaped, LineAppended DEF UnitOf
<1>5. SameCount
  BY <1>1, NothingCounts
<1>6. (Goes(c, "picture") /\ UNCHANGED truth) \/ Ends(c)
  BY <1>3 DEF AppendLine
<1>7. CASE Goes(c, "picture") /\ UNCHANGED truth
  <2> HIDE DEF unit
  <2>1. CallMoves(c, [hooks[c] EXCEPT !.stage = "picture"], unit)
    BY <1>1, <1>3, <1>4, <1>5, <1>7, CallGoesOn, SameTruthKept DEF CallMoves, CallStages
  <2> QED BY <2>1
<1>8. CASE Ends(c)
  <2> HIDE DEF unit
  <2>1. CallMoves(c, NoHook, unit)
    BY <1>1, <1>3, <1>4, <1>5, <1>8, CallEnds, NoHookShape DEF CallMoves
  <2> QED BY <2>1
<1> QED BY <1>6, <1>7, <1>8

\* Taking the picture before a shell.
LEMMA CallTakesPicture ==
  ASSUME Shaped, NEW c \in Calls, TakePicture(c)
  PROVE  \E h, unit : CallMoves(c, h, unit)
<1>1. /\ hooks[c].stage = "picture" /\ Ends(c) /\ UNCHANGED <<session, handoffs>>
  BY DEF TakePicture
<1>2. SameCount
  BY NothingCounts, FaultCounts DEF TakePicture
<1>3. PICK picture : \/ UNCHANGED units
                     \/ Put(hooks[c].ordinal, [UnitOf(c) EXCEPT
                                                !.shell = With(@, hooks[c].event.call, picture)])
  BY DEF TakePicture
<1> DEFINE unit == [UnitOf(c) EXCEPT !.shell = With(@, hooks[c].event.call, picture)]
<1>4. UnitShape(unit) /\ unit.lines = UnitOf(c).lines
  BY UnitsShaped DEF UnitOf, UnitShape
<1>5. UNCHANGED units \/ Put(hooks[c].ordinal, unit)
  BY <1>3
<1>6. CallMoves(c, NoHook, unit)
  <2> HIDE DEF unit
  <2>1. Held(hooks[c])
    BY <1>1 DEF Held
  <2> QED BY <1>1, <1>2, <1>4, <1>5, <2>1, CallEnds, NoHookShape DEF CallMoves
<1> QED BY <1>6

\* The host's steps, and what it starts.
LEMMA CallStarts ==
  ASSUME Shaped, NEW c \in Calls,
         (\E tool \in Tools : PreTool(c, tool)) \/ (\E outcome \in {"post", "fail"} : PostTool(c, outcome))
  PROVE  \E h, unit : CallMoves(c, h, unit)
<1>1. PICK event, tool : /\ event \in {"pre", "post", "fail"} /\ Start(c, EventOf(event, c, tool))
                         /\ UNCHANGED <<fileVars, used, truth>>
  BY DEF PreTool, PostTool
<1> DEFINE h == [stage |-> "open", event |-> EventOf(event, c, tool)]
<1>2. HookShape(c, h, session.epoch) /\ ~Held(h)
  BY <1>1 DEF HookShape, Held, EventOf, IsTool, CallStages
<1>3. HookBecomes(c, h) /\ UNCHANGED <<session, units, handoffs>>
  BY <1>1 DEF Start, HookBecomes, fileVars
<1>4. SameCount /\ SameTruth
  BY <1>1, NothingCounts, SameTruthKept
<1> HIDE DEF h
<1> QED BY <1>2, <1>3, <1>4 DEF CallMoves

\* The host, the tools and the user work on the tree, not on the files.
LEMMA HostSteps ==
  ASSUME Shaped,
         \/ UNCHANGED vars \/ Resume \/ Interrupt
         \/ (\E c \in Calls, p \in Paths, content \in OwnContents : ToolWrites(c, p, content))
         \/ (\E c \in Calls : ToolCommits(c))
         \/ (\E p \in Paths, content \in ForeignContents : ForeignWrite(p, content))
  PROVE  HostStep
<1>1. CASE UNCHANGED vars \/ Resume \/ (\E c \in Calls : ToolCommits(c))
  <2>1. UNCHANGED <<fileVars, hooks, used, truth>>
    BY <1>1 DEF vars, Resume, ToolCommits, fileVars
  <2> QED BY <2>1, NothingCounts, SameTruthKept DEF HostStep
<1>2. CASE Interrupt \/ (\E c \in Calls, p \in Paths, content \in OwnContents : ToolWrites(c, p, content))
  <2>1. UNCHANGED <<fileVars, hooks, used>>
    BY <1>2 DEF Interrupt, ToolWrites
  <2>2. SameTruth
    BY <1>2 DEF Shaped, Interrupt, ToolWrites, SameTruth, Own
  <2> QED BY <2>1, <2>2, NothingCounts DEF HostStep
<1>3. CASE \E p \in Paths, content \in ForeignContents : ForeignWrite(p, content)
  <2>1. UNCHANGED <<fileVars, hooks>> /\ SameCount
    BY <1>3, FaultCounts DEF ForeignWrite
  <2>2. SameTruth
    BY <1>3 DEF Shaped, ForeignWrite, SameTruth
  <2> QED BY <2>1, <2>2 DEF HostStep
<1> QED BY <1>1, <1>2, <1>3

\* A hook that is killed, or fails.
LEMMA CallKilled ==
  ASSUME Shaped, NEW c \in Calls, Kill(c)
  PROVE  \E h, unit : CallMoves(c, h, unit)
<1>1. HookShape(c, hooks[c], session.epoch) /\ hooks[c] # NoHook
  BY MainIsNoCall DEF Shaped, Kill
<1>2. ~Closing(c) /\ hooks[c].event.event # "prompt"
  BY <1>1 DEF HookShape, Closing, IsTool, CallStages
<1>3. HookBecomes(c, NoHook) /\ UNCHANGED <<session, units, handoffs, truth>>
  BY <1>2 DEF Kill, HookBecomes, fileVars
<1>4. SameCount /\ SameTruth
  BY <1>3, FaultCounts, SameTruthKept DEF Kill
<1> QED BY <1>3, <1>4, NoHookShape DEF CallMoves

\* A hook of the main agent is killed.
LEMMA MainKilled ==
  ASSUME Shaped, Kill(Main)
  PROVE  MainDies
<1>1. SameCount
  BY FaultCounts DEF Kill
<1> QED BY <1>1 DEF Kill, MainDies, HookBecomes

\* A hook fails: it taints the unit, or leaves the marker for the next one.
LEMMA HookFailing ==
  ASSUME Shaped, NEW a \in Actors, HookFails(a)
  PROVE  FailsOpen(a) \/ FailsLeaving(a)
<1>1. HookBecomes(a, NoHook) /\ SameTruth
  <2>1. CASE a = Main
    BY <2>1, SameTruthKept DEF HookFails, Ends, HookBecomes
  <2>2. CASE a # Main
    <3>1. a \in Calls
      BY <2>2 DEF Actors
    <3> QED BY <3>1, CallEnds DEF HookFails
  <2> QED BY <2>1, <2>2
<1>2. /\ hooks[a].stage \in {"open", "append", "advance"} /\ UNCHANGED handoffs
      /\ \/ /\ Located([used EXCEPT !.faults = @ + 1])
            /\ Put(CurrentOrdinal, Appended(LocatedUnit, Taint))
         \/ /\ session' = [session EXCEPT !.tainted = TRUE]
            /\ used' = [used EXCEPT !.faults = @ + 1]
            /\ UNCHANGED units
  BY DEF HookFails
<1>3. CASE /\ Located([used EXCEPT !.faults = @ + 1])
           /\ Put(CurrentOrdinal, Appended(LocatedUnit, Taint))
  BY <1>1, <1>2, <1>3 DEF FailsOpen
<1>4. CASE /\ session' = [session EXCEPT !.tainted = TRUE]
           /\ used' = [used EXCEPT !.faults = @ + 1]
           /\ UNCHANGED units
  <2>1. SameCount
    BY <1>4 DEF Shaped, SameCount, Counts
  <2> QED BY <1>1, <1>2, <1>4, <2>1 DEF FailsLeaving
<1> QED BY <1>2, <1>3, <1>4

\* A hook of the main agent writes its line.
LEMMA MainAppending ==
  ASSUME Shaped, AppendLine(Main)
  PROVE  MainAppends
<1>1. HookShape(Main, hooks[Main], session.epoch) /\ hooks[Main].stage = "append" /\ hooks[Main] # NoHook
  BY MainIsNoCall DEF Shaped, AppendLine, NoHook
<1>2. hooks[Main].event.event # "pre"
  BY <1>1, MainIsNoCall DEF HookShape
<1>3. IF IsClosing(hooks[Main].event) THEN Goes(Main, "advance") /\ UNCHANGED <<calls, truth>> ELSE Ends(Main)
  BY <1>2 DEF AppendLine
<1>4. /\ UNCHANGED truth
      /\ HookBecomes(Main, IF IsClosing(hooks[Main].event) THEN [hooks[Main] EXCEPT !.stage = "advance"]
                           ELSE NoHook)
  BY <1>3 DEF Goes, Ends, HookBecomes
<1> QED BY <1>1, <1>4 DEF AppendLine, MainAppends

\* Every step is one of these.
LEMMA Steps ==
  ASSUME Shaped, [Next]_vars
  PROVE  StepOf
<1>1. CASE UNCHANGED vars
  BY <1>1, HostSteps DEF StepOf
<1>2. ASSUME NEW a \in Actors, HookStep(a) PROVE StepOf
  <2>1. CASE OpenUnit(a) \/ HookFails(a)
    BY <2>1, HookFailing DEF StepOf
  <2>2. CASE a \in Calls /\ ~(OpenUnit(a) \/ HookFails(a))
    <3>1. HookShape(a, hooks[a], session.epoch)
      BY DEF Shaped
    <3>2. ~Advance(a) /\ ~Fold(a) /\ ~Deliver(a) /\ ~RemoveUnit(a)
      BY <3>1, <2>2 DEF HookShape, NoHook, CallStages, Advance, Fold, Deliver, RemoveUnit
    <3>3. \E h, unit : CallMoves(a, h, unit)
      BY <1>2, <2>2, <3>2, CallClaims, CallRecords, CallReads, CallJudges, CallAppends,
         CallTakesPicture, CallKilled DEF HookStep
    <3> QED BY <2>2, <3>3 DEF StepOf
  <2>3. CASE a = Main /\ ~(OpenUnit(a) \/ HookFails(a))
    <3>1. HookShape(Main, hooks[Main], session.epoch)
      BY MainIsNoCall DEF Shaped
    <3>2. /\ ~ClaimFirstImage(Main) /\ ~RecordFirstImage(Main) /\ ~ReadPostImage(Main)
          /\ ~JudgeWindow(Main) /\ ~DiffPictures(Main) /\ ~TakePicture(Main)
      BY <3>1, MainIsNoCall DEF HookShape, NoHook, MainStages, ClaimFirstImage, RecordFirstImage,
         ReadPostImage, JudgeWindow, DiffPictures, TakePicture
    <3>3. \/ AppendLine(Main) \/ Advance(Main) \/ Fold(Main) \/ Deliver(Main) \/ RemoveUnit(Main)
          \/ Kill(Main)
      BY <1>2, <2>3, <3>2 DEF HookStep
    <3> QED BY <3>3, MainAppending, MainKilled DEF StepOf
  <2> QED BY <2>1, <2>2, <2>3 DEF Actors
<1>3. CASE \/ (\E c \in Calls, tool \in Tools : PreTool(c, tool))
           \/ (\E c \in Calls, outcome \in {"post", "fail"} : PostTool(c, outcome))
  BY <1>3, CallStarts DEF StepOf
<1>4. CASE \/ Resume \/ Interrupt
           \/ (\E c \in Calls, p \in Paths, content \in OwnContents : ToolWrites(c, p, content))
           \/ (\E c \in Calls : ToolCommits(c))
           \/ (\E p \in Paths, content \in ForeignContents : ForeignWrite(p, content))
  <2>1. HostStep
    BY <1>4, HostSteps
  <2> QED BY <2>1 DEF StepOf
<1>5. CASE \/ (\E text \in PromptTexts : Prompt(text)) \/ (\E line \in StopLines : Stop(line))
           \/ DamageMarker \/ RemoveSession
  BY <1>5 DEF StepOf
<1> QED BY <1>1, <1>2, <1>3, <1>4, <1>5 DEF Next

----------------------------------------------------------------------------
(* The shape of the state. *)

\* The hooks keep their shape when one of them changes and the session's epoch
\* does not, or is made while no hook has a unit.
LEMMA HooksShaped ==
  ASSUME Shaped, NEW a \in Actors, NEW h, HookBecomes(a, h), HookShape(a, h, session'.epoch),
         session'.epoch = session.epoch \/ session.epoch = NoEpoch
  PROVE  DOMAIN hooks' = Actors /\ \A b \in Actors : HookShape(b, hooks'[b], session'.epoch)
<1>1. DOMAIN hooks' = Actors /\ hooks'[a] = h /\ \A b \in Actors \ {a} : hooks'[b] = hooks[b]
  BY DEF Shaped, HookBecomes
<1>2. \A b \in Actors : HookShape(b, hooks[b], session'.epoch)
  BY DEF Shaped, HookShape
<1> QED BY <1>1, <1>2

\* Writing a directory keeps the shape of the units.
LEMMA PutShaped ==
  ASSUME Shaped, NEW o \in Nat, NEW unit, Put(o, unit), UnitShape(unit)
  PROVE  DOMAIN units' \subseteq Nat /\ \A p \in DOMAIN units' : UnitShape(units'[p])
BY DEF Shaped, Put, With

\* The clock reads a number.
LEMMA OrdinalIsNat ==
  ASSUME Shaped
  PROVE  WallClock \in Nat
BY DEF Shaped, WallClock, Counts

\* At first there are no files, no hooks and no counts.
LEMMA ShapedInit == Init => Shaped
<1> SUFFICES ASSUME Init PROVE Shaped
  OBVIOUS
<1>1. \A a \in Actors : HookShape(a, hooks[a], session.epoch)
  BY NoHookShape DEF Init
<1>2. 0 <= MaxStops
  BY CaptureAssumption
<1> QED BY <1>1, <1>2 DEF Init, Shaped, Sessions, Counts, FreshTruth, NoEpoch

\* The ordinal a hook locates: no directory is past the clock while the marker
\* is damaged.
LEMMA LocatedOrdinal ==
  ASSUME Shaped, Bounded
  PROVE  CurrentOrdinal = NextOrdinal /\ NextOrdinal \in Nat
<1>1. CASE session.damaged
  <2> DEFINE ends == {WallClock} \cup {o + 1 : o \in DOMAIN units}
  <2>1. WallClock \in Nat /\ \A m \in ends : m <= WallClock
    BY <1>1, OrdinalIsNat DEF Shaped, Bounded, Ceiling
  <2>2. ends \subseteq Nat
    BY <2>1 DEF Shaped
  <2>3. \A n \in ends : (\A m \in ends : m <= n) => n = WallClock
    BY <2>1, <2>2
  <2>4. CurrentOrdinal = CHOOSE n \in ends : \A m \in ends : m <= n
    BY <1>1 DEF CurrentOrdinal
  <2>5. WallClock \in ends
    OBVIOUS
  <2> HIDE DEF ends
  <2>6. CurrentOrdinal = WallClock
    BY <2>1, <2>3, <2>4, <2>5
  <2> QED BY <1>1, <2>1, <2>6 DEF NextOrdinal
<1>2. CASE ~session.damaged
  BY <1>2 DEF Shaped, Sessions, CurrentOrdinal, NextOrdinal
<1> QED BY <1>1, <1>2

\* What locating the open unit does to the marker.
LEMMA Locating ==
  ASSUME Shaped, Bounded, NEW count \in Counts, Located(count),
         count.epochs = used.epochs, count.stops = used.stops, count.prompts = used.prompts
  PROVE  /\ session' \in Sessions /\ used' \in Counts /\ session'.epoch <= used'.epochs
         /\ used'.stops = used.stops /\ used'.prompts = used.prompts /\ used'.faults = count.faults
         /\ ~session'.damaged /\ ~session'.tainted /\ session'.current = CurrentOrdinal
         /\ session'.epoch # NoEpoch /\ session'.epoch = LocatedEpoch
         /\ session'.epoch = session.epoch \/ session.epoch = NoEpoch
         /\ session.epoch = session'.epoch => used'.epochs = used.epochs
         /\ session.epoch = NoEpoch => session'.epoch = used.epochs + 1
         /\ used'.epochs >= used.epochs /\ session'.epoch \in 1..used'.epochs
<1>1. CurrentOrdinal \in Nat
  BY LocatedOrdinal
<1>2. LocatedEpoch \in Nat \ {NoEpoch} /\ NoEpoch = 0
  BY DEF LocatedEpoch, Shaped, Sessions, Counts, NoEpoch
<1>3. session' = [epoch |-> LocatedEpoch, current |-> CurrentOrdinal, damaged |-> FALSE, tainted |-> FALSE]
  BY DEF Located
<1>4. used' = [count EXCEPT !.epochs = IF session.epoch = NoEpoch THEN @ + 1 ELSE @]
  BY DEF Located
<1>5. /\ used' \in Counts
      /\ used'.epochs = IF session.epoch = NoEpoch THEN used.epochs + 1 ELSE used.epochs
      /\ used'.stops = used.stops /\ used'.prompts = used.prompts /\ used'.faults = count.faults
  BY <1>4 DEF Counts
<1>6. session' \in Sessions /\ session'.epoch = LocatedEpoch /\ session'.current = CurrentOrdinal
      /\ ~session'.damaged /\ ~session'.tainted
  BY <1>1, <1>2, <1>3 DEF Sessions
<1>7. session.epoch \in Nat /\ used.epochs \in Nat /\ session.epoch <= used.epochs
  BY DEF Shaped, Sessions, Counts
<1> QED BY <1>2, <1>5, <1>6, <1>7 DEF LocatedEpoch

\* The unit a hook locates, tainted or not, has the shape of a unit.
LEMMA LocatedUnitShaped ==
  ASSUME Shaped
  PROVE  UnitShape(LocatedUnit) /\ UnitShape(Appended(LocatedUnit, Taint))
<1>1. UnitShape(LocatedUnit)
  BY UnitsShaped, LineAppended DEF LocatedUnit
<1> QED BY <1>1, LineAppended

\* The first stage of a hook that has its unit.
LEMMA FirstStages ==
  ASSUME NEW a \in Actors, NEW h, NEW epoch, HookShape(a, h, epoch), h.stage = "open"
  PROVE  /\ a \in Calls => FirstStage(h.event) \in CallStages \ {"open"}
         /\ a \notin Calls => FirstStage(h.event) = "append"
<1>1. {"stage", "event"} \subseteq DOMAIN h /\ (a \in Calls => IsTool(h.event))
      /\ (a \notin Calls => h.event.event \in {"prompt", "stop", "failure"})
  BY DEF HookShape, NoHook
<1> QED BY <1>1 DEF FirstStage, CallStages, IsTool

\* Every step keeps the shape of the state.
LEMMA ShapedStep ==
  ASSUME Shaped, Bounded, StepOf
  PROVE  Shaped'
<1> DEFINE Files == DOMAIN units' \subseteq Nat /\ \A o \in DOMAIN units' : UnitShape(units'[o])
           Hooks == DOMAIN hooks' = Actors /\ \A a \in Actors : HookShape(a, hooks'[a], session'.epoch)
           Numbers == /\ session' \in Sessions /\ used' \in Counts
                      /\ used'.stops <= MaxStops /\ session'.epoch <= used'.epochs
                      /\ {"serial", "excused", "prompts"} \subseteq DOMAIN truth' /\ truth'.serial \in Nat
<1>0. SUFFICES Files /\ Hooks /\ Numbers
  BY DEF Shaped
<1> USE MainIsNoCall
<1>1. CASE HostStep
  BY <1>1 DEF Shaped, HostStep, SameCount, SameTruth, fileVars
<1>2. ASSUME NEW c \in Calls, NEW h, NEW unit, CallMoves(c, h, unit) PROVE Files /\ Hooks /\ Numbers
  <2>1. Hooks
    <3>1. session' = session /\ HookBecomes(c, h) /\ HookShape(c, h, session'.epoch)
      BY <1>2 DEF CallMoves
    <3> QED BY <3>1, HooksShaped
  <2>2. Files
    <3>1. CASE UNCHANGED units
      BY <3>1 DEF Shaped
    <3>2. CASE Held(hooks[c]) /\ Put(hooks[c].ordinal, unit) /\ UnitShape(unit)
      <4>1. HookShape(c, hooks[c], session.epoch)
        BY DEF Shaped
      <4>2. hooks[c].ordinal \in Nat
        BY <3>2, <4>1, NoHookShape DEF HookShape, Held
      <4> QED BY <3>2, <4>2, PutShaped
    <3> QED BY <1>2, <3>1, <3>2 DEF CallMoves
  <2>3. Numbers
    BY <1>2 DEF Shaped, CallMoves, SameCount, SameTruth
  <2> QED BY <2>1, <2>2, <2>3
<1>3. ASSUME NEW text \in PromptTexts, Prompt(text) PROVE Files /\ Hooks /\ Numbers
  <2> DEFINE h == [stage |-> "open", event |-> [event |-> "prompt", id |-> used.prompts + 1, text |-> text]]
  <2>1. HookBecomes(Main, h) /\ UNCHANGED fileVars
    BY <1>3 DEF Prompt, Start, HookBecomes
  <2>2. HookShape(Main, h, session'.epoch)
    BY DEF HookShape, MainStages
  <2> HIDE DEF h
  <2>3. Hooks
    BY <2>1, <2>2, HooksShaped DEF fileVars
  <2> QED BY <1>3, <2>1, <2>3 DEF Shaped, Prompt, Counts, fileVars
<1>4. ASSUME NEW line \in StopLines, Stop(line) PROVE Files /\ Hooks /\ Numbers
  <2> DEFINE h == [stage |-> "open", event |-> line]
  <2>1. HookBecomes(Main, h) /\ UNCHANGED fileVars
    BY <1>4 DEF Stop, Start, HookBecomes
  <2>2. "event" \in DOMAIN line /\ line.event \in {"stop", "failure"}
    BY DEF StopLines
  <2>3. HookShape(Main, h, session'.epoch)
    BY <2>2 DEF HookShape, MainStages
  <2> HIDE DEF h
  <2>4. Hooks
    BY <2>1, <2>3, HooksShaped DEF fileVars
  <2>5. Files
    BY <2>1 DEF Shaped, fileVars
  <2>6. used' = [used EXCEPT !.stops = @ + 1] /\ used.stops < MaxStops /\ UNCHANGED <<session, truth>>
    BY <1>4 DEF Stop, fileVars
  <2>7. MaxStops \in Nat
    BY CaptureAssumption
  <2>8. Numbers
    BY <2>6, <2>7 DEF Shaped, Counts
  <2> QED BY <2>4, <2>5, <2>8
<1>5. ASSUME NEW a \in Actors, OpenUnit(a) PROVE Files /\ Hooks /\ Numbers
  <2>1. /\ hooks[a].stage = "open" /\ Located(used) /\ Put(CurrentOrdinal, LocatedUnit)
        /\ UNCHANGED truth /\ used \in Counts
        /\ hooks' = [hooks EXCEPT ![a] = [stage |-> FirstStage(hooks[a].event), event |-> hooks[a].event,
                                          ordinal |-> CurrentOrdinal, epoch |-> LocatedEpoch]]
    BY <1>5 DEF OpenUnit, Shaped
  <2> DEFINE h == [stage |-> FirstStage(hooks[a].event), event |-> hooks[a].event,
                   ordinal |-> CurrentOrdinal, epoch |-> LocatedEpoch]
  <2>2. HookShape(a, hooks[a], session.epoch) /\ CurrentOrdinal \in Nat
    BY LocatedOrdinal DEF Shaped
  <2>3. session'.epoch # NoEpoch /\ session'.epoch = LocatedEpoch
        /\ (session'.epoch = session.epoch \/ session.epoch = NoEpoch)
    BY <2>1, Locating
  <2>4. HookShape(a, h, session'.epoch)
    BY <2>1, <2>2, <2>3, FirstStages DEF HookShape, NoHook, MainStages, CallStages
  <2>5. HookBecomes(a, h)
    BY <2>1 DEF HookBecomes
  <2> HIDE DEF h
  <2>6. Hooks
    BY <2>3, <2>4, <2>5, HooksShaped
  <2>7. Files
    BY <2>1, <2>2, LocatedUnitShaped, PutShaped
  <2>8. Numbers
    BY <2>1, Locating DEF Shaped
  <2> QED BY <2>6, <2>7, <2>8
<1>6. ASSUME NEW a \in Actors, FailsOpen(a) PROVE Files /\ Hooks /\ Numbers
  <2> DEFINE count == [used EXCEPT !.faults = @ + 1]
  <2>1. /\ Located(count) /\ Put(CurrentOrdinal, Appended(LocatedUnit, Taint))
        /\ HookBecomes(a, NoHook) /\ SameTruth
    BY <1>6 DEF FailsOpen
  <2>2. count \in Counts /\ count.epochs = used.epochs /\ count.stops = used.stops
        /\ count.prompts = used.prompts
    BY DEF Shaped, Counts
  <2> HIDE DEF count
  <2>3. /\ session' \in Sessions /\ used' \in Counts /\ session'.epoch <= used'.epochs
        /\ used'.stops = used.stops
        /\ session'.epoch = session.epoch \/ session.epoch = NoEpoch
    BY <2>1, <2>2, Locating
  <2>4. Hooks
    BY <2>1, <2>3, NoHookShape, HooksShaped
  <2>5. Files
    BY <2>1, LocatedOrdinal, LocatedUnitShaped, PutShaped
  <2>6. Numbers
    BY <2>1, <2>3 DEF Shaped, SameTruth
  <2> QED BY <2>4, <2>5, <2>6
<1>7. ASSUME NEW a \in Actors, FailsLeaving(a) PROVE Files /\ Hooks /\ Numbers
  <2>1. session' \in Sessions /\ session'.epoch = session.epoch
    BY <1>7 DEF Shaped, Sessions, FailsLeaving
  <2>2. Hooks
    BY <1>7, <2>1, NoHookShape, HooksShaped DEF FailsLeaving
  <2> QED BY <1>7, <2>1, <2>2 DEF Shaped, FailsLeaving, SameCount, SameTruth
<1>8. CASE MainAppends
  <2> DEFINE h == IF IsClosing(hooks[Main].event) THEN [hooks[Main] EXCEPT !.stage = "advance"] ELSE NoHook
  <2>1. HookShape(Main, hooks[Main], session.epoch)
    BY DEF Shaped
  <2>2. HookShape(Main, h, session'.epoch)
    BY <1>8, <2>1 DEF MainAppends, HookShape, NoHook, MainStages
  <2>3. HookBecomes(Main, h) /\ session' = session
    BY <1>8 DEF MainAppends
  <2> HIDE DEF h
  <2>4. Hooks
    BY <2>2, <2>3, HooksShaped
  <2>5. hooks[Main].ordinal \in Nat
    BY <1>8, <2>1 DEF MainAppends, HookShape, NoHook
  <2>6. Files
    BY <1>8, <2>5, UnitsShaped, LineAppended, PutShaped DEF MainAppends, UnitOf
  <2>7. Numbers
    BY <1>8 DEF Shaped, MainAppends
  <2> QED BY <2>4, <2>6, <2>7
<1>9. CASE Advance(Main)
  <2> DEFINE h == Over([truth |-> truth, stage |-> "fold"], hooks[Main])
  <2>1. HookShape(Main, hooks[Main], session.epoch) /\ hooks[Main].stage = "advance" /\ hooks[Main] # NoHook
    BY <1>9 DEF Shaped, Advance, NoHook
  <2>2. /\ {"stage", "event", "ordinal", "epoch", "truth"} \subseteq DOMAIN h /\ h.stage = "fold"
        /\ h.event = hooks[Main].event /\ h.ordinal = hooks[Main].ordinal /\ h.epoch = hooks[Main].epoch
        /\ h.truth = truth
    BY <2>1 DEF Over, HookShape, NoHook
  <2>3. session' \in Sessions /\ session'.epoch = session.epoch
    <3>1. hooks[Main].ordinal + 1 \in Nat
      BY <2>1 DEF HookShape
    <3>2. session \in Sessions
          /\ session' = [session EXCEPT !.current = hooks[Main].ordinal + 1, !.damaged = FALSE]
      BY <1>9 DEF Shaped, Advance
    <3> QED BY <3>1, <3>2 DEF Sessions
  <2>4. HookBecomes(Main, h)
    BY <1>9 DEF Advance, HookBecomes
  <2> HIDE DEF h
  <2>5. HookShape(Main, h, session'.epoch)
    BY <2>1, <2>2, <2>3 DEF HookShape, MainStages, Shaped
  <2>6. Hooks
    BY <2>3, <2>4, <2>5, HooksShaped
  <2>7. Files
    BY <1>9 DEF Shaped, Advance
  <2>8. Numbers
    BY <1>9, <2>3 DEF Shaped, Advance, FreshTruth
  <2> QED BY <2>6, <2>7, <2>8
<1>10. CASE Fold(Main)
  <2>1. HookShape(Main, hooks[Main], session.epoch) /\ hooks[Main].stage = "fold" /\ hooks[Main] # NoHook
    BY <1>10 DEF Shaped, Fold, NoHook
  <2> DEFINE lines == UnitOf(Main).lines
             shown == {lines[i].call : i \in {i \in DOMAIN lines : IsTool(lines[i])}}
             seen == [hooks[Main].truth EXCEPT !.foreign = @ \cup truth.foreign, !.writers = @ \ shown]
  <2>2. PICK resolution :
          HookBecomes(Main, Over([resolution |-> resolution, final |-> tree, truth |-> seen,
                                  stage |-> "deliver"], hooks[Main]))
    BY <1>10 DEF Fold, HookBecomes
  <2>3. {"serial", "prompts"} \subseteq DOMAIN seen /\ seen.serial \in Nat
    BY <2>1 DEF HookShape, NoHook
  <2> HIDE DEF seen
  <2> DEFINE h == Over([resolution |-> resolution, final |-> tree, truth |-> seen, stage |-> "deliver"],
                       hooks[Main])
  <2>4. /\ {"stage", "event", "ordinal", "epoch", "truth"} \subseteq DOMAIN h /\ h.stage = "deliver"
        /\ h.event = hooks[Main].event /\ h.ordinal = hooks[Main].ordinal /\ h.epoch = hooks[Main].epoch
        /\ h.truth = seen
    BY <2>1 DEF Over, HookShape, NoHook
  <2>5. HookBecomes(Main, h)
    BY <2>2
  <2> HIDE DEF h
  <2>6. HookShape(Main, h, session.epoch)
    BY <2>1, <2>3, <2>4 DEF HookShape, MainStages
  <2>7. UNCHANGED <<session, units, truth>>
    BY <1>10 DEF Fold, fileVars
  <2>8. Hooks
    BY <2>5, <2>6, <2>7, HooksShaped
  <2>9. SameCount
    BY <1>10, NothingCounts, FaultCounts DEF Fold
  <2> QED BY <2>7, <2>8, <2>9 DEF Shaped, SameCount
<1>11. CASE Deliver(Main)
  <2> DEFINE h == [hooks[Main] EXCEPT !.stage = "remove"]
  <2>1. HookShape(Main, hooks[Main], session.epoch) /\ hooks[Main].stage = "deliver" /\ hooks[Main] # NoHook
    BY <1>11 DEF Shaped, Deliver, NoHook
  <2>2. HookBecomes(Main, h) /\ UNCHANGED <<session, units>>
    BY <1>11 DEF Deliver, Goes, HookBecomes
  <2>3. HookShape(Main, h, session.epoch)
    BY <2>1 DEF HookShape, MainStages, NoHook
  <2> HIDE DEF h
  <2>4. Hooks
    BY <2>2, <2>3, HooksShaped
  <2>5. SameCount
    BY <1>11, NothingCounts, FaultCounts DEF Deliver
  <2>6. {"serial", "excused", "prompts"} \subseteq DOMAIN truth' /\ truth'.serial \in Nat
    BY <1>11 DEF Shaped, Deliver, Excuse
  <2> QED BY <2>2, <2>4, <2>5, <2>6 DEF Shaped, SameCount
<1>12. CASE RemoveUnit(Main)
  <2>1. HookBecomes(Main, NoHook) /\ UNCHANGED <<session, used, truth>>
    BY <1>12 DEF RemoveUnit, Ends, HookBecomes
  <2>2. Hooks
    BY <2>1, NoHookShape, HooksShaped
  <2>3. Files
    BY <1>12 DEF Shaped, RemoveUnit, Without
  <2> QED BY <2>1, <2>2, <2>3 DEF Shaped
<1>13. CASE MainDies
  <2>1. HookBecomes(Main, NoHook) /\ UNCHANGED <<session, units>> /\ SameCount
    BY <1>13 DEF MainDies, fileVars
  <2>2. Hooks
    BY <2>1, NoHookShape, HooksShaped
  <2>3. {"serial", "excused", "prompts"} \subseteq DOMAIN truth' /\ truth'.serial \in Nat
    BY <1>13 DEF Shaped, MainDies
  <2> QED BY <2>1, <2>2, <2>3 DEF Shaped, SameCount
<1>14. CASE DamageMarker
  <2>1. session' \in Sessions /\ session'.epoch = session.epoch /\ UNCHANGED <<units, hooks, truth>>
    BY <1>14 DEF Shaped, Sessions, DamageMarker
  <2>2. SameCount
    BY <1>14, FaultCounts DEF DamageMarker
  <2> QED BY <2>1, <2>2 DEF Shaped, SameCount
<1>15. CASE RemoveSession
  <2>1. /\ session' = [epoch |-> NoEpoch, current |-> 0, damaged |-> FALSE, tainted |-> FALSE]
        /\ units' = <<>> /\ UNCHANGED hooks /\ \A a \in Actors : hooks[a] = NoHook
        /\ truth' = FreshTruth(tree, truth.serial, truth.excused)
    BY <1>15 DEF RemoveSession
  <2>2. SameCount
    BY <1>15, FaultCounts DEF RemoveSession
  <2>3. Hooks
    BY <2>1, NoHookShape DEF Shaped
  <2>4. Files
    BY <2>1, EmptyList
  <2>5. Numbers
    BY <2>1, <2>2 DEF Shaped, Sessions, SameCount, FreshTruth, NoEpoch, Counts
  <2> QED BY <2>3, <2>4, <2>5
<1> QED BY <1>1, <1>2, <1>3, <1>4, <1>5, <1>6, <1>7, <1>8, <1>9, <1>10, <1>11, <1>12, <1>13,
        <1>14, <1>15 DEF StepOf

----------------------------------------------------------------------------
(* The ordinals and the clock. *)

\* One close at most is pending.
LEMMA PendingIsBit == \A h : Pending(h) \in {0, 1} /\ Pending(NoHook) = 0
BY DEF Pending, NoHook

\* The ceiling never sinks while the marker stays undamaged or is repaired, and
\* what lay under it still does.
LEMMA BoundedKeeps ==
  ASSUME Shaped, Shaped', Bounded, session'.damaged => session.damaged, used'.faults >= used.faults,
         used'.stops - Pending(hooks'[Main]) >= used.stops - Pending(hooks[Main]),
         \A o \in DOMAIN units' : o \in DOMAIN units \/ o <= Ceiling \/ o <= Ceiling',
         ~session'.damaged => \/ session'.current <= Ceiling \/ session'.current <= Ceiling'
                              \/ ~session.damaged /\ session'.current = session.current,
         \A a \in Actors : Held(hooks'[a]) =>
           \/ hooks'[a].ordinal <= Ceiling \/ hooks'[a].ordinal <= Ceiling'
           \/ Held(hooks[a]) /\ hooks'[a].ordinal = hooks[a].ordinal
  PROVE  Bounded' /\ Ceiling <= Ceiling'
<1>1. /\ Pending(hooks[Main]) \in {0, 1} /\ Pending(hooks'[Main]) \in {0, 1}
      /\ Pending(hooks[Main]) <= used.stops
  BY PendingIsBit DEF Bounded
<1>2. /\ WallClock \in Nat /\ WallClock' \in Nat /\ used.stops \in Nat /\ used'.stops \in Nat
      /\ WallClock <= WallClock'
  BY OrdinalIsNat DEF Shaped, Counts, WallClock
<1>3. Ceiling \in Int /\ Ceiling' \in Int /\ Ceiling <= Ceiling' /\ Pending(hooks'[Main]) <= used'.stops
  BY <1>1, <1>2 DEF Ceiling
<1>4. Pending(hooks[Main])' = Pending(hooks'[Main])
  BY DEF Pending
<1>5. DOMAIN units' \subseteq Nat /\ \A a \in Actors : Held(hooks'[a]) => hooks'[a].ordinal \in Nat
  BY NoHookShape DEF Shaped, HookShape, Held
<1>6. /\ \A o \in DOMAIN units : o <= Ceiling
      /\ ~session.damaged => session.current <= Ceiling
      /\ \A a \in Actors : Held(hooks[a]) => hooks[a].ordinal <= Ceiling
  BY DEF Bounded
<1>7. \A o \in DOMAIN units' : o <= Ceiling'
  BY <1>3, <1>5, <1>6
<1>8. session'.current \in Nat
  BY DEF Shaped, Sessions
<1>9. ~session'.damaged => session'.current <= Ceiling'
  BY <1>3, <1>6, <1>8
<1>10. \A a \in Actors : Held(hooks'[a]) => hooks'[a].ordinal <= Ceiling'
  BY <1>3, <1>5, <1>6
<1>11. \A a : Held(hooks[a])' <=> Held(hooks'[a])
  BY DEF Held
<1> HIDE DEF Ceiling
<1> QED BY <1>3, <1>4, <1>7, <1>9, <1>10, <1>11 DEF Bounded

\* Only one hook changes.
LEMMA OneHook ==
  ASSUME Shaped, NEW a \in Actors, NEW h, HookBecomes(a, h)
  PROVE  hooks'[a] = h /\ \A b \in Actors \ {a} : hooks'[b] = hooks[b]
BY DEF Shaped, HookBecomes

\* A hook that has its unit is bound to it.
LEMMA HookWithUnit ==
  ASSUME Shaped, NEW a \in Actors, Held(hooks[a])
  PROVE  hooks[a].ordinal \in Nat /\ hooks[a].epoch = session.epoch /\ session.epoch # NoEpoch
BY NoHookShape DEF Shaped, HookShape, Held

\* At first there is no ordinal to bound.
LEMMA BoundedInit == Init => Bounded
<1> SUFFICES ASSUME Init PROVE Bounded
  OBVIOUS
<1>1. Shaped /\ \A a \in Actors : hooks[a] = NoHook
  BY ShapedInit DEF Init
<1>2. /\ used.stops = 0 /\ session.current = 0 /\ ~session.damaged /\ DOMAIN units = {}
      /\ Pending(hooks[Main]) = 0
  BY <1>1, MainIsNoCall, PendingIsBit DEF Init
<1>3. Ceiling >= 0
  BY <1>1, <1>2, OrdinalIsNat DEF Ceiling
<1> QED BY <1>1, <1>2, <1>3, NoHookShape DEF Bounded

\* The unit a hook locates is below the ceiling, or just made by the clock.
LEMMA LocatedBelow ==
  ASSUME Shaped, Bounded
  PROVE  CurrentOrdinal <= Ceiling \/ (session.damaged /\ CurrentOrdinal = WallClock)
BY LocatedOrdinal DEF Bounded, NextOrdinal

\* Every step keeps the ordinals below the ceiling.
LEMMA BoundedStep ==
  ASSUME Shaped, Shaped', Bounded, StepOf, MaxStops < 100
  PROVE  Bounded'
<1> USE MainIsNoCall
<1>0. /\ Pending(hooks[Main]) \in {0, 1} /\ used.stops \in Nat /\ used.faults \in Nat
      /\ Pending(NoHook) = 0 /\ used'.stops \in Nat /\ used'.faults \in Nat
  BY PendingIsBit DEF Shaped, Counts
<1>1. CASE HostStep
  BY <1>0, <1>1, BoundedKeeps DEF HostStep, SameCount, fileVars
<1>2. ASSUME NEW c \in Calls, NEW h, NEW unit, CallMoves(c, h, unit) PROVE Bounded'
  <2>1. /\ hooks'[c] = h /\ (\A b \in Actors \ {c} : hooks'[b] = hooks[b]) /\ hooks'[Main] = hooks[Main]
    BY <1>2, OneHook DEF CallMoves
  <2>2. /\ session' = session /\ used'.faults >= used.faults /\ used'.stops = used.stops
        /\ Held(h) => Held(hooks[c]) /\ h.ordinal = hooks[c].ordinal
    BY <1>2 DEF CallMoves, SameCount
  <2>3. \A o \in DOMAIN units' : o \in DOMAIN units \/ o <= Ceiling
    <3>1. CASE UNCHANGED units
      BY <3>1
    <3>2. CASE Held(hooks[c]) /\ Put(hooks[c].ordinal, unit)
      <4>1. hooks[c].ordinal <= Ceiling
        BY <3>2 DEF Bounded
      <4> QED BY <3>2, <4>1 DEF Put, With
    <3> QED BY <1>2, <3>1, <3>2 DEF CallMoves
  <2> HIDE DEF Ceiling
  <2> QED BY <1>0, <2>1, <2>2, <2>3, BoundedKeeps
<1>3. ASSUME NEW text \in PromptTexts, Prompt(text) PROVE Bounded'
  <2> DEFINE h == [stage |-> "open", event |-> [event |-> "prompt", id |-> used.prompts + 1, text |-> text]]
  <2>1. HookBecomes(Main, h) /\ UNCHANGED <<session, units>> /\ hooks[Main] = NoHook
        /\ used'.faults = used.faults /\ used'.stops = used.stops
    BY <1>3 DEF Prompt, Start, HookBecomes, fileVars, Shaped, Counts
  <2>2. Pending(h) = 0 /\ ~Held(h)
    BY DEF Pending, Held, IsClosing
  <2> HIDE DEF h
  <2>3. hooks'[Main] = h /\ \A b \in Actors \ {Main} : hooks'[b] = hooks[b]
    BY <2>1, OneHook
  <2> QED BY <1>0, <2>1, <2>2, <2>3, BoundedKeeps
<1>4. ASSUME NEW line \in StopLines, Stop(line) PROVE Bounded'
  <2> DEFINE h == [stage |-> "open", event |-> line]
  <2>1. HookBecomes(Main, h) /\ UNCHANGED <<session, units>> /\ hooks[Main] = NoHook
        /\ used'.faults = used.faults /\ used'.stops = used.stops + 1
    BY <1>4 DEF Stop, Start, HookBecomes, fileVars, Shaped, Counts
  <2>2. Pending(h) \in {0, 1} /\ ~Held(h)
    BY PendingIsBit DEF Held
  <2> HIDE DEF h
  <2>3. hooks'[Main] = h /\ \A b \in Actors \ {Main} : hooks'[b] = hooks[b]
    BY <2>1, OneHook
  <2> QED BY <1>0, <2>1, <2>2, <2>3, BoundedKeeps
<1>5. ASSUME NEW a \in Actors, OpenUnit(a) PROVE Bounded'
  <2> DEFINE h == [stage |-> FirstStage(hooks[a].event), event |-> hooks[a].event,
                   ordinal |-> CurrentOrdinal, epoch |-> LocatedEpoch]
  <2>1. hooks[a].stage = "open" /\ Located(used) /\ Put(CurrentOrdinal, LocatedUnit) /\ HookBecomes(a, h)
    BY <1>5 DEF OpenUnit, HookBecomes
  <2>2. /\ ~session'.damaged /\ session'.current = CurrentOrdinal
        /\ used'.faults = used.faults /\ used'.stops = used.stops
    BY <2>1, Locating DEF Shaped
  <2>3. h.ordinal = CurrentOrdinal /\ (a = Main => Pending(h) = Pending(hooks[Main]))
    <3>1. a = Main => h.stage = "append" /\ h.event = hooks[Main].event
      BY <2>1, FirstStages DEF Shaped
    <3> QED BY <2>1, <3>1 DEF Pending
  <2> HIDE DEF h
  <2>4. hooks'[a] = h /\ \A b \in Actors \ {a} : hooks'[b] = hooks[b]
    BY <2>1, OneHook
  <2>5. Pending(hooks'[Main]) = Pending(hooks[Main])
    BY <2>3, <2>4
  <2>6. CurrentOrdinal <= Ceiling \/ CurrentOrdinal <= Ceiling'
    <3>1. CASE session.damaged /\ CurrentOrdinal = WallClock
      <4>1. Ceiling' = WallClock' + used'.stops - Pending(hooks'[Main])
        BY <2>2 DEF Ceiling, Pending
      <4>2. WallClock' = WallClock /\ WallClock \in Nat /\ Pending(hooks[Main]) <= used.stops
        BY <2>2, OrdinalIsNat DEF WallClock, Bounded
      <4> QED BY <1>0, <2>2, <2>5, <3>1, <4>1, <4>2
    <3> QED BY <3>1, LocatedBelow
  <2>7. \A o \in DOMAIN units' : o \in DOMAIN units \/ o = CurrentOrdinal
    BY <2>1 DEF Put, With
  <2> HIDE DEF Ceiling
  <2> QED BY <1>0, <2>2, <2>3, <2>4, <2>5, <2>6, <2>7, BoundedKeeps
<1>6. ASSUME NEW a \in Actors, FailsOpen(a) PROVE Bounded'
  <2> DEFINE count == [used EXCEPT !.faults = @ + 1]
  <2>1. /\ Located(count) /\ Put(CurrentOrdinal, Appended(LocatedUnit, Taint)) /\ HookBecomes(a, NoHook)
    BY <1>6 DEF FailsOpen
  <2>2. count \in Counts /\ count.epochs = used.epochs /\ count.stops = used.stops
        /\ count.prompts = used.prompts /\ count.faults = used.faults + 1
    BY DEF Shaped, Counts
  <2> HIDE DEF count
  <2>3. /\ ~session'.damaged /\ session'.current = CurrentOrdinal
        /\ used'.faults = used.faults + 1 /\ used'.stops = used.stops
    BY <2>1, <2>2, Locating
  <2>4. hooks'[a] = NoHook /\ \A b \in Actors \ {a} : hooks'[b] = hooks[b]
    BY <2>1, OneHook
  <2>5. Pending(hooks'[Main]) <= Pending(hooks[Main]) /\ Pending(hooks'[Main]) \in {0, 1}
    BY <1>0, <2>4, PendingIsBit
  <2>6. CurrentOrdinal <= Ceiling \/ CurrentOrdinal <= Ceiling'
    <3>1. CASE session.damaged /\ CurrentOrdinal = WallClock
      <4>1. Ceiling' = WallClock' + used'.stops - Pending(hooks'[Main])
        BY <2>3 DEF Ceiling, Pending
      <4>2. WallClock' = WallClock + 100 /\ WallClock \in Nat
        BY <1>0, <2>3, OrdinalIsNat DEF WallClock
      <4> QED BY <1>0, <2>3, <2>5, <3>1, <4>1, <4>2
    <3> QED BY <3>1, LocatedBelow
  <2>7. \A o \in DOMAIN units' : o \in DOMAIN units \/ o = CurrentOrdinal
    BY <2>1 DEF Put, With
  <2> HIDE DEF Ceiling
  <2> QED BY <1>0, <2>3, <2>4, <2>5, <2>6, <2>7, NoHookShape, BoundedKeeps
<1>7. ASSUME NEW a \in Actors, FailsLeaving(a) PROVE Bounded'
  <2>1. /\ session'.damaged = session.damaged /\ session'.current = session.current
        /\ HookBecomes(a, NoHook) /\ UNCHANGED units
        /\ used'.faults >= used.faults /\ used'.stops = used.stops
    BY <1>7 DEF FailsLeaving, SameCount, Shaped, Sessions
  <2>2. hooks'[a] = NoHook /\ \A b \in Actors \ {a} : hooks'[b] = hooks[b]
    BY <2>1, OneHook
  <2>3. Pending(hooks'[Main]) <= Pending(hooks[Main]) /\ Pending(hooks'[Main]) \in {0, 1}
    BY <1>0, <2>2, PendingIsBit
  <2> QED BY <1>0, <2>1, <2>2, <2>3, NoHookShape, BoundedKeeps
<1>8. CASE MainAppends
  <2> DEFINE h == IF IsClosing(hooks[Main].event) THEN [hooks[Main] EXCEPT !.stage = "advance"] ELSE NoHook
  <2>1. HookShape(Main, hooks[Main], session.epoch) /\ hooks[Main].stage = "append"
    BY <1>8 DEF Shaped, MainAppends
  <2>2. HookBecomes(Main, h) /\ UNCHANGED <<session, used>> /\ Held(hooks[Main])
    BY <1>8 DEF MainAppends, Held
  <2>3. Pending(h) = Pending(hooks[Main]) /\ (Held(h) => h.ordinal = hooks[Main].ordinal)
    BY <2>1, NoHookShape, PendingIsBit DEF Pending, HookShape, NoHook
  <2> HIDE DEF h
  <2>4. hooks'[Main] = h /\ \A b \in Actors \ {Main} : hooks'[b] = hooks[b]
    BY <2>2, OneHook
  <2>5. \A o \in DOMAIN units' : o \in DOMAIN units \/ o = hooks[Main].ordinal
    BY <1>8 DEF MainAppends, Put, With
  <2>6. hooks[Main].ordinal <= Ceiling
    BY <2>2 DEF Bounded
  <2> HIDE DEF Ceiling
  <2> QED BY <1>0, <2>2, <2>3, <2>4, <2>5, <2>6, BoundedKeeps
<1>9. CASE Advance(Main)
  <2> DEFINE h == Over([truth |-> truth, stage |-> "fold"], hooks[Main])
  <2>1. HookShape(Main, hooks[Main], session.epoch) /\ hooks[Main].stage = "advance"
        /\ IsClosing(hooks[Main].event) /\ Held(hooks[Main])
    BY <1>9 DEF Shaped, Advance, HookShape, NoHook, Held
  <2>2. h.stage = "fold" /\ h.ordinal = hooks[Main].ordinal
    BY <2>1 DEF Over, HookShape, NoHook
  <2>3. HookBecomes(Main, h) /\ UNCHANGED <<units, used>>
        /\ session'.current = hooks[Main].ordinal + 1 /\ ~session'.damaged
    BY <1>9 DEF Advance, HookBecomes, Shaped, Sessions
  <2>4. Pending(h) = 0 /\ Pending(hooks[Main]) = 1
    BY <2>1, <2>2 DEF Pending
  <2> HIDE DEF h
  <2>5. hooks'[Main] = h /\ \A b \in Actors \ {Main} : hooks'[b] = hooks[b]
    BY <2>3, OneHook
  <2>6. hooks[Main].ordinal \in Nat /\ hooks[Main].ordinal <= Ceiling
    BY <2>1, HookWithUnit DEF Bounded
  <2>7. session'.current <= Ceiling'
    <3>1. Ceiling' = WallClock + used.stops /\ WallClock \in Nat
      <4>1. Pending(hooks[Main])' = 0
        BY <2>4, <2>5 DEF Pending
      <4> QED BY <1>0, <2>3, <4>1, OrdinalIsNat DEF Ceiling, WallClock
    <3>2. hooks[Main].ordinal <= WallClock + used.stops - 1
      BY <1>0, <2>4, <2>6, <3>1 DEF Ceiling
    <3> QED BY <1>0, <2>3, <2>6, <3>1, <3>2
  <2> HIDE DEF Ceiling
  <2> QED BY <1>0, <2>1, <2>2, <2>3, <2>4, <2>5, <2>7, BoundedKeeps
<1>10. CASE Fold(Main) \/ Deliver(Main) \/ RemoveUnit(Main) \/ MainDies
  <2>1. HookShape(Main, hooks[Main], session.epoch) /\ Held(NoHook) = FALSE
    BY NoHookShape DEF Shaped
  <2>2. /\ UNCHANGED session /\ DOMAIN units' \subseteq DOMAIN units
        /\ used'.faults >= used.faults /\ used'.stops = used.stops
    <3>1. CASE RemoveUnit(Main)
      BY <1>0, <3>1 DEF RemoveUnit, Without
    <3>2. CASE MainDies
      BY <3>2 DEF MainDies, fileVars, SameCount
    <3>3. CASE Fold(Main) \/ Deliver(Main)
      <4>1. SameCount
        BY <3>3, NothingCounts, FaultCounts DEF Fold, Deliver
      <4> QED BY <3>3, <4>1 DEF Fold, Deliver, fileVars, SameCount
    <3> QED BY <1>10, <3>1, <3>2, <3>3
  <2>3. \E h : /\ HookBecomes(Main, h) /\ Pending(h) = 0
               /\ Held(h) => Held(hooks[Main]) /\ h.ordinal = hooks[Main].ordinal
    <3>1. CASE RemoveUnit(Main) \/ MainDies
      <4>1. HookBecomes(Main, NoHook)
        BY <3>1 DEF RemoveUnit, Ends, MainDies, HookBecomes
      <4> QED BY <2>1, <4>1, <1>0
    <3>2. CASE Fold(Main)
      <4>1. PICK fields : /\ HookBecomes(Main, Over(fields, hooks[Main])) /\ hooks[Main].stage = "fold"
                          /\ DOMAIN fields = {"resolution", "final", "truth", "stage"}
                          /\ fields.stage = "deliver"
        BY <3>2 DEF Fold, HookBecomes
      <4> DEFINE h == Over(fields, hooks[Main])
      <4>2. h.stage = "deliver" /\ h.ordinal = hooks[Main].ordinal
        BY <2>1, <4>1 DEF Over, HookShape, NoHook
      <4> HIDE DEF h
      <4>3. HookBecomes(Main, h)
        BY <4>1 DEF h
      <4> QED BY <4>1, <4>2, <4>3 DEF Pending, Held
    <3>3. CASE Deliver(Main)
      <4> DEFINE h == [hooks[Main] EXCEPT !.stage = "remove"]
      <4>1. HookBecomes(Main, h) /\ hooks[Main].stage = "deliver"
        BY <3>3 DEF Deliver, Goes, HookBecomes
      <4>2. h.stage = "remove" /\ h.ordinal = hooks[Main].ordinal
        BY <2>1, <4>1 DEF HookShape, NoHook
      <4> HIDE DEF h
      <4> QED BY <4>1, <4>2 DEF Pending, Held
    <3> QED BY <1>10, <3>1, <3>2, <3>3
  <2>4. PICK h : /\ HookBecomes(Main, h) /\ Pending(h) = 0
                 /\ Held(h) => Held(hooks[Main]) /\ h.ordinal = hooks[Main].ordinal
    BY <2>3
  <2>5. hooks'[Main] = h /\ \A b \in Actors \ {Main} : hooks'[b] = hooks[b]
    BY <2>4, OneHook
  <2> QED BY <1>0, <2>2, <2>4, <2>5, BoundedKeeps
<1>11. CASE DamageMarker
  <2>1. /\ UNCHANGED <<units, hooks>> /\ session'.damaged /\ ~session.damaged
        /\ used'.faults = used.faults + 1 /\ used'.stops = used.stops
    BY <1>11 DEF DamageMarker, Fault, Shaped, Sessions, Counts
  <2>2. Ceiling' = WallClock + 99 /\ WallClock \in Nat
    BY <1>0, <2>1, OrdinalIsNat DEF Ceiling, WallClock
  <2>3. Ceiling <= Ceiling' /\ Ceiling \in Int
    <3>1. used.stops <= MaxStops /\ MaxStops \in Nat
      BY CaptureAssumption DEF Shaped
    <3> QED BY <1>0, <2>1, <2>2, <3>1 DEF Ceiling
  <2>4. Pending(hooks[Main])' = Pending(hooks[Main])
    BY <2>1 DEF Pending
  <2>5. DOMAIN units \subseteq Nat /\ \A a \in Actors : Held(hooks[a]) => hooks[a].ordinal \in Nat
    BY HookWithUnit DEF Shaped
  <2> HIDE DEF Ceiling
  <2>6. Ceiling' \in Int
    BY <2>2
  <2> QED BY <2>1, <2>3, <2>4, <2>5, <2>6 DEF Bounded, Held
<1>12. CASE RemoveSession
  <2>1. /\ units' = <<>> /\ UNCHANGED hooks /\ session'.current = 0 /\ ~session'.damaged
        /\ used'.stops = used.stops /\ used'.faults = used.faults + 1
    BY <1>12 DEF RemoveSession, Fault, Shaped, Counts
  <2>2. Pending(hooks'[Main]) = Pending(hooks[Main]) /\ Pending(hooks[Main]) <= used.stops
    BY <2>1 DEF Bounded
  <2>3. Ceiling' >= 0
    <3>1. WallClock' \in Nat
      BY <1>0 DEF WallClock
    <3>2. Ceiling' = WallClock' + used'.stops - Pending(hooks'[Main])
      BY <2>1 DEF Ceiling, Pending
    <3> QED BY <1>0, <2>1, <2>2, <3>1, <3>2
  <2>4. DOMAIN units' = {}
    BY <2>1
  <2>5. \A a \in Actors : hooks'[a] = NoHook
    BY <1>12, <2>1 DEF RemoveSession
  <2> HIDE DEF Ceiling
  <2> QED BY <1>0, <2>1, <2>3, <2>4, <2>5, NoHookShape, BoundedKeeps
<1> QED BY <1>1, <1>2, <1>3, <1>4, <1>5, <1>6, <1>7, <1>8, <1>9, <1>10, <1>11, <1>12 DEF StepOf

----------------------------------------------------------------------------
(* The names of the hand-overs, and the closed units. *)

\* No step but the hand-over itself takes a name, and the next name stays free.
LEMMA NamesKept ==
  ASSUME Shaped, Shaped', Bounded, Bounded', Named, Accounted,
         handoffs' = handoffs, used'.epochs >= used.epochs,
         truth'.serial = truth.serial, truth.excused \subseteq truth'.excused,
         Closing(Main) => \/ /\ hooks'[Main].stage \in {"fold", "deliver"}
                             /\ hooks'[Main].truth.serial = hooks[Main].truth.serial
                          \/ hooks[Main].truth.serial \in truth'.excused,
         Closed(hooks'[Main]) => Closed(hooks[Main]) /\ hooks'[Main].ordinal = hooks[Main].ordinal,
         \/ /\ session'.epoch = session.epoch /\ NextOrdinal <= NextOrdinal'
            /\ Naming(hooks'[Main]) => \/ Naming(hooks[Main]) /\ hooks'[Main].ordinal = hooks[Main].ordinal
                                       \/ hooks'[Main].ordinal = NextOrdinal
         \/ session'.epoch \notin 1..used.epochs /\ ~Closed(hooks'[Main])
  PROVE  Named' /\ Accounted'
<1>1. /\ NextOrdinal \in Nat /\ NextOrdinal' \in Nat /\ used.epochs \in Nat /\ used'.epochs \in Nat
      /\ session.epoch \in Nat /\ session'.epoch \in Nat
  <2>1. /\ session \in Sessions /\ session' \in Sessions /\ used \in Counts /\ used' \in Counts
    BY DEF Shaped
  <2>2. WallClock \in Nat /\ WallClock' \in Nat
    BY <2>1 DEF WallClock, Counts
  <2> QED BY <2>1, <2>2 DEF Sessions, Counts, NextOrdinal
<1>2. Closed(hooks[Main]) => hooks[Main].ordinal < NextOrdinal /\ hooks[Main].ordinal \in Nat
  BY HookWithUnit, MainIsNoCall DEF Named, Closed, Held
<1>3. /\ \A h : Naming(h)' <=> Naming(h)
      /\ Naming(hooks[Main])' <=> Naming(hooks'[Main])
      /\ Closed(hooks[Main])' <=> Closed(hooks'[Main])
  BY DEF Naming, Closed
<1>4. Closed(hooks'[Main]) => hooks'[Main].ordinal < NextOrdinal'
  BY <1>1, <1>2
<1>5. ASSUME NEW h \in handoffs
      PROVE  /\ h.epoch \in 1..used'.epochs /\ h.ordinal \in Nat
             /\ h.epoch = session'.epoch =>
                  h.ordinal < NextOrdinal' /\ (Naming(hooks'[Main]) => h.ordinal < hooks'[Main].ordinal)
  <2>1. /\ h.epoch \in 1..used.epochs /\ h.ordinal \in Nat
        /\ h.epoch = session.epoch =>
             h.ordinal < NextOrdinal /\ (Naming(hooks[Main]) => h.ordinal < hooks[Main].ordinal)
    BY DEF Named
  <2> QED BY <1>1, <2>1
<1>6. Named'
  BY <1>3, <1>4, <1>5 DEF Named
<1>7. ASSUME NEW s \in 0..(truth'.serial - 1)
      PROVE  \/ s \in truth'.excused
             \/ \E h \in handoffs' : h.truth.serial = s
             \/ hooks'[Main].stage \in {"fold", "deliver"} /\ hooks'[Main].truth.serial = s
  BY <1>7 DEF Accounted
<1>8. Accounted'
  BY <1>7 DEF Accounted, Closing
<1> QED BY <1>6, <1>8

\* The next ordinal does not sink while the marker stays as it is.
LEMMA NextOrdinalKept ==
  ASSUME Shaped, Shaped', session'.damaged = session.damaged, session'.current = session.current,
         used'.faults >= used.faults
  PROVE  NextOrdinal <= NextOrdinal'
<1>1. session \in Sessions /\ used \in Counts /\ used' \in Counts
  BY DEF Shaped
<1>2. WallClock \in Nat /\ WallClock' \in Nat /\ WallClock <= WallClock'
  BY <1>1 DEF WallClock, Counts
<1> QED BY <1>1, <1>2 DEF NextOrdinal, Sessions

\* At first there is nothing handed over and nothing closed.
LEMMA NamedInit == Init => Named /\ Accounted
<1> SUFFICES ASSUME Init PROVE Named /\ Accounted
  OBVIOUS
<1>1. handoffs = {} /\ truth.serial = 0 /\ hooks[Main] = NoHook
  BY MainIsNoCall DEF Init, FreshTruth
<1> QED BY <1>1 DEF Named, Accounted, Closed, NoHook

\* Every step keeps the hand-overs named below what comes, and the closes accounted for.
LEMMA NamedStep ==
  ASSUME Shaped, Shaped', Bounded, Bounded', Named, Accounted, StepOf, MaxStops < 100
  PROVE  Named' /\ Accounted'
<1> USE MainIsNoCall
<1>0. /\ ~Closed(NoHook) /\ ~Naming(NoHook) /\ session \in Sessions /\ used \in Counts
      /\ used' \in Counts /\ session' \in Sessions
  BY DEF Closed, Naming, NoHook, Shaped
<1>1. CASE HostStep \/ DamageMarker
  <2>1. /\ UNCHANGED <<handoffs, hooks>> /\ SameTruth /\ SameCount /\ session'.epoch = session.epoch
    BY <1>1, SameTruthKept, FaultCounts DEF HostStep, DamageMarker, fileVars, Shaped, Sessions
  <2>2. NextOrdinal <= NextOrdinal'
    <3>1. CASE HostStep
      BY <2>1, <3>1, NextOrdinalKept DEF HostStep, fileVars, SameCount
    <3>2. CASE DamageMarker
      <4>1. session'.damaged /\ ~session.damaged /\ used'.faults >= used.faults
        BY <2>1, <3>2 DEF DamageMarker, Shaped, Sessions, SameCount
      <4>2. DamageMarker => used'.faults = used.faults + 1
        BY <1>0 DEF DamageMarker, Fault, Counts
      <4>3. NextOrdinal' = WallClock' /\ NextOrdinal = session.current
        BY <4>1 DEF NextOrdinal
      <4>4. session'.epoch = session.epoch /\ session'.current = session.current
        BY <3>2 DEF DamageMarker, Shaped, Sessions
      <4>5. session.current <= WallClock + used.stops /\ used.stops <= MaxStops
        <5>1. session.current <= Ceiling
          BY <4>1 DEF Bounded
        <5>2. Ceiling <= WallClock + used.stops
          BY <1>0, <4>1, PendingIsBit, OrdinalIsNat DEF Ceiling, Counts
        <5>3. session.current \in Nat /\ Ceiling \in Int /\ WallClock \in Nat /\ used.stops \in Nat
          BY <1>0, PendingIsBit, OrdinalIsNat DEF Ceiling, Counts, Sessions
        <5> QED BY <5>1, <5>2, <5>3 DEF Shaped
      <4>6. MaxStops \in Nat
        BY CaptureAssumption
      <4>7. WallClock' = WallClock + 100 /\ WallClock \in Nat
        BY <1>0, <3>2, <4>2 DEF WallClock, Counts
      <4>8. session.current \in Nat /\ used.stops \in Nat
        BY <1>0 DEF Sessions, Counts
      <4> QED BY <4>3, <4>5, <4>6, <4>7, <4>8
    <3> QED BY <1>1, <3>1, <3>2
  <2> QED BY <1>0, <2>1, <2>2, NamesKept DEF SameTruth, SameCount, Counts, Closing, Naming, Closed
<1>2. ASSUME NEW c \in Calls, NEW h, NEW unit, CallMoves(c, h, unit) PROVE Named' /\ Accounted'
  <2>1. hooks'[Main] = hooks[Main]
    BY <1>2, OneHook DEF CallMoves
  <2>2. UNCHANGED <<session, handoffs>> /\ SameTruth /\ SameCount
    BY <1>2 DEF CallMoves
  <2>3. NextOrdinal <= NextOrdinal'
    BY <2>2, NextOrdinalKept DEF SameCount
  <2> QED BY <1>0, <2>1, <2>2, <2>3, NamesKept DEF SameTruth, SameCount, Counts, Closing
<1>3. ASSUME NEW h, HookBecomes(Main, h), ~Naming(h), ~Closed(h), UNCHANGED <<session, handoffs>>,
             used'.faults >= used.faults, used'.epochs = used.epochs, ~Closing(Main),
             truth'.serial = truth.serial, truth'.excused = truth.excused
      PROVE  Named' /\ Accounted'
  <2>1. hooks'[Main] = h
    BY <1>3, OneHook
  <2>2. NextOrdinal <= NextOrdinal'
    BY <1>3, NextOrdinalKept
  <2> QED BY <1>0, <1>3, <2>1, <2>2, NamesKept DEF Counts
<1>4. CASE (\E text \in PromptTexts : Prompt(text)) \/ (\E line \in StopLines : Stop(line))
  <2>1. PICK event : /\ HookBecomes(Main, [stage |-> "open", event |-> event]) /\ hooks[Main] = NoHook
                     /\ UNCHANGED <<session, handoffs>>
    BY <1>4 DEF Prompt, Stop, Start, HookBecomes, fileVars
  <2>2. /\ used'.faults >= used.faults /\ used'.epochs = used.epochs
        /\ truth'.serial = truth.serial /\ truth'.excused = truth.excused
    <3>1. used' = [used EXCEPT !.prompts = @ + 1] \/ used' = [used EXCEPT !.stops = @ + 1]
      BY <1>4 DEF Prompt, Stop
    <3>2. \E prompts : truth' = [truth EXCEPT !.prompts = prompts] \/ truth' = truth
      BY <1>4 DEF Prompt, Stop
    <3> QED BY <1>0, <3>1, <3>2 DEF Shaped, Counts
  <2> DEFINE h == [stage |-> "open", event |-> event]
  <2>3. ~Naming(h) /\ ~Closed(h) /\ ~Closing(Main)
    BY <2>1 DEF Naming, Closed, Closing, NoHook
  <2>4. HookBecomes(Main, h)
    BY <2>1
  <2> HIDE DEF h
  <2> QED BY <1>3, <2>1, <2>2, <2>3, <2>4
<1>5. ASSUME NEW a \in Actors, OpenUnit(a) PROVE Named' /\ Accounted'
  <2> DEFINE h == [stage |-> FirstStage(hooks[a].event), event |-> hooks[a].event,
                   ordinal |-> CurrentOrdinal, epoch |-> LocatedEpoch]
  <2>1. /\ hooks[a].stage = "open" /\ Located(used) /\ HookBecomes(a, h)
        /\ UNCHANGED <<handoffs, truth>>
    BY <1>5 DEF OpenUnit, HookBecomes
  <2>2. /\ ~session'.damaged /\ session'.current = CurrentOrdinal /\ used'.epochs >= used.epochs
        /\ session'.epoch = session.epoch \/ session'.epoch = used.epochs + 1
    BY <1>0, <2>1, Locating
  <2>3. NextOrdinal' = NextOrdinal /\ CurrentOrdinal = NextOrdinal /\ NextOrdinal \in Nat
    BY <2>2, LocatedOrdinal DEF NextOrdinal
  <2>4. h.ordinal = CurrentOrdinal /\ (a = Main => h.stage = "append")
    BY <2>1, FirstStages DEF Shaped
  <2> HIDE DEF h
  <2>5. hooks'[a] = h /\ \A b \in Actors \ {a} : hooks'[b] = hooks[b]
    BY <2>1, OneHook
  <2>6. /\ a = Main => ~Closing(Main)
        /\ Closed(hooks'[Main]) => Closed(hooks[Main]) /\ hooks'[Main] = hooks[Main]
        /\ Closing(Main) => hooks'[Main] = hooks[Main]
        /\ Naming(hooks'[Main]) => \/ Naming(hooks[Main]) /\ hooks'[Main] = hooks[Main]
                                   \/ hooks'[Main].ordinal = NextOrdinal
    BY <2>1, <2>3, <2>4, <2>5 DEF Closing, Closed, Naming
  <2>7. Closed(hooks[Main]) => session.epoch # NoEpoch
    BY HookWithUnit DEF Closed, Held
  <2>8. session.epoch # NoEpoch => session'.epoch = session.epoch
    BY <1>0, <2>1, Locating
  <2>9. used.epochs + 1 \notin 1..used.epochs
    BY <1>0 DEF Counts
  <2> QED BY <2>1, <2>2, <2>3, <2>6, <2>7, <2>8, <2>9, NamesKept DEF Closing
<1>6. ASSUME NEW a \in Actors, FailsOpen(a) PROVE Named' /\ Accounted'
  <2> DEFINE count == [used EXCEPT !.faults = @ + 1]
  <2>1. /\ Located(count) /\ HookBecomes(a, NoHook) /\ UNCHANGED handoffs /\ SameTruth
        /\ hooks[a].stage \in {"open", "append", "advance"}
    BY <1>6 DEF FailsOpen
  <2>2. count \in Counts /\ count.epochs = used.epochs /\ count.stops = used.stops
        /\ count.prompts = used.prompts
    BY <1>0 DEF Counts
  <2> HIDE DEF count
  <2>3. /\ ~session'.damaged /\ session'.current = CurrentOrdinal /\ used'.epochs >= used.epochs
        /\ session'.epoch = session.epoch \/ session'.epoch = used.epochs + 1
        /\ session.epoch # NoEpoch => session'.epoch = session.epoch
    BY <1>0, <2>1, <2>2, Locating
  <2>4. NextOrdinal' = NextOrdinal /\ NextOrdinal \in Nat
    BY <2>3, LocatedOrdinal DEF NextOrdinal
  <2>5. hooks'[a] = NoHook /\ \A b \in Actors \ {a} : hooks'[b] = hooks[b]
    BY <2>1, OneHook
  <2>6. /\ Closed(hooks'[Main]) => Closed(hooks[Main]) /\ hooks'[Main] = hooks[Main]
        /\ Closing(Main) => hooks'[Main] = hooks[Main]
        /\ Naming(hooks'[Main]) => Naming(hooks[Main]) /\ hooks'[Main] = hooks[Main]
    BY <1>0, <2>1, <2>5 DEF Closing, Closed, Naming
  <2>7. Closed(hooks[Main]) => session.epoch # NoEpoch
    BY HookWithUnit DEF Closed, Held
  <2>8. used.epochs + 1 \notin 1..used.epochs
    BY <1>0 DEF Counts
  <2> QED BY <2>1, <2>3, <2>4, <2>6, <2>7, <2>8, NamesKept DEF Closing, SameTruth
<1>7. ASSUME NEW a \in Actors, FailsLeaving(a) PROVE Named' /\ Accounted'
  <2>1. /\ session'.damaged = session.damaged /\ session'.current = session.current
        /\ session'.epoch = session.epoch /\ HookBecomes(a, NoHook) /\ UNCHANGED handoffs
        /\ SameCount /\ SameTruth /\ hooks[a].stage \in {"open", "append", "advance"}
    BY <1>0, <1>7 DEF FailsLeaving, Sessions
  <2>2. hooks'[a] = NoHook /\ \A b \in Actors \ {a} : hooks'[b] = hooks[b]
    BY <2>1, OneHook
  <2>3. /\ Closed(hooks'[Main]) => Closed(hooks[Main]) /\ hooks'[Main] = hooks[Main]
        /\ Closing(Main) => hooks'[Main] = hooks[Main]
        /\ Naming(hooks'[Main]) => Naming(hooks[Main]) /\ hooks'[Main] = hooks[Main]
    BY <1>0, <2>1, <2>2 DEF Closing, Closed, Naming
  <2>4. NextOrdinal <= NextOrdinal'
    BY <2>1, NextOrdinalKept DEF SameCount
  <2> QED BY <1>0, <2>1, <2>3, <2>4, NamesKept DEF Closing, SameTruth, SameCount, Counts
<1>8. CASE MainAppends
  <2> DEFINE h == IF IsClosing(hooks[Main].event) THEN [hooks[Main] EXCEPT !.stage = "advance"] ELSE NoHook
  <2>1. HookShape(Main, hooks[Main], session.epoch) /\ hooks[Main].stage = "append"
    BY <1>8 DEF Shaped, MainAppends
  <2>2. HookBecomes(Main, h) /\ UNCHANGED <<session, handoffs, used, truth>>
    BY <1>8 DEF MainAppends
  <2>3. ~Closed(h) /\ (Naming(h) => Naming(hooks[Main]) /\ h.ordinal = hooks[Main].ordinal)
    BY <1>0, <2>1 DEF Naming, Closed, HookShape, NoHook
  <2> HIDE DEF h
  <2>4. hooks'[Main] = h
    BY <2>2, OneHook
  <2>5. NextOrdinal <= NextOrdinal' /\ ~Closing(Main)
    BY <1>0, <2>1, <2>2, NextOrdinalKept DEF Counts, Closing
  <2> QED BY <1>0, <2>2, <2>3, <2>4, <2>5, NamesKept DEF Counts
<1>9. CASE Advance(Main)
  <2> DEFINE h == Over([truth |-> truth, stage |-> "fold"], hooks[Main])
  <2>1. HookShape(Main, hooks[Main], session.epoch) /\ hooks[Main].stage = "advance"
        /\ hooks[Main].ordinal \in Nat
    BY <1>9 DEF Shaped, Advance, HookShape, NoHook
  <2>2. h.stage = "fold" /\ h.ordinal = hooks[Main].ordinal /\ h.truth = truth
    BY <2>1 DEF Over, HookShape, NoHook
  <2>3. /\ HookBecomes(Main, h) /\ UNCHANGED <<handoffs, used>> /\ session'.epoch = session.epoch
        /\ session'.current = hooks[Main].ordinal + 1 /\ ~session'.damaged
        /\ truth'.serial = truth.serial + 1 /\ truth'.excused = truth.excused
    BY <1>9 DEF Advance, HookBecomes, Shaped, Sessions, FreshTruth
  <2> HIDE DEF h
  <2>4. hooks'[Main] = h
    BY <2>3, OneHook
  <2>5. NextOrdinal' = hooks[Main].ordinal + 1
    BY <2>3 DEF NextOrdinal
  <2>6. \A k \in handoffs : k.epoch \in 1..used.epochs /\ k.ordinal \in Nat
                            /\ (k.epoch = session.epoch => k.ordinal < hooks[Main].ordinal)
    BY <2>1 DEF Named, Naming
  <2>7. Named'
    BY <2>1, <2>2, <2>3, <2>4, <2>5, <2>6 DEF Named, Naming, Closed
  <2>8. ASSUME NEW s \in 0..(truth'.serial - 1)
        PROVE  \/ s \in truth'.excused
               \/ \E k \in handoffs' : k.truth.serial = s
               \/ hooks'[Main].stage \in {"fold", "deliver"} /\ hooks'[Main].truth.serial = s
    <3>1. CASE s = truth.serial
      BY <2>2, <2>4, <3>1
    <3>2. CASE s # truth.serial
      <4>1. s \in 0..(truth.serial - 1) /\ ~Closing(Main)
        BY <2>1, <2>3, <2>8, <3>2 DEF Shaped, Closing
      <4> QED BY <2>3, <4>1 DEF Accounted
    <3> QED BY <3>1, <3>2
  <2>9. Accounted'
    BY <2>8 DEF Accounted, Closing
  <2> QED BY <2>7, <2>9
<1>10. CASE Fold(Main)
  <2>1. HookShape(Main, hooks[Main], session.epoch) /\ hooks[Main].stage = "fold" /\ hooks[Main] # NoHook
    BY <1>10 DEF Shaped, Fold, NoHook
  <2> DEFINE lines == UnitOf(Main).lines
             shown == {lines[i].call : i \in {i \in DOMAIN lines : IsTool(lines[i])}}
             seen == [hooks[Main].truth EXCEPT !.foreign = @ \cup truth.foreign, !.writers = @ \ shown]
  <2>2. PICK resolution :
          HookBecomes(Main, Over([resolution |-> resolution, final |-> tree, truth |-> seen,
                                  stage |-> "deliver"], hooks[Main]))
    BY <1>10 DEF Fold, HookBecomes
  <2>3. seen.serial = hooks[Main].truth.serial
    BY <2>1 DEF HookShape, NoHook
  <2> HIDE DEF seen
  <2> DEFINE h == Over([resolution |-> resolution, final |-> tree, truth |-> seen, stage |-> "deliver"],
                       hooks[Main])
  <2>4. h.stage = "deliver" /\ h.ordinal = hooks[Main].ordinal /\ h.truth = seen
    BY <2>1 DEF Over, HookShape, NoHook
  <2>5. HookBecomes(Main, h)
    BY <2>2
  <2> HIDE DEF h
  <2>6. hooks'[Main] = h
    BY <2>5, OneHook
  <2>7. UNCHANGED <<session, handoffs, truth>>
    BY <1>10 DEF Fold, fileVars
  <2>8. SameCount
    BY <1>10, NothingCounts, FaultCounts DEF Fold
  <2>9. NextOrdinal <= NextOrdinal'
    BY <2>7, <2>8, NextOrdinalKept DEF SameCount
  <2> QED BY <1>0, <2>1, <2>3, <2>4, <2>6, <2>7, <2>8, <2>9, NamesKept DEF SameCount, Counts, Closed, Naming
<1>11. CASE Deliver(Main)
  <2> DEFINE h == [hooks[Main] EXCEPT !.stage = "remove"]
             new == [epoch |-> hooks[Main].epoch, ordinal |-> hooks[Main].ordinal,
                     resolution |-> hooks[Main].resolution, truth |-> hooks[Main].truth,
                     final |-> hooks[Main].final]
  <2>1. HookShape(Main, hooks[Main], session.epoch) /\ hooks[Main].stage = "deliver"
        /\ hooks[Main].ordinal \in Nat /\ hooks[Main].epoch = session.epoch /\ session.epoch # NoEpoch
    BY <1>11 DEF Shaped, Deliver, HookShape, NoHook
  <2>2. HookBecomes(Main, h) /\ UNCHANGED session
    BY <1>11 DEF Deliver, Goes, HookBecomes
  <2>3. h.stage = "remove" /\ h.ordinal = hooks[Main].ordinal
    BY <2>1 DEF HookShape, NoHook
  <2>4. SameCount
    BY <1>11, NothingCounts, FaultCounts DEF Deliver
  <2> HIDE DEF h
  <2>5. hooks'[Main] = h
    BY <2>2, OneHook
  <2>6. NextOrdinal <= NextOrdinal'
    BY <2>2, <2>4, NextOrdinalKept DEF SameCount
  <2>7. CASE handoffs' = handoffs /\ Excuse(hooks[Main].truth.serial)
    <3>1. truth'.serial = truth.serial /\ truth'.excused = truth.excused \cup {hooks[Main].truth.serial}
      BY <2>7 DEF Excuse, Shaped
    <3> QED BY <1>0, <2>1, <2>2, <2>3, <2>4, <2>5, <2>6, <2>7, <3>1, NamesKept
        DEF SameCount, Counts, Closed, Naming
  <2>8. CASE UNCHANGED truth /\ handoffs' = IF \E k \in handoffs : SameName(k, Main) THEN handoffs
                                            ELSE handoffs \cup {new}
    <3>1. \A k \in handoffs : /\ k.epoch \in 1..used.epochs /\ k.ordinal \in Nat
                              /\ k.epoch = session.epoch => k.ordinal < hooks[Main].ordinal
      BY <2>1 DEF Named, Naming
    <3>2. ~\E k \in handoffs : SameName(k, Main)
      BY <2>1, <3>1 DEF SameName
    <3>3. handoffs' = handoffs \cup {new}
      BY <2>8, <3>2
    <3>4. hooks[Main].ordinal < NextOrdinal
      BY <2>1 DEF Named, Closed
    <3>5. NextOrdinal \in Nat /\ NextOrdinal' \in Nat
      BY <1>0, <2>2, LocatedOrdinal DEF NextOrdinal, WallClock, Sessions, Counts
    <3>6. new.epoch = session.epoch /\ new.ordinal = hooks[Main].ordinal
          /\ new.truth.serial = hooks[Main].truth.serial
      BY <2>1
    <3> HIDE DEF new
    <3>7. session.epoch \in 1..used.epochs
      BY <1>0, <2>1 DEF Shaped, Sessions, Counts, NoEpoch
    <3>8. ~Naming(hooks'[Main]) /\ used'.epochs = used.epochs
      BY <2>3, <2>4, <2>5 DEF Naming, SameCount
    <3>9. ASSUME NEW k \in handoffs'
          PROVE  /\ k.epoch \in 1..used'.epochs /\ k.ordinal \in Nat
                 /\ k.epoch = session'.epoch => k.ordinal < NextOrdinal'
      <4>1. CASE k = new
        BY <2>1, <2>6, <3>4, <3>5, <3>6, <3>7, <3>8, <4>1
      <4>2. CASE k \in handoffs
        BY <2>1, <2>2, <2>6, <3>1, <3>4, <3>5, <3>8, <4>2
      <4> QED BY <3>3, <4>1, <4>2
    <3>10. hooks'[Main].ordinal < NextOrdinal'
      BY <2>1, <2>3, <2>5, <2>6, <3>4, <3>5
    <3>11. Named'
      BY <3>8, <3>9, <3>10 DEF Named, Naming, Closed
    <3>12. ASSUME NEW s \in 0..(truth'.serial - 1)
           PROVE  s \in truth'.excused \/ \E k \in handoffs' : k.truth.serial = s
      <4>1. CASE hooks[Main].truth.serial = s
        BY <3>3, <3>6, <4>1
      <4>2. CASE hooks[Main].truth.serial # s
        BY <2>8, <3>3, <3>12, <4>2 DEF Accounted
      <4> QED BY <4>1, <4>2
    <3>13. Accounted'
      BY <3>12 DEF Accounted
    <3> QED BY <3>11, <3>13
  <2> QED BY <1>11, <2>7, <2>8 DEF Deliver
<1>12. CASE RemoveUnit(Main)
  <2>1. /\ HookBecomes(Main, NoHook) /\ UNCHANGED <<session, handoffs, used, truth>> /\ ~Closing(Main)
    BY <1>12 DEF RemoveUnit, Ends, HookBecomes, Closing
  <2> QED BY <1>0, <1>3, <2>1 DEF Counts
<1>13. CASE MainDies
  <2>1. /\ HookBecomes(Main, NoHook) /\ UNCHANGED <<session, handoffs>> /\ SameCount
    BY <1>13 DEF MainDies, fileVars
  <2>2. /\ truth'.serial = truth.serial /\ truth.excused \subseteq truth'.excused
        /\ Closing(Main) => hooks[Main].truth.serial \in truth'.excused
    BY <1>13 DEF MainDies, Shaped
  <2>3. hooks'[Main] = NoHook
    BY <2>1, OneHook
  <2>4. NextOrdinal <= NextOrdinal'
    BY <2>1, NextOrdinalKept DEF SameCount
  <2> QED BY <1>0, <2>1, <2>2, <2>3, <2>4, NamesKept DEF SameCount, Counts
<1>14. CASE RemoveSession
  <2>1. /\ session'.epoch = NoEpoch /\ UNCHANGED <<handoffs, hooks>> /\ hooks[Main] = NoHook
        /\ truth'.serial = truth.serial /\ truth'.excused = truth.excused
    BY <1>14 DEF RemoveSession, FreshTruth
  <2>2. SameCount
    BY <1>14, FaultCounts DEF RemoveSession
  <2>3. NoEpoch \notin 1..used.epochs
    BY DEF NoEpoch
  <2>4. ~Closing(Main)
    BY <2>1 DEF Closing, NoHook
  <2> QED BY <1>0, <2>1, <2>2, <2>3, <2>4, NamesKept DEF SameCount, Counts
<1> QED BY <1>1, <1>2, <1>4, <1>5, <1>6, <1>7, <1>8, <1>9, <1>10, <1>11, <1>12, <1>13, <1>14
        DEF StepOf

----------------------------------------------------------------------------
\* What every reachable state of the session's files and hooks is like.
Sound == Shaped /\ Bounded /\ Named /\ Accounted

\* Every step of the system is one of StepOf and keeps the files sound.
LEMMA SoundStep ==
  ASSUME Sound, [Next]_vars, MaxStops < 100
  PROVE  Sound' /\ StepOf
<1>1. StepOf
  BY Steps DEF Sound
<1>2. Shaped'
  BY <1>1, ShapedStep DEF Sound
<1>3. Bounded'
  BY <1>1, <1>2, BoundedStep DEF Sound
<1>4. Named' /\ Accounted'
  BY <1>1, <1>2, <1>3, NamedStep DEF Sound
<1> QED BY <1>1, <1>2, <1>3, <1>4 DEF Sound

\* While fewer stops happen than the clock is ahead of any ordinal, every closed
\* unit is handed over once, or a failure of its own hand-over excuses it
\* (unit-state.ts:92-96 and 121, close-unit.ts:286-292).
THEOREM EveryClosedUnitIsDelivered ==
  ASSUME MaxStops < 100
  PROVE  Spec => []ClosedUnitsDelivered
<1>1. Init => Sound
  BY ShapedInit, BoundedInit, NamedInit DEF Sound
<1>2. Sound /\ [Next]_vars => Sound'
  BY SoundStep
<1>3. Sound => ClosedUnitsDelivered
  <2>1. Sound => Main \in DOMAIN hooks
    BY MainIsNoCall DEF Sound, Shaped
  <2> QED BY <2>1 DEF Sound, Accounted, ClosedUnitsDelivered
<1> QED BY <1>1, <1>2, <1>3, PTL DEF Spec

----------------------------------------------------------------------------
(* The prompts of a unit's lines. *)

\* The prompts of a list of lines are a list of its members.
LEMMA PromptsShaped ==
  ASSUME NEW lines, IsList(lines)
  PROVE  /\ IsList(PromptsOf(lines))
         /\ Len(PromptsOf(lines)) \in Nat /\ DOMAIN PromptsOf(lines) = 1..Len(PromptsOf(lines))
         /\ Members(PromptsOf(lines)) = {l \in Members(lines) : l.event = "prompt"}
<1> DEFINE wanted == {l \in ToSet(lines) : l.event = "prompt"}
<1>1. ToSet(lines) = Members(lines)
  BY DEF ToSet, Members
<1>2. PromptsOf(lines) = Kept(lines, wanted)
  BY DEF PromptsOf
<1>3. IsList(Kept(lines, wanted)) /\ Members(Kept(lines, wanted)) = Members(lines) \cap wanted
  BY KeptMembers
<1>4. IsList(PromptsOf(lines)) /\ Members(PromptsOf(lines)) = {l \in Members(lines) : l.event = "prompt"}
  BY <1>1, <1>2, <1>3
<1>5. PromptsOf(lines) \in Seq(Members(PromptsOf(lines)))
  BY <1>4 DEF IsList
<1> HIDE DEF wanted
<1> QED BY <1>4, <1>5, ListOfSeq

\* No lines, no prompts.
LEMMA NoPrompts == PromptIds(<<>>) = <<>> /\ Members(PromptIds(<<>>)) = {}
<1>1. PromptsOf(<<>>) = <<>>
  BY KeptOfNothing DEF PromptsOf
<1>2. PromptIds(<<>>) = [i \in {} |-> <<>>[i].id]
  BY <1>1, EmptyList DEF PromptIds
<1>3. DOMAIN PromptIds(<<>>) = {}
  BY <1>2
<1>4. PromptIds(<<>>) = <<>>
  BY <1>2
<1> QED BY <1>3, <1>4 DEF Members

\* The ids are a list as long as that of the prompts.
LEMMA IdsShaped ==
  ASSUME NEW lines, IsList(lines)
  PROVE  IsList(PromptIds(lines)) /\ Len(PromptIds(lines)) = Len(PromptsOf(lines))
<1> DEFINE P == PromptsOf(lines)
<1>1. Len(P) \in Nat /\ DOMAIN P = 1..Len(P)
  BY PromptsShaped
<1>2. PromptIds(lines) = [i \in 1..Len(P) |-> P[i].id]
  BY <1>1 DEF PromptIds
<1> HIDE DEF P
<1>3. PromptIds(lines) \in [1..Len(P) -> Members(PromptIds(lines))]
  BY <1>2 DEF Members
<1>4. PromptIds(lines) \in Seq(Members(PromptIds(lines)))
  BY <1>1, <1>3, SeqDef
<1>5. Len(PromptIds(lines)) = Len(P)
  BY <1>1, <1>3, <1>4, LenProperties
<1> QED BY <1>4, <1>5 DEF IsList, P

\* A line more adds its prompt, and nothing if it is no prompt.
LEMMA PromptAppended ==
  ASSUME NEW lines, IsList(lines), NEW line
  PROVE  PromptIds(Append(lines, line)) =
           IF line.event = "prompt" THEN Append(PromptIds(lines), line.id) ELSE PromptIds(lines)
<1> DEFINE longer == Append(lines, line)
           wanted == {l \in ToSet(longer) : l.event = "prompt"}
           before == {l \in ToSet(lines) : l.event = "prompt"}
<1>1. ToSet(lines) = Members(lines) /\ ToSet(longer) = Members(longer)
      /\ Members(longer) = Members(lines) \cup {line}
  BY AppendList DEF ToSet, Members
<1>2. Members(lines) \cap wanted = Members(lines) \cap before /\ (line \in wanted <=> line.event = "prompt")
  BY <1>1
<1>3. PromptsOf(longer) = Kept(longer, wanted) /\ PromptsOf(lines) = Kept(lines, before)
  BY DEF PromptsOf
<1> HIDE DEF wanted, before
<1>4. Kept(lines, wanted) = Kept(lines, before)
  BY <1>2, KeptSame
<1>5. Kept(longer, wanted) = IF line \in wanted THEN Append(Kept(lines, wanted), line) ELSE Kept(lines, wanted)
  BY KeptAppend
<1> HIDE DEF longer
<1>6. CASE line.event # "prompt"
  <2>1. PromptsOf(longer) = PromptsOf(lines)
    BY <1>2, <1>3, <1>4, <1>5, <1>6
  <2>2. PromptIds(longer) = PromptIds(lines)
    BY <2>1 DEF PromptIds
  <2> QED BY <1>6, <2>2 DEF longer
<1>7. CASE line.event = "prompt"
  <2> DEFINE P == PromptsOf(lines)
             Q == PromptsOf(longer)
             ids == PromptIds(lines)
             more == PromptIds(longer)
  <2>1. Q = Append(P, line)
    BY <1>2, <1>3, <1>4, <1>5, <1>7
  <2>2. IsList(P) /\ IsList(ids) /\ Len(ids) = Len(P) /\ IsList(longer)
    BY PromptsShaped, IdsShaped, AppendList DEF longer
  <2>3. IsList(more) /\ Len(more) = Len(Q)
    BY <2>2, IdsShaped
  <2>4. /\ Len(P) \in Nat /\ Len(Q) = Len(P) + 1 /\ DOMAIN P = 1..Len(P) /\ DOMAIN Q = 1..(Len(P) + 1)
        /\ (\A i \in 1..Len(P) : Q[i] = P[i]) /\ Q[Len(P) + 1] = line
    BY <2>1, <2>2, AppendList
  <2>5. /\ \A i \in DOMAIN P : ids[i] = P[i].id
        /\ \A i \in DOMAIN Q : more[i] = Q[i].id
    BY DEF PromptIds
  <2> DEFINE added == Append(ids, line.id)
  <2> HIDE DEF P, Q, ids, more
  <2>6. /\ IsList(added) /\ Len(added) = Len(P) + 1
        /\ (\A i \in 1..Len(P) : added[i] = ids[i]) /\ added[Len(P) + 1] = line.id
        /\ Members(added) = Members(ids) \cup {line.id}
    BY <2>2, AppendList
  <2> HIDE DEF added
  <2>7. Len(added) = Len(more) /\ \A i \in 1..Len(added) : added[i] = more[i]
    <3>1. \A i \in 1..(Len(P) + 1) : i \in 1..Len(P) \/ i = Len(P) + 1
      BY <2>4
    <3> QED BY <2>3, <2>4, <2>5, <2>6, <3>1
  <2>8. DOMAIN added = 1..Len(added) /\ DOMAIN more = 1..Len(more)
    <3>1. added \in Seq(Members(added)) /\ more \in Seq(Members(more))
      BY <2>3, <2>6 DEF IsList
    <3> QED BY <3>1, ListOfSeq
  <2>9. Members(more) \subseteq Members(added)
    BY <2>7, <2>8 DEF Members
  <2>10. added \in Seq(Members(added)) /\ more \in Seq(Members(added))
    <3>1. added \in Seq(Members(added)) /\ more \in Seq(Members(more))
      BY <2>3, <2>6 DEF IsList
    <3> QED BY <2>9, <3>1, SeqMonotonic
  <2>11. added = more
    BY <2>7, <2>10, SeqEqual
  <2> QED BY <1>7, <2>11 DEF added, more, ids, longer
<1> QED BY <1>6, <1>7

\* A unit that resolves to a turn has no taint, and its task is its prompts.
LEMMA TurnOfPrompts ==
  ASSUME NEW lines, IsList(lines), NEW pre, NEW final, ResolveUnit(lines, pre, final).status = "TURN"
  PROVE  /\ \A i \in DOMAIN lines : lines[i].event # "taint"
         /\ ResolveUnit(lines, pre, final).prompts = PromptIds(lines)
<1> DEFINE events == Kept(lines, {l \in ToSet(lines) : l.event # "taint"})
<1>1. CaptureFailed.status # "TURN" /\ Skipped.status # "TURN"
      /\ \A reasons : Unavailable(reasons).status # "TURN"
  BY DEF CaptureFailed, Unavailable, Skipped
<1>2. \E images, problem : /\ ResolveUnit(lines, pre, final) = AcquireUnit(events, images, problem, final)
                           /\ (\E i \in DOMAIN lines : lines[i].event = "taint") => problem
  <2> DEFINE closings == {i \in DOMAIN events : IsClosing(events[i])}
             readable == \A p \in DOMAIN pre : pre[p] # "claimed"
             images == [p \in {p \in DOMAIN pre : readable /\ pre[p] # "problem"} |-> pre[p]]
             problem == \/ ~readable
                        \/ \E p \in DOMAIN pre : pre[p] = "problem"
                        \/ \E i \in DOMAIN lines :
                             lines[i].event = "taint" \/ (IsTool(lines[i]) /\ lines[i].capture.problem)
  <2>1. ResolveUnit(lines, pre, final) =
          IF closings = {Len(events)} THEN AcquireUnit(events, images, problem, final) ELSE CaptureFailed
    BY DEF ResolveUnit
  <2>2. (\E i \in DOMAIN lines : lines[i].event = "taint") => problem
    OBVIOUS
  <2> HIDE DEF events, closings, readable, images, problem
  <2>3. ResolveUnit(lines, pre, final) = AcquireUnit(events, images, problem, final)
    BY <1>1, <2>1
  <2> QED BY <2>2, <2>3
<1>3. PICK images, problem : /\ ResolveUnit(lines, pre, final) = AcquireUnit(events, images, problem, final)
                             /\ (\E i \in DOMAIN lines : lines[i].event = "taint") => problem
  BY <1>2
<1> DEFINE at == Attribute(events, images)
           reasons == at.reasons \cup PromptReasons(events) \cup ClosingReasons(events[Len(events)])
                        \cup (IF problem THEN {"CAPTURE_FAILED"} ELSE {})
<1>4. AcquireUnit(events, images, problem, final) =
        CASE reasons # {} -> Unavailable(reasons)
          [] reasons = {} /\ at.universe = {} -> Skipped
          [] reasons = {} /\ at.universe # {} /\ FileReasons(at, final) # {} ->
               Unavailable(FileReasons(at, final))
          [] OTHER -> Turn(at, final, events)
  BY DEF AcquireUnit
<1>5. problem => reasons # {}
  OBVIOUS
<1> HIDE DEF at, reasons, events
<1>6. reasons = {} /\ ResolveUnit(lines, pre, final) = Turn(at, final, events)
  BY <1>1, <1>3, <1>4
<1>7. ~problem
  BY <1>5, <1>6
<1>8. \A i \in DOMAIN lines : lines[i].event # "taint"
  BY <1>3, <1>7
<1>9. events = lines
  <2>1. Members(lines) = ToSet(lines) /\ Members(lines) \subseteq {l \in ToSet(lines) : l.event # "taint"}
    BY <1>8 DEF ToSet, Members
  <2> QED BY <2>1, KeptAll DEF events
<1>10. Turn(at, final, lines).status = "TURN"
  BY <1>6, <1>9
<1>11. Turn(at, final, lines).prompts = PromptIds(lines)
  <2> DEFINE files == {p \in at.universe : at.before[p] # final[p]}
             whole == [status |-> "TURN",
                       prompts |-> PromptIds(lines),
                       files |-> [p \in files |-> [before |-> at.before[p], after |-> final[p]]]]
  <2>1. Turn(at, final, lines) = IF files = {} THEN Skipped ELSE whole
    BY DEF Turn, PromptIds
  <2>2. whole.prompts = PromptIds(lines)
    OBVIOUS
  <2> HIDE DEF files, whole
  <2> QED BY <1>1, <1>10, <2>1, <2>2
<1> QED BY <1>6, <1>8, <1>9, <1>11

----------------------------------------------------------------------------
(* The task of a unit. *)

\* The lines of a unit, by its ordinal.
LEMMA LinesOfUnits ==
  ASSUME Shaped
  PROVE  \A o : Lines(units, o) = UnitAt(o).lines /\ IsList(Lines(units, o))
BY EmptyList DEF Shaped, UnitShape, Lines, UnitAt, NoUnit

\* The lines after a directory was written.
LEMMA LinesPut ==
  ASSUME NEW o, NEW unit, Put(o, unit)
  PROVE  \A p : Lines(units', p) = IF p = o THEN unit.lines ELSE Lines(units, p)
BY DEF Put, With, Lines

\* A line more in a directory: its prompts, and whether it is tainted.
LEMMA LinesAppended ==
  ASSUME Shaped, NEW o, NEW unit, NEW line, Put(o, unit), unit.lines = Append(Lines(units, o), line)
  PROVE  /\ \A p : p # o => Ids(units', p) = Ids(units, p) /\ (Tainted(units', p) <=> Tainted(units, p))
         /\ Ids(units', o) = IF line.event = "prompt" THEN Append(Ids(units, o), line.id) ELSE Ids(units, o)
         /\ Tainted(units', o) <=> Tainted(units, o) \/ line.event = "taint"
<1>1. \A p : Lines(units', p) = IF p = o THEN unit.lines ELSE Lines(units, p)
  BY LinesPut
<1>2. \A p : p # o => Ids(units', p) = Ids(units, p) /\ (Tainted(units', p) <=> Tainted(units, p))
  BY <1>1 DEF Ids, Tainted
<1> DEFINE lines == Lines(units, o)
           longer == Append(lines, line)
<1>3. IsList(lines)
  BY LinesOfUnits
<1>4. Lines(units', o) = longer
  BY <1>1
<1>5. PromptIds(longer) = IF line.event = "prompt" THEN Append(PromptIds(lines), line.id)
                          ELSE PromptIds(lines)
  BY <1>3, PromptAppended
<1>6. Ids(units', o) = IF line.event = "prompt" THEN Append(Ids(units, o), line.id) ELSE Ids(units, o)
  BY <1>4, <1>5 DEF Ids
<1>7. /\ Len(lines) \in Nat /\ DOMAIN lines = 1..Len(lines) /\ DOMAIN longer = 1..(Len(lines) + 1)
      /\ \A i \in 1..Len(lines) : longer[i] = lines[i]
      /\ longer[Len(lines) + 1] = line
  BY <1>3, AppendList
<1> HIDE DEF longer, lines
<1>8. (\E i \in DOMAIN longer : longer[i].event = "taint")
        <=> (\E i \in DOMAIN lines : lines[i].event = "taint") \/ line.event = "taint"
  <2>1. \A i \in 1..(Len(lines) + 1) : i \in 1..Len(lines) \/ i = Len(lines) + 1
    BY <1>7
  <2>2. Len(lines) + 1 \in 1..(Len(lines) + 1) /\ \A i \in 1..Len(lines) : i \in 1..(Len(lines) + 1)
    BY <1>7
  <2> QED BY <1>7, <2>1, <2>2
<1>9. Tainted(units', o) <=> Tainted(units, o) \/ line.event = "taint"
  BY <1>4, <1>8 DEF Tainted, lines
<1> QED BY <1>2, <1>6, <1>9

\* Writing a directory with the same lines changes no prompts and no taint.
LEMMA LinesSame ==
  ASSUME Shaped, NEW o, NEW unit, Put(o, unit), unit.lines = Lines(units, o)
  PROVE  \A p : Ids(units', p) = Ids(units, p) /\ (Tainted(units', p) <=> Tainted(units, p))
<1>1. \A p : Lines(units', p) = Lines(units, p)
  BY LinesPut
<1> QED BY <1>1 DEF Ids, Tainted

\* Locating the open unit adds no prompt, and leaves a taint when the marker was
\* damaged or tainted.
LEMMA LinesLocated ==
  ASSUME Shaped, NEW unit, Put(CurrentOrdinal, unit),
         unit = LocatedUnit \/ unit = Appended(LocatedUnit, Taint)
  PROVE  /\ \A p : /\ Ids(units', p) = Ids(units, p) /\ (Tainted(units, p) => Tainted(units', p))
                   /\ p # CurrentOrdinal => (Tainted(units', p) <=> Tainted(units, p))
         /\ session.damaged \/ session.tainted \/ unit # LocatedUnit => Tainted(units', CurrentOrdinal)
<1> DEFINE o == CurrentOrdinal
           lines == Lines(units, o)
<1>1. UnitShape(UnitAt(o)) /\ IsList(lines) /\ UnitAt(o).lines = lines
  BY UnitsShaped, LinesOfUnits
<1>2. LocatedUnit.lines = IF session.damaged \/ session.tainted THEN Append(lines, Taint) ELSE lines
  BY <1>1, LineAppended DEF LocatedUnit
<1>3. UnitShape(LocatedUnit) /\ Taint.event = "taint"
  BY LocatedUnitShaped DEF Taint
<1>4. Appended(LocatedUnit, Taint).lines = Append(LocatedUnit.lines, Taint)
  BY <1>3, LineAppended
<1> DEFINE Marked(l) == \E i \in DOMAIN l : l[i].event = "taint"
           more(l) == Append(l, Taint)
<1>5. \A l : IsList(l) => PromptIds(more(l)) = PromptIds(l) /\ Marked(more(l)) /\ IsList(more(l))
  <2>1. ASSUME NEW l, IsList(l)
        PROVE  PromptIds(more(l)) = PromptIds(l) /\ Marked(more(l)) /\ IsList(more(l))
    <3>1. PromptIds(Append(l, Taint)) = PromptIds(l)
      BY <1>3, <2>1, PromptAppended
    <3>2. Len(l) + 1 \in DOMAIN Append(l, Taint) /\ Append(l, Taint)[Len(l) + 1] = Taint
          /\ IsList(Append(l, Taint))
      BY <2>1, AppendList
    <3> QED BY <1>3, <3>1, <3>2
  <2> QED BY <2>1
<1> DEFINE taints == session.damaged \/ session.tainted \/ unit # LocatedUnit
<1>6. /\ PromptIds(unit.lines) = PromptIds(lines)
      /\ taints => Marked(unit.lines)
      /\ ~taints => unit.lines = lines
  <2>1. IsList(LocatedUnit.lines)
    BY <1>3 DEF UnitShape
  <2>2. LocatedUnit.lines = IF session.damaged \/ session.tainted THEN more(lines) ELSE lines
    BY <1>2
  <2>3. unit # LocatedUnit => unit.lines = more(LocatedUnit.lines)
    BY <1>4
  <2> HIDE DEF Marked, more, lines
  <2> QED BY <1>1, <1>5, <2>1, <2>2, <2>3
<1>7. \A p : Lines(units', p) = IF p = o THEN unit.lines ELSE Lines(units, p)
  BY LinesPut
<1>8. \A p : p # o => Ids(units', p) = Ids(units, p) /\ (Tainted(units', p) <=> Tainted(units, p))
  BY <1>7 DEF Ids, Tainted
<1>9. Ids(units', o) = Ids(units, o) /\ (Tainted(units, o) => Tainted(units', o))
      /\ (taints => Tainted(units', o))
  BY <1>6, <1>7 DEF Ids, Tainted
<1> HIDE DEF o
<1> QED BY <1>8, <1>9 DEF o

\* A step of another process keeps it: lines are the same but for taints, and
\* the marker names the same unit or one that is tainted and past the others.
LEMMA ToldKept ==
  ASSUME NEW s, NEW t, NEW h, NEW g, NEW prompts, NEW us, NEW vs, NEW sent \in Nat,
         Told(s, h, prompts, us, sent),
         g = h \/ (g = NoHook /\ (t.tainted \/ t.damaged \/ Tainted(vs, t.current))),
         \A o : Ids(vs, o) = Ids(us, o) /\ (Tainted(us, o) => Tainted(vs, o)),
         ~t.damaged => \/ /\ ~s.damaged /\ t.current = s.current
                          /\ t.tainted \/ ~s.tainted \/ Tainted(vs, t.current)
                       \/ /\ Tainted(vs, t.current)
                          /\ \A o \in Nat : t.current < o => Silent(us, o)
                          /\ Held(h) => h.ordinal <= t.current
  PROVE  Told(t, g, prompts, vs, sent)
<1>1. \A o : Silent(us, o) => Silent(vs, o)
  BY DEF Silent
<1>2. ~AtPrompt(NoHook) /\ ~AtClose(NoHook) /\ NoHook.stage = "none"
  BY DEF AtPrompt, AtClose, NoHook
<1>3. TaskOfCurrent(t, g, prompts, vs)
  BY <1>2 DEF Told, TaskOfCurrent
<1>4. TaskOfClosed(g, prompts, vs)
  BY <1>2 DEF Told, TaskOfClosed
<1>5. SilentAhead(t, g, vs)
  BY <1>1, <1>2 DEF Told, SilentAhead
<1>6. IdsSent(g, vs, sent)
  <2>1. IdsSent(h, us, sent)
    BY DEF Told
  <2>2. CASE g = h
    BY <2>1, <2>2 DEF IdsSent
  <2>3. CASE g = NoHook
    <3>1. \A o \in Nat : Members(Ids(vs, o)) \subseteq 1..sent
      BY <2>1 DEF IdsSent
    <3> QED BY <1>2, <2>3, <3>1 DEF IdsSent
  <2> QED BY <2>2, <2>3
<1> QED BY <1>3, <1>4, <1>5, <1>6 DEF Told

\* Past the unit a hook locates no directory has a prompt of a later unit.
LEMMA SilentPast ==
  ASSUME Sound, TruthTold
  PROVE  \A o \in Nat : CurrentOrdinal < o => Silent(units, o)
<1> SUFFICES ASSUME NEW o \in Nat, CurrentOrdinal < o PROVE Silent(units, o)
  OBVIOUS
<1>1. CurrentOrdinal = NextOrdinal
  BY LocatedOrdinal DEF Sound
<1>2. CASE session.damaged
  <2>1. \A p \in DOMAIN units : p <= WallClock - 1 /\ p \in Nat
    BY <1>2 DEF Sound, Bounded, Ceiling, Shaped
  <2>2. WallClock < o /\ WallClock \in Nat
    BY <1>1, <1>2, OrdinalIsNat DEF NextOrdinal, Sound
  <2>3. o \notin DOMAIN units
    BY <2>1, <2>2
  <2>4. Lines(units, o) = <<>>
    BY <2>3 DEF Lines
  <2> QED BY <2>4, NoPrompts DEF Silent, Ids
<1>3. CASE ~session.damaged
  BY <1>1, <1>3 DEF NextOrdinal, TruthTold, Told, SilentAhead
<1> QED BY <1>2, <1>3

\* At first no prompt was sent.
LEMMA TruthInit == Init => TruthTold
<1> SUFFICES ASSUME Init PROVE TruthTold
  OBVIOUS
<1>1. /\ hooks[Main] = NoHook /\ truth.prompts = <<>> /\ DOMAIN units = {} /\ used.prompts = 0
  BY MainIsNoCall DEF Init, FreshTruth
<1>2. ~AtPrompt(NoHook) /\ ~AtClose(NoHook) /\ NoHook.stage = "none"
  BY DEF AtPrompt, AtClose, NoHook
<1>3. \A o : Ids(units, o) = <<>> /\ Members(Ids(units, o)) = {}
  BY <1>1, NoPrompts DEF Ids, Lines
<1> QED BY <1>1, <1>2, <1>3 DEF TruthTold, Told, TaskOfCurrent, TaskOfClosed, SilentAhead, IdsSent, Silent

\* The steps that add no prompt line and leave the main agent's hook alone, or end it.
LEMMA TruthQuiet ==
  ASSUME Sound, Sound', TruthTold, truth'.prompts = truth.prompts, used'.prompts = used.prompts,
         \/ hooks'[Main] = hooks[Main]
         \/ /\ hooks'[Main] = NoHook
            /\ session'.tainted \/ session'.damaged \/ Tainted(units', session'.current),
         \A o : Ids(units', o) = Ids(units, o) /\ (Tainted(units, o) => Tainted(units', o)),
         ~session'.damaged => \/ /\ ~session.damaged /\ session'.current = session.current
                                 /\ \/ session'.tainted \/ ~session.tainted
                                    \/ Tainted(units', session'.current)
                              \/ /\ session.damaged /\ session'.current = CurrentOrdinal
                                 /\ Tainted(units', session'.current)
  PROVE  TruthTold'
<1>1. used.prompts \in Nat
  BY DEF Sound, Shaped, Counts
<1>2. \A o \in Nat : CurrentOrdinal < o => Silent(units, o)
  BY SilentPast
<1>3. session.damaged /\ Held(hooks[Main]) => hooks[Main].ordinal <= CurrentOrdinal
  <2>1. HAVE session.damaged /\ Held(hooks[Main])
  <2>2. hooks[Main].ordinal <= Ceiling /\ hooks[Main].ordinal \in Nat /\ Ceiling = WallClock - 1
    BY <2>1, MainIsNoCall, HookWithUnit DEF Sound, Bounded, Ceiling
  <2>3. CurrentOrdinal = WallClock /\ WallClock \in Nat
    BY <2>1, LocatedOrdinal, OrdinalIsNat DEF Sound, NextOrdinal
  <2> QED BY <2>2, <2>3
<1>4. Told(session, hooks[Main], truth.prompts, units, used.prompts)
  BY DEF TruthTold
<1>5. Told(session', hooks'[Main], truth.prompts, units', used.prompts)
  BY <1>1, <1>2, <1>3, <1>4, ToldKept
<1> QED BY <1>5 DEF TruthTold

\* A line of a tool call is neither a prompt nor a taint.
LEMMA CallLines ==
  ASSUME Sound, NEW c \in Calls, NEW h, NEW unit, CallMoves(c, h, unit)
  PROVE  \A o : Ids(units', o) = Ids(units, o) /\ (Tainted(units, o) => Tainted(units', o))
<1>1. CASE UNCHANGED units
  BY <1>1
<1>2. CASE /\ Put(hooks[c].ordinal, unit)
           /\ \/ unit.lines = UnitOf(c).lines
              \/ IsTool(hooks[c].event) /\ unit.lines = Append(UnitOf(c).lines, hooks[c].event)
  <2>1. UnitOf(c).lines = Lines(units, hooks[c].ordinal)
    BY LinesOfUnits DEF UnitOf, Sound
  <2>2. CASE unit.lines = UnitOf(c).lines
    BY <1>2, <2>1, <2>2, LinesSame DEF Sound
  <2>3. CASE IsTool(hooks[c].event) /\ unit.lines = Append(UnitOf(c).lines, hooks[c].event)
    <3>1. hooks[c].event.event # "prompt"
      BY <2>3 DEF IsTool
    <3>2. PICK o : o = hooks[c].ordinal
      OBVIOUS
    <3>3. unit.lines = Append(Lines(units, o), hooks[c].event) /\ Put(o, unit)
      BY <1>2, <2>1, <2>3, <3>2
    <3> QED BY <3>1, <3>3, LinesAppended DEF Sound
  <2> QED BY <1>2, <2>2, <2>3
<1> QED BY <1>1, <1>2 DEF CallMoves

\* Steps that send, write and close nothing of the main agent's.
LEMMA TruthStepOthers ==
  ASSUME Sound, Sound', TruthTold,
         \/ HostStep \/ (\E c \in Calls : \E h, unit : CallMoves(c, h, unit))
         \/ (\E c \in Calls : OpenUnit(c)) \/ (\E a \in Actors : FailsOpen(a) \/ FailsLeaving(a))
         \/ DamageMarker
  PROVE  TruthTold'
<1> USE MainIsNoCall
<1>0. Shaped /\ session \in Sessions /\ used \in Counts
  BY DEF Sound, Shaped
<1>1. CASE HostStep \/ DamageMarker
  <2>1. UNCHANGED <<units, hooks>> /\ truth'.prompts = truth.prompts
    BY <1>1 DEF HostStep, DamageMarker, fileVars, SameTruth
  <2>2. used'.prompts = used.prompts
    BY <1>0, <1>1, FaultCounts DEF HostStep, DamageMarker, SameCount
  <2>3. session' = session \/ session'.damaged
    BY <1>0, <1>1 DEF HostStep, DamageMarker, fileVars, Sessions
  <2> QED BY <2>1, <2>2, <2>3, TruthQuiet
<1>2. ASSUME NEW c \in Calls, NEW h, NEW unit, CallMoves(c, h, unit) PROVE TruthTold'
  <2>1. hooks'[Main] = hooks[Main]
    BY <1>0, <1>2, OneHook DEF CallMoves
  <2>2. session' = session /\ truth'.prompts = truth.prompts /\ used'.prompts = used.prompts
    BY <1>2 DEF CallMoves, SameTruth, SameCount
  <2> QED BY <1>2, <2>1, <2>2, CallLines, TruthQuiet
<1>3. ASSUME NEW c \in Calls, OpenUnit(c) PROVE TruthTold'
  <2>1. /\ Located(used) /\ Put(CurrentOrdinal, LocatedUnit) /\ UNCHANGED truth
        /\ \E h : HookBecomes(c, h)
    BY <1>3 DEF OpenUnit, HookBecomes
  <2>2. hooks'[Main] = hooks[Main]
    BY <1>0, <2>1, OneHook
  <2>3. /\ ~session'.damaged /\ ~session'.tainted /\ session'.current = CurrentOrdinal
        /\ used'.prompts = used.prompts
    BY <1>0, <2>1, Locating DEF Sound
  <2>4. /\ \A o : Ids(units', o) = Ids(units, o) /\ (Tainted(units, o) => Tainted(units', o))
        /\ session.damaged \/ session.tainted => Tainted(units', CurrentOrdinal)
    BY <1>0, <2>1, LinesLocated
  <2>5. ~session.damaged => CurrentOrdinal = session.current
    BY DEF CurrentOrdinal
  <2> QED BY <2>1, <2>2, <2>3, <2>4, <2>5, TruthQuiet
<1>4. ASSUME NEW a \in Actors, FailsOpen(a) PROVE TruthTold'
  <2> DEFINE count == [used EXCEPT !.faults = @ + 1]
             unit == Appended(LocatedUnit, Taint)
  <2>1. /\ Located(count) /\ Put(CurrentOrdinal, unit) /\ HookBecomes(a, NoHook)
        /\ truth'.prompts = truth.prompts
    BY <1>4 DEF FailsOpen, SameTruth
  <2>2. count \in Counts /\ count.epochs = used.epochs /\ count.stops = used.stops
        /\ count.prompts = used.prompts
    BY <1>0 DEF Counts
  <2> HIDE DEF count
  <2>3. /\ ~session'.damaged /\ ~session'.tainted /\ session'.current = CurrentOrdinal
        /\ used'.prompts = used.prompts
    BY <1>0, <2>1, <2>2, Locating DEF Sound
  <2>4. /\ \A o : Ids(units', o) = Ids(units, o) /\ (Tainted(units, o) => Tainted(units', o))
        /\ unit # LocatedUnit => Tainted(units', CurrentOrdinal)
    BY <1>0, <2>1, LinesLocated
  <2>5. unit # LocatedUnit
    <3>1. UnitShape(LocatedUnit)
      BY <1>0, LocatedUnitShaped
    <3>2. unit.lines = Append(LocatedUnit.lines, Taint)
      BY <3>1, LineAppended
    <3>3. Len(unit.lines) = Len(LocatedUnit.lines) + 1 /\ Len(LocatedUnit.lines) \in Nat
      BY <3>1, <3>2, AppendList DEF UnitShape
    <3> QED BY <3>3
  <2>6. hooks'[Main] = hooks[Main] \/ hooks'[Main] = NoHook
    BY <1>0, <2>1, OneHook
  <2>7. ~session.damaged => CurrentOrdinal = session.current
    BY DEF CurrentOrdinal
  <2> HIDE DEF unit
  <2> QED BY <2>1, <2>3, <2>4, <2>5, <2>6, <2>7, TruthQuiet
<1>5. ASSUME NEW a \in Actors, FailsLeaving(a) PROVE TruthTold'
  <2>1. /\ session'.tainted /\ session'.current = session.current /\ session'.damaged = session.damaged
        /\ HookBecomes(a, NoHook) /\ UNCHANGED units
        /\ truth'.prompts = truth.prompts /\ used'.prompts = used.prompts
    BY <1>0, <1>5 DEF FailsLeaving, SameTruth, SameCount, Sessions
  <2>2. hooks'[Main] = hooks[Main] \/ hooks'[Main] = NoHook
    BY <1>0, <2>1, OneHook
  <2> QED BY <2>1, <2>2, TruthQuiet
<1> QED BY <1>1, <1>2, <1>3, <1>4, <1>5

\* The steps of the main agent's own hook, each by what it leaves behind.
LEMMA TruthStepStarts ==
  ASSUME Sound, Sound', TruthTold,
         (\E text \in PromptTexts : Prompt(text)) \/ (\E line \in StopLines : Stop(line))
  PROVE  TruthTold'
<1> USE MainIsNoCall
<1>0. /\ Shaped /\ used \in Counts /\ used.prompts \in Nat
      /\ ~AtPrompt(NoHook) /\ ~AtClose(NoHook) /\ NoHook.stage = "none"
  BY DEF Sound, Shaped, Counts, AtPrompt, AtClose, NoHook
<1>1. ASSUME NEW text \in PromptTexts, Prompt(text) PROVE TruthTold'
  <2> DEFINE event == [event |-> "prompt", id |-> used.prompts + 1, text |-> text]
             h == [stage |-> "open", event |-> event]
  <2>1. hooks[Main] = NoHook /\ HookBecomes(Main, h) /\ UNCHANGED <<session, units>>
    BY <1>1 DEF Prompt, Start, HookBecomes, fileVars
  <2>2. AtPrompt(h) /\ ~AtClose(h) /\ h.stage = "open" /\ ~Held(h) /\ h.event.id = used.prompts + 1
    BY DEF AtPrompt, AtClose, Held
  <2> HIDE DEF h
  <2>3. hooks'[Main] = h
    BY <1>0, <2>1, OneHook
  <2>4. used'.prompts = used.prompts + 1
    BY <1>0, <1>1 DEF Prompt, Counts
  <2>5. truth'.prompts = Append(truth.prompts, used.prompts + 1)
    <3> DEFINE more == Append(truth.prompts, used.prompts + 1)
    <3>1. truth' = [truth EXCEPT !.prompts = more] /\ "prompts" \in DOMAIN truth
      BY <1>0, <1>1 DEF Prompt, Shaped
    <3> HIDE DEF more
    <3>2. truth'.prompts = more
      BY <3>1
    <3> QED BY <3>2 DEF more
  <2>6. Told(session, NoHook, truth.prompts, units, used.prompts)
    BY <2>1 DEF TruthTold
  <2>7. TaskOfCurrent(session, h, truth'.prompts, units)
    <3>1. ASSUME ~session.damaged /\ ~session.tainted /\ ~Tainted(units, session.current)
          PROVE  truth.prompts = Ids(units, session.current)
      BY <1>0, <2>6, <3>1 DEF Told, TaskOfCurrent
    <3>2. ASSUME ~session.damaged /\ ~session.tainted /\ ~Tainted(units, session.current)
          PROVE  truth'.prompts = Append(Ids(units, session.current), h.event.id)
      BY <2>2, <2>5, <3>1, <3>2
    <3> QED BY <2>2, <3>2 DEF TaskOfCurrent
  <2>8. TaskOfClosed(h, truth'.prompts, units) /\ SilentAhead(session, h, units)
    BY <2>2, <2>6 DEF Told, TaskOfClosed, SilentAhead
  <2>9. IdsSent(h, units, used.prompts + 1)
    <3>1. \A o \in Nat : Members(Ids(units, o)) \subseteq 1..used.prompts
      BY <1>0, <2>6 DEF Told, IdsSent
    <3>2. used.prompts + 1 > 0 /\ (used.prompts + 1) - 1 = used.prompts
      BY <1>0
    <3> QED BY <2>2, <3>1, <3>2 DEF IdsSent
  <2>10. Told(session', hooks'[Main], truth'.prompts, units', used'.prompts)
    BY <2>1, <2>3, <2>4, <2>7, <2>8, <2>9 DEF Told
  <2> QED BY <2>10 DEF TruthTold
<1>2. ASSUME NEW line \in StopLines, Stop(line) PROVE TruthTold'
  <2> DEFINE h == [stage |-> "open", event |-> line]
  <2>1. hooks[Main] = NoHook /\ HookBecomes(Main, h) /\ UNCHANGED <<session, units, truth>>
    BY <1>2 DEF Stop, Start, HookBecomes, fileVars
  <2>2. line.event \in {"stop", "failure"}
    BY DEF StopLines
  <2>3. ~AtPrompt(h) /\ ~AtClose(h) /\ h.stage = "open"
    BY <2>2 DEF AtPrompt, AtClose
  <2> HIDE DEF h
  <2>4. hooks'[Main] = h
    BY <1>0, <2>1, OneHook
  <2>5. used'.prompts = used.prompts
    BY <1>0, <1>2 DEF Stop, Counts
  <2>6. Told(session, NoHook, truth.prompts, units, used.prompts)
    BY <2>1 DEF TruthTold
  <2>7. Told(session, h, truth.prompts, units, used.prompts)
    BY <1>0, <2>3, <2>6 DEF Told, TaskOfCurrent, TaskOfClosed, SilentAhead, IdsSent
  <2> QED BY <2>1, <2>4, <2>5, <2>7 DEF TruthTold
<1> QED BY <1>1, <1>2

\* A hook of the main agent locates its unit: a prompt's unit is the current one.
LEMMA TruthStepOpens ==
  ASSUME Sound, Sound', TruthTold, OpenUnit(Main)
  PROVE  TruthTold'
<1> USE MainIsNoCall
<1>0. Shaped /\ session \in Sessions /\ used \in Counts /\ used.prompts \in Nat
  BY DEF Sound, Shaped, Counts
<1> DEFINE h == hooks[Main]
           g == [stage |-> FirstStage(hooks[Main].event), event |-> hooks[Main].event,
                 ordinal |-> CurrentOrdinal, epoch |-> LocatedEpoch]
<1>1. /\ h.stage = "open" /\ Located(used) /\ Put(CurrentOrdinal, LocatedUnit)
      /\ UNCHANGED truth /\ HookBecomes(Main, g)
  BY DEF OpenUnit, HookBecomes
<1>2. g.stage = "append" /\ g.event = h.event /\ g.ordinal = CurrentOrdinal
  BY <1>0, <1>1, FirstStages DEF Shaped
<1> HIDE DEF g
<1>3. hooks'[Main] = g
  BY <1>0, <1>1, OneHook
<1>4. /\ ~session'.damaged /\ ~session'.tainted /\ session'.current = CurrentOrdinal
      /\ used'.prompts = used.prompts
  BY <1>0, <1>1, Locating DEF Sound
<1>5. /\ \A o : Ids(units', o) = Ids(units, o) /\ (Tainted(units, o) => Tainted(units', o))
      /\ session.damaged \/ session.tainted => Tainted(units', CurrentOrdinal)
  BY <1>0, <1>1, LinesLocated
<1>6. ~session.damaged => CurrentOrdinal = session.current
  BY DEF CurrentOrdinal
<1>7. \A o \in Nat : CurrentOrdinal < o => Silent(units', o)
  BY <1>5, SilentPast DEF Silent
<1>8. CurrentOrdinal \in Nat
  BY LocatedOrdinal DEF Sound
<1>9. AtPrompt(g) <=> AtPrompt(h)
  BY <1>1, <1>2 DEF AtPrompt
<1>10. Told(session, h, truth.prompts, units, used.prompts)
  BY DEF TruthTold
<1>11. AtClose(g) => ~AtPrompt(g)
  BY <1>2 DEF AtClose, AtPrompt, IsClosing
<1> HIDE DEF h
<1>12. TaskOfCurrent(session', g, truth.prompts, units')
  <2>1. ASSUME ~Tainted(units', CurrentOrdinal)
        PROVE  /\ AtPrompt(g) => truth.prompts = Append(Ids(units', CurrentOrdinal), g.event.id)
               /\ ~AtPrompt(g) => truth.prompts = Ids(units', CurrentOrdinal)
    BY <1>2, <1>5, <1>6, <1>9, <1>10, <2>1 DEF Told, TaskOfCurrent
  <2> QED BY <1>2, <1>4, <2>1 DEF TaskOfCurrent
<1>13. TaskOfClosed(g, truth.prompts, units')
  <2>1. AtClose(g) /\ ~Tainted(units', g.ordinal) => truth.prompts = Ids(units', g.ordinal)
    BY <1>2, <1>4, <1>11, <1>12 DEF TaskOfCurrent
  <2> QED BY <1>2, <2>1 DEF TaskOfClosed
<1>14. SilentAhead(session', g, units')
  BY <1>2, <1>4, <1>7, <1>8 DEF SilentAhead
<1>15. IdsSent(g, units', used.prompts)
  <2>1. IdsSent(h, units, used.prompts)
    BY <1>10 DEF Told
  <2> QED BY <2>1, <1>2, <1>5, <1>9 DEF IdsSent
<1>16. Told(session', hooks'[Main], truth'.prompts, units', used'.prompts)
  BY <1>1, <1>3, <1>4, <1>12, <1>13, <1>14, <1>15 DEF Told
<1> QED BY <1>16 DEF TruthTold

\* A prompt's line is written, or a close's.
LEMMA TruthStepAppends ==
  ASSUME Sound, Sound', TruthTold, MainAppends
  PROVE  TruthTold'
<1> USE MainIsNoCall
<1>0. Shaped /\ session \in Sessions /\ used \in Counts /\ used.prompts \in Nat
  BY DEF Sound, Shaped, Counts
<1>1. HookShape(Main, hooks[Main], session.epoch)
  BY <1>0 DEF Shaped
<1> DEFINE h == hooks[Main]
           k == hooks[Main].ordinal
           unit == Appended(UnitOf(Main), hooks[Main].event)
           g == IF IsClosing(hooks[Main].event) THEN [hooks[Main] EXCEPT !.stage = "advance"] ELSE NoHook
<1>2. /\ h.stage = "append" /\ Put(k, unit) /\ HookBecomes(Main, g) /\ UNCHANGED <<session, used, truth>>
  BY DEF MainAppends
<1>3. /\ h.event.event \in {"prompt", "stop", "failure"} /\ k \in Nat
      /\ {"stage", "event", "ordinal"} \subseteq DOMAIN h
  BY <1>1, <1>2 DEF HookShape, NoHook
<1>4. unit.lines = Append(Lines(units, k), h.event)
  <2>1. UnitOf(Main).lines = Lines(units, k) /\ UnitShape(UnitOf(Main))
    BY <1>0, LinesOfUnits, UnitsShaped DEF UnitOf
  <2> QED BY <2>1, LineAppended
<1>5. /\ \A p : p # k => Ids(units', p) = Ids(units, p) /\ (Tainted(units', p) <=> Tainted(units, p))
      /\ Ids(units', k) = IF h.event.event = "prompt" THEN Append(Ids(units, k), h.event.id) ELSE Ids(units, k)
      /\ Tainted(units', k) <=> Tainted(units, k)
  <2>1. PICK o : o = k
    OBVIOUS
  <2>2. PICK line : line = h.event
    OBVIOUS
  <2> HIDE DEF unit
  <2>3. Put(o, unit) /\ unit.lines = Append(Lines(units, o), line)
    BY <1>2, <1>4, <2>1, <2>2
  <2>4. line.event # "taint"
    BY <1>3, <2>2
  <2>5. /\ \A p : p # o => Ids(units', p) = Ids(units, p) /\ (Tainted(units', p) <=> Tainted(units, p))
        /\ Ids(units', o) = IF line.event = "prompt" THEN Append(Ids(units, o), line.id) ELSE Ids(units, o)
        /\ Tainted(units', o) <=> Tainted(units, o) \/ line.event = "taint"
    BY <1>0, <2>3, LinesAppended
  <2> QED BY <2>1, <2>2, <2>4, <2>5
<1>6. Told(session, h, truth.prompts, units, used.prompts)
  BY DEF TruthTold
<1>7. hooks'[Main] = g
  <2> HIDE DEF g
  <2> QED BY <1>0, <1>2, OneHook
<1>8. ~AtPrompt(NoHook) /\ ~AtClose(NoHook) /\ NoHook.stage = "none"
  BY DEF AtPrompt, AtClose, NoHook
<1>9. CASE h.event.event # "prompt"
  <2>1. \A p : Ids(units', p) = Ids(units, p) /\ (Tainted(units', p) <=> Tainted(units, p))
    BY <1>5, <1>9
  <2>2. ~AtPrompt(h) /\ ~AtPrompt(g)
    BY <1>3, <1>8, <1>9 DEF AtPrompt
  <2>3. /\ AtClose(g) => AtClose(h) /\ g.ordinal = h.ordinal
        /\ g.stage \notin {"fold", "deliver"}
    BY <1>2, <1>3, <1>8 DEF AtClose
  <2> HIDE DEF g, h, k, unit
  <2>4. \A o : Silent(units', o) <=> Silent(units, o)
    BY <2>1 DEF Silent
  <2>5. TaskOfCurrent(session, g, truth.prompts, units')
    BY <1>6, <2>1, <2>2 DEF Told, TaskOfCurrent
  <2>6. TaskOfClosed(g, truth.prompts, units')
    BY <1>6, <2>1, <2>3 DEF Told, TaskOfClosed
  <2>7. SilentAhead(session, g, units')
    BY <1>6, <2>2, <2>3, <2>4 DEF Told, SilentAhead
  <2>8. IdsSent(g, units', used.prompts)
    BY <1>6, <2>1, <2>2 DEF Told, IdsSent
  <2>9. Told(session', hooks'[Main], truth'.prompts, units', used'.prompts)
    BY <1>2, <1>7, <2>5, <2>6, <2>7, <2>8 DEF Told
  <2> QED BY <2>9 DEF TruthTold
<1>10. CASE h.event.event = "prompt"
  <2>1. AtPrompt(h) /\ Held(h) /\ g = NoHook
    BY <1>2, <1>10 DEF AtPrompt, Held, IsClosing
  <2>2. Ids(units', k) = Append(Ids(units, k), h.event.id)
    BY <1>5, <1>10
  <2> HIDE DEF g, h, unit
  <2>3. TaskOfCurrent(session, g, truth.prompts, units')
    <3>1. ASSUME ~session.damaged /\ ~session.tainted /\ ~Tainted(units', session.current)
          PROVE  truth.prompts = Ids(units', session.current)
      <4>1. ~Tainted(units, session.current)
        BY <1>5, <3>1
      <4>2. /\ truth.prompts = Append(Ids(units, session.current), h.event.id)
            /\ h.ordinal = session.current
        BY <1>6, <2>1, <3>1, <4>1 DEF Told, TaskOfCurrent
      <4>3. k = session.current
        BY <4>2 DEF h
      <4> QED BY <2>2, <4>2, <4>3
    <3> QED BY <1>8, <2>1, <3>1 DEF TaskOfCurrent
  <2>4. TaskOfClosed(g, truth.prompts, units')
    BY <1>8, <2>1 DEF TaskOfClosed
  <2>5. SilentAhead(session, g, units')
    <3>1. ASSUME NEW o \in Nat, ~session.damaged, session.current < o PROVE Silent(units', o)
      <4>1. h.ordinal <= session.current /\ Silent(units, o)
        BY <1>6, <2>1, <3>1 DEF Told, SilentAhead
      <4>2. k <= session.current /\ session.current \in Nat
        BY <1>0, <4>1 DEF h, Sessions
      <4>3. o # k
        BY <1>3, <3>1, <4>2
      <4> QED BY <1>5, <4>1, <4>3 DEF Silent
    <3> QED BY <1>8, <2>1, <3>1 DEF SilentAhead
  <2>6. IdsSent(g, units', used.prompts)
    <3>1. h.event.id = used.prompts /\ used.prompts > 0
          /\ \A o \in Nat : Members(Ids(units, o)) \subseteq 1..(used.prompts - 1)
      BY <1>6, <2>1 DEF Told, IdsSent
    <3>2. 1..(used.prompts - 1) \subseteq 1..used.prompts /\ used.prompts \in 1..used.prompts
      BY <1>0, <3>1
    <3>3. IsList(Ids(units, k))
      BY <1>0, LinesOfUnits, IdsShaped DEF Ids
    <3>4. Members(Ids(units', k)) = Members(Ids(units, k)) \cup {used.prompts}
      BY <2>2, <3>1, <3>3, AppendList
    <3>5. \A o \in Nat : Members(Ids(units', o)) \subseteq 1..used.prompts
      <4>1. ASSUME NEW o \in Nat PROVE Members(Ids(units', o)) \subseteq 1..used.prompts
        <5>1. CASE o = k
          BY <3>1, <3>2, <3>4, <5>1
        <5>2. CASE o # k
          BY <1>5, <3>1, <3>2, <5>2
        <5> QED BY <5>1, <5>2
      <4> QED BY <4>1
    <3> QED BY <1>8, <2>1, <3>5 DEF IdsSent
  <2>7. Told(session', hooks'[Main], truth'.prompts, units', used'.prompts)
    BY <1>2, <1>7, <2>3, <2>4, <2>5, <2>6 DEF Told
  <2> QED BY <2>7 DEF TruthTold
<1> QED BY <1>9, <1>10

\* The marker moves on: the next unit is silent, the closed one keeps its prompts.
LEMMA TruthStepAdvances ==
  ASSUME Sound, Sound', TruthTold, Advance(Main)
  PROVE  TruthTold'
<1> USE MainIsNoCall
<1>0. Shaped /\ session \in Sessions /\ used \in Counts /\ used.prompts \in Nat
  BY DEF Sound, Shaped, Counts
<1> DEFINE h == hooks[Main]
           k == hooks[Main].ordinal
           g == Over([truth |-> truth, stage |-> "fold"], hooks[Main])
<1>1. HookShape(Main, h, session.epoch) /\ h.stage = "advance" /\ h # NoHook
  BY <1>0 DEF Shaped, Advance, NoHook
<1>2. k \in Nat /\ IsClosing(h.event) /\ AtClose(h) /\ ~AtPrompt(h)
  BY <1>1 DEF HookShape, AtClose, AtPrompt
<1>3. g.stage = "fold" /\ g.ordinal = k /\ g.truth = truth
  BY <1>1 DEF Over, HookShape, NoHook
<1>4. /\ HookBecomes(Main, g) /\ UNCHANGED <<units, used>>
      /\ session'.current = k + 1 /\ ~session'.damaged /\ session'.tainted = session.tainted
      /\ truth'.prompts = <<>>
  BY <1>0 DEF Advance, HookBecomes, Sessions, FreshTruth
<1>5. hooks'[Main] = g
  <2> HIDE DEF g
  <2> QED BY <1>0, <1>4, OneHook
<1>6. Told(session, h, truth.prompts, units, used.prompts)
  BY DEF TruthTold
<1>7. h.ordinal = k
  OBVIOUS
<1> HIDE DEF g, h, k
<1>8. \A o \in Nat : k < o => Silent(units, o)
  BY <1>2, <1>6, <1>7 DEF Told, SilentAhead
<1>9. ~AtPrompt(g) /\ ~AtClose(g)
  BY <1>3 DEF AtPrompt, AtClose
<1>10. TaskOfCurrent(session', g, <<>>, units)
  <2>1. k + 1 \in Nat /\ k < k + 1
    BY <1>2
  <2>2. Silent(units, k + 1)
    BY <1>8, <2>1
  <2> QED BY <1>4, <1>9, <2>2 DEF TaskOfCurrent, Silent
<1>11. TaskOfClosed(g, <<>>, units)
  <2>1. ~Tainted(units, k) => truth.prompts = Ids(units, k)
    BY <1>2, <1>6, <1>7 DEF Told, TaskOfClosed
  <2> QED BY <1>3, <1>9, <2>1 DEF TaskOfClosed
<1>12. SilentAhead(session', g, units)
  <2>1. \A o \in Nat : session'.current < o => k < o
    BY <1>2, <1>4
  <2> QED BY <1>8, <1>9, <2>1 DEF SilentAhead
<1>13. IdsSent(g, units, used.prompts)
  BY <1>2, <1>6, <1>9 DEF Told, IdsSent
<1>14. Told(session', hooks'[Main], truth'.prompts, units', used'.prompts)
  BY <1>4, <1>5, <1>10, <1>11, <1>12, <1>13 DEF Told
<1> QED BY <1>14 DEF TruthTold

\* The fold reads the closed unit's prompts.
LEMMA TruthStepFolds ==
  ASSUME Sound, Sound', TruthTold, Fold(Main)
  PROVE  TruthTold'
<1> USE MainIsNoCall
<1>0. Shaped /\ used \in Counts /\ used.prompts \in Nat
  BY DEF Sound, Shaped, Counts
<1> DEFINE h == hooks[Main]
           lines == UnitOf(Main).lines
           shown == {lines[i].call : i \in {i \in DOMAIN lines : IsTool(lines[i])}}
           seen == [hooks[Main].truth EXCEPT !.foreign = @ \cup truth.foreign, !.writers = @ \ shown]
<1>1. HookShape(Main, h, session.epoch) /\ h.stage = "fold" /\ h # NoHook
  BY <1>0 DEF Shaped, Fold, NoHook
<1>2. PICK resolution :
        /\ resolution = ResolveUnit(lines, UnitOf(Main).pre, tree) \/ resolution = CaptureFailed
        /\ HookBecomes(Main, Over([resolution |-> resolution, final |-> tree, truth |-> seen,
                                   stage |-> "deliver"], hooks[Main]))
  BY DEF Fold, HookBecomes
<1>3. seen.prompts = h.truth.prompts
  BY <1>1 DEF HookShape
<1>4. lines = Lines(units, h.ordinal) /\ IsList(Lines(units, h.ordinal))
  BY <1>0, LinesOfUnits DEF UnitOf
<1> HIDE DEF seen
<1> DEFINE g == Over([resolution |-> resolution, final |-> tree, truth |-> seen, stage |-> "deliver"],
                     hooks[Main])
<1>5. g.stage = "deliver" /\ g.truth = seen /\ g.resolution = resolution
  BY <1>1 DEF Over, HookShape
<1>6. HookBecomes(Main, g)
  BY <1>2
<1>7. UNCHANGED <<session, units, truth>>
  BY DEF Fold, fileVars
<1>8. used'.prompts = used.prompts
  <2>1. SameCount
    BY <1>0, NothingCounts, FaultCounts DEF Fold
  <2> QED BY <2>1 DEF SameCount
<1> HIDE DEF g
<1>9. hooks'[Main] = g
  BY <1>0, <1>6, OneHook
<1>10. Told(session, h, truth.prompts, units, used.prompts)
  BY DEF TruthTold
<1>11. ~AtPrompt(g) /\ ~AtClose(g) /\ ~AtPrompt(h) /\ ~AtClose(h)
  BY <1>1, <1>5 DEF AtPrompt, AtClose
<1> HIDE DEF h
<1>12. resolution.status = "TURN" => resolution.prompts = seen.prompts
  <2>1. HAVE resolution.status = "TURN"
  <2>2. CaptureFailed.status # "TURN"
    BY DEF CaptureFailed, Unavailable
  <2>3. PICK all : all = Lines(units, h.ordinal)
    OBVIOUS
  <2>4. resolution = ResolveUnit(all, UnitOf(Main).pre, tree)
    BY <1>2, <1>4, <2>1, <2>2, <2>3
  <2>5. IsList(all)
    BY <1>4, <2>3
  <2>6. (\A i \in DOMAIN all : all[i].event # "taint") /\ resolution.prompts = PromptIds(all)
    BY <2>1, <2>4, <2>5, TurnOfPrompts
  <2>7. ~Tainted(units, h.ordinal) /\ PromptIds(all) = Ids(units, h.ordinal)
    BY <2>3, <2>6 DEF Tainted, Ids
  <2>8. h.truth.prompts = Ids(units, h.ordinal)
    BY <1>1, <1>10, <2>7 DEF Told, TaskOfClosed
  <2> QED BY <1>3, <2>6, <2>7, <2>8
<1>13. TaskOfCurrent(session, g, truth.prompts, units)
  BY <1>10, <1>11 DEF Told, TaskOfCurrent
<1>14. TaskOfClosed(g, truth.prompts, units)
  BY <1>5, <1>11, <1>12 DEF TaskOfClosed
<1>15. SilentAhead(session, g, units) /\ IdsSent(g, units, used.prompts)
  BY <1>10, <1>11 DEF Told, SilentAhead, IdsSent
<1>16. Told(session', hooks'[Main], truth'.prompts, units', used'.prompts)
  BY <1>7, <1>8, <1>9, <1>13, <1>14, <1>15 DEF Told
<1> QED BY <1>16 DEF TruthTold

\* The main agent's hook ends after its unit was handed over, or is killed, or
\* the session goes.
LEMMA TruthStepEnds ==
  ASSUME Sound, Sound', TruthTold, Deliver(Main) \/ RemoveUnit(Main) \/ MainDies \/ RemoveSession
  PROVE  TruthTold'
<1> USE MainIsNoCall
<1>0. /\ Shaped /\ session \in Sessions /\ used \in Counts /\ used.prompts \in Nat
      /\ ~AtPrompt(NoHook) /\ ~AtClose(NoHook) /\ NoHook.stage = "none"
  BY DEF Sound, Shaped, Counts, AtPrompt, AtClose, NoHook
<1> DEFINE h == hooks[Main]
           g == hooks'[Main]
<1>1. HookShape(Main, h, session.epoch)
  BY <1>0 DEF Shaped
<1>2. Told(session, h, truth.prompts, units, used.prompts)
  BY DEF TruthTold
<1>3. used'.prompts = used.prompts
  <2>1. SameCount
    BY <1>0, NothingCounts, FaultCounts DEF Deliver, RemoveUnit, MainDies, RemoveSession
  <2> QED BY <2>1 DEF SameCount
<1>4. CASE Deliver(Main)
  <2>1. h.stage = "deliver" /\ UNCHANGED <<session, units>>
    BY <1>4 DEF Deliver
  <2> DEFINE k == [hooks[Main] EXCEPT !.stage = "remove"]
  <2>2. HookBecomes(Main, k) /\ k.stage = "remove"
    BY <1>1, <1>4, <2>1 DEF Deliver, Goes, HookBecomes, HookShape, NoHook
  <2> HIDE DEF k
  <2>3. g = k
    BY <1>0, <2>2, OneHook
  <2>4. ~AtPrompt(g) /\ ~AtClose(g) /\ ~AtPrompt(h) /\ g.stage = "remove"
    BY <2>1, <2>2, <2>3 DEF AtPrompt, AtClose
  <2>5. truth'.prompts = truth.prompts
    BY <1>0, <1>4 DEF Deliver, Excuse, Shaped
  <2> HIDE DEF g, h
  <2>6. Told(session, g, truth.prompts, units, used.prompts)
    BY <1>2, <2>4 DEF Told, TaskOfCurrent, TaskOfClosed, SilentAhead, IdsSent
  <2>7. Told(session', g, truth'.prompts, units', used'.prompts)
    BY <1>3, <2>1, <2>5, <2>6
  <2> QED BY <2>7 DEF TruthTold, g
<1>5. CASE RemoveUnit(Main)
  <2>1. /\ h.stage = "remove" /\ UNCHANGED <<session, truth>> /\ HookBecomes(Main, NoHook)
        /\ units' = Without(h.ordinal)
    BY <1>5 DEF RemoveUnit, Ends, HookBecomes
  <2>2. g = NoHook
    BY <1>0, <2>1, OneHook
  <2>3. ~AtPrompt(h) /\ ~AtClose(h)
    BY <2>1 DEF AtPrompt, AtClose
  <2>4. h.ordinal < NextOrdinal /\ h.ordinal \in Nat
    BY <2>1, HookWithUnit DEF Sound, Named, Closed, Held
  <2> HIDE DEF h, g
  <2>5. \A o : o # h.ordinal => Lines(units', o) = Lines(units, o)
    BY <2>1 DEF Without, Lines
  <2>6. Lines(units', h.ordinal) = <<>>
    BY <2>1 DEF Without, Lines
  <2>7. \A o : o # h.ordinal => Ids(units', o) = Ids(units, o) /\ (Tainted(units', o) <=> Tainted(units, o))
    BY <2>5 DEF Ids, Tainted
  <2>8. Ids(units', h.ordinal) = <<>> /\ Members(Ids(units', h.ordinal)) = {}
    BY <2>6, NoPrompts DEF Ids
  <2>9. \A o : Silent(units, o) => Silent(units', o)
    BY <2>7, <2>8 DEF Silent
  <2>10. ~session.damaged => session.current # h.ordinal
    BY <1>0, <2>4 DEF NextOrdinal, Sessions
  <2>11. TaskOfCurrent(session, NoHook, truth.prompts, units')
    BY <1>0, <1>2, <2>3, <2>7, <2>10 DEF Told, TaskOfCurrent
  <2>12. TaskOfClosed(NoHook, truth.prompts, units') /\ SilentAhead(session, NoHook, units')
    BY <1>0, <1>2, <2>9 DEF Told, TaskOfClosed, SilentAhead
  <2>13. IdsSent(NoHook, units', used.prompts)
    <3>1. \A o \in Nat : Members(Ids(units, o)) \subseteq 1..used.prompts
      BY <1>2, <2>3 DEF Told, IdsSent
    <3>2. \A o \in Nat : Members(Ids(units', o)) \subseteq 1..used.prompts
      BY <2>7, <2>8, <3>1
    <3> QED BY <1>0, <3>2 DEF IdsSent
  <2>14. Told(session', g, truth'.prompts, units', used'.prompts)
    BY <1>3, <2>1, <2>2, <2>11, <2>12, <2>13 DEF Told
  <2> QED BY <2>14 DEF TruthTold, g
<1>6. CASE MainDies
  <2>1. HookBecomes(Main, NoHook) /\ UNCHANGED <<session, units>> /\ h # NoHook
    BY <1>6 DEF MainDies, fileVars
  <2>2. g = NoHook
    BY <1>0, <2>1, OneHook
  <2> DEFINE others == (1..used.prompts) \ {h.event.id}
  <2>3. truth'.prompts = IF AtPrompt(h) THEN Kept(truth.prompts, others) ELSE truth.prompts
    <3>1. h.event.event = "prompt" /\ ~Closing(Main) <=> AtPrompt(h)
      BY <1>1, <2>1 DEF HookShape, Closing, AtPrompt, MainStages, IsClosing
    <3>2. Closing(Main) => ~AtPrompt(h)
      BY DEF Closing, AtPrompt
    <3> DEFINE kept == Kept(truth.prompts, others)
    <3>3. truth' = IF Closing(Main) THEN [truth EXCEPT !.excused = @ \cup {hooks[Main].truth.serial}]
                   ELSE IF h.event.event # "prompt" THEN truth ELSE [truth EXCEPT !.prompts = kept]
      BY <1>6 DEF MainDies
    <3>4. "prompts" \in DOMAIN truth
      BY <1>0 DEF Shaped
    <3> HIDE DEF h, kept
    <3> QED BY <3>1, <3>2, <3>3, <3>4 DEF kept
  <2> HIDE DEF g, h
  <2>4. TaskOfCurrent(session, NoHook, truth'.prompts, units)
    <3>1. ASSUME ~session.damaged /\ ~session.tainted /\ ~Tainted(units, session.current)
          PROVE  truth'.prompts = Ids(units, session.current)
      <4>1. CASE ~AtPrompt(h)
        BY <1>2, <2>3, <3>1, <4>1 DEF Told, TaskOfCurrent
      <4>2. CASE AtPrompt(h)
        <5>1. PICK ids : ids = Ids(units, session.current)
          OBVIOUS
        <5>2. truth.prompts = Append(ids, h.event.id) /\ h.event.id = used.prompts /\ used.prompts > 0
          BY <1>2, <3>1, <4>2, <5>1 DEF Told, TaskOfCurrent, IdsSent
        <5>3. IsList(ids) /\ Members(ids) \subseteq 1..(used.prompts - 1)
          <6>1. session.current \in Nat
            BY <1>0 DEF Sessions
          <6> QED BY <1>0, <1>2, <4>2, <5>1, <6>1, LinesOfUnits, IdsShaped DEF Told, IdsSent, Ids
        <5>4. h.event.id \notin others /\ Members(ids) \subseteq others
          BY <1>0, <5>2, <5>3
        <5> HIDE DEF others
        <5>5. Kept(Append(ids, h.event.id), others) = Kept(ids, others)
          BY <5>3, <5>4, KeptAppend
        <5>6. Kept(ids, others) = ids
          BY <5>3, <5>4, KeptAll
        <5> QED BY <2>3, <4>2, <5>1, <5>2, <5>5, <5>6
      <4> QED BY <4>1, <4>2
    <3> QED BY <1>0, <3>1 DEF TaskOfCurrent
  <2>5. TaskOfClosed(NoHook, truth'.prompts, units) /\ SilentAhead(session, NoHook, units)
    BY <1>0, <1>2 DEF Told, TaskOfClosed, SilentAhead
  <2>6. IdsSent(NoHook, units, used.prompts)
    <3>1. \A o \in Nat : Members(Ids(units, o)) \subseteq 1..used.prompts
      BY <1>0, <1>2 DEF Told, IdsSent
    <3> QED BY <1>0, <3>1 DEF IdsSent
  <2>7. Told(session', g, truth'.prompts, units', used'.prompts)
    BY <1>3, <2>1, <2>2, <2>4, <2>5, <2>6 DEF Told
  <2> QED BY <2>7 DEF TruthTold, g
<1>7. CASE RemoveSession
  <2>1. /\ session'.current = 0 /\ units' = <<>> /\ g = NoHook /\ truth'.prompts = <<>>
    BY <1>7 DEF RemoveSession, FreshTruth
  <2> HIDE DEF g
  <2>2. \A o : Ids(units', o) = <<>> /\ Members(Ids(units', o)) = {}
    BY <2>1, NoPrompts DEF Ids, Lines
  <2>3. Told(session', g, truth'.prompts, units', used'.prompts)
    BY <1>0, <1>3, <2>1, <2>2 DEF Told, TaskOfCurrent, TaskOfClosed, SilentAhead, IdsSent, Silent
  <2> QED BY <2>3 DEF TruthTold, g
<1> QED BY <1>4, <1>5, <1>6, <1>7

\* The hand-over of a reviewed unit tells its prompts.
LEMMA TaskStep ==
  ASSUME Sound, TruthTold, TaskComplete, StepOf
  PROVE  TaskComplete'
<1>1. CASE handoffs' = handoffs
  BY <1>1 DEF TaskComplete
<1>2. CASE Deliver(Main)
  <2> DEFINE new == [epoch |-> hooks[Main].epoch, ordinal |-> hooks[Main].ordinal,
                     resolution |-> hooks[Main].resolution, truth |-> hooks[Main].truth,
                     final |-> hooks[Main].final]
  <2>1. hooks[Main].stage = "deliver" /\ handoffs' \subseteq handoffs \cup {new}
    BY <1>2 DEF Deliver
  <2>2. hooks[Main].resolution.status = "TURN" => hooks[Main].resolution.prompts = hooks[Main].truth.prompts
    BY <2>1 DEF TruthTold, Told, TaskOfClosed
  <2>3. new.resolution.status = "TURN" => new.resolution.prompts = new.truth.prompts
    BY <2>2
  <2> HIDE DEF new
  <2> QED BY <2>1, <2>3 DEF TaskComplete
<1>3. handoffs' = handoffs \/ Deliver(Main)
  BY DEF StepOf, HostStep, fileVars, CallMoves, Prompt, Stop, OpenUnit, FailsOpen, FailsLeaving,
     MainAppends, Advance, Fold, RemoveUnit, MainDies, DamageMarker, RemoveSession
<1> QED BY <1>1, <1>2, <1>3

\* A reviewed unit's task holds every prompt sent since the unit began, in
\* order, whatever hooks ran side by side, failed or were killed in between
\* (run-hook.ts:184-188).
THEOREM TaskIsComplete ==
  ASSUME MaxStops < 100
  PROVE  Spec => []TaskComplete
<1> DEFINE Inv == Sound /\ TruthTold /\ TaskComplete
<1>1. Init => Inv
  <2>1. Init => TaskComplete
    BY DEF Init, TaskComplete
  <2> QED BY <2>1, ShapedInit, BoundedInit, NamedInit, TruthInit DEF Sound
<1>2. Inv /\ [Next]_vars => Inv'
  <2> SUFFICES ASSUME Inv, [Next]_vars PROVE Inv'
    OBVIOUS
  <2>1. Sound' /\ StepOf
    BY SoundStep
  <2>2. TruthTold'
    BY <2>1, TruthStepOthers, TruthStepStarts, TruthStepOpens, TruthStepAppends, TruthStepAdvances,
       TruthStepFolds, TruthStepEnds DEF StepOf, Actors
  <2>3. TaskComplete'
    BY <2>1, TaskStep
  <2> QED BY <2>1, <2>2, <2>3
<1>3. Inv => TaskComplete
  OBVIOUS
<1> QED BY <1>1, <1>2, <1>3, PTL DEF Spec
=============================================================================
