------------------------------ MODULE NightRun ------------------------------
(***************************************************************************)
(* What a task does to the rig: the bodies of sequencing/tasks that point, *)
(* focus and shoot, one at a time; the active target lights are filed      *)
(* under; the simulated mount and focuser; and the operator's requests to  *)
(* the mount, which no task excludes.                                      *)
(*                                                                         *)
(* A task is a list of steps still to do, the first of them under way; a   *)
(* plan's block is such a list.  Its awaits divide a step into actions:    *)
(* slew_to, status, sync_to, unpark and set_tracking do not suspend.  A    *)
(* slew is a task of the mount's own: it goes on without the one that      *)
(* asked for it, and when it is aborted the one that waits for it is       *)
(* cancelled with it.  A slew may miss; only a solved frame tells.         *)
(***************************************************************************)
EXTENDS Integers, Sequences, FiniteSets

CONSTANTS
  Targets,      (* what can be named: plan blocks and gotos                *)
  Plan,         (* the session's blocks: [target, centre, focus, frames]   *)
  Kinds,        (* the tasks submitted                                     *)
  Frames,       (* of a capture task                                       *)
  MaxPasses,    (* max_iterations of a goto                                *)
  Points,       (* of a polar alignment sweep                              *)
  Samples,      (* of an autofocus sweep, one step apart                   *)
  Backlash,     (* what an autofocus approaches from below by              *)
  Slack,        (* what the focuser's gears really swallow                 *)
  MaxPosition,  (* of the focuser                                          *)
  Start,        (* where the focuser is at first                           *)
  MaxTasks,     (* bound: tasks submitted                                  *)
  MaxRequests,  (* bound: the operator's requests                          *)
  None

Home == "home"
Sky == "somewhere"
Places == Targets \cup {Home, Sky}

AllKinds == {"session", "goto", "moon", "capture", "focus", "sweep", "zenith", "reframe", "watch"}

ASSUME KindsAssumption == Kinds \subseteq AllKinds
ASSUME PlanAssumption ==
  /\ Plan \in Seq([target : Targets, centre : BOOLEAN, focus : BOOLEAN, frames : Nat \ {0}])
  /\ Plan # <<>>
ASSUME CountsAssumption ==
  /\ {Frames, MaxPasses, Points, Samples} \subseteq Nat \ {0}
  /\ {MaxTasks, MaxRequests} \subseteq Nat
ASSUME FocuserAssumption ==
  /\ {Backlash, Slack, MaxPosition} \subseteq Nat /\ Slack <= Backlash
  /\ Start \in 0..MaxPosition
ASSUME PlacesAssumption == {None, Home, Sky} \cap Targets = {} /\ None \notin {Home, Sky}

VARIABLES
  task,      (* the task that runs, or None                                *)
  mount,     (* its state, whether it tracks, and where it points          *)
  slew,      (* _slew_task: where it leads, and whether the target was set *)
  focuser,   (* its position, slack to take up, and where it is moving to  *)
  guiding,   (* whether the guider guides                                  *)
  active,    (* active_target                                              *)
  outcome,   (* if it is a session, its blocks as far as it came           *)
  saved,     (* lights each of them has on disk                            *)
  filed,     (* the last light the task wrote                              *)
  centred,   (* what a goto converged on, until the mount is moved         *)
  astray,    (* history: the mount was sent where no target was set for it *)
  tasks, requests   (* counts, for the bounds                              *)

vars == <<task, mount, slew, focuser, guiding, active, outcome, saved, filed,
          centred, astray, tasks, requests>>
counts == <<tasks, requests>>
pointing == <<mount, slew, active, centred, astray>>

-----------------------------------------------------------------------------
(* Programs.                                                               *)

Centre(t, solve) == [op |-> "centre", target |-> t, solve |-> solve]
Do(op) == [op |-> op]
Shoot(n) == [op |-> "shoot", frames |-> n]

\* _run_block.
BlockProgram(b) ==
  (IF b.centre THEN <<Centre(b.target, TRUE)>> ELSE <<>>)
    \o (IF b.focus THEN <<Do("focus")>> ELSE <<>>) \o <<Shoot(b.frames)>>

Programs(kind) ==
  CASE kind = "session"   -> {BlockProgram(Plan[1])}
    [] kind = "goto"      -> {<<Centre(t, TRUE)>> : t \in Targets}
    [] kind = "moon"      -> {<<Centre(t, FALSE)>> : t \in Targets}
    [] kind = "capture"   -> {<<Shoot(Frames)>>}
    [] kind = "reframe"   -> {<<Do("reference"), Centre(t, TRUE), Do("match"),
                                [op |-> "check", target |-> t]>> : t \in Targets}
    [] OTHER              -> {<<Do(kind)>>}

NewTask(kind, block, todo, pc) ==
  [kind |-> kind, block |-> block, todo |-> todo, pc |-> pc, pass |-> 1, index |-> 1,
   usable |-> 0, start |-> 0, best |-> 0, seen |-> None, moved |-> FALSE]

Running == task # None
Session == Running /\ task.kind = "session"
Step == Head(task.todo)
At(op, pc) == Running /\ Step.op = op /\ task.pc = pc
Begins(op) == Running /\ Step.op = op /\ task.pc \in {"submitted", "begin"}
Waits == Running /\ task.pc = "slewing"

\* The event loop has its turn: a step that is over goes straight to the next.
Turn == Running => task.pc # "begin"

Goes(t) == task' = t /\ UNCHANGED outcome
GoesTo(pc) == Goes([task EXCEPT !.pc = pc])

Report(how, frames) ==
  outcome' = IF Session THEN Append(outcome, [how |-> how, frames |-> frames]) ELSE outcome
Ended == Report("cancelled", 0) /\ task' = None

NextBlock == NewTask("session", task.block + 1, BlockProgram(Plan[task.block + 1]), "begin")

\* A bug: the first block that fails ends the run.
MutantBlockOver(how) ==
  /\ Report(how, IF Session /\ how = "done" THEN Plan[task.block].frames ELSE 0)
  /\ task' = IF Session /\ how = "done" /\ task.block < Len(Plan) THEN NextBlock ELSE None

\* The end of a block, or of a task: a session steps over a failure.
BlockOver(how) ==
  /\ Report(how, IF Session /\ how = "done" THEN Plan[task.block].frames ELSE 0)
  /\ task' = IF Session /\ task.block < Len(Plan) THEN NextBlock ELSE None

StepFails == BlockOver("failed")
StepDone ==
  IF Len(task.todo) > 1
  THEN Goes(NewTask(task.kind, task.block, Tail(task.todo), "begin"))
  ELSE BlockOver("done")

-----------------------------------------------------------------------------
(* The mount.                                                              *)

Pointing(place, near) == [place |-> place, near |-> near]

\* slew_to, after unpark: refused while a slew runs, or below the horizon.
Slews(to, named) ==
  /\ slew = None
  /\ slew' = [to |-> to, named |-> named]
  /\ mount' = [mount EXCEPT !.state = "slewing", !.at = Pointing(Sky, FALSE)]
  /\ astray' = TRUE
  /\ centred' = None

Refused ==
  /\ slew' = IF slew = None THEN None ELSE [slew EXCEPT !.named = FALSE]
  /\ mount' = [mount EXCEPT !.state = IF @ = "parked" THEN "idle" ELSE @]
  /\ astray' = TRUE
  /\ UNCHANGED centred

\* A task slews and waits, or fails.
SlewsAndWaits(to, named, t) ==
  \/ Slews(to, named) /\ Goes([t EXCEPT !.pc = "slewing"])
  \/ Refused /\ StepFails

\* _run_slew's end: tracking comes on by itself.
SlewEnds ==
  /\ Turn /\ slew # None
  /\ \E near \in IF slew.to = Sky THEN {FALSE} ELSE BOOLEAN :
       mount' = [state |-> "tracking", tracking |-> TRUE, at |-> Pointing(slew.to, near)]
  /\ slew' = None
  /\ astray' = ~slew.named
  /\ task' = IF Waits THEN [task EXCEPT !.pc = "arrived"] ELSE task
  /\ UNCHANGED <<focuser, guiding, active, outcome, saved, filed, centred, counts>>

\* A bug: nobody tells the one who waits.
MutantWoken == IF Running THEN [task EXCEPT !.moved = TRUE] ELSE task

\* A task learns that its slew was aborted, and of no other move.
Woken ==
  IF ~Running THEN task
  ELSE [task EXCEPT !.moved = TRUE, !.pc = IF Waits /\ slew # None THEN "interrupted" ELSE @]

\* abort_slew leaves a mount that was slewing idle, tracking or not.
Aborted == [mount EXCEPT !.state = "idle", !.at = Pointing(Sky, FALSE)]

Interrupted ==
  /\ Running /\ task.pc = "interrupted"
  /\ Ended
  /\ UNCHANGED <<pointing, focuser, guiding, saved, filed, counts>>

-----------------------------------------------------------------------------
(* centering.py.                                                           *)

\* The target is named before the move.
CentreBegins ==
  /\ Begins("centre")
  /\ active' = Step.target
  /\ SlewsAndWaits(Step.target, TRUE, task)
  /\ UNCHANGED <<focuser, guiding, saved, filed, counts>>

Arrived ==
  /\ Running /\ task.pc = "arrived" /\ Step.op \in {"centre", "sweep"}
  /\ IF Step.op = "centre" /\ (~Step.solve \/ task.pass > MaxPasses)
     THEN StepDone
     ELSE GoesTo("exposing")
  /\ UNCHANGED <<pointing, focuser, guiding, saved, filed, counts>>

\* A frame to solve, of the sky as it is when the shutter closes.
Exposed ==
  /\ Running /\ task.pc = "exposing"
  /\ \/ Goes([task EXCEPT !.pc = "solving", !.seen = mount.at, !.moved = FALSE])
     \/ StepFails
  /\ UNCHANGED <<pointing, focuser, guiding, saved, filed, counts>>

\* Within the tolerance, as far as the frame can say; the mount is told.
Centres ==
  /\ task.seen = Pointing(Step.target, TRUE)
  /\ centred' = IF task.moved THEN None ELSE Step.target
  /\ StepDone
  /\ UNCHANGED <<mount, slew, astray>>

\* A failed solve costs a pass, an error a correction.
CentreSolved ==
  /\ At("centre", "solving")
  /\ \/ /\ task.pass = MaxPasses
        /\ StepDone
        /\ UNCHANGED <<mount, slew, centred, astray>>
     \/ /\ task.pass < MaxPasses
        /\ Goes([task EXCEPT !.pc = "exposing", !.pass = @ + 1])
        /\ UNCHANGED <<mount, slew, centred, astray>>
     \/ Centres
     \/ /\ task.seen # Pointing(Step.target, TRUE)
        /\ SlewsAndWaits(Step.target, TRUE, [task EXCEPT !.pass = @ + 1])
  /\ UNCHANGED <<focuser, guiding, active, saved, filed, counts>>

-----------------------------------------------------------------------------
(* polar.py, zenith.py: moves that are not to a target.                    *)

SweepBegins ==
  /\ Begins("sweep")
  /\ SlewsAndWaits(Sky, FALSE, task)
  /\ UNCHANGED <<focuser, guiding, active, saved, filed, counts>>

\* A failed solve fails the sweep.
SweepSolved ==
  /\ At("sweep", "solving")
  /\ \/ /\ task.index < Points
        /\ SlewsAndWaits(Sky, FALSE, [task EXCEPT !.index = @ + 1])
     \/ task.index = Points /\ StepDone /\ UNCHANGED <<mount, slew, centred, astray>>
     \/ StepFails /\ UNCHANGED <<mount, slew, centred, astray>>
  /\ UNCHANGED <<focuser, guiding, active, saved, filed, counts>>

ZenithBegins ==
  /\ Begins("zenith")
  /\ active' = None
  /\ SlewsAndWaits(Sky, TRUE, task)
  /\ UNCHANGED <<focuser, guiding, saved, filed, counts>>

\* set_tracking, which leaves a slew its state.
Tracks(on) ==
  mount' = [mount EXCEPT !.tracking = on,
              !.state = IF @ = "slewing" THEN @ ELSE IF on THEN "tracking" ELSE "idle"]

ZenithArrived ==
  /\ At("zenith", "arrived")
  /\ Tracks(FALSE)
  /\ StepDone \/ StepFails
  /\ UNCHANGED <<slew, active, centred, astray, focuser, guiding, saved, filed, counts>>

-----------------------------------------------------------------------------
(* focus.py.                                                               *)

Clamped(p) == IF p < 0 THEN 0 ELSE IF p > MaxPosition THEN MaxPosition ELSE p
MovesTo(p) == focuser' = [focuser EXCEPT !.goal = Clamped(p)]
Still == focuser.goal = None
Position(t, i) == t.start + i - 1 - Samples \div 2

\* move_to replaces a move under way, which then never arrives.
FocuserArrives ==
  /\ Turn /\ ~Still
  /\ focuser' = [position |-> focuser.goal, goal |-> None,
                 slack |-> IF focuser.goal < focuser.position THEN Slack
                           ELSE IF focuser.goal - focuser.position > focuser.slack THEN 0
                           ELSE focuser.slack - (focuser.goal - focuser.position)]
  /\ UNCHANGED <<task, pointing, guiding, outcome, saved, filed, counts>>

\* A bug: the best position is gone back to, not come up to.
MutantBelow(p) == p

\* Every position is approached from below it.
Below(p) == p - Backlash

FocusBegins ==
  /\ Begins("focus")
  /\ LET t == [task EXCEPT !.pc = "lowering", !.start = focuser.position]
     IN MovesTo(Below(Position(t, 1))) /\ Goes(t)
  /\ UNCHANGED <<pointing, guiding, saved, filed, counts>>

FocusMoved ==
  /\ Running /\ Still
  /\ \/ task.pc = "lowering" /\ MovesTo(Position(task, 1)) /\ GoesTo("raising")
     \/ task.pc = "returning" /\ MovesTo(task.best) /\ GoesTo("approaching")
     \/ task.pc = "raising" /\ GoesTo("sampling") /\ UNCHANGED focuser
     \/ task.pc = "approaching" /\ GoesTo("checking") /\ UNCHANGED focuser
  /\ UNCHANGED <<pointing, guiding, saved, filed, counts>>

\* The next position; or the best one, if enough samples had stars.
Sampled(t) ==
  IF t.index < Samples
  THEN MovesTo(Position(t, t.index + 1)) /\ Goes([t EXCEPT !.pc = "raising", !.index = @ + 1])
  ELSE IF t.usable < 3 THEN StepFails /\ UNCHANGED focuser
  ELSE \E best \in Position(t, 1)..Position(t, Samples) :
         MovesTo(Below(best)) /\ Goes([t EXCEPT !.pc = "returning", !.best = best])

FocusSampled ==
  /\ At("focus", "sampling")
  /\ \/ Sampled([task EXCEPT !.usable = @ + 1])
     \/ Sampled(task)
     \/ StepFails /\ UNCHANGED focuser
  /\ UNCHANGED <<pointing, guiding, saved, filed, counts>>

FocusChecked ==
  /\ At("focus", "checking")
  /\ StepDone \/ StepFails
  /\ UNCHANGED <<pointing, focuser, guiding, saved, filed, counts>>

-----------------------------------------------------------------------------
(* capture.py, and runtime.py's save_capture.                              *)

ShootBegins ==
  /\ Begins("shoot")
  /\ GoesTo("shooting")
  /\ UNCHANGED <<pointing, focuser, guiding, saved, filed, counts>>

\* A light, filed under what is active when it comes in.
Shot ==
  /\ At("shoot", "shooting")
  /\ \/ Goes([task EXCEPT !.pc = "saving",
                !.seen = [place |-> mount.at.place, label |-> active, astray |-> astray]])
     \/ StepFails
  /\ UNCHANGED <<pointing, focuser, guiding, saved, filed, counts>>

\* A bug: the last frame of a sequence is left out.
MutantLastFrame == task.index + 1 >= Step.frames
LastFrame == task.index = Step.frames

\* On disk, or not: a full drive fails the step.  Between frames the guider
\* dithers, if it guides.
Written ==
  /\ At("shoot", "saving")
  /\ \/ /\ filed' = task.seen
        /\ saved' = IF Session THEN [saved EXCEPT ![task.block] = @ + 1] ELSE saved
        /\ IF LastFrame THEN StepDone
           ELSE Goes([task EXCEPT !.pc = IF guiding THEN "dithering" ELSE "shooting",
                                  !.index = @ + 1, !.seen = None])
     \/ StepFails /\ UNCHANGED <<filed, saved>>
  /\ UNCHANGED <<pointing, focuser, guiding, counts>>

\* A dither that fails is skipped.
Dithered ==
  /\ At("shoot", "dithering")
  /\ GoesTo("shooting")
  /\ UNCHANGED <<pointing, focuser, guiding, saved, filed, counts>>

-----------------------------------------------------------------------------
(* reframe.py: a solve of the saved frame, a goto, turns of the camera     *)
(* until its angle is right, and another goto if that moved the field.     *)

ReferenceSolved ==
  /\ Begins("reference")
  /\ StepDone \/ StepFails
  /\ UNCHANGED <<pointing, focuser, guiding, saved, filed, counts>>

LookBegins ==
  /\ Begins("match") \/ Begins("check")
  /\ GoesTo("exposing")
  /\ UNCHANGED <<pointing, focuser, guiding, saved, filed, counts>>

\* Not solved or not yet turned, it looks again; a mirrored frame fails.
LookSolved ==
  /\ At("match", "solving") \/ At("check", "solving")
  /\ \/ GoesTo("exposing")
     \/ Step.op = "match" /\ StepFails
     \/ Step.op = "match" /\ StepDone
     \/ /\ Step.op = "check"
        /\ IF task.seen = Pointing(Step.target, TRUE) THEN StepDone
           ELSE Goes(NewTask(task.kind, 1, <<Centre(Step.target, TRUE)>>, "begin"))
  /\ UNCHANGED <<pointing, focuser, guiding, saved, filed, counts>>

-----------------------------------------------------------------------------
(* assistant.py: watch the star, then drive declination to and fro.        *)

WatchBegins ==
  /\ Begins("watch")
  /\ IF mount.tracking /\ ~guiding THEN GoesTo("watching") ELSE StepFails
  /\ UNCHANGED <<pointing, focuser, guiding, saved, filed, counts>>

Watched ==
  /\ At("watch", "watching")
  /\ \/ GoesTo("driving")
     \/ StepDone
     \/ StepFails
  /\ UNCHANGED <<pointing, focuser, guiding, saved, filed, counts>>

\* Four legs of six pulses: the field is no longer where it was.
Driven ==
  /\ At("watch", "driving")
  /\ mount' = [mount EXCEPT !.at.near = FALSE]
  /\ centred' = None
  /\ StepDone
  /\ UNCHANGED <<slew, active, astray, focuser, guiding, saved, filed, counts>>

-----------------------------------------------------------------------------
(* The operator.                                                           *)

Submit(kind) ==
  /\ ~Running /\ tasks < MaxTasks
  /\ \E todo \in Programs(kind) : task' = NewTask(kind, 1, todo, "submitted")
  /\ tasks' = tasks + 1
  /\ outcome' = <<>>
  /\ saved' = [b \in DOMAIN Plan |-> 0]
  /\ filed' = None
  /\ UNCHANGED <<pointing, focuser, guiding, requests>>

\* Only a slew to the zenith is stopped with its task.
Cancel ==
  /\ Running /\ task.pc \notin {"submitted", "begin"}
  /\ Ended
  /\ IF Step.op = "zenith" /\ Waits /\ slew # None
     THEN slew' = None /\ mount' = Aborted
     ELSE UNCHANGED <<slew, mount>>
  /\ UNCHANGED <<active, centred, astray, focuser, guiding, saved, filed, counts>>

MountSlew(t) ==
  /\ Slews(t, FALSE)
  /\ task' = Woken
  /\ UNCHANGED active

MountAbort ==
  /\ slew # None
  /\ slew' = None
  /\ mount' = Aborted
  /\ task' = Woken
  /\ UNCHANGED <<active, centred, astray>>

\* A bug: what was framed stays the target.
MutantGoesHome ==
  /\ slew' = None
  /\ mount' = [state |-> "parked", tracking |-> FALSE, at |-> Pointing(Home, FALSE)]
  /\ task' = Woken
  /\ centred' = None
  /\ UNCHANGED <<active, astray>>

\* park, and set_home of the simulated mount: nothing is framed any more.
GoesHome ==
  /\ slew' = None
  /\ mount' = [state |-> "parked", tracking |-> FALSE, at |-> Pointing(Home, FALSE)]
  /\ task' = Woken
  /\ centred' = None
  /\ active' = None
  /\ UNCHANGED astray

\* Without tracking the sky moves on, but not under a slew.
MountTracking(on) ==
  /\ Tracks(on)
  /\ task' = IF Running /\ ~on THEN [task EXCEPT !.moved = TRUE] ELSE task
  /\ IF ~on /\ slew = None
     THEN astray' = TRUE /\ centred' = None
     ELSE UNCHANGED <<astray, centred>>
  /\ UNCHANGED <<slew, active>>

Unpark ==
  /\ mount.state = "parked"
  /\ mount' = [mount EXCEPT !.state = "idle"]
  /\ UNCHANGED <<task, slew, active, centred, astray>>

\* A pulse or a nudge: the same field, but not as it was centred.
Nudge ==
  /\ mount' = [mount EXCEPT !.at.near = FALSE]
  /\ centred' = None
  /\ task' = IF Running THEN [task EXCEPT !.moved = TRUE] ELSE task
  /\ UNCHANGED <<slew, active, astray>>

ClearTarget ==
  /\ active' = None
  /\ UNCHANGED <<task, mount, slew, centred, astray>>

Request ==
  /\ Turn /\ requests < MaxRequests
  /\ requests' = requests + 1
  /\ \/ /\ \/ \E t \in Targets : MountSlew(t)
           \/ MountAbort \/ GoesHome \/ Unpark \/ Nudge \/ ClearTarget
           \/ \E on \in BOOLEAN : MountTracking(on)
        /\ UNCHANGED guiding
     \/ guiding' = ~guiding /\ UNCHANGED <<task, pointing>>
  /\ UNCHANGED <<focuser, outcome, saved, filed, tasks>>

-----------------------------------------------------------------------------
Init ==
  /\ task = None
  /\ mount = [state |-> "parked", tracking |-> FALSE, at |-> Pointing(Home, FALSE)]
  /\ slew = None
  /\ focuser = [position |-> Start, slack |-> Slack, goal |-> None]
  /\ guiding = FALSE
  /\ active = None
  /\ outcome = <<>>
  /\ saved = [b \in DOMAIN Plan |-> 0]
  /\ filed = None
  /\ centred = None
  /\ astray = FALSE
  /\ tasks = 0 /\ requests = 0

TaskStep ==
  \/ Arrived \/ Interrupted \/ Exposed
  \/ CentreBegins \/ CentreSolved
  \/ SweepBegins \/ SweepSolved \/ ZenithBegins \/ ZenithArrived
  \/ FocusBegins \/ FocusMoved \/ FocusSampled \/ FocusChecked
  \/ ShootBegins \/ Shot \/ Written \/ Dithered
  \/ ReferenceSolved \/ LookBegins \/ LookSolved
  \/ WatchBegins \/ Watched \/ Driven

Next ==
  \/ TaskStep
  \/ SlewEnds \/ FocuserArrives
  \/ \E kind \in Kinds : Submit(kind)
  \/ Cancel
  \/ Request

\* The event loop runs what is ready; a slew and a move of the focuser end.
Fairness == WF_vars(TaskStep) /\ WF_vars(SlewEnds) /\ WF_vars(FocuserArrives)
Spec == Init /\ [][Next]_vars /\ Fairness

-----------------------------------------------------------------------------
Ops == {"centre", "focus", "shoot", "sweep", "zenith", "reference", "match", "check", "watch"}
PCs == {"submitted", "begin", "slewing", "arrived", "interrupted", "exposing", "solving",
        "lowering", "raising", "sampling", "returning", "approaching", "checking",
        "shooting", "saving", "dithering", "watching", "driving"}
PointingType == [place : Places, near : BOOLEAN]
LightType == [place : Places, label : Targets \cup {None}, astray : BOOLEAN]
StepType ==
  [op : Ops \ {"centre", "check", "shoot"}] \cup [op : {"check"}, target : Targets]
    \cup [op : {"shoot"}, frames : Nat \ {0}]
    \cup [op : {"centre"}, target : Targets, solve : BOOLEAN]
TaskType ==
  [kind : Kinds, block : DOMAIN Plan, todo : Seq(StepType), pc : PCs,
   pass : 1..(MaxPasses + 1), index : Nat \ {0}, usable : 0..Samples, start : Int, best : Int,
   seen : PointingType \cup LightType \cup {None}, moved : BOOLEAN]
SlewType == [to : Places, named : BOOLEAN]

\* "No value" is not a value.
ASSUME ValuesAssumption == None \notin TaskType \cup SlewType \cup LightType \cup Nat

\* The task, the rig and what is known of it have their types.
TypeOK ==
  /\ task \in TaskType \cup {None}
  /\ mount \in [state : {"parked", "idle", "tracking", "slewing"}, tracking : BOOLEAN, at : PointingType]
  /\ slew \in SlewType \cup {None}
  /\ focuser \in [position : 0..MaxPosition, slack : 0..Slack, goal : (0..MaxPosition) \cup {None}]
  /\ guiding \in BOOLEAN
  /\ {active, centred} \subseteq Targets \cup {None}
  /\ outcome \in Seq([how : {"done", "failed", "cancelled"}, frames : Nat])
  /\ saved \in [DOMAIN Plan -> Nat]
  /\ filed \in LightType \cup {None}
  /\ astray \in BOOLEAN
  /\ tasks \in 0..MaxTasks /\ requests \in 0..MaxRequests

\* A light is filed under a target only if that is where the telescope was,
\* whatever failed, was cancelled or went home before: unless the mount was
\* moved, or its target named, by something that does not do the other.
LightsAreFiledWhereTaken ==
  filed # None /\ filed.label # None /\ ~filed.astray => filed.label = filed.place

\* What is reported is so, whatever was cancelled, aborted or failed.  A goto that
\* says it is centred is, until the mount is moved; a session reports no light
\* that is not on disk; the mount says it is slewing while a slew runs, parked only
\* at home and standing still, tracking only when it does.
ReportsAreTrue ==
  /\ centred # None => slew = None /\ mount.at = Pointing(centred, TRUE)
  /\ \A b \in DOMAIN outcome : outcome[b].frames <= saved[b]
  /\ (mount.state = "slewing") = (slew # None)
  /\ mount.state = "parked" => ~mount.tracking /\ mount.at.place = Home
  /\ mount.state = "tracking" => mount.tracking

\* Focus is measured, and left, with the gears' slack taken up, wherever the
\* position can be approached from below: the sweep's lowest, which is no higher than
\* where it began, and a best one that is not beyond the focuser's end.
SlackIsTakenUp ==
  /\ At("focus", "sampling") /\ Below(Position(task, 1)) >= 0 => focuser.slack = 0
  /\ At("focus", "checking") /\ Below(task.best) >= 0 /\ task.best <= MaxPosition
       => focuser.slack = 0

\* A session's blocks run in turn, and a block that fails does not end the run
\* (docs/architecture.md).
Turns == INSTANCE BlocksInTurn
  WITH Blocks <- Len(Plan), running <- Session,
       outcomes <- [b \in DOMAIN outcome |-> outcome[b].how]
RunsInTurn == Turns!Spec

\* Every task but reframe, which looks until the camera is turned right, comes
\* to its end, whatever the operator does to the mount it waits for.
RunEnds == []<>(~Running \/ task.kind = "reframe")
=============================================================================
