----------------------------- MODULE GuidingLoop -----------------------------
(***************************************************************************)
(* GuidingService of services/guiding.py: the requests that calibrate,     *)
(* start, stop and dither, the guide loop they start and stop, and what is *)
(* left of it in the mount: an offset on the tracking rate in right        *)
(* ascension.  Every request is a coroutine, and so is the loop; each of   *)
(* their awaits (a frame, a mount command, a wait) is a place where the    *)
(* others run.  What a frame shows and how far a correction goes is left   *)
(* to choice; that a correction changes the rate offset is not.            *)
(***************************************************************************)
EXTENDS FiniteSets

CONSTANTS
  Handlers,   (* requests, and the dithers of a capture task                *)
  Ops,        (* what they ask for in this instance                         *)
  Loops,      (* the asyncio tasks that _run may get; a bound               *)
  None,
  TasksRun,   (* may tasks of the engine begin and end?                     *)
  Faulty,     (* may the camera or the mount fail?                          *)
  Collides    (* may the guide camera be exposed by a route of its own?     *)

AllOps == {"start", "stop", "calibrate", "dither", "clear"}

ASSUME OpsAssumption == Ops \subseteq AllOps
ASSUME NoneAssumption == None \notin Loops
ASSUME FlagsAssumption == {TasksRun, Faulty, Collides} \subseteq BOOLEAN

HandlerPhase == {"idle", "checking", "preparing", "measuring", "nudging", "locking",
                 "joining", "restoring", "settling"}
LoopPhase == {"unborn", "frame", "command", "releasing", "aborting", "over"}
GuidingState == {"stopped", "calibrating", "settling", "guiding", "dithering", "lost", "error"}

VARIABLES
  state,      (* _state                                                     *)
  calibrated, (* _calibration is not None                                   *)
  locked,     (* _lock_position is not None                                 *)
  offset,     (* _ra_offset # 0, as the service believes                    *)
  rate,       (* the mount's tracking rate is offset                        *)
  task,       (* _task                                                      *)
  loop,       (* where each guide loop is                                   *)
  target,     (* whether the offset a loop is setting is other than none    *)
  cancelled,  (* loops a CancelledError is on its way to                    *)
  pc,         (* where each request is                                      *)
  joined,     (* the loop each stop waits for                               *)
  starting,   (* requests whose calibration is part of a start              *)
  busy,       (* a task of the engine is running: tasks.busy                *)
  orderly,    (* history: no request came while another was under way, none *)
              (* to calibrate beside a loop or to dither without one, and   *)
              (* no task began during one                                   *)
  cut         (* history: a loop was cancelled while it awaited a command   *)
              (* of the mount                                               *)

service == <<state, calibrated, locked, offset, task>>
loops == <<loop, target, cancelled>>
requests == <<pc, joined, starting>>
history == <<orderly, cut>>
vars == <<service, rate, loops, requests, busy, history>>

Running(l) == loop[l] \notin {"unborn", "over"}
SomeLoop == \E l \in Loops : Running(l)
\* `self._task and not self._task.done()`
TaskAlive == task # None /\ Running(task)

Goes(h, phase) == pc' = [pc EXCEPT ![h] = phase]
LoopGoes(l, phase) == loop' = [loop EXCEPT ![l] = phase]
AllQuiet == \A h \in Handlers : pc[h] = "idle"

\* A request begins; is it one the loop there is, or is not, allows for?
Asks(h, op, inPlace) ==
  /\ pc[h] = "idle" /\ op \in Ops
  /\ orderly' = (orderly /\ AllQuiet /\ inPlace)
  /\ UNCHANGED cut

-----------------------------------------------------------------------------
(* Calibration                                                             *)

\* _refuse_while_busy, at the request's first step and never again.
Refused == busy

Calibrate(h) ==
  /\ Asks(h, "calibrate", ~SomeLoop) /\ ~Refused
  /\ Goes(h, "preparing")
  /\ UNCHANGED <<service, rate, loops, joined, starting, busy>>

\* The mount is tracking: the calibration begins by choosing a star.
Prepared(h) ==
  /\ pc[h] = "preparing"
  /\ state' = "calibrating"
  /\ Goes(h, "measuring")
  /\ UNCHANGED <<calibrated, locked, offset, task, rate, loops, joined, starting, busy, history>>

\* _nudge: an offset for a while, and the tracking rate back after it.
NudgeBegins(h) ==
  /\ pc[h] = "measuring"
  /\ rate' = TRUE
  /\ Goes(h, "nudging")
  /\ UNCHANGED <<service, loops, joined, starting, busy, history>>

NudgeEnds(h) ==
  /\ pc[h] = "nudging"
  /\ rate' = FALSE
  /\ Goes(h, "measuring")
  /\ UNCHANGED <<service, loops, joined, starting, busy, history>>

Calibrated(h) ==
  /\ pc[h] = "measuring"
  /\ calibrated' = TRUE
  /\ state' = "stopped"
  /\ Goes(h, IF h \in starting THEN "locking" ELSE "idle")
  /\ starting' = starting \ {h}
  /\ UNCHANGED <<locked, offset, task, rate, loops, joined, busy, history>>

\* No star, a star that does not move, or a device that fails.
CalibrationFails(h) ==
  /\ pc[h] = "measuring"
  /\ state' = "error"
  /\ Goes(h, "idle")
  /\ starting' = starting \ {h}
  /\ UNCHANGED <<calibrated, locked, offset, task, rate, loops, joined, busy, history>>

\* invalidate_calibration
Clear(h) ==
  /\ Asks(h, "clear", TRUE)
  /\ calibrated' = FALSE
  /\ UNCHANGED <<state, locked, offset, task, rate, loops, requests, busy>>

-----------------------------------------------------------------------------
(* Starting                                                                *)

\* A bug: whether a loop is running is not looked at.
MutantMayStart == calibrated \/ ~Refused
MayStart == ~TaskAlive /\ (calibrated \/ ~Refused)

Start(h) ==
  /\ Asks(h, "start", TRUE) /\ MayStart
  /\ Goes(h, "checking")
  /\ UNCHANGED <<service, rate, loops, joined, starting, busy>>

\* The mount is tracking; a calibration comes first if there is none.
Checked(h) ==
  /\ pc[h] = "checking"
  /\ IF calibrated THEN Goes(h, "locking") /\ UNCHANGED starting
                   ELSE Goes(h, "preparing") /\ starting' = starting \cup {h}
  /\ UNCHANGED <<service, rate, loops, joined, busy, history>>

\* A star is chosen, and the loop made.
Locked(h) ==
  /\ pc[h] = "locking"
  /\ \E l \in Loops :
       /\ loop[l] = "unborn"
       /\ LoopGoes(l, "frame")
       /\ task' = l
  /\ locked' = TRUE
  /\ state' = "settling"
  /\ Goes(h, "idle")
  /\ UNCHANGED <<calibrated, offset, rate, target, cancelled, joined, starting, busy, history>>

LockFails(h) ==
  /\ pc[h] = "locking"
  /\ Goes(h, "idle")
  /\ UNCHANGED <<service, rate, loops, joined, starting, busy, history>>

-----------------------------------------------------------------------------
(* The guide loop                                                          *)

\* A bug: the loop gives up with the star.
MutantLost(l) ==
  /\ loop[l] = "frame" /\ l \notin cancelled /\ calibrated
  /\ state' = "lost"
  /\ LoopGoes(l, "over")
  /\ UNCHANGED <<calibrated, locked, offset, task, rate, target, cancelled, requests, busy, history>>

\* A frame without a star, often enough.
Lost(l) ==
  /\ loop[l] = "frame" /\ l \notin cancelled /\ calibrated
  /\ state' = "lost"
  /\ UNCHANGED <<calibrated, locked, offset, task, rate, loops, requests, busy, history>>

\* _update_settling
Settles(l) ==
  /\ loop[l] = "frame" /\ l \notin cancelled /\ calibrated
  /\ state' \in IF state = "guiding" THEN {"settling"} ELSE {"guiding"}
  /\ UNCHANGED <<calibrated, locked, offset, task, rate, loops, requests, busy, history>>

\* _correct: the tracking rate is offset, by something or by nothing.
Corrects(l) ==
  /\ loop[l] = "frame" /\ l \notin cancelled /\ calibrated
  /\ LoopGoes(l, "command")
  /\ \E some \in BOOLEAN : /\ some \/ offset
                           /\ target' = [target EXCEPT ![l] = some]
  /\ UNCHANGED <<service, rate, cancelled, requests, busy, history>>

Corrected(l) ==
  /\ loop[l] = "command" /\ l \notin cancelled
  /\ rate' = target[l]
  /\ offset' = target[l]
  /\ LoopGoes(l, "frame")
  /\ UNCHANGED <<state, calibrated, locked, task, target, cancelled, requests, busy, history>>

\* The except clause of _run: _release_ra_offset, then for a DeviceError
\* abort_slew, then the verdict.
Verdict == state' = "error"

Fails(l, device) ==
  IF offset
  THEN LoopGoes(l, "releasing") /\ offset' = FALSE /\ UNCHANGED state
  ELSE /\ UNCHANGED offset
       /\ IF device THEN LoopGoes(l, "aborting") /\ UNCHANGED state
                    ELSE LoopGoes(l, "over") /\ Verdict

LoopFails(l) ==
  /\ l \notin cancelled
  /\ \/ loop[l] = "frame" /\ ~calibrated /\ Fails(l, FALSE)
     \/ loop[l] \in {"frame", "command"} /\ Faulty /\ Fails(l, TRUE)
     \* DeviceBusyError: someone else is exposing the guide camera.
     \/ loop[l] = "frame" /\ Collides /\ Fails(l, TRUE)
  /\ UNCHANGED <<calibrated, locked, task, rate, target, cancelled, requests, busy, history>>

\* Whether the failure was the device's is left to choice here.
LoopReleased(l) ==
  /\ loop[l] = "releasing" /\ l \notin cancelled
  /\ rate' = FALSE
  /\ \/ LoopGoes(l, "aborting") /\ UNCHANGED state
     \/ LoopGoes(l, "over") /\ Verdict
  /\ UNCHANGED <<calibrated, locked, offset, task, target, cancelled, requests, busy, history>>

\* abort_slew ends by tracking at the plain rate.
LoopAborted(l) ==
  /\ loop[l] = "aborting" /\ l \notin cancelled
  /\ rate' = FALSE
  /\ LoopGoes(l, "over")
  /\ Verdict
  /\ UNCHANGED <<calibrated, locked, offset, task, target, cancelled, requests, busy, history>>

InCommand(l) == loop[l] \in {"command", "releasing", "aborting"}

\* A bug: CancelledError is caught with everything else.
MutantCancelled(l) ==
  /\ l \in cancelled
  /\ cancelled' = cancelled \ {l}
  /\ UNCHANGED <<loop, rate, service, target, requests, busy, history>>

\* CancelledError: the loop is over.  A mount command it was awaiting may
\* still be carried out, by a thread or not at all; the service does not hear.
Cancelled(l) ==
  /\ l \in cancelled
  /\ cut' = (cut \/ InCommand(l))
  /\ cancelled' = cancelled \ {l}
  /\ LoopGoes(l, "over")
  /\ rate' \in {rate} \cup (IF loop[l] = "command" THEN {target[l]}
                            ELSE IF InCommand(l) THEN {FALSE} ELSE {})
  /\ UNCHANGED <<service, target, requests, busy, orderly>>

\* Or the command is done before the cancellation lands.
CommandFirst(l) ==
  /\ l \in cancelled /\ InCommand(l)
  /\ rate' = (loop[l] = "command" /\ target[l])
  /\ offset' = (IF loop[l] = "command" THEN target[l] ELSE offset)
  /\ LoopGoes(l, "frame")
  /\ UNCHANGED <<state, calibrated, locked, task, target, cancelled, requests, busy, history>>

-----------------------------------------------------------------------------
(* Stopping                                                                *)

\* A bug: the offset is left to the next correction.
MutantRestores(h) == Goes(h, "idle") /\ state' = "stopped" /\ UNCHANGED offset

\* _release_ra_offset: nothing to do if no offset is believed to be set.
Restores(h) ==
  IF offset THEN Goes(h, "restoring") /\ offset' = FALSE /\ UNCHANGED state
            ELSE Goes(h, "idle") /\ state' = "stopped" /\ UNCHANGED offset

Stoppable == TaskAlive

Stop(h) ==
  /\ Asks(h, "stop", TRUE)
  /\ task' = None
  /\ IF Stoppable
     THEN /\ cancelled' = cancelled \cup {task}
          /\ joined' = [joined EXCEPT ![h] = task]
          /\ Goes(h, "joining")
          /\ UNCHANGED <<state, offset>>
     ELSE Restores(h) /\ UNCHANGED <<cancelled, joined>>
  /\ UNCHANGED <<calibrated, locked, rate, loop, target, starting, busy>>

Joined(h) ==
  /\ pc[h] = "joining" /\ ~Running(joined[h])
  /\ joined' = [joined EXCEPT ![h] = None]
  /\ Restores(h)
  /\ UNCHANGED <<calibrated, locked, task, rate, loops, starting, busy, history>>

Restored(h) ==
  /\ pc[h] = "restoring"
  /\ rate' = FALSE
  /\ state' = "stopped"
  /\ Goes(h, "idle")
  /\ UNCHANGED <<calibrated, locked, offset, task, loops, joined, starting, busy, history>>

-----------------------------------------------------------------------------
(* Dithering                                                               *)

Dither(h) ==
  /\ Asks(h, "dither", SomeLoop) /\ locked
  /\ state' = "dithering"
  /\ Goes(h, "settling")
  /\ UNCHANGED <<calibrated, locked, offset, task, rate, loops, joined, starting, busy>>

\* Settled, or out of time: "Time out into GUIDING".
Dithered(h) ==
  /\ pc[h] = "settling"
  /\ state' = "guiding"
  /\ Goes(h, "idle")
  /\ orderly' = (orderly /\ SomeLoop)
  /\ UNCHANGED <<calibrated, locked, offset, task, rate, loops, joined, starting, busy, cut>>

TaskRuns ==
  /\ TasksRun
  /\ busy' = ~busy
  /\ orderly' = (orderly /\ AllQuiet)
  /\ UNCHANGED <<service, rate, loops, requests, cut>>

-----------------------------------------------------------------------------
\* A rig just started: "not tracking, not guiding".
Init ==
  /\ state = "stopped"
  /\ calibrated = FALSE
  /\ locked = FALSE
  /\ offset = FALSE
  /\ rate = FALSE
  /\ task = None
  /\ loop = [l \in Loops |-> "unborn"]
  /\ target = [l \in Loops |-> FALSE]
  /\ cancelled = {}
  /\ pc = [h \in Handlers |-> "idle"]
  /\ joined = [h \in Handlers |-> None]
  /\ starting = {}
  /\ busy = FALSE
  /\ orderly = TRUE
  /\ cut = FALSE

Request(h) == Calibrate(h) \/ Clear(h) \/ Start(h) \/ Stop(h) \/ Dither(h)
Continues(h) ==
  \/ Prepared(h) \/ NudgeBegins(h) \/ NudgeEnds(h) \/ Calibrated(h) \/ CalibrationFails(h)
  \/ Checked(h) \/ Locked(h) \/ LockFails(h) \/ Joined(h) \/ Restored(h) \/ Dithered(h)
LoopSteps(l) ==
  \/ Lost(l) \/ Settles(l) \/ Corrects(l) \/ Corrected(l)
  \/ LoopFails(l) \/ LoopReleased(l) \/ LoopAborted(l)
LoopEnds(l) == Cancelled(l) \/ CommandFirst(l)

Next ==
  \/ \E h \in Handlers : Request(h) \/ Continues(h)
  \/ \E l \in Loops : LoopSteps(l) \/ LoopEnds(l)
  \/ TaskRuns

Spec == Init /\ [][Next]_vars

\* Awaits end, and a request or a loop that can go on does.
Fairness ==
  /\ \A h \in Handlers : WF_vars(Joined(h)) /\ WF_vars(Restored(h))
  /\ \A l \in Loops : WF_vars(LoopEnds(l))

FairSpec == Spec /\ Fairness

-----------------------------------------------------------------------------
(* Properties                                                              *)

\* The fields of GuidingService hold what the code puts there.
TypeOK ==
  /\ state \in GuidingState
  /\ {calibrated, locked, offset, rate, busy, orderly, cut} \subseteq BOOLEAN
  /\ task \in Loops \cup {None}
  /\ loop \in [Loops -> LoopPhase]
  /\ target \in [Loops -> BOOLEAN]
  /\ cancelled \in SUBSET Loops
  /\ pc \in [Handlers -> HandlerPhase]
  /\ joined \in [Handlers -> Loops \cup {None}]
  /\ starting \in SUBSET Handlers

\* While requests come one at a time, one at a time has the mount.  No second
\* loop corrects it (architecture.md: each sensor "has its own loop"), and the
\* one there is is the one that stop can stop; no loop and no task moves it
\* during a calibration (routes/guiding.py: "Calibration pulses the mount, so
\* it cannot share it").
MountIsNotShared ==
  orderly =>
    /\ \A l \in Loops : Running(l) => task = l \/ \E h \in Handlers : joined[h] = l
    /\ \A h \in Handlers : pc[h] \in {"measuring", "nudging"} => ~SomeLoop /\ ~busy

\* With no request under way, a guider that says it is stopped is, and one that
\* says it is guiding, settling or looking for its star is: a loop that ends by
\* itself says so, whatever failed.
SaysWhatItDoes ==
  orderly /\ AllQuiet =>
    /\ state = "stopped" => ~SomeLoop
    /\ state \in {"guiding", "settling", "dithering", "lost"} => SomeLoop

\* _release_ra_offset: "an offset left behind is a drift".  With no loop and
\* no request under way the mount tracks at its plain rate, in whatever order
\* requests came, unless a cancellation cut a command of the mount short.
NoOffsetLeft == ~cut /\ AllQuiet /\ ~SomeLoop => ~rate

\* stop returns, whatever the loop was doing.
StopReturns ==
  \A h \in Handlers : pc[h] \in {"joining", "restoring"} ~> pc[h] = "idle"
=============================================================================
