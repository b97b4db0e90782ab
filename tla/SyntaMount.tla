----------------------------- MODULE SyntaMount -----------------------------
(***************************************************************************)
(* The Sky-Watcher ("Synta") mount of devices/backends/synta/mount.py: two *)
(* motor axes behind one serial line, the coroutines that command them,    *)
(* the asyncio lock those coroutines share, the worker threads that talk   *)
(* to the controller, and the watchdog that halts what it cannot explain.  *)
(*                                                                         *)
(* A coroutine ("client": a route, a task, the guide loop) checks its      *)
(* guards, then queues for the lock; the thread it hands to asyncio while  *)
(* it holds the lock is one step, taken when its serial commands are done. *)
(* Between those steps every other coroutine may run.  Angles, periods and *)
(* speeds are abstracted to the way an axis turns; see README.md.          *)
(***************************************************************************)
EXTENDS Naturals, Sequences, FiniteSets

CONSTANTS
  Clients,        (* coroutines that may be inside the mount at one time   *)
  Ops,            (* the operations they call in this instance             *)
  Cruising,       (* slew_rate < native_goto_rate: moves run at a constant *)
                  (* rate and are stopped from here                        *)
  Unreliable,     (* axes that may turn by themselves and ignore a stop    *)
  BadLine,        (* may a serial command be refused, or garbled twice?    *)
  Cancellations,  (* may a coroutine be cancelled at an await?             *)
  LateSlews,      (* may wait_for_slew run out of time?                    *)
  MaxOrphans,     (* bound on threads left behind by cancelled coroutines  *)
  Watching,       (* watchdog_period_s is set                              *)
  Watchdog        (* the watchdog's place in the lock queue                *)

\* slew_and_wait is the pair every task calls: slew_to, then wait_for_slew.
AllOps == {"slew_to", "slew_and_wait", "wait_for_slew", "abort_slew", "track_on", "track_off",
           "park", "unpark", "set_home", "move_by", "set_ra_rate_offset",
           "step_dec", "pulse_ra", "pulse_dec", "clear_fault"}

Axis == {"ra", "dec"}

ASSUME OpsAssumption == Ops \subseteq AllOps
ASSUME FlagAssumption ==
  /\ Cruising \in BOOLEAN
  /\ Unreliable \subseteq Axis
  /\ BadLine \in BOOLEAN
  /\ Cancellations \in BOOLEAN
  /\ LateSlews \in BOOLEAN
  /\ Watching \in BOOLEAN
ASSUME OrphanAssumption == MaxOrphans \in Nat
ASSUME WatchdogAssumption == Watchdog \notin Clients

-----------------------------------------------------------------------------
(* Types                                                                   *)

\* How an axis turns.  track: near the sidereal rate; rate: a guide pulse;
\* cruise: constant rate at slew speed; near: so, and close enough to the
\* target to be told to stop; goto: the controller's own move;
\* coast: told to stop and slowing down; runaway: turning on its own;
\* beyond: turning, further from home than any move could take it.
Motion == {"still", "coast", "track", "rate", "cruise", "near", "goto", "runaway", "beyond"}
Deaf == {"runaway", "beyond"}
\* AxisStatus.slewing: the controller reports constant-rate motion.
ConstantRate == Motion \ {"still", "goto"}

\* Where an axis is: home is the zero of its counter; there, the end of its
\* last move; short, a move that was stopped on its way.
Place == {"home", "homing", "slewing", "there", "short", "away"}
Expected == {"none", "goto", "cruise", "step", "pulse"}
Speed == {"still", "track", "rate"}

Continuation == {"idle", "wait", "sleep", "start"}
Locked == {"aim", "start", "rate", "step", "stop", "zero", "poll", "check"}
PC == Locked \cup {"idle", "nap", "arrive", "sleep"}

\* What a coroutine carries across its awaits: the axes it commands, the
\* speed it will set, the speed a pulse restores, whether it drives home,
\* whether it ends by declaring the mount parked, and what comes next.
Request == [axes: SUBSET Axis, speed: Speed, base: Speed,
            homing: BOOLEAN, parks: BOOLEAN, then: Continuation]
NoRequest == [axes |-> {}, speed |-> "still", base |-> "still",
              homing |-> FALSE, parks |-> FALSE, then |-> "idle"]

\* One hand-over to a worker thread.
Job == [kind: Locked, axes: SUBSET Axis, speed: Speed, homing: BOOLEAN]

VARIABLES
  axis,      (* how each axis turns: the controller's own state            *)
  pos,       (* where each axis is, as far as parking can tell             *)
  expect,    (* _expect: the move the watchdog is to allow                 *)
  cruise,    (* _cruise: axes being driven towards a count                 *)
  tracking,  (* _tracking                                                  *)
  trackOnArrival, (* _track_on_arrival                                     *)
  parked,    (* _parked                                                    *)
  fault,     (* _fault is not None                                         *)
  clean,     (* history: the halt in force found no move on its way        *)
  strikes,   (* _strikes                                                   *)
  lastSeen,  (* _watch_last[axis][2], "unread" when there is no reading    *)
  jumped,    (* the counter moved further than tracking since that reading *)
  queue,     (* _lock: its holder, then its waiters, first come first      *)
  pc, req,   (* each coroutine                                             *)
  orphans    (* threads whose coroutine was cancelled under them           *)

hardware == <<axis, pos, jumped>>
intent == <<expect, cruise, tracking, trackOnArrival>>
halting == <<fault, clean>>
watch == <<strikes, lastSeen>>
coroutines == <<pc, req, queue, orphans>>
vars == <<hardware, intent, parked, halting, watch, coroutines>>

AnyOf(x) == [a \in Axis |-> x]

-----------------------------------------------------------------------------
(* Reading the state                                                       *)

Fast == {"goto", "cruise", "near", "runaway", "beyond"}
HasLock(c) == queue # <<>> /\ Head(queue) = c

Interrupted(p) == IF p \in {"homing", "slewing"} THEN "short" ELSE p
Reached(p) == CASE p = "homing" -> "home" [] p = "slewing" -> "there" [] OTHER -> p

JobOf(c) == [kind |-> pc[c], axes |-> req[c].axes,
             speed |-> req[c].speed, homing |-> req[c].homing]

\* A coroutine that has passed _require_motion and will set a motor turning,
\* and a thread that will.
Starting(p, r) == \/ p \in {"aim", "start", "step"}
                  \/ p = "rate" /\ (r.speed # "still" \/ r.then \in {"sleep", "start"})
                  \/ p = "sleep" /\ r.base # "still"
MayStart(c) == Starting(pc[c], req[c])
JobStarts(j) == \/ j.kind \in {"start", "step"}
                \/ j.kind = "rate" /\ j.speed # "still"
InFlight(who) == \/ \E c \in Clients \ {who} : MayStart(c)
                 \/ \E j \in orphans : JobStarts(j)

-----------------------------------------------------------------------------
(* What worker threads do to the controller                                *)

Turns(f) == /\ axis' = f
            /\ jumped' = [a \in Axis |-> jumped[a] \/ f[a] \in Fast]

\* What the mount meant to do is given up.
Forgets == /\ tracking' = FALSE
           /\ trackOnArrival' = FALSE
           /\ cruise' = {}
           /\ expect' = AnyOf("none")

\* _halt, with the axes turning as in `f`: both emergency-stopped, which an
\* axis that is not listening may ignore.
Halt(f, who) ==
  /\ \E deaf \in SUBSET {a \in Axis : f[a] \in Deaf} :
       Turns([a \in Axis |-> IF a \in deaf THEN f[a] ELSE "still"])
  /\ pos' = [a \in Axis |-> IF f[a] \in Deaf THEN "away" ELSE Interrupted(pos[a])]
  /\ fault' = TRUE
  /\ clean' = ~InFlight(who)
  /\ Forgets

\* _await_stopped gives up on an axis; _creep may set one off.
Overruns(j, who) ==
  \/ /\ \/ j.kind \in {"start", "step", "stop", "zero"}
        \/ j.kind = "rate" /\ j.speed # "still"
     /\ \E a \in j.axes : axis[a] \in Deaf
     /\ Halt(axis, who)
  \/ /\ j.kind = "poll"
     /\ \E a \in cruise : axis[a] \in Deaf
     /\ Halt(axis, who)
  \/ /\ j.kind = "step" /\ "dec" \in Unreliable
     /\ Halt([axis EXCEPT !["dec"] = "runaway"], who)

\* The axes _start_goto leaves for wait_for_slew to stop.
Cruises(going) == IF Cruising THEN going ELSE {}

\* _start_goto: every named axis is stopped; those with somewhere to go are
\* started, and the cruises of any earlier move are forgotten.
StartGoto(j) ==
  \E going \in SUBSET j.axes :
    /\ j.homing => going = {a \in j.axes : pos[a] # "home"}
    /\ Turns([a \in Axis |->
         IF a \in going THEN IF Cruising THEN "cruise" ELSE "goto"
         ELSE IF a \in j.axes THEN "still" ELSE axis[a]])
    /\ pos' = [a \in Axis |->
         IF a \in going THEN IF j.homing THEN "homing" ELSE "slewing"
         ELSE IF a \in j.axes /\ ~j.homing THEN "there" ELSE pos[a]]
    /\ cruise' = Cruises(going)
    /\ expect' = [a \in Axis |->
         IF a \in going THEN IF Cruising THEN "cruise" ELSE "goto" ELSE expect[a]]

\* _set_axis_rate: a stop is sent and not waited for; a rate retunes an axis
\* already turning the right way, or stops and restarts it.
SetAxisRate(j) ==
  /\ IF j.speed = "still"
     THEN \E deaf \in SUBSET {a \in j.axes : axis[a] \in Deaf} :
            Turns([a \in Axis |-> IF a \in j.axes \ deaf /\ axis[a] # "still"
                                  THEN "coast" ELSE axis[a]])
     ELSE \/ Turns([a \in Axis |-> IF a \in j.axes THEN j.speed ELSE axis[a]])
          \* Retuning an axis that is not listening changes nothing.
          \/ /\ \E a \in j.axes : axis[a] \in Deaf
             /\ Turns(axis)
  /\ pos' = [a \in Axis |->
       IF a \in j.axes /\ a \notin cruise
       THEN IF pos[a] = "home" /\ j.speed # "still" THEN "away" ELSE Interrupted(pos[a])
       ELSE pos[a]]
  /\ UNCHANGED cruise

\* _step_axis, and _stop_both with _await_stopped after it.
StepAxis ==
  /\ Turns([axis EXCEPT !["dec"] = "still"])
  /\ pos' = [pos EXCEPT !["dec"] = IF @ = "home" THEN "away" ELSE Interrupted(@)]
  /\ UNCHANGED cruise

StopBoth ==
  /\ Turns(AnyOf("still"))
  /\ pos' = [a \in Axis |-> Interrupted(pos[a])]
  /\ UNCHANGED cruise

ZeroCounters ==
  /\ axis' = AnyOf("still")
  \* The counters jump to zero wherever the axes stand.
  /\ jumped' = [a \in Axis |-> jumped[a] \/ pos[a] # "home"]
  /\ pos' = AnyOf("home")
  /\ UNCHANGED cruise

\* _advance_cruise: the axes within the lead of their target are stopped; a
\* last short goto takes `hop` of them to it.
Arrived == {a \in cruise : axis[a] = "near"}
AdvanceCruise(hop) ==
  /\ Turns([a \in Axis |-> IF a \in hop THEN "goto"
                           ELSE IF a \in Arrived THEN "still" ELSE axis[a]])
  /\ pos' = [a \in Axis |-> IF a \in Arrived \ hop THEN Reached(pos[a]) ELSE pos[a]]
  /\ cruise' = cruise \ Arrived

Does(j) ==
  \/ j.kind = "start" /\ StartGoto(j)
  \/ j.kind = "rate" /\ SetAxisRate(j) /\ UNCHANGED expect
  \/ j.kind = "step" /\ StepAxis /\ UNCHANGED expect
  \/ j.kind = "stop" /\ StopBoth /\ UNCHANGED expect
  \/ j.kind = "zero" /\ ZeroCounters /\ UNCHANGED expect
  \/ /\ j.kind = "poll"
     /\ \E hop \in SUBSET Arrived :
          /\ AdvanceCruise(hop)
          /\ expect' = [a \in Axis |-> IF a \in hop THEN "goto" ELSE expect[a]]

-----------------------------------------------------------------------------
(* Awaiting: leaving one await and entering the next                       *)

Goes(c, p, r) == /\ pc' = [pc EXCEPT ![c] = p]
                 /\ req' = [req EXCEPT ![c] = r]
Returns(c) == Goes(c, "idle", NoRequest)
Calls(c, op) == pc[c] = "idle" /\ op \in Ops
Joins(c) == queue' = Append(queue, c)
Leaves == queue' = Tail(queue)
GivesUp(i) == queue' = SubSeq(queue, 1, i - 1) \o SubSeq(queue, i + 1, Len(queue))
Rejoins(c) == queue' = Append(Tail(queue), c)

\* Bugs: one of the two guards is missing.
MutantMayMove == ~parked
MutantMayMoveParked == ~fault
\* _require_motion and the parked check, made before the lock is waited for.
MayMove == ~fault /\ ~parked

\* To _apply_tracking(True).
TrackRequest(r) == [r EXCEPT !.axes = {"ra"}, !.speed = "track", !.then = "idle"]

\* A bug: the axis keeps the rate of the pulse.
MutantRestored(r) == [r EXCEPT !.then = "idle"]
\* The end of a pulse, to the rate it found.
Restored(r) == [r EXCEPT !.speed = r.base, !.then = "idle"]

\* Bugs: an axis that still cruises, or one on its last short goto, is not
\* waited for.
MutantMoveOver == \A a \in Axis : axis'[a] # "goto"
\* wait_for_slew's loop is over when nothing cruises and no goto runs.
MoveOver == cruise' = {} /\ \A a \in Axis : axis'[a] # "goto"

-----------------------------------------------------------------------------
(* The operations, from their call to the lock                             *)

SlewTo(c) ==
  /\ MayMove
  /\ \/ Calls(c, "slew_to") /\ Goes(c, "aim", [NoRequest EXCEPT !.axes = Axis])
     \/ /\ Calls(c, "slew_and_wait")
        /\ Goes(c, "aim", [NoRequest EXCEPT !.axes = Axis, !.then = "wait"])
  /\ Joins(c)
  /\ UNCHANGED <<hardware, intent, parked, halting, watch, orphans>>

MoveBy(c) ==
  /\ Calls(c, "move_by") /\ MayMove
  /\ \E a \in Axis : Goes(c, "start", [NoRequest EXCEPT !.axes = {a}, !.then = "wait"])
  /\ Joins(c)
  /\ UNCHANGED <<hardware, intent, parked, halting, watch, orphans>>

\* park first stops RA, then homes both axes, then waits.
Park(c) ==
  /\ Calls(c, "park") /\ ~fault
  /\ tracking' = FALSE
  /\ trackOnArrival' = FALSE
  /\ Goes(c, "rate", [NoRequest EXCEPT !.axes = {"ra"}, !.parks = TRUE, !.then = "start"])
  /\ Joins(c)
  /\ UNCHANGED <<hardware, expect, cruise, parked, halting, watch, orphans>>

Unpark(c) ==
  /\ Calls(c, "unpark")
  /\ parked' = FALSE
  /\ UNCHANGED <<hardware, intent, halting, watch, coroutines>>

WaitForSlew(c) ==
  /\ Calls(c, "wait_for_slew")
  /\ Goes(c, "nap", NoRequest)
  /\ UNCHANGED <<hardware, intent, parked, halting, watch, queue, orphans>>

AbortSlew(c) ==
  /\ Calls(c, "abort_slew")
  /\ cruise' = {}
  /\ Goes(c, "stop", [NoRequest EXCEPT !.axes = Axis])
  /\ Joins(c)
  /\ UNCHANGED <<hardware, expect, tracking, trackOnArrival, parked, halting, watch, orphans>>

SetTracking(c) ==
  /\ \/ /\ Calls(c, "track_on") /\ MayMove
        /\ tracking' = TRUE
        /\ Goes(c, "rate", TrackRequest(NoRequest))
     \/ /\ Calls(c, "track_off")
        /\ tracking' = FALSE
        /\ Goes(c, "rate", [NoRequest EXCEPT !.axes = {"ra"}])
  /\ Joins(c)
  /\ UNCHANGED <<hardware, expect, cruise, trackOnArrival, parked, halting, watch, orphans>>

SetHome(c) ==
  /\ Calls(c, "set_home")
  /\ tracking' = FALSE
  /\ trackOnArrival' = FALSE
  /\ cruise' = {}
  /\ Goes(c, "zero", [NoRequest EXCEPT !.axes = Axis])
  /\ Joins(c)
  /\ UNCHANGED <<hardware, expect, parked, halting, watch, orphans>>

SetRaRateOffset(c) ==
  /\ Calls(c, "set_ra_rate_offset") /\ MayMove /\ tracking
  /\ Goes(c, "rate", TrackRequest(NoRequest))
  /\ Joins(c)
  /\ UNCHANGED <<hardware, intent, parked, halting, watch, orphans>>

StepDec(c) ==
  /\ Calls(c, "step_dec") /\ MayMove
  /\ expect' = [expect EXCEPT !["dec"] = "step"]
  /\ Goes(c, "step", [NoRequest EXCEPT !.axes = {"dec"}])
  /\ Joins(c)
  /\ UNCHANGED <<hardware, cruise, tracking, trackOnArrival, parked, halting, watch, orphans>>

\* The rate to put back afterwards is decided now.
PulseGuide(c) ==
  /\ MayMove
  /\ \/ /\ Calls(c, "pulse_ra")
        /\ LET base == IF tracking THEN "track" ELSE "still" IN
             Goes(c, "rate", [NoRequest EXCEPT !.axes = {"ra"}, !.base = base, !.then = "sleep",
                                !.speed = IF tracking THEN "track" ELSE "rate"])
        /\ UNCHANGED expect
     \/ /\ Calls(c, "pulse_dec")
        /\ Goes(c, "rate", [NoRequest EXCEPT !.axes = {"dec"}, !.speed = "rate", !.then = "sleep"])
        /\ expect' = [expect EXCEPT !["dec"] = "pulse"]
  /\ Joins(c)
  /\ UNCHANGED <<hardware, cruise, tracking, trackOnArrival, parked, halting, watch, orphans>>

ClearFault(c) ==
  /\ Calls(c, "clear_fault")
  /\ Goes(c, "check", NoRequest)
  /\ Joins(c)
  /\ UNCHANGED <<hardware, intent, parked, halting, watch, orphans>>

-----------------------------------------------------------------------------
(* The operations, with the lock held                                      *)

\* slew_to reads the axes, then refuses the target or sets its intentions.
Aim(c) ==
  /\ pc[c] = "aim" /\ HasLock(c)
  /\ \/ /\ Returns(c) /\ Leaves
        /\ UNCHANGED trackOnArrival
     \/ /\ Goes(c, "start", req[c])
        /\ trackOnArrival' = TRUE
        /\ UNCHANGED queue
  /\ UNCHANGED <<hardware, expect, cruise, tracking, parked, halting, watch, orphans>>

StartMove(c) ==
  /\ pc[c] = "start" /\ HasLock(c)
  /\ Does(JobOf(c))
  /\ Leaves
  /\ IF req[c].then = "wait" THEN Goes(c, "nap", req[c]) ELSE Returns(c)
  /\ UNCHANGED <<tracking, trackOnArrival, parked, halting, watch, orphans>>

\* _set_axis_rate for tracking, for an offset, for either end of a pulse, and
\* for the first half of park.
SetRate(c) ==
  /\ pc[c] = "rate" /\ HasLock(c)
  /\ SetAxisRate(JobOf(c))
  \* The end of a declination pulse is the only rate set on that axis.
  /\ expect' = IF req[c].axes = {"dec"} /\ req[c].then = "idle"
               THEN [expect EXCEPT !["dec"] = "none"] ELSE expect
  /\ CASE req[c].then = "sleep" -> Goes(c, "sleep", req[c]) /\ Leaves
       [] req[c].then = "start" ->
            /\ Goes(c, "start", [req[c] EXCEPT !.axes = Axis, !.homing = TRUE, !.then = "wait"])
            /\ Rejoins(c)
       [] OTHER -> Returns(c) /\ Leaves
  /\ parked' = (parked \/ (req[c].then = "idle" /\ req[c].parks))
  /\ UNCHANGED <<tracking, trackOnArrival, halting, watch, orphans>>

Stepped(c) ==
  /\ pc[c] = "step" /\ HasLock(c)
  /\ StepAxis
  /\ expect' = [expect EXCEPT !["dec"] = "none"]
  /\ Returns(c) /\ Leaves
  /\ UNCHANGED <<tracking, trackOnArrival, parked, halting, watch, orphans>>

\* abort_slew, both axes seen to be standing: tracking is started again.
Aborted(c) ==
  /\ pc[c] = "stop" /\ HasLock(c)
  /\ StopBoth
  /\ expect' = AnyOf("none")
  /\ trackOnArrival' = FALSE
  /\ IF tracking THEN Goes(c, "rate", TrackRequest(req[c])) /\ Rejoins(c)
                 ELSE Returns(c) /\ Leaves
  /\ UNCHANGED <<tracking, parked, halting, watch, orphans>>

HomeSet(c) ==
  /\ pc[c] = "zero" /\ HasLock(c)
  /\ ZeroCounters
  /\ expect' = AnyOf("none")
  /\ lastSeen' = AnyOf("unread")
  /\ strikes' = AnyOf(0)
  /\ parked' = TRUE
  /\ Returns(c) /\ Leaves
  /\ UNCHANGED <<tracking, trackOnArrival, halting, orphans>>

\* clear_fault: refused while anything turns.
FaultChecked(c) ==
  /\ pc[c] = "check" /\ HasLock(c)
  /\ IF \A a \in Axis : axis[a] = "still"
     THEN /\ fault' = FALSE
          /\ clean' = FALSE
          /\ lastSeen' = AnyOf("unread")
          /\ strikes' = AnyOf(0)
     ELSE UNCHANGED <<halting, watch>>
  /\ Returns(c) /\ Leaves
  /\ UNCHANGED <<hardware, intent, parked, orphans>>

\* One turn of wait_for_slew's loop: cruising axes are advanced.
Poll(c) ==
  /\ pc[c] = "poll" /\ HasLock(c)
  /\ \E hop \in SUBSET Arrived :
       /\ AdvanceCruise(hop)
       /\ LET hopping == [a \in Axis |-> IF a \in hop THEN "goto" ELSE expect[a]]
          IN  /\ expect' = [a \in Axis |-> IF MoveOver /\ hopping[a] \in {"goto", "cruise"}
                                           THEN "none" ELSE hopping[a]]
              /\ Goes(c, IF MoveOver THEN "arrive" ELSE "nap", req[c])
  /\ Leaves
  /\ UNCHANGED <<tracking, trackOnArrival, parked, halting, watch, orphans>>

\* The thread could not stop an axis: _halt runs in it, and the coroutine
\* ends with an error.
JobHalts(c) ==
  /\ pc[c] \in Locked /\ HasLock(c)
  /\ Overruns(JobOf(c), c)
  /\ Returns(c) /\ Leaves
  /\ UNCHANGED <<parked, watch, orphans>>

-----------------------------------------------------------------------------
(* The operations, between two holds of the lock                           *)

\* wait_for_slew goes round again, or gives up with an error.
Nap(c) ==
  /\ pc[c] = "nap"
  /\ \/ Goes(c, "poll", req[c]) /\ Joins(c)
     \/ LateSlews /\ Returns(c) /\ UNCHANGED queue
  /\ UNCHANGED <<hardware, intent, parked, halting, watch, orphans>>

\* The end of wait_for_slew, after _log_measured_rate: tracking is started or
\* resumed.  park, if that is who waited, then calls the mount parked.
Arrive(c) ==
  /\ pc[c] = "arrive"
  /\ tracking' = (tracking \/ trackOnArrival)
  /\ trackOnArrival' = FALSE
  /\ IF tracking'
     THEN Goes(c, "rate", TrackRequest(req[c])) /\ Joins(c) /\ UNCHANGED parked
     ELSE Returns(c) /\ UNCHANGED queue /\ parked' = (parked \/ req[c].parks)
  /\ UNCHANGED <<hardware, expect, cruise, halting, watch, orphans>>

\* The pulse has lasted long enough, or was cancelled: the rate it found is
\* put back either way.
PulseEnds(c) ==
  /\ pc[c] = "sleep"
  /\ Goes(c, "rate", Restored(req[c]))
  /\ Joins(c)
  /\ UNCHANGED <<hardware, intent, parked, halting, watch, orphans>>

-----------------------------------------------------------------------------
(* Failure and cancellation                                                *)

\* The only clean-up an operation has around its locked section is step_dec's.
Unwinds(c) ==
  /\ Returns(c)
  /\ expect' = IF pc[c] = "step" THEN [expect EXCEPT !["dec"] = "none"] ELSE expect
  /\ UNCHANGED <<cruise, tracking, trackOnArrival>>

\* The first command of the thread is refused, or garbled twice.
JobFails(c) ==
  /\ BadLine
  /\ pc[c] \in Locked /\ HasLock(c)
  /\ Unwinds(c) /\ Leaves
  /\ UNCHANGED <<hardware, parked, halting, watch, orphans>>

\* asyncio cannot stop a thread: cancelling its coroutine gives up the lock
\* and leaves the thread to finish on its own.
Cancel(c) ==
  /\ Cancellations
  /\ pc[c] \in Locked \cup {"nap", "arrive"}
  /\ Unwinds(c)
  /\ IF pc[c] \in Locked
     THEN \E i \in 1..Len(queue) : queue[i] = c /\ GivesUp(i)
     ELSE UNCHANGED queue
  /\ IF pc[c] \in Locked \ {"aim", "check"} /\ HasLock(c)
     THEN /\ Cardinality(orphans) < MaxOrphans
          /\ orphans' = orphans \cup {JobOf(c)}
     ELSE UNCHANGED orphans
  /\ UNCHANGED <<hardware, parked, halting, watch>>

OrphanFinishes(j) ==
  /\ j \in orphans
  /\ orphans' = orphans \ {j}
  /\ \/ /\ Does(j)
        /\ UNCHANGED <<tracking, trackOnArrival, halting>>
     \/ Overruns(j, Watchdog)
  /\ UNCHANGED <<parked, watch, pc, req, queue>>

-----------------------------------------------------------------------------
(* The watchdog                                                            *)

WatchWakes ==
  /\ Watching /\ ~fault
  /\ \A i \in 1..Len(queue) : queue[i] # Watchdog
  /\ queue' = Append(queue, Watchdog)
  /\ UNCHANGED <<hardware, intent, parked, halting, watch, pc, req, orphans>>

\* _allowed_rate is above zero.
Allowed(a) == \/ expect[a] \in {"cruise", "step", "pulse"}
              \/ /\ expect[a] = "none"
                 /\ a = "ra" /\ tracking /\ axis[a] \in ConstantRate

\* The travel since the last reading, under the same expectation, may be more
\* than the move allows.
MayBeTooFast(a) == /\ lastSeen[a] = expect[a]
                   /\ jumped[a]
                   /\ expect[a] = "cruise" => axis[a] \in Deaf

\* A bug: no axis is too far from home.
MutantWrong(a, fast) ==
  /\ expect[a] # "goto" /\ axis[a] # "still"
  /\ a \in fast \/ (~Allowed(a) /\ strikes[a] >= 1)

\* _judge, for one axis: what is wrong with this reading.  `fast` holds the
\* axes whose counters are found to have moved too far.
Wrong(a, fast) ==
  \/ axis[a] = "beyond"
  \/ /\ expect[a] # "goto"
     /\ axis[a] # "still"
     /\ a \in fast \/ (~Allowed(a) /\ strikes[a] >= 1)

\* A bug: standing still takes a strike back instead of all of them.
MutantStrikes(a, fast) ==
  IF axis[a] = "still" THEN strikes[a] - 1
  ELSE IF Allowed(a) THEN 0 ELSE strikes[a] + 1
Strikes(a, fast) ==
  IF axis[a] = "beyond" THEN strikes[a]
  ELSE IF expect[a] = "goto" \/ axis[a] = "still" THEN 0
  ELSE IF a \in fast THEN strikes[a]
  ELSE IF Allowed(a) THEN 0 ELSE strikes[a] + 1

\* One reading of both axes, judged; RA first, and not Dec if RA is enough.
\* Coasting lasts a fraction of the watchdog's period: an axis read while it
\* coasts stands still by the next reading.
Judged(fast) == IF Wrong("ra", fast) THEN {"ra"} ELSE Axis
Settled == [a \in Axis |-> IF axis[a] = "coast" THEN "still" ELSE axis[a]]

Reading(fast) ==
  /\ lastSeen' = [a \in Axis |-> IF a \in Judged(fast) THEN expect[a] ELSE lastSeen[a]]
  /\ strikes' = [a \in Axis |-> IF a \in Judged(fast) THEN Strikes(a, fast) ELSE strikes[a]]
  /\ IF \E a \in Axis : Wrong(a, fast)
     THEN Halt(axis, Watchdog)
     ELSE /\ axis' = Settled
          /\ jumped' = [a \in Axis |-> Settled[a] \in Fast]
          /\ expect' = [a \in Axis |-> IF expect[a] = "goto" /\ axis[a] = "still"
                                       THEN "none" ELSE expect[a]]
          /\ UNCHANGED <<pos, cruise, tracking, trackOnArrival, halting>>

Watch ==
  /\ HasLock(Watchdog)
  /\ \E fast \in SUBSET {a \in Axis : MayBeTooFast(a)} : Reading(fast)
  /\ Leaves
  /\ UNCHANGED <<parked, pc, req, orphans>>

-----------------------------------------------------------------------------
(* The controller and the motors                                           *)

GotoEnds(a) ==
  /\ axis[a] = "goto"
  /\ axis' = [axis EXCEPT ![a] = "still"]
  /\ pos' = [pos EXCEPT ![a] = Reached(@)]
  /\ UNCHANGED <<jumped, intent, parked, halting, watch, coroutines>>

CoastEnds(a) ==
  /\ axis[a] = "coast"
  /\ axis' = [axis EXCEPT ![a] = "still"]
  /\ UNCHANGED <<pos, jumped, intent, parked, halting, watch, coroutines>>

\* The axis answers nothing it is told, or is driven from elsewhere.
BreaksDown(a) ==
  /\ a \in Unreliable
  /\ axis[a] \notin Deaf
  /\ Turns([axis EXCEPT ![a] = "runaway"])
  /\ pos' = [pos EXCEPT ![a] = "away"]
  /\ UNCHANGED <<intent, parked, halting, watch, coroutines>>

Nears(a) ==
  /\ axis[a] = "cruise" /\ a \in cruise
  /\ axis' = [axis EXCEPT ![a] = "near"]
  /\ UNCHANGED <<pos, jumped, intent, parked, halting, watch, coroutines>>

\* Nothing stops the axis on its way: a cruise that wait_for_slew polls is
\* stopped well before.
GoesBeyond(a) ==
  /\ \/ axis[a] = "runaway"
     \/ axis[a] \in {"cruise", "near"} /\ a \notin cruise
     \/ axis[a] = "near" /\ \A c \in Clients : pc[c] \notin {"nap", "poll"}
  /\ Turns([axis EXCEPT ![a] = "beyond"])
  /\ pos' = [pos EXCEPT ![a] = "away"]
  /\ UNCHANGED <<intent, parked, halting, watch, coroutines>>

-----------------------------------------------------------------------------
(* The specification                                                       *)

\* connect, just answered: the mount is taken to be parked if it is home.
Init ==
  /\ axis = AnyOf("still")
  /\ pos \in {AnyOf("home"), AnyOf("away")}
  /\ jumped = AnyOf(FALSE)
  /\ expect = AnyOf("none")
  /\ cruise = {}
  /\ tracking = FALSE
  /\ trackOnArrival = FALSE
  /\ parked = (pos["ra"] = "home")
  /\ fault = FALSE
  /\ clean = FALSE
  /\ strikes = AnyOf(0)
  /\ lastSeen = AnyOf("unread")
  /\ queue = <<>>
  /\ pc = [c \in Clients |-> "idle"]
  /\ req = [c \in Clients |-> NoRequest]
  /\ orphans = {}

Call(c) ==
  \/ SlewTo(c) \/ MoveBy(c) \/ Park(c) \/ Unpark(c) \/ WaitForSlew(c)
  \/ AbortSlew(c) \/ SetTracking(c) \/ SetHome(c) \/ SetRaRateOffset(c)
  \/ StepDec(c) \/ PulseGuide(c) \/ ClearFault(c)

Continue(c) ==
  \/ Aim(c) \/ StartMove(c) \/ SetRate(c) \/ Stepped(c) \/ Aborted(c)
  \/ HomeSet(c) \/ FaultChecked(c) \/ Poll(c) \/ JobHalts(c)
  \/ Nap(c) \/ Arrive(c) \/ PulseEnds(c)

Physics(a) == GotoEnds(a) \/ CoastEnds(a) \/ Nears(a) \/ GoesBeyond(a)

Next ==
  \/ \E c \in Clients : Call(c) \/ Continue(c) \/ JobFails(c) \/ Cancel(c)
  \/ \E j \in orphans : OrphanFinishes(j)
  \/ WatchWakes \/ Watch
  \/ \E a \in Axis : Physics(a) \/ BreaksDown(a)

Spec == Init /\ [][Next]_vars

\* Coroutines and threads that can go on do; the lock is first come, first
\* served; axes that turn get somewhere.  Nobody has to call anything.
Fairness ==
  /\ \A c \in Clients : WF_vars(Continue(c))
  /\ WF_vars(\E j \in orphans : OrphanFinishes(j))
  /\ WF_vars(WatchWakes) /\ WF_vars(Watch)
  /\ \A a \in Axis : SF_vars(Physics(a))

FairSpec == Spec /\ Fairness

-----------------------------------------------------------------------------
(* Properties                                                              *)

\* The fields of SyntaMount and the lock hold what the code puts there.
TypeOK ==
  /\ axis \in [Axis -> Motion]
  /\ pos \in [Axis -> Place]
  /\ jumped \in [Axis -> BOOLEAN]
  /\ expect \in [Axis -> Expected]
  /\ cruise \in SUBSET Axis
  /\ tracking \in BOOLEAN
  /\ trackOnArrival \in BOOLEAN
  /\ parked \in BOOLEAN
  /\ fault \in BOOLEAN
  /\ clean \in BOOLEAN
  /\ strikes \in [Axis -> Nat]
  /\ lastSeen \in [Axis -> Expected \cup {"unread"}]
  /\ queue \in Seq(Clients \cup {Watchdog})
  /\ pc \in [Clients -> PC]
  /\ req \in [Clients -> Request]
  /\ orphans \in SUBSET Job

\* _halt: "refuse to move again until told".  A mount that halted with no move
\* past its guards stays halted and still, whatever is called, cancelled or
\* waited for, until clear_fault: nothing turns but an axis out of control.
Undriven == {"still", "coast", "runaway", "beyond"}
HaltHolds == clean => fault /\ \A a \in Axis : axis[a] \in Undriven

\* Why it holds: no coroutine and no thread left behind has a move to make, and
\* nothing remembered can start one again.
NothingRemembered == ~tracking /\ ~trackOnArrival /\ cruise = {}
NothingToStart == /\ \A c \in Clients : ~MayStart(c)
                  /\ \A j \in orphans : ~JobStarts(j)
Quiet == /\ fault
         /\ \A a \in Axis : axis[a] \in Undriven
         /\ NothingRemembered
         /\ NothingToStart
HaltInv == TypeOK /\ (clean => Quiet)

\* A move ordered through the pair every task calls is stopped short of where
\* no move could take an axis: the watchdog is not what ends it.
MovesStayInTravel == \A a \in Axis : axis[a] # "beyond"

\* hardware.md: "Once halted, the mount refuses every move until the fault is
\* cleared".  No step of a halted mount sets a motor turning.
Driven == {"track", "rate", "cruise", "near", "goto"}
HaltRefusesMoves ==
  [][fault => \A a \in Axis : axis'[a] \in Driven => axis[a] \in Driven]_vars

\* The watchdog halts "when an axis turns with no move of ours under way": a
\* mount whose axes all do as they are told is never halted.
HaltsOnlyForRunaways ==
  [][~fault /\ fault' => \E a \in Axis : axis[a] \in Deaf]_vars

\* park: "Back to the position the mount powers up in, then stop."  A mount
\* that says it is parked stands at the zero of both counters.
ParkedAtHome == parked => \A a \in Axis : pos[a] = "home"

\* What turns has somebody who will stop it.  _start_cruise: a cruise is "a
\* constant-rate run with the stopping done here", so an axis at cruising speed
\* is one wait_for_slew knows to stop, unless a stop of both axes is on its way.
\* _expect names "axes moving because this code moved them": declination is
\* expected to be pulsing, and turns at the guide rate, only while a coroutine is
\* in the pulse that will stop it.
Stopping(c) == pc[c] \in {"stop", "zero"}
Pulsing(c) == req[c].axes = {"dec"} /\ pc[c] \in {"rate", "sleep"}
MotionHasAnOwner ==
  /\ \A a \in Axis : axis[a] \in {"cruise", "near"} => a \in cruise \/ \E c \in Clients : Stopping(c)
  /\ axis["dec"] = "rate" \/ expect["dec"] = "pulse" => \E c \in Clients : Pulsing(c)

\* The watchdog, the polls and the motors between them end every fast move: an
\* axis that cruises or is out of control stops, or the mount is halted, or the
\* next move takes the axis over - even when nobody waits for the slew.
Dangerous == {"cruise", "near", "runaway", "beyond"}
MotionEnds ==
  \A a \in Axis : axis[a] \in Dangerous ~>
    \/ fault
    \/ axis[a] \notin Dangerous
    \/ \E c \in Clients : pc[c] = "start" /\ a \in req[c].axes

=============================================================================
