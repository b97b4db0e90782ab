---------------------------- MODULE CameraSharing ----------------------------
(***************************************************************************)
(* The imaging sensor and those who want it: the live view of services/    *)
(* preview.py, which holds it whenever nobody else does; the tasks and the *)
(* capture route, which stand the view down first (`paused`); and routes   *)
(* that just expose.  The camera is devices/backends/zwo/camera.py: an     *)
(* asyncio lock that is never waited for, and SDK calls made in worker     *)
(* threads, which a cancelled coroutine leaves running behind it.          *)
(***************************************************************************)
EXTENDS Naturals, Sequences, FiniteSets, SequencesExt

CONSTANTS
  Users,       (* coroutines that expose inside preview.paused()            *)
  Tasks,       (* those that are tasks of the engine, and can be cancelled  *)
  Askers,      (* coroutines that expose without it                         *)
  View,        (* the live view's stream                                    *)
  None,
  Reconfigures,(* does the operator change the live view's settings?        *)
  Aborts,      (* does the operator abort exposures?                        *)
  Faulty,      (* do SDK calls fail?                                        *)
  MaxThreads   (* bound on threads left behind at one time                  *)

ASSUME TasksAssumption == Tasks \subseteq Users
ASSUME PartiesAssumption ==
  /\ Users \cap Askers = {}
  /\ View \notin Users \cup Askers
  /\ None \notin Users \cup Askers \cup {View}
ASSUME FlagsAssumption == {Reconfigures, Aborts, Faulty} \subseteq BOOLEAN
ASSUME ThreadsAssumption == MaxThreads \in Nat

Exposers == Users \cup Askers
Parties == Exposers \cup {View}

\* prepare, arm, roll, disarm and cut await an SDK call in a worker thread:
\* set the sensor up, start and stop an exposure, start and stop video.
Calls == {"prepare", "arm", "roll", "disarm", "cut"}
Phases == Calls \cup {"idle", "queued", "holding", "exposing", "video", "refused"}

VARIABLES
  enabled,   (* config.enabled of the live view                             *)
  paused,    (* _paused                                                     *)
  resting,   (* the loop sleeps before it looks again                       *)
  lock,      (* the preview's _lock: its holder, then its waiters           *)
  cam,       (* holder of the camera's _lock                                *)
  pc,        (* where each party is; the view is idle between streams       *)
  cancelled, (* parties a CancelledError is on its way to                   *)
  sensor,    (* what the sensor is doing                                    *)
  shown,     (* the camera's _state                                         *)
  setup,     (* whom the sensor is set up for, None if nobody quite         *)
  applied,   (* _applied: whose settings it is believed to have             *)
  threads,   (* SDK calls left behind by cancelled coroutines, oldest first *)
  disturbed  (* history: has an SDK call been overtaken, cut as it started  *)
             (* the video, or written only some of an exposure's settings?  *)

view == <<enabled, paused, resting>>
settings == <<setup, applied>>
hardware == <<sensor, settings, threads, disturbed>>
vars == <<view, lock, cam, pc, cancelled, hardware, shown>>

TaskBusy == \E t \in Tasks : pc[t] # "idle"

\* _wanted
Wanted == enabled /\ ~paused /\ ~TaskBusy

\* A bug: the view films without the preview's lock.
MutantHolds(p) == p = View \/ (lock # <<>> /\ Head(lock) = p)
Holds(p) == lock # <<>> /\ Head(lock) = p
Alive(p) == pc[p] # "idle" /\ p \notin cancelled

\* A call that returns may have overtaken the threads left behind before it.
CallReturns == disturbed' = (disturbed \/ threads # <<>>)

Goes(p, phase) == pc' = [pc EXCEPT ![p] = phase]
Interrupts == cancelled' = IF pc[View] # "idle" THEN cancelled \cup {View} ELSE cancelled

-----------------------------------------------------------------------------
(* Standing the view down                                                  *)

\* paused(), to the lock.  The engine runs one task at a time.
Enter(u) ==
  /\ u \in Users /\ pc[u] = "idle"
  /\ u \in Tasks => ~TaskBusy
  /\ paused' = TRUE
  /\ Interrupts
  /\ Goes(u, "queued")
  /\ lock' = Append(lock, u)
  /\ UNCHANGED <<enabled, resting, cam, hardware, shown>>

Admitted(u) ==
  /\ u \in Users /\ pc[u] = "queued" /\ Holds(u) /\ u \notin cancelled
  /\ Goes(u, "holding")
  /\ UNCHANGED <<view, lock, cam, cancelled, hardware, shown>>

\* A bug: `_paused` is never taken back.
MutantUnpauses == UNCHANGED paused
Unpauses == paused' = FALSE

\* A holder lets the preview's lock go, a cancelled waiter its place in the line.
Released(p) == \E i \in DOMAIN lock : lock[i] = p /\ lock' = RemoveAt(lock, i)

\* A bug: the lock is not released.
MutantLeavesPaused(u) ==
  /\ UNCHANGED lock
  /\ Unpauses
  /\ Goes(u, "idle")

\* The end of paused(), from wherever in it the caller was.
LeavesPaused(u) ==
  /\ Released(u)
  /\ Unpauses
  /\ Goes(u, "idle")

Leave(u) ==
  /\ u \in Users /\ pc[u] \in {"holding", "refused"} /\ u \notin cancelled
  /\ LeavesPaused(u)
  /\ UNCHANGED <<enabled, resting, cam, cancelled, hardware, shown>>

CancelTask(t) ==
  /\ t \in Tasks /\ Alive(t)
  /\ cancelled' = cancelled \cup {t}
  /\ UNCHANGED <<view, lock, cam, pc, hardware, shown>>

-----------------------------------------------------------------------------
(* expose()                                                                *)

\* The lock is tested and, if free, taken without an await between; if not,
\* DeviceBusyError reaches whoever asked, who may ask again.
Expose(p) ==
  /\ pc[p] \in {IF p \in Users THEN "holding" ELSE "idle", "refused"}
  /\ p \notin cancelled
  /\ IF cam = None THEN cam' = p /\ Goes(p, "prepare")
                   ELSE Goes(p, "refused") /\ UNCHANGED cam
  /\ UNCHANGED <<view, lock, cancelled, hardware, shown>>

\* _prepare: "only what changed is sent".
Sets(p) ==
  /\ setup' = IF applied = p THEN setup ELSE p
  /\ applied' = p

\* A write fails, after some and before others, and none is remembered.
SetsPartly(p) ==
  /\ applied # p
  /\ setup' \in {setup, None}
  /\ disturbed' = TRUE
  /\ UNCHANGED applied

Prepared(p) ==
  /\ p \in Exposers /\ pc[p] = "prepare" /\ p \notin cancelled /\ CallReturns
  /\ Sets(p)
  /\ shown' = "exposing"
  /\ Goes(p, "arm")
  /\ UNCHANGED <<view, lock, cam, cancelled, sensor, threads>>

PrepareFails(p) ==
  /\ p \in Exposers /\ pc[p] = "prepare" /\ p \notin cancelled
  /\ SetsPartly(p)
  /\ cam' = None
  /\ Goes(p, IF p \in Users THEN "holding" ELSE "idle")
  /\ UNCHANGED <<view, lock, cancelled, sensor, threads, shown>>

\* start_exposure, refused by a sensor that is doing something else.
Armed(p) ==
  /\ p \in Exposers /\ pc[p] = "arm" /\ p \notin cancelled /\ CallReturns
  /\ IF sensor = "idle" THEN sensor' = "exposing" /\ Goes(p, "exposing")
                        ELSE Goes(p, "disarm") /\ UNCHANGED sensor
  /\ UNCHANGED <<view, lock, cam, cancelled, settings, threads, shown>>

\* expose() is left, for the caller's own code.
Finishes(p) ==
  /\ cam' = None
  /\ shown' = "idle"
  /\ Goes(p, IF p \in Users THEN "holding" ELSE "idle")

Downloaded(p) ==
  /\ p \in Exposers /\ pc[p] = "exposing" /\ p \notin cancelled /\ CallReturns
  /\ sensor = "exposing"
  /\ sensor' = "idle"
  /\ Finishes(p)
  /\ UNCHANGED <<view, lock, cancelled, settings, threads>>

\* The frame does not come: the exposure failed, or was aborted.
Missed(p) ==
  /\ p \in Exposers /\ pc[p] = "exposing" /\ p \notin cancelled
  /\ Faulty \/ sensor # "exposing"
  /\ Goes(p, "disarm")
  /\ UNCHANGED <<view, lock, cam, cancelled, hardware, shown>>

\* _stop_quietly, on the way out of a failed exposure.
Disarmed(p) ==
  /\ p \in Exposers /\ pc[p] = "disarm" /\ p \notin cancelled /\ CallReturns
  /\ sensor' = IF sensor = "exposing" THEN "idle" ELSE sensor
  /\ Finishes(p)
  /\ UNCHANGED <<view, lock, cancelled, settings, threads>>

\* abort_exposure takes no lock.
Abort ==
  /\ Aborts /\ CallReturns
  /\ sensor' = IF sensor = "exposing" THEN "idle" ELSE sensor
  /\ shown' = "idle"
  /\ UNCHANGED <<view, lock, cam, pc, cancelled, settings, threads>>

-----------------------------------------------------------------------------
(* The live view                                                           *)

\* _run begins a stream, whose first await is the lock.
StreamBegins ==
  /\ pc[View] = "idle" /\ ~resting /\ Wanted
  /\ Goes(View, "queued")
  /\ lock' = Append(lock, View)
  /\ UNCHANGED <<view, cam, cancelled, hardware, shown>>

Looks ==
  /\ resting
  /\ resting' = FALSE
  /\ UNCHANGED <<enabled, paused, lock, cam, pc, cancelled, hardware, shown>>

\* The end of _stream, by itself or with an error: the loop is resumed.
StreamEnds(failed) ==
  /\ Released(View)
  /\ Goes(View, "idle")
  /\ resting' = failed

StreamStarts ==
  /\ pc[View] = "queued" /\ Holds(View) /\ View \notin cancelled
  /\ IF cam = None
     THEN cam' = View /\ Goes(View, "prepare") /\ UNCHANGED <<lock, resting>>
     ELSE StreamEnds(TRUE) /\ UNCHANGED cam
  /\ UNCHANGED <<enabled, paused, cancelled, hardware, shown>>

StreamPrepared ==
  /\ pc[View] = "prepare" /\ View \notin cancelled
  /\ \/ /\ CallReturns
        /\ Sets(View)
        /\ shown' = "exposing"
        /\ Goes(View, "roll")
        /\ UNCHANGED <<lock, cam, resting>>
     \/ /\ SetsPartly(View)
        /\ cam' = None /\ StreamEnds(TRUE)
        /\ UNCHANGED shown
  /\ UNCHANGED <<enabled, paused, cancelled, sensor, threads>>

\* start_video_capture stands before the `try` whose `finally` stops it.
Rolling ==
  /\ pc[View] = "roll" /\ View \notin cancelled /\ CallReturns
  /\ \/ /\ sensor' = IF sensor = "idle" THEN "video" ELSE sensor
        /\ Goes(View, "video")
        /\ UNCHANGED <<lock, cam, resting>>
     \/ /\ Faulty \/ sensor # "idle"
        /\ cam' = None /\ StreamEnds(TRUE)
        /\ UNCHANGED sensor
  /\ UNCHANGED <<enabled, paused, cancelled, settings, threads, shown>>

\* A frame arrives to a view nobody wants any more, or none does.
StopsFilming ==
  /\ pc[View] = "video" /\ View \notin cancelled
  /\ ~Wanted \/ Faulty \/ sensor # "video"
  /\ Goes(View, "cut")
  /\ UNCHANGED <<view, lock, cam, cancelled, hardware, shown>>

Cut ==
  /\ pc[View] = "cut" /\ View \notin cancelled /\ CallReturns
  /\ sensor' = IF sensor = "video" THEN "idle" ELSE sensor
  /\ shown' = "idle"
  /\ cam' = None
  /\ StreamEnds(FALSE)
  /\ UNCHANGED <<enabled, paused, cancelled, settings, threads>>

\* update_config: any change restarts the stream.
UpdateConfig ==
  /\ Reconfigures
  /\ enabled' \in BOOLEAN
  /\ Interrupts
  /\ UNCHANGED <<paused, resting, lock, cam, pc, hardware, shown>>

-----------------------------------------------------------------------------
(* CancelledError, raised where its party awaits                           *)

\* A bug: start_exposure stands outside the `try`.
MutantCleanUp(p) == CASE pc[p] = "exposing" -> "disarm"
                      [] pc[p] = "video" -> "cut"
                      [] OTHER -> "none"

\* What a cancelled coroutine does next: it stops the sensor first if it has
\* started it, and otherwise lets go of what it holds.
CleanUp(p) == CASE pc[p] \in {"arm", "exposing"} -> "disarm"
                [] pc[p] = "video" -> "cut"
                [] OTHER -> "none"

\* asyncio cannot stop a thread.
LeavesThread(p) ==
  IF pc[p] \in Calls
  THEN Len(threads) < MaxThreads /\ threads' = Append(threads, [call |-> pc[p], by |-> p])
  ELSE UNCHANGED threads

\* The `finally` of expose() sets the state back; in stream() it stands after
\* an await of its own, and is not reached from "roll" or a second time.
Unwinds(p) ==
  /\ p \in cancelled
  /\ cancelled' = cancelled \ {p}
  /\ LeavesThread(p)
  /\ IF CleanUp(p) # "none"
     THEN Goes(p, CleanUp(p)) /\ UNCHANGED <<view, lock, cam, shown>>
     ELSE /\ cam' = IF cam = p THEN None ELSE cam
          /\ shown' = IF pc[p] = "disarm" THEN "idle" ELSE shown
          /\ UNCHANGED enabled
          /\ IF p = View THEN StreamEnds(FALSE) /\ UNCHANGED paused
                         ELSE LeavesPaused(p) /\ UNCHANGED resting
  /\ disturbed' = (disturbed \/ (p = View /\ pc[p] = "roll"))
  /\ UNCHANGED <<sensor, settings>>

\* A thread that was left behind does what it was sent to do.
ThreadEnds(i) ==
  /\ threads' = RemoveAt(threads, i)
  /\ LET call == threads[i].call
     IN  /\ \/ /\ call = "prepare" /\ Sets(threads[i].by)
               /\ disturbed' = (disturbed \/ i > 1)
            \/ /\ call = "prepare" /\ SetsPartly(threads[i].by)
            \/ /\ call # "prepare" /\ UNCHANGED settings
               /\ disturbed' = (disturbed \/ i > 1)
         /\ sensor' = CASE call = "arm" /\ sensor = "idle" -> "exposing"
                        [] call = "roll" /\ sensor = "idle" -> "video"
                        [] call = "disarm" /\ sensor = "exposing" -> "idle"
                        [] call = "cut" /\ sensor = "video" -> "idle"
                        [] OTHER -> sensor
  /\ UNCHANGED <<view, lock, cam, pc, cancelled, shown>>

-----------------------------------------------------------------------------
Init ==
  /\ enabled \in BOOLEAN
  /\ paused = FALSE
  /\ resting = FALSE
  /\ lock = <<>>
  /\ cam = None
  /\ pc = [p \in Parties |-> "idle"]
  /\ cancelled = {}
  /\ sensor = "idle"
  /\ shown = "idle"
  /\ setup = None
  /\ applied = None
  /\ threads = <<>>
  /\ disturbed = FALSE

UserStep(p) ==
  \/ Admitted(p) \/ Prepared(p) \/ PrepareFails(p) \/ Armed(p)
  \/ Downloaded(p) \/ Missed(p) \/ Disarmed(p)
ViewStep ==
  \/ StreamBegins \/ Looks \/ StreamStarts \/ StreamPrepared
  \/ Rolling \/ StopsFilming \/ Cut

Next ==
  \/ \E p \in Exposers : Enter(p) \/ Leave(p) \/ Expose(p) \/ CancelTask(p) \/ UserStep(p)
  \/ ViewStep \/ UpdateConfig \/ Abort
  \/ \E p \in Parties : Unwinds(p)
  \/ \E i \in DOMAIN threads : ThreadEnds(i)

Spec == Init /\ [][Next]_vars

\* The event loop resumes what can go on and SDK calls return; whoever is in
\* paused() leaves it, sooner or later.
Fairness ==
  /\ \A p \in Exposers : WF_vars(UserStep(p)) /\ SF_vars(Leave(p))
  /\ WF_vars(ViewStep)
  /\ \A p \in Parties : WF_vars(Unwinds(p))
  /\ WF_vars(\E i \in DOMAIN threads : ThreadEnds(i))

FairSpec == Spec /\ Fairness

-----------------------------------------------------------------------------
(* Properties                                                              *)

\* The fields of PreviewService and ZwoCamera hold what the code puts there.
TypeOK ==
  /\ enabled \in BOOLEAN
  /\ paused \in BOOLEAN
  /\ resting \in BOOLEAN
  /\ lock \in Seq(Users \cup {View}) /\ IsInjective(lock)
  /\ cam \in Parties \cup {None}
  /\ pc \in [Parties -> Phases]
  /\ cancelled \in SUBSET Parties
  /\ sensor \in {"idle", "exposing", "video"}
  /\ shown \in {"idle", "exposing"}
  /\ {setup, applied} \subseteq Parties \cup {None}
  /\ threads \in Seq([call : Calls, by : Parties])
  /\ disturbed \in BOOLEAN

\* architecture.md: the live view stands down "for anything with a real claim"
\* on the sensor.  Nobody who asks for an exposure is told the camera is busy.
ClaimsAreServed == \A p \in Exposers : pc[p] # "refused"

\* expose: "a task that is stopped must stop the sensor too, or the next
\* exposure finds it busy".  Whoever holds the camera and is about to start an
\* exposure finds the sensor at rest and set up as asked, whoever was
\* interrupted or cancelled before - as long as no call overtook an abandoned
\* one, was cut short or wrote only some of the settings.
SensorIsReady ==
  ~disturbed => \A p \in Exposers : pc[p] = "arm" =>
                  /\ threads = <<>> => sensor = "idle"
                  /\ setup = p

\* paused: "stops the stream, then keeps the loop off the camera until the
\* caller is done".  Whoever waits to be let in is, or is cancelled.
WaitersGetIn == \A u \in Users : pc[u] = "queued" ~> pc[u] # "queued"

\* The view comes back by itself: once nobody else wants the sensor and its
\* settings are left alone, it has the camera again and again.
Calm == enabled /\ cancelled = {} /\ \A p \in Exposers : pc[p] = "idle"
LiveViewReturns == <>[]Calm => []<>(cam = View)
=============================================================================
