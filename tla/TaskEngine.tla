----------------------------- MODULE TaskEngine -----------------------------
(***************************************************************************)
(* TaskEngine of sequencing/task.py: long jobs that drive the mount and    *)
(* the camera, one at a time, that any client may cancel.  A task is an    *)
(* asyncio task; a cancellation asked for reaches it at its next await.    *)
(* The bodies are those of sequencing/tasks: all of them slew and wait,    *)
(* and some (zenith.py) stop the motors on their way out of a slew.        *)
(***************************************************************************)
EXTENDS Naturals, Sequences, Functions

CONSTANTS
  Tasks,     (* the tasks submitted over the run; each has an id of its own *)
  Cleaning,  (* those that abort the slew they are cancelled in             *)
  Callers,   (* request handlers that cancel tasks                          *)
  History,   (* tasks remembered                                            *)
  None

ASSUME CleaningAssumption == Cleaning \subseteq Tasks
ASSUME HistoryAssumption == History \in Nat \ {0}
ASSUME NoneAssumption == None \notin Tasks

VARIABLES
  state,     (* progress.state, "new" before the task is submitted          *)
  stage,     (* where the runner is                                         *)
  asked,     (* tasks with a cancellation on its way to them                *)
  order,     (* _order: the tasks remembered, oldest first                  *)
  current,   (* _current                                                    *)
  runner,    (* the task _runner runs, or ran                               *)
  waiting,   (* what each caller's cancel awaits                            *)
  driving    (* tasks whose slew still turns the motors                     *)

vars == <<state, stage, asked, order, current, runner, waiting, driving>>

Terminal == {"succeeded", "failed", "cancelled"}
Alive == {"first", "guard", "body", "cleanup"}

\* A bug: what the task has reported of itself is taken for its runner.
MutantBusy == current # None /\ state[current] = "running"
\* _runner is set and not done.
Busy == runner # None /\ stage[runner] \in Alive

\* _trim.
Trimmed(s) == IF Len(s) > History THEN SubSeq(s, Len(s) - History + 1, Len(s)) ELSE s

-----------------------------------------------------------------------------
Submit(t) ==
  /\ state[t] = "new" /\ ~Busy
  /\ state' = [state EXCEPT ![t] = "pending"]
  /\ stage' = [stage EXCEPT ![t] = "first"]
  /\ order' = Trimmed(Append(order, t))
  /\ current' = t
  /\ runner' = t
  /\ UNCHANGED <<asked, waiting, driving>>

\* The runner's first step, which takes it to the camera guard.
Begins(t) ==
  /\ stage[t] = "first"
  /\ state' = [state EXCEPT ![t] = "running"]
  /\ stage' = [stage EXCEPT ![t] = "guard"]
  /\ UNCHANGED <<asked, order, current, runner, waiting, driving>>

\* The live view is down and the guard held: task.run begins.
Enters(t) ==
  /\ stage[t] = "guard" /\ t \notin asked
  /\ stage' = [stage EXCEPT ![t] = "body"]
  /\ UNCHANGED <<state, asked, order, current, runner, waiting, driving>>

Slews(t) ==
  /\ stage[t] = "body" /\ t \notin asked
  /\ driving' = driving \cup {t}
  /\ UNCHANGED <<state, stage, asked, order, current, runner, waiting>>

\* The slew's end, of which wait_for_slew hears if anyone still waits; and
\* the mount's own abort.
SlewEnds(t) ==
  /\ t \in driving
  /\ driving' = driving \ {t}
  /\ UNCHANGED <<state, stage, asked, order, current, runner, waiting>>

\* A bug: a cancellation is not reported.
MutantEnds(t, outcome) ==
  /\ state' = IF outcome = "cancelled" THEN state ELSE [state EXCEPT ![t] = outcome]
  /\ stage' = [stage EXCEPT ![t] = "over"]
  /\ asked' = asked \ {t}
  /\ current' = IF current = t THEN None ELSE current
  /\ UNCHANGED <<order, runner, waiting>>

\* The runner's last step: the except clauses of _run, then its finally.
Ends(t, outcome) ==
  /\ state' = [state EXCEPT ![t] = outcome]
  /\ stage' = [stage EXCEPT ![t] = "over"]
  /\ asked' = asked \ {t}
  /\ current' = IF current = t THEN None ELSE current
  /\ UNCHANGED <<order, runner, waiting>>

Succeeds(t) ==
  /\ stage[t] = "body" /\ t \notin asked /\ t \notin driving
  /\ Ends(t, "succeeded")
  /\ UNCHANGED driving

\* An exception out of the body: a move that times out leaves it turning.
Fails(t) ==
  /\ stage[t] = "body" /\ t \notin asked
  /\ Ends(t, "failed")
  /\ UNCHANGED driving

-----------------------------------------------------------------------------
(* Cancellation                                                            *)

\* cancel(task_id): ids are known to clients only once the task has begun.
Cancel(c, t) ==
  /\ waiting[c] = None
  /\ Busy /\ current = t /\ stage[t] # "first"
  /\ asked' = asked \cup {t}
  /\ waiting' = [waiting EXCEPT ![c] = t]
  /\ UNCHANGED <<state, stage, order, current, runner, driving>>

\* CancelledError is raised inside the slew: the task has motors to stop.
CleansUp(t) == stage[t] = "body" /\ t \in Cleaning /\ t \in driving

\* A bug: the body swallows CancelledError and goes on.
MutantDelivered(t) ==
  /\ t \in asked
  /\ asked' = asked \ {t}
  /\ UNCHANGED <<state, stage, order, current, runner, waiting, driving>>

\* CancelledError is raised where the runner awaits.  In the clean-up it takes
\* the place of what the clean-up had left to do.
Delivered(t) ==
  /\ t \in asked
  /\ IF CleansUp(t)
     THEN /\ stage' = [stage EXCEPT ![t] = "cleanup"]
          /\ asked' = asked \ {t}
          /\ UNCHANGED <<state, order, current, runner, waiting>>
     ELSE Ends(t, "cancelled")
  /\ UNCHANGED driving

\* abort_slew has stopped the motors; the cancellation goes on its way.
CleanedUp(t) ==
  /\ stage[t] = "cleanup" /\ t \notin asked
  /\ driving' = driving \ {t}
  /\ Ends(t, "cancelled")

\* abort_slew raised: the task counts as failed, though it was cancelled.
CleanUpFails(t) ==
  /\ stage[t] = "cleanup" /\ t \notin asked
  /\ Ends(t, "failed")
  /\ UNCHANGED driving

\* cancel's await of the runner is over.
Returns(c) ==
  /\ waiting[c] # None /\ stage[waiting[c]] = "over"
  /\ waiting' = [waiting EXCEPT ![c] = None]
  /\ UNCHANGED <<state, stage, asked, order, current, runner, driving>>

-----------------------------------------------------------------------------
Init ==
  /\ state = [t \in Tasks |-> "new"]
  /\ stage = [t \in Tasks |-> "none"]
  /\ asked = {}
  /\ order = <<>>
  /\ current = None
  /\ runner = None
  /\ waiting = [c \in Callers |-> None]
  /\ driving = {}

Next ==
  \/ \E t \in Tasks :
       \/ Submit(t) \/ Begins(t) \/ Enters(t) \/ Slews(t) \/ SlewEnds(t)
       \/ Succeeds(t) \/ Fails(t)
       \/ Delivered(t) \/ CleanedUp(t) \/ CleanUpFails(t)
  \/ \E c \in Callers : Returns(c) \/ \E t \in Tasks : Cancel(c, t)

Spec == Init /\ [][Next]_vars

\* The event loop resumes what can go on, and a serial command ends.  Nothing
\* makes a body end: that is what cancelling is for.
Fairness ==
  /\ \A t \in Tasks : WF_vars(Begins(t)) /\ WF_vars(Delivered(t))
                      /\ WF_vars(CleanedUp(t) \/ CleanUpFails(t))
  /\ \A c \in Callers : WF_vars(Returns(c))

FairSpec == Spec /\ Fairness

-----------------------------------------------------------------------------
(* Properties                                                              *)

\* The engine's fields hold what the code puts there.
TypeOK ==
  /\ state \in [Tasks -> {"new", "pending", "running"} \cup Terminal]
  /\ stage \in [Tasks -> {"none", "over"} \cup Alive]
  /\ asked \in SUBSET Tasks
  /\ order \in Seq(Tasks) /\ Len(order) <= History
  /\ current \in Tasks \cup {None}
  /\ runner \in Tasks \cup {None}
  /\ waiting \in [Callers -> Tasks \cup {None}]
  /\ driving \in SUBSET Tasks

\* "Two at once would fight over the hardware": the only task under way, its
\* clean-up included, is the one the engine calls current, it is the one cancel
\* reaches, and it has not been trimmed from the history it is looked up in.
OneAtATime ==
  \A t \in Tasks : stage[t] \in Alive =>
    runner = t /\ current = t /\ t \in Range(order)

\* What the engine reports of a task and what its runner does agree: a task is
\* final exactly when its runner is over, and final tasks have no cancellation
\* left to deliver.
ReportsAgree ==
  \A t \in Tasks : /\ state[t] \in Terminal <=> stage[t] = "over"
                   /\ t \in asked => stage[t] \in Alive \ {"first"}

\* One task at a time, and the truth about each of them, whatever is submitted,
\* cancelled and trimmed in whatever order: the three hold one another up.
EngineInv == TypeOK /\ OneAtATime /\ ReportsAgree

\* zenith.py: "Cancelling the task has to stop the motors, not just the
\* waiting".  A task that cleans up and ends cancelled leaves nothing turning.
CancelStopsMotors ==
  \A t \in Cleaning : state[t] = "cancelled" => t \notin driving

\* cancel() returns: whatever the task was doing when it was asked.
CancelReturns == \A c \in Callers : waiting[c] # None ~> waiting[c] = None

\* Whose runner is alive.
Owner == IF \E t \in Tasks : stage[t] \in Alive
         THEN CHOOSE t \in Tasks : stage[t] \in Alive
         ELSE None

\* "Enforces one at a time": the engine gives the rig to one task, and to no
\* other until that task's runner is over, cleaned up and all.
Rig == INSTANCE ExclusiveUse WITH Users <- Tasks, Nobody <- None, user <- Owner
RigIsExclusive == Rig!Spec
=============================================================================
