-------------------------- MODULE GuidingLoopProofs --------------------------
(***************************************************************************)
(* Proofs about GuidingLoop, for any number of requests and guide loops    *)
(* and for every choice of the instance's switches; and about DriftGuiding,*)
(* what the loop does to a star that drifts, for any drifts, windows,      *)
(* limits and counts of dithers and lost frames.  The two modules keep     *)
(* their names apart, so that both can be extended here.                   *)
(***************************************************************************)
EXTENDS GuidingLoop, DriftGuiding, SequenceTheorems, WellFoundedInduction, TLAPS

-----------------------------------------------------------------------------
(* The inductive invariant                                                 *)

\* Whoever waits in stop waits for a loop, and a loop that a CancelledError is
\* on its way to runs and is waited for.
JoinsAreKept ==
  /\ \A h \in Handlers : pc[h] = "joining" <=> joined[h] # None
  /\ \A l \in cancelled : Running(l) /\ \E h \in Handlers : joined[h] = l

\* An offset the service believes in has a loop that will correct or release
\* it, or a stop that will.
OffsetHasAnOwner ==
  offset => \/ \E l \in Loops : loop[l] \in {"frame", "command"}
            \/ \E h \in Handlers : pc[h] = "joining"

\* An offset the mount has is believed in, or being taken back by somebody.
RateHasAnOwner ==
  rate /\ ~cut => \/ offset
                  \/ \E h \in Handlers : pc[h] \in {"nudging", "restoring"}
                  \/ \E l \in Loops : loop[l] = "releasing"

NoLoopPhase == {"checking", "preparing", "measuring", "nudging", "locking", "restoring"}

\* Requests that come one at a time are served one at a time ...
OneRequest ==
  \A g, h \in Handlers : pc[g] = "idle" \/ pc[h] = "idle" \/ g = h

\* ... every loop is the service's own or one that a stop waits for ...
LoopsAreKnown ==
  \A l \in Loops : Running(l) => task = l \/ \E h \in Handlers : joined[h] = l

\* ... and each phase of a request keeps what it was entered with.
PhasesAgree ==
  \A h \in Handlers :
    /\ pc[h] \in NoLoopPhase => ~SomeLoop
    /\ pc[h] \in {"preparing", "measuring", "nudging"} => ~busy
    /\ pc[h] = "checking" /\ busy => calibrated
    /\ pc[h] \in {"checking", "preparing", "locking"} => state \in {"stopped", "error"}
    /\ pc[h] \in {"joining", "restoring"} => task = None

QuietAgrees ==
  AllQuiet => /\ state # "calibrating"
              /\ state = "stopped" => ~SomeLoop
              /\ state \in {"guiding", "settling", "dithering", "lost"} => SomeLoop

InOrder == OneRequest /\ LoopsAreKnown /\ PhasesAgree /\ QuietAgrees

GuideInv ==
  /\ TypeOK
  /\ JoinsAreKept
  /\ OffsetHasAnOwner
  /\ RateHasAnOwner
  /\ orderly => InOrder

-----------------------------------------------------------------------------
(* Every step, by what it is a step of                                     *)

\* A rig just started has no loop, no request and no offset.
LEMMA InitInv == Init => GuideInv
<1> SUFFICES ASSUME Init PROVE GuideInv
  OBVIOUS
<1> USE DEF Init
<1>1. TypeOK
  BY DEF TypeOK, GuidingState, LoopPhase, HandlerPhase
<1>2. JoinsAreKept /\ OffsetHasAnOwner /\ RateHasAnOwner
  BY DEF JoinsAreKept, OffsetHasAnOwner, RateHasAnOwner
<1>3. OneRequest /\ LoopsAreKnown /\ PhasesAgree /\ QuietAgrees
  BY DEF OneRequest, LoopsAreKnown, PhasesAgree, QuietAgrees, SomeLoop, Running, NoLoopPhase
<1> QED
  BY <1>1, <1>2, <1>3 DEF GuideInv, InOrder

\* The fields keep their types through every step.
LEMMA StepTyped == TypeOK /\ [Next]_vars => TypeOK'
<1> SUFFICES ASSUME TypeOK, [Next]_vars PROVE TypeOK'
  OBVIOUS
<1> USE DEF TypeOK, GuidingState, LoopPhase, HandlerPhase, Goes, LoopGoes, Asks,
            service, loops, requests, history
<1>1. CASE UNCHANGED vars
  BY <1>1 DEF vars
<1>2. ASSUME NEW h \in Handlers, Request(h)
      PROVE  TypeOK'
  <2>1. CASE Calibrate(h)
    BY <2>1 DEF Calibrate
  <2>2. CASE Clear(h)
    BY <2>2 DEF Clear
  <2>3. CASE Start(h)
    BY <2>3 DEF Start
  <2>4. CASE Stop(h)
    BY <2>4 DEF Stop, Restores, Stoppable, TaskAlive
  <2>5. CASE Dither(h)
    BY <2>5 DEF Dither
  <2> QED
    BY <1>2, <2>1, <2>2, <2>3, <2>4, <2>5 DEF Request
<1>3. ASSUME NEW h \in Handlers, Continues(h)
      PROVE  TypeOK'
  <2>1. CASE Prepared(h) \/ NudgeBegins(h) \/ NudgeEnds(h)
    BY <2>1 DEF Prepared, NudgeBegins, NudgeEnds
  <2>2. CASE Calibrated(h) \/ CalibrationFails(h)
    BY <2>2 DEF Calibrated, CalibrationFails
  <2>3. CASE Checked(h) \/ Locked(h) \/ LockFails(h)
    BY <2>3 DEF Checked, Locked, LockFails
  <2>4. CASE Joined(h) \/ Restored(h) \/ Dithered(h)
    BY <2>4 DEF Joined, Restores, Restored, Dithered, SomeLoop
  <2> QED
    BY <1>3, <2>1, <2>2, <2>3, <2>4 DEF Continues
<1>4. ASSUME NEW l \in Loops, LoopSteps(l)
      PROVE  TypeOK'
  <2>1. CASE Lost(l) \/ Settles(l) \/ Corrects(l) \/ Corrected(l)
    BY <2>1 DEF Lost, Settles, Corrects, Corrected
  <2>2. CASE LoopFails(l)
    BY <2>2 DEF LoopFails, Fails, Verdict
  <2>3. CASE LoopReleased(l) \/ LoopAborted(l)
    BY <2>3 DEF LoopReleased, LoopAborted, Verdict
  <2> QED
    BY <1>4, <2>1, <2>2, <2>3 DEF LoopSteps
<1>5. ASSUME NEW l \in Loops, LoopEnds(l)
      PROVE  TypeOK'
  BY <1>5 DEF LoopEnds, Cancelled, CommandFirst, InCommand
<1>6. CASE TaskRuns
  BY <1>6 DEF TaskRuns
<1> QED
  BY <1>1, <1>2, <1>3, <1>4, <1>5, <1>6 DEF Next

\* Waits and cancellations go together: only stop makes either, a cancelled
\* loop stops running only as it takes the cancellation, and a wait ends only
\* when the loop has.
LEMMA StepJoins == TypeOK /\ JoinsAreKept /\ [Next]_vars => JoinsAreKept'
<1> SUFFICES ASSUME TypeOK, JoinsAreKept, [Next]_vars PROVE JoinsAreKept'
  OBVIOUS
<1> USE DEF TypeOK, JoinsAreKept, Running, Goes, LoopGoes, Asks, loops, requests
<1>1. CASE UNCHANGED vars
  BY <1>1 DEF vars
<1>2. ASSUME NEW h \in Handlers, Request(h)
      PROVE  JoinsAreKept'
  <2>1. CASE Calibrate(h) \/ Clear(h) \/ Start(h) \/ Dither(h)
    BY <2>1 DEF Calibrate, Clear, Start, Dither
  <2>2. CASE Stop(h) /\ Stoppable
    <3>1. task \in Loops /\ loop[task] \notin {"unborn", "over"} /\ task # None
      BY <2>2 DEF Stoppable, TaskAlive
    <3>2. joined[h] = None /\ pc[h] = "idle"
      BY <2>2 DEF Stop
    <3>3. /\ pc' = [pc EXCEPT ![h] = "joining"] /\ joined' = [joined EXCEPT ![h] = task]
          /\ cancelled' = cancelled \cup {task} /\ loop' = loop
      BY <2>2 DEF Stop
    <3>4. \A g \in Handlers : pc'[g] = "joining" <=> joined'[g] # None
      BY <3>1, <3>3
    <3>5. ASSUME NEW l \in cancelled'
          PROVE  loop'[l] \notin {"unborn", "over"} /\ \E g \in Handlers : joined'[g] = l
      <4>1. CASE l = task
        BY <3>1, <3>3, <4>1
      <4>2. CASE l \in cancelled
        <5>1. PICK g \in Handlers : joined[g] = l
          BY <4>2
        <5>2. g # h
          BY <3>2, <4>2, <5>1, NoneAssumption
        <5> QED
          BY <3>3, <4>2, <5>1, <5>2
      <4> QED
        BY <3>3, <4>1, <4>2
    <3> QED
      BY <3>4, <3>5
  <2>3. CASE Stop(h) /\ ~Stoppable
    BY <2>3 DEF Stop, Restores
  <2> QED
    BY <1>2, <2>1, <2>2, <2>3 DEF Request
<1>3. ASSUME NEW h \in Handlers, Continues(h)
      PROVE  JoinsAreKept'
  <2>1. CASE Prepared(h) \/ NudgeBegins(h) \/ NudgeEnds(h)
    BY <2>1 DEF Prepared, NudgeBegins, NudgeEnds
  <2>2. CASE Calibrated(h) \/ CalibrationFails(h) \/ Checked(h) \/ LockFails(h)
    BY <2>2 DEF Calibrated, CalibrationFails, Checked, LockFails
  <2>3. CASE Locked(h)
    BY <2>3 DEF Locked
  <2>4. CASE Joined(h)
    BY <2>4 DEF Joined, Restores
  <2>5. CASE Restored(h) \/ Dithered(h)
    BY <2>5 DEF Restored, Dithered
  <2> QED
    BY <1>3, <2>1, <2>2, <2>3, <2>4, <2>5 DEF Continues
<1>4. ASSUME NEW l \in Loops, LoopSteps(l)
      PROVE  JoinsAreKept'
  <2>1. CASE Lost(l) \/ Settles(l) \/ Corrects(l) \/ Corrected(l)
    BY <2>1 DEF Lost, Settles, Corrects, Corrected
  <2>2. CASE LoopFails(l) \/ LoopReleased(l) \/ LoopAborted(l)
    BY <2>2 DEF LoopFails, Fails, LoopReleased, LoopAborted
  <2> QED
    BY <1>4, <2>1, <2>2 DEF LoopSteps
<1>5. ASSUME NEW l \in Loops, LoopEnds(l)
      PROVE  JoinsAreKept'
  BY <1>5 DEF LoopEnds, Cancelled, CommandFirst
<1>6. CASE TaskRuns
  BY <1>6 DEF TaskRuns
<1> QED
  BY <1>1, <1>2, <1>3, <1>4, <1>5, <1>6 DEF Next

\* Whatever ends a loop with an offset believed in leaves a stop that waits,
\* and whatever ends the stop forgets the offset.
LEMMA StepOffset ==
  TypeOK /\ JoinsAreKept /\ OffsetHasAnOwner /\ [Next]_vars => OffsetHasAnOwner'
<1> SUFFICES ASSUME TypeOK, JoinsAreKept, OffsetHasAnOwner, [Next]_vars
             PROVE  OffsetHasAnOwner'
  OBVIOUS
<1> USE DEF TypeOK, OffsetHasAnOwner, Goes, LoopGoes, Asks, service, loops, requests
<1>1. CASE UNCHANGED vars
  BY <1>1 DEF vars
<1>2. ASSUME NEW h \in Handlers, Request(h)
      PROVE  OffsetHasAnOwner'
  <2>1. CASE Calibrate(h) \/ Clear(h) \/ Start(h) \/ Dither(h)
    BY <2>1 DEF Calibrate, Clear, Start, Dither
  <2>2. CASE Stop(h)
    BY <2>2 DEF Stop, Restores
  <2> QED
    BY <1>2, <2>1, <2>2 DEF Request
<1>3. ASSUME NEW h \in Handlers, Continues(h)
      PROVE  OffsetHasAnOwner'
  <2>1. CASE Prepared(h) \/ NudgeBegins(h) \/ NudgeEnds(h)
    BY <2>1 DEF Prepared, NudgeBegins, NudgeEnds
  <2>2. CASE Calibrated(h) \/ CalibrationFails(h) \/ Checked(h) \/ LockFails(h)
    BY <2>2 DEF Calibrated, CalibrationFails, Checked, LockFails
  <2>3. CASE Locked(h)
    BY <2>3 DEF Locked
  <2>4. CASE Joined(h)
    BY <2>4 DEF Joined, Restores
  <2>5. CASE Restored(h) \/ Dithered(h)
    BY <2>5 DEF Restored, Dithered
  <2> QED
    BY <1>3, <2>1, <2>2, <2>3, <2>4, <2>5 DEF Continues
<1>4. ASSUME NEW l \in Loops, LoopSteps(l)
      PROVE  OffsetHasAnOwner'
  <2>1. CASE Lost(l) \/ Settles(l) \/ Corrects(l) \/ Corrected(l)
    BY <2>1 DEF Lost, Settles, Corrects, Corrected
  <2>2. CASE LoopFails(l)
    BY <2>2 DEF LoopFails, Fails
  <2>3. CASE LoopReleased(l) \/ LoopAborted(l)
    BY <2>3 DEF LoopReleased, LoopAborted
  <2> QED
    BY <1>4, <2>1, <2>2, <2>3 DEF LoopSteps
<1>5. ASSUME NEW l \in Loops, Cancelled(l)
      PROVE  OffsetHasAnOwner'
  <2>1. PICK h \in Handlers : joined[h] = l
    BY <1>5 DEF Cancelled, JoinsAreKept
  <2>2. pc[h] = "joining"
    BY <2>1, NoneAssumption DEF JoinsAreKept
  <2> QED
    BY <1>5, <2>2 DEF Cancelled
<1>6. ASSUME NEW l \in Loops, CommandFirst(l)
      PROVE  OffsetHasAnOwner'
  BY <1>6 DEF CommandFirst
<1>7. CASE TaskRuns
  BY <1>7 DEF TaskRuns
<1> QED
  BY <1>1, <1>2, <1>3, <1>4, <1>5, <1>6, <1>7 DEF Next, LoopEnds

\* Nobody who takes the offset back forgets it before the mount has: only a
\* cancelled mount command parts what the mount does from what is believed.
LEMMA StepRate == TypeOK /\ RateHasAnOwner /\ [Next]_vars => RateHasAnOwner'
<1> SUFFICES ASSUME TypeOK, RateHasAnOwner, [Next]_vars PROVE RateHasAnOwner'
  OBVIOUS
<1> USE DEF TypeOK, RateHasAnOwner, Goes, LoopGoes, Asks, service, loops, requests, history
<1>1. CASE UNCHANGED vars
  BY <1>1 DEF vars
<1>2. ASSUME NEW h \in Handlers, Request(h)
      PROVE  RateHasAnOwner'
  <2>1. CASE Calibrate(h) \/ Clear(h) \/ Start(h) \/ Dither(h)
    BY <2>1 DEF Calibrate, Clear, Start, Dither
  <2>2. CASE Stop(h)
    BY <2>2 DEF Stop, Restores
  <2> QED
    BY <1>2, <2>1, <2>2 DEF Request
<1>3. ASSUME NEW h \in Handlers, Continues(h)
      PROVE  RateHasAnOwner'
  <2>1. CASE Prepared(h) \/ NudgeBegins(h) \/ NudgeEnds(h)
    BY <2>1 DEF Prepared, NudgeBegins, NudgeEnds
  <2>2. CASE Calibrated(h) \/ CalibrationFails(h) \/ Checked(h) \/ LockFails(h)
    BY <2>2 DEF Calibrated, CalibrationFails, Checked, LockFails
  <2>3. CASE Locked(h)
    BY <2>3 DEF Locked
  <2>4. CASE Joined(h)
    BY <2>4 DEF Joined, Restores
  <2>5. CASE Restored(h) \/ Dithered(h)
    BY <2>5 DEF Restored, Dithered
  <2> QED
    BY <1>3, <2>1, <2>2, <2>3, <2>4, <2>5 DEF Continues
<1>4. ASSUME NEW l \in Loops, LoopSteps(l)
      PROVE  RateHasAnOwner'
  <2>1. CASE Lost(l) \/ Settles(l) \/ Corrects(l) \/ Corrected(l)
    BY <2>1 DEF Lost, Settles, Corrects, Corrected
  <2>2. CASE LoopFails(l)
    BY <2>2 DEF LoopFails, Fails
  <2>3. CASE LoopReleased(l) \/ LoopAborted(l)
    BY <2>3 DEF LoopReleased, LoopAborted
  <2> QED
    BY <1>4, <2>1, <2>2, <2>3 DEF LoopSteps
<1>5. ASSUME NEW l \in Loops, LoopEnds(l)
      PROVE  RateHasAnOwner'
  <2>1. CASE Cancelled(l) /\ InCommand(l)
    BY <2>1 DEF Cancelled
  <2>2. CASE Cancelled(l) /\ ~InCommand(l)
    <3>1. rate' = rate /\ loop[l] # "releasing" /\ offset' = offset /\ pc' = pc /\ cut' = cut
      BY <2>2 DEF Cancelled, InCommand
    <3> QED
      BY <2>2, <3>1 DEF Cancelled
  <2>3. CASE CommandFirst(l)
    BY <2>3 DEF CommandFirst
  <2> QED
    BY <1>5, <2>1, <2>2, <2>3 DEF LoopEnds
<1>6. CASE TaskRuns
  BY <1>6 DEF TaskRuns
<1> QED
  BY <1>1, <1>2, <1>3, <1>4, <1>5, <1>6 DEF Next

\* With no request under way, the one loop there can be is the service's own:
\* `self._task and not self._task.done()` sees every loop there is.
LEMMA QuietMeansKnown ==
  ASSUME TypeOK, JoinsAreKept, InOrder, AllQuiet
  PROVE  SomeLoop <=> TaskAlive
<1>1. \A h \in Handlers : joined[h] = None
  BY DEF AllQuiet, JoinsAreKept
<1>2. \A l \in Loops : Running(l) => task = l
  BY <1>1, NoneAssumption DEF InOrder, LoopsAreKnown
<1> QED
  BY <1>2, NoneAssumption DEF SomeLoop, TaskAlive, TypeOK

\* A request that keeps the order comes when none is under way.
LEMMA RequestInOrder ==
  ASSUME GuideInv, NEW h \in Handlers, Request(h), orderly'
  PROVE  InOrder'
<1> USE DEF TypeOK, Goes, Asks
<1>1. AllQuiet /\ orderly /\ InOrder /\ pc[h] = "idle" /\ TypeOK /\ JoinsAreKept
  BY DEF Request, Calibrate, Clear, Start, Stop, Dither, GuideInv
<1>2. SomeLoop <=> TaskAlive
  BY <1>1, QuietMeansKnown
<1>3. loop' = loop /\ SomeLoop' = SomeLoop /\ (\A l \in Loops : Running(l)' = Running(l))
  BY DEF Request, Calibrate, Clear, Start, Stop, Dither, loops, SomeLoop, Running
<1>4. /\ \A g \in Handlers : pc[g] = "idle" /\ joined[g] = None
      /\ \A g \in Handlers \ {h} : pc'[g] = "idle"
      /\ pc' \in [Handlers -> HandlerPhase]
  <2>1. TypeOK'
    BY StepTyped DEF GuideInv, Next
  <2> QED
    BY <1>1, <2>1 DEF AllQuiet, JoinsAreKept, Request, Calibrate, Clear, Start, Stop,
                      Restores, Dither, requests
<1>5. OneRequest'
  BY <1>4 DEF OneRequest
<1>6. CASE Calibrate(h)
  <2>1. /\ ~SomeLoop /\ ~busy /\ busy' = busy /\ pc'[h] = "preparing" /\ task' = task
        /\ joined' = joined /\ state' = state
    BY <1>6, <1>1 DEF Calibrate, Refused, service
  <2>2. state \in {"stopped", "error"}
    BY <1>1, <2>1 DEF InOrder, QuietAgrees, GuidingState
  <2>3. LoopsAreKnown'
    BY <1>1, <1>3, <2>1 DEF InOrder, LoopsAreKnown
  <2>4. PhasesAgree'
    BY <1>3, <1>4, <2>1, <2>2 DEF PhasesAgree, NoLoopPhase
  <2>5. QuietAgrees'
    BY <1>4, <2>1 DEF QuietAgrees, AllQuiet
  <2> QED
    BY <1>5, <2>3, <2>4, <2>5 DEF InOrder
<1>7. CASE Clear(h)
  <2>1. /\ pc' = pc /\ joined' = joined /\ state' = state /\ task' = task /\ busy' = busy
    BY <1>7 DEF Clear, requests
  <2>2. LoopsAreKnown' /\ QuietAgrees'
    BY <1>1, <1>3, <2>1 DEF InOrder, LoopsAreKnown, QuietAgrees, AllQuiet
  <2>3. PhasesAgree'
    BY <1>4, <2>1 DEF PhasesAgree, NoLoopPhase
  <2> QED
    BY <1>5, <2>2, <2>3 DEF InOrder
<1>8. CASE Start(h)
  <2>1. /\ ~TaskAlive /\ (busy => calibrated) /\ busy' = busy /\ calibrated' = calibrated
        /\ pc'[h] = "checking" /\ task' = task /\ joined' = joined /\ state' = state
    BY <1>8, <1>1 DEF Start, MayStart, Refused, service
  <2>2. ~SomeLoop /\ state \in {"stopped", "error"}
    BY <1>1, <1>2, <2>1 DEF InOrder, QuietAgrees, GuidingState
  <2>3. LoopsAreKnown'
    BY <1>1, <1>3, <2>1 DEF InOrder, LoopsAreKnown
  <2>4. PhasesAgree'
    BY <1>3, <1>4, <2>1, <2>2 DEF PhasesAgree, NoLoopPhase
  <2>5. QuietAgrees'
    BY <1>4, <2>1 DEF QuietAgrees, AllQuiet
  <2> QED
    BY <1>5, <2>3, <2>4, <2>5 DEF InOrder
<1>9. CASE Stop(h) /\ Stoppable
  <2>1. /\ task' = None /\ pc'[h] = "joining" /\ joined'[h] = task
    BY <1>9, <1>1 DEF Stop
  <2>2. LoopsAreKnown'
    BY <1>1, <1>3, <1>4, <2>1 DEF InOrder, LoopsAreKnown
  <2>3. PhasesAgree'
    BY <1>4, <2>1 DEF PhasesAgree, NoLoopPhase
  <2>4. QuietAgrees'
    BY <1>4, <2>1 DEF QuietAgrees, AllQuiet
  <2> QED
    BY <1>5, <2>2, <2>3, <2>4 DEF InOrder
<1>10. CASE Stop(h) /\ ~Stoppable
  <2>1. ~SomeLoop /\ task' = None /\ pc'[h] \in {"restoring", "idle"}
    BY <1>10, <1>1, <1>2 DEF Stop, Stoppable, Restores
  <2>2. pc'[h] = "idle" => state' = "stopped"
    BY <1>10, <1>1 DEF Stop, Restores
  <2>3. LoopsAreKnown'
    BY <1>3, <2>1 DEF LoopsAreKnown, SomeLoop
  <2>4. PhasesAgree'
    BY <1>3, <1>4, <2>1 DEF PhasesAgree, NoLoopPhase
  <2>5. QuietAgrees'
    BY <1>3, <2>1, <2>2 DEF QuietAgrees, AllQuiet
  <2> QED
    BY <1>5, <2>3, <2>4, <2>5 DEF InOrder
<1>11. CASE Dither(h)
  <2>1. pc'[h] = "settling" /\ task' = task /\ joined' = joined
    BY <1>11, <1>1 DEF Dither
  <2>2. LoopsAreKnown'
    BY <1>1, <1>3, <2>1 DEF InOrder, LoopsAreKnown
  <2>3. PhasesAgree'
    BY <1>4, <2>1 DEF PhasesAgree, NoLoopPhase
  <2>4. QuietAgrees'
    BY <1>4, <2>1 DEF QuietAgrees, AllQuiet
  <2> QED
    BY <1>5, <2>2, <2>3, <2>4 DEF InOrder
<1> QED
  BY <1>6, <1>7, <1>8, <1>9, <1>10, <1>11 DEF Request

\* A request that goes on is the only one there is, and leaves its phase as the
\* next one expects it.
LEMMA ContinuesInOrder ==
  ASSUME GuideInv, NEW h \in Handlers, Continues(h), orderly'
  PROVE  InOrder'
<1> USE DEF TypeOK, Goes
<1>1. orderly /\ InOrder /\ pc[h] # "idle" /\ TypeOK /\ JoinsAreKept
  BY DEF Continues, Prepared, NudgeBegins, NudgeEnds, Calibrated, CalibrationFails, Checked,
         Locked, LockFails, Joined, Restored, Dithered, GuideInv, history
<1>2. \A g \in Handlers \ {h} : pc[g] = "idle" /\ joined[g] = None
  BY <1>1 DEF InOrder, OneRequest, JoinsAreKept
<1>3. pc' \in [Handlers -> HandlerPhase] /\ \A g \in Handlers \ {h} : pc'[g] = "idle"
  <2>1. TypeOK'
    BY StepTyped DEF GuideInv, Next
  <2> QED
    BY <1>1, <1>2, <2>1
       DEF Continues, Prepared, NudgeBegins, NudgeEnds, Calibrated, CalibrationFails, Checked,
           Locked, LockFails, Joined, Restores, Restored, Dithered
<1>4. OneRequest'
  BY <1>3 DEF OneRequest
<1>5. CASE Locked(h)
  <2>1. PICK l \in Loops : loop' = [loop EXCEPT ![l] = "frame"] /\ task' = l
    BY <1>5 DEF Locked, LoopGoes
  <2>2. ~SomeLoop /\ pc'[h] = "idle" /\ state' = "settling" /\ joined' = joined
    BY <1>5, <1>1 DEF Locked, InOrder, PhasesAgree, NoLoopPhase
  <2>3. LoopsAreKnown'
    BY <1>1, <2>1, <2>2 DEF LoopsAreKnown, SomeLoop, Running
  <2>4. PhasesAgree'
    BY <1>3, <2>2 DEF PhasesAgree, NoLoopPhase
  <2>5. SomeLoop'
    BY <1>1, <2>1 DEF SomeLoop, Running
  <2>6. QuietAgrees'
    BY <2>2, <2>5 DEF QuietAgrees
  <2> QED
    BY <1>4, <2>3, <2>4, <2>6 DEF InOrder
<1>6. ASSUME ~Locked(h)
      PROVE  InOrder'
  <2>1. loop' = loop /\ SomeLoop' = SomeLoop /\ (\A l \in Loops : Running(l)' = Running(l))
    BY <1>6 DEF Continues, Prepared, NudgeBegins, NudgeEnds, Calibrated, CalibrationFails,
                Checked, LockFails, Joined, Restored, Dithered, loops, SomeLoop, Running
  <2>2. /\ busy' = busy /\ task' = task
    BY <1>6 DEF Continues, Prepared, NudgeBegins, NudgeEnds, Calibrated, CalibrationFails,
                Checked, LockFails, Joined, Restored, Dithered, service
  <2>3. CASE Prepared(h) \/ NudgeBegins(h) \/ NudgeEnds(h) \/ Calibrated(h)
             \/ CalibrationFails(h) \/ Checked(h) \/ LockFails(h)
    <3>1. ~SomeLoop /\ joined' = joined
      BY <2>3, <1>1 DEF Prepared, NudgeBegins, NudgeEnds, Calibrated, CalibrationFails,
         Checked, LockFails, loops, requests, InOrder, PhasesAgree, NoLoopPhase
    <3>2. LoopsAreKnown'
      BY <2>1, <3>1 DEF LoopsAreKnown, SomeLoop
    <3>3. /\ pc'[h] \in {"preparing", "measuring", "nudging"} => ~busy
          /\ pc'[h] \in {"preparing", "locking"} => state' \in {"stopped", "error"}
          /\ pc'[h] \in {"idle", "preparing", "measuring", "nudging", "locking"}
          /\ pc'[h] = "idle" => state' \in {"stopped", "error"}
      BY <2>3, <1>1 DEF Prepared, NudgeBegins, NudgeEnds, Calibrated, CalibrationFails,
         Checked, LockFails, InOrder, PhasesAgree, service
    <3>4. PhasesAgree'
      BY <1>3, <2>1, <2>2, <3>1, <3>3 DEF PhasesAgree, NoLoopPhase
    <3>5. QuietAgrees'
      BY <2>1, <3>1, <3>3 DEF QuietAgrees, AllQuiet
    <3> QED
      BY <1>4, <3>2, <3>4, <3>5 DEF InOrder
  <2>4. CASE Joined(h)
    <3>1. task = None /\ pc'[h] \in {"restoring", "idle"}
      BY <2>4, <1>1 DEF Joined, Restores, InOrder, PhasesAgree
    <3>2. ~SomeLoop
      BY <2>4, <1>1, <1>2, <3>1, NoneAssumption
         DEF Joined, SomeLoop, InOrder, LoopsAreKnown
    <3>3. pc'[h] = "idle" => state' = "stopped"
      BY <2>4, <1>1 DEF Joined, Restores
    <3>4. LoopsAreKnown'
      BY <2>1, <3>2 DEF LoopsAreKnown, SomeLoop
    <3>5. PhasesAgree'
      BY <1>3, <2>1, <2>2, <3>1, <3>2 DEF PhasesAgree, NoLoopPhase
    <3>6. QuietAgrees'
      BY <2>1, <3>2, <3>3 DEF QuietAgrees, AllQuiet
    <3> QED
      BY <1>4, <3>4, <3>5, <3>6 DEF InOrder
  <2>5. CASE Restored(h)
    <3>1. ~SomeLoop /\ pc'[h] = "idle" /\ state' = "stopped"
      BY <2>5, <1>1 DEF Restored, InOrder, PhasesAgree, NoLoopPhase
    <3>2. LoopsAreKnown'
      BY <2>1, <3>1 DEF LoopsAreKnown, SomeLoop
    <3>3. PhasesAgree'
      BY <1>3, <3>1 DEF PhasesAgree, NoLoopPhase
    <3>4. QuietAgrees'
      BY <2>1, <3>1 DEF QuietAgrees
    <3> QED
      BY <1>4, <3>2, <3>3, <3>4 DEF InOrder
  <2>6. CASE Dithered(h)
    <3>1. SomeLoop /\ pc'[h] = "idle" /\ state' = "guiding" /\ joined' = joined
      BY <2>6, <1>1 DEF Dithered
    <3>2. LoopsAreKnown'
      BY <1>1, <2>1, <2>2, <3>1 DEF InOrder, LoopsAreKnown
    <3>3. PhasesAgree'
      BY <1>3, <3>1 DEF PhasesAgree, NoLoopPhase
    <3>4. QuietAgrees'
      BY <2>1, <3>1 DEF QuietAgrees
    <3> QED
      BY <1>4, <3>2, <3>3, <3>4 DEF InOrder
  <2> QED
    BY <1>6, <2>3, <2>4, <2>5, <2>6 DEF Continues
<1> QED
  BY <1>5, <1>6

\* A loop's own step leaves it running, or leaves the state at "error".
LEMMA LoopStepsInOrder ==
  ASSUME GuideInv, NEW l \in Loops, LoopSteps(l), orderly'
  PROVE  InOrder'
<1> USE DEF TypeOK, LoopGoes
<1>1. /\ orderly /\ InOrder /\ TypeOK /\ Running(l)
      /\ pc' = pc /\ joined' = joined /\ task' = task
  BY DEF LoopSteps, Lost, Settles, Corrects, Corrected, LoopFails, LoopReleased, LoopAborted,
         Running, GuideInv, history, requests, service
<1>2. \A k \in Loops : Running(k)' => Running(k)
  BY <1>1 DEF LoopSteps, Lost, Settles, Corrects, Corrected, LoopFails, Fails, LoopReleased,
              LoopAborted, Running, loops
<1>3. SomeLoop /\ \A h \in Handlers : pc[h] \notin NoLoopPhase
  BY <1>1 DEF SomeLoop, InOrder, PhasesAgree
<1>4. Running(l)' \/ state' = "error"
  BY <1>1 DEF LoopSteps, Lost, Settles, Corrects, Corrected, LoopFails, Fails, LoopReleased,
              LoopAborted, Verdict, Running, loops
<1>5. state' \in {state, "lost", "settling", "guiding", "error"}
  BY DEF LoopSteps, Lost, Settles, Corrects, Corrected, LoopFails, Fails, LoopReleased,
              LoopAborted, Verdict, service
<1>6. OneRequest' /\ LoopsAreKnown'
  BY <1>1, <1>2 DEF InOrder, OneRequest, LoopsAreKnown
<1>7. PhasesAgree'
  BY <1>1, <1>3 DEF InOrder, PhasesAgree, NoLoopPhase
<1>8. QuietAgrees'
  <2>1. AllQuiet' => state # "calibrating" /\ state # "stopped"
    BY <1>1, <1>3 DEF AllQuiet, InOrder, QuietAgrees
  <2> QED
    BY <1>4, <1>5, <2>1 DEF QuietAgrees, SomeLoop
<1> QED
  BY <1>6, <1>7, <1>8 DEF InOrder

\* A loop that takes its cancellation, or finishes a command first, has a stop
\* waiting for it: nothing is said of the state until that has returned.
LEMMA LoopEndsInOrder ==
  ASSUME GuideInv, NEW l \in Loops, LoopEnds(l), orderly'
  PROVE  InOrder'
<1> USE DEF TypeOK, LoopGoes
<1>1. /\ orderly /\ InOrder /\ TypeOK /\ JoinsAreKept /\ l \in cancelled
      /\ pc' = pc /\ joined' = joined /\ task' = task
  BY DEF LoopEnds, Cancelled, CommandFirst, GuideInv, history, requests, service
<1>2. PICK h \in Handlers : joined[h] = l
  BY <1>1 DEF JoinsAreKept
<1>3. pc[h] = "joining" /\ Running(l)
  BY <1>1, <1>2, NoneAssumption DEF JoinsAreKept
<1>4. \A k \in Loops : Running(k)' => Running(k)
  BY <1>1, <1>3 DEF LoopEnds, Cancelled, CommandFirst, Running
<1>5. OneRequest' /\ LoopsAreKnown'
  BY <1>1, <1>4 DEF InOrder, OneRequest, LoopsAreKnown
<1>6. \A g \in Handlers : pc[g] \notin NoLoopPhase
  BY <1>1, <1>3 DEF InOrder, OneRequest, NoLoopPhase
<1>7. PhasesAgree' /\ QuietAgrees'
  BY <1>1, <1>3, <1>6 DEF InOrder, PhasesAgree, QuietAgrees, AllQuiet, NoLoopPhase
<1> QED
  BY <1>5, <1>7 DEF InOrder

\* No step breaks the invariant.
LEMMA StepInv == GuideInv /\ [Next]_vars => GuideInv'
<1> SUFFICES ASSUME GuideInv, [Next]_vars PROVE GuideInv'
  OBVIOUS
<1>1. TypeOK' /\ JoinsAreKept' /\ OffsetHasAnOwner' /\ RateHasAnOwner'
  BY StepTyped, StepJoins, StepOffset, StepRate DEF GuideInv
<1>2. ASSUME orderly'
      PROVE  InOrder'
  <2>1. CASE UNCHANGED vars
    BY <1>2, <2>1 DEF vars, service, loops, requests, history, GuideInv, InOrder, OneRequest,
       LoopsAreKnown, PhasesAgree, QuietAgrees, AllQuiet, SomeLoop, Running
  <2>2. CASE TaskRuns
    <3>1. orderly /\ AllQuiet /\ UNCHANGED <<service, loops, requests>>
      BY <1>2, <2>2 DEF TaskRuns
    <3> QED
      BY <3>1 DEF service, loops, requests, GuideInv, InOrder, OneRequest,
         LoopsAreKnown, PhasesAgree, QuietAgrees, AllQuiet, SomeLoop, Running, NoLoopPhase
  <2> QED
    BY <1>2, <2>1, <2>2, RequestInOrder, ContinuesInOrder, LoopStepsInOrder,
       LoopEndsInOrder DEF Next
<1> QED
  BY <1>1, <1>2 DEF GuideInv

LEMMA InvAlways == Spec => []GuideInv
BY InitInv, StepInv, PTL DEF Spec

-----------------------------------------------------------------------------
(* What follows                                                            *)

\* The fields of GuidingService hold what the code puts there.
THEOREM TypeSafety == Spec => []TypeOK
<1>1. GuideInv => TypeOK
  BY DEF GuideInv
<1> QED
  BY <1>1, InvAlways, PTL

\* An offset left behind is a drift: with no loop and no request under way the
\* mount tracks at its plain rate, however requests, failures and cancellations
\* interleaved, unless a command of the mount was cut short.
THEOREM NothingIsLeftBehind == Spec => []NoOffsetLeft
<1>1. GuideInv => NoOffsetLeft
  BY DEF GuideInv, OffsetHasAnOwner, RateHasAnOwner, NoOffsetLeft, AllQuiet, SomeLoop, Running
<1> QED
  BY <1>1, InvAlways, PTL

\* Requests that come one at a time never leave two loops correcting one mount,
\* nor a loop or a task moving it while a calibration pulses it.
THEOREM TheMountIsNotShared == Spec => []MountIsNotShared
<1>1. GuideInv => MountIsNotShared
  BY DEF GuideInv, InOrder, LoopsAreKnown, PhasesAgree, MountIsNotShared, NoLoopPhase
<1> QED
  BY <1>1, InvAlways, PTL

\* A guider that says it is stopped is, and one that says it guides does.
THEOREM ItSaysWhatItDoes == Spec => []SaysWhatItDoes
<1>1. GuideInv => SaysWhatItDoes
  BY DEF GuideInv, InOrder, QuietAgrees, SaysWhatItDoes
<1> QED
  BY <1>1, InvAlways, PTL

-----------------------------------------------------------------------------
(* The drift of a star: the invariant                                      *)

\* Each row is older than the next, the newest of now, none older than the window.
RowsInOrder ==
  /\ \A i \in DOMAIN rows : rows[i].ago >= Len(rows) - i
  /\ rows # <<>> => /\ gap # Nothing
                    /\ rows[1].ago <= Window
                    /\ rows[Len(rows)].ago = 0 /\ rows[Len(rows)].sent = 0

\* A correction goes out at the end of a frame, before anything else was sent, and
\* measuring ends at the latest with its last frame.
TurnsAgree ==
  /\ phase = "commanding" => gap = 0 /\ pending = 0 /\ Abs(error) <= Reach
  /\ mode = "measure" /\ phase = "exposing" => measured < MeasureMax

\* The rows are of one track, and from the newest of them the star has gone where the
\* sky and what was sent since took it, as long as it is on the sensor.
StarIsOnTrack ==
  ~muddled /\ rows # <<>> =>
    /\ Explains(drift, rows)
    /\ Abs(error) <= Reach /\ gap < Window
       => error = rows[Len(rows)].at + pending + (drift + OffsetRunning) * gap

\* What was corrected ends no further off at the next frame than it was, if corrections
\* are as strong as the sky.
CorrectedIsCloser ==
  ~muddled =>
    /\ phase = "exposing" /\ steady =>
         /\ sample \in Int /\ stale = 0
         /\ Abs(error) <= Reach => Abs(error + drift + OffsetRunning) <= Abs(sample)
    /\ order # Nothing /\ order.steady =>
         /\ error = order.at /\ Abs(error + drift + order.to) <= Abs(order.at)
         /\ steady => sample \in Int /\ Abs(order.at) <= Abs(sample)

\* A correction may be as large as what the sky does in a frame.
KeepsUp == \A d \in Drifts : Abs(d) <= MaxUnits

-----------------------------------------------------------------------------
(* The window                                                              *)

LEMMA RowParts == \A r \in Row : r.ago \in Nat /\ r.at \in Int /\ r.sent \in Int
BY DEF Row

LEMMA NewRow ==
  ASSUME NEW a \in Nat, NEW b \in Int, NEW c \in Int
  PROVE  [ago |-> a, at |-> b, sent |-> c] \in Row
BY DEF Row

LEMMA SameProduct ==
  ASSUME NEW x \in Int, NEW y \in Int, NEW t \in Nat, t >= 1, x * t = y * t
  PROVE  x = y
<1>1. (x - y) * t = 0
  OBVIOUS
<1>2. x - y = 0
  BY <1>1
<1> QED BY <1>2

\* "No value" is none of those it stands beside.
LEMMA NoneIsApart == \A r \in [to : -MaxUnits..MaxUnits, at : Int, steady : BOOLEAN] : r # Nothing
BY NothingAssumption
LEMMA NoneIsNoNumber == \A n \in Int : n # Nothing
BY NothingAssumption

\* A dither moves every row.
Moved(rs, by) == [i \in DOMAIN rs |-> [rs[i] EXCEPT !.at = @ - by]]

LEMMA RowsShift ==
  ASSUME NEW rs \in Seq(Row), NEW by \in Int, NEW moved, moved = Moved(rs, by)
  PROVE  /\ moved \in Seq(Row) /\ Len(moved) = Len(rs) /\ DOMAIN moved = DOMAIN rs
         /\ \A i \in DOMAIN rs : /\ moved[i].ago = rs[i].ago /\ moved[i].sent = rs[i].sent
                                 /\ moved[i].at = rs[i].at - by
<1>1. DOMAIN rs = 1..Len(rs) /\ Len(rs) \in Nat
      /\ moved = [i \in DOMAIN rs |-> [rs[i] EXCEPT !.at = @ - by]]
  BY DEF Moved
<1>2. ASSUME NEW i \in DOMAIN rs
      PROVE  /\ moved[i] \in Row /\ moved[i].ago = rs[i].ago /\ moved[i].sent = rs[i].sent
             /\ moved[i].at = rs[i].at - by
  <2> DEFINE r == rs[i]
             x == r.at - by
  <2>1. r \in Row
    OBVIOUS
  <2>2. x \in Int
    BY <2>1, RowParts
  <2>3. moved[i] = [r EXCEPT !.at = x]
    BY <1>1
  <2> HIDE DEF r, x
  <2>4. /\ [r EXCEPT !.at = x] \in Row /\ [r EXCEPT !.at = x].ago = r.ago
        /\ [r EXCEPT !.at = x].sent = r.sent /\ [r EXCEPT !.at = x].at = x
    BY <2>1, <2>2 DEF Row
  <2>5. QED BY <2>3, <2>4 DEF r, x
<1>3. DOMAIN moved = 1..Len(rs) /\ \A i \in 1..Len(rs) : moved[i] \in Row
  BY <1>1, <1>2
<1>4. moved = [i \in 1..Len(rs) |-> moved[i]]
  BY <1>1
<1>5. moved \in Seq(Row) /\ Len(moved) = Len(rs) /\ DOMAIN moved = DOMAIN rs
  <2>1. [i \in 1..Len(rs) |-> moved[i]] \in Seq(Row)
    BY <1>1, <1>3
  <2>2. Len(moved) = Len(rs)
    BY <1>1, <1>3
  <2>3. QED BY <1>1, <1>3, <1>4, <2>1, <2>2
<1> QED BY <1>2, <1>5

LEMMA LeastIsIn ==
  ASSUME NEW S \in SUBSET Nat, S # {}
  PROVE  Min(S) \in S /\ \A i \in S : Min(S) <= i
<1>1. IsWellFoundedOn(OpToRel(<, Nat), Nat)
  BY NatLessThanWellFounded
<1>2. PICK m \in S : \A i \in S : ~ (<<i, m>> \in OpToRel(<, Nat))
  BY <1>1, WFMin, Zenon
<1>3. \A i \in S : ~ (i < m)
  BY <1>2 DEF OpToRel
<1>4. \A i \in S : m <= i
  BY <1>3
<1>5. \E x \in S : \A y \in S : x =< y
  BY <1>4
<1> QED BY <1>5 DEF Min

Added(new, at, delivered, since) ==
  /\ new \in Seq(Row) /\ Len(new) \in 1..Window + 1 /\ DOMAIN new = 1..Len(new)
  /\ new[Len(new)] = [ago |-> 0, at |-> at, sent |-> 0]
  /\ \A i \in DOMAIN new : new[i].ago >= Len(new) - i
  /\ new[1].ago <= Window
  /\ \A i \in 1..Len(new) - 1 : \E j \in DOMAIN rows :
       /\ new[i].ago = rows[j].ago + since /\ new[i].at = rows[j].at
       /\ new[i].sent = rows[j].sent - delivered
  /\ since > Window => Len(new) = 1
  /\ rows = <<>> => Len(new) = 1
  /\ rows # <<>> /\ since <= Window => Len(new) > 1

\* A frame adds a row of now; of the older ones stay those the window spans, older by
\* the time that passed and with what was sent since.
LEMMA FrameIsAdded ==
  ASSUME DriftTypeOK, RowsInOrder, NEW at \in Int, NEW delivered \in Int,
     NEW since \in Nat,
         rows # <<>> => since >= 1
  PROVE  Added(Observed(at, delivered, since), at, delivered, since)
<1> DEFINE n == Len(rows)
           earlier == [i \in DOMAIN rows |->
                         [ago |-> rows[i].ago + since, at |-> rows[i].at,
                          sent |-> rows[i].sent - delivered]]
           now == [ago |-> 0, at |-> at, sent |-> 0]
           all == Append(earlier, now)
           young == {i \in DOMAIN all : all[i].ago <= Window}
           first == Min(young)
           new == SubSeq(all, first, Len(all))
<1>1. rows \in Seq(Row) /\ n \in Nat /\ DOMAIN rows = 1..n /\ now \in Row
         /\ Window \in Nat \ {0}
      /\ (rows = <<>> => n = 0)
  BY BoundAssumption DEF DriftTypeOK, Row
<1>2. \A i \in 1..n : /\ rows[i] \in Row /\ rows[i].ago \in Nat /\ rows[i].ago >= n - i
                      /\ earlier[i] \in Row /\ earlier[i].ago = rows[i].ago + since
                      /\ earlier[i].at = rows[i].at /\ earlier[i].sent = rows[i].sent - delivered
  <2> TAKE i \in 1..n
  <2>1. rows[i] \in Row /\ rows[i].ago >= n - i
    BY <1>1 DEF RowsInOrder
  <2>2. rows[i].ago \in Nat /\ rows[i].at \in Int /\ rows[i].sent \in Int
    BY <2>1, RowParts
  <2>3. earlier[i] = [ago |-> rows[i].ago + since, at |-> rows[i].at, sent |-> rows[i].sent - delivered]
    BY <1>1
  <2>4. /\ rows[i].ago + since \in Nat /\ rows[i].sent - delivered \in Int
    BY <2>2
  <2>5. earlier[i] \in Row
    BY <2>2, <2>3, <2>4, NewRow
  <2> HIDE DEF earlier
  <2>6. QED BY <2>1, <2>2, <2>3, <2>5
<1>3. earlier \in Seq(Row) /\ Len(earlier) = n
  BY <1>1, <1>2
<1> HIDE DEF earlier
<1>4. /\ all \in Seq(Row) /\ Len(all) = n + 1 /\ DOMAIN all = 1..n + 1
      /\ \A i \in 1..n : all[i] = earlier[i]
      /\ all[n + 1] = now
  BY <1>1, <1>3, AppendProperties
<1> HIDE DEF all
<1>5. \A i \in 1..n + 1 : all[i] \in Row /\ all[i].ago \in Nat /\ all[i].ago >= n + 1 - i
  <2> TAKE i \in 1..n + 1
  <2>1. CASE i = n + 1
    BY <1>1, <1>4, <2>1 DEF Row
  <2>2. CASE i # n + 1
    <3>1. i \in 1..n /\ rows # <<>> /\ since >= 1
      BY <1>1, <2>2
    <3>2. /\ all[i] = earlier[i] /\ earlier[i] \in Row /\ earlier[i].ago = rows[i].ago + since
          /\ rows[i].ago \in Nat /\ rows[i].ago >= n - i
      BY <1>2, <1>4, <3>1
    <3>3. rows[i].ago + since >= n + 1 - i /\ rows[i].ago + since \in Nat
      BY <1>1, <3>1, <3>2
    <3>4. QED BY <3>2, <3>3
  <2>3. QED BY <2>1, <2>2
<1>6. young \in SUBSET Nat /\ n + 1 \in young
  BY <1>1, <1>4
<1>7. first \in young /\ \A i \in young : first <= i
  <2> HIDE DEF young
  <2>1. QED BY <1>6, LeastIsIn
<1>8. first \in 1..n + 1 /\ all[first].ago <= Window
  BY <1>4, <1>7
<1>19. rows # <<>> /\ since <= Window => first <= n
  <2>1. ASSUME rows # <<>>, since <= Window PROVE first <= n
    <3>1. n \in 1..n /\ n \in DOMAIN all /\ rows[n].ago = 0
      BY <1>1, <1>4, <2>1 DEF RowsInOrder
    <3>2. all[n].ago = 0 + since
      BY <1>2, <1>4, <3>1
    <3>3. n \in young
      BY <2>1, <3>1, <3>2
    <3> HIDE DEF young, first, n
    <3> QED BY <1>7, <3>3
  <2> QED BY <2>1
<1> HIDE DEF young, first
<1>9. /\ new \in Seq(Row) /\ Len(new) = n + 2 - first /\ DOMAIN new = 1..Len(new)
      /\ \A i \in 1..Len(new) : new[i] = all[first + i - 1]
  <2>1. \A i \in first..Len(all) : all[i] \in Row
    BY <1>4, <1>5, <1>8
  <2>2. first \in Int /\ Len(all) \in Int /\ first <= Len(all)
    BY <1>1, <1>4, <1>8
  <2>3. /\ new \in Seq(Row) /\ Len(new) = Len(all) - first + 1
        /\ \A i \in 1..Len(all) - first + 1 : new[i] = all[first + i - 1]
    BY <2>1, <2>2, SubSeqProperties
  <2> HIDE DEF new
  <2>4. QED BY <1>1, <1>4, <1>8, <2>3
<1>10. new = Observed(at, delivered, since)
  BY DEF Observed, new, first, young, all, earlier
<1> HIDE DEF new
<1>11. Len(new) \in Nat \ {0} /\ new[Len(new)] = now /\ new[1].ago <= Window
  BY <1>1, <1>4, <1>8, <1>9
<1>12. \A i \in 1..Len(new) : new[i].ago >= Len(new) - i
  BY <1>1, <1>5, <1>8, <1>9
<1>13. Len(new) <= Window + 1
  <2>1. new[1].ago \in Nat /\ new[1].ago >= Len(new) - 1
    BY <1>1, <1>5, <1>8, <1>9, <1>11, <1>12
  <2>2. QED BY <1>1, <1>11, <2>1
<1>14. ASSUME NEW i \in 1..Len(new) - 1
       PROVE  \E j \in DOMAIN rows :
                /\ new[i].ago = rows[j].ago + since /\ new[i].at = rows[j].at
                /\ new[i].sent = rows[j].sent - delivered
  <2>1. first + i - 1 \in 1..n /\ new[i] = all[first + i - 1]
    BY <1>1, <1>8, <1>9
  <2> DEFINE j == first + i - 1
  <2>2. j \in DOMAIN rows /\ new[i] = earlier[j]
    BY <1>1, <1>4, <2>1
  <2> HIDE DEF j
  <2>3. /\ earlier[j].ago = rows[j].ago + since /\ earlier[j].at = rows[j].at
        /\ earlier[j].sent = rows[j].sent - delivered
    BY <1>1, <1>2, <2>2
  <2>4. QED BY <2>2, <2>3
<1>15. ASSUME since > Window PROVE Len(new) = 1
  <2>1. ASSUME first # n + 1 PROVE FALSE
    <3>1. first \in 1..n
      BY <1>1, <1>8, <2>1
    <3>2. all[first].ago = rows[first].ago + since /\ rows[first].ago \in Nat
      BY <1>2, <1>4, <3>1
    <3>3. QED BY <1>1, <1>8, <1>15, <3>2
  <2>2. QED BY <1>1, <1>9, <2>1
<1>16. rows = <<>> => Len(new) = 1
  BY <1>1, <1>8, <1>9
<1>17. rows # <<>> /\ since <= Window => Len(new) > 1
  BY <1>1, <1>8, <1>19, <1>9
<1>18. Added(new, at, delivered, since)
  <2>1. Len(new) \in 1..Window + 1
    BY <1>1, <1>11, <1>13
  <2>2. QED BY <1>9, <1>11, <1>12, <1>14, <1>15, <1>16, <1>17, <2>1 DEF Added
<1> QED BY <1>10, <1>18

\* A fit of frames of one track is of that track.
LEMMA FitIsExact ==
  ASSUME NEW rs \in Seq(Row), Len(rs) >= 1, rs[Len(rs)].ago = 0, rs[Len(rs)].sent = 0,
         \A i \in DOMAIN rs : rs[i].ago >= Len(rs) - i,
         NEW d \in Drifts, Explains(d, rs), NEW f \in Fits(rs), f # Nothing
  PROVE  Len(rs) > 1 /\ f = [at |-> rs[Len(rs)].at, drift |-> d]
<1>1. Len(rs) \in Nat /\ DOMAIN rs = 1..Len(rs) /\ MinFrames \in Nat /\ MinFrames > 1
      /\ Drifts \subseteq Int /\ \A i \in DOMAIN rs : rs[i] \in Row
  BY BoundAssumption, DriftAssumption
<1>2. Len(rs) >= MinFrames /\ Len(rs) - 1 \in DOMAIN rs
  BY <1>1 DEF Fits
<1> DEFINE k == Len(rs) - 1
           exact == {e \in Drifts : Explains(e, rs)}
<1>3. ASSUME NEW e \in Drifts, Explains(e, rs) PROVE e = d
  <2>1. /\ rs[Len(rs)].at = rs[k].at + e * rs[k].ago - rs[k].sent
        /\ rs[Len(rs)].at = rs[k].at + d * rs[k].ago - rs[k].sent
    BY <1>2, <1>3 DEF Explains
  <2>2. rs[k] \in Row /\ rs[k].ago >= Len(rs) - k /\ rs[Len(rs)] \in Row
    BY <1>1, <1>2
  <2>3. /\ rs[k].ago \in Nat /\ rs[k].at \in Int /\ rs[k].sent \in Int /\ rs[Len(rs)].at \in Int
    BY <2>2, RowParts
  <2>4. rs[k].ago >= 1 /\ e \in Int /\ d \in Int
    BY <1>1, <2>2, <2>3
  <2> DEFINE t == rs[k].ago
             b == rs[k].at
             c == rs[k].sent
             a == rs[Len(rs)].at
  <2>5. a = b + e * t - c /\ a = b + d * t - c
    BY <2>1
  <2>6. t \in Nat /\ t >= 1 /\ a \in Int /\ b \in Int /\ c \in Int
    BY <2>3, <2>4
  <2> HIDE DEF t, a, b, c
  <2>7. e * t = d * t
    <3> DEFINE p == e * t
               q == d * t
    <3>1. p \in Int /\ q \in Int
      BY <2>4, <2>6
    <3>2. a = b + p - c /\ a = b + q - c
      BY <2>5
    <3> HIDE DEF p, q
    <3>3. p = q
      BY <2>6, <3>1, <3>2
    <3>4. QED BY <3>3 DEF p, q
  <2>8. QED BY <2>4, <2>6, <2>7, SameProduct
<1>4. exact = {d}
  BY <1>3
<1>5. f \in {[at |-> rs[Len(rs)].at, drift |-> e] : e \in exact}
  BY <1>2, <1>4 DEF Fits
<1>6. QED BY <1>1, <1>2, <1>4, <1>5

-----------------------------------------------------------------------------
(* Numbers                                                                 *)

Fitted == [at : Int, drift : Drifts]
Units0 == -MaxUnits..MaxUnits

LEMMA Bounds ==
  /\ MinFrames \in Nat \ {0} /\ Window \in Nat \ {0} /\ MaxUnits \in Nat \ {0} /\ Radius \in Nat \ {0}
  /\ LongGap \in Nat \ {0} /\ MeasureMin \in Nat \ {0} /\ MeasureMax \in Nat \ {0}
  /\ Hold \in Nat \ {0} /\ Reach \in Nat \ {0} /\ MaxTroubles \in Nat \ {0}
BY BoundAssumption

LEMMA LeastIs ==
  ASSUME NEW x \in Int, NEW y \in Int
  PROVE  (x < y => Least(x, y) = x) /\ (x >= y => Least(x, y) = y)
BY DEF Least

LEMMA TroublesAreCounted ==
  ASSUME DriftTypeOK, Trouble \/ UNCHANGED troubles
  PROVE  troubles' \in 0..MaxTroubles
<1>1. troubles \in 0..MaxTroubles /\ MaxTroubles \in Nat
  BY Bounds DEF DriftTypeOK
<1>2. CASE Trouble
  BY <1>1, <1>2 DEF Trouble
<1>3. CASE UNCHANGED troubles
  BY <1>1, <1>3
<1> QED BY <1>2, <1>3

\* The star moves by a whole number of pixels while it is on the sensor.
LEMMA Numbers ==
  ASSUME DriftTypeOK
  PROVE  /\ drift \in Int /\ OffsetRunning \in Int /\ Here \in Int /\ Delivered \in Int
         /\ Elapsed \in Nat /\ (gap # Nothing => gap \in Nat)
         /\ Abs(error) <= Reach => Here = error + drift + OffsetRunning
         /\ Abs(error) > Reach => Here = error
<1>1. drift \in Int /\ error \in Int /\ raOffset \in Int /\ pending \in Int /\ (gap # Nothing => gap \in Nat)
  BY Bounds, DriftAssumption DEF DriftTypeOK
<1>2. OffsetRunning \in Int
  BY <1>1 DEF OffsetRunning
<1>3. Elapsed \in Nat
  BY <1>1, Bounds DEF Elapsed, Least
<1>4. /\ Here \in Int
      /\ Abs(error) <= Reach => Here = error + drift + OffsetRunning
      /\ Abs(error) > Reach => Here = error
  BY <1>1, <1>2, Bounds DEF Here, Abs
<1>5. OffsetRunning * Elapsed \in Int
  BY <1>2, <1>3
<1>6. Delivered \in Int
  BY <1>1, <1>5 DEF Delivered
<1> QED BY <1>1, <1>2, <1>3, <1>4, <1>6

LEMMA LimitedIsTyped ==
  ASSUME NEW x \in Int
  PROVE  Limited(x) \in Units0
<1>1. CASE x < 0
  BY <1>1, Bounds DEF Limited, Sign, Least, Abs, Units0
<1>2. CASE x = 0
  BY <1>2, Bounds DEF Limited, Sign, Least, Abs, Units0
<1>3. CASE x > 0
  BY <1>3, Bounds DEF Limited, Sign, Least, Abs, Units0
<1> QED BY <1>1, <1>2, <1>3

LEMMA FitsAreTyped ==
  ASSUME NEW rs \in Seq(Row), Len(rs) >= 1, NEW f \in Fits(rs)
  PROVE  f = Nothing \/ f \in Fitted
<1>1. rs[Len(rs)] \in Row
  OBVIOUS
<1>2. rs[Len(rs)].at \in Int
  BY <1>1, RowParts
<1>3. QED BY <1>2 DEF Fits, Fitted

LEMMA OrdersAreTyped ==
  ASSUME NEW f, f = Nothing \/ f \in Fitted, NEW interval \in Nat, interval >= 1,
     NEW to \in Orders(f, interval)
  PROVE  to = Nothing \/ to \in Units0
<1>1. CASE mode = "measure" \/ f = Nothing
  <2>1. to \in {IF axis = "ra offset" /\ raOffset # 0 THEN 0 ELSE Nothing}
    BY <1>1 DEF Orders
  <2>2. to = 0 \/ to = Nothing
    BY <2>1
  <2>3. QED BY <2>2, Bounds DEF Units0
<1>2. CASE ~(mode = "measure" \/ f = Nothing)
  <2>1. f.at \in Int /\ f.drift \in Int /\ Sign(f.at) \in {-1, 0, 1}
    BY <1>2, DriftAssumption DEF Fitted, Sign
  <2>2. \A share \in Shares(f.at) : share \in Int
    BY <2>1 DEF Shares, Abs
  <2>3. -f.drift * interval \in Int
    BY <2>1
  <2>4. ASSUME NEW u \in Units(f, interval) PROVE u \in Int
    <3>1. PICK share \in Shares(f.at) : u = -f.drift * interval - Sign(f.at) * share
      BY <2>4 DEF Units
    <3>2. Sign(f.at) * share \in Int
      BY <2>1, <2>2
    <3>3. QED BY <2>3, <3>1, <3>2
  <2>5. ASSUME NEW r \in Rates(f, interval) PROVE r \in Int
    <3>1. PICK share \in Shares(f.at) : r = -f.drift - Sign(f.at) * (share \div interval)
      BY <2>5 DEF Rates
    <3>2. share \div interval \in Int
      BY <2>2
    <3>3. Sign(f.at) * (share \div interval) \in Int
      BY <2>1, <3>2
    <3>4. QED BY <2>1, <3>1, <3>3
  <2>6. CASE axis = "ra offset"
    <3>1. PICK r \in Rates(f, interval) : to = IF Limited(r) = raOffset THEN Nothing
             ELSE Limited(r)
      BY <1>2, <2>6 DEF Orders
    <3>2. QED BY <2>5, <3>1, LimitedIsTyped
  <2>7. CASE axis # "ra offset"
    <3>1. PICK u \in Units(f, interval) : to = IF u = 0 \/ Withheld(u, f)
             THEN Nothing ELSE Limited(u)
      BY <1>2, <2>7 DEF Orders
    <3>2. QED BY <2>4, <3>1, LimitedIsTyped
  <2>8. QED BY <2>6, <2>7
<1> QED BY <1>1, <1>2

-----------------------------------------------------------------------------
(* Types, rows and turns                                                   *)

Modes == {"measure", "recentre", "hold"}

\* The end of a turn: measuring ends with its last frame.
LEMMA TurnEnds ==
  ASSUME DriftTypeOK, NEW f, TurnsOver(f), measured' \in 0..MeasureMax
  PROVE  /\ phase' = "exposing" /\ stale' = 0 /\ mode' \in Modes
         /\ mode' = "measure" => measured' < MeasureMax
<1>1. phase' = "exposing" /\ stale' = 0 /\ mode \in Modes /\ measured' \in Int /\ MeasureMax \in Int
  BY Bounds DEF TurnsOver, DriftTypeOK, Modes
<1>2. mode' = CASE /\ mode = "measure"
                   /\ \/ measured' >= MeasureMax
                      \/ measured' >= MeasureMin /\ f # Nothing -> "recentre"
                [] mode = "recentre" /\ f # Nothing /\ Abs(f.at) <= 1 -> "hold"
                [] OTHER -> mode
  BY DEF TurnsOver
<1>3. CASE mode = "measure" /\ (measured' >= MeasureMax \/ (measured' >= MeasureMin /\ f # Nothing))
  BY <1>1, <1>2, <1>3 DEF Modes
<1>4. CASE /\ ~(mode = "measure" /\ (measured' >= MeasureMax \/ (measured' >= MeasureMin /\ f # Nothing)))
           /\ mode = "recentre" /\ f # Nothing /\ Abs(f.at) <= 1
  BY <1>1, <1>2, <1>4 DEF Modes
<1>5. CASE /\ ~(mode = "measure" /\ (measured' >= MeasureMax \/ (measured' >= MeasureMin /\ f # Nothing)))
           /\ ~(mode = "recentre" /\ f # Nothing /\ Abs(f.at) <= 1)
  <2>1. mode' = mode
    BY <1>2, <1>5
  <2>2. QED BY <1>1, <1>5, <2>1
<1> QED BY <1>3, <1>4, <1>5

LEMMA FramesAreMeasured ==
  ASSUME DriftTypeOK, TurnsAgree, phase = "exposing", Measures
  PROVE  measured' \in 0..MeasureMax
BY Bounds DEF DriftTypeOK, TurnsAgree, Measures

LEMMA WaitIsTyped ==
  ASSUME DriftTypeOK
  PROVE  /\ Ticks = Nothing \/ Ticks \in -1..Hold
         /\ \A seen : Looked(seen, Ticks) = Nothing
            \/ Looked(seen, Ticks) \in -1..Hold
         /\ \A seen : Looked(seen, held) = Nothing \/ Looked(seen, held) \in -1..Hold
<1>1. Hold \in Nat \ {0} /\ (held = Nothing \/ held \in -1..Hold)
  BY Bounds DEF DriftTypeOK
<1>2. Ticks = Nothing \/ Ticks \in -1..Hold
  BY <1>1 DEF Ticks, Least
<1>3. ASSUME NEW seen, NEW ticks, ticks = Nothing \/ ticks \in -1..Hold
      PROVE  Looked(seen, ticks) = Nothing \/ Looked(seen, ticks) \in -1..Hold
  BY <1>1, <1>3 DEF Looked
<1> QED BY <1>1, <1>2, <1>3

Since == IF gap = Nothing THEN 0 ELSE gap + 1

\* What a frame does to the window.
LEMMA FrameAdds ==
  ASSUME DriftTypeOK, RowsInOrder, Frame
  PROVE  Added(rows', Here + stale, Delivered, Since)
<1>1. Here + stale \in Int /\ Delivered \in Int /\ Since \in Nat
         /\ (rows # <<>> => Since >= 1)
  <2>1. stale \in Int
    BY Bounds DEF DriftTypeOK
  <2>2. QED BY <2>1, Numbers DEF RowsInOrder, Since
<1>2. rows' = Observed(Here + stale, Delivered, Since)
  BY DEF Frame, Since
<1>3. QED BY <1>1, <1>2, FrameIsAdded

\* A frame with no correction to make, and one with.
LEMMA FrameIs ==
  ASSUME DriftTypeOK, RowsInOrder, TurnsAgree, Frame
  PROVE  \E f \in Fits(rows') : \E to \in Orders(f, IF Elapsed > 0
     THEN Elapsed ELSE 1) :
           /\ fit' = f /\ (f = Nothing \/ f \in Fitted) /\ (to = Nothing \/ to \in Units0)
           /\ \/ /\ to = Nothing /\ TurnsOver(f) /\ sample' = Here + stale
                 /\ held' = Looked(Here + stale, Ticks)
                    /\ steady' = Steers(f) /\ UNCHANGED order
              \/ /\ to # Nothing /\ phase' = "commanding"
                 /\ order' = [to |-> to, at |-> Here + stale, steady |-> Steers(f)]
                 /\ held' = Ticks /\ UNCHANGED <<stale, mode, sample, steady>>
<1> DEFINE interval == IF Elapsed > 0 THEN Elapsed ELSE 1
<1>1. PICK f \in Fits(rows') :
        /\ fit' = f
        /\ \E to \in Orders(f, interval) :
             IF to = Nothing
             THEN /\ TurnsOver(f)
                  /\ sample' = Here + stale
                  /\ held' = Looked(Here + stale, Ticks)
                  /\ steady' = Steers(f)
                  /\ UNCHANGED order
             ELSE /\ phase' = "commanding"
                  /\ order' = [to |-> to, at |-> Here + stale, steady |-> Steers(f)]
                  /\ held' = Ticks
                  /\ UNCHANGED <<stale, mode, sample, steady>>
  BY DEF Frame
<1>2. rows' \in Seq(Row) /\ Len(rows') >= 1
  BY FrameAdds, Bounds DEF Added
<1>3. f = Nothing \/ f \in Fitted
  BY <1>2, FitsAreTyped
<1>4. interval \in Nat /\ interval >= 1
  BY Numbers
<1>5. \A to \in Orders(f, interval) : to = Nothing \/ to \in Units0
  <2> HIDE DEF interval
  <2>1. QED BY <1>3, <1>4, OrdersAreTyped
<1>6. QED BY <1>1, <1>3, <1>5

Typed == DriftTypeOK /\ RowsInOrder /\ TurnsAgree

LEMMA FrameTypes ==
  ASSUME Typed, Frame
  PROVE  Typed'
<1>1. DriftTypeOK /\ RowsInOrder /\ TurnsAgree
  BY DEF Typed
<1>2. PICK f \in Fits(rows') : \E to \in Orders(f, IF Elapsed > 0
         THEN Elapsed ELSE 1) :
        /\ fit' = f /\ (f = Nothing \/ f \in Fitted) /\ (to = Nothing \/ to \in Units0)
        /\ \/ /\ to = Nothing /\ TurnsOver(f) /\ sample' = Here + stale
              /\ held' = Looked(Here + stale, Ticks)
                 /\ steady' = Steers(f) /\ UNCHANGED order
           \/ /\ to # Nothing /\ phase' = "commanding"
              /\ order' = [to |-> to, at |-> Here + stale, steady |-> Steers(f)]
              /\ held' = Ticks /\ UNCHANGED <<stale, mode, sample, steady>>
  BY <1>1, FrameIs
<1>21. PICK to \in Orders(f, IF Elapsed > 0 THEN Elapsed ELSE 1) :
        /\ fit' = f /\ (f = Nothing \/ f \in Fitted) /\ (to = Nothing \/ to \in Units0)
        /\ \/ /\ to = Nothing /\ TurnsOver(f) /\ sample' = Here + stale
              /\ held' = Looked(Here + stale, Ticks)
                 /\ steady' = Steers(f) /\ UNCHANGED order
           \/ /\ to # Nothing /\ phase' = "commanding"
              /\ order' = [to |-> to, at |-> Here + stale, steady |-> Steers(f)]
              /\ held' = Ticks /\ UNCHANGED <<stale, mode, sample, steady>>
  BY <1>2
<1>4. /\ phase = "exposing" /\ Abs(Here) <= Reach /\ error' = Here
         /\ Measures /\ gap' = 0 /\ pending' = 0
      /\ UNCHANGED <<axis, drift, raOffset, blind, troubles>> /\ muddled' \in BOOLEAN
  BY <1>1 DEF Frame, InView, DriftTypeOK
<1>5. measured' \in 0..MeasureMax
  BY <1>1, <1>4, FramesAreMeasured
<1>6. /\ Here \in Int /\ Here + stale \in Int /\ Steers(f) \in BOOLEAN /\ order = Nothing
      /\ (held' = Nothing \/ held' \in -1..Hold)
  <2>1. stale \in Int /\ order = Nothing /\ Here \in Int
    BY <1>1, <1>4, Numbers, Bounds DEF DriftTypeOK
  <2>2. held' = Nothing \/ held' \in -1..Hold
    BY <1>1, <1>21, WaitIsTyped
  <2>3. QED BY <2>1, <2>2 DEF Steers
<1>7. Added(rows', Here + stale, Delivered, Since)
  BY <1>1, FrameAdds
<1>8. RowsInOrder'
  <2>1. rows'[Len(rows')].ago = 0 /\ rows'[Len(rows')].sent = 0
    BY <1>7 DEF Added
  <2>2. gap' # Nothing
    BY <1>4, NoneIsNoNumber
  <2>3. QED BY <1>7, <2>1, <2>2 DEF Added, RowsInOrder
<1>9. /\ axis' \in Axes /\ drift' \in Drifts /\ error' \in Int /\ rows' \in Seq(Row)
      /\ Len(rows') <= Window + 1 /\ (fit' = Nothing \/ fit' \in [at : Int, drift : Drifts])
      /\ raOffset' \in -MaxUnits..MaxUnits /\ pending' \in -MaxUnits..MaxUnits /\ gap' \in 0..Window
      /\ blind' \in BOOLEAN /\ troubles' \in 0..MaxTroubles
  <2>1. /\ axis \in Axes /\ drift \in Drifts /\ raOffset \in -MaxUnits..MaxUnits
        /\ blind \in BOOLEAN /\ troubles \in 0..MaxTroubles
    BY <1>1 DEF DriftTypeOK
  <2>2. 0 \in -MaxUnits..MaxUnits /\ 0 \in 0..Window /\ Window \in Nat
    BY Bounds
  <2>3. rows' \in Seq(Row) /\ Len(rows') \in 1..Window + 1
    BY <1>7 DEF Added
  <2>4. Len(rows') <= Window + 1
    BY <2>2, <2>3
  <2>5. fit' = Nothing \/ fit' \in [at : Int, drift : Drifts]
    BY <1>21 DEF Fitted
  <2>6. QED BY <1>4, <1>6, <2>1, <2>2, <2>3, <2>4, <2>5
<1>10. CASE /\ to = Nothing /\ TurnsOver(f) /\ sample' = Here + stale
          /\ steady' = Steers(f) /\ UNCHANGED order
  <2>1. /\ phase' = "exposing" /\ stale' = 0 /\ mode' \in Modes
        /\ mode' = "measure" => measured' < MeasureMax
    BY <1>1, <1>5, <1>10, TurnEnds
  <2>2. TurnsAgree'
    BY <2>1 DEF TurnsAgree
  <2>3. DriftTypeOK'
    BY <1>4, <1>5, <1>6, <1>9, <1>10, <2>1, Bounds DEF DriftTypeOK, Modes
  <2>4. QED BY <1>8, <2>2, <2>3 DEF Typed
<1>11. CASE /\ to # Nothing /\ phase' = "commanding" /\ UNCHANGED <<stale, mode, sample, steady>>
            /\ order' = [to |-> to, at |-> Here + stale, steady |-> Steers(f)]
  <2>1. TurnsAgree'
    <3>1. Abs(error') <= Reach
      BY <1>4 DEF Abs
    <3>2. QED BY <1>4, <1>11, <3>1 DEF TurnsAgree
  <2>2. order' \in [to : -MaxUnits..MaxUnits, at : Int, steady : BOOLEAN]
    BY <1>21, <1>6, <1>11 DEF Units0
  <2>3. order' # Nothing
    BY <2>2, NoneIsApart
  <2>4. DriftTypeOK'
    BY <1>1, <1>4, <1>5, <1>6, <1>9, <1>11, <2>2, <2>3 DEF DriftTypeOK
  <2>5. QED BY <1>8, <2>1, <2>4 DEF Typed
<1> QED BY <1>21, <1>10, <1>11

LEMMA CommandTypes ==
  ASSUME Typed, Commanded
  PROVE  Typed'
<1>1. DriftTypeOK /\ RowsInOrder /\ TurnsAgree
  BY DEF Typed
<1>2. /\ phase = "commanding" /\ order \in [to : -MaxUnits..MaxUnits, at : Int, steady : BOOLEAN]
      /\ gap = 0 /\ pending = 0 /\ sample' = order.at /\ steady' = order.steady
      /\ held' = Looked(order.at, held) /\ order' = Nothing /\ TurnsOver(fit)
      /\ UNCHANGED <<axis, drift, rows, fit, gap, blind, troubles, muddled, measured>>
  <2>1. /\ phase = "commanding" /\ sample' = order.at /\ steady' = order.steady
        /\ held' = Looked(order.at, held) /\ order' = Nothing /\ TurnsOver(fit)
        /\ UNCHANGED <<axis, drift, rows, fit, gap, blind, troubles, muddled, measured>>
    BY DEF Commanded
  <2>2. gap = 0 /\ pending = 0
    BY <1>1, <2>1 DEF TurnsAgree
  <2>3. order \in [to : -MaxUnits..MaxUnits, at : Int, steady : BOOLEAN]
    BY <1>1, <2>1 DEF DriftTypeOK
  <2>4. QED BY <2>1, <2>2, <2>3
<1>3. order.to \in -MaxUnits..MaxUnits /\ order.at \in Int /\ order.steady \in BOOLEAN
  BY <1>2
<1>4. /\ raOffset' \in -MaxUnits..MaxUnits /\ error' \in Int /\ pending' \in -MaxUnits..MaxUnits
  <2>1. raOffset \in -MaxUnits..MaxUnits /\ error \in Int /\ 0 \in -MaxUnits..MaxUnits
    BY <1>1, Bounds DEF DriftTypeOK
  <2>2. CASE axis = "ra offset"
    <3>1. raOffset' = order.to /\ error' = error /\ pending' = pending
      BY <2>2 DEF Commanded
    <3>2. QED BY <1>2, <1>3, <2>1, <3>1
  <2>3. CASE axis # "ra offset"
    <3>1. error' = error + order.to /\ pending' = pending + order.to /\ raOffset' = raOffset
      BY <2>3 DEF Commanded
    <3>2. order.to \in Int
      BY <1>3, Bounds
    <3>3. pending' = order.to /\ error + order.to \in Int
      BY <1>2, <2>1, <3>1, <3>2
    <3>4. QED BY <1>3, <2>1, <3>1, <3>3
  <2>4. QED BY <2>2, <2>3
<1>5. held' = Nothing \/ held' \in -1..Hold
  BY <1>1, <1>2, WaitIsTyped
<1>6. measured' \in 0..MeasureMax
  BY <1>1, <1>2 DEF DriftTypeOK
<1>7. /\ phase' = "exposing" /\ stale' = 0 /\ mode' \in Modes
      /\ mode' = "measure" => measured' < MeasureMax
  BY <1>1, <1>2, <1>6, TurnEnds
<1>8. TurnsAgree'
  BY <1>7 DEF TurnsAgree
<1>9. RowsInOrder'
  BY <1>1, <1>2 DEF RowsInOrder
<1>10. DriftTypeOK'
  <2>1. /\ axis \in Axes /\ drift \in Drifts /\ rows \in Seq(Row) /\ Len(rows) <= Window + 1
        /\ (fit = Nothing \/ fit \in [at : Int, drift : Drifts]) /\ (gap = Nothing \/ gap \in 0..Window)
        /\ muddled \in BOOLEAN /\ blind \in BOOLEAN /\ troubles \in 0..MaxTroubles
    BY <1>1 DEF DriftTypeOK
  <2>2. phase' \in {"exposing", "commanding"} /\ 0 \in -Reach..Reach /\ ~(phase' = "commanding")
    BY <1>7, Bounds
  <2>3. steady' \in BOOLEAN /\ sample' \in Int
    BY <1>2, <1>3
  <2>4. QED BY <1>2, <1>4, <1>5, <1>6, <1>7, <2>1, <2>2, <2>3 DEF DriftTypeOK, Modes
<1> QED BY <1>8, <1>9, <1>10 DEF Typed

LEMMA LostTypes ==
  ASSUME Typed, StarLost
  PROVE  Typed'
<1>1. DriftTypeOK /\ RowsInOrder /\ TurnsAgree
  BY DEF Typed
<1>2. /\ phase = "exposing" /\ error' = Here /\ Measures /\ TurnsOver(fit)
         /\ held' = Ticks
      /\ gap' = (IF gap = Nothing THEN Nothing ELSE Least(gap + 1, Window))
      /\ blind' \in BOOLEAN /\ steady' = FALSE
      /\ UNCHANGED <<axis, drift, rows, fit, pending, raOffset, order, sample, muddled>>
  BY DEF StarLost
<1>3. troubles' \in 0..MaxTroubles
  BY <1>1, TroublesAreCounted DEF StarLost
<1>4. measured' \in 0..MeasureMax
  BY <1>1, <1>2, FramesAreMeasured
<1>5. /\ phase' = "exposing" /\ stale' = 0 /\ mode' \in Modes
      /\ mode' = "measure" => measured' < MeasureMax
  BY <1>1, <1>2, <1>4, TurnEnds
<1>6. (gap' = Nothing \/ gap' \in 0..Window) /\ (gap # Nothing => gap' # Nothing)
  <2>1. CASE gap = Nothing
    BY <1>2, <2>1
  <2>2. CASE gap # Nothing
    <3>1. gap \in 0..Window /\ Window \in Nat /\ gap' = Least(gap + 1, Window)
      BY <1>1, <1>2, <2>2, Bounds DEF DriftTypeOK
    <3>2. gap + 1 \in Int /\ Window \in Int
      BY <3>1
    <3>3. gap' \in 0..Window
      BY <3>1, <3>2, LeastIs
    <3>4. QED BY <3>1, <3>3, NoneIsNoNumber
  <2>3. QED BY <2>1, <2>2
<1>7. held' = Nothing \/ held' \in -1..Hold
  BY <1>1, <1>2, WaitIsTyped
<1>8. TurnsAgree'
  BY <1>5 DEF TurnsAgree
<1>9. RowsInOrder'
  BY <1>1, <1>2, <1>6 DEF RowsInOrder
<1>10. error' \in Int
  BY <1>1, <1>2, Numbers
<1>11. /\ axis' \in Axes /\ drift' \in Drifts /\ rows' \in Seq(Row) /\ Len(rows') <= Window + 1
       /\ (fit' = Nothing \/ fit' \in [at : Int, drift : Drifts])
       /\ raOffset' \in -MaxUnits..MaxUnits /\ pending' \in -MaxUnits..MaxUnits
       /\ order' = Nothing /\ (sample' = Nothing \/ sample' \in Int) /\ muddled' \in BOOLEAN
  BY <1>1, <1>2 DEF DriftTypeOK
<1>12. 0 \in -Reach..Reach
  BY Bounds
<1>13. DriftTypeOK'
  BY <1>2, <1>3, <1>4, <1>5, <1>6, <1>7, <1>10, <1>11, <1>12 DEF DriftTypeOK, Modes
<1> QED BY <1>8, <1>9, <1>13 DEF Typed

\* Where the lock moves, the newest correction stays what it is.
LEMMA LockTypes ==
  ASSUME DriftTypeOK, NEW by \in Int, LockMoves(by), Abs(stale + by) <= Reach
  PROVE  /\ error' \in Int /\ stale' \in -Reach..Reach /\ steady' = FALSE
         /\ order' = Nothing \/ order' \in [to : -MaxUnits..MaxUnits, at : Int, steady : BOOLEAN]
         /\ (order' # Nothing) <=> (order # Nothing)
<1>1. /\ error \in Int /\ stale \in -Reach..Reach
      /\ (order = Nothing \/ order \in [to : -MaxUnits..MaxUnits, at : Int, steady : BOOLEAN])
  BY DEF DriftTypeOK
<1>2. error' \in Int /\ stale' \in -Reach..Reach /\ steady' = FALSE
  BY <1>1, Bounds DEF LockMoves, Abs
<1>3. order # Nothing => order' \in [to : -MaxUnits..MaxUnits, at : Int, steady : BOOLEAN]
  BY <1>1 DEF LockMoves
<1>4. order # Nothing => order' # Nothing
  BY <1>3, NoneIsApart
<1>5. order = Nothing => order' = Nothing
  BY DEF LockMoves
<1> QED BY <1>2, <1>3, <1>4, <1>5

LEMMA DitherTypes ==
  ASSUME Typed, DitherBegins
  PROVE  Typed'
<1>1. DriftTypeOK /\ RowsInOrder /\ TurnsAgree
  BY DEF Typed
<1>2. PICK by \in Shifts :
        /\ Abs(error) <= Reach /\ Abs(error - by) <= Reach
           /\ Abs(stale + by) <= Reach /\ LockMoves(by)
        /\ rows' = Moved(rows, by)
  BY DEF DitherBegins, Moved
<1>3. by \in Int
  BY DriftAssumption
<1>4. /\ error' = error - by /\ error' \in Int /\ stale' \in -Reach..Reach /\ steady' = FALSE
      /\ order' = Nothing \/ order' \in [to : -MaxUnits..MaxUnits, at : Int, steady : BOOLEAN]
      /\ (order' # Nothing) <=> (order # Nothing)
  BY <1>1, <1>2, <1>3, LockTypes DEF LockMoves
<1>5. /\ rows' \in Seq(Row) /\ Len(rows') = Len(rows) /\ DOMAIN rows' = DOMAIN rows
      /\ \A i \in DOMAIN rows : rows'[i].ago = rows[i].ago /\ rows'[i].sent = rows[i].sent
  <2>1. rows \in Seq(Row)
    BY <1>1 DEF DriftTypeOK
  <2>2. QED BY <1>2, <1>3, <2>1, RowsShift
<1>6. UNCHANGED <<axis, drift, phase, mode, measured, fit, raOffset, pending, gap, sample, muddled>>
  BY DEF DitherBegins
<1>7. (held' = Nothing \/ held' \in -1..Hold) /\ blind' \in BOOLEAN /\ troubles' \in 0..MaxTroubles
  <2>1. held' \in {0, -1} /\ blind' = FALSE /\ troubles < MaxTroubles /\ troubles' = troubles + 1
    BY DEF DitherBegins, Trouble
  <2>2. troubles \in Nat /\ MaxTroubles \in Nat /\ Hold \in Nat
    BY <1>1, Bounds DEF DriftTypeOK
  <2>3. troubles' \in 0..MaxTroubles
    BY <2>1, <2>2
  <2>4. 0 \in -1..Hold /\ -1 \in -1..Hold
    BY <2>2
  <2>5. QED BY <2>1, <2>3, <2>4
<1>8. TurnsAgree'
  <2>1. Abs(error') <= Reach
    BY <1>2, <1>4 DEF Abs
  <2>2. QED BY <1>1, <1>6, <2>1 DEF TurnsAgree
<1>9. RowsInOrder'
  <2>1. rows # <<>> => Len(rows) \in DOMAIN rows /\ 1 \in DOMAIN rows
    BY <1>1 DEF DriftTypeOK
  <2>2. rows' # <<>> => rows # <<>>
    BY <1>5
  <2>3. QED BY <1>1, <1>5, <1>6, <2>1, <2>2 DEF RowsInOrder
<1>10. DriftTypeOK'
  BY <1>1, <1>4, <1>5, <1>6, <1>7 DEF DriftTypeOK
<1> QED BY <1>8, <1>9, <1>10 DEF Typed

LEMMA WaitTypes ==
  ASSUME Typed, DitherSettles \/ DitherTimesOut
  PROVE  Typed'
<1>1. /\ held' = Nothing
      /\ UNCHANGED <<axis, drift, error, guideLoop, model, raOffset, order, sample, blind,
         troubles, muddled, steady>>
  BY DEF DitherSettles, DitherTimesOut
<1>2. QED BY <1>1 DEF Typed, DriftTypeOK, RowsInOrder, TurnsAgree, guideLoop, model

LEMMA SelectTypes ==
  ASSUME Typed, SelectStar
  PROVE  Typed'
<1>1. DriftTypeOK /\ RowsInOrder /\ TurnsAgree
  BY DEF Typed
<1>2. /\ gap = 0 /\ LockMoves(error) /\ Abs(stale + error) <= Reach /\ rows' = <<>>
         /\ fit' = Nothing
      /\ sample' = Nothing /\ muddled' = FALSE /\ blind' \in BOOLEAN
      /\ UNCHANGED <<axis, drift, phase, mode, measured, raOffset, pending, gap, held>>
  BY DEF SelectStar
<1>3. error \in Int
  BY <1>1 DEF DriftTypeOK
<1>4. /\ error' \in Int /\ stale' \in -Reach..Reach /\ steady' = FALSE
      /\ order' = Nothing \/ order' \in [to : -MaxUnits..MaxUnits, at : Int, steady : BOOLEAN]
      /\ (order' # Nothing) <=> (order # Nothing)
  BY <1>1, <1>2, <1>3, LockTypes
<1>5. troubles' \in 0..MaxTroubles
  BY <1>1, TroublesAreCounted DEF SelectStar
<1>6. rows' \in Seq(Row) /\ Len(rows') = 0 /\ DOMAIN rows' = {}
  BY <1>2
<1>7. TurnsAgree'
  <2>1. error' = 0
    BY <1>2, <1>3 DEF LockMoves
  <2>2. Abs(error') <= Reach
    BY <2>1, Bounds DEF Abs
  <2>3. QED BY <1>1, <1>2, <2>2 DEF TurnsAgree
<1>8. RowsInOrder'
  BY <1>2, <1>6 DEF RowsInOrder
<1>9. DriftTypeOK'
  <2>1. /\ axis' \in Axes /\ drift' \in Drifts /\ phase' = phase /\ mode' \in Modes
        /\ measured' \in 0..MeasureMax /\ fit' = Nothing /\ sample' = Nothing /\ muddled' \in BOOLEAN
        /\ raOffset' \in -MaxUnits..MaxUnits /\ pending' \in -MaxUnits..MaxUnits /\ gap' \in 0..Window
        /\ (held' = Nothing \/ held' \in -1..Hold) /\ (phase = "commanding" <=> order # Nothing)
        /\ phase \in {"exposing", "commanding"}
    <3>1. /\ axis \in Axes /\ drift \in Drifts /\ mode \in Modes /\ measured \in 0..MeasureMax
          /\ raOffset \in -MaxUnits..MaxUnits /\ pending \in -MaxUnits..MaxUnits
          /\ (held = Nothing \/ held \in -1..Hold) /\ (phase = "commanding" <=> order # Nothing)
          /\ phase \in {"exposing", "commanding"}
      BY <1>1 DEF DriftTypeOK, Modes
    <3>2. 0 \in 0..Window
      BY Bounds
    <3>3. QED BY <1>2, <3>1, <3>2
  <2>2. Len(rows') <= Window + 1
    BY <1>6, Bounds
  <2>3. QED BY <1>2, <1>4, <1>5, <1>6, <2>1, <2>2 DEF DriftTypeOK, Modes
<1> QED BY <1>7, <1>8, <1>9 DEF Typed

LEMMA TypeStep ==
  Typed /\ [DriftNext]_driftVars => Typed'
<1> SUFFICES ASSUME Typed, [DriftNext]_driftVars PROVE Typed'
  OBVIOUS
<1>1. CASE UNCHANGED driftVars
  BY <1>1 DEF Typed, DriftTypeOK, RowsInOrder, TurnsAgree, driftVars, guideLoop, model,
     wait
<1>2. QED
  BY <1>1, FrameTypes, CommandTypes, LostTypes, DitherTypes, WaitTypes, SelectTypes DEF DriftNext

-----------------------------------------------------------------------------
(* One track                                                               *)

LEMMA Spreads ==
  ASSUME NEW x \in Int, NEW y \in Int, NEW z \in Int
  PROVE  /\ x * (y + z) = x * y + x * z /\ (x + y) * z = x * z + y * z
         /\ x * y \in Int /\ x * z \in Int /\ y * z \in Int
OBVIOUS

\* A row that explained the newest one still does, a frame of g + 1 ticks later, with
\* what was sent in between.
LEMMA TrackGoesOn ==
  ASSUME NEW a \in Int, NEW b \in Int, NEW t \in Nat, NEW s \in Int, NEW p \in Int,
         NEW d \in Int, NEW r \in Int, NEW g \in Nat,
         a = b + d * t - s
  PROVE  a + p + (d + r) * g + d + r = b + d * (t + (g + 1)) - (s - (p + r * (g + 1)))
<1>1. (d + r) * g = d * g + r * g /\ r * (g + 1) = r * g + r
  BY Spreads
<1>2. d * (t + (g + 1)) = d * t + d * g + d
  <2>1. d * (t + (g + 1)) = d * t + d * (g + 1) /\ d * (g + 1) = d * g + d * 1
    BY Spreads
  <2>2. d * t \in Int /\ d * g \in Int /\ d * 1 = d
    OBVIOUS
  <2>3. QED BY <2>1, <2>2
<1> DEFINE dt == d * t
           dg == d * g
           rg == r * g
<1>3. dt \in Int /\ dg \in Int /\ rg \in Int
  OBVIOUS
<1>4. a = b + dt - s /\ (d + r) * g = dg + rg /\ r * (g + 1) = rg + r /\ d * (t + (g + 1)) = dt + dg + d
  BY <1>1, <1>2
<1> HIDE DEF dt, dg, rg
<1>5. a + p + (dg + rg) + d + r = b + (dt + dg + d) - (s - (p + (rg + r)))
  BY <1>3, <1>4
<1> QED BY <1>4, <1>5

LEMMA NewestIsTyped ==
  ASSUME DriftTypeOK, RowsInOrder, rows # <<>>
  PROVE  /\ Len(rows) \in DOMAIN rows /\ rows[Len(rows)].at \in Int /\ gap \in Nat
         /\ \A i \in DOMAIN rows : rows[i].ago \in Nat /\ rows[i].at \in Int /\ rows[i].sent \in Int
<1>1. \A i \in DOMAIN rows : rows[i] \in Row
  BY DEF DriftTypeOK
<1>2. Len(rows) \in DOMAIN rows
  BY DEF DriftTypeOK
<1> QED BY <1>1, <1>2, RowParts, Numbers DEF RowsInOrder

\* Where the next frame shows the star.
LEMMA NextOnTrack ==
  ASSUME DriftTypeOK, RowsInOrder, StarIsOnTrack, ~muddled, rows # <<>>, gap < Window,
     Abs(error) <= Reach
  PROVE  /\ Here
              = rows[Len(rows)].at + pending + (drift + OffsetRunning) * gap + drift + OffsetRunning
         /\ Here = rows[Len(rows)].at + pending + (drift + OffsetRunning) * (gap + 1)
<1>1. error = rows[Len(rows)].at + pending + (drift + OffsetRunning) * gap
  BY DEF StarIsOnTrack
<1>2. Here = error + drift + OffsetRunning /\ drift \in Int /\ OffsetRunning \in Int
         /\ gap \in Nat
  BY Numbers, NewestIsTyped
<1>3. rows[Len(rows)].at \in Int /\ pending \in Int
  BY NewestIsTyped, Bounds DEF DriftTypeOK
<1> DEFINE w == drift + OffsetRunning
           wg == w * gap
<1>4. wg \in Int /\ w \in Int /\ w * (gap + 1) = wg + w
  BY <1>2, Spreads
<1>5. error = rows[Len(rows)].at + pending + wg /\ Here = error + drift + OffsetRunning
  BY <1>1, <1>2
<1>6. w = drift + OffsetRunning
  OBVIOUS
<1> HIDE DEF wg, w
<1>7. /\ Here = rows[Len(rows)].at + pending + wg + drift + OffsetRunning
      /\ Here = rows[Len(rows)].at + pending + (wg + w)
  BY <1>2, <1>3, <1>4, <1>5, <1>6
<1>8. Here = rows[Len(rows)].at + pending + w * (gap + 1)
  BY <1>4, <1>7
<1> QED BY <1>7, <1>8 DEF w, wg

LEMMA FrameTrack ==
  ASSUME Typed, StarIsOnTrack, Frame
  PROVE  StarIsOnTrack'
<1> SUFFICES ASSUME ~muddled', rows' # <<>>
             PROVE  /\ Explains(drift', rows')
                    /\ error' = rows'[Len(rows')].at + pending' + (drift' + OffsetRunning') * gap'
  BY DEF StarIsOnTrack
<1>1. DriftTypeOK /\ RowsInOrder
  BY DEF Typed
<1>2. /\ error' = Here /\ Abs(Here) <= Reach /\ gap' = 0 /\ pending' = 0
      /\ UNCHANGED <<axis, drift, raOffset>>
      /\ muddled' = (stale # 0 \/ (Len(rows') > 1 /\ (muddled
         \/ (gap >= LongGap /\ OffsetRunning # 0))))
  BY DEF Frame, InView
<1>3. /\ stale = 0
      /\ Len(rows') > 1 => ~muddled /\ ~(gap >= LongGap /\ OffsetRunning # 0)
  BY <1>2
<1>4. drift \in Int /\ OffsetRunning \in Int /\ Here \in Int /\ Delivered \in Int
  BY <1>1, Numbers
<1>5. Added(rows', Here + stale, Delivered, Since)
  BY <1>1, FrameAdds
<1>6. /\ rows' \in Seq(Row) /\ Len(rows') \in Nat /\ DOMAIN rows' = 1..Len(rows')
         /\ Len(rows') >= 1
      /\ rows'[Len(rows')].ago = 0 /\ rows'[Len(rows')].at = Here /\ rows'[Len(rows')].sent = 0
  BY <1>3, <1>4, <1>5, Bounds DEF Added
<1>7. error' = rows'[Len(rows')].at + pending' + (drift' + OffsetRunning') * gap'
  <2>1. OffsetRunning' = OffsetRunning
    BY <1>2 DEF OffsetRunning
  <2>2. (drift + OffsetRunning) * 0 = 0
    BY <1>4
  <2>3. QED BY <1>2, <1>4, <1>6, <2>1, <2>2
<1>8. ASSUME NEW i \in DOMAIN rows'
      PROVE  Here = rows'[i].at + drift * rows'[i].ago - rows'[i].sent
  <2>1. CASE i = Len(rows')
    <3>1. drift * 0 = 0
      BY <1>4
    <3>2. QED BY <1>4, <1>6, <2>1, <3>1
  <2>2. CASE i # Len(rows')
    <3>1. i \in 1..Len(rows') - 1 /\ Len(rows') > 1 /\ rows # <<>> /\ ~(Since > Window)
      BY <1>5, <1>6, <2>2 DEF Added
    <3>2. gap \in Nat /\ Since = gap + 1 /\ gap < Window
      <4>1. gap \in Nat
        BY <1>1, <3>1, NewestIsTyped
      <4>2. Since = gap + 1
        BY <4>1, NoneIsNoNumber DEF Since
      <4>3. QED BY <3>1, <4>1, <4>2, Bounds
    <3>3. ~muddled /\ ~(gap >= LongGap /\ OffsetRunning # 0)
      BY <1>3, <3>1
    <3>4. OffsetRunning * Elapsed = OffsetRunning * (gap + 1)
      <4>1. CASE OffsetRunning = 0
        <5>1. Elapsed \in Nat /\ gap + 1 \in Nat
          BY <1>1, <3>2, Numbers
        <5>2. QED BY <4>1, <5>1
      <4>2. CASE OffsetRunning # 0
        <5>1. gap < LongGap
          BY <3>2, <3>3, <4>2, Bounds
        <5>2. Elapsed = gap + 1
          <6>1. gap # Nothing /\ gap + 1 \in Int /\ LongGap \in Int /\ gap + 1 <= LongGap
            BY <3>2, <5>1, Bounds, NoneIsNoNumber
          <6>2. Least(gap + 1, LongGap) = gap + 1
            BY <6>1, LeastIs
          <6>3. QED BY <6>1, <6>2 DEF Elapsed
        <5>3. QED BY <5>2
      <4>3. QED BY <4>1, <4>2
    <3>5. Delivered = pending + OffsetRunning * (gap + 1)
      BY <3>4 DEF Delivered
    <3>6. Abs(error) <= Reach
      <4>1. error \in Int
        BY <1>1 DEF DriftTypeOK
      <4>2. Abs(error) > Reach => Here = error
        BY <1>1, Numbers
      <4>3. QED BY <1>2, <4>1, <4>2, Bounds DEF Abs
    <3>7. Here
            = rows[Len(rows)].at + pending + (drift + OffsetRunning) * gap + drift + OffsetRunning
      BY <1>1, <3>1, <3>2, <3>3, <3>6, NextOnTrack
    <3>8. PICK j \in DOMAIN rows : /\ rows'[i].ago = rows[j].ago + Since /\ rows'[i].at = rows[j].at
                                   /\ rows'[i].sent = rows[j].sent - Delivered
      BY <1>5, <3>1 DEF Added
    <3>9. rows[Len(rows)].at = rows[j].at + drift * rows[j].ago - rows[j].sent
      BY <3>1, <3>3 DEF StarIsOnTrack, Explains
    <3>10. /\ rows[Len(rows)].at \in Int /\ pending \in Int
           /\ rows[j].ago \in Nat /\ rows[j].at \in Int /\ rows[j].sent \in Int
      BY <1>1, <3>1, NewestIsTyped, Bounds DEF DriftTypeOK
    <3>11. rows[Len(rows)].at + pending + (drift + OffsetRunning) * gap + drift + OffsetRunning
             = rows[j].at + drift * (rows[j].ago + (gap + 1))
                 - (rows[j].sent - (pending + OffsetRunning * (gap + 1)))
      <4> DEFINE a == rows[Len(rows)].at
                 b == rows[j].at
                 t == rows[j].ago
                 c == rows[j].sent
      <4>1. a \in Int /\ b \in Int /\ t \in Nat /\ c \in Int /\ a = b + drift * t - c
        BY <3>9, <3>10
      <4> HIDE DEF a, b, t, c
      <4>2. drift \in Int /\ OffsetRunning \in Int /\ pending \in Int /\ gap \in Nat
        BY <1>4, <3>2, <3>10
      <4>3. a + pending + (drift + OffsetRunning) * gap + drift + OffsetRunning
              = b + drift * (t + (gap + 1)) - (c - (pending + OffsetRunning * (gap + 1)))
        BY <4>1, <4>2, TrackGoesOn
      <4>4. QED BY <4>3 DEF a, b, t, c
    <3>12. QED BY <3>2, <3>5, <3>7, <3>8, <3>11
  <2>3. QED BY <2>1, <2>2
<1>9. Explains(drift', rows')
  BY <1>2, <1>6, <1>8 DEF Explains
<1> QED BY <1>7, <1>9

LEMMA CommandTrack ==
  ASSUME Typed, StarIsOnTrack, Commanded
  PROVE  StarIsOnTrack'
<1> SUFFICES ASSUME ~muddled, rows # <<>>
             PROVE  /\ Explains(drift, rows)
                    /\ error' = rows[Len(rows)].at + pending' + (drift + OffsetRunning') * gap
  BY DEF StarIsOnTrack, Commanded
<1>1. DriftTypeOK /\ RowsInOrder /\ TurnsAgree
  BY DEF Typed
<1>2. /\ gap = 0 /\ pending = 0 /\ Abs(error) <= Reach /\ axis' = axis
      /\ order \in [to : -MaxUnits..MaxUnits, at : Int, steady : BOOLEAN]
  BY <1>1 DEF Commanded, TurnsAgree, DriftTypeOK
<1>3. /\ drift \in Int /\ OffsetRunning \in Int /\ rows[Len(rows)].at \in Int /\ order.to \in Int
      /\ raOffset \in Int
  BY <1>1, <1>2, Numbers, NewestIsTyped, Bounds DEF DriftTypeOK
<1>4. Explains(drift, rows)
         /\ error = rows[Len(rows)].at + pending + (drift + OffsetRunning) * gap
  BY <1>2, Bounds DEF StarIsOnTrack
<1>5. error = rows[Len(rows)].at
  <2>1. (drift + OffsetRunning) * 0 = 0
    BY <1>3
  <2>2. QED BY <1>2, <1>3, <1>4, <2>1
<1>6. OffsetRunning' \in Int /\ pending' \in Int /\ error' = rows[Len(rows)].at + pending'
  <2> DEFINE a == rows[Len(rows)].at
             to == order.to
  <2>1. error = a /\ a \in Int /\ to \in Int /\ pending = 0 /\ axis' = axis
    BY <1>2, <1>3, <1>5
  <2>2. \/ axis = "ra offset" /\ raOffset' = to /\ error' = error /\ pending' = pending
        \/ axis # "ra offset" /\ error' = error + to /\ pending' = pending + to
    BY DEF Commanded
  <2> HIDE DEF a, to
  <2>3. pending' \in Int /\ error' = a + pending'
    <3>1. CASE error' = error /\ pending' = pending
      <4>1. error' = a /\ pending' = 0
        BY <2>1, <3>1
      <4>2. QED BY <2>1, <4>1
    <3>2. CASE error' = error + to /\ pending' = pending + to
      <4>1. pending' = to /\ error' = a + to
        BY <2>1, <3>2
      <4>2. QED BY <2>1, <4>1
    <3>3. QED BY <2>2, <3>1, <3>2
  <2>4. OffsetRunning' \in Int
    BY <1>3, <2>1, <2>2 DEF OffsetRunning
  <2>5. QED BY <2>3, <2>4 DEF a
<1>7. (drift + OffsetRunning') * gap = 0
  <2> DEFINE w == drift + OffsetRunning'
  <2>1. w \in Int
    BY <1>3, <1>6
  <2> HIDE DEF w
  <2>2. w * gap = 0
    BY <1>2, <2>1
  <2>3. QED BY <2>2 DEF w
<1>8. error' = rows[Len(rows)].at + pending' + (drift + OffsetRunning') * gap
  <2> DEFINE a == rows[Len(rows)].at
             z == (drift + OffsetRunning') * gap
  <2>1. a \in Int /\ z = 0 /\ pending' \in Int /\ error' = a + pending'
    BY <1>3, <1>6, <1>7
  <2> HIDE DEF a, z
  <2>2. error' = a + pending' + z
    BY <2>1
  <2>3. QED BY <2>2 DEF a, z
<1> QED BY <1>4, <1>8

LEMMA LostTrack ==
  ASSUME Typed, StarIsOnTrack, StarLost
  PROVE  StarIsOnTrack'
<1> SUFFICES ASSUME ~muddled, rows # <<>>
             PROVE  /\ Explains(drift, rows)
                    /\ Abs(error') <= Reach /\ gap' < Window
                       => error' = rows[Len(rows)].at + pending + (drift + OffsetRunning) * gap'
  BY DEF StarIsOnTrack, StarLost, OffsetRunning
<1>1. DriftTypeOK /\ RowsInOrder
  BY DEF Typed
<1>2. Explains(drift, rows) /\ gap \in Nat /\ gap # Nothing
  <2>1. gap \in Nat
    BY <1>1, NewestIsTyped
  <2>2. QED BY <2>1, NoneIsNoNumber DEF StarIsOnTrack
<1>3. ASSUME Abs(error') <= Reach, gap' < Window
      PROVE  error' = rows[Len(rows)].at + pending + (drift + OffsetRunning) * gap'
  <2>1. error' = Here /\ gap' = Least(gap + 1, Window)
    BY <1>2 DEF StarLost
  <2>2. gap' = gap + 1 /\ gap < Window
    <3>1. gap + 1 \in Int /\ Window \in Int /\ Least(gap + 1, Window) < Window
      BY <1>2, <1>3, <2>1, Bounds
    <3>2. gap + 1 < Window
      BY <3>1, LeastIs
    <3>3. gap' = gap + 1
      BY <2>1, <3>1, <3>2, LeastIs
    <3>4. QED BY <1>2, <3>1, <3>2, <3>3
  <2>3. Abs(error) <= Reach
    <3>1. error \in Int
      BY <1>1 DEF DriftTypeOK
    <3>2. Abs(error) > Reach => Here = error
      BY <1>1, Numbers
    <3>3. QED BY <1>3, <2>1, <3>1, <3>2, Bounds DEF Abs
  <2>4. Here = rows[Len(rows)].at + pending + (drift + OffsetRunning) * (gap + 1)
    BY <1>1, <2>2, <2>3, NextOnTrack
  <2>5. QED BY <2>1, <2>2, <2>4
<1> QED BY <1>2, <1>3

LEMMA DitherTrack ==
  ASSUME Typed, StarIsOnTrack, DitherBegins
  PROVE  StarIsOnTrack'
<1>1. DriftTypeOK /\ RowsInOrder
  BY DEF Typed
<1>2. PICK by \in Shifts : Abs(error) <= Reach /\ LockMoves(by) /\ rows' = Moved(rows, by)
  BY DEF DitherBegins, Moved
<1>3. UNCHANGED <<axis, drift, raOffset, pending, gap, muddled>>
  BY DEF DitherBegins
<1>4. by \in Int /\ error \in Int /\ error' = error - by
  BY <1>1, <1>2, DriftAssumption DEF LockMoves, DriftTypeOK
<1>5. /\ Len(rows') = Len(rows) /\ DOMAIN rows' = DOMAIN rows
      /\ \A i \in DOMAIN rows : /\ rows'[i].ago = rows[i].ago /\ rows'[i].sent = rows[i].sent
                                /\ rows'[i].at = rows[i].at - by
  <2>1. rows \in Seq(Row)
    BY <1>1 DEF DriftTypeOK
  <2>2. QED BY <1>2, <1>4, <2>1, RowsShift
<1>6. SUFFICES ASSUME ~muddled, rows' # <<>>
               PROVE  /\ Explains(drift, rows')
                      /\ gap < Window
                         => error' = rows'[Len(rows')].at + pending + (drift + OffsetRunning) * gap
  BY <1>3 DEF StarIsOnTrack, OffsetRunning
<1>7. rows # <<>>
  <2>1. rows' \in Seq(Row)
    BY <1>1, <1>2, <1>4, RowsShift DEF DriftTypeOK
  <2>2. QED BY <1>5, <1>6, <2>1
<1>8. /\ Explains(drift, rows) /\ Len(rows) \in DOMAIN rows /\ rows[Len(rows)].at \in Int
         /\ gap \in Nat
      /\ \A i \in DOMAIN rows : rows[i].ago \in Nat /\ rows[i].at \in Int /\ rows[i].sent \in Int
      /\ gap < Window => error = rows[Len(rows)].at + pending + (drift + OffsetRunning) * gap
  BY <1>1, <1>2, <1>6, <1>7, NewestIsTyped DEF StarIsOnTrack
<1>9. rows'[Len(rows')].at = rows[Len(rows)].at - by
  BY <1>5, <1>8
<1>10. drift \in Int /\ OffsetRunning \in Int /\ pending \in Int
  BY <1>1, Numbers, Bounds DEF DriftTypeOK
<1>11. ASSUME NEW i \in DOMAIN rows'
       PROVE  rows'[Len(rows')].at = rows'[i].at + drift * rows'[i].ago - rows'[i].sent
  <2> DEFINE m == drift * rows[i].ago
  <2>1. rows[Len(rows)].at = rows[i].at + m - rows[i].sent
    BY <1>5, <1>8 DEF Explains
  <2>2. m \in Int /\ drift * rows'[i].ago = m
    BY <1>5, <1>8, <1>10
  <2> HIDE DEF m
  <2>3. rows[Len(rows)].at - by = (rows[i].at - by) + m - rows[i].sent
    BY <1>4, <1>5, <1>8, <2>1, <2>2
  <2>4. QED BY <1>5, <1>9, <2>2, <2>3
<1>12. ASSUME gap < Window
       PROVE  error' = rows'[Len(rows')].at + pending + (drift + OffsetRunning) * gap
  <2> DEFINE m == (drift + OffsetRunning) * gap
  <2>1. m \in Int /\ error = rows[Len(rows)].at + pending + m
    BY <1>8, <1>10, <1>12
  <2> HIDE DEF m
  <2>2. error' = rows'[Len(rows')].at + pending + m
    BY <1>4, <1>8, <1>9, <1>10, <2>1
  <2>3. QED BY <2>2 DEF m
<1> QED BY <1>11, <1>12 DEF Explains

LEMMA TrackStep ==
  ASSUME Typed, StarIsOnTrack, [DriftNext]_driftVars
  PROVE  StarIsOnTrack'
<1>1. CASE UNCHANGED driftVars
  BY <1>1 DEF StarIsOnTrack, OffsetRunning, driftVars, model, guideLoop, Explains
<1>2. CASE DitherSettles \/ DitherTimesOut
  <2>1. UNCHANGED <<axis, drift, error, model, raOffset, muddled>>
    BY <1>2 DEF DitherSettles, DitherTimesOut
  <2>2. QED BY <2>1 DEF StarIsOnTrack, OffsetRunning, model, Explains
<1>3. CASE SelectStar
  BY <1>3 DEF SelectStar, StarIsOnTrack
<1>4. QED
  BY <1>1, <1>2, <1>3, FrameTrack, CommandTrack, LostTrack, DitherTrack DEF DriftNext

LEMMA DriftStarts == DriftInit => Typed /\ StarIsOnTrack
<1> SUFFICES ASSUME DriftInit PROVE Typed /\ StarIsOnTrack
  OBVIOUS
<1>1. rows = <<>> /\ rows \in Seq(Row) /\ Len(rows) = 0 /\ DOMAIN rows = {}
  BY DEF DriftInit
<1>2. RowsInOrder /\ TurnsAgree /\ StarIsOnTrack
  BY <1>1, Bounds DEF DriftInit, RowsInOrder, TurnsAgree, StarIsOnTrack
<1>3. DriftTypeOK
  <2>1. /\ 0 \in -Reach..Reach /\ 0 \in -MaxUnits..MaxUnits /\ 0 \in 0..MeasureMax
        /\ 0 \in 0..MaxTroubles /\ 0 <= Window + 1
    BY Bounds
  <2>2. /\ axis \in Axes /\ drift \in Drifts /\ error = 0 /\ phase = "exposing" /\ stale = 0
        /\ mode = "measure" /\ measured = 0 /\ fit = Nothing /\ raOffset = 0 /\ pending = 0 /\ gap = Nothing
        /\ order = Nothing /\ sample = Nothing /\ held = Nothing /\ troubles = 0
        /\ muddled = FALSE /\ steady = FALSE /\ blind = FALSE
    BY DEF DriftInit
  <2>3. muddled \in BOOLEAN /\ steady \in BOOLEAN /\ blind \in BOOLEAN
    BY <2>2
  <2>4. QED BY <1>1, <2>1, <2>2, <2>3 DEF DriftTypeOK
<1> QED BY <1>2, <1>3 DEF Typed

\* The rows are in order, the turns of the loop agree, and the star is where the rows, the
\* sky and what was sent since put it.
THEOREM DriftInvariant == DriftSpec => [](Typed /\ StarIsOnTrack)
<1>1. Typed /\ StarIsOnTrack /\ [DriftNext]_driftVars => (Typed /\ StarIsOnTrack)'
  BY TypeStep, TrackStep
<1>2. QED BY <1>1, DriftStarts, PTL DEF DriftSpec

\* The window holds frames of one track, of a star that drifts as it does.
THEOREM WindowIsTrue == DriftSpec => []WindowIsOneTrack
<1>1. Typed /\ StarIsOnTrack => WindowIsOneTrack
  BY DEF StarIsOnTrack, WindowIsOneTrack
<1>2. QED BY <1>1, DriftInvariant, PTL

\* What the loop keeps has its type and its bound: the window at most Window + 1 frames, a
\* correction at most MaxUnits.
THEOREM DriftTypeSafety == DriftSpec => []DriftTypeOK
<1>1. Typed => DriftTypeOK
  BY DEF Typed
<1>2. QED BY <1>1, DriftInvariant, PTL

-----------------------------------------------------------------------------
(* Corrections                                                             *)

LEMMA SameSign ==
  ASSUME NEW x \in Int, NEW y \in Int
  PROVE  x * y > 0 <=> (x > 0 /\ y > 0) \/ (x < 0 /\ y < 0)
OBVIOUS

LEMMA NotSameSign ==
  ASSUME NEW x \in Int, NEW y \in Int, ~(x * y > 0)
  PROVE  (x > 0 => y <= 0) /\ (x < 0 => y >= 0)
OBVIOUS

LEMMA OtherSign ==
  ASSUME NEW x \in Int, NEW y \in Int, x > 0 => y <= 0, x < 0 => y >= 0
  PROVE  x * y <= 0
OBVIOUS

\* The drift, and a share of the offset taken back, however that is limited.
LEMMA Closer ==
  ASSUME NEW a \in Int, NEW d \in Int, Abs(d) <= MaxUnits,
     NEW share \in Shares(a),
         NEW u, u = -d - Sign(a) * share
  PROVE  /\ u \in Int /\ Abs(a + d + Limited(u)) <= Abs(a)
         /\ u = 0 \/ u * d > 0 => Abs(a + d) <= Abs(a)
<1>1. share \in Int /\ 0 <= share /\ share <= Abs(a)
  BY DEF Shares, Abs
<1>2. -MaxUnits <= d /\ d <= MaxUnits /\ MaxUnits \in Nat
  BY Bounds DEF Abs
<1>3. u \in Int /\ \/ a > 0 /\ u = -d - share
                   \/ a = 0 /\ u = -d
                   \/ a < 0 /\ u = -d + share
  BY <1>1 DEF Sign
<1>4. /\ u > MaxUnits => Limited(u) = MaxUnits
      /\ u < -MaxUnits => Limited(u) = -MaxUnits
      /\ -MaxUnits <= u /\ u <= MaxUnits => Limited(u) = u
  BY <1>2, <1>3 DEF Limited, Sign, Least, Abs
<1>5. Abs(a + d + Limited(u)) <= Abs(a)
  <2>1. CASE u > MaxUnits
    BY <1>1, <1>2, <1>3, <1>4, <2>1 DEF Abs
  <2>2. CASE u < -MaxUnits
    BY <1>1, <1>2, <1>3, <1>4, <2>2 DEF Abs
  <2>3. CASE -MaxUnits <= u /\ u <= MaxUnits
    BY <1>1, <1>2, <1>3, <1>4, <2>3 DEF Abs
  <2>4. QED BY <1>2, <1>3, <2>1, <2>2, <2>3
<1>6. ASSUME u = 0 PROVE Abs(a + d) <= Abs(a)
  BY <1>1, <1>2, <1>3, <1>6 DEF Abs
<1>7. ASSUME u * d > 0 PROVE Abs(a + d) <= Abs(a)
  <2>1. (u > 0 /\ d > 0) \/ (u < 0 /\ d < 0)
    BY <1>3, <1>7, SameSign
  <2>2. QED BY <1>1, <1>2, <1>3, <2>1 DEF Abs
<1> QED BY <1>3, <1>5, <1>6, <1>7

\* What an order makes of the star's offset, from a true fit and a frame of one tick.
LEMMA OrderIsCloser ==
  ASSUME DriftTypeOK, NEW a \in Int, Abs(drift) <= MaxUnits, mode # "measure",
         NEW f, f = [at |-> a, drift |-> drift], f # Nothing, NEW to \in Orders(f, 1)
  PROVE  /\ to # Nothing => Abs(a + drift + to) <= Abs(a)
         /\ to = Nothing => Abs(a + drift + OffsetRunning) <= Abs(a)
<1>1. drift \in Int /\ f.at = a /\ f.drift = drift
  BY Numbers
<1>2. CASE axis = "ra offset"
  <2>1. PICK r \in Rates(f, 1) : to = IF Limited(r) = raOffset THEN Nothing ELSE Limited(r)
    BY <1>2 DEF Orders
  <2>2. PICK share \in Shares(a) : r = -drift - Sign(a) * (share \div 1)
    BY <1>1, <2>1 DEF Rates
  <2>3. share \div 1 = share
    BY DEF Shares, Abs
  <2>4. r \in Int /\ Abs(a + drift + Limited(r)) <= Abs(a)
    BY <1>1, <2>2, <2>3, Closer
  <2>5. OffsetRunning = raOffset
    BY <1>2 DEF OffsetRunning
  <2>6. Limited(r) # Nothing
    BY <2>4, LimitedIsTyped, Bounds, NoneIsNoNumber DEF Units0
  <2>7. CASE Limited(r) = raOffset
    BY <2>1, <2>4, <2>5, <2>7
  <2>8. CASE Limited(r) # raOffset
    BY <2>1, <2>4, <2>6, <2>8
  <2>9. QED BY <2>7, <2>8
<1>3. CASE axis # "ra offset"
  <2>1. PICK u \in Units(f, 1) : to = IF u = 0 \/ Withheld(u, f) THEN Nothing
           ELSE Limited(u)
    BY <1>3 DEF Orders
  <2>2. PICK share \in Shares(a) : u = -drift * 1 - Sign(a) * share
    BY <1>1, <2>1 DEF Units
  <2>3. u = -drift - Sign(a) * share
    BY <1>1, <2>2
  <2>4. /\ Abs(a + drift + Limited(u)) <= Abs(a)
        /\ u = 0 \/ u * drift > 0 => Abs(a + drift) <= Abs(a)
    BY <1>1, <2>3, Closer
  <2>5. to = Nothing => u = 0 \/ u * drift > 0
    <3>1. Limited(u) # Nothing
      <4>1. u \in Int
        BY <1>1, <2>3, Closer
      <4>2. Limited(u) \in Int
        BY <4>1, LimitedIsTyped, Bounds DEF Units0
      <4>3. QED BY <4>2, NothingAssumption
    <3>2. QED BY <1>1, <2>1, <3>1 DEF Withheld
  <2>6. a + drift + OffsetRunning = a + drift
    <3>1. OffsetRunning = 0
      BY <1>3 DEF OffsetRunning
    <3>2. a + drift + 0 = a + drift
      BY <1>1
    <3>3. QED BY <3>1, <3>2
  <2>7. to # Nothing => to = Limited(u)
    BY <2>1
  <2>8. QED BY <2>4, <2>5, <2>6, <2>7
<1> QED BY <1>2, <1>3

\* A frame that is steered by has a fit of the track.
LEMMA SteersTrue ==
  ASSUME Typed, StarIsOnTrack, Frame, ~muddled', NEW f \in Fits(rows'), f # Nothing
  PROVE  f = [at |-> Here, drift |-> drift] /\ ~muddled /\ stale = 0 /\ Here \in Int
<1>1. DriftTypeOK /\ RowsInOrder
  BY DEF Typed
<1>2. StarIsOnTrack'
  BY FrameTrack
<1>3. /\ drift' = drift
      /\ muddled' = (stale # 0 \/ (Len(rows') > 1 /\ (muddled
         \/ (gap >= LongGap /\ OffsetRunning # 0))))
  BY DEF Frame
<1>4. Added(rows', Here + stale, Delivered, Since) /\ Here \in Int /\ drift \in Drifts
  BY <1>1, FrameAdds, Numbers DEF DriftTypeOK
<1>5. stale = 0
  BY <1>3
<1>6. /\ rows' \in Seq(Row) /\ Len(rows') >= 1 /\ rows' # <<>>
      /\ rows'[Len(rows')].ago = 0 /\ rows'[Len(rows')].sent = 0 /\ rows'[Len(rows')].at = Here
      /\ \A i \in DOMAIN rows' : rows'[i].ago >= Len(rows') - i
  BY <1>4, <1>5, Bounds DEF Added
<1>7. Explains(drift, rows')
  BY <1>2, <1>3, <1>6 DEF StarIsOnTrack
<1>8. Len(rows') > 1 /\ f = [at |-> rows'[Len(rows')].at, drift |-> drift]
  BY <1>4, <1>6, <1>7, FitIsExact
<1> QED BY <1>3, <1>4, <1>5, <1>6, <1>8

LEMMA FrameCloser ==
  ASSUME KeepsUp, Typed, StarIsOnTrack, CorrectedIsCloser, Frame
  PROVE  CorrectedIsCloser'
<1> SUFFICES ASSUME ~muddled'
             PROVE  /\ phase' = "exposing" /\ steady' =>
                         /\ sample' \in Int /\ stale' = 0
                         /\ Abs(error') <= Reach =>
                            Abs(error' + drift' + OffsetRunning') <= Abs(sample')
                    /\ order' # Nothing /\ order'.steady =>
                         /\ error' = order'.at
                            /\ Abs(error' + drift' + order'.to) <= Abs(order'.at)
                         /\ steady' => sample' \in Int /\ Abs(order'.at) <= Abs(sample')
  BY DEF CorrectedIsCloser
<1>1. DriftTypeOK /\ RowsInOrder /\ TurnsAgree
  BY DEF Typed
<1> DEFINE interval == IF Elapsed > 0 THEN Elapsed ELSE 1
<1>2. PICK f \in Fits(rows') : \E to \in Orders(f, interval) :
        \/ /\ to = Nothing /\ TurnsOver(f) /\ sample' = Here + stale
           /\ steady' = Steers(f) /\ UNCHANGED order
        \/ /\ to # Nothing /\ phase' = "commanding"
           /\ order' = [to |-> to, at |-> Here + stale, steady |-> Steers(f)]
           /\ UNCHANGED <<stale, mode, sample, steady>>
  BY <1>1, FrameIs
<1>3. PICK to \in Orders(f, interval) :
        \/ /\ to = Nothing /\ TurnsOver(f) /\ sample' = Here + stale
           /\ steady' = Steers(f) /\ UNCHANGED order
        \/ /\ to # Nothing /\ phase' = "commanding"
           /\ order' = [to |-> to, at |-> Here + stale, steady |-> Steers(f)]
           /\ UNCHANGED <<stale, mode, sample, steady>>
  BY <1>2
<1>4. /\ phase = "exposing" /\ Abs(Here) <= Reach /\ error' = Here /\ order = Nothing
      /\ UNCHANGED <<axis, drift, raOffset>>
  BY <1>1 DEF Frame, InView, DriftTypeOK
<1>5. Abs(drift) <= MaxUnits /\ drift \in Int /\ OffsetRunning \in Int
         /\ OffsetRunning' = OffsetRunning
  BY <1>1, <1>4, Numbers DEF KeepsUp, DriftTypeOK, OffsetRunning
<1>6. ASSUME Steers(f)
      PROVE  /\ ~muddled /\ stale = 0 /\ Here \in Int /\ Here + stale = Here
             /\ to # Nothing => Abs(Here + drift + to) <= Abs(Here)
             /\ to = Nothing => Abs(Here + drift + OffsetRunning) <= Abs(Here)
  <2>1. Elapsed = 1 /\ mode # "measure" /\ f # Nothing
    BY <1>6 DEF Steers
  <2>2. f = [at |-> Here, drift |-> drift] /\ ~muddled /\ stale = 0 /\ Here \in Int
    BY <2>1, SteersTrue
  <2>3. to \in Orders(f, 1)
    BY <2>1
  <2>4. /\ to # Nothing => Abs(Here + drift + to) <= Abs(Here)
        /\ to = Nothing => Abs(Here + drift + OffsetRunning) <= Abs(Here)
    BY <1>1, <1>5, <2>1, <2>2, <2>3, OrderIsCloser
  <2>5. QED BY <2>2, <2>4
<1>7. CASE to = Nothing /\ TurnsOver(f) /\ sample' = Here + stale
         /\ steady' = Steers(f) /\ UNCHANGED order
  <2>1. stale' = 0 /\ order' = Nothing
    BY <1>4, <1>7 DEF TurnsOver
  <2>2. QED BY <1>4, <1>5, <1>6, <1>7, <2>1
<1>8. CASE /\ to # Nothing /\ phase' = "commanding" /\ UNCHANGED <<stale, mode, sample, steady>>
           /\ order' = [to |-> to, at |-> Here + stale, steady |-> Steers(f)]
  <2>1. order'.steady = Steers(f) /\ order'.at = Here + stale /\ order'.to = to
    BY <1>8
  <2>2. ASSUME Steers(f), steady
           PROVE sample \in Int /\ Abs(Here) <= Abs(sample)
    <3>1. sample \in Int
             /\ (Abs(error) <= Reach =>
             Abs(error + drift + OffsetRunning) <= Abs(sample))
      BY <1>4, <1>6, <2>2 DEF CorrectedIsCloser
    <3>2. Abs(error) <= Reach
      <4>1. error \in Int
        BY <1>1 DEF DriftTypeOK
      <4>2. Abs(error) > Reach => Here = error
        BY <1>1, Numbers
      <4>3. QED BY <1>4, <4>1, <4>2, Bounds DEF Abs
    <3>3. Here = error + drift + OffsetRunning
      BY <1>1, <3>2, Numbers
    <3>4. QED BY <3>1, <3>2, <3>3
  <2>3. QED BY <1>4, <1>6, <1>8, <2>1, <2>2
<1> QED BY <1>3, <1>7, <1>8

LEMMA CommandCloser ==
  ASSUME Typed, CorrectedIsCloser, Commanded
  PROVE  CorrectedIsCloser'
<1>1. /\ order # Nothing /\ phase' = "exposing" /\ stale' = 0 /\ sample' = order.at
         /\ steady' = order.steady
      /\ order' = Nothing /\ UNCHANGED <<axis, drift, muddled>>
  BY DEF Commanded, TurnsOver, Typed, DriftTypeOK
<1>2. order.at \in Int /\ order.to \in Int /\ error \in Int /\ drift \in Int
  <2>1. order \in [to : -MaxUnits..MaxUnits, at : Int, steady : BOOLEAN]
    BY <1>1 DEF Typed, DriftTypeOK
  <2>2. order.to \in -MaxUnits..MaxUnits /\ order.at \in Int
    BY <2>1
  <2>3. error \in Int /\ drift \in Int
    BY Numbers DEF Typed, DriftTypeOK
  <2>4. order.to \in Int
    BY <2>2, Bounds
  <2>5. QED BY <2>2, <2>3, <2>4
<1>3. error' + drift + OffsetRunning' = error + drift + order.to
  <2>1. CASE axis = "ra offset"
    <3>1. OffsetRunning' = order.to /\ error' = error
      BY <1>1, <2>1 DEF Commanded, OffsetRunning
    <3>2. QED BY <3>1
  <2>2. CASE axis # "ra offset"
    <3>1. OffsetRunning' = 0 /\ error' = error + order.to
      BY <1>1, <2>2 DEF Commanded, OffsetRunning
    <3> DEFINE to == order.to
    <3>2. to \in Int /\ error' = error + to
      BY <1>2, <3>1
    <3> HIDE DEF to
    <3>3. (error + to) + drift + 0 = error + drift + to
      BY <1>2, <3>2
    <3>4. QED BY <3>1, <3>2, <3>3 DEF to
  <2>3. QED BY <2>1, <2>2
<1>4. ASSUME ~muddled, order.steady
      PROVE  Abs(error + drift + order.to) <= Abs(order.at)
  BY <1>1, <1>4 DEF CorrectedIsCloser
<1> QED BY <1>1, <1>2, <1>3, <1>4 DEF CorrectedIsCloser

LEMMA CloserStep ==
  ASSUME KeepsUp, Typed, StarIsOnTrack, CorrectedIsCloser, [DriftNext]_driftVars
  PROVE  CorrectedIsCloser'
<1>1. CASE Frame
  BY <1>1, FrameCloser
<1>2. CASE Commanded
  BY <1>2, CommandCloser
<1>3. CASE StarLost
  <2>1. steady' = FALSE /\ order' = Nothing
    BY <1>3 DEF StarLost, Typed, DriftTypeOK
  <2>2. QED BY <2>1 DEF CorrectedIsCloser
<1>4. CASE DitherBegins \/ SelectStar
  <2>1. PICK by : LockMoves(by)
    BY <1>4 DEF DitherBegins, SelectStar
  <2>2. steady' = FALSE /\ (order' = Nothing \/ (order # Nothing /\ order' = [order EXCEPT !.steady = FALSE]))
    BY <2>1 DEF LockMoves
  <2>3. order' # Nothing => order'.steady = FALSE
    <3>1. order # Nothing => order \in [to : -MaxUnits..MaxUnits, at : Int, steady : BOOLEAN]
      BY DEF Typed, DriftTypeOK
    <3>2. QED BY <2>2, <3>1
  <2>4. QED BY <2>2, <2>3 DEF CorrectedIsCloser
<1>5. CASE DitherSettles \/ DitherTimesOut
  <2>1. UNCHANGED <<axis, drift, error, guideLoop, model, raOffset, order, sample, muddled, steady>>
    BY <1>5 DEF DitherSettles, DitherTimesOut
  <2>2. QED BY <2>1 DEF CorrectedIsCloser, OffsetRunning, guideLoop, model
<1>6. CASE UNCHANGED driftVars
  BY <1>6 DEF CorrectedIsCloser, OffsetRunning, guideLoop, model, wait, driftVars
<1>7. DriftNext \/ UNCHANGED driftVars
  OBVIOUS
<1> QED BY <1>1, <1>2, <1>3, <1>4, <1>5, <1>6, <1>7 DEF DriftNext

\* What is sent has the sign of what was wanted, or is nothing.
LEMMA LimitedSign ==
  ASSUME NEW u \in Int
  PROVE  /\ Limited(u) \in Int
         /\ u > 0 => Limited(u) >= 0
         /\ u < 0 => Limited(u) <= 0
         /\ u = 0 => Limited(u) = 0
<1> DEFINE size == Abs(u)
           most == Least(size, MaxUnits)
<1>1. size \in Int /\ size >= 0 /\ MaxUnits \in Int /\ MaxUnits >= 0
  BY Bounds DEF Abs
<1>2. most \in Int /\ most >= 0
  <2> HIDE DEF size
  <2>1. QED BY <1>1, LeastIs
<1>3. Limited(u) = Sign(u) * most
  BY DEF Limited
<1> HIDE DEF most
<1>4. CASE u > 0
  <2>1. Limited(u) = 1 * most
    BY <1>3, <1>4 DEF Sign
  <2>2. QED BY <1>2, <1>4, <2>1
<1>5. CASE u < 0
  <2>1. Limited(u) = (-1) * most
    BY <1>3, <1>5 DEF Sign
  <2>2. QED BY <1>2, <1>5, <2>1
<1>6. CASE u = 0
  <2>1. Limited(u) = 0 * most
    BY <1>3, <1>6 DEF Sign
  <2>2. QED BY <1>2, <1>6, <2>1
<1> QED BY <1>4, <1>5, <1>6

LEMMA UnitsAreWhole ==
  ASSUME NEW a \in Int, NEW d \in Int, NEW n \in Int, NEW share \in Shares(a)
  PROVE  -d * n - Sign(a) * share \in Int
<1> DEFINE k == -d
           s == Sign(a)
<1>1. k \in Int /\ s \in Int /\ share \in Int
  BY DEF Shares, Abs, Sign
<1> HIDE DEF k, s
<1>2. k * n - s * share \in Int
  BY <1>1
<1> QED BY <1>2 DEF k, s

\* A correction that is not against what was wanted is not along the drift either.
LEMMA SentAgainst ==
  ASSUME NEW u \in Int, NEW d \in Int, ~(u * d > 0)
  PROVE  Limited(u) * d <= 0
<1> DEFINE to == Limited(u)
<1>1. to \in Int /\ (u > 0 => to >= 0) /\ (u < 0 => to <= 0) /\ (u = 0 => to = 0)
  BY LimitedSign
<1>2. (u > 0 => d <= 0) /\ (u < 0 => d >= 0)
  BY NotSameSign
<1> HIDE DEF to
<1>3. (to > 0 => d <= 0) /\ (to < 0 => d >= 0)
  BY <1>1, <1>2
<1>4. to * d <= 0
  BY <1>1, <1>3, OtherSign
<1> QED BY <1>4 DEF to

LEMMA IntervalIsWhole ==
  ASSUME DriftTypeOK
  PROVE  (IF Elapsed > 0 THEN Elapsed ELSE 1) \in Int /\ drift \in Int
BY Numbers

LEMMA OrderAgainst ==
  ASSUME NEW a \in Int, NEW d \in Int, NEW n \in Int,
         mode # "measure", axis = "dec auto", [at |-> a, drift |-> d] # Nothing,
         NEW to \in Orders([at |-> a, drift |-> d], n), to # Nothing
  PROVE  to * d <= 0
<1> DEFINE f == [at |-> a, drift |-> d]
<1>1. f.at = a /\ f.drift = d
  OBVIOUS
<1>2. PICK u \in Units(f, n) : ~Withheld(u, f) /\ to = Limited(u)
  BY DEF Orders
<1>3. PICK share \in Shares(a) : u = -d * n - Sign(a) * share
  BY <1>1, <1>2 DEF Units
<1>4. u \in Int
  BY <1>3, UnitsAreWhole
<1>5. ~(u * d > 0)
  BY <1>1, <1>2 DEF Withheld
<1>6. Limited(u) * d <= 0
  BY <1>4, <1>5, SentAgainst
<1> QED BY <1>2, <1>6

\* While a drift is cancelled in declination, no step goes with it.
LEMMA NeverWithTheDrift ==
  ASSUME Typed, StarIsOnTrack, [DriftNext]_driftVars, order = Nothing, order' # Nothing,
     axis = "dec auto", ~muddled'
  PROVE  order'.to * drift <= 0
<1>1. DriftTypeOK /\ RowsInOrder /\ TurnsAgree
  BY DEF Typed
<1>2. Frame
  BY DEF DriftNext, Commanded, StarLost, DitherBegins, SelectStar, LockMoves,
     DitherSettles, DitherTimesOut, driftVars, Typed, DriftTypeOK
<1> DEFINE interval == IF Elapsed > 0 THEN Elapsed ELSE 1
<1>3. interval \in Int /\ drift \in Int
  BY <1>1, IntervalIsWhole
<1>4. PICK f \in Fits(rows') : \E to \in Orders(f, interval) :
        to # Nothing /\ order' = [to |-> to, at |-> Here + stale, steady |-> Steers(f)]
  BY <1>1, <1>2, FrameIs
<1>5. PICK to \in Orders(f, interval) :
        to # Nothing /\ order' = [to |-> to, at |-> Here + stale, steady |-> Steers(f)]
  BY <1>4
<1>6. mode # "measure" /\ f # Nothing
  BY <1>5 DEF Orders
<1>7. f = [at |-> Here, drift |-> drift] /\ Here \in Int
  BY <1>2, <1>6, SteersTrue
<1> HIDE DEF interval
<1>8. to * drift <= 0
  BY <1>3, <1>5, <1>6, <1>7, OrderAgainst
<1>9. order'.to = to
  BY <1>5
<1> QED BY <1>8, <1>9

\* A frame that is answered with nothing shows the star where the last answer brought it.
LEMMA FrameSample ==
  ASSUME Typed, StarIsOnTrack, CorrectedIsCloser, Frame, steady, ~muddled,
     sample' # sample
  PROVE  Abs(sample') <= Abs(sample)
<1>1. DriftTypeOK /\ RowsInOrder /\ TurnsAgree
  BY DEF Typed
<1>2. sample' = Here + stale
  BY <1>1, FrameIs
<1>3. /\ phase = "exposing" /\ sample \in Int /\ stale = 0 /\ Abs(Here) <= Reach
      /\ (Abs(error) <= Reach => Abs(error + drift + OffsetRunning) <= Abs(sample))
  BY DEF Frame, InView, CorrectedIsCloser
<1>4. Abs(error) <= Reach
  <2>1. error \in Int
    BY <1>1 DEF DriftTypeOK
  <2>2. Abs(error) > Reach => Here = error
    BY <1>1, Numbers
  <2>3. QED BY <1>3, <2>1, <2>2, Bounds DEF Abs
<1>5. Here = error + drift + OffsetRunning /\ Here \in Int
  BY <1>1, <1>4, Numbers
<1>6. sample' = Here
  BY <1>2, <1>3, <1>5
<1> QED BY <1>3, <1>4, <1>5, <1>6

\* A star that is corrected from frame to frame comes no further from the lock, and no step
\* in declination goes the way the star drifts, if corrections are as strong as the sky.
THEOREM CorrectionsConverge ==
  ASSUME KeepsUp
  PROVE  DriftSpec => NeverOvercorrects
<1>1. DriftInit => CorrectedIsCloser
  BY DEF DriftInit, CorrectedIsCloser
<1>2. Typed /\ StarIsOnTrack /\ CorrectedIsCloser /\ [DriftNext]_driftVars => CorrectedIsCloser'
  BY CloserStep
<1>3. ASSUME Typed, StarIsOnTrack, CorrectedIsCloser, [DriftNext]_driftVars
      PROVE  [ /\ /\ steady /\ steady' /\ ~muddled /\ ~muddled'
                  /\ sample' # Nothing /\ sample' # sample
                  => Abs(sample') <= Abs(sample)
               /\ order = Nothing /\ order' # Nothing /\ axis = "dec auto" /\ ~muddled'
                  => order'.to * drift <= 0 ]_driftVars
  <2>1. ASSUME steady, steady', ~muddled, ~muddled', sample' # Nothing, sample' # sample
        PROVE  Abs(sample') <= Abs(sample)
    <3>1. Frame \/ Commanded
      BY <1>3, <2>1 DEF DriftNext, StarLost, DitherBegins, SelectStar, LockMoves,
         DitherSettles, DitherTimesOut, driftVars, wait
    <3>2. CASE Frame
      BY <1>3, <2>1, <3>2, FrameSample
    <3>3. CASE Commanded
      <4>1. order # Nothing /\ order.steady /\ sample' = order.at
        BY <1>3, <2>1, <3>3 DEF Commanded, Typed, DriftTypeOK
      <4>2. QED BY <1>3, <2>1, <4>1 DEF CorrectedIsCloser
    <3>4. QED BY <3>1, <3>2, <3>3
  <2>2. QED BY <1>3, <2>1, NeverWithTheDrift
<1>4. QED BY <1>1, <1>2, <1>3, DriftInvariant, PTL DEF DriftSpec, NeverOvercorrects

-----------------------------------------------------------------------------
(* A dither                                                                *)

\* A dither waits for three ticks of small errors or more: the first may have been
\* taken before the lock moved, and the last is not looked at yet when the wait ends.
Patient == Hold >= 3

\* Within a pixel and the drift of a tick.
Near(x) == Abs(x) <= 1 + Abs(drift)

\* While a dither has seen one star's small error for a tick, every tick had its frame;
\* from the second on, the star is near the lock, at this frame and the next, if the
\* correction on its way answers a small error.
HeldInPlace ==
  held # Nothing /\ ~blind =>
    /\ held >= 1 => gap = 0 /\ rows # <<>>
    /\ held >= 2 /\ ~muddled =>
         /\ phase = "exposing" => Near(error) /\ Near(error + drift + OffsetRunning)
         /\ phase = "commanding" =>
              /\ error = order.at
              /\ Abs(order.at) <= 1 => /\ axis # "ra offset" => Near(error + order.to)
                                       /\ Near(error + drift + order.to)
    /\ held >= 3 /\ ~muddled => Near(error)

\* What is sent lies between nothing and what is wanted.
LEMMA LimitedBetween ==
  ASSUME NEW u \in Int
  PROVE  /\ Limited(u) \in Int
         /\ u >= 0 => 0 <= Limited(u) /\ Limited(u) <= u
         /\ u <= 0 => u <= Limited(u) /\ Limited(u) <= 0
<1>1. MaxUnits \in Nat \ {0}
  BY Bounds
<1>2. /\ u > MaxUnits => Limited(u) = MaxUnits
      /\ u < -MaxUnits => Limited(u) = -MaxUnits
      /\ -MaxUnits <= u /\ u <= MaxUnits => Limited(u) = u
  BY <1>1 DEF Limited, Sign, Least, Abs
<1>3. CASE u > MaxUnits
  BY <1>1, <1>2, <1>3
<1>4. CASE u < -MaxUnits
  BY <1>1, <1>2, <1>4
<1>5. CASE -MaxUnits <= u /\ u <= MaxUnits
  BY <1>1, <1>2, <1>5
<1> QED BY <1>1, <1>3, <1>4, <1>5

LEMMA SmallIsNear ==
  ASSUME drift \in Int, NEW a \in Int, Abs(a) <= 1
  PROVE  Near(a) /\ Near(a + drift)
<1>1. a \in {-1, 0, 1}
  BY DEF Abs
<1>2. CASE drift >= 0
  BY <1>1, <1>2 DEF Near, Abs
<1>3. CASE drift < 0
  BY <1>1, <1>3 DEF Near, Abs
<1> QED BY <1>2, <1>3

\* However the drift and a share of an offset of a pixel are limited, the star stays near.
LEMMA AnsweredNearby ==
  ASSUME drift \in Int, NEW a \in Int, Abs(a) <= 1, NEW share \in Shares(a),
         NEW u, u = -drift - Sign(a) * share
  PROVE  /\ u \in Int
         /\ Near(a) /\ Near(a + drift)
         /\ Near(a + Limited(u)) /\ Near(a + drift + Limited(u))
<1>1. a \in {-1, 0, 1} /\ share \in Int /\ 0 <= share /\ share <= Abs(a)
  BY DEF Shares, Abs
<1>2. /\ u \in Int
      /\ \/ a > 0 /\ u = -drift - share
         \/ a = 0 /\ u = -drift
         \/ a < 0 /\ u = -drift + share
  BY <1>1 DEF Sign
<1> DEFINE to == Limited(u)
<1>3. to \in Int /\ (u >= 0 => 0 <= to /\ to <= u) /\ (u <= 0 => u <= to /\ to <= 0)
  BY <1>2, LimitedBetween
<1> HIDE DEF to
<1>4. Near(a) /\ Near(a + drift)
  BY SmallIsNear
<1>5. Near(a + to) /\ Near(a + drift + to)
  <2>1. CASE drift >= 0
    BY <1>1, <1>2, <1>3, <2>1 DEF Near, Abs
  <2>2. CASE drift < 0
    BY <1>1, <1>2, <1>3, <2>2 DEF Near, Abs
  <2> QED BY <2>1, <2>2
<1> QED BY <1>2, <1>4, <1>5 DEF to

LEMMA RunningIs ==
  ASSUME DriftTypeOK
  PROVE  /\ drift \in Int /\ raOffset \in Int
         /\ axis = "ra offset" => OffsetRunning = raOffset
         /\ axis # "ra offset" => OffsetRunning = 0
<1>1. raOffset \in -MaxUnits..MaxUnits
  BY DEF DriftTypeOK
<1>2. raOffset \in Int
  BY <1>1, Bounds
<1>3. drift \in Int
  BY Numbers
<1>4. /\ axis = "ra offset" => OffsetRunning = raOffset
      /\ axis # "ra offset" => OffsetRunning = 0
  BY DEF OffsetRunning
<1> QED BY <1>2, <1>3, <1>4

\* A small error leaves the star near when there is no fit to answer it by, which at most
\* takes an offset back,
LEMMA UnansweredNearby ==
  ASSUME DriftTypeOK, NEW a \in Int, Abs(a) <= 1,
         NEW f, mode = "measure" \/ f = Nothing, NEW to \in Orders(f, 1)
  PROVE  /\ to # Nothing => axis = "ra offset" /\ Near(a + drift + to)
         /\ to = Nothing => Near(a) /\ Near(a + drift + OffsetRunning)
<1>1. /\ drift \in Int /\ raOffset \in Int /\ (axis = "ra offset" => OffsetRunning = raOffset)
      /\ axis # "ra offset" => OffsetRunning = 0
  BY RunningIs
<1>2. Near(a) /\ Near(a + drift) /\ a + drift + 0 = a + drift
  <2>1. drift \in Int
    BY <1>1
  <2>2. a + drift + 0 = a + drift
    BY <2>1
  <2> QED BY <2>1, <2>2, SmallIsNear
<1>3. to = IF axis = "ra offset" /\ raOffset # 0 THEN 0 ELSE Nothing
  BY DEF Orders
<1>4. to # Nothing => to = 0 /\ axis = "ra offset"
  BY <1>3
<1>5. to = Nothing => OffsetRunning = 0
  <2>1. 0 # Nothing
    BY NoneIsNoNumber
  <2> QED BY <1>1, <1>3, <2>1
<1> QED BY <1>2, <1>4, <1>5

\* and when it is answered by a true fit, or needs no answer.
LEMMA FittedNearby ==
  ASSUME DriftTypeOK, NEW a \in Int, Abs(a) <= 1, mode # "measure",
         NEW f, f = [at |-> a, drift |-> drift], f # Nothing, NEW to \in Orders(f, 1)
  PROVE  /\ to # Nothing => (axis # "ra offset" => Near(a + to)) /\ Near(a + drift + to)
         /\ to = Nothing => Near(a) /\ Near(a + drift + OffsetRunning)
<1>1. /\ drift \in Int /\ raOffset \in Int /\ (axis = "ra offset" => OffsetRunning = raOffset)
      /\ axis # "ra offset" => OffsetRunning = 0
  BY RunningIs
<1>2. Near(a) /\ Near(a + drift) /\ a + drift + 0 = a + drift
  <2>1. drift \in Int
    BY <1>1
  <2>2. a + drift + 0 = a + drift
    BY <2>1
  <2> QED BY <2>1, <2>2, SmallIsNear
<1>3. f.at = a /\ f.drift = drift
  OBVIOUS
<1>4. CASE axis = "ra offset"
  <2>1. PICK r \in Rates(f, 1) : to = IF Limited(r) = raOffset THEN Nothing ELSE Limited(r)
    BY <1>4 DEF Orders
  <2>2. PICK share \in Shares(a) : r = -drift - Sign(a) * (share \div 1)
    BY <1>3, <2>1 DEF Rates
  <2>3. share \div 1 = share
    BY DEF Shares, Abs
  <2>4. r \in Int /\ Near(a + drift + Limited(r))
    BY <1>1, <2>2, <2>3, AnsweredNearby
  <2>5. Limited(r) # Nothing
    BY <2>4, LimitedBetween, NoneIsNoNumber
  <2>6. CASE Limited(r) = raOffset
    BY <1>1, <1>2, <1>4, <2>1, <2>4, <2>6
  <2>7. CASE Limited(r) # raOffset
    BY <1>4, <2>1, <2>4, <2>5, <2>7
  <2> QED BY <2>6, <2>7
<1>5. CASE axis # "ra offset"
  <2>1. PICK u \in Units(f, 1) : to = IF u = 0 \/ Withheld(u, f) THEN Nothing
           ELSE Limited(u)
    BY <1>5 DEF Orders
  <2>2. PICK share \in Shares(a) : u = -drift * 1 - Sign(a) * share
    BY <1>3, <2>1 DEF Units
  <2>3. u = -drift - Sign(a) * share
    <3>1. drift \in Int
      BY <1>1
    <3>2. -drift * 1 = -drift
      BY <3>1
    <3> QED BY <2>2, <3>2
  <2>4. Near(a + Limited(u)) /\ Near(a + drift + Limited(u))
    BY <1>1, <2>3, AnsweredNearby
  <2>5. to # Nothing => to = Limited(u)
    BY <2>1
  <2>6. a + drift + OffsetRunning = a + drift
    BY <1>1, <1>2, <1>5
  <2>7. to = Nothing => Near(a) /\ Near(a + drift + OffsetRunning)
    BY <1>2, <2>6
  <2>8. to # Nothing => Near(a + to) /\ Near(a + drift + to)
    BY <2>4, <2>5
  <2> QED BY <2>7, <2>8
<1> QED BY <1>4, <1>5

\* The ticks of a wait, with every frame and with every look at a sample.
LEMMA TicksGoOn ==
  ASSUME Patient, DriftTypeOK, held # Nothing
  PROVE  /\ Ticks \in Int
         /\ Ticks >= 1 => held >= 0
         /\ Ticks >= 2 => held >= 1
         /\ Ticks >= 3 => held >= 2
<1>1. held \in -1..Hold /\ Hold \in Nat /\ held \in Int /\ Hold >= 3
  BY Bounds DEF DriftTypeOK, Patient
<1>2. CASE held = -1
  BY <1>1, <1>2 DEF Ticks
<1>3. CASE held # -1
  <2>1. Ticks = Least(held + 1, Hold)
    BY <1>3 DEF Ticks
  <2>2. CASE held + 1 <= Hold
    <3>1. Ticks = held + 1
      BY <1>1, <2>1, <2>2 DEF Least
    <3> QED BY <1>1, <3>1
  <2>3. CASE held + 1 > Hold
    <3>1. Ticks = Hold /\ held >= 3
      BY <1>1, <2>1, <2>3 DEF Least
    <3> QED BY <1>1, <3>1
  <2> QED BY <1>1, <2>2, <2>3
<1> QED BY <1>2, <1>3

LEMMA LooksAt ==
  ASSUME NEW seen \in Int, NEW ticks \in Int, ticks # Nothing, Looked(seen, ticks) >= 1
  PROVE  Looked(seen, ticks) = ticks /\ Abs(seen) <= 1
<1>1. Abs(seen) \in Int
  BY DEF Abs
<1> QED BY <1>1 DEF Looked

LEMMA FrameHolds ==
  ASSUME Patient, Typed, StarIsOnTrack, HeldInPlace, Frame
  PROVE  HeldInPlace'
<1>0. held' # Nothing => held' >= 1 \/ ~(held' >= 1 \/ held' >= 2 \/ held' >= 3)
  <2>1. held' = Nothing \/ held' \in -1..Hold
    BY FrameTypes DEF Typed, DriftTypeOK
  <2> QED BY <2>1, Bounds
<1> SUFFICES ASSUME held' # Nothing, ~blind', held' >= 1
             PROVE  /\ gap' = 0 /\ rows' # <<>>
                    /\ held' >= 2 /\ ~muddled' =>
                         /\ phase' = "exposing" => Near(error)' /\ Near(error + drift + OffsetRunning)'
                         /\ phase' = "commanding" =>
                              /\ error' = order'.at
                              /\ Abs(order'.at) <= 1 =>
                                   /\ axis' # "ra offset" => Near(error + order.to)'
                                   /\ Near(error + drift + order.to)'
                    /\ held' >= 3 /\ ~muddled' => Near(error)'
  BY <1>0 DEF HeldInPlace, Near
<1>1. DriftTypeOK /\ RowsInOrder /\ TurnsAgree
  BY DEF Typed
<1> DEFINE interval == IF Elapsed > 0 THEN Elapsed ELSE 1
<1>2. PICK f \in Fits(rows') : \E to \in Orders(f, interval) :
        \/ /\ to = Nothing /\ TurnsOver(f) /\ sample' = Here + stale
           /\ held' = Looked(Here + stale, Ticks) /\ UNCHANGED order
        \/ /\ to # Nothing /\ phase' = "commanding"
           /\ order' = [to |-> to, at |-> Here + stale, steady |-> Steers(f)]
           /\ held' = Ticks
  BY <1>1, FrameIs
<1>3. PICK to \in Orders(f, interval) :
        \/ /\ to = Nothing /\ TurnsOver(f) /\ sample' = Here + stale
           /\ held' = Looked(Here + stale, Ticks) /\ UNCHANGED order
        \/ /\ to # Nothing /\ phase' = "commanding"
           /\ order' = [to |-> to, at |-> Here + stale, steady |-> Steers(f)]
           /\ held' = Ticks
  BY <1>2
<1>4. /\ phase = "exposing" /\ Abs(Here) <= Reach /\ error' = Here /\ gap' = 0
      /\ UNCHANGED <<axis, drift, raOffset, blind>>
      /\ muddled' = (stale # 0 \/ (Len(rows') > 1 /\ (muddled
         \/ (gap >= LongGap /\ OffsetRunning # 0))))
  BY DEF Frame, InView
<1>5. /\ drift \in Int /\ Here \in Int /\ error \in Int /\ stale \in Int
      /\ OffsetRunning' = OffsetRunning /\ OffsetRunning \in Int
  <2>1. error \in Int /\ stale \in -Reach..Reach
    BY <1>1 DEF DriftTypeOK
  <2>2. OffsetRunning' = OffsetRunning
    BY <1>4 DEF OffsetRunning
  <2> QED BY <1>1, <2>1, <2>2, Numbers, Bounds
<1>6. Added(rows', Here + stale, Delivered, Since)
  BY <1>1, FrameAdds
<1>7. gap' = 0 /\ rows' # <<>>
  BY <1>4, <1>6, Bounds DEF Added
<1>8. held # Nothing
  BY <1>3 DEF Ticks, Looked
<1>9. /\ Ticks \in Int /\ held' = Ticks
      /\ to = Nothing => Abs(Here + stale) <= 1
  <2>1. Ticks \in Int /\ Here + stale \in Int /\ Ticks # Nothing
    BY <1>1, <1>5, <1>8, TicksGoOn, NoneIsNoNumber
  <2> QED BY <1>3, <2>1, LooksAt
<1>10. ASSUME held' >= 2, ~muddled'
       PROVE  /\ held >= 1 /\ gap = 0 /\ stale = 0 /\ ~muddled /\ Elapsed = 1
              /\ f = Nothing \/ f = [at |-> Here, drift |-> drift]
  <2>1. held >= 1
    BY <1>1, <1>8, <1>9, <1>10, TicksGoOn
  <2>2. gap = 0 /\ rows # <<>>
    BY <1>4, <1>8, <2>1 DEF HeldInPlace
  <2>3. Since = 1 /\ Elapsed = 1
    <3>1. 0 # Nothing /\ LongGap \in Nat \ {0}
      BY Bounds, NoneIsNoNumber
    <3> QED BY <2>2, <3>1 DEF Since, Elapsed, Least
  <2>4. Len(rows') > 1
    BY <1>6, <2>2, <2>3, Bounds DEF Added
  <2>5. stale = 0 /\ ~muddled
    BY <1>4, <1>10, <2>4
  <2>6. f = Nothing \/ f = [at |-> Here, drift |-> drift]
    BY <1>10, SteersTrue
  <2> QED BY <2>1, <2>2, <2>3, <2>5, <2>6
<1>11. ASSUME held' >= 3, ~muddled' PROVE Near(error)'
  <2>1. held >= 2 /\ held' >= 2
    BY <1>1, <1>8, <1>9, <1>11, TicksGoOn
  <2>2. Near(error + drift + OffsetRunning) /\ Near(error)
    BY <1>4, <1>8, <1>10, <1>11, <2>1 DEF HeldInPlace
  <2>3. Here = error + drift + OffsetRunning \/ Here = error
    BY <1>1, <1>5, Numbers, Bounds DEF Abs
  <2>4. Near(Here)
    BY <2>2, <2>3
  <2> QED BY <1>4, <2>4 DEF Near
<1>12. ASSUME held' >= 2, ~muddled'
       PROVE  /\ phase' = "exposing" => Near(error)' /\ Near(error + drift + OffsetRunning)'
              /\ phase' = "commanding" =>
                   /\ error' = order'.at
                   /\ Abs(order'.at) <= 1 =>
                        /\ axis' # "ra offset" => Near(error + order.to)'
                        /\ Near(error + drift + order.to)'
  <2>1. /\ stale = 0 /\ to \in Orders(f, 1) /\ Here + stale = Here
        /\ f = Nothing \/ f = [at |-> Here, drift |-> drift]
    BY <1>5, <1>10, <1>12
  <2>2. ASSUME Abs(Here) <= 1
        PROVE  /\ to # Nothing => /\ axis # "ra offset" => Near(Here + to)
                                  /\ Near(Here + drift + to)
               /\ to = Nothing => Near(Here) /\ Near(Here + drift + OffsetRunning)
    <3>1. CASE mode = "measure" \/ f = Nothing
      <4>1. /\ to # Nothing => axis = "ra offset" /\ Near(Here + drift + to)
            /\ to = Nothing => Near(Here) /\ Near(Here + drift + OffsetRunning)
        BY <1>1, <1>5, <2>1, <2>2, <3>1, UnansweredNearby, Zenon
      <4> QED BY <4>1
    <3>2. CASE mode # "measure" /\ f # Nothing
      BY <1>1, <1>5, <2>1, <2>2, <3>2, FittedNearby
    <3> QED BY <3>1, <3>2
  <2>3. CASE to = Nothing
    <3>1. phase' = "exposing"
      BY <1>3, <2>3 DEF TurnsOver
    <3> QED BY <1>4, <1>5, <1>9, <2>1, <2>2, <2>3, <3>1 DEF Near
  <2>4. CASE to # Nothing
    <3>1. phase' = "commanding" /\ order'.to = to /\ order'.at = Here
      BY <1>3, <2>1, <2>4
    <3> QED BY <1>4, <2>2, <2>4, <3>1 DEF Near
  <2> QED BY <2>3, <2>4
<1> QED BY <1>7, <1>11, <1>12

LEMMA CommandHolds ==
  ASSUME Patient, Typed, HeldInPlace, Commanded
  PROVE  HeldInPlace'
<1>1. /\ order # Nothing /\ phase = "commanding" /\ phase' = "exposing"
      /\ held' = Looked(order.at, held)
      /\ UNCHANGED <<axis, drift, rows, gap, blind, muddled>>
  BY DEF Commanded, TurnsOver, Typed, DriftTypeOK
<1>2. order.at \in Int /\ order.to \in Int /\ error \in Int /\ drift \in Int
      /\ (held # Nothing => held \in Int)
  <2>1. order \in [to : -MaxUnits..MaxUnits, at : Int, steady : BOOLEAN]
    BY <1>1 DEF Typed, DriftTypeOK
  <2>2. order.to \in -MaxUnits..MaxUnits /\ order.at \in Int
    BY <2>1
  <2>3. error \in Int /\ drift \in Int /\ (held # Nothing => held \in Int)
    BY Numbers, Bounds DEF Typed, DriftTypeOK
  <2>4. order.to \in Int
    BY <2>2, Bounds
  <2> QED BY <2>2, <2>3, <2>4
<1>3. error' + drift + OffsetRunning' = error + drift + order.to
  <2>1. CASE axis = "ra offset"
    <3>1. OffsetRunning' = order.to /\ error' = error
      BY <1>1, <2>1 DEF Commanded, OffsetRunning
    <3> QED BY <3>1
  <2>2. CASE axis # "ra offset"
    <3>1. OffsetRunning' = 0 /\ error' = error + order.to
      BY <1>1, <2>2 DEF Commanded, OffsetRunning
    <3> DEFINE to == order.to
    <3>2. to \in Int /\ error' = error + to
      BY <1>2, <3>1
    <3> HIDE DEF to
    <3>3. (error + to) + drift + 0 = error + drift + to
      BY <1>2, <3>2
    <3> QED BY <3>1, <3>2, <3>3 DEF to
  <2> QED BY <2>1, <2>2
<1>4. error' = IF axis = "ra offset" THEN error ELSE error + order.to
  BY DEF Commanded
<1>5. held' # Nothing => held # Nothing /\ held' \in Int
  BY <1>1, <1>2 DEF Looked
<1>6. held' # Nothing /\ held' >= 1 => held' = held /\ Abs(order.at) <= 1
  BY <1>1, <1>2, <1>5, LooksAt
<1>7. ASSUME held' # Nothing, ~blind', held' >= 2, ~muddled'
      PROVE  Near(error)' /\ Near(error + drift + OffsetRunning)'
  <2>1. held # Nothing /\ ~blind /\ ~muddled /\ held >= 2 /\ Abs(order.at) <= 1
    BY <1>1, <1>5, <1>6, <1>7
  <2>2. /\ error = order.at
        /\ axis # "ra offset" => Near(error + order.to)
        /\ Near(error + drift + order.to)
    BY <1>1, <2>1 DEF HeldInPlace
  <2>3. axis = "ra offset" => Near(error)
    BY <1>2, <2>1, <2>2, SmallIsNear
  <2>4. Near(error') /\ Near(error' + drift + OffsetRunning')
    BY <1>3, <1>4, <2>2, <2>3
  <2> QED BY <1>1, <2>4 DEF Near
<1>8. ASSUME held' # Nothing, ~blind', held' >= 1 PROVE gap' = 0 /\ rows' # <<>>
  BY <1>1, <1>5, <1>6, <1>8 DEF HeldInPlace
<1> QED
  <2>1. held' # Nothing /\ held' >= 3 => held' >= 2
    BY <1>5
  <2> QED BY <1>1, <1>7, <1>8, <2>1 DEF HeldInPlace, Near

LEMMA HoldStep ==
  ASSUME Patient, Typed, StarIsOnTrack, HeldInPlace, [DriftNext]_driftVars
  PROVE  HeldInPlace'
<1>1. CASE Frame
  BY <1>1, FrameHolds
<1>2. CASE Commanded
  BY <1>2, CommandHolds
<1>3. CASE StarLost
  <2>1. held' = Ticks /\ blind' = (held # Nothing)
    BY <1>3 DEF StarLost
  <2> QED BY <2>1 DEF HeldInPlace, Ticks
<1>4. CASE DitherBegins
  <2>1. held' = 0 \/ held' = -1
    BY <1>4 DEF DitherBegins
  <2>2. ~(held' >= 1) /\ ~(held' >= 2) /\ ~(held' >= 3)
    BY <2>1
  <2> QED BY <2>2 DEF HeldInPlace
<1>5. CASE DitherSettles \/ DitherTimesOut
  BY <1>5 DEF DitherSettles, DitherTimesOut, HeldInPlace
<1>6. CASE SelectStar
  BY <1>6 DEF SelectStar, HeldInPlace
<1>7. CASE UNCHANGED driftVars
  BY <1>7 DEF HeldInPlace, Near, OffsetRunning, guideLoop, model, wait, driftVars
<1> QED BY <1>1, <1>2, <1>3, <1>4, <1>5, <1>6, <1>7 DEF DriftNext

\* dither: one that ends as settled has the star at the new lock point,
\* within a pixel and the drift of a tick, if one star was seen all the while.
THEOREM DithersSettle ==
  ASSUME Patient
  PROVE  DriftSpec => SettledIsThere
<1>1. DriftInit => HeldInPlace
  BY DEF DriftInit, HeldInPlace
<1>2. Typed /\ StarIsOnTrack /\ HeldInPlace /\ [DriftNext]_driftVars => HeldInPlace'
  BY HoldStep
<1>3. HeldInPlace
      => (DitherSettles /\ ~muddled /\ ~blind => Abs(error) <= 1 + Abs(drift))
  <2> SUFFICES ASSUME HeldInPlace, DitherSettles, ~muddled, ~blind PROVE Near(error)
    BY DEF Near
  <2>1. held = Hold /\ held \in Nat /\ held >= 3
    BY Bounds DEF DitherSettles, Patient
  <2>2. held # Nothing
    BY <2>1, NoneIsNoNumber
  <2> QED BY <2>1, <2>2 DEF HeldInPlace
<1> QED BY <1>1, <1>2, <1>3, DriftInvariant, PTL DEF DriftSpec, SettledIsThere

=============================================================================
