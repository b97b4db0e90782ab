-------------------------- MODULE SyntaMountProofs --------------------------
(***************************************************************************)
(* Proofs about the Synta mount.  SyntaMount, for any set of coroutines,   *)
(* any choice of the operations they call and every setting of the flags:  *)
(* its types and its halt; for one coroutine, that what moves has an owner *)
(* and that a parked mount is at home.  SerialLine below it: the wire      *)
(* format loses nothing within the controller's 24 bits, and the           *)
(* conversation gives every thread its own answer, as long as a reply that *)
(* comes at all comes in time.  MountGeometry: the axes point where they   *)
(* are asked to from either side of the pier, a sync makes the mount's     *)
(* reading true, a slew keeps the counterweight down, and a nudge goes the *)
(* way it says.                                                            *)
(***************************************************************************)
EXTENDS SyntaMount, SequenceTheorems, FiniteSetTheorems, TLAPS

-----------------------------------------------------------------------------
(* The lock queue                                                          *)

\* Leaving the lock, waiting for it and giving a place in it up all keep the
\* queue a sequence of coroutines and the watchdog.
LEMMA QueueStaysTyped ==
  ASSUME NEW S, NEW q \in Seq(S)
  PROVE  /\ q # <<>> => Tail(q) \in Seq(S) /\ Head(q) \in S
         /\ \A x \in S : Append(q, x) \in Seq(S)
         /\ \A i \in 1..Len(q) : SubSeq(q, 1, i - 1) \o SubSeq(q, i + 1, Len(q)) \in Seq(S)
<1>1. q # <<>> => Tail(q) \in Seq(S) /\ Head(q) \in S
  BY HeadTailProperties
<1>2. \A x \in S : Append(q, x) \in Seq(S)
  OBVIOUS
<1>3. ASSUME NEW i \in 1..Len(q)
      PROVE  SubSeq(q, 1, i - 1) \o SubSeq(q, i + 1, Len(q)) \in Seq(S)
  <2>1. SubSeq(q, 1, i - 1) \in Seq(S)
    BY SubSeqProperties
  <2>2. SubSeq(q, i + 1, Len(q)) \in Seq(S)
    BY SubSeqProperties
  <2> QED
    BY <2>1, <2>2, ConcatProperties
<1> QED
  BY <1>1, <1>2, <1>3

-----------------------------------------------------------------------------
(* What worker threads do, and the types                                   *)

\* A coroutine outside every operation carries a request like any other.
LEMMA NoRequestIsARequest == NoRequest \in Request
BY DEF NoRequest, Request, Speed, Continuation

\* An emergency stop leaves every field of the mount with a value it may have,
\* forgets every move, and leaves only axes out of control turning.
LEMMA HaltForgets ==
  ASSUME TypeOK, NEW f \in [Axis -> Motion], NEW who, Halt(f, who)
  PROVE  /\ axis' \in [Axis -> Motion]
         /\ \A a \in Axis : axis'[a] \in Undriven
         /\ pos' \in [Axis -> Place]
         /\ jumped' \in [Axis -> BOOLEAN]
         /\ expect' \in [Axis -> Expected]
         /\ fault' /\ fault' \in BOOLEAN
         /\ clean' = ~InFlight(who) /\ clean' \in BOOLEAN
         /\ cruise' \in SUBSET Axis
         /\ tracking' \in BOOLEAN
         /\ trackOnArrival' \in BOOLEAN
         /\ NothingRemembered'
<1>1. PICK deaf \in SUBSET {a \in Axis : f[a] \in Deaf} :
        Turns([a \in Axis |-> IF a \in deaf THEN f[a] ELSE "still"])
  BY DEF Halt
<1>2. /\ axis' = [a \in Axis |-> IF a \in deaf THEN f[a] ELSE "still"]
      /\ \A a \in Axis : axis'[a] \in {"still"} \cup Deaf
      /\ jumped' \in [Axis -> BOOLEAN]
  BY <1>1 DEF Turns
<1>3. /\ axis' \in [Axis -> Motion]
      /\ \A a \in Axis : axis'[a] \in Undriven
  BY <1>2 DEF Deaf, Motion, Undriven
<1>4. pos' \in [Axis -> Place]
  BY DEF Halt, TypeOK, Place, Interrupted
<1> QED
  BY <1>2, <1>3, <1>4 DEF Halt, Forgets, NothingRemembered, AnyOf, Expected, InFlight

\* So does every other thing a thread may do when its commands are carried out.
LEMMA DoesTypes ==
  ASSUME TypeOK, NEW j \in Job, Does(j)
  PROVE  /\ axis' \in [Axis -> Motion]
         /\ pos' \in [Axis -> Place]
         /\ jumped' \in [Axis -> BOOLEAN]
         /\ expect' \in [Axis -> Expected]
         /\ cruise' \in SUBSET Axis
<1>1. CASE StartGoto(j)
  <2>1. /\ axis' \in [Axis -> Motion]
        /\ jumped' \in [Axis -> BOOLEAN]
    BY <1>1 DEF StartGoto, Turns, TypeOK, Motion
  <2>2. pos' \in [Axis -> Place]
    BY <1>1 DEF StartGoto, TypeOK, Place
  <2> QED
    BY <1>1, <2>1, <2>2 DEF StartGoto, Cruises, TypeOK, Expected, Job
<1>2. CASE SetAxisRate(j) /\ UNCHANGED expect
  BY <1>2 DEF SetAxisRate, Turns, TypeOK, Motion, Place, Interrupted, Job, Speed
<1>3. CASE StepAxis /\ UNCHANGED expect
  BY <1>3 DEF StepAxis, Turns, TypeOK, Motion, Place, Interrupted
<1>4. CASE StopBoth /\ UNCHANGED expect
  BY <1>4 DEF StopBoth, Turns, TypeOK, Motion, Place, Interrupted, AnyOf
<1>5. CASE ZeroCounters /\ UNCHANGED expect
  BY <1>5 DEF ZeroCounters, TypeOK, Motion, Place, AnyOf
<1>6. ASSUME NEW hop \in SUBSET Arrived, AdvanceCruise(hop),
             expect' = [a \in Axis |-> IF a \in hop THEN "goto" ELSE expect[a]]
      PROVE  /\ axis' \in [Axis -> Motion]
             /\ pos' \in [Axis -> Place]
             /\ jumped' \in [Axis -> BOOLEAN]
             /\ expect' \in [Axis -> Expected]
             /\ cruise' \in SUBSET Axis
  BY <1>6 DEF AdvanceCruise, Turns, TypeOK, Motion, Place, Expected, Reached
<1> QED
  BY <1>1, <1>2, <1>3, <1>4, <1>5, <1>6 DEF Does

\* A thread whose job is no start does not drive an axis, and cruises nothing
\* when nothing was cruising.
LEMMA DoesNotDrive ==
  ASSUME TypeOK, cruise = {}, \A a \in Axis : axis[a] \in Undriven,
         \/ \E j \in Job : j.speed = "still" /\ SetAxisRate(j)
         \/ StopBoth
         \/ ZeroCounters
         \/ \E hop \in SUBSET Arrived : AdvanceCruise(hop)
  PROVE  cruise' = {} /\ \A a \in Axis : axis'[a] \in Undriven
<1>1. ASSUME NEW j \in Job, j.speed = "still", SetAxisRate(j)
      PROVE  cruise' = {} /\ \A a \in Axis : axis'[a] \in Undriven
  BY <1>1 DEF SetAxisRate, Turns, TypeOK, Undriven
<1>2. CASE StopBoth
  BY <1>2 DEF StopBoth, Turns, AnyOf, Undriven
<1>3. CASE ZeroCounters
  BY <1>3 DEF ZeroCounters, AnyOf, Undriven
<1>4. ASSUME NEW hop \in SUBSET Arrived, AdvanceCruise(hop)
      PROVE  cruise' = {} /\ \A a \in Axis : axis'[a] \in Undriven
  BY <1>4 DEF AdvanceCruise, Arrived, Turns, TypeOK
<1> QED
  BY <1>1, <1>2, <1>3, <1>4

\* When a thread gives up on an axis, _halt runs in it.
LEMMA OverrunsHalt ==
  ASSUME TypeOK, NEW j, NEW who, Overruns(j, who)
  PROVE  \E f \in [Axis -> Motion] : Halt(f, who)
<1>1. /\ axis \in [Axis -> Motion]
      /\ [axis EXCEPT !["dec"] = "runaway"] \in [Axis -> Motion]
  BY DEF TypeOK, Motion, Axis
<1> QED
  BY <1>1 DEF Overruns

-----------------------------------------------------------------------------
(* Coroutines                                                              *)

\* What a coroutine hands over to a thread is a job.
LEMMA JobTyped ==
  ASSUME TypeOK, NEW c \in Clients, pc[c] \in Locked
  PROVE  JobOf(c) \in Job
BY DEF JobOf, Job, TypeOK, Request

\* Every request an operation starts with, or goes on with, is one.
LEMMA RequestsTyped ==
  /\ NoRequest \in Request
  /\ \A A \in SUBSET Axis : [NoRequest EXCEPT !.axes = A] \in Request
  /\ \A A \in SUBSET Axis : [NoRequest EXCEPT !.axes = A, !.then = "wait"] \in Request
  /\ [NoRequest EXCEPT !.axes = {"ra"}, !.parks = TRUE, !.then = "start"] \in Request
  /\ \A b, s \in Speed : [NoRequest EXCEPT !.axes = {"ra"}, !.base = b, !.then = "sleep",
                                           !.speed = s] \in Request
  /\ [NoRequest EXCEPT !.axes = {"dec"}, !.speed = "rate", !.then = "sleep"] \in Request
  /\ \A r \in Request :
       /\ TrackRequest(r) \in Request
       /\ [r EXCEPT !.axes = Axis, !.homing = TRUE, !.then = "wait"] \in Request
       /\ Restored(r) \in Request
<1> USE DEF NoRequest, Request, Speed, Continuation, Axis
<1>1. NoRequest \in Request
  OBVIOUS
<1>2. \A A \in SUBSET Axis : [NoRequest EXCEPT !.axes = A] \in Request
  OBVIOUS
<1>3. \A A \in SUBSET Axis : [NoRequest EXCEPT !.axes = A, !.then = "wait"] \in Request
  OBVIOUS
<1>4. [NoRequest EXCEPT !.axes = {"ra"}, !.parks = TRUE, !.then = "start"] \in Request
  OBVIOUS
<1>5. \A b, s \in Speed : [NoRequest EXCEPT !.axes = {"ra"}, !.base = b, !.then = "sleep",
                                            !.speed = s] \in Request
  OBVIOUS
<1>6. [NoRequest EXCEPT !.axes = {"dec"}, !.speed = "rate", !.then = "sleep"] \in Request
  OBVIOUS
<1>7. ASSUME NEW r \in Request
      PROVE  /\ TrackRequest(r) \in Request
             /\ [r EXCEPT !.axes = Axis, !.homing = TRUE, !.then = "wait"] \in Request
             /\ Restored(r) \in Request
  BY DEF TrackRequest, Restored
<1> QED
  BY <1>1, <1>2, <1>3, <1>4, <1>5, <1>6, <1>7

\* Going on to another await keeps every coroutine somewhere in its operation.
LEMMA GoesTyped ==
  ASSUME TypeOK, NEW c \in Clients, NEW p \in PC, NEW r \in Request, Goes(c, p, r)
  PROVE  pc' \in [Clients -> PC] /\ req' \in [Clients -> Request]
BY DEF Goes, TypeOK

\* So does returning to the caller.
LEMMA ReturnsTyped ==
  ASSUME TypeOK, NEW c \in Clients, Returns(c)
  PROVE  pc' \in [Clients -> PC] /\ req' \in [Clients -> Request]
BY GoesTyped, RequestsTyped DEF Returns, PC

\* Every way an operation treats its place in the lock's queue keeps it one.
LEMMA QueueTyped ==
  ASSUME TypeOK, NEW c \in Clients
  PROVE  /\ Joins(c) => queue' \in Seq(Clients \cup {Watchdog})
         /\ Leaves /\ queue # <<>> => queue' \in Seq(Clients \cup {Watchdog})
         /\ Rejoins(c) /\ queue # <<>> => queue' \in Seq(Clients \cup {Watchdog})
         /\ \A i \in 1..Len(queue) : GivesUp(i) => queue' \in Seq(Clients \cup {Watchdog})
<1> DEFINE S == Clients \cup {Watchdog}
<1>1. queue \in Seq(S) /\ c \in S
  BY DEF TypeOK
<1> HIDE DEF S
<1>2. /\ queue # <<>> => Tail(queue) \in Seq(S)
      /\ \A i \in 1..Len(queue) :
           SubSeq(queue, 1, i - 1) \o SubSeq(queue, i + 1, Len(queue)) \in Seq(S)
  BY <1>1, QueueStaysTyped
<1>3. Append(queue, c) \in Seq(S)
  BY <1>1, QueueStaysTyped
<1>4. queue # <<>> => Append(Tail(queue), c) \in Seq(S)
  BY <1>1, <1>2, QueueStaysTyped
<1> QED
  BY <1>2, <1>3, <1>4 DEF Joins, Leaves, Rejoins, GivesUp, S

\* An operation's call leaves every field with a value it may have.
LEMMA CallTypes ==
  ASSUME TypeOK, NEW c \in Clients, Call(c)
  PROVE  TypeOK'
<1> DEFINE CoroutineTyped == pc' \in [Clients -> PC] /\ req' \in [Clients -> Request]
<1> USE DEF hardware, intent, halting, watch, coroutines
<1>1. {"aim", "start", "rate", "step", "stop", "zero", "check", "nap"} \subseteq PC
  BY DEF PC, Locked
<1>2. NoRequest \in Request /\ Axis \in SUBSET Axis /\ {"ra"} \in SUBSET Axis
      /\ {"dec"} \in SUBSET Axis /\ \A a \in Axis : {a} \in SUBSET Axis
  BY RequestsTyped DEF Axis
<1>3. CASE SlewTo(c)
  <2>1. CoroutineTyped
    BY <1>3, <1>1, <1>2, GoesTyped, RequestsTyped DEF SlewTo
  <2> QED
    BY <1>3, <2>1, QueueTyped DEF SlewTo, TypeOK
<1>4. CASE MoveBy(c)
  <2>1. CoroutineTyped
    BY <1>4, <1>1, <1>2, GoesTyped, RequestsTyped DEF MoveBy
  <2> QED
    BY <1>4, <2>1, QueueTyped DEF MoveBy, TypeOK
<1>5. CASE Park(c)
  <2>1. CoroutineTyped
    BY <1>5, <1>1, GoesTyped, RequestsTyped DEF Park
  <2> QED
    BY <1>5, <2>1, QueueTyped DEF Park, TypeOK
<1>6. CASE Unpark(c)
  BY <1>6 DEF Unpark, TypeOK
<1>7. CASE WaitForSlew(c)
  <2>1. CoroutineTyped
    BY <1>7, <1>1, <1>2, GoesTyped DEF WaitForSlew
  <2> QED
    BY <1>7, <2>1 DEF WaitForSlew, TypeOK
<1>8. CASE AbortSlew(c)
  <2>1. CoroutineTyped
    BY <1>8, <1>1, <1>2, GoesTyped, RequestsTyped DEF AbortSlew
  <2> QED
    BY <1>8, <2>1, QueueTyped DEF AbortSlew, TypeOK
<1>9. CASE SetTracking(c)
  <2>1. CoroutineTyped
    BY <1>9, <1>1, <1>2, GoesTyped, RequestsTyped DEF SetTracking
  <2> QED
    BY <1>9, <2>1, QueueTyped DEF SetTracking, TypeOK
<1>10. CASE SetHome(c)
  <2>1. CoroutineTyped
    BY <1>10, <1>1, <1>2, GoesTyped, RequestsTyped DEF SetHome
  <2> QED
    BY <1>10, <2>1, QueueTyped DEF SetHome, TypeOK
<1>11. CASE SetRaRateOffset(c)
  <2>1. CoroutineTyped
    BY <1>11, <1>1, <1>2, GoesTyped, RequestsTyped DEF SetRaRateOffset
  <2> QED
    BY <1>11, <2>1, QueueTyped DEF SetRaRateOffset, TypeOK
<1>12. CASE StepDec(c)
  <2>1. CoroutineTyped
    BY <1>12, <1>1, <1>2, GoesTyped, RequestsTyped DEF StepDec
  <2>2. expect' \in [Axis -> Expected]
    BY <1>12 DEF StepDec, TypeOK, Expected, Axis
  <2> QED
    BY <1>12, <2>1, <2>2, QueueTyped DEF StepDec, TypeOK
<1>13. CASE PulseGuide(c)
  <2>1. CoroutineTyped
    <3>1. "track" \in Speed /\ "still" \in Speed /\ "rate" \in Speed
      BY DEF Speed
    <3> QED
      BY <1>13, <1>1, <3>1, GoesTyped, RequestsTyped DEF PulseGuide
  <2>2. expect' \in [Axis -> Expected]
    BY <1>13 DEF PulseGuide, TypeOK, Expected, Axis
  <2> QED
    BY <1>13, <2>1, <2>2, QueueTyped DEF PulseGuide, TypeOK
<1>14. CASE ClearFault(c)
  <2>1. CoroutineTyped
    BY <1>14, <1>1, <1>2, GoesTyped DEF ClearFault
  <2> QED
    BY <1>14, <2>1, QueueTyped DEF ClearFault, TypeOK
<1> QED
  BY <1>3, <1>4, <1>5, <1>6, <1>7, <1>8, <1>9, <1>10, <1>11, <1>12, <1>13, <1>14 DEF Call

\* So does what a coroutine does with the lock, and between two holds of it.
LEMMA ContinueTypes ==
  ASSUME TypeOK, NEW c \in Clients, Continue(c)
  PROVE  TypeOK'
<1> DEFINE CoroutineTyped == pc' \in [Clients -> PC] /\ req' \in [Clients -> Request]
<1> DEFINE QTyped == queue' \in Seq(Clients \cup {Watchdog})
<1> USE DEF hardware, intent, halting, watch, coroutines
<1>1. {"idle", "start", "rate", "poll", "nap", "arrive", "sleep"} \subseteq PC
  BY DEF PC, Locked
<1>2. req[c] \in Request
  BY DEF TypeOK
<1>3. TrackRequest(req[c]) \in Request
  BY <1>2, RequestsTyped
<1>4. HasLock(c) => queue # <<>>
  BY DEF HasLock
<1>5. CASE Aim(c)
  <2>1. CoroutineTyped
    BY <1>5, <1>1, <1>2, GoesTyped, ReturnsTyped DEF Aim
  <2>2. QTyped
    BY <1>5, <1>4, QueueTyped DEF Aim, TypeOK
  <2> QED
    BY <1>5, <2>1, <2>2 DEF Aim, TypeOK
<1>6. CASE StartMove(c)
  <2>1. CoroutineTyped
    BY <1>6, <1>1, <1>2, GoesTyped, ReturnsTyped DEF StartMove
  <2>2. QTyped
    BY <1>6, <1>4, QueueTyped DEF StartMove
  <2>3. JobOf(c) \in Job
    BY <1>6, JobTyped DEF StartMove, Locked
  <2>4. Does(JobOf(c))
    BY <1>6 DEF StartMove
  <2> QED
    BY <1>6, <2>1, <2>2, <2>3, <2>4, DoesTypes DEF StartMove, TypeOK
<1>7. CASE SetRate(c)
  <2>1. CoroutineTyped
    <3>1. CASE req[c].then = "sleep"
      BY <1>7, <3>1, <1>1, <1>2, GoesTyped DEF SetRate
    <3>2. CASE req[c].then = "start"
      BY <1>7, <3>2, <1>1, <1>2, GoesTyped, RequestsTyped DEF SetRate
    <3>3. CASE req[c].then \notin {"sleep", "start"}
      BY <1>7, <3>3, ReturnsTyped DEF SetRate
    <3> QED
      BY <3>1, <3>2, <3>3
  <2>2. QTyped
    BY <1>7, <1>4, QueueTyped DEF SetRate
  <2>3. JobOf(c) \in Job /\ JobOf(c).kind = "rate" /\ SetAxisRate(JobOf(c))
    BY <1>7, JobTyped DEF SetRate, Locked, JobOf
  <2>4. /\ axis' \in [Axis -> Motion]
        /\ pos' \in [Axis -> Place]
        /\ jumped' \in [Axis -> BOOLEAN]
        /\ cruise' \in SUBSET Axis
    <3> DEFINE j == JobOf(c)
    <3>1. j.axes \in SUBSET Axis /\ j.speed \in Speed /\ SetAxisRate(j)
      BY <2>3 DEF Job
    <3> HIDE DEF j
    <3>2. axis' \in [Axis -> Motion] /\ jumped' \in [Axis -> BOOLEAN]
      <4>1. PICK f \in [Axis -> Motion] : Turns(f)
        BY <3>1 DEF SetAxisRate, TypeOK, Motion, Speed
      <4> QED
        BY <4>1 DEF Turns, TypeOK, Fast
    <3>3. pos' \in [Axis -> Place] /\ cruise' \in SUBSET Axis
      BY <3>1 DEF SetAxisRate, TypeOK, Place, Interrupted
    <3> QED
      BY <3>2, <3>3
  <2>5. expect' \in [Axis -> Expected] /\ parked' \in BOOLEAN
    BY <1>7, <1>2 DEF SetRate, TypeOK, Expected, Axis, Request
  <2> QED
    BY <1>7, <2>1, <2>2, <2>4, <2>5 DEF SetRate, TypeOK
<1>8. CASE Stepped(c)
  <2>1. CoroutineTyped /\ QTyped
    BY <1>8, <1>4, ReturnsTyped, QueueTyped DEF Stepped
  <2>2. expect' \in [Axis -> Expected]
    BY <1>8 DEF Stepped, TypeOK, Expected, Axis
  <2>3. /\ axis' \in [Axis -> Motion]
        /\ pos' \in [Axis -> Place]
        /\ jumped' \in [Axis -> BOOLEAN]
    BY <1>8 DEF Stepped, StepAxis, Turns, TypeOK, Motion, Place, Interrupted
  <2> QED
    BY <1>8, <2>1, <2>2, <2>3 DEF Stepped, StepAxis, TypeOK
<1>9. CASE Aborted(c)
  <2>1. CoroutineTyped
    BY <1>9, <1>1, <1>3, GoesTyped, ReturnsTyped DEF Aborted
  <2>2. QTyped
    BY <1>9, <1>4, QueueTyped DEF Aborted
  <2>3. /\ axis' \in [Axis -> Motion]
        /\ pos' \in [Axis -> Place]
        /\ jumped' \in [Axis -> BOOLEAN]
        /\ expect' \in [Axis -> Expected]
    BY <1>9 DEF Aborted, StopBoth, Turns, TypeOK, Motion, Place, Interrupted, AnyOf, Expected
  <2> QED
    BY <1>9, <2>1, <2>2, <2>3 DEF Aborted, StopBoth, TypeOK
<1>10. CASE HomeSet(c)
  <2>1. CoroutineTyped /\ QTyped
    BY <1>10, <1>4, ReturnsTyped, QueueTyped DEF HomeSet
  <2>2. /\ axis' \in [Axis -> Motion]
        /\ pos' \in [Axis -> Place]
        /\ jumped' \in [Axis -> BOOLEAN]
        /\ expect' \in [Axis -> Expected]
    BY <1>10 DEF HomeSet, ZeroCounters, TypeOK, Motion, Place, AnyOf, Expected
  <2> QED
    BY <1>10, <2>1, <2>2 DEF HomeSet, ZeroCounters, AnyOf, TypeOK
<1>11. CASE FaultChecked(c)
  <2>1. CoroutineTyped /\ QTyped
    BY <1>11, <1>4, ReturnsTyped, QueueTyped DEF FaultChecked
  <2>2. /\ fault' \in BOOLEAN /\ clean' \in BOOLEAN
        /\ strikes' \in [Axis -> Nat]
        /\ lastSeen' \in [Axis -> Expected \cup {"unread"}]
    <3>1. CASE \A a \in Axis : axis[a] = "still"
      <4>1. /\ fault' = FALSE /\ clean' = FALSE
            /\ lastSeen' = AnyOf("unread") /\ strikes' = AnyOf(0)
        BY <1>11, <3>1, Zenon DEF FaultChecked
      <4> QED
        BY <4>1 DEF AnyOf
    <3>2. CASE ~\A a \in Axis : axis[a] = "still"
      BY <1>11, <3>2 DEF FaultChecked, TypeOK
    <3> QED
      BY <3>1, <3>2
  <2> QED
    BY <1>11, <2>1, <2>2 DEF FaultChecked, TypeOK
<1>12. CASE Poll(c)
  <2>1. PICK hop \in SUBSET Arrived :
          /\ AdvanceCruise(hop)
          /\ \E over \in BOOLEAN :
               /\ expect' \in [Axis -> Expected]
               /\ Goes(c, IF over THEN "arrive" ELSE "nap", req[c])
    BY <1>12 DEF Poll, TypeOK, Expected
  <2>2. CoroutineTyped
    BY <2>1, <1>1, <1>2, GoesTyped
  <2>3. QTyped
    BY <1>12, <1>4, QueueTyped DEF Poll
  <2>4. /\ axis' \in [Axis -> Motion]
        /\ pos' \in [Axis -> Place]
        /\ jumped' \in [Axis -> BOOLEAN]
        /\ cruise' \in SUBSET Axis
    BY <2>1 DEF AdvanceCruise, Turns, TypeOK, Motion, Place, Reached
  <2> QED
    BY <1>12, <2>1, <2>2, <2>3, <2>4 DEF Poll, TypeOK
<1>13. CASE JobHalts(c)
  <2>1. CoroutineTyped /\ QTyped
    BY <1>13, <1>4, ReturnsTyped, QueueTyped DEF JobHalts
  <2>2. PICK f \in [Axis -> Motion] : Halt(f, c)
    BY <1>13, OverrunsHalt DEF JobHalts
  <2> QED
    BY <1>13, <2>1, <2>2, HaltForgets DEF JobHalts, TypeOK
<1>14. CASE Nap(c)
  <2>1. CoroutineTyped
    BY <1>14, <1>1, <1>2, GoesTyped, ReturnsTyped DEF Nap
  <2>2. QTyped
    BY <1>14, QueueTyped DEF Nap, TypeOK
  <2> QED
    BY <1>14, <2>1, <2>2 DEF Nap, TypeOK
<1>15. CASE Arrive(c)
  <2>1. CoroutineTyped
    BY <1>15, <1>1, <1>3, GoesTyped, ReturnsTyped DEF Arrive
  <2>2. QTyped
    BY <1>15, QueueTyped DEF Arrive, TypeOK
  <2> QED
    BY <1>15, <1>2, <2>1, <2>2 DEF Arrive, TypeOK, Request
<1>16. CASE PulseEnds(c)
  <2>1. CoroutineTyped
    BY <1>16, <1>1, <1>2, GoesTyped, RequestsTyped DEF PulseEnds
  <2> QED
    BY <1>16, <2>1, QueueTyped DEF PulseEnds, TypeOK
<1> QED
  BY <1>5, <1>6, <1>7, <1>8, <1>9, <1>10, <1>11, <1>12, <1>13, <1>14, <1>15, <1>16 DEF Continue

\* So does a failed command, a cancelled coroutine and the thread it leaves.
LEMMA FailureTypes ==
  ASSUME TypeOK
  PROVE  /\ \A c \in Clients : JobFails(c) \/ Cancel(c) => TypeOK'
         /\ \A j \in orphans : OrphanFinishes(j) => TypeOK'
<1> USE DEF hardware, intent, halting, watch, coroutines
<1>1. ASSUME NEW c \in Clients, Unwinds(c)
      PROVE  /\ pc' \in [Clients -> PC] /\ req' \in [Clients -> Request]
             /\ expect' \in [Axis -> Expected]
  BY <1>1, ReturnsTyped DEF Unwinds, TypeOK, Expected, Axis
<1>2. ASSUME NEW c \in Clients, JobFails(c)
      PROVE  TypeOK'
  <2>1. queue' \in Seq(Clients \cup {Watchdog})
    BY <1>2, QueueTyped DEF JobFails, HasLock
  <2> QED
    BY <1>1, <1>2, <2>1 DEF JobFails, Unwinds, TypeOK
<1>3. ASSUME NEW c \in Clients, Cancel(c)
      PROVE  TypeOK'
  <2>1. queue' \in Seq(Clients \cup {Watchdog})
    BY <1>3, QueueTyped DEF Cancel, TypeOK
  <2>2. orphans' \in SUBSET Job
    BY <1>3, JobTyped DEF Cancel, TypeOK
  <2> QED
    BY <1>1, <1>3, <2>1, <2>2 DEF Cancel, Unwinds, TypeOK
<1>4. ASSUME NEW j \in orphans, OrphanFinishes(j)
      PROVE  TypeOK'
  <2>1. j \in Job /\ orphans' \in SUBSET Job
    BY <1>4 DEF OrphanFinishes, TypeOK
  <2>2. CASE Does(j) /\ UNCHANGED <<tracking, trackOnArrival, halting>>
    BY <1>4, <2>1, <2>2, DoesTypes DEF OrphanFinishes, TypeOK
  <2>3. CASE Overruns(j, Watchdog)
    <3>1. PICK f \in [Axis -> Motion] : Halt(f, Watchdog)
      BY <2>3, OverrunsHalt
    <3> QED
      BY <1>4, <2>1, <3>1, HaltForgets DEF OrphanFinishes, TypeOK
  <2> QED
    BY <1>4, <2>2, <2>3 DEF OrphanFinishes
<1> QED
  BY <1>2, <1>3, <1>4

\* So does the watchdog.
LEMMA WatchdogTypes ==
  ASSUME TypeOK, WatchWakes \/ Watch
  PROVE  TypeOK'
<1> USE DEF hardware, intent, halting, watch, coroutines
<1>1. CASE WatchWakes
  <2>1. queue' \in Seq(Clients \cup {Watchdog})
    BY <1>1, QueueStaysTyped DEF WatchWakes, TypeOK
  <2> QED
    BY <1>1, <2>1 DEF WatchWakes, TypeOK
<1>2. CASE Watch
  <2>1. queue' \in Seq(Clients \cup {Watchdog})
    BY <1>2, QueueStaysTyped DEF Watch, HasLock, Leaves, TypeOK
  <2>2. PICK fast \in SUBSET {a \in Axis : MayBeTooFast(a)} : Reading(fast)
    BY <1>2 DEF Watch
  <2>3. \A a \in Axis : Strikes(a, fast) \in Nat
    BY DEF Strikes, TypeOK
  <2>4. /\ strikes' \in [Axis -> Nat]
        /\ lastSeen' \in [Axis -> Expected \cup {"unread"}]
    BY <2>2, <2>3 DEF Reading, TypeOK
  <2>5. CASE \E a \in Axis : Wrong(a, fast)
    <3>1. axis \in [Axis -> Motion] /\ Halt(axis, Watchdog)
      BY <2>2, <2>5 DEF Reading, TypeOK
    <3> QED
      BY <1>2, <2>1, <2>4, <3>1, HaltForgets DEF Watch, TypeOK
  <2>6. CASE ~\E a \in Axis : Wrong(a, fast)
    <3>1. axis' \in [Axis -> Motion]
      BY <2>2, <2>6 DEF Reading, Settled, TypeOK, Motion
    <3>2. expect' = [a \in Axis |-> IF expect[a] = "goto" /\ axis[a] = "still"
                                    THEN "none" ELSE expect[a]]
      BY <2>2, <2>6 DEF Reading
    <3>3. jumped' = [a \in Axis |-> Settled[a] \in Fast]
      BY <2>2, <2>6 DEF Reading
    <3>4. expect' \in [Axis -> Expected] /\ jumped' \in [Axis -> BOOLEAN]
      BY <3>2, <3>3, SMT DEF TypeOK, Expected, Fast
    <3>5. UNCHANGED <<pos, cruise, tracking, trackOnArrival, halting>>
      BY <2>2, <2>6 DEF Reading
    <3> QED
      BY <1>2, <2>1, <2>4, <3>1, <3>4, <3>5 DEF Watch, TypeOK
  <2> QED
    BY <2>5, <2>6
<1> QED
  BY <1>1, <1>2

\* So do the motors.
LEMMA MotorTypes ==
  ASSUME TypeOK, NEW a \in Axis, Physics(a) \/ BreaksDown(a)
  PROVE  TypeOK'
<1> USE DEF hardware, intent, halting, watch, coroutines
<1>1. CASE GotoEnds(a)
  BY <1>1 DEF GotoEnds, TypeOK, Motion, Place, Reached
<1>2. CASE CoastEnds(a)
  BY <1>2 DEF CoastEnds, TypeOK, Motion
<1>3. CASE Nears(a)
  BY <1>3 DEF Nears, TypeOK, Motion
<1>4. CASE GoesBeyond(a)
  BY <1>4 DEF GoesBeyond, Turns, TypeOK, Motion, Place
<1>5. CASE BreaksDown(a)
  BY <1>5 DEF BreaksDown, Turns, TypeOK, Motion, Place
<1> QED
  BY <1>1, <1>2, <1>3, <1>4, <1>5 DEF Physics

\* A mount just connected has its fields in order.
LEMMA InitTypes == Init => TypeOK
<1> SUFFICES ASSUME Init PROVE TypeOK
  OBVIOUS
<1>1. /\ axis \in [Axis -> Motion] /\ pos \in [Axis -> Place] /\ jumped \in [Axis -> BOOLEAN]
      /\ expect \in [Axis -> Expected] /\ strikes \in [Axis -> Nat]
      /\ lastSeen \in [Axis -> Expected \cup {"unread"}]
  BY DEF Init, AnyOf, Motion, Place, Expected
<1>2. pc \in [Clients -> PC] /\ req \in [Clients -> Request]
  BY RequestsTyped DEF Init, PC
<1>3. queue \in Seq(Clients \cup {Watchdog})
  BY DEF Init
<1>4. parked \in BOOLEAN /\ orphans \in SUBSET Job /\ cruise \in SUBSET Axis
  BY DEF Init
<1> QED
  BY <1>1, <1>2, <1>3, <1>4 DEF Init, TypeOK

\* And no step of coroutine, thread, watchdog or motor puts them out of it.
LEMMA StepTypes == TypeOK /\ [Next]_vars => TypeOK'
<1> SUFFICES ASSUME TypeOK, [Next]_vars PROVE TypeOK'
  OBVIOUS
<1>1. CASE UNCHANGED vars
  BY <1>1 DEF vars, hardware, intent, halting, watch, coroutines, TypeOK
<1>2. ASSUME NEW c \in Clients, Call(c) \/ Continue(c) \/ JobFails(c) \/ Cancel(c)
      PROVE  TypeOK'
  BY <1>2, CallTypes, ContinueTypes, FailureTypes
<1>3. ASSUME NEW j \in orphans, OrphanFinishes(j)
      PROVE  TypeOK'
  BY <1>3, FailureTypes
<1>4. CASE WatchWakes \/ Watch
  BY <1>4, WatchdogTypes
<1>5. ASSUME NEW a \in Axis, Physics(a) \/ BreaksDown(a)
      PROVE  TypeOK'
  BY <1>5, MotorTypes
<1> QED
  BY <1>1, <1>2, <1>3, <1>4, <1>5 DEF Next

\* The fields of the mount, the lock and every coroutine hold what the code
\* puts there, however many coroutines there are.
THEOREM TypeSafety == Spec => []TypeOK
BY InitTypes, StepTypes, PTL DEF Spec

-----------------------------------------------------------------------------
(* A halt holds                                                            *)

\* A coroutine that goes on to something other than a move leaves nothing to
\* start, if there was nothing.
LEMMA GoesQuietly ==
  ASSUME TypeOK, NothingToStart, NEW c \in Clients, NEW p, NEW r,
         Goes(c, p, r), ~Starting(p, r), \A j \in orphans' : j \in orphans
  PROVE  NothingToStart'
BY DEF NothingToStart, MayStart, Goes, TypeOK

\* Nor does one that returns.
LEMMA ReturnsQuietly ==
  ASSUME TypeOK, NothingToStart, NEW c \in Clients,
         Returns(c), \A j \in orphans' : j \in orphans
  PROVE  NothingToStart'
BY GoesQuietly DEF Returns, Starting

\* A halt that found nothing in flight leaves the mount quiet.
LEMMA HaltsQuietly ==
  ASSUME TypeOK, NEW f \in [Axis -> Motion], NEW who, Halt(f, who), clean',
         \A j \in orphans' : j \in orphans,
         \/ who \in Clients /\ Returns(who)
         \/ who = Watchdog /\ UNCHANGED <<pc, req>>
  PROVE  Quiet'
<1>1. fault' /\ NothingRemembered' /\ ~InFlight(who) /\ \A a \in Axis : axis'[a] \in Undriven
  BY HaltForgets
<1>2. \A j \in orphans' : ~JobStarts(j)
  BY <1>1 DEF InFlight
<1>3. \A c \in Clients \ {who} : ~MayStart(c)
  BY <1>1 DEF InFlight
<1>4. CASE who \in Clients /\ Returns(who)
  <2>1. \A c \in Clients \ {who} : pc'[c] = pc[c] /\ req'[c] = req[c]
    BY <1>4 DEF Returns, Goes, TypeOK
  <2>2. pc'[who] = "idle"
    BY <1>4 DEF Returns, Goes, TypeOK
  <2>3. \A c \in Clients : ~Starting(pc'[c], req'[c])
    BY <1>3, <2>1, <2>2 DEF MayStart, Starting
  <2> QED
    BY <1>1, <1>2, <2>3 DEF Quiet, NothingToStart, MayStart
<1>5. CASE who = Watchdog /\ UNCHANGED <<pc, req>>
  <2>1. \A c \in Clients : ~Starting(pc'[c], req'[c])
    BY <1>3, <1>5, WatchdogAssumption DEF MayStart
  <2> QED
    BY <1>1, <1>2, <2>1 DEF Quiet, NothingToStart, MayStart
<1> QED
  BY <1>4, <1>5

\* No operation gets past its guards while the mount is halted, but for those
\* that only stop.
LEMMA CallQuiet ==
  ASSUME TypeOK, Quiet, NEW c \in Clients, Call(c)
  PROVE  Quiet'
<1> USE DEF Quiet, hardware, intent, halting, watch, coroutines
<1>1. ~SlewTo(c) /\ ~MoveBy(c) /\ ~Park(c) /\ ~SetRaRateOffset(c) /\ ~StepDec(c) /\ ~PulseGuide(c)
  BY DEF SlewTo, MoveBy, Park, SetRaRateOffset, StepDec, PulseGuide, MayMove
<1>2. CASE Unpark(c)
  BY <1>2 DEF Unpark, NothingRemembered, NothingToStart, MayStart
<1>3. CASE WaitForSlew(c)
  <2>1. NothingToStart'
    BY <1>3, GoesQuietly DEF WaitForSlew, Starting
  <2> QED
    BY <1>3, <2>1 DEF WaitForSlew, NothingRemembered
<1>4. CASE AbortSlew(c)
  <2>1. NothingToStart'
    BY <1>4, GoesQuietly DEF AbortSlew, Starting
  <2> QED
    BY <1>4, <2>1 DEF AbortSlew, NothingRemembered
<1>5. CASE SetTracking(c)
  <2>1. /\ tracking' = FALSE
        /\ Goes(c, "rate", [NoRequest EXCEPT !.axes = {"ra"}])
    BY <1>5 DEF SetTracking, MayMove
  <2>2. ~Starting("rate", [NoRequest EXCEPT !.axes = {"ra"}])
    BY DEF Starting, NoRequest
  <2>3. NothingToStart'
    BY <1>5, <2>1, <2>2, GoesQuietly DEF SetTracking
  <2> QED
    BY <1>5, <2>1, <2>3 DEF SetTracking, NothingRemembered
<1>6. CASE SetHome(c)
  <2>1. NothingToStart'
    BY <1>6, GoesQuietly DEF SetHome, Starting
  <2> QED
    BY <1>6, <2>1 DEF SetHome, NothingRemembered
<1>7. CASE ClearFault(c)
  <2>1. NothingToStart'
    BY <1>7, GoesQuietly DEF ClearFault, Starting
  <2> QED
    BY <1>7, <2>1 DEF ClearFault, NothingRemembered
<1> QED
  BY <1>1, <1>2, <1>3, <1>4, <1>5, <1>6, <1>7 DEF Call

\* Nor does what is already under way set anything turning, for none of it is
\* a move.
LEMMA ContinueQuiet ==
  ASSUME TypeOK, Quiet, NEW c \in Clients, Continue(c), clean'
  PROVE  Quiet'
<1> USE DEF hardware, intent, halting, watch, coroutines
<1>1. ~MayStart(c) /\ cruise = {} /\ ~tracking /\ ~trackOnArrival
      /\ fault /\ NothingToStart /\ \A a \in Axis : axis[a] \in Undriven
  BY DEF Quiet, NothingToStart, NothingRemembered
<1>2. ~Aim(c) /\ ~StartMove(c) /\ ~Stepped(c)
  BY <1>1 DEF MayStart, Starting, Aim, StartMove, Stepped
<1>3. CASE SetRate(c)
  <2>1. req[c].speed = "still" /\ req[c].then \notin {"sleep", "start"}
    BY <1>1, <1>3 DEF SetRate, MayStart, Starting
  <2>2. JobOf(c) \in Job /\ JobOf(c).speed = "still" /\ SetAxisRate(JobOf(c)) /\ Returns(c)
    <3>1. JobOf(c) \in Job
      BY <1>3, JobTyped DEF SetRate, Locked
    <3> QED
      BY <1>3, <2>1, <3>1 DEF SetRate, JobOf
  <2>3. cruise' = {} /\ \A a \in Axis : axis'[a] \in Undriven
    BY <1>1, <2>2, DoesNotDrive
  <2>4. NothingToStart'
    BY <1>1, <1>3, <2>2, ReturnsQuietly DEF SetRate
  <2> QED
    BY <1>1, <1>3, <2>3, <2>4 DEF SetRate, Quiet, NothingRemembered
<1>4. CASE Aborted(c)
  <2>1. cruise' = {} /\ \A a \in Axis : axis'[a] \in Undriven
    BY <1>1, <1>4, DoesNotDrive DEF Aborted
  <2>2. NothingToStart'
    BY <1>1, <1>4, ReturnsQuietly DEF Aborted
  <2> QED
    BY <1>1, <1>4, <2>1, <2>2 DEF Aborted, Quiet, NothingRemembered
<1>5. CASE HomeSet(c)
  <2>1. cruise' = {} /\ \A a \in Axis : axis'[a] \in Undriven
    BY <1>1, <1>5, DoesNotDrive DEF HomeSet
  <2>2. NothingToStart'
    BY <1>1, <1>5, ReturnsQuietly DEF HomeSet
  <2> QED
    BY <1>1, <1>5, <2>1, <2>2 DEF HomeSet, Quiet, NothingRemembered
<1>6. CASE FaultChecked(c)
  <2>1. NothingToStart'
    BY <1>1, <1>6, ReturnsQuietly DEF FaultChecked
  <2>2. UNCHANGED fault
    BY <1>6 DEF FaultChecked
  <2> QED
    BY <1>1, <1>6, <2>1, <2>2 DEF FaultChecked, Quiet, NothingRemembered
<1>7. CASE Poll(c)
  <2>1. PICK hop \in SUBSET Arrived :
          AdvanceCruise(hop) /\ \E p \in {"arrive", "nap"} : Goes(c, p, req[c])
    BY <1>7 DEF Poll
  <2>2. cruise' = {} /\ \A a \in Axis : axis'[a] \in Undriven
    BY <1>1, <2>1, DoesNotDrive
  <2>3. NothingToStart'
    BY <1>1, <1>7, <2>1, GoesQuietly DEF Poll, Starting
  <2> QED
    BY <1>1, <1>7, <2>2, <2>3 DEF Poll, Quiet, NothingRemembered
<1>8. CASE JobHalts(c)
  <2>1. PICK f \in [Axis -> Motion] : Halt(f, c)
    BY <1>8, OverrunsHalt DEF JobHalts
  <2> QED
    BY <1>8, <2>1, HaltsQuietly DEF JobHalts
<1>9. CASE Nap(c)
  <2>1. NothingToStart'
    <3>1. ~Starting("poll", req[c])
      BY DEF Starting
    <3> QED
      BY <1>1, <1>9, <3>1, GoesQuietly, ReturnsQuietly DEF Nap
  <2> QED
    BY <1>1, <1>9, <2>1 DEF Nap, Quiet, NothingRemembered
<1>10. CASE Arrive(c)
  <2>1. tracking' = FALSE /\ Returns(c)
    BY <1>1, <1>10 DEF Arrive, TypeOK
  <2>2. NothingToStart'
    BY <1>1, <1>10, <2>1, ReturnsQuietly DEF Arrive
  <2> QED
    BY <1>1, <1>10, <2>1, <2>2 DEF Arrive, Quiet, NothingRemembered
<1>11. CASE PulseEnds(c)
  <2>1. req[c].base = "still"
    BY <1>1, <1>11 DEF PulseEnds, MayStart, Starting
  <2>2. ~Starting("rate", Restored(req[c]))
    BY <2>1 DEF Starting, Restored, TypeOK, Request
  <2>3. NothingToStart'
    BY <1>1, <1>11, <2>2, GoesQuietly DEF PulseEnds
  <2> QED
    BY <1>1, <1>11, <2>3 DEF PulseEnds, Quiet, NothingRemembered
<1> QED
  BY <1>2, <1>3, <1>4, <1>5, <1>6, <1>7, <1>8, <1>9, <1>10, <1>11 DEF Continue

\* A coroutine that fails or is cancelled has no move to leave behind.
LEMMA FailureQuiet ==
  ASSUME TypeOK, Quiet, clean'
  PROVE  /\ \A c \in Clients : JobFails(c) \/ Cancel(c) => Quiet'
         /\ \A j \in orphans : OrphanFinishes(j) => Quiet'
<1> USE DEF hardware, intent, halting, watch, coroutines
<1>1. cruise = {} /\ ~tracking /\ ~trackOnArrival
      /\ fault /\ NothingToStart /\ \A a \in Axis : axis[a] \in Undriven
  BY DEF Quiet, NothingRemembered
<1>2. ASSUME NEW c \in Clients, JobFails(c)
      PROVE  Quiet'
  <2>1. NothingToStart'
    BY <1>1, <1>2, ReturnsQuietly DEF JobFails, Unwinds
  <2> QED
    BY <1>1, <1>2, <2>1 DEF JobFails, Unwinds, Quiet, NothingRemembered
<1>3. ASSUME NEW c \in Clients, Cancel(c)
      PROVE  Quiet'
  <2>1. ~JobStarts(JobOf(c))
    BY <1>1 DEF NothingToStart, MayStart, Starting, JobStarts, JobOf
  <2>2. \A j \in orphans' : ~JobStarts(j)
    BY <1>1, <1>3, <2>1 DEF Cancel, NothingToStart
  <2>3. \A d \in Clients : ~Starting(pc'[d], req'[d])
    <3>1. pc' = [pc EXCEPT ![c] = "idle"] /\ req' = [req EXCEPT ![c] = NoRequest]
      BY <1>3 DEF Cancel, Unwinds, Returns, Goes
    <3>2. \A d \in Clients : d # c => pc'[d] = pc[d] /\ req'[d] = req[d]
      BY <3>1 DEF TypeOK
    <3>3. ~Starting(pc'[c], req'[c])
      BY <3>1 DEF TypeOK, Starting
    <3> QED
      BY <1>1, <3>2, <3>3 DEF NothingToStart, MayStart
  <2>4. NothingToStart'
    BY <2>2, <2>3 DEF NothingToStart, MayStart
  <2> QED
    BY <1>1, <1>3, <2>4 DEF Cancel, Unwinds, Quiet, NothingRemembered
<1>4. ASSUME NEW j \in orphans, OrphanFinishes(j)
      PROVE  Quiet'
  <2>1. j \in Job /\ ~JobStarts(j) /\ \A k \in orphans' : k \in orphans
    BY <1>1, <1>4 DEF TypeOK, NothingToStart, OrphanFinishes
  <2>2. CASE Does(j) /\ UNCHANGED <<tracking, trackOnArrival, halting>>
    <3>1. \/ j.speed = "still" /\ SetAxisRate(j)
          \/ StopBoth
          \/ ZeroCounters
          \/ \E hop \in SUBSET Arrived : AdvanceCruise(hop)
      BY <2>1, <2>2 DEF Does, JobStarts
    <3>2. cruise' = {} /\ \A a \in Axis : axis'[a] \in Undriven
      BY <1>1, <2>1, <3>1, DoesNotDrive
    <3>3. NothingToStart'
      BY <1>1, <1>4, <2>1 DEF OrphanFinishes, NothingToStart, MayStart
    <3> QED
      BY <1>1, <2>2, <3>2, <3>3 DEF Quiet, NothingRemembered
  <2>3. CASE Overruns(j, Watchdog)
    <3>1. PICK f \in [Axis -> Motion] : Halt(f, Watchdog)
      BY <2>3, OverrunsHalt
    <3> QED
      BY <1>4, <2>1, <3>1, HaltsQuietly DEF OrphanFinishes
  <2> QED
    BY <1>4, <2>2, <2>3 DEF OrphanFinishes
<1> QED
  BY <1>2, <1>3, <1>4

\* The watchdog only halts, and an axis that is not driven moves on to nothing
\* but standing still or running away.
LEMMA WatchdogQuiet ==
  ASSUME TypeOK, clean', Watch, clean => Quiet
  PROVE  Quiet'
<1> USE DEF hardware, intent, halting, watch, coroutines
<1>1. PICK fast \in SUBSET {a \in Axis : MayBeTooFast(a)} : Reading(fast)
  BY DEF Watch
<1>2. CASE \E a \in Axis : Wrong(a, fast)
  <2>1. axis \in [Axis -> Motion] /\ Halt(axis, Watchdog)
    BY <1>1, <1>2 DEF Reading, TypeOK
  <2>2. UNCHANGED <<pc, req>> /\ \A j \in orphans' : j \in orphans
    BY DEF Watch
  <2> QED
    BY <2>1, <2>2, HaltsQuietly
<1>3. CASE ~\E a \in Axis : Wrong(a, fast)
  <2>1. axis' = Settled /\ UNCHANGED <<cruise, tracking, trackOnArrival, fault, clean, pc, req, orphans>>
    BY <1>1, <1>3 DEF Reading, Watch
  <2>2. Quiet
    BY <2>1
  <2>3. \A a \in Axis : axis'[a] \in Undriven
    BY <2>1, <2>2 DEF Settled, Quiet, Undriven
  <2> QED
    BY <2>1, <2>2, <2>3 DEF Quiet, NothingRemembered, NothingToStart, MayStart
<1> QED
  BY <1>2, <1>3

\* Nor do the motors: an axis that nothing drives slows down or stands.
LEMMA MotorQuiet ==
  ASSUME TypeOK, Quiet, NEW a \in Axis, Physics(a) \/ BreaksDown(a)
  PROVE  Quiet'
<1> USE DEF hardware, intent, halting, watch, coroutines
<1>1. /\ \A b \in Axis : axis'[b] \in Undriven
      /\ UNCHANGED <<fault, cruise, tracking, trackOnArrival, pc, req, orphans>>
  <2>1. CASE GotoEnds(a)
    BY <2>1 DEF GotoEnds, Quiet, TypeOK, Undriven
  <2>2. CASE CoastEnds(a)
    BY <2>2 DEF CoastEnds, Quiet, TypeOK, Undriven
  <2>3. CASE Nears(a)
    BY <2>3 DEF Nears, Quiet, TypeOK, Undriven
  <2>4. CASE GoesBeyond(a)
    BY <2>4 DEF GoesBeyond, Turns, Quiet, TypeOK, Undriven
  <2>5. CASE BreaksDown(a)
    BY <2>5 DEF BreaksDown, Turns, Quiet, TypeOK, Undriven
  <2> QED
    BY <2>1, <2>2, <2>3, <2>4, <2>5 DEF Physics
<1> QED
  BY <1>1 DEF Quiet, NothingRemembered, NothingToStart, MayStart

\* The inductive step of HaltSafety: a quiet halt stays quiet, and a new one is
\* called clean only when it is quiet.
LEMMA StepHalt == HaltInv /\ [Next]_vars => HaltInv'
<1> SUFFICES ASSUME HaltInv, [Next]_vars, clean' PROVE Quiet'
  BY StepTypes DEF HaltInv
<1> USE DEF HaltInv
<1>1. CASE UNCHANGED vars
  BY <1>1 DEF vars, hardware, intent, halting, watch, coroutines,
    Quiet, NothingRemembered, NothingToStart, MayStart
<1>2. ASSUME NEW c \in Clients, Call(c)
      PROVE  Quiet'
  <2>1. UNCHANGED clean
    BY <1>2 DEF Call, SlewTo, MoveBy, Park, Unpark, WaitForSlew, AbortSlew, SetTracking,
      SetHome, SetRaRateOffset, StepDec, PulseGuide, ClearFault, halting
  <2> QED
    BY <1>2, <2>1, CallQuiet
<1>3. ASSUME NEW c \in Clients, Continue(c)
      PROVE  Quiet'
  <2>1. CASE JobHalts(c)
    <3>1. PICK f \in [Axis -> Motion] : Halt(f, c)
      BY <2>1, OverrunsHalt DEF JobHalts
    <3> QED
      BY <2>1, <3>1, HaltsQuietly DEF JobHalts
  <2>2. CASE ~JobHalts(c)
    <3>1. clean' => clean
      BY <1>3, <2>2 DEF Continue, Aim, StartMove, SetRate, Stepped, Aborted, HomeSet,
        FaultChecked, Poll, Nap, Arrive, PulseEnds, halting
    <3> QED
      BY <1>3, <3>1, ContinueQuiet
  <2> QED
    BY <2>1, <2>2
<1>4. ASSUME NEW c \in Clients, JobFails(c) \/ Cancel(c)
      PROVE  Quiet'
  <2>1. UNCHANGED clean
    BY <1>4 DEF JobFails, Cancel, halting
  <2> QED
    BY <1>4, <2>1, FailureQuiet
<1>5. ASSUME NEW j \in orphans, OrphanFinishes(j)
      PROVE  Quiet'
  <2>1. CASE clean
    BY <1>5, <2>1, FailureQuiet
  <2>2. CASE Overruns(j, Watchdog)
    <3>1. PICK f \in [Axis -> Motion] : Halt(f, Watchdog)
      BY <2>2, OverrunsHalt
    <3> QED
      BY <1>5, <3>1, HaltsQuietly DEF OrphanFinishes
  <2> QED
    BY <1>5, <2>1, <2>2 DEF OrphanFinishes, halting
<1>6. CASE WatchWakes
  BY <1>6 DEF WatchWakes, hardware, intent, halting, watch,
    Quiet, NothingRemembered, NothingToStart, MayStart
<1>7. CASE Watch
  BY <1>7, WatchdogQuiet
<1>8. ASSUME NEW a \in Axis, Physics(a) \/ BreaksDown(a)
      PROVE  Quiet'
  <2>1. UNCHANGED clean
    BY <1>8 DEF Physics, GotoEnds, CoastEnds, Nears, GoesBeyond, BreaksDown, halting
  <2> QED
    BY <1>8, <2>1, MotorQuiet
<1> QED
  BY <1>1, <1>2, <1>3, <1>4, <1>5, <1>6, <1>7, <1>8 DEF Next

\* A mount that halted with no move past its guards stays halted and undriven
\* until clear_fault, whatever the coroutines, their cancellations, the threads
\* left behind, the line and the motors do.
THEOREM HaltSafety == Spec => []HaltHolds
<1>1. Init => HaltInv
  BY InitTypes DEF Init, HaltInv
<1>2. HaltInv => HaltHolds
  BY DEF HaltInv, HaltHolds, Quiet
<1> QED
  BY <1>1, <1>2, StepHalt, PTL DEF Spec

-----------------------------------------------------------------------------
(* One client.  What follows is true of a mount that one coroutine commands *)
(* at a time: README.md says what two do to each other.                     *)

Alone == \E c \in Clients : Clients = {c}

\* Nothing goes wrong on the client's side: every command is carried out, every wait
\* goes on to its end, and no slew is begun that nobody waits for.
Sure == ~BadLine /\ ~Cancellations /\ ~LateSlews /\ "slew_to" \notin Ops

\* No cancelled coroutine leaves a thread behind.
NoStrays == ~Cancellations \/ MaxOrphans = 0

\* Where a coroutine goes, it is.
LEMMA GoesThere ==
  ASSUME TypeOK, NEW c \in Clients, NEW p, NEW r, Goes(c, p, r)
  PROVE  pc'[c] = p /\ req'[c] = r
BY DEF Goes, TypeOK

-----------------------------------------------------------------------------
(* What moves has an owner                                                 *)

\* Why MotionHasAnOwner holds.  A cruise is in a wait, and the moves about to start
\* will be; a rate on declination is one end of a pulse or the other.
Owned(c) ==
  /\ \A a \in Axis : axis[a] \in {"cruise", "near"} => a \in cruise /\ pc[c] \in {"nap", "poll"}
  /\ axis["dec"] = "rate" \/ expect["dec"] = "pulse" => Pulsing(c)
  /\ pc[c] \in {"aim", "start"} => req[c].then = "wait"
  /\ pc[c] \in {"rate", "sleep"} =>
       \/ req[c].axes = {"ra"}
       \/ /\ req[c].axes = {"dec"} /\ req[c].base = "still"
          /\ pc[c] = "rate" => \/ req[c].then = "sleep"
                               \/ req[c].then = "idle" /\ req[c].speed = "still"
OwnInv == orphans = {} /\ \A c \in Clients : Owned(c)

\* A call finds nothing that moves on its account, and says what it will wait for.
LEMMA CallOwned ==
  ASSUME TypeOK, Sure, NEW c \in Clients, Owned(c), Call(c)
  PROVE  Owned(c)'
<1> USE DEF hardware, intent, halting, watch, coroutines
<1> DEFINE Slow == \A a \in Axis : axis[a] \notin {"cruise", "near"}
<1>1. pc[c] = "idle" /\ UNCHANGED axis
  BY DEF Call, Calls, SlewTo, MoveBy, Park, Unpark, WaitForSlew, AbortSlew, SetTracking,
    SetHome, SetRaRateOffset, StepDec, PulseGuide, ClearFault
<1>2. Slow' /\ axis'["dec"] # "rate" /\ expect["dec"] # "pulse"
  BY <1>1 DEF Owned, Pulsing
<1>3. CASE SlewTo(c)
  <2>1. Goes(c, "aim", [NoRequest EXCEPT !.axes = Axis, !.then = "wait"]) /\ UNCHANGED expect
    BY <1>3 DEF SlewTo, Calls, Sure
  <2>2. PICK r : r.then = "wait" /\ Goes(c, "aim", r)
    BY <2>1 DEF NoRequest
  <2>3. pc'[c] = "aim" /\ req'[c].then = "wait"
    BY <2>2, GoesThere
  <2> QED
    BY <1>2, <2>1, <2>3 DEF Owned
<1>4. CASE MoveBy(c)
  <2>1. PICK a \in Axis : Goes(c, "start", [NoRequest EXCEPT !.axes = {a}, !.then = "wait"])
    BY <1>4 DEF MoveBy
  <2>2. PICK r : r.then = "wait" /\ Goes(c, "start", r)
    BY <2>1 DEF NoRequest
  <2>3. pc'[c] = "start" /\ req'[c].then = "wait" /\ UNCHANGED expect
    BY <1>4, <2>2, GoesThere DEF MoveBy
  <2> QED
    BY <1>2, <2>3 DEF Owned
<1>5. CASE Park(c)
  <2>1. Goes(c, "rate", [NoRequest EXCEPT !.axes = {"ra"}, !.parks = TRUE, !.then = "start"])
        /\ UNCHANGED expect
    BY <1>5 DEF Park
  <2>2. PICK r : r.axes = {"ra"} /\ Goes(c, "rate", r)
    BY <2>1 DEF NoRequest
  <2>3. pc'[c] = "rate" /\ req'[c].axes = {"ra"}
    BY <2>2, GoesThere
  <2> QED
    BY <1>2, <2>1, <2>3 DEF Owned
<1>6. CASE Unpark(c)
  BY <1>1, <1>2, <1>6 DEF Unpark, Owned
<1>7. CASE WaitForSlew(c)
  BY <1>2, <1>7, GoesThere DEF WaitForSlew, Owned
<1>8. CASE AbortSlew(c)
  <2>1. pc'[c] = "stop" /\ UNCHANGED expect
    BY <1>8, GoesThere DEF AbortSlew
  <2> QED
    BY <1>2, <2>1 DEF Owned
<1>9. CASE SetTracking(c)
  <2>1. PICK r \in {TrackRequest(NoRequest), [NoRequest EXCEPT !.axes = {"ra"}]} : Goes(c, "rate", r)
    BY <1>9 DEF SetTracking
  <2>2. r.axes = {"ra"}
    BY DEF NoRequest, TrackRequest
  <2> QED
    BY <1>2, <1>9, <2>1, <2>2, GoesThere DEF Owned, SetTracking
<1>10. CASE SetHome(c)
  <2>1. pc'[c] = "zero" /\ UNCHANGED expect
    BY <1>10, GoesThere DEF SetHome
  <2> QED
    BY <1>2, <2>1 DEF Owned
<1>11. CASE SetRaRateOffset(c)
  <2>1. Goes(c, "rate", TrackRequest(NoRequest)) /\ UNCHANGED expect
    BY <1>11 DEF SetRaRateOffset
  <2>2. TrackRequest(NoRequest).axes = {"ra"}
    BY DEF NoRequest, TrackRequest
  <2> QED
    BY <1>2, <2>1, <2>2, GoesThere DEF Owned
<1>12. CASE StepDec(c)
  <2>1. pc'[c] = "step" /\ expect'["dec"] # "pulse"
    BY <1>12, GoesThere DEF StepDec, TypeOK, Axis
  <2> QED
    BY <1>2, <2>1 DEF Owned
<1>13. CASE PulseGuide(c)
  <2>1. CASE Goes(c, "rate", [NoRequest EXCEPT !.axes = {"dec"}, !.speed = "rate", !.then = "sleep"])
    <3>1. PICK r : /\ r.axes = {"dec"} /\ r.base = "still" /\ r.then = "sleep"
                   /\ Goes(c, "rate", r)
      BY <2>1 DEF NoRequest
    <3>2. /\ pc'[c] = "rate"
          /\ req'[c].axes = {"dec"} /\ req'[c].base = "still" /\ req'[c].then = "sleep"
      BY <3>1, GoesThere
    <3> QED
      BY <1>2, <3>2 DEF Owned, Pulsing
  <2>2. CASE /\ Goes(c, "rate", [NoRequest EXCEPT
                   !.axes = {"ra"}, !.base = IF tracking THEN "track" ELSE "still",
                   !.then = "sleep", !.speed = IF tracking THEN "track" ELSE "rate"])
             /\ UNCHANGED expect
    <3>1. PICK r : r.axes = {"ra"} /\ Goes(c, "rate", r)
      BY <2>2 DEF NoRequest
    <3>2. pc'[c] = "rate" /\ req'[c].axes = {"ra"}
      BY <3>1, GoesThere
    <3> QED
      BY <1>2, <2>2, <3>2 DEF Owned
  <2> QED
    BY <1>13, <2>1, <2>2 DEF PulseGuide
<1>14. CASE ClearFault(c)
  <2>1. pc'[c] = "check" /\ UNCHANGED expect
    BY <1>14, GoesThere DEF ClearFault
  <2> QED
    BY <1>2, <2>1 DEF Owned
<1> QED
  BY <1>3, <1>4, <1>5, <1>6, <1>7, <1>8, <1>9, <1>10, <1>11, <1>12, <1>13, <1>14 DEF Call

\* A halt leaves no move and no pulse behind.
LEMMA HaltOwned ==
  ASSUME TypeOK, NEW f \in [Axis -> Motion], NEW who, Halt(f, who)
  PROVE  /\ \A a \in Axis : axis'[a] \notin {"cruise", "near", "rate"}
         /\ \A a \in Axis : expect'[a] = "none"
<1>1. \A a \in Axis : axis'[a] \in Undriven
  BY HaltForgets
<1> QED
  BY <1>1 DEF Undriven, Halt, Forgets, AnyOf

\* A move that starts is waited for, a poll stops waiting when nothing cruises any
\* more, and a pulse goes from its start to the stop that ends it.
LEMMA ContinueOwned ==
  ASSUME TypeOK, Sure, NEW c \in Clients, Owned(c), Continue(c)
  PROVE  Owned(c)'
<1> USE DEF hardware, intent, halting, watch, coroutines
<1> DEFINE Slow == \A a \in Axis : axis[a] \notin {"cruise", "near"}
<1>0. "dec" \in Axis /\ req[c] \in Request
  BY DEF Axis, TypeOK
<1>1. CASE Aim(c)
  <2>1. pc[c] = "aim" /\ pc'[c] \in {"idle", "start"} /\ (pc'[c] = "start" => req'[c] = req[c])
        /\ UNCHANGED <<axis, expect>>
    BY <1>1, GoesThere DEF Aim, Returns
  <2> QED
    BY <2>1 DEF Owned, Pulsing
<1>2. CASE StartMove(c)
  <2>1. pc[c] = "start" /\ pc'[c] = "nap" /\ Slow /\ axis["dec"] # "rate" /\ expect["dec"] # "pulse"
    BY <1>2, GoesThere DEF StartMove, Owned, Pulsing
  <2>2. StartGoto(JobOf(c))
    BY <1>2 DEF StartMove, Does, JobOf
  <2>3. /\ \A a \in Axis : axis'[a] \in {"cruise", "near"} => a \in cruise'
        /\ axis'["dec"] # "rate" /\ expect'["dec"] # "pulse"
    BY <1>0, <2>1, <2>2 DEF StartGoto, Turns, Cruises
  <2> QED
    BY <2>1, <2>3 DEF Owned
<1>3. CASE SetRate(c)
  <2>1. pc[c] = "rate" /\ Slow
    BY <1>3 DEF SetRate, Owned
  <2>2. JobOf(c).axes = req[c].axes /\ JobOf(c).speed = req[c].speed /\ JobOf(c).speed \in Speed
    BY <1>0 DEF JobOf, Request
  <2>3. \A a \in Axis : \/ axis'[a] = axis[a]
                        \/ a \in req[c].axes /\ axis'[a] = "coast" /\ req[c].speed = "still"
                        \/ a \in req[c].axes /\ axis'[a] = req[c].speed /\ req[c].speed # "still"
    <3>1. SetAxisRate(JobOf(c))
      BY <1>3 DEF SetRate
    <3> DEFINE j == JobOf(c)
    <3> HIDE DEF j
    <3>2. CASE j.speed = "still"
      BY <2>2, <3>1, <3>2 DEF SetAxisRate, Turns, j
    <3>3. CASE j.speed # "still"
      BY <2>2, <3>1, <3>3 DEF SetAxisRate, Turns, j
    <3> QED
      BY <3>2, <3>3
  <2>4. Slow'
    BY <2>1, <2>2, <2>3 DEF Speed
  <2>5. CASE req[c].axes = {"ra"}
    <3>1. axis'["dec"] = axis["dec"] /\ UNCHANGED expect
      BY <1>0, <1>3, <2>3, <2>5 DEF SetRate
    <3>2. axis["dec"] # "rate" /\ expect["dec"] # "pulse"
      BY <2>1, <2>5 DEF Owned, Pulsing
    <3>3. CASE req[c].then = "sleep"
      BY <1>3, <2>4, <2>5, <3>1, <3>2, <3>3, GoesThere DEF SetRate, Owned
    <3>4. CASE req[c].then = "start"
      <4>1. pc'[c] = "start" /\ req'[c] = [req[c] EXCEPT !.axes = Axis, !.homing = TRUE, !.then = "wait"]
        BY <1>3, <3>4, GoesThere DEF SetRate
      <4>2. req'[c].then = "wait"
        BY <1>0, <4>1 DEF Request
      <4> QED
        BY <2>4, <3>1, <3>2, <4>1, <4>2 DEF Owned
    <3>5. CASE req[c].then \notin {"sleep", "start"}
      <4>1. pc'[c] = "idle"
        BY <1>3, <3>5, GoesThere DEF SetRate, Returns
      <4> QED
        BY <2>4, <3>1, <3>2, <4>1 DEF Owned
    <3> QED
      BY <3>3, <3>4, <3>5
  <2>6. CASE req[c].axes # {"ra"}
    <3>1. /\ req[c].axes = {"dec"} /\ req[c].base = "still"
          /\ req[c].then = "sleep" \/ (req[c].then = "idle" /\ req[c].speed = "still")
      BY <2>1, <2>6 DEF Owned
    <3>2. CASE req[c].then = "sleep"
      <4>1. pc'[c] = "sleep" /\ req'[c] = req[c]
        BY <1>3, <3>2, GoesThere DEF SetRate
      <4> QED
        BY <2>4, <3>1, <4>1 DEF Owned, Pulsing
    <3>3. CASE req[c].then = "idle" /\ req[c].speed = "still"
      <4>1. pc'[c] = "idle" /\ expect'["dec"] # "pulse"
        BY <1>0, <1>3, <3>1, <3>3, GoesThere DEF SetRate, Returns, TypeOK
      <4>2. axis'["dec"] # "rate"
        <5>1. SetAxisRate(JobOf(c))
          BY <1>3 DEF SetRate
        <5> QED
          BY <1>0, <2>2, <3>1, <3>3, <5>1 DEF SetAxisRate, Turns, Deaf
      <4> QED
        BY <2>4, <4>1, <4>2 DEF Owned
    <3> QED
      BY <3>1, <3>2, <3>3
  <2> QED
    BY <2>5, <2>6
<1>4. CASE Stepped(c)
  <2>1. pc[c] = "step" /\ pc'[c] = "idle" /\ StepAxis /\ expect' = [expect EXCEPT !["dec"] = "none"]
    BY <1>4, GoesThere DEF Stepped, Returns
  <2>2. axis' = [axis EXCEPT !["dec"] = "still"]
    BY <2>1 DEF StepAxis, Turns
  <2>3. (\A a \in Axis : axis'[a] = axis[a] \/ axis'[a] = "still")
        /\ axis'["dec"] = "still" /\ expect'["dec"] = "none"
    BY <1>0, <2>1, <2>2 DEF TypeOK
  <2> QED
    BY <2>1, <2>3 DEF Owned
<1>5. CASE Aborted(c)
  <2>1. /\ \A a \in Axis : axis'[a] = "still" /\ expect'[a] = "none"
        /\ pc'[c] \in {"rate", "idle"} /\ (pc'[c] = "rate" => req'[c] = TrackRequest(req[c]))
    BY <1>5, GoesThere DEF Aborted, Returns, StopBoth, Turns, AnyOf
  <2>2. TrackRequest(req[c]).axes = {"ra"}
    BY <1>0 DEF TrackRequest, Request
  <2> QED
    BY <1>0, <2>1, <2>2 DEF Owned
<1>6. CASE HomeSet(c)
  <2>1. (\A a \in Axis : axis'[a] = "still" /\ expect'[a] = "none") /\ pc'[c] = "idle"
    BY <1>6, GoesThere DEF HomeSet, Returns, ZeroCounters, AnyOf
  <2> QED
    BY <1>0, <2>1 DEF Owned
<1>7. CASE FaultChecked(c)
  <2>1. pc[c] = "check" /\ pc'[c] = "idle" /\ UNCHANGED <<axis, expect>>
    BY <1>7, GoesThere DEF FaultChecked, Returns
  <2> QED
    BY <2>1 DEF Owned, Pulsing
<1>8. CASE Poll(c)
  <2>1. pc[c] = "poll" /\ pc'[c] \in {"arrive", "nap"} /\ (pc'[c] = "arrive" => cruise' = {})
    BY <1>8, GoesThere DEF Poll, MoveOver
  <2>2. /\ \A a \in Axis : axis'[a] \in {"cruise", "near"} =>
             axis[a] = axis'[a] /\ a \in cruise'
        /\ axis'["dec"] = "rate" => axis["dec"] = "rate"
        /\ expect'["dec"] = "pulse" => expect["dec"] = "pulse"
    <3>1. PICK hop \in SUBSET Arrived :
            /\ AdvanceCruise(hop)
            /\ expect' = [a \in Axis |->
                 IF /\ MoveOver
                    /\ [b \in Axis |-> IF b \in hop THEN "goto" ELSE expect[b]][a] \in {"goto", "cruise"}
                 THEN "none" ELSE [b \in Axis |-> IF b \in hop THEN "goto" ELSE expect[b]][a]]
      BY <1>8 DEF Poll
    <3>2. expect'["dec"] = "pulse" => expect["dec"] = "pulse"
      BY <1>0, <3>1
    <3>3. /\ \A a \in Axis : axis'[a] \in {"cruise", "near"} => axis[a] = axis'[a] /\ a \in cruise'
          /\ axis'["dec"] = "rate" => axis["dec"] = "rate"
      <4>1. /\ axis' = [a \in Axis |-> IF a \in hop THEN "goto"
                                       ELSE IF a \in Arrived THEN "still" ELSE axis[a]]
            /\ cruise' = cruise \ Arrived
        BY <3>1 DEF AdvanceCruise, Turns
      <4>2. \A a \in Axis : axis[a] \in {"cruise", "near"} => a \in cruise
        BY DEF Owned
      <4> QED
        BY <1>0, <4>1, <4>2
    <3> QED
      BY <3>2, <3>3
  <2> QED
    BY <2>1, <2>2 DEF Owned, Pulsing
<1>9. CASE JobHalts(c)
  <2>1. PICK f \in [Axis -> Motion] : Halt(f, c)
    BY <1>9, OverrunsHalt DEF JobHalts
  <2>2. pc'[c] = "idle"
    BY <1>9, GoesThere DEF JobHalts, Returns
  <2> QED
    BY <1>0, <2>1, <2>2, HaltOwned DEF Owned
<1>10. CASE Nap(c)
  <2>1. pc[c] = "nap" /\ pc'[c] = "poll" /\ UNCHANGED <<axis, expect, cruise>>
    BY <1>10, GoesThere DEF Nap, Sure
  <2> QED
    BY <2>1 DEF Owned, Pulsing
<1>11. CASE Arrive(c)
  <2>1. /\ pc[c] = "arrive" /\ UNCHANGED <<axis, expect>>
        /\ pc'[c] \in {"rate", "idle"} /\ (pc'[c] = "rate" => req'[c] = TrackRequest(req[c]))
    BY <1>11, GoesThere DEF Arrive, Returns
  <2>2. TrackRequest(req[c]).axes = {"ra"}
    BY <1>0 DEF TrackRequest, Request
  <2> QED
    BY <2>1, <2>2 DEF Owned, Pulsing
<1>12. CASE PulseEnds(c)
  <2>1. pc[c] = "sleep" /\ pc'[c] = "rate" /\ req'[c] = Restored(req[c]) /\ UNCHANGED <<axis, expect>>
    BY <1>12, GoesThere DEF PulseEnds
  <2>2. req'[c].axes = req[c].axes /\ req'[c].base = req[c].base /\ req'[c].speed = req[c].base
        /\ req'[c].then = "idle"
    BY <1>0, <2>1 DEF Restored, Request
  <2> QED
    BY <2>1, <2>2 DEF Owned, Pulsing
<1> QED
  BY <1>1, <1>2, <1>3, <1>4, <1>5, <1>6, <1>7, <1>8, <1>9, <1>10, <1>11, <1>12 DEF Continue

\* The watchdog sets nothing turning.
LEMMA WatchOwned ==
  ASSUME TypeOK, NEW c \in Clients, Owned(c), Watch
  PROVE  Owned(c)'
<1> USE DEF hardware, intent, halting, watch, coroutines
<1>0. "dec" \in Axis /\ UNCHANGED <<pc, req>>
  BY DEF Axis, Watch
<1>1. PICK fast \in SUBSET {a \in Axis : MayBeTooFast(a)} : Reading(fast)
  BY DEF Watch
<1>2. CASE \E a \in Axis : Wrong(a, fast)
  <2>1. axis \in [Axis -> Motion] /\ Halt(axis, Watchdog)
    BY <1>1, <1>2 DEF Reading, TypeOK
  <2> QED
    BY <1>0, <2>1, HaltOwned DEF Owned
<1>3. CASE ~\E a \in Axis : Wrong(a, fast)
  <2>1. axis' = Settled /\ UNCHANGED cruise /\ (expect'["dec"] = "pulse" => expect["dec"] = "pulse")
    BY <1>0, <1>1, <1>3 DEF Reading
  <2>2. \A a \in Axis : axis'[a] \in {"cruise", "near", "rate"} => axis[a] = axis'[a]
    BY <2>1 DEF Settled
  <2> QED
    BY <1>0, <2>1, <2>2 DEF Owned, Pulsing
<1> QED
  BY <1>2, <1>3

\* Nor do the motors by themselves make a cruise or a pulse.
LEMMA MotorOwned ==
  ASSUME TypeOK, NEW c \in Clients, Owned(c), NEW a \in Axis, Physics(a) \/ BreaksDown(a)
  PROVE  Owned(c)'
<1> USE DEF hardware, intent, halting, watch, coroutines
<1>1. UNCHANGED <<cruise, expect, pc, req>>
  BY DEF Physics, GotoEnds, CoastEnds, Nears, GoesBeyond, BreaksDown
<1>2. CASE Nears(a)
  <2>1. axis' = [axis EXCEPT ![a] = "near"] /\ axis[a] = "cruise"
    BY <1>2 DEF Nears
  <2> QED
    BY <1>1, <2>1 DEF Owned, Pulsing, TypeOK
<1>3. CASE ~Nears(a)
  <2>1. \A b \in Axis : axis'[b] = axis[b] \/ axis'[b] \in {"still", "runaway", "beyond"}
    BY <1>3 DEF Physics, GotoEnds, CoastEnds, GoesBeyond, BreaksDown, Turns, TypeOK
  <2> QED
    BY <1>1, <2>1 DEF Owned, Pulsing, Axis
<1> QED
  BY <1>2, <1>3

\* With no failure, no cancellation and no late slew, nobody leaves a move to itself.
LEMMA StepOwned ==
  ASSUME Sure, NEW c, Clients = {c}
  PROVE  TypeOK /\ orphans = {} /\ Owned(c) /\ [Next]_vars => orphans' = {} /\ Owned(c)'
<1> SUFFICES ASSUME TypeOK, orphans = {}, Owned(c), [Next]_vars PROVE orphans' = {} /\ Owned(c)'
  OBVIOUS
<1>1. c \in Clients /\ ~BadLine /\ ~Cancellations
  BY DEF Sure
<1>2. CASE UNCHANGED vars
  BY <1>2 DEF vars, hardware, intent, coroutines, Owned, Pulsing
<1>3. CASE Call(c)
  <2>1. orphans' = orphans
    BY <1>3 DEF Call, SlewTo, MoveBy, Park, Unpark, WaitForSlew, AbortSlew, SetTracking,
      SetHome, SetRaRateOffset, StepDec, PulseGuide, ClearFault, coroutines
  <2> QED
    BY <1>1, <1>3, <2>1, CallOwned
<1>4. CASE Continue(c)
  <2>1. orphans' = orphans
    BY <1>4 DEF Continue, Aim, StartMove, SetRate, Stepped, Aborted, HomeSet,
        FaultChecked, Poll, JobHalts, Nap, Arrive, PulseEnds
  <2> QED
    BY <1>1, <1>4, <2>1, ContinueOwned
<1>5. ~JobFails(c) /\ ~Cancel(c)
  BY <1>1 DEF JobFails, Cancel
<1>6. CASE WatchWakes
  BY <1>6 DEF WatchWakes, hardware, intent, Owned, Pulsing
<1>7. CASE Watch
  BY <1>1, <1>7, WatchOwned DEF Watch
<1>8. ASSUME NEW a \in Axis, Physics(a) \/ BreaksDown(a) PROVE orphans' = {} /\ Owned(c)'
  <2>1. orphans' = orphans
    BY <1>8 DEF Physics, GotoEnds, CoastEnds, Nears, GoesBeyond, BreaksDown, coroutines
  <2> QED
    BY <1>1, <1>8, <2>1, MotorOwned
<1> QED
  BY <1>2, <1>3, <1>4, <1>5, <1>6, <1>7, <1>8 DEF Next

\* So every state has an owner for what moves.
LEMMA OwnInvariant ==
  ASSUME Sure, Alone
  PROVE  Spec => [](TypeOK /\ OwnInv)
<1>1. Init => TypeOK /\ OwnInv
  <2> SUFFICES ASSUME Init PROVE OwnInv
    BY InitTypes
  <2>1. orphans = {} /\ \A c \in Clients : pc[c] = "idle"
    BY DEF Init
  <2>2. \A a \in Axis : axis[a] = "still" /\ expect[a] = "none"
    BY DEF Init, AnyOf
  <2> QED
    BY <2>1, <2>2 DEF OwnInv, Owned, Axis
<1>2. TypeOK /\ OwnInv /\ [Next]_vars => TypeOK' /\ OwnInv'
  <2> SUFFICES ASSUME TypeOK, OwnInv, [Next]_vars PROVE OwnInv'
    BY StepTypes
  <2>1. PICK c : Clients = {c}
    BY DEF Alone
  <2>2. orphans' = {} /\ Owned(c)'
    BY <2>1, StepOwned DEF OwnInv
  <2>3. \A d \in Clients : d = c
    BY <2>1
  <2> QED
    BY <2>2, <2>3 DEF OwnInv
<1> QED
  BY <1>1, <1>2, PTL DEF Spec

\* _start_cruise and _expect: with one client that waits for its slews and on which
\* nothing fails, whatever the axes do by themselves, a cruise is one that
\* wait_for_slew knows to stop, and a pulse on declination has a coroutine in it.
THEOREM MotionIsOwned ==
  ASSUME Alone, Sure
  PROVE  Spec => []MotionHasAnOwner
<1>1. TypeOK /\ OwnInv => MotionHasAnOwner
  BY DEF Alone, OwnInv, Owned, MotionHasAnOwner
<1> QED
  BY <1>1, OwnInvariant, PTL

\* wait_for_slew: with the same client, on axes that do as they are told, no cruise
\* runs past its target to where no move could take an axis.
THEOREM TravelIsKept ==
  ASSUME Alone, Sure, Unreliable = {}
  PROVE  Spec => []MovesStayInTravel
<1> DEFINE Sound == \A a \in Axis : axis[a] \notin Deaf
<1>1. Init => Sound
  BY DEF Init, AnyOf, Deaf
<1>2. TypeOK /\ OwnInv /\ Sound /\ [Next]_vars => Sound'
  <2> SUFFICES ASSUME TypeOK, OwnInv, Sound, [Next]_vars PROVE Sound'
    OBVIOUS
  <2> USE DEF hardware, intent, halting, watch, coroutines
  <2>1. PICK c : Clients = {c}
    BY DEF Alone
  <2>2. orphans = {} /\ Owned(c) /\ ~BadLine /\ ~Cancellations
    BY <2>1 DEF OwnInv, Sure
  <2>3. ASSUME NEW j \in Job, NEW who PROVE ~Overruns(j, who)
    BY DEF Overruns, Job, TypeOK
  <2>4. CASE UNCHANGED vars
    BY <2>4 DEF vars
  <2>5. CASE Call(c)
    BY <2>5 DEF Call, SlewTo, MoveBy, Park, Unpark, WaitForSlew, AbortSlew, SetTracking,
      SetHome, SetRaRateOffset, StepDec, PulseGuide, ClearFault
  <2>6. CASE Continue(c)
    <3>1. CASE Aim(c) \/ FaultChecked(c) \/ Nap(c) \/ Arrive(c) \/ PulseEnds(c)
      BY <3>1 DEF Aim, FaultChecked, Nap, Arrive, PulseEnds
    <3>2. CASE StartMove(c)
      <4>1. StartGoto(JobOf(c))
        BY <3>2 DEF StartMove, Does, JobOf
      <4> QED
        BY <4>1 DEF StartGoto, Turns, Deaf
    <3>3. CASE SetRate(c)
      <4>1. SetAxisRate(JobOf(c)) /\ JobOf(c).speed \in Speed
        BY <2>1, <3>3 DEF SetRate, JobOf, TypeOK, Request
      <4> DEFINE j == JobOf(c)
      <4> HIDE DEF j
      <4>2. \A a \in Axis : axis'[a] \in {axis[a], "coast", j.speed}
        <5>1. CASE j.speed = "still"
          BY <4>1, <5>1 DEF SetAxisRate, Turns, j
        <5>2. CASE j.speed # "still"
          BY <4>1, <5>2 DEF SetAxisRate, Turns, j
        <5> QED
          BY <5>1, <5>2
      <4> QED
        BY <4>1, <4>2 DEF Speed, Deaf, j
    <3>4. CASE Stepped(c) \/ Aborted(c) \/ HomeSet(c)
      BY <3>4 DEF Stepped, StepAxis, Aborted, StopBoth, HomeSet, ZeroCounters, Turns, AnyOf, Deaf,
        TypeOK
    <3>5. CASE Poll(c)
      <4>1. PICK hop : AdvanceCruise(hop)
        BY <3>5 DEF Poll
      <4> QED
        BY <4>1 DEF AdvanceCruise, Turns, Deaf
    <3>6. ~JobHalts(c)
      BY <2>1, <2>3, JobTyped DEF JobHalts
    <3> QED
      BY <2>6, <3>1, <3>2, <3>3, <3>4, <3>5, <3>6 DEF Continue
  <2>7. ~JobFails(c) /\ ~Cancel(c)
    BY <2>2 DEF JobFails, Cancel
  <2>8. CASE WatchWakes
    BY <2>8 DEF WatchWakes
  <2>9. CASE Watch
    <3>1. axis' = Settled \/ \E who : Halt(axis, who)
      BY <2>9 DEF Watch, Reading
    <3> QED
      BY <3>1 DEF Settled, Halt, Turns, Deaf
  <2>10. ASSUME NEW a \in Axis, Physics(a) \/ BreaksDown(a) PROVE Sound'
    <3>1. ~GoesBeyond(a) /\ ~BreaksDown(a)
      BY <2>1, <2>2, <2>10 DEF GoesBeyond, BreaksDown, Owned, Deaf
    <3>2. \A b \in Axis : axis'[b] = axis[b] \/ axis'[b] \in {"still", "near"}
      BY <2>10, <3>1 DEF Physics, GotoEnds, CoastEnds, Nears, TypeOK
    <3> QED
      BY <3>2 DEF Deaf
  <2> QED
    BY <2>1, <2>2, <2>4, <2>5, <2>6, <2>7, <2>8, <2>9, <2>10 DEF Next
<1>3. Sound => MovesStayInTravel
  BY DEF MovesStayInTravel, Deaf
<1> QED
  BY <1>1, <1>2, <1>3, OwnInvariant, PTL DEF Spec

-----------------------------------------------------------------------------
(* A mount that guides is not halted                                       *)

\* The commands of the guide loop and of what may be asked for beside it, on axes that
\* do as they are told.  Of the coroutines nothing is assumed: there may be any number
\* of them, cancelled or refused at any await.
Guiding ==
  /\ Ops \subseteq {"track_on", "set_ra_rate_offset", "step_dec", "abort_slew",
                    "wait_for_slew", "unpark", "clear_fault"}
  /\ Unreliable = {}

\* Then nothing turns that the watchdog does not allow, and no strike is counted ...
Turning(f, moved, on) ==
  /\ f["ra"] = "still" \/ (f["ra"] = "track" /\ on)
  /\ f["dec"] = "still"
  /\ \A a \in Axis : ~moved[a]
Explained ==
  /\ ~fault
  /\ Turning(axis, jumped, tracking)
  /\ \A a \in Axis : strikes[a] = 0 /\ expect[a] \in {"none", "step"}
  /\ expect["ra"] = "none"
  /\ cruise = {} /\ ~trackOnArrival

\* ... because every coroutine, and every thread left behind, that will set a rate
\* sets tracking, which is on.
MayDo(kind, j, on) ==
  /\ kind \in {"rate", "step", "stop", "poll"}
  /\ kind = "rate" => on /\ j.axes = {"ra"} /\ j.speed = "track"
Waits(p, r, on) ==
  \/ p \in {"idle", "nap", "arrive", "check"}
  \/ MayDo(p, r, on) /\ (p = "rate" => r.then = "idle")

GuidingInv ==
  /\ Explained
  /\ \A c \in Clients : Waits(pc[c], req[c], tracking) /\ ~req[c].parks
  /\ \A j \in orphans : MayDo(j.kind, j, tracking)

\* Where everybody is, when one coroutine goes on and tracking stays on if it was.
LEMMA GuidedPlaces ==
  ASSUME TypeOK, GuidingInv, NEW c \in Clients, NEW p, NEW r, Goes(c, p, r),
         tracking => tracking', Waits(p, r, tracking'), ~r.parks,
         \A j \in orphans' : j \in orphans \/ MayDo(j.kind, j, tracking)
  PROVE  /\ \A d \in Clients : Waits(pc'[d], req'[d], tracking') /\ ~req'[d].parks
         /\ \A j \in orphans' : MayDo(j.kind, j, tracking')
<1>1. /\ pc'[c] = p /\ req'[c] = r
      /\ \A d \in Clients : d # c => pc'[d] = pc[d] /\ req'[d] = req[d]
  BY DEF Goes, TypeOK
<1>2. ASSUME NEW d \in Clients
      PROVE  Waits(pc'[d], req'[d], tracking') /\ ~req'[d].parks
  BY <1>1 DEF GuidingInv, Waits, MayDo
<1> QED
  BY <1>2 DEF GuidingInv, MayDo

\* What a thread does when nothing cruises and nothing is out of control.
LEMMA GuidedJob ==
  ASSUME TypeOK, Explained, NEW j,
         \/ j.axes = {"ra"} /\ j.speed = "track" /\ tracking /\ SetAxisRate(j)
         \/ StepAxis
         \/ StopBoth
         \/ \E hop \in SUBSET Arrived : AdvanceCruise(hop)
  PROVE  Turning(axis', jumped', tracking) /\ cruise' = {}
<1>1. /\ axis \in [Axis -> Motion] /\ jumped \in [Axis -> BOOLEAN] /\ cruise = {}
      /\ "ra" \in Axis /\ "dec" \in Axis /\ Axis = {"ra", "dec"} /\ Turning(axis, jumped, tracking)
      /\ \A a \in Axis : axis[a] \notin Deaf
  BY DEF TypeOK, Explained, Turning, Axis, Deaf
<1>2. CASE j.axes = {"ra"} /\ j.speed = "track" /\ tracking /\ SetAxisRate(j)
  <2>1. cruise' = cruise /\ Turns([a \in Axis |-> IF a \in {"ra"} THEN "track" ELSE axis[a]])
    BY <1>1, <1>2 DEF SetAxisRate
  <2> QED
    BY <1>1, <1>2, <2>1 DEF Turns, Turning, Fast
<1>3. CASE StepAxis
  BY <1>1, <1>3 DEF StepAxis, Turns, Turning, Fast
<1>4. CASE StopBoth
  BY <1>1, <1>4 DEF StopBoth, Turns, Turning, Fast, AnyOf
<1>5. ASSUME NEW hop \in SUBSET Arrived, AdvanceCruise(hop)
      PROVE  Turning(axis', jumped', tracking) /\ cruise' = {}
  <2>1. Arrived = {} /\ hop = {}
    BY <1>1 DEF Arrived
  <2>2. cruise' = {} /\ Turns([a \in Axis |-> axis[a]])
    BY <1>1, <1>5, <2>1 DEF AdvanceCruise
  <2> QED
    BY <1>1, <2>2 DEF Turns, Turning, Fast
<1> QED
  BY <1>2, <1>3, <1>4, <1>5

\* No thread fails to stop an axis.
LEMMA NothingOverruns ==
  ASSUME TypeOK, Unreliable = {}, Explained, NEW j \in Job, NEW who
  PROVE  ~Overruns(j, who)
<1>1. cruise = {} /\ \A a \in Axis : axis[a] \notin Deaf
  BY DEF Explained, Turning, Axis, Deaf
<1>2. j.axes \subseteq Axis
  BY DEF Job
<1> QED
  BY <1>1, <1>2 DEF Overruns

\* A call turns tracking on, or expects a step, and waits for the lock or the slew.
LEMMA CallGuided ==
  ASSUME Guiding, TypeOK, GuidingInv, NEW c \in Clients, Call(c)
  PROVE  GuidingInv'
<1> USE DEF hardware, intent, halting, watch, coroutines
<1>1. ~NoRequest.parks
  BY DEF NoRequest
<1>2. CASE SetTracking(c)
  <2>1. /\ tracking' = TRUE /\ Goes(c, "rate", TrackRequest(NoRequest))
        /\ UNCHANGED <<hardware, expect, cruise, trackOnArrival, halting, watch, orphans>>
    BY <1>2 DEF SetTracking, Calls, Guiding
  <2>2. Waits("rate", TrackRequest(NoRequest), tracking') /\ ~TrackRequest(NoRequest).parks
    BY <2>1 DEF Waits, MayDo, TrackRequest, NoRequest
  <2>3. Explained'
    BY <2>1 DEF Explained, Turning, GuidingInv
  <2> QED
    BY <2>1, <2>2, <2>3, GuidedPlaces DEF GuidingInv
<1>3. CASE SetRaRateOffset(c)
  <2>1. tracking /\ Goes(c, "rate", TrackRequest(NoRequest)) /\ UNCHANGED <<hardware, intent, halting, watch, orphans>>
    BY <1>3 DEF SetRaRateOffset
  <2>2. Waits("rate", TrackRequest(NoRequest), tracking') /\ ~TrackRequest(NoRequest).parks
    BY <2>1 DEF Waits, MayDo, TrackRequest, NoRequest
  <2>3. Explained'
    BY <2>1 DEF Explained, Turning, GuidingInv
  <2> QED
    BY <2>1, <2>2, <2>3, GuidedPlaces DEF GuidingInv
<1>4. CASE StepDec(c)
  <2> DEFINE r == [NoRequest EXCEPT !.axes = {"dec"}]
  <2>1. /\ expect' = [expect EXCEPT !["dec"] = "step"] /\ Goes(c, "step", r)
        /\ UNCHANGED <<hardware, cruise, tracking, trackOnArrival, halting, watch, orphans>>
    BY <1>4 DEF StepDec
  <2>2. Waits("step", r, tracking') /\ ~r.parks
    BY DEF Waits, MayDo, NoRequest
  <2>3. Explained'
    BY <2>1 DEF Explained, Turning, GuidingInv, TypeOK, Axis
  <2> HIDE DEF r
  <2> QED
    BY <2>1, <2>2, <2>3, GuidedPlaces DEF GuidingInv
<1>5. CASE AbortSlew(c)
  <2> DEFINE r == [NoRequest EXCEPT !.axes = Axis]
  <2>1. /\ cruise' = {} /\ Goes(c, "stop", r)
        /\ UNCHANGED <<hardware, expect, tracking, trackOnArrival, halting, watch, orphans>>
    BY <1>5 DEF AbortSlew
  <2>2. Waits("stop", r, tracking') /\ ~r.parks
    BY DEF Waits, MayDo, NoRequest
  <2>3. Explained'
    BY <2>1 DEF Explained, Turning, GuidingInv
  <2> HIDE DEF r
  <2> QED
    BY <2>1, <2>2, <2>3, GuidedPlaces DEF GuidingInv
<1>6. CASE WaitForSlew(c) \/ ClearFault(c)
  <2>1. PICK p \in {"nap", "check"} : Goes(c, p, NoRequest)
    BY <1>6 DEF WaitForSlew, ClearFault
  <2>2. UNCHANGED <<hardware, intent, halting, watch, orphans>>
    BY <1>6 DEF WaitForSlew, ClearFault
  <2>3. Waits(p, NoRequest, tracking')
    BY DEF Waits
  <2>4. Explained'
    BY <2>2 DEF Explained, Turning, GuidingInv
  <2> QED
    BY <1>1, <2>1, <2>2, <2>3, <2>4, GuidedPlaces DEF GuidingInv
<1>7. CASE Unpark(c)
  BY <1>7 DEF Unpark, GuidingInv, Explained, Turning
<1>8. ~SlewTo(c) /\ ~MoveBy(c) /\ ~Park(c) /\ ~SetHome(c) /\ ~PulseGuide(c)
  BY DEF SlewTo, MoveBy, Park, SetHome, PulseGuide, Calls, Guiding
<1> QED
  BY <1>2, <1>3, <1>4, <1>5, <1>6, <1>7, <1>8 DEF Call

\* A coroutine that goes on does what it came for, and no more.
LEMMA ContinueGuided ==
  ASSUME Guiding, TypeOK, GuidingInv, NEW c \in Clients, Continue(c)
  PROVE  GuidingInv'
<1> USE DEF hardware, intent, halting, watch, coroutines
<1>1. /\ Explained /\ Waits(pc[c], req[c], tracking) /\ req[c] \in Request /\ ~req[c].parks
      /\ ~NoRequest.parks /\ Unreliable = {} /\ "ra" \in Axis /\ "dec" \in Axis
  BY DEF GuidingInv, TypeOK, NoRequest, Guiding, Axis
<1>2. Waits("idle", NoRequest, tracking) /\ \A p \in {"nap", "arrive"} : Waits(p, req[c], tracking)
  BY DEF Waits
<1>3. tracking => Waits("rate", TrackRequest(req[c]), tracking) /\ ~TrackRequest(req[c]).parks
  BY <1>1 DEF Waits, MayDo, TrackRequest, Request
<1>4. CASE SetRate(c)
  <2>1. tracking /\ req[c].axes = {"ra"} /\ req[c].speed = "track" /\ req[c].then = "idle"
    BY <1>1, <1>4 DEF SetRate, Waits, MayDo
  <2>2. /\ SetAxisRate(JobOf(c)) /\ expect' = expect /\ Returns(c)
        /\ UNCHANGED <<tracking, trackOnArrival, halting, watch, orphans>>
    BY <1>4, <2>1 DEF SetRate
  <2>3. Turning(axis', jumped', tracking) /\ cruise' = {}
    BY <1>1, <2>1, <2>2, GuidedJob DEF JobOf
  <2>4. Explained'
    BY <1>1, <2>2, <2>3 DEF Explained
  <2> QED
    BY <1>1, <1>2, <2>2, <2>4, GuidedPlaces DEF GuidingInv, Returns
<1>5. CASE Stepped(c)
  <2>1. /\ StepAxis /\ expect' = [expect EXCEPT !["dec"] = "none"] /\ Returns(c)
        /\ UNCHANGED <<tracking, trackOnArrival, halting, watch, orphans>>
    BY <1>5 DEF Stepped
  <2>2. Turning(axis', jumped', tracking) /\ cruise' = {}
    BY <1>1, <2>1, GuidedJob
  <2>3. Explained'
    BY <1>1, <2>1, <2>2 DEF Explained, TypeOK, Axis
  <2> QED
    BY <1>1, <1>2, <2>1, <2>3, GuidedPlaces DEF GuidingInv, Returns
<1>6. CASE Aborted(c)
  <2>1. /\ StopBoth /\ expect' = AnyOf("none") /\ trackOnArrival' = FALSE
        /\ UNCHANGED <<tracking, halting, watch, orphans>>
        /\ IF tracking THEN Goes(c, "rate", TrackRequest(req[c])) ELSE Goes(c, "idle", NoRequest)
    BY <1>6 DEF Aborted, Returns
  <2>2. Turning(axis', jumped', tracking) /\ cruise' = {}
    BY <1>1, <2>1, GuidedJob
  <2>3. Explained'
    BY <1>1, <2>1, <2>2 DEF Explained, AnyOf
  <2>4. CASE tracking
    BY <1>1, <1>3, <2>1, <2>3, <2>4, GuidedPlaces DEF GuidingInv
  <2>5. CASE ~tracking
    BY <1>1, <1>2, <2>1, <2>3, <2>5, GuidedPlaces DEF GuidingInv
  <2> QED
    BY <2>4, <2>5
<1>7. CASE FaultChecked(c)
  <2>1. /\ fault' = FALSE /\ (UNCHANGED strikes \/ strikes' = AnyOf(0)) /\ Returns(c)
        /\ UNCHANGED <<hardware, intent, orphans>>
    BY <1>1, <1>7 DEF FaultChecked, Explained
  <2>2. Explained'
    BY <1>1, <2>1 DEF Explained, AnyOf
  <2> QED
    BY <1>1, <1>2, <2>1, <2>2, GuidedPlaces DEF GuidingInv, Returns
<1>8. CASE Poll(c)
  <2>1. PICK hop \in SUBSET Arrived :
          /\ AdvanceCruise(hop)
          /\ \A a \in Axis : expect'[a] \in {expect[a], "none"} \/ a \in hop
          /\ Goes(c, IF MoveOver THEN "arrive" ELSE "nap", req[c])
    BY <1>8 DEF Poll
  <2>2. Arrived = {} /\ UNCHANGED <<tracking, trackOnArrival, halting, watch, orphans>>
    BY <1>1, <1>8 DEF Poll, Arrived, Explained
  <2>3. Turning(axis', jumped', tracking) /\ cruise' = {}
    BY <1>1, <2>1, GuidedJob
  <2>4. Explained'
    BY <1>1, <2>1, <2>2, <2>3 DEF Explained
  <2>5. PICK p \in {"nap", "arrive"} : Goes(c, p, req[c])
    BY <2>1
  <2> QED
    BY <1>1, <1>2, <2>2, <2>4, <2>5, GuidedPlaces DEF GuidingInv
<1>9. CASE Nap(c)
  <2>1. Goes(c, "poll", req[c]) \/ Goes(c, "idle", NoRequest)
    BY <1>9 DEF Nap, Returns
  <2>2. UNCHANGED <<hardware, intent, halting, watch, orphans>>
    BY <1>9 DEF Nap
  <2>3. Explained'
    BY <1>1, <2>2 DEF Explained
  <2>4. Waits("poll", req[c], tracking)
    BY DEF Waits, MayDo
  <2> QED
    BY <1>1, <1>2, <2>1, <2>2, <2>3, <2>4, GuidedPlaces DEF GuidingInv
<1>10. CASE Arrive(c)
  <2>1. /\ tracking' = tracking /\ trackOnArrival' = FALSE
        /\ UNCHANGED <<hardware, expect, cruise, halting, watch, orphans>>
        /\ IF tracking THEN Goes(c, "rate", TrackRequest(req[c])) ELSE Goes(c, "idle", NoRequest)
    BY <1>1, <1>10 DEF Arrive, Returns, Explained, TypeOK
  <2>2. Explained'
    BY <1>1, <2>1 DEF Explained
  <2>3. CASE tracking
    BY <1>1, <1>3, <2>1, <2>2, <2>3, GuidedPlaces DEF GuidingInv
  <2>4. CASE ~tracking
    BY <1>1, <1>2, <2>1, <2>2, <2>4, GuidedPlaces DEF GuidingInv
  <2> QED
    BY <2>3, <2>4
<1>11. ~JobHalts(c)
  BY <1>1, JobTyped, NothingOverruns DEF JobHalts
<1>12. ~Aim(c) /\ ~StartMove(c) /\ ~HomeSet(c) /\ ~PulseEnds(c)
  BY <1>1 DEF Aim, StartMove, HomeSet, PulseEnds, Waits, MayDo
<1> QED
  BY <1>4, <1>5, <1>6, <1>7, <1>8, <1>9, <1>10, <1>11, <1>12 DEF Continue

\* A command that is refused, or cancelled, is not expected any more; its thread, if it
\* has one, is like the others.
LEMMA FailureGuided ==
  ASSUME Guiding, TypeOK, GuidingInv, NEW c \in Clients, JobFails(c) \/ Cancel(c)
  PROVE  GuidingInv'
<1> USE DEF hardware, intent, halting, watch, coroutines
<1>1. /\ Explained /\ Waits(pc[c], req[c], tracking) /\ req[c] \in Request
      /\ ~NoRequest.parks /\ "ra" \in Axis /\ "dec" \in Axis
  BY DEF GuidingInv, TypeOK, NoRequest, Axis
<1>2. /\ Goes(c, "idle", NoRequest)
      /\ expect' = expect \/ expect' = [expect EXCEPT !["dec"] = "none"]
      /\ UNCHANGED <<hardware, cruise, tracking, trackOnArrival, halting, watch>>
  BY DEF JobFails, Cancel, Unwinds, Returns
<1>3. Explained'
  BY <1>1, <1>2 DEF Explained, TypeOK, Axis
<1>4. Waits("idle", NoRequest, tracking)
  BY DEF Waits
<1>5. \A j \in orphans' : j \in orphans \/ MayDo(j.kind, j, tracking)
  <2>1. CASE orphans' = orphans
    BY <2>1
  <2>2. CASE orphans' = orphans \cup {JobOf(c)} /\ pc[c] \in Locked \ {"aim", "check"}
    <3>1. MayDo(JobOf(c).kind, JobOf(c), tracking)
      BY <1>1, <2>2 DEF Waits, MayDo, JobOf, Locked
    <3> QED
      BY <2>2, <3>1
  <2> QED
    BY <2>1, <2>2 DEF JobFails, Cancel
<1> QED
  BY <1>1, <1>2, <1>3, <1>4, <1>5, GuidedPlaces DEF GuidingInv

\* So is what a thread does that was left behind.
LEMMA OrphanGuided ==
  ASSUME Guiding, TypeOK, GuidingInv, NEW j \in orphans, OrphanFinishes(j)
  PROVE  GuidingInv'
<1> USE DEF hardware, intent, halting, watch, coroutines
<1>1. /\ Explained /\ MayDo(j.kind, j, tracking) /\ j \in Job /\ Unreliable = {}
      /\ orphans' \subseteq orphans /\ UNCHANGED <<pc, req, strikes>>
  BY DEF GuidingInv, TypeOK, Guiding, OrphanFinishes
<1>2. Does(j) /\ UNCHANGED <<tracking, trackOnArrival, halting>>
  BY <1>1, NothingOverruns DEF OrphanFinishes
<1>3. \/ j.axes = {"ra"} /\ j.speed = "track" /\ tracking /\ SetAxisRate(j)
      \/ StepAxis
      \/ StopBoth
      \/ \E hop \in SUBSET Arrived : AdvanceCruise(hop)
  BY <1>1, <1>2 DEF Does, MayDo
<1>4. Turning(axis', jumped', tracking) /\ cruise' = {}
  BY <1>1, <1>3, GuidedJob
<1>5. \A a \in Axis : expect'[a] = expect[a]
  <2>1. Arrived = {}
    BY <1>1 DEF Arrived, Explained
  <2> QED
    BY <1>1, <1>2, <2>1 DEF Does, MayDo
<1>6. Explained'
  BY <1>1, <1>2, <1>4, <1>5 DEF Explained, Axis
<1> QED
  BY <1>1, <1>2, <1>6 DEF GuidingInv

\* The watchdog finds nothing wrong, and counts nothing.
LEMMA WatchGuided ==
  ASSUME TypeOK, GuidingInv, Watch
  PROVE  GuidingInv'
<1> USE DEF hardware, intent, halting, watch, coroutines
<1>1. Explained /\ Axis = {"ra", "dec"} /\ axis \in [Axis -> Motion] /\ \A a \in Axis : ~jumped[a]
  BY DEF GuidingInv, TypeOK, Explained, Turning, Axis
<1>2. PICK fast \in SUBSET {a \in Axis : MayBeTooFast(a)} : Reading(fast)
  BY DEF Watch
<1>3. fast = {}
  BY <1>1, <1>2 DEF MayBeTooFast
<1>4. \A a \in Axis : ~Wrong(a, fast) /\ Strikes(a, fast) = 0
  <2>1. ~Wrong("dec", fast) /\ Strikes("dec", fast) = 0
    BY <1>1, <1>3 DEF Wrong, Strikes, Explained, Turning
  <2>2. CASE axis["ra"] = "still"
    BY <1>1, <1>3, <2>1, <2>2 DEF Wrong, Strikes, Explained, Turning
  <2>3. CASE axis["ra"] = "track" /\ tracking
    <3>1. expect["ra"] = "none" /\ Allowed("ra")
      BY <1>1, <2>3 DEF Allowed, Explained, ConstantRate, Motion
    <3> QED
      BY <1>1, <1>3, <2>1, <2>3, <3>1 DEF Wrong, Strikes
  <2> QED
    BY <1>1, <2>1, <2>2, <2>3 DEF Explained, Turning
<1>5. /\ \A a \in Axis : strikes'[a] = 0
      /\ axis' = Settled /\ jumped' = [a \in Axis |-> Settled[a] \in Fast]
      /\ \A a \in Axis : expect'[a] \in {expect[a], "none"}
      /\ UNCHANGED <<cruise, tracking, trackOnArrival, halting>>
  BY <1>1, <1>2, <1>4 DEF Reading, Explained
<1>6. Turning(axis', jumped', tracking)
  BY <1>1, <1>5 DEF Settled, Turning, Explained, Fast
<1>7. Explained'
  BY <1>1, <1>5, <1>6 DEF Explained
<1> QED
  BY <1>5, <1>7 DEF GuidingInv, Watch

LEMMA StepGuided ==
  ASSUME Guiding, TypeOK, GuidingInv, [Next]_vars
  PROVE  GuidingInv'
<1> USE DEF hardware, intent, halting, watch, coroutines
<1>1. CASE UNCHANGED vars
  BY <1>1 DEF vars, GuidingInv, Explained
<1>2. CASE WatchWakes
  BY <1>2 DEF WatchWakes, GuidingInv, Explained
<1>3. ASSUME NEW a \in Axis, Physics(a) \/ BreaksDown(a) PROVE FALSE
  <2>1. axis[a] \in {"still", "track"} /\ a \notin Unreliable
    BY <1>3 DEF GuidingInv, Explained, Turning, Axis, Guiding
  <2> QED
    BY <1>3, <2>1 DEF Physics, BreaksDown, GotoEnds, CoastEnds, Nears, GoesBeyond
<1> QED
  BY <1>1, <1>2, <1>3, CallGuided, ContinueGuided, FailureGuided, OrphanGuided, WatchGuided DEF Next

\* _judge: "an axis turns with no move of ours under way".  As long as nothing is asked of
\* the mount but what guiding asks - tracking, an offset to its rate, steps of the
\* declination, a stop - by however many coroutines, whatever is refused or cancelled
\* under them, the watchdog never halts it, and nothing else does.
THEOREM GuidingIsNotHalted ==
  ASSUME Guiding
  PROVE  Spec => [](~fault)
<1>1. Init => GuidingInv
  BY DEF Init, GuidingInv, Explained, Turning, AnyOf, Axis, Waits, NoRequest
<1>2. GuidingInv => ~fault
  BY DEF GuidingInv, Explained
<1>3. TypeOK /\ GuidingInv /\ [Next]_vars => GuidingInv'
  BY StepGuided
<1> QED
  BY <1>1, <1>2, <1>3, TypeSafety, PTL DEF Spec

\* So no halt is for anything but a runaway.
COROLLARY GuidingHaltsOnlyForRunaways ==
  ASSUME Guiding
  PROVE  Spec => HaltsOnlyForRunaways
<1>1. ~fault /\ (~fault)' => [~fault /\ fault' => \E a \in Axis : axis[a] \in Deaf]_vars
  OBVIOUS
<1> QED
  BY <1>1, GuidingIsNotHalted, PTL DEF HaltsOnlyForRunaways

-----------------------------------------------------------------------------
(* A parked mount is at home                                               *)

\* A parked mount: both axes at home and nothing driven, and nobody who would move them.
Standing == \A a \in Axis : pos[a] = "home" /\ axis[a] \in {"still", "coast"}
StaysHome(c) ==
  /\ pc[c] \notin {"aim", "step", "sleep"}
  /\ pc[c] = "rate" => req[c].speed = "still" /\ req[c].then # "sleep"
  /\ pc[c] = "start" => req[c].homing

\* While park waits: each axis is at home, or on its way there with its cruise or its
\* goto expected, so that the watchdog lets it.
HomeBound ==
  \A a \in Axis :
    \/ axis[a] = "still" /\ pos[a] = "home" /\ a \notin cruise
    \/ axis[a] \in {"cruise", "near"} /\ pos[a] = "homing" /\ a \in cruise /\ expect[a] = "cruise"
    \/ axis[a] = "goto" /\ pos[a] = "homing" /\ a \notin cruise /\ expect[a] = "goto"

\* What park knows, from its call to its end.
Parking(c) ==
  /\ ~tracking /\ ~trackOnArrival
  /\ pc[c] \in {"rate", "start", "nap", "poll", "arrive"}
  /\ pc[c] = "rate" => req[c].then = "start" /\ req[c].speed = "still"
  /\ pc[c] = "start" => req[c].homing /\ req[c].axes = Axis /\ req[c].then = "wait"
  /\ pc[c] \in {"nap", "poll", "arrive"} => HomeBound
  /\ pc[c] = "arrive" => \A a \in Axis : axis[a] = "still"

\* Why ParkedAtHome holds: of the mount while it is parked, of set_home and of park.
AtHome(c) == parked => Standing /\ NothingRemembered /\ StaysHome(c)
Zeroing(c) == pc[c] = "zero" => NothingRemembered
HomeOf(c) == /\ AtHome(c)
             /\ Zeroing(c)
             /\ req[c].parks => Parking(c)
HomeInv == orphans = {} /\ \A c \in Clients : HomeOf(c)

\* A coroutine that returns is parking no longer.
LEMMA ReturnsIdle ==
  ASSUME TypeOK, NEW c \in Clients, Returns(c)
  PROVE  pc'[c] = "idle" /\ ~req'[c].parks
<1>1. NoRequest.parks = FALSE
  BY DEF NoRequest
<1> QED
  BY <1>1, GoesThere DEF Returns

\* A parked mount refuses what would move it, and park asks for a way home.
LEMMA CallHome ==
  ASSUME TypeOK, NEW c \in Clients, HomeOf(c), Call(c)
  PROVE  HomeOf(c)'
<1> USE DEF hardware, intent, halting, watch, coroutines
<1>1. pc[c] = "idle" /\ ~req[c].parks /\ UNCHANGED <<axis, pos>>
  BY DEF HomeOf, Parking, Call, Calls, SlewTo, MoveBy, Park, Unpark, WaitForSlew, AbortSlew,
    SetTracking, SetHome, SetRaRateOffset, StepDec, PulseGuide, ClearFault
<1>2. AtHome(c)
  BY DEF HomeOf
<1>3. ASSUME NEW p, NEW r, Goes(c, p, r), ~parked', p # "zero", r.parks = FALSE
      PROVE  HomeOf(c)'
  BY <1>3, GoesThere DEF HomeOf, AtHome, Zeroing
<1>4. ASSUME NEW p, NEW r, Goes(c, p, r), UNCHANGED <<parked, cruise, trackOnArrival>>,
             ~tracking' \/ UNCHANGED tracking,
             p # "zero", r.parks = FALSE, p \notin {"aim", "step", "sleep", "start"},
             p = "rate" => r.speed = "still" /\ r.then # "sleep"
      PROVE  HomeOf(c)'
  BY <1>1, <1>2, <1>4, GoesThere DEF HomeOf, AtHome, Zeroing, StaysHome, NothingRemembered, Standing
<1>5. NoRequest.parks = FALSE /\ NoRequest.speed = "still" /\ NoRequest.then = "idle"
      /\ [NoRequest EXCEPT !.axes = Axis].parks = FALSE
  BY DEF NoRequest
<1>6. CASE SlewTo(c)
  <2>1. PICK r : /\ Goes(c, "aim", r)
                 /\ \/ r = [NoRequest EXCEPT !.axes = Axis]
                    \/ r = [NoRequest EXCEPT !.axes = Axis, !.then = "wait"]
    BY <1>6 DEF SlewTo
  <2>2. r.parks = FALSE
    BY <2>1 DEF NoRequest
  <2> QED
    BY <1>3, <1>6, <2>1, <2>2 DEF SlewTo, MayMove
<1>7. CASE MoveBy(c)
  <2>1. PICK a \in Axis : Goes(c, "start", [NoRequest EXCEPT !.axes = {a}, !.then = "wait"])
    BY <1>7 DEF MoveBy
  <2>2. [NoRequest EXCEPT !.axes = {a}, !.then = "wait"].parks = FALSE
    BY DEF NoRequest
  <2> QED
    BY <1>3, <1>7, <2>1, <2>2 DEF MoveBy, MayMove
<1>8. CASE Park(c)
  <2>1. Goes(c, "rate", [NoRequest EXCEPT !.axes = {"ra"}, !.parks = TRUE, !.then = "start"])
    BY <1>8 DEF Park
  <2>2. pc'[c] = "rate" /\ req'[c].then = "start" /\ req'[c].speed = "still"
    <3>1. PICK r : /\ Goes(c, "rate", r)
                   /\ r = [NoRequest EXCEPT !.axes = {"ra"}, !.parks = TRUE, !.then = "start"]
      BY <2>1
    <3>2. r.then = "start" /\ r.speed = "still"
      BY <3>1 DEF NoRequest
    <3> QED
      BY <3>1, <3>2, GoesThere
  <2>3. UNCHANGED <<cruise, parked>> /\ ~tracking' /\ ~trackOnArrival'
    BY <1>8 DEF Park
  <2> QED
    BY <1>1, <1>2, <2>2, <2>3 DEF HomeOf, AtHome, Zeroing, StaysHome, Parking,
            NothingRemembered, Standing
<1>9. CASE Unpark(c)
  BY <1>1, <1>9 DEF Unpark, HomeOf, AtHome, Zeroing
<1>10. CASE WaitForSlew(c)
  BY <1>4, <1>5, <1>10 DEF WaitForSlew
<1>11. CASE AbortSlew(c)
  <2>1. pc'[c] = "stop" /\ ~req'[c].parks
    BY <1>5, <1>11, GoesThere DEF AbortSlew
  <2>2. UNCHANGED <<parked, tracking, trackOnArrival>> /\ cruise' = {}
    BY <1>11 DEF AbortSlew
  <2> QED
    BY <1>1, <1>2, <2>1, <2>2 DEF HomeOf, AtHome, Zeroing, StaysHome, NothingRemembered, Standing
<1>12. CASE SetTracking(c)
  <2>1. CASE MayMove /\ Goes(c, "rate", TrackRequest(NoRequest))
    <3>1. TrackRequest(NoRequest).parks = FALSE
      BY DEF TrackRequest, NoRequest
    <3> QED
      BY <1>3, <1>12, <2>1, <3>1 DEF SetTracking, MayMove
  <2>2. CASE tracking' = FALSE /\ Goes(c, "rate", [NoRequest EXCEPT !.axes = {"ra"}])
    <3>1. PICK r : /\ Goes(c, "rate", r)
                   /\ r.parks = FALSE /\ r.speed = "still" /\ r.then = "idle"
      BY <2>2 DEF NoRequest
    <3> QED
      BY <1>4, <1>12, <2>2, <3>1 DEF SetTracking
  <2> QED
    BY <1>12, <2>1, <2>2 DEF SetTracking
<1>13. CASE SetHome(c)
  <2>1. pc'[c] = "zero" /\ ~req'[c].parks
    BY <1>5, <1>13, GoesThere DEF SetHome
  <2>2. UNCHANGED parked /\ NothingRemembered'
    BY <1>13 DEF SetHome, NothingRemembered
  <2> QED
    BY <1>1, <1>2, <2>1, <2>2 DEF HomeOf, AtHome, Zeroing, StaysHome, Standing
<1>14. CASE SetRaRateOffset(c)
  <2>1. TrackRequest(NoRequest).parks = FALSE
    BY DEF TrackRequest, NoRequest
  <2> QED
    BY <1>3, <1>14, <2>1 DEF SetRaRateOffset, MayMove
<1>15. CASE StepDec(c)
  <2>1. PICK r : Goes(c, "step", r) /\ r.parks = FALSE
    BY <1>15 DEF StepDec, NoRequest
  <2> QED
    BY <1>3, <1>15, <2>1 DEF StepDec, MayMove
<1>16. CASE PulseGuide(c)
  <2>1. PICK r : /\ Goes(c, "rate", r)
                 /\ \/ r = [NoRequest EXCEPT
                            !.axes = {"ra"}, !.base = IF tracking THEN "track" ELSE "still",
                            !.then = "sleep", !.speed = IF tracking THEN "track" ELSE "rate"]
                    \/ r = [NoRequest EXCEPT !.axes = {"dec"}, !.speed = "rate", !.then = "sleep"]
    BY <1>16 DEF PulseGuide
  <2>2. r.parks = FALSE
    BY <2>1 DEF NoRequest
  <2> QED
    BY <1>3, <1>16, <2>1, <2>2 DEF PulseGuide, MayMove
<1>17. CASE ClearFault(c)
  BY <1>4, <1>5, <1>17 DEF ClearFault
<1> QED
  BY <1>6, <1>7, <1>8, <1>9, <1>10, <1>11, <1>12, <1>13, <1>14, <1>15, <1>16, <1>17 DEF Call

\* A halt leaves a parked mount where it is.
LEMMA HaltHome ==
  ASSUME TypeOK, NEW f \in [Axis -> Motion], NEW who, Halt(f, who)
  PROVE  /\ NothingRemembered'
         /\ f = axis /\ Standing => Standing'
<1>1. NothingRemembered'
  BY HaltForgets
<1>2. ASSUME f = axis, Standing PROVE Standing'
  BY <1>2 DEF Halt, Turns, Standing, Deaf, Interrupted, TypeOK
<1> QED
  BY <1>1, <1>2

\* What goes on in a parked mount leaves it where it is, and what park does on
\* its way brings each axis nearer home.
LEMMA ContinueHome ==
  ASSUME TypeOK, NEW c \in Clients, HomeOf(c), Continue(c), Unreliable = {}
  PROVE  HomeOf(c)'
<1> USE DEF hardware, intent, halting, watch, coroutines
<1>0. AtHome(c) /\ req[c] \in Request
  BY DEF HomeOf, TypeOK
<1>1. CASE Aim(c)
  <2>1. ~parked /\ ~req[c].parks
    BY <1>1 DEF HomeOf, AtHome, StaysHome, Parking, Aim
  <2>2. pc'[c] \in {"idle", "start"} /\ ~req'[c].parks
    BY <1>1, <2>1, ReturnsIdle, GoesThere DEF Aim
  <2> QED
    BY <1>1, <2>1, <2>2 DEF Aim, HomeOf, AtHome, Zeroing
<1>2. CASE StartMove(c)
  <2>1. StartGoto(JobOf(c)) /\ UNCHANGED <<tracking, trackOnArrival, parked>> /\ pc[c] = "start"
    BY <1>2 DEF StartMove, Does, JobOf
  <2>2. \/ pc'[c] = "nap" /\ req'[c] = req[c] /\ req[c].then = "wait"
        \/ pc'[c] = "idle" /\ ~req'[c].parks
    BY <1>2, ReturnsIdle, GoesThere DEF StartMove
  <2>3. ASSUME parked PROVE Standing' /\ cruise' = {}
    <3>1. JobOf(c).homing /\ Standing
      BY <1>0, <2>1, <2>3 DEF AtHome, StaysHome, JobOf
    <3>2. PICK going : /\ going = {a \in JobOf(c).axes : pos[a] # "home"}
                       /\ going \subseteq JobOf(c).axes
                       /\ Turns([a \in Axis |->
                            IF a \in going THEN IF Cruising THEN "cruise" ELSE "goto"
                            ELSE IF a \in JobOf(c).axes THEN "still" ELSE axis[a]])
                       /\ pos' = [a \in Axis |->
                            IF a \in going THEN IF JobOf(c).homing THEN "homing" ELSE "slewing"
                            ELSE IF a \in JobOf(c).axes /\ ~JobOf(c).homing THEN "there" ELSE pos[a]]
                       /\ cruise' = Cruises(going)
      BY <2>1, <3>1 DEF StartGoto
    <3>3. JobOf(c).axes \subseteq Axis
      BY <1>0 DEF JobOf, Request
    <3>4. going = {}
      BY <3>1, <3>2, <3>3 DEF Standing
    <3> QED
      BY <3>1, <3>2, <3>4 DEF Cruises, Standing, Turns
  <2>4. ASSUME req[c].parks PROVE HomeBound'
    <3>1. JobOf(c).homing /\ JobOf(c).axes = Axis
      BY <2>1, <2>4 DEF HomeOf, Parking, JobOf
    <3>2. PICK going : /\ going = {a \in Axis : pos[a] # "home"}
                       /\ axis' = [a \in Axis |->
                            IF a \in going THEN IF Cruising THEN "cruise" ELSE "goto" ELSE "still"]
                       /\ pos' = [a \in Axis |-> IF a \in going THEN "homing" ELSE pos[a]]
                       /\ cruise' = Cruises(going)
                       /\ expect' = [a \in Axis |->
                            IF a \in going THEN IF Cruising THEN "cruise" ELSE "goto" ELSE expect[a]]
      BY <2>1, <3>1 DEF StartGoto, Turns
    <3> QED
      BY <3>2 DEF HomeBound, Cruises
  <2>5. AtHome(c)'
    BY <1>0, <2>1, <2>2, <2>3 DEF AtHome, StaysHome, NothingRemembered
  <2>6. req'[c].parks => Parking(c)'
    BY <2>1, <2>2, <2>4 DEF HomeOf, Parking
  <2> QED
    BY <2>2, <2>5, <2>6 DEF HomeOf, Zeroing
<1>3. CASE SetRate(c)
  <2>1. /\ pc[c] = "rate" /\ UNCHANGED <<tracking, trackOnArrival, cruise>>
        /\ parked' = (parked \/ (req[c].then = "idle" /\ req[c].parks))
    BY <1>3 DEF SetRate, SetAxisRate
  <2>2. parked' => parked
    BY <1>0, <2>1 DEF HomeOf, Parking, TypeOK
  <2>3. ASSUME parked PROVE Standing'
    <3>1. Standing /\ req[c].speed = "still" /\ cruise = {}
      BY <1>0, <2>1, <2>3 DEF AtHome, StaysHome, NothingRemembered
    <3>2. JobOf(c).speed = "still" /\ SetAxisRate(JobOf(c))
      BY <1>3, <3>1 DEF SetRate, JobOf
    <3> QED
      BY <3>1, <3>2 DEF SetAxisRate, Turns, Standing, Interrupted
  <2>4. \/ pc'[c] = "sleep" /\ req'[c] = req[c] /\ req[c].then = "sleep"
        \/ /\ pc'[c] = "start" /\ req'[c].homing /\ req'[c].axes = Axis /\ req'[c].then = "wait"
           /\ req'[c].parks = req[c].parks
        \/ pc'[c] = "idle" /\ ~req'[c].parks
    <3>1. CASE req[c].then = "sleep"
      BY <1>3, <3>1, GoesThere DEF SetRate
    <3>2. CASE req[c].then = "start"
      <4>1. PICK r : r = [req[c] EXCEPT !.axes = Axis, !.homing = TRUE, !.then = "wait"]
        OBVIOUS
      <4>2. pc'[c] = "start" /\ req'[c] = r
        BY <1>3, <3>2, <4>1, GoesThere DEF SetRate
      <4>3. r.homing /\ r.axes = Axis /\ r.then = "wait" /\ r.parks = req[c].parks
        BY <1>0, <4>1 DEF Request
      <4> QED
        BY <4>2, <4>3
    <3>3. CASE req[c].then \notin {"sleep", "start"}
      BY <1>3, <3>3, ReturnsIdle DEF SetRate
    <3> QED
      BY <3>1, <3>2, <3>3
  <2>5. AtHome(c)'
    BY <1>0, <2>1, <2>2, <2>3, <2>4 DEF AtHome, StaysHome, NothingRemembered
  <2>6. req'[c].parks => Parking(c)'
    BY <2>1, <2>4 DEF HomeOf, Parking
  <2> QED
    BY <2>4, <2>5, <2>6 DEF HomeOf, Zeroing
<1>4. CASE Stepped(c)
  <2>1. ~parked
    BY <1>0, <1>4 DEF AtHome, StaysHome, Stepped
  <2> QED
    BY <1>4, <2>1, ReturnsIdle DEF Stepped, HomeOf, AtHome, Zeroing
<1>5. CASE Aborted(c)
  <2>1. pc[c] = "stop" /\ StopBoth /\ UNCHANGED <<tracking, parked, cruise>> /\ ~trackOnArrival'
    BY <1>5 DEF Aborted, StopBoth
  <2>2. ~req[c].parks
    BY <2>1 DEF HomeOf, Parking
  <2>3. /\ pc'[c] \in {"rate", "idle"} /\ ~req'[c].parks
        /\ ~tracking => pc'[c] = "idle"
    <3>1. CASE tracking
      <4>1. Goes(c, "rate", TrackRequest(req[c])) /\ TrackRequest(req[c]).parks = req[c].parks
        BY <1>0, <1>5, <3>1 DEF Aborted, TrackRequest, Request
      <4> QED
        BY <2>2, <3>1, <4>1, GoesThere
    <3>2. CASE ~tracking
      BY <1>5, <3>2, ReturnsIdle DEF Aborted
    <3> QED
      BY <3>1, <3>2
  <2>4. Standing => Standing'
    BY <2>1 DEF StopBoth, Turns, Standing, AnyOf, Interrupted
  <2> QED
    BY <1>0, <2>1, <2>3, <2>4 DEF HomeOf, AtHome, StaysHome, Zeroing, NothingRemembered
<1>6. CASE HomeSet(c)
  <2>1. NothingRemembered'
    BY <1>6 DEF HomeSet, HomeOf, Zeroing, NothingRemembered, ZeroCounters
  <2>2. Standing'
    BY <1>6 DEF HomeSet, ZeroCounters, AnyOf, Standing
  <2>3. pc'[c] = "idle" /\ ~req'[c].parks
    BY <1>6, ReturnsIdle DEF HomeSet
  <2> QED
    BY <2>1, <2>2, <2>3 DEF HomeOf, AtHome, StaysHome, Zeroing
<1>7. CASE FaultChecked(c)
  <2>1. pc'[c] = "idle" /\ ~req'[c].parks
    BY <1>7, ReturnsIdle DEF FaultChecked
  <2> QED
    BY <1>0, <1>7, <2>1 DEF FaultChecked, HomeOf, AtHome, StaysHome, Zeroing, NothingRemembered,
            Standing
<1>8. CASE Poll(c)
  <2>1. PICK hop \in SUBSET Arrived :
          /\ AdvanceCruise(hop)
          /\ expect' = [a \in Axis |->
               IF MoveOver /\ (IF a \in hop THEN "goto" ELSE expect[a]) \in {"goto", "cruise"}
               THEN "none" ELSE IF a \in hop THEN "goto" ELSE expect[a]]
          /\ Goes(c, IF MoveOver THEN "arrive" ELSE "nap", req[c])
    BY <1>8 DEF Poll
  <2>2. pc[c] = "poll" /\ UNCHANGED <<tracking, trackOnArrival, parked>>
    BY <1>8 DEF Poll
  <2>3. pc'[c] = (IF MoveOver THEN "arrive" ELSE "nap") /\ req'[c] = req[c]
    BY <2>1, GoesThere
  <2>4. /\ axis' = [a \in Axis |-> IF a \in hop THEN "goto"
                                   ELSE IF a \in Arrived THEN "still" ELSE axis[a]]
        /\ pos' = [a \in Axis |-> IF a \in Arrived \ hop THEN Reached(pos[a]) ELSE pos[a]]
        /\ cruise' = cruise \ Arrived
    BY <2>1 DEF AdvanceCruise, Turns
  <2>5. ASSUME parked PROVE Standing' /\ cruise' = {}
    <3>1. Standing /\ cruise = {}
      BY <1>0, <2>5 DEF AtHome, NothingRemembered
    <3>2. Arrived = {}
      BY <3>1 DEF Arrived
    <3> QED
      BY <2>1, <2>4, <3>1, <3>2 DEF Standing
  <2>6. AtHome(c)'
    BY <1>0, <2>2, <2>3, <2>5 DEF AtHome, StaysHome, NothingRemembered
  <2>7. ASSUME req[c].parks PROVE Parking(c)'
    <3>1. HomeBound /\ ~tracking /\ ~trackOnArrival
      BY <2>2, <2>7 DEF HomeOf, Parking
    <3>2. \A a \in Axis :
            \/ axis'[a] = "still" /\ pos'[a] = "home" /\ a \notin cruise'
            \/ /\ axis'[a] = "cruise" /\ pos'[a] = "homing" /\ a \in cruise' /\ ~MoveOver
               /\ expect'[a] = "cruise"
            \/ /\ axis'[a] = "goto" /\ pos'[a] = "homing" /\ a \notin cruise' /\ ~MoveOver
               /\ expect'[a] = "goto"
      <4> SUFFICES ASSUME NEW a \in Axis
                   PROVE  \/ axis'[a] = "still" /\ pos'[a] = "home" /\ a \notin cruise'
                          \/ /\ axis'[a] = "cruise" /\ pos'[a] = "homing" /\ a \in cruise' /\ ~MoveOver
                             /\ expect'[a] = "cruise"
                          \/ /\ axis'[a] = "goto" /\ pos'[a] = "homing" /\ a \notin cruise' /\ ~MoveOver
                             /\ expect'[a] = "goto"
        OBVIOUS
      <4>1. MoveOver => cruise' = {} /\ axis'[a] # "goto"
        BY DEF MoveOver
      <4>2. CASE a \in hop
        <5>1. a \in cruise /\ axis[a] = "near" /\ pos[a] = "homing"
          BY <2>1, <3>1, <4>2 DEF Arrived, HomeBound
        <5> QED
          BY <2>1, <2>4, <4>1, <4>2, <5>1
      <4>3. CASE a \in Arrived \ hop
        <5>1. a \in cruise /\ axis[a] = "near" /\ pos[a] = "homing"
          BY <3>1, <4>3 DEF Arrived, HomeBound
        <5> QED
          BY <2>4, <4>3, <5>1 DEF Reached
      <4>4. CASE a \notin Arrived
        <5>1. a \notin hop /\ axis'[a] = axis[a] /\ pos'[a] = pos[a] /\ (a \in cruise' <=> a \in cruise)
          BY <2>1, <2>4, <4>4
        <5>2. CASE axis[a] = "still"
          BY <3>1, <5>1, <5>2 DEF HomeBound
        <5>3. CASE axis[a] \in {"cruise", "near"}
          <6>1. a \in cruise /\ axis[a] = "cruise" /\ pos[a] = "homing" /\ expect[a] = "cruise"
            BY <3>1, <4>4, <5>3 DEF HomeBound, Arrived
          <6> QED
            BY <2>1, <4>1, <5>1, <6>1
        <5>4. CASE axis[a] = "goto"
          <6>1. a \notin cruise /\ pos[a] = "homing" /\ expect[a] = "goto"
            BY <3>1, <5>4 DEF HomeBound
          <6> QED
            BY <2>1, <4>1, <5>1, <5>4, <6>1
        <5> QED
          BY <3>1, <5>2, <5>3, <5>4 DEF HomeBound
      <4> QED
        BY <4>2, <4>3, <4>4
    <3>3. HomeBound' /\ (MoveOver => \A a \in Axis : axis'[a] = "still")
      BY <3>2 DEF HomeBound
    <3> QED
      BY <2>2, <2>3, <3>1, <3>3 DEF Parking
  <2> QED
    BY <2>3, <2>6, <2>7 DEF HomeOf, Zeroing
<1>9. CASE JobHalts(c)
  <2>1. JobOf(c) \in Job /\ Overruns(JobOf(c), c) /\ UNCHANGED parked
    BY <1>9, JobTyped DEF JobHalts
  <2>2. Halt(axis, c) /\ axis \in [Axis -> Motion]
    BY <2>1 DEF Overruns, TypeOK
  <2>3. pc'[c] = "idle" /\ ~req'[c].parks
    BY <1>9, ReturnsIdle DEF JobHalts
  <2> QED
    BY <1>0, <2>1, <2>2, <2>3, HaltHome DEF HomeOf, AtHome, StaysHome, Zeroing
<1>10. CASE Nap(c)
  <2>1. /\ pc[c] = "nap" /\ UNCHANGED <<hardware, intent, parked>>
        /\ \/ pc'[c] = "poll" /\ req'[c] = req[c]
           \/ pc'[c] = "idle" /\ ~req'[c].parks
    BY <1>10, GoesThere, ReturnsIdle DEF Nap
  <2> QED
    BY <2>1 DEF HomeOf, AtHome, StaysHome, Zeroing, Parking, HomeBound, NothingRemembered, Standing
<1>11. CASE Arrive(c)
  <2>1. /\ pc[c] = "arrive" /\ UNCHANGED <<axis, pos, expect, cruise>> /\ ~trackOnArrival'
        /\ tracking' = (tracking \/ trackOnArrival)
    BY <1>11 DEF Arrive
  <2>2. CASE tracking'
    <3>1. ~parked /\ ~req[c].parks
      BY <1>0, <2>1, <2>2 DEF AtHome, NothingRemembered, HomeOf, Parking
    <3>2. Goes(c, "rate", TrackRequest(req[c])) /\ UNCHANGED parked
      BY <1>11, <2>2 DEF Arrive
    <3>3. pc'[c] = "rate" /\ ~req'[c].parks
      <4>1. TrackRequest(req[c]).parks = req[c].parks
        BY <1>0 DEF TrackRequest, Request
      <4> QED
        BY <3>1, <3>2, <4>1, GoesThere
    <3> QED
      BY <3>1, <3>2, <3>3 DEF HomeOf, AtHome, Zeroing
  <2>3. CASE ~tracking'
    <3>1. pc'[c] = "idle" /\ ~req'[c].parks /\ parked' = (parked \/ req[c].parks)
      BY <1>11, <2>3, ReturnsIdle DEF Arrive
    <3>2. ASSUME req[c].parks PROVE Standing /\ cruise = {}
      <4>1. HomeBound /\ \A a \in Axis : axis[a] = "still"
        BY <2>1, <3>2 DEF HomeOf, Parking
      <4> QED
        BY <4>1 DEF HomeBound, Standing, TypeOK
    <3>3. parked' => Standing /\ cruise = {}
      BY <1>0, <3>1, <3>2 DEF AtHome, NothingRemembered
    <3> QED
      BY <2>1, <2>3, <3>1, <3>3 DEF HomeOf, AtHome, StaysHome, Zeroing, NothingRemembered, Standing
  <2> QED
    BY <2>2, <2>3
<1>12. CASE PulseEnds(c)
  <2>1. ~parked /\ ~req[c].parks
    BY <1>0, <1>12 DEF AtHome, StaysHome, HomeOf, Parking, PulseEnds
  <2>2. Restored(req[c]).parks = req[c].parks
    BY <1>0 DEF Restored, Request
  <2>3. pc'[c] = "rate" /\ ~req'[c].parks
    BY <1>12, <2>1, <2>2, GoesThere DEF PulseEnds
  <2> QED
    BY <1>12, <2>1, <2>3 DEF PulseEnds, HomeOf, AtHome, Zeroing
<1> QED
  BY <1>1, <1>2, <1>3, <1>4, <1>5, <1>6, <1>7, <1>8, <1>9, <1>10, <1>11, <1>12 DEF Continue

\* A park that fails or is cancelled says nothing of being parked.
LEMMA FailureHome ==
  ASSUME TypeOK, NEW c \in Clients, HomeOf(c), JobFails(c) \/ Cancel(c)
  PROVE  HomeOf(c)'
<1> USE DEF hardware, intent, halting, watch, coroutines
<1>1. UNCHANGED <<axis, pos, cruise, tracking, trackOnArrival, parked>> /\ Returns(c)
  BY DEF JobFails, Cancel, Unwinds
<1>2. pc'[c] = "idle" /\ ~req'[c].parks
  BY <1>1, ReturnsIdle
<1> QED
  BY <1>1, <1>2 DEF HomeOf, AtHome, StaysHome, Zeroing, NothingRemembered, Standing

\* The watchdog finds nothing wrong with an axis on its way home.
LEMMA WatchHome ==
  ASSUME TypeOK, NEW c \in Clients, HomeOf(c), Watch
  PROVE  HomeOf(c)'
<1> USE DEF hardware, intent, halting, watch, coroutines
<1>0. UNCHANGED <<parked, pc, req>>
  BY DEF Watch
<1>1. PICK fast \in SUBSET {a \in Axis : MayBeTooFast(a)} : Reading(fast)
  BY DEF Watch
<1>2. ASSUME HomeBound PROVE \A a \in Axis : ~Wrong(a, fast)
  <2> SUFFICES ASSUME NEW a \in Axis PROVE ~Wrong(a, fast)
    OBVIOUS
  <2>1. axis[a] # "beyond" /\ (expect[a] = "goto" \/ axis[a] = "still" \/ expect[a] = "cruise")
        /\ axis[a] \notin Deaf
    BY <1>2 DEF HomeBound, Deaf
  <2>2. expect[a] = "cruise" => a \notin fast /\ Allowed(a)
    BY <1>1, <2>1 DEF MayBeTooFast, Allowed
  <2> QED
    BY <2>1, <2>2 DEF Wrong
<1>3. CASE \E a \in Axis : Wrong(a, fast)
  <2>1. axis \in [Axis -> Motion] /\ Halt(axis, Watchdog)
    BY <1>1, <1>3 DEF Reading, TypeOK
  <2>2. NothingRemembered' /\ (Standing => Standing')
    BY <2>1, HaltHome
  <2> QED
    BY <1>0, <1>2, <1>3, <2>2 DEF HomeOf, AtHome, StaysHome, Zeroing, Parking, NothingRemembered
<1>4. CASE ~\E a \in Axis : Wrong(a, fast)
  <2>1. /\ axis' = Settled /\ UNCHANGED <<pos, cruise, tracking, trackOnArrival>>
        /\ expect' = [a \in Axis |-> IF expect[a] = "goto" /\ axis[a] = "still"
                                     THEN "none" ELSE expect[a]]
    BY <1>1, <1>4 DEF Reading
  <2>2. Standing => Standing'
    BY <2>1 DEF Standing, Settled
  <2>3. HomeBound => HomeBound'
    BY <2>1 DEF HomeBound, Settled
  <2>4. (\A a \in Axis : axis[a] = "still") => \A a \in Axis : axis'[a] = "still"
    BY <2>1 DEF Settled
  <2> QED
    BY <1>0, <2>1, <2>2, <2>3, <2>4 DEF HomeOf, AtHome, StaysHome, Zeroing, Parking,
            NothingRemembered
<1> QED
  BY <1>3, <1>4

\* An axis on its way home comes nearer, or arrives.
LEMMA MotorHome ==
  ASSUME TypeOK, NEW c \in Clients, HomeOf(c), NEW a \in Axis, Physics(a)
  PROVE  HomeOf(c)'
<1> USE DEF hardware, intent, halting, watch, coroutines
<1>1. UNCHANGED <<expect, cruise, tracking, trackOnArrival, parked, pc, req>>
  BY DEF Physics, GotoEnds, CoastEnds, Nears, GoesBeyond
<1>2. Standing => Standing'
  BY DEF Physics, GotoEnds, CoastEnds, Nears, GoesBeyond, Standing, TypeOK
<1>3. ASSUME HomeBound, pc[c] \in {"nap", "poll", "arrive"},
             pc[c] = "arrive" => \A b \in Axis : axis[b] = "still"
      PROVE  HomeBound' /\ pc[c] # "arrive"
  <2>1. ~CoastEnds(a) /\ ~GoesBeyond(a)
    BY <1>3 DEF HomeBound, CoastEnds, GoesBeyond
  <2>2. CASE GotoEnds(a)
    BY <1>1, <1>3, <2>2 DEF GotoEnds, HomeBound, Reached, TypeOK
  <2>3. CASE Nears(a)
    BY <1>1, <1>3, <2>3 DEF Nears, HomeBound, TypeOK
  <2> QED
    BY <2>1, <2>2, <2>3 DEF Physics
<1> QED
  BY <1>1, <1>2, <1>3 DEF HomeOf, AtHome, StaysHome, Zeroing, Parking, NothingRemembered

\* With no thread left behind, only the client moves the mount.
LEMMA StepHome ==
  ASSUME NoStrays, Unreliable = {}, NEW c, Clients = {c}
  PROVE  TypeOK /\ orphans = {} /\ HomeOf(c) /\ [Next]_vars => orphans' = {} /\ HomeOf(c)'
<1> SUFFICES ASSUME TypeOK, orphans = {}, HomeOf(c), [Next]_vars PROVE orphans' = {} /\ HomeOf(c)'
  OBVIOUS
<1>1. c \in Clients
  OBVIOUS
<1>2. CASE UNCHANGED vars
  BY <1>2 DEF vars, hardware, intent, coroutines, HomeOf, AtHome, Zeroing, StaysHome, Parking, HomeBound,
    NothingRemembered, Standing
<1>3. CASE Call(c)
  <2>1. orphans' = orphans
    BY <1>3 DEF Call, SlewTo, MoveBy, Park, Unpark, WaitForSlew, AbortSlew, SetTracking,
      SetHome, SetRaRateOffset, StepDec, PulseGuide, ClearFault, coroutines
  <2> QED
    BY <1>1, <1>3, <2>1, CallHome
<1>4. CASE Continue(c)
  <2>1. orphans' = orphans
    BY <1>4 DEF Continue, Aim, StartMove, SetRate, Stepped, Aborted, HomeSet,
        FaultChecked, Poll, JobHalts, Nap, Arrive, PulseEnds
  <2> QED
    BY <1>1, <1>4, <2>1, ContinueHome
<1>5. CASE JobFails(c) \/ Cancel(c)
  <2>1. Cardinality(orphans) = 0
    BY FS_EmptySet
  <2>2. orphans' = orphans
    BY <1>5, <2>1 DEF JobFails, Cancel, NoStrays
  <2> QED
    BY <1>1, <1>5, <2>2, FailureHome
<1>6. CASE WatchWakes
  BY <1>6 DEF WatchWakes, hardware, intent, HomeOf, AtHome, Zeroing, StaysHome, Parking, HomeBound,
    NothingRemembered, Standing
<1>7. CASE Watch
  BY <1>1, <1>7, WatchHome DEF Watch
<1>8. ASSUME NEW a \in Axis, Physics(a) \/ BreaksDown(a) PROVE orphans' = {} /\ HomeOf(c)'
  <2>1. orphans' = orphans /\ Physics(a)
    BY <1>8 DEF Physics, GotoEnds, CoastEnds, Nears, GoesBeyond, BreaksDown, coroutines
  <2> QED
    BY <1>1, <2>1, MotorHome
<1> QED
  BY <1>2, <1>3, <1>4, <1>5, <1>6, <1>7, <1>8 DEF Next

\* park: with one client and axes that do as they are told, whatever else fails, is
\* cancelled or runs late, a mount that says it is parked stands at home: park ends
\* without an error only after it brought both axes there.
THEOREM ParkedIsHome ==
  ASSUME Alone, NoStrays, Unreliable = {}
  PROVE  Spec => []ParkedAtHome
<1>1. Init => TypeOK /\ HomeInv
  <2> SUFFICES ASSUME Init PROVE HomeInv
    BY InitTypes
  <2>1. orphans = {} /\ \A c \in Clients : pc[c] = "idle" /\ ~req[c].parks
    BY DEF Init, NoRequest
  <2>2. parked => Standing /\ NothingRemembered
    BY DEF Init, AnyOf, Standing, NothingRemembered, Axis
  <2> QED
    BY <2>1, <2>2 DEF HomeInv, HomeOf, AtHome, StaysHome, Zeroing
<1>2. TypeOK /\ HomeInv /\ [Next]_vars => TypeOK' /\ HomeInv'
  <2> SUFFICES ASSUME TypeOK, HomeInv, [Next]_vars PROVE HomeInv'
    BY StepTypes
  <2>1. PICK c : Clients = {c}
    BY DEF Alone
  <2>2. orphans' = {} /\ HomeOf(c)'
    BY <2>1, StepHome DEF HomeInv
  <2>3. \A d \in Clients : d = c
    BY <2>1
  <2> QED
    BY <2>2, <2>3 DEF HomeInv
<1>3. HomeInv => ParkedAtHome
  BY DEF Alone, HomeInv, HomeOf, AtHome, Standing, ParkedAtHome
<1> QED
  BY <1>1, <1>2, <1>3, PTL DEF Spec

-----------------------------------------------------------------------------
(* The line below the mount, and the sky above it.                         *)

CONSTANTS Threads, Nobody, Prompt, MaxExchanges, Margin, Limit
VARIABLES stage, holder, attempt, exchange, asked, requests, coming, input, ran, answer
Line == INSTANCE SerialLine WITH pc <- stage
Sky == INSTANCE MountGeometry

-----------------------------------------------------------------------------
(* The line                                                                *)

Bits24 == {v \in Nat : v < 16777216}
Counts == {c \in Int : -Line!HOME_COUNTS <= c /\ c < Line!HOME_COUNTS}

(* encode24 and decode24, which "undoes" it: every value of 24 bits is read
   back as it was written. *)
THEOREM EncodingIsUndone == \A v \in Bits24 : Line!Decode24(Line!Encode24(v)) = v
<1> SUFFICES ASSUME NEW v \in Bits24 PROVE Line!Decode24(Line!Encode24(v)) = v
  OBVIOUS
<1>1. v = (v % 256) + 256 * ((v \div 256) % 256) + 65536 * ((v \div 65536) % 256)
  BY SMT DEF Bits24
<1>2. /\ Len(Line!Encode24(v)) = 3
      /\ Line!Encode24(v)[1] = v % 256
      /\ Line!Encode24(v)[2] = (v \div 256) % 256
      /\ Line!Encode24(v)[3] = (v \div 65536) % 256
  BY SMT DEF Line!Encode24
<1> QED
  BY <1>1, <1>2, SMT DEF Line!Decode24

(* set_position and position: an axis told where it stands reads the same
   place back, on either side of the controller's origin. *)
THEOREM PositionsAreReadBack == \A c \in Counts : Line!Position(Line!SetPosition(c)) = c
<1> SUFFICES ASSUME NEW c \in Counts PROVE Line!Position(Line!SetPosition(c)) = c
  OBVIOUS
<1>1. c \in Int /\ c + Line!HOME_COUNTS \in Bits24
  BY SMT DEF Counts, Line!HOME_COUNTS, Bits24
<1>2. Line!Decode24(Line!Encode24(c + Line!HOME_COUNTS)) = c + Line!HOME_COUNTS
  BY <1>1, EncodingIsUndone, SMT
<1> QED
  BY <1>1, <1>2, SMT DEF Line!Position, Line!SetPosition, Line!HOME_COUNTS

(* set_motion_mode: "the first character is not two independent bits", and no
   two modes share one: a goto is never sent as a constant rate, nor fast as
   slow. *)
THEOREM ModesAreDistinct ==
  \A goto, fast, goto2, fast2 \in BOOLEAN :
    Line!MotionMode(goto, fast) = Line!MotionMode(goto2, fast2) => goto = goto2 /\ fast = fast2
BY SMT DEF Line!MotionMode

-----------------------------------------------------------------------------
(* The conversation.  Only while a thread waits for its reply is anything   *)
(* on the line, and then one request or one reply to it.                    *)

OnLine == Len(requests) + Len(coming) + Len(input)

Held == \A t \in Threads : stage[t] # "idle" <=> holder = t

Asking == \A t \in Threads : stage[t] # "idle" => asked[t] = exchange

\* Nothing from an earlier command, or an earlier attempt, is left.
OfThisExchange ==
  /\ OnLine <= 1
  /\ OnLine = 1 => \E t \in Threads : stage[t] = "reading"
  /\ requests # <<>> => requests[1] = exchange
  /\ coming # <<>> => coming[1].to = exchange
  /\ input # <<>> => input[1].to = exchange

\* Each sending is obeyed at most once, and a value comes only from that.
Counted ==
  /\ ran <= attempt
  /\ requests # <<>> => ran < attempt
  /\ \A t \in Threads : stage[t] = "sending" => ran < attempt
  /\ coming # <<>> /\ coming[1].form \in {"value", "cut"} => ran >= 1
  /\ input # <<>> /\ input[1].form \in {"value", "cut"} => ran >= 1

Answered == \A t \in Threads : answer[t] # Line!None => answer[t].to = asked[t]

LineInv == Line!TypeOK /\ Held /\ Asking /\ OfThisExchange /\ Counted /\ Answered

(* The fields of the line keep their types, prompt controller or not. *)
LEMMA LineTypes == Line!Spec => []Line!TypeOK
<1>1. Line!Init => Line!TypeOK
  BY DEF Line!Init, Line!TypeOK, Line!Reply, Line!None, Line!Form
<1>2. Line!TypeOK /\ [Line!Next]_Line!vars => Line!TypeOK'
  <2> SUFFICES ASSUME Line!TypeOK, [Line!Next]_Line!vars PROVE Line!TypeOK'
    OBVIOUS
  <2> USE DEF Line!TypeOK, Line!Goes, Line!Return, Line!TryAgain
  <2>1. Line!None \in Line!Reply /\ \A n \in Nat, f \in Line!Form : [to |-> n, form |-> f] \in Line!Reply
    BY DEF Line!None, Line!Reply, Line!Form
  <2>2. CASE UNCHANGED Line!vars
    BY <2>2 DEF Line!vars
  <2>3. ASSUME NEW t \in Threads, Line!Begin(t) PROVE Line!TypeOK'
    BY <2>1, <2>3 DEF Line!Begin
  <2>4. ASSUME NEW t \in Threads, Line!Send(t) PROVE Line!TypeOK'
    BY <2>4 DEF Line!Send
  <2>5. ASSUME NEW t \in Threads, Line!Read(t) PROVE Line!TypeOK'
    <3>1. Head(input) \in Line!Reply
      BY <2>5, SMT DEF Line!Read
    <3>2. answer' \in [Threads -> Line!Reply]
      BY <2>5, <3>1, SMT DEF Line!Read
    <3>3. input' \in Seq(Line!Reply)
      BY <2>5, SMT DEF Line!Read
    <3> QED
      BY <2>5, <3>2, <3>3, SMT DEF Line!Read
  <2>6. ASSUME NEW t \in Threads, Line!TimeOut(t) PROVE Line!TypeOK'
    BY <2>6 DEF Line!TimeOut
  <2>7. CASE Line!Obey
    <3>1. Head(requests) \in Nat /\ "value" \in Line!Form
      BY <2>7, SMT DEF Line!Obey, Line!Form
    <3>2. [to |-> Head(requests), form |-> "value"] \in Line!Reply
      BY <2>1, <3>1
    <3> QED
      BY <2>7, <3>2, SMT DEF Line!Obey
  <2>8. CASE Line!Refuse
    <3>1. Head(requests) \in Nat /\ "refusal" \in Line!Form
      BY <2>8, SMT DEF Line!Refuse, Line!Form
    <3>2. [to |-> Head(requests), form |-> "refusal"] \in Line!Reply
      BY <2>1, <3>1
    <3> QED
      BY <2>8, <3>2, SMT DEF Line!Refuse
  <2>9. CASE Line!LoseRequest
    BY <2>9 DEF Line!LoseRequest
  <2>10. CASE Line!Arrive
    <3>1. Head(coming) \in Line!Reply
      BY <2>10, SMT DEF Line!Arrive
    <3>2. Head(coming).to \in Nat /\ Head(coming).form \in Line!Form
      BY <3>1 DEF Line!Reply
    <3>3. PICK form \in Line!Form : input' = Append(input, [to |-> Head(coming).to, form |-> form])
      BY <2>10, <3>2, SMT DEF Line!Arrive, Line!Form
    <3>4. [to |-> Head(coming).to, form |-> form] \in Line!Reply
      BY <2>1, <3>2, <3>3
    <3>5. input' \in Seq(Line!Reply) /\ coming' \in Seq(Line!Reply)
      BY <2>10, <3>3, <3>4, SMT DEF Line!Arrive
    <3> QED
      BY <2>10, <3>5, SMT DEF Line!Arrive
  <2>11. CASE Line!LoseReply
    BY <2>11 DEF Line!LoseReply
  <2> QED
    BY <2>2, <2>3, <2>4, <2>5, <2>6, <2>7, <2>8, <2>9, <2>10, <2>11 DEF Line!Next
<1> QED
  BY <1>1, <1>2, PTL DEF Line!Spec

(* What is on the line when there is at most one thing on it. *)
LEMMA SingleElement ==
  ASSUME NEW S, NEW s \in Seq(S), Len(s) = 1
  PROVE  s # <<>> /\ Head(s) = s[1] /\ Tail(s) = <<>>
<1>1. s # <<>> /\ Head(s) = s[1]
  BY SMT
<1>2. Tail(s) \in Seq(S) /\ Len(Tail(s)) = 0
  BY <1>1, HeadTailProperties
<1> QED
  BY <1>1, <1>2, EmptySeq

LEMMA SingleOnLine ==
  ASSUME Line!TypeOK, OnLine <= 1
  PROVE  /\ OnLine = 0 \/ OnLine = 1
         /\ OnLine = 0 => requests = <<>> /\ coming = <<>> /\ input = <<>>
         /\ requests # <<>> => /\ OnLine = 1 /\ coming = <<>> /\ input = <<>>
                              /\ Head(requests) = requests[1] /\ Tail(requests) = <<>>
         /\ coming # <<>> => /\ OnLine = 1 /\ requests = <<>> /\ input = <<>>
                            /\ Head(coming) = coming[1] /\ Tail(coming) = <<>>
         /\ input # <<>> => /\ OnLine = 1 /\ requests = <<>> /\ coming = <<>>
                           /\ Head(input) = input[1]
<1>1. /\ requests \in Seq(Nat) /\ coming \in Seq(Line!Reply) /\ input \in Seq(Line!Reply)
  BY DEF Line!TypeOK
<1>2. /\ Len(requests) \in Nat /\ Len(coming) \in Nat /\ Len(input) \in Nat
      /\ requests = <<>> <=> Len(requests) = 0
      /\ coming = <<>> <=> Len(coming) = 0
      /\ input = <<>> <=> Len(input) = 0
  BY <1>1
<1>3. /\ Len(requests) = 1 => Head(requests) = requests[1] /\ Tail(requests) = <<>>
      /\ Len(coming) = 1 => Head(coming) = coming[1] /\ Tail(coming) = <<>>
      /\ Len(input) = 1 => Head(input) = input[1]
  BY <1>1, SingleElement
<1> QED
  BY <1>2, <1>3 DEF OnLine

(* An empty line, and a line with one thing on it, as the next state finds it. *)
LEMMA LineEmptied ==
  ASSUME requests' = <<>>, coming' = <<>>, input' = <<>>
  PROVE  OfThisExchange'
  BY DEF OfThisExchange, OnLine

LEMMA Singleton == \A x : <<x>> # <<>> /\ Len(<<x>>) = 1 /\ <<x>>[1] = x /\ Append(<<>>, x) = <<x>>
  BY SMT

(* While a reply that comes at all comes within REPLY_TIMEOUT_S, the line is
   empty whenever a thread is not waiting for its reply. *)
LEMMA LineIsOneAtATime ==
  ASSUME Prompt = TRUE, Nobody \notin Threads
  PROVE  Line!Spec => []LineInv
<1>1. Line!Init => LineInv
  BY DEF Line!Init, LineInv, Line!TypeOK, Line!Reply, Line!None, Line!Form, Held, Asking, OfThisExchange, Counted,
         Answered, OnLine
<1>2. LineInv /\ Line!TypeOK' /\ [Line!Next]_Line!vars => LineInv'
  <2> SUFFICES ASSUME LineInv, Line!TypeOK', [Line!Next]_Line!vars PROVE LineInv'
    OBVIOUS
  <2> USE DEF LineInv, Line!Goes, Line!Return, Line!TryAgain
  <2>1. CASE UNCHANGED Line!vars
    BY <2>1 DEF Line!vars, Held, Asking, OfThisExchange, Counted, Answered, OnLine
  <2>2. /\ OnLine = 0 \/ OnLine = 1
        /\ OnLine = 0 => requests = <<>> /\ coming = <<>> /\ input = <<>>
        /\ requests # <<>> => /\ OnLine = 1 /\ coming = <<>> /\ input = <<>>
                             /\ Head(requests) = exchange /\ Tail(requests) = <<>>
        /\ coming # <<>> => /\ OnLine = 1 /\ requests = <<>> /\ input = <<>>
                           /\ Head(coming) = coming[1] /\ Tail(coming) = <<>>
        /\ input # <<>> => /\ OnLine = 1 /\ requests = <<>> /\ coming = <<>>
                          /\ Head(input) = input[1]
    BY SingleOnLine DEF OfThisExchange
  <2>3. ASSUME NEW t \in Threads, stage[t] = "sending" \/ holder = Nobody
        PROVE  OnLine = 0
    BY <2>2, <2>3 DEF OfThisExchange, Held
  <2>4. ASSUME NEW t \in Threads, Line!Begin(t) PROVE LineInv'
    <3>1. requests' = <<>> /\ coming' = <<>> /\ input' = <<>>
      BY <2>2, <2>3, <2>4 DEF Line!Begin
    <3>2. Held' /\ Asking'
      BY <2>4 DEF Line!Begin, Held, Asking, Line!TypeOK
    <3>3. OfThisExchange' /\ Counted'
      BY <2>4, <3>1, LineEmptied DEF Line!Begin, Counted
    <3>4. Answered'
      BY <2>4 DEF Line!Begin, Answered, Line!TypeOK
    <3> QED
      BY <3>2, <3>3, <3>4
  <2>5. ASSUME NEW t \in Threads, Line!Send(t) PROVE LineInv'
    <3>1. requests = <<>> /\ coming = <<>>
      BY <2>2, <2>3, <2>5 DEF Line!Send
    <3>2. requests' = <<exchange>> /\ coming' = <<>> /\ input' = <<>>
      BY <2>5, <3>1, Singleton DEF Line!Send
    <3>3. Held' /\ Asking' /\ Answered'
      BY <2>5 DEF Line!Send, Held, Asking, Answered, Line!TypeOK
    <3>4. OfThisExchange'
      <4>1. exchange' = exchange /\ stage'[t] = "reading"
        BY <2>5 DEF Line!Send, Line!TypeOK
      <4> QED
        BY <3>2, <4>1, Singleton DEF OfThisExchange, OnLine
    <3>5. Counted'
      <4>1. ran < attempt /\ ran' = ran /\ attempt' = attempt
        BY <2>5 DEF Line!Send, Counted
      <4>2. ran <= attempt
        BY <4>1 DEF Line!TypeOK
      <4>3. \A u \in Threads : stage'[u] # "sending"
        BY <2>5 DEF Line!Send, Held, Line!TypeOK
      <4> QED
        BY <3>2, <4>1, <4>2, <4>3 DEF Counted
    <3> QED
      BY <3>3, <3>4, <3>5
  <2>6. ASSUME NEW t \in Threads, Line!Read(t) PROVE LineInv'
    <3>1. requests = <<>> /\ coming = <<>> /\ Head(input) = input[1]
      BY <2>2, <2>6 DEF Line!Read
    <3>2. requests' = <<>> /\ coming' = <<>> /\ input' = <<>>
      BY <2>6, <3>1 DEF Line!Read
    <3>3. Held' /\ Asking'
      <4>1. /\ holder = t /\ \A u \in Threads : u # t => stage[u] = "idle" /\ stage'[u] = stage[u]
            /\ exchange' = exchange /\ asked' = asked
        BY <2>6 DEF Line!Read, Held, Line!TypeOK
      <4>2. \/ stage'[t] = "idle" /\ holder' = Nobody
            \/ stage'[t] = "sending" /\ holder' = t
        BY <2>6, <4>1 DEF Line!Read, Line!TypeOK
      <4>3. asked[t] = exchange
        BY <2>6 DEF Line!Read, Asking
      <4> QED
        BY <4>1, <4>2, <4>3 DEF Held, Asking
    <3>4. Answered'
      BY <2>6, <3>1 DEF Line!Read, Answered, Asking, OfThisExchange, Line!TypeOK
    <3>5. OfThisExchange'
      BY <3>2, LineEmptied
    <3>6. Counted'
      BY <2>6, <3>2 DEF Line!Read, Counted, Held, Line!TypeOK
    <3> QED
      BY <3>3, <3>4, <3>5, <3>6
  <2>7. ASSUME NEW t \in Threads, Line!TimeOut(t) PROVE LineInv'
    <3>1. requests' = <<>> /\ coming' = <<>> /\ input' = <<>>
      BY <2>7 DEF Line!TimeOut
    <3>2. Held' /\ Asking' /\ Answered'
      BY <2>7 DEF Line!TimeOut, Held, Asking, Answered, Line!TypeOK
    <3>3. OfThisExchange'
      BY <3>1, LineEmptied
    <3>4. Counted'
      BY <2>7, <3>1 DEF Line!TimeOut, Counted, Held, Line!TypeOK
    <3> QED
      BY <3>2, <3>3, <3>4
  <2>8. CASE Line!Obey
    <3>1. coming = <<>> /\ input = <<>> /\ Head(requests) = exchange /\ OnLine = 1
      BY <2>2, <2>8 DEF Line!Obey
    <3>2. /\ requests' = <<>> /\ input' = <<>>
          /\ coming' = <<[to |-> exchange, form |-> "value"]>>
      BY <2>2, <2>8, <3>1, Singleton DEF Line!Obey
    <3>3. Held' /\ Asking' /\ Answered'
      BY <2>8 DEF Line!Obey, Held, Asking, Answered
    <3>4. OfThisExchange'
      <4>1. exchange' = exchange /\ stage' = stage /\ \E t \in Threads : stage[t] = "reading"
        BY <2>8, <3>1 DEF Line!Obey, OfThisExchange
      <4> QED
        BY <3>2, <4>1, Singleton DEF OfThisExchange, OnLine
    <3>5. \A t \in Threads : stage[t] # "sending"
      BY <3>1, <2>3, <2>2
    <3>6. Counted'
      <4>1. ran < attempt /\ ran' = ran + 1 /\ attempt' = attempt /\ stage' = stage
        BY <2>8, <3>1 DEF Line!Obey, Counted
      <4>2. ran \in Nat /\ attempt \in {1, 2}
        BY DEF Line!TypeOK
      <4> QED
        BY <3>2, <3>5, <4>1, <4>2 DEF Counted
    <3> QED
      BY <3>3, <3>4, <3>6
  <2>9. CASE Line!Refuse
    <3>1. coming = <<>> /\ input = <<>> /\ Head(requests) = exchange /\ OnLine = 1
      BY <2>2, <2>9 DEF Line!Refuse
    <3>2. /\ requests' = <<>> /\ input' = <<>>
          /\ coming' = <<[to |-> exchange, form |-> "refusal"]>>
      BY <2>2, <2>9, <3>1, Singleton DEF Line!Refuse
    <3>3. Held' /\ Asking' /\ Answered'
      BY <2>9 DEF Line!Refuse, Held, Asking, Answered
    <3>4. OfThisExchange'
      <4>1. exchange' = exchange /\ stage' = stage /\ \E t \in Threads : stage[t] = "reading"
        BY <2>9, <3>1 DEF Line!Refuse, OfThisExchange
      <4> QED
        BY <3>2, <4>1, Singleton DEF OfThisExchange, OnLine
    <3>5. Counted'
      BY <2>9, <3>2, Singleton DEF Line!Refuse, Counted
    <3> QED
      BY <3>3, <3>4, <3>5
  <2>10. CASE Line!LoseRequest
    <3>1. coming = <<>> /\ input = <<>> /\ Tail(requests) = <<>>
      BY <2>2, <2>10 DEF Line!LoseRequest
    <3>2. requests' = <<>> /\ coming' = <<>> /\ input' = <<>>
      BY <2>10, <3>1 DEF Line!LoseRequest
    <3>3. Held' /\ Asking' /\ Answered'
      BY <2>10 DEF Line!LoseRequest, Held, Asking, Answered
    <3>4. OfThisExchange' /\ Counted'
      BY <2>10, <3>2, LineEmptied DEF Line!LoseRequest, Counted
    <3> QED
      BY <3>3, <3>4
  <2>11. CASE Line!Arrive
    <3>1. /\ coming # <<>> /\ Tail(coming) = <<>> /\ requests = <<>> /\ input = <<>>
          /\ Head(coming) = coming[1] /\ OnLine = 1
      BY <2>2, <2>11 DEF Line!Arrive
    <3>2. PICK form \in {coming[1].form, "noise"} \cup
                        (IF coming[1].form = "value" THEN {"cut"} ELSE {}) :
             input' = Append(input, [to |-> coming[1].to, form |-> form])
      BY <2>11, <3>1 DEF Line!Arrive
    <3>3. /\ requests' = <<>> /\ coming' = <<>>
          /\ input' = <<[to |-> coming[1].to, form |-> form]>>
      BY <2>11, <3>1, <3>2, Singleton DEF Line!Arrive
    <3>4. Held' /\ Asking' /\ Answered'
      BY <2>11 DEF Line!Arrive, Held, Asking, Answered
    <3>5. OfThisExchange'
      <4>1. /\ exchange' = exchange /\ stage' = stage
            /\ \E t \in Threads : stage[t] = "reading"
            /\ coming[1].to = exchange
        BY <2>11, <3>1 DEF Line!Arrive, OfThisExchange
      <4> QED
        BY <3>3, <4>1, Singleton DEF OfThisExchange, OnLine
    <3>6. form \in {"value", "cut"} => ran >= 1
      BY <3>1, <3>2 DEF Counted
    <3>7. Counted'
      BY <2>11, <3>3, <3>6, Singleton DEF Line!Arrive, Counted
    <3> QED
      BY <3>4, <3>5, <3>7
  <2>12. CASE Line!LoseReply
    <3>1. requests = <<>> /\ input = <<>> /\ Tail(coming) = <<>>
      BY <2>2, <2>12 DEF Line!LoseReply
    <3>2. requests' = <<>> /\ coming' = <<>> /\ input' = <<>>
      BY <2>12, <3>1 DEF Line!LoseReply
    <3>3. Held' /\ Asking' /\ Answered'
      BY <2>12 DEF Line!LoseReply, Held, Asking, Answered
    <3>4. OfThisExchange' /\ Counted'
      BY <2>12, <3>2, LineEmptied DEF Line!LoseReply, Counted
    <3> QED
      BY <3>3, <3>4
  <2> QED
    BY <2>1, <2>4, <2>5, <2>6, <2>7, <2>8, <2>9, <2>10, <2>11, <2>12 DEF Line!Next
<1>3. Line!Spec => []Line!TypeOK
  BY LineTypes
<1> QED
  BY <1>1, <1>2, <1>3, PTL DEF Line!Spec

(* SyntaLink: "two overlapping requests on one serial line read each other's
   answers".  Any number of threads, any losses and any garbling: no thread is
   ever given an answer but to the command it sent last. *)
THEOREM NoCrossedAnswers ==
  ASSUME Prompt = TRUE, Nobody \notin Threads
  PROVE  Line!Spec => []Line!AnswerIsOwn
<1>1. LineInv => Line!AnswerIsOwn
  BY DEF LineInv, Answered, Line!AnswerIsOwn
<1>2. Line!Spec => []LineInv
  BY LineIsOneAtATime
<1> QED
  BY <1>1, <1>2, PTL

(* "Retried once on a garbled reply": the controller obeys a command at most
   once for each of its two sendings, and has obeyed one that it answers. *)
THEOREM RetriedOnce ==
  ASSUME Prompt = TRUE, Nobody \notin Threads
  PROVE  Line!Spec => []Line!ObeyedAsSent
<1>1. LineInv => Line!ObeyedAsSent
  <2> SUFFICES ASSUME LineInv PROVE Line!ObeyedAsSent
    OBVIOUS
  <2>1. ran <= attempt
    BY DEF LineInv, Counted
  <2>2. ASSUME NEW i \in DOMAIN input, input[i].form \in {"value", "cut"} PROVE ran >= 1
    <3>1. Len(requests) \in Nat /\ Len(coming) \in Nat /\ Len(input) \in Nat
      BY DEF LineInv, Line!TypeOK
    <3>2. Len(input) <= 1
      BY <3>1 DEF LineInv, OfThisExchange, OnLine
    <3>3. i = 1 /\ input # <<>>
      BY <3>1, <3>2, <2>2 DEF LineInv, Line!TypeOK
    <3> QED
      BY <2>2, <3>3 DEF LineInv, Counted
  <2> QED
    BY <2>1, <2>2 DEF Line!ObeyedAsSent
<1>2. Line!Spec => []LineInv
  BY LineIsOneAtATime
<1> QED
  BY <1>1, <1>2, PTL

-----------------------------------------------------------------------------
(* The geometry                                                            *)


Pointing == [ra : Sky!RightAscension, dec : Sky!Declination]
Axes == [ra : Int, dec : Int]
Offset == [ha : Int, dec : Int]

LEMMA Wraps == \A a \in Int : Sky!Wrap180(a) \in Sky!Angle
BY SMT DEF Sky!Wrap180, Sky!Angle, Sky!Turn, Sky!Half

LEMMA WrapsOnce == \A a, b \in Int : Sky!Wrap180(Sky!Wrap180(a) + b) = Sky!Wrap180(a + b)
BY SMT DEF Sky!Wrap180, Sky!Turn, Sky!Half

LEMMA AnglesStay == \A a \in Sky!Angle : Sky!Wrap180(a) = a
BY SMT DEF Sky!Wrap180, Sky!Angle, Sky!Turn, Sky!Half

LEMMA WrapsThereAndBack ==
  \A a \in Sky!Angle : /\ Sky!Wrap180(Sky!Wrap180(a - Sky!Quarter) + Sky!Quarter) = a
                  /\ Sky!Wrap180(Sky!Wrap180(a + Sky!Quarter) - Sky!Quarter) = a
BY SMT DEF Sky!Wrap180, Sky!Angle, Sky!Turn, Sky!Half, Sky!Quarter

LEMMA HourAnglesCome ==
  \A ra \in Sky!RightAscension, lst \in Int :
    Sky!HourAngle(ra, lst) \in Sky!Angle /\ (lst - Sky!HourAngle(ra, lst)) % Sky!Turn = ra
BY SMT DEF Sky!HourAngle, Sky!Wrap180, Sky!Angle, Sky!RightAscension, Sky!Turn, Sky!Half

(* _fold: whatever offsets a wild sync leaves, what comes out is a pointing,
   and "not a ValueError out of the status endpoint". *)
THEOREM FoldIsAPointing ==
  \A ha, dec \in Int : Sky!Fold(ha, dec).ha \in Sky!Angle /\ Sky!Fold(ha, dec).dec \in Sky!Declination
<1> SUFFICES ASSUME NEW ha \in Int, NEW dec \in Int
             PROVE  Sky!Fold(ha, dec).ha \in Sky!Angle /\ Sky!Fold(ha, dec).dec \in Sky!Declination
  OBVIOUS
<1>1. Sky!Wrap180(ha) \in Sky!Angle /\ Sky!Wrap180(ha + Sky!Half) \in Sky!Angle /\ Sky!Wrap180(dec) \in Sky!Angle
  BY Wraps, SMT DEF Sky!Half
<1> QED
  BY <1>1, SMT DEF Sky!Fold, Sky!Angle, Sky!Declination, Sky!Half, Sky!Quarter

LEMMA NothingToFold ==
  \A ha \in Int, dec \in Sky!Declination : Sky!Fold(ha, dec) = [ha |-> Sky!Wrap180(ha), dec |-> dec]
<1> SUFFICES ASSUME NEW ha \in Int, NEW dec \in Sky!Declination
             PROVE  Sky!Fold(ha, dec) = [ha |-> Sky!Wrap180(ha), dec |-> dec]
  OBVIOUS
<1>1. dec \in Int
  BY DEF Sky!Declination
<1>2. dec \in Sky!Angle /\ dec <= Sky!Quarter /\ -Sky!Quarter <= dec
  BY SMT DEF Sky!Declination, Sky!Angle, Sky!Half, Sky!Quarter
<1>3. Sky!Wrap180(dec) = dec
  BY <1>2, AnglesStay
<1>4. ~(dec > Sky!Quarter) /\ ~(dec < -Sky!Quarter)
  BY SMT DEF Sky!Declination, Sky!Quarter
<1> QED
  BY <1>3, <1>4, Zenon DEF Sky!Fold

(* gem_axes, "the inverse of gem_sky": from either side of the pier the axes
   point where they were asked to, short of the pole itself. *)
THEOREM AxesPointThere ==
  \A ha \in Sky!Angle, dec \in Sky!Declination, side \in {"east", "west"} :
    dec # Sky!Quarter =>
      LET axes == Sky!GemAxes(ha, dec, side)
      IN  /\ Sky!SideOf(axes.dec) = side
          /\ Sky!GemSky(axes.ra, axes.dec) = [ha |-> ha, dec |-> dec]
<1> SUFFICES ASSUME NEW ha \in Sky!Angle, NEW dec \in Sky!Declination, dec # Sky!Quarter,
                    NEW side \in {"east", "west"}
             PROVE  LET axes == Sky!GemAxes(ha, dec, side)
                    IN  /\ Sky!SideOf(axes.dec) = side
                        /\ Sky!GemSky(axes.ra, axes.dec) = [ha |-> ha, dec |-> dec]
  OBVIOUS
<1>1. ha \in Int /\ dec \in Int /\ dec < Sky!Quarter
  BY SMT DEF Sky!Angle, Sky!Declination, Sky!Quarter, Sky!Half
<1>2. CASE side = "east"
  <2>1. Sky!GemAxes(ha, dec, side) = [ra |-> Sky!Wrap180(ha - Sky!Quarter), dec |-> Sky!Quarter - dec]
    BY <1>2 DEF Sky!GemAxes
  <2>2. Sky!SideOf(Sky!Quarter - dec) = "east" /\ Sky!Quarter - (Sky!Quarter - dec) = dec
    BY <1>1, SMT DEF Sky!SideOf, Sky!Quarter
  <2>3. Sky!Wrap180(ha - Sky!Quarter) + Sky!Quarter \in Int
    BY <1>1, Wraps, SMT DEF Sky!Angle, Sky!Quarter
  <2>4. Sky!Wrap180(Sky!Wrap180(ha - Sky!Quarter) + Sky!Quarter) = ha
    BY WrapsThereAndBack
  <2> QED
    BY <1>2, <2>1, <2>2, <2>3, <2>4, NothingToFold DEF Sky!GemSky
<1>3. CASE side = "west"
  <2>1. Sky!GemAxes(ha, dec, side) = [ra |-> Sky!Wrap180(ha + Sky!Quarter), dec |-> dec - Sky!Quarter]
    BY <1>3 DEF Sky!GemAxes
  <2>2. Sky!SideOf(dec - Sky!Quarter) = "west" /\ Sky!Quarter + (dec - Sky!Quarter) = dec
    BY <1>1, SMT DEF Sky!SideOf, Sky!Quarter
  <2>3. Sky!Wrap180(ha + Sky!Quarter) - Sky!Quarter \in Int
    BY <1>1, Wraps, SMT DEF Sky!Angle, Sky!Quarter
  <2>4. Sky!Wrap180(Sky!Wrap180(ha + Sky!Quarter) - Sky!Quarter) = ha
    BY WrapsThereAndBack
  <2> QED
    BY <1>3, <2>1, <2>2, <2>3, <2>4, NothingToFold DEF Sky!GemSky
<1> QED
  BY <1>2, <1>3

LEMMA SkyIsAPointing ==
  \A ra, dec \in Int : Sky!GemSky(ra, dec).ha \in Sky!Angle /\ Sky!GemSky(ra, dec).dec \in Sky!Declination
<1> SUFFICES ASSUME NEW ra \in Int, NEW dec \in Int
             PROVE  Sky!GemSky(ra, dec).ha \in Sky!Angle /\ Sky!GemSky(ra, dec).dec \in Sky!Declination
  OBVIOUS
<1>1. ra + Sky!Quarter \in Int /\ Sky!Quarter - dec \in Int /\ ra - Sky!Quarter \in Int /\ Sky!Quarter + dec \in Int
  BY SMT DEF Sky!Quarter
<1> QED
  BY <1>1, FoldIsAPointing DEF Sky!GemSky

-----------------------------------------------------------------------------
(* Syncing *)

LEMMA ReadingUnfolded ==
  \A axes, offset, lst :
    LET model == Sky!GemSky(axes.ra, axes.dec)
        seen == Sky!Fold(model.ha + offset.ha, model.dec + offset.dec)
    IN  Sky!SkyFromAxes(axes, offset, lst) = [ra |-> (lst - seen.ha) % Sky!Turn, dec |-> seen.dec]
BY DEF Sky!SkyFromAxes

(* sync_to, "move the model, never the mount": once synced, the mount reads
   the very place it was synced to, wherever its axes stand. *)
THEOREM SyncReadsBack ==
  \A axes \in Axes, actual \in Pointing, lst \in Int :
    Sky!SkyFromAxes(axes, Sky!SyncTo(actual, axes, lst), lst) = actual
<1> SUFFICES ASSUME NEW axes \in Axes, NEW actual \in Pointing, NEW lst \in Int
             PROVE  Sky!SkyFromAxes(axes, Sky!SyncTo(actual, axes, lst), lst) = actual
  OBVIOUS
<1> DEFINE model == Sky!GemSky(axes.ra, axes.dec)
           ha == Sky!HourAngle(actual.ra, lst)
<1>1. axes.ra \in Int /\ axes.dec \in Int
  BY DEF Axes
<1>2. model.ha \in Int /\ model.dec \in Int
  BY <1>1, SkyIsAPointing DEF Sky!Angle, Sky!Declination
<1>3. actual.ra \in Sky!RightAscension /\ actual.dec \in Sky!Declination /\ actual.dec \in Int
  BY DEF Pointing, Sky!Declination
<1>4. ha \in Sky!Angle /\ ha \in Int /\ (lst - ha) % Sky!Turn = actual.ra
  BY <1>3, HourAnglesCome DEF Sky!Angle
<1> HIDE DEF model, ha
<1>5. Sky!SyncTo(actual, axes, lst) = [ha |-> Sky!Wrap180(ha - model.ha), dec |-> actual.dec - model.dec]
  BY DEF Sky!SyncTo, model, ha
<1>6. Sky!Wrap180(ha - model.ha) \in Int
  BY <1>2, <1>4, Wraps, SMT DEF Sky!Angle
<1>7. Sky!Wrap180(model.ha + Sky!Wrap180(ha - model.ha)) = ha
  BY <1>2, <1>4, SMT DEF Sky!Wrap180, Sky!Angle, Sky!Turn, Sky!Half
<1>8. model.dec + (actual.dec - model.dec) = actual.dec
  BY <1>2, <1>3, SMT
<1>9. model.ha + Sky!Wrap180(ha - model.ha) \in Int
  BY <1>2, <1>6
<1>10. Sky!Fold(model.ha + Sky!Wrap180(ha - model.ha), actual.dec) = [ha |-> ha, dec |-> actual.dec]
  BY <1>3, <1>7, <1>9, NothingToFold
<1> DEFINE offset == Sky!SyncTo(actual, axes, lst)
<1>11. offset.ha = Sky!Wrap180(ha - model.ha) /\ offset.dec = actual.dec - model.dec
  BY <1>5
<1> HIDE DEF offset
<1>12. Sky!Fold(model.ha + offset.ha, model.dec + offset.dec) = [ha |-> ha, dec |-> actual.dec]
  BY <1>8, <1>10, <1>11
<1>13. Sky!SkyFromAxes(axes, offset, lst) = [ra |-> (lst - ha) % Sky!Turn, dec |-> actual.dec]
  BY <1>12, ReadingUnfolded DEF model
<1> QED
  BY <1>4, <1>13 DEF Pointing, offset

-----------------------------------------------------------------------------
(* Slewing *)

LEMMA PlaceIsAPointing ==
  \A target \in Pointing, offset \in Offset, lst \in Int :
    /\ Sky!Unsynced(target, offset, lst).ha \in Sky!Angle
    /\ Sky!Unsynced(target, offset, lst).dec \in Sky!Declination
<1> SUFFICES ASSUME NEW target \in Pointing, NEW offset \in Offset, NEW lst \in Int
             PROVE  /\ Sky!Unsynced(target, offset, lst).ha \in Sky!Angle
                    /\ Sky!Unsynced(target, offset, lst).dec \in Sky!Declination
  OBVIOUS
<1>1. Sky!HourAngle(target.ra, lst) \in Int /\ target.dec \in Int
  BY HourAnglesCome DEF Pointing, Sky!Angle, Sky!Declination
<1>2. Sky!HourAngle(target.ra, lst) - offset.ha \in Int /\ target.dec - offset.dec \in Int
  BY <1>1, SMT DEF Offset
<1> QED
  BY <1>2, FoldIsAPointing DEF Sky!Unsynced

(* slew_to, then status: unless the offsets carry the target over a pole, the
   axes a slew sends the mount to are read back as the target, whichever side
   of the pier the telescope is on now. *)
THEOREM GotoReadsBack ==
  \A target \in Pointing, offset \in Offset, lst \in Int, decNow \in Int :
    -Sky!Quarter <= target.dec - offset.dec /\ target.dec - offset.dec < Sky!Quarter =>
      Sky!SkyFromAxes(Sky!AxesFromSky(target, offset, lst, decNow), offset, lst) = target
<1> SUFFICES ASSUME NEW target \in Pointing, NEW offset \in Offset, NEW lst \in Int, NEW decNow \in Int,
                    -Sky!Quarter <= target.dec - offset.dec, target.dec - offset.dec < Sky!Quarter
             PROVE  Sky!SkyFromAxes(Sky!AxesFromSky(target, offset, lst, decNow), offset, lst) = target
  OBVIOUS
<1> DEFINE place == Sky!Unsynced(target, offset, lst)
           side == Sky!SideChosen(place, decNow)
           axes == Sky!AxesFromSky(target, offset, lst, decNow)
           ha == Sky!HourAngle(target.ra, lst)
<1>1. /\ target.ra \in Sky!RightAscension /\ target.dec \in Sky!Declination
      /\ target.dec \in Int /\ offset.ha \in Int /\ offset.dec \in Int
  BY DEF Pointing, Offset, Sky!Declination
<1>2. ha \in Sky!Angle /\ ha \in Int /\ (lst - ha) % Sky!Turn = target.ra
  BY <1>1, HourAnglesCome DEF Sky!Angle
<1>3. ha - offset.ha \in Int /\ target.dec - offset.dec \in Int
  BY <1>1, <1>2, SMT
<1>4. target.dec - offset.dec \in Sky!Declination /\ target.dec - offset.dec # Sky!Quarter
  BY <1>3, SMT DEF Sky!Declination, Sky!Quarter
<1>5. place = [ha |-> Sky!Wrap180(ha - offset.ha), dec |-> target.dec - offset.dec]
  BY <1>3, <1>4, NothingToFold DEF Sky!Unsynced
<1>6. place.ha \in Sky!Angle /\ place.dec \in Sky!Declination /\ place.dec # Sky!Quarter
  BY <1>4, <1>5, PlaceIsAPointing
<1>7. side \in {"east", "west"}
  BY DEF Sky!SideChosen, Sky!SideOf, Sky!GemSideFor
<1>8. axes = Sky!GemAxes(place.ha, place.dec, side)
  BY DEF Sky!AxesFromSky
<1> HIDE DEF place, side, axes, ha
<1>9. Sky!GemSky(axes.ra, axes.dec) = [ha |-> place.ha, dec |-> place.dec]
  BY <1>6, <1>7, <1>8, AxesPointThere
<1>10. place.ha = Sky!Wrap180(ha - offset.ha) /\ place.dec = target.dec - offset.dec
  BY <1>5
<1>11. Sky!Wrap180(place.ha + offset.ha) = ha /\ place.ha + offset.ha \in Int
  BY <1>1, <1>2, <1>10, SMT DEF Sky!Wrap180, Sky!Angle, Sky!Turn, Sky!Half
<1>12. place.dec + offset.dec = target.dec
  BY <1>1, <1>10, SMT
<1>13. Sky!Fold(place.ha + offset.ha, place.dec + offset.dec) = [ha |-> ha, dec |-> target.dec]
  BY <1>1, <1>11, <1>12, NothingToFold
<1>14. Sky!GemSky(axes.ra, axes.dec).ha = place.ha /\ Sky!GemSky(axes.ra, axes.dec).dec = place.dec
  BY <1>9
<1>15. Sky!SkyFromAxes(axes, offset, lst) = [ra |-> (lst - ha) % Sky!Turn, dec |-> target.dec]
  BY <1>13, <1>14, ReadingUnfolded
<1> QED
  BY <1>2, <1>15 DEF Pointing, axes

WeightDown(raAxis) == Sky!Size(raAxis) <= Sky!Quarter + Margin

LEMMA SidesKeepTheWeightDown ==
  ASSUME Margin \in Nat, NEW ha \in Sky!Angle, NEW dec \in Sky!Declination
  PROVE  WeightDown(Sky!GemAxes(ha, dec, Sky!GemSideFor(ha)).ra)
<1>1. ha \in Int /\ Sky!Wrap180(ha) = ha
  BY AnglesStay DEF Sky!Angle
<1>2. CASE ha < 0
  <2>1. Sky!GemAxes(ha, dec, Sky!GemSideFor(ha)).ra = Sky!Wrap180(ha + Sky!Quarter)
    BY <1>1, <1>2 DEF Sky!GemSideFor, Sky!GemAxes
  <2>2. Sky!Wrap180(ha + Sky!Quarter) = ha + Sky!Quarter
    BY <1>2, SMT DEF Sky!Wrap180, Sky!Angle, Sky!Turn, Sky!Half, Sky!Quarter
  <2> QED
    BY <1>1, <1>2, <2>1, <2>2, SMT DEF WeightDown, Sky!Size, Sky!Angle, Sky!Half, Sky!Quarter
<1>3. CASE ~(ha < 0)
  <2>1. Sky!GemAxes(ha, dec, Sky!GemSideFor(ha)).ra = Sky!Wrap180(ha - Sky!Quarter)
    BY <1>1, <1>3 DEF Sky!GemSideFor, Sky!GemAxes
  <2>2. Sky!Wrap180(ha - Sky!Quarter) = ha - Sky!Quarter
    BY <1>3, SMT DEF Sky!Wrap180, Sky!Angle, Sky!Turn, Sky!Half, Sky!Quarter
  <2> QED
    BY <1>1, <1>3, <2>1, <2>2, SMT DEF WeightDown, Sky!Size, Sky!Angle, Sky!Half, Sky!Quarter
<1> QED
  BY <1>2, <1>3

(* slew_to: targets "are chosen to keep it down, so the direct path does too".
   From wherever the counterweight is down, within the margin, to wherever a
   slew sends it, it is down all the way. *)
THEOREM CounterweightStaysDown ==
  ASSUME Margin \in Nat
  PROVE  \A target \in Pointing, offset \in Offset, lst \in Int, from \in Axes, ra \in Int :
           LET to == Sky!AxesFromSky(target, offset, lst, from.dec)
               move == Sky!Moves(from, to).ra
           IN  /\ WeightDown(from.ra)
               /\ \/ from.ra <= ra /\ ra <= from.ra + move
                  \/ from.ra + move <= ra /\ ra <= from.ra
               => WeightDown(ra)
<1> SUFFICES ASSUME NEW target \in Pointing, NEW offset \in Offset, NEW lst \in Int,
                    NEW from \in Axes, NEW ra \in Int, WeightDown(from.ra)
             PROVE  LET to == Sky!AxesFromSky(target, offset, lst, from.dec)
                        move == Sky!Moves(from, to).ra
                    IN  \/ from.ra <= ra /\ ra <= from.ra + move
                        \/ from.ra + move <= ra /\ ra <= from.ra
                        => WeightDown(ra)
  OBVIOUS
<1> DEFINE place == Sky!Unsynced(target, offset, lst)
           to == Sky!AxesFromSky(target, offset, lst, from.dec)
           side == Sky!SideChosen(place, from.dec)
<1>1. place.ha \in Sky!Angle /\ place.dec \in Sky!Declination
  BY PlaceIsAPointing
<1>2. to = Sky!GemAxes(place.ha, place.dec, side)
  BY DEF Sky!AxesFromSky
<1>3. \/ side = Sky!GemSideFor(place.ha)
      \/ WeightDown(Sky!GemAxes(place.ha, place.dec, side).ra)
  BY DEF Sky!SideChosen, WeightDown
<1> HIDE DEF place, to, side
<1>4. WeightDown(to.ra)
  BY <1>1, <1>2, <1>3, SidesKeepTheWeightDown
<1>5. to.ra \in Int
  <2>1. place.ha - Sky!Quarter \in Int /\ place.ha + Sky!Quarter \in Int
    BY <1>1, SMT DEF Sky!Angle, Sky!Quarter
  <2>2. to.ra \in {Sky!Wrap180(place.ha - Sky!Quarter), Sky!Wrap180(place.ha + Sky!Quarter)}
    BY <1>2 DEF Sky!GemAxes
  <2> QED
    BY <2>1, <2>2, Wraps DEF Sky!Angle
<1>6. from.ra \in Int
  BY DEF Axes
<1>7. Sky!Moves(from, to).ra = to.ra - from.ra
  BY DEF Sky!Moves
<1>8. from.ra + (to.ra - from.ra) = to.ra
  BY <1>5, <1>6, SMT
<1>9. (from.ra <= ra /\ ra <= to.ra) \/ (to.ra <= ra /\ ra <= from.ra) => WeightDown(ra)
  BY <1>4, <1>5, <1>6, SMT DEF WeightDown, Sky!Size, Sky!Quarter
<1> QED
  BY <1>7, <1>8, <1>9 DEF to

(* meridian_margin_deg: "a target just across the meridian does not cost a
   flip".  Within the margin of it, the telescope stays on its side. *)
THEOREM NoFlipNearTheMeridian ==
  ASSUME Margin \in Nat, Margin < Sky!Quarter
  PROVE  \A target \in Pointing, offset \in Offset, lst \in Int, decNow \in Int :
           LET place == Sky!Unsynced(target, offset, lst)
           IN  decNow # 0 /\ Sky!Size(place.ha) <= Margin /\ place.dec # Sky!Quarter =>
                 Sky!SideOf(Sky!AxesFromSky(target, offset, lst, decNow).dec) = Sky!SideOf(decNow)
<1> SUFFICES ASSUME NEW target \in Pointing, NEW offset \in Offset, NEW lst \in Int,
                    NEW decNow \in Int, decNow # 0,
                    Sky!Size(Sky!Unsynced(target, offset, lst).ha) <= Margin,
                    Sky!Unsynced(target, offset, lst).dec # Sky!Quarter
             PROVE  Sky!SideOf(Sky!AxesFromSky(target, offset, lst, decNow).dec) = Sky!SideOf(decNow)
  OBVIOUS
<1> DEFINE place == Sky!Unsynced(target, offset, lst)
<1>1. place.ha \in Sky!Angle /\ place.dec \in Sky!Declination
  BY PlaceIsAPointing
<1>2. Sky!SideOf(decNow) \in {"east", "west"}
  BY DEF Sky!SideOf
<1>3. Sky!AxesFromSky(target, offset, lst, decNow) = Sky!GemAxes(place.ha, place.dec, Sky!SideChosen(place, decNow))
  BY DEF Sky!AxesFromSky
<1> HIDE DEF place
<1>4. Sky!Size(place.ha) <= Margin /\ place.dec # Sky!Quarter
  BY DEF place
<1>5. /\ Sky!Wrap180(place.ha - Sky!Quarter) = place.ha - Sky!Quarter
      /\ Sky!Wrap180(place.ha + Sky!Quarter) = place.ha + Sky!Quarter
  BY <1>1, <1>4, SMT DEF Sky!Size, Sky!Wrap180, Sky!Angle, Sky!Turn, Sky!Half, Sky!Quarter
<1>6. /\ Sky!Size(place.ha - Sky!Quarter) <= Sky!Quarter + Margin
      /\ Sky!Size(place.ha + Sky!Quarter) <= Sky!Quarter + Margin
  BY <1>1, <1>4, SMT DEF Sky!Size, Sky!Angle, Sky!Quarter
<1>7. Sky!Size(Sky!GemAxes(place.ha, place.dec, Sky!SideOf(decNow)).ra) <= Sky!Quarter + Margin
  BY <1>2, <1>5, <1>6 DEF Sky!GemAxes
<1>8. Sky!SideChosen(place, decNow) = Sky!SideOf(decNow)
  BY <1>7 DEF Sky!SideChosen
<1>9. Sky!SideOf(Sky!GemAxes(place.ha, place.dec, Sky!SideOf(decNow)).dec) = Sky!SideOf(decNow)
  BY <1>1, <1>2, <1>4, AxesPointThere
<1> QED
  BY <1>3, <1>8, <1>9

(* _check_reachable asks without knowing the side, slew_to once it knows: what
   the first lets through the second does not refuse, as long as the limit
   leaves room for the margin.  And with the limit half a turn or more, as it
   is unless configured otherwise, neither ever refuses anything. *)
THEOREM LimitsAgree ==
  ASSUME Margin \in Nat, Limit \in Int, Sky!Quarter + Margin <= Limit
  PROVE  \A target \in Pointing, offset \in Offset, lst \in Int, decNow \in Int :
           /\ Sky!CheckReachable(target, offset, lst)
                => Sky!Allowed(Sky!AxesFromSky(target, offset, lst, decNow))
           /\ Sky!Half <= Limit => Sky!CheckReachable(target, offset, lst)
<1> SUFFICES ASSUME NEW target \in Pointing, NEW offset \in Offset, NEW lst \in Int, NEW decNow \in Int
             PROVE  /\ Sky!CheckReachable(target, offset, lst)
                         => Sky!Allowed(Sky!AxesFromSky(target, offset, lst, decNow))
                    /\ Sky!Half <= Limit => Sky!CheckReachable(target, offset, lst)
  OBVIOUS
<1> DEFINE place == Sky!Unsynced(target, offset, lst)
<1>1. place.ha \in Sky!Angle /\ place.dec \in Sky!Declination
  BY PlaceIsAPointing
<1>2. \A d \in Int : /\ Sky!SideChosen(place, d) \in {"east", "west"}
                     /\ Sky!AxesFromSky(target, offset, lst, d)
                          = Sky!GemAxes(place.ha, place.dec, Sky!SideChosen(place, d))
  BY DEF Sky!AxesFromSky, Sky!SideChosen, Sky!SideOf, Sky!GemSideFor
<1>3. \A d \in Int : \/ Sky!SideChosen(place, d) = Sky!GemSideFor(place.ha)
                     \/ Sky!Size(Sky!GemAxes(place.ha, place.dec, Sky!SideChosen(place, d)).ra) <= Sky!Quarter + Margin
  BY DEF Sky!SideChosen
<1> HIDE DEF place
<1>4. \A d \in Int : Sky!Size(Sky!AxesFromSky(target, offset, lst, d).ra) <= Sky!Quarter + Margin
  BY <1>1, <1>2, <1>3, SidesKeepTheWeightDown DEF WeightDown
<1>5. \A s \in {"east", "west"} :
        Sky!GemAxes(place.ha, place.dec, s).dec \in {Sky!Quarter - place.dec, place.dec - Sky!Quarter}
  BY DEF Sky!GemAxes
<1>6. /\ Sky!Size(Sky!Quarter - place.dec) = Sky!Quarter - place.dec
      /\ Sky!Size(place.dec - Sky!Quarter) = Sky!Quarter - place.dec
      /\ Sky!Quarter - place.dec <= Sky!Half /\ Sky!Quarter - place.dec \in Int
  BY <1>1, SMT DEF Sky!Size, Sky!Declination, Sky!Quarter, Sky!Half
<1>7. \A d \in Int : Sky!Size(Sky!AxesFromSky(target, offset, lst, d).dec) = Sky!Quarter - place.dec
  BY <1>2, <1>5, <1>6
<1>8. Sky!CheckReachable(target, offset, lst) <=> Sky!Quarter - place.dec <= Limit
  BY <1>7 DEF Sky!CheckReachable
<1>9. Sky!Size(Sky!AxesFromSky(target, offset, lst, decNow).ra) <= Limit
  <2>1. Sky!GemAxes(place.ha, place.dec, Sky!SideChosen(place, decNow)).ra
          \in {Sky!Wrap180(place.ha - Sky!Quarter), Sky!Wrap180(place.ha + Sky!Quarter)}
    BY <1>2 DEF Sky!GemAxes
  <2>2. place.ha - Sky!Quarter \in Int /\ place.ha + Sky!Quarter \in Int
    BY <1>1, SMT DEF Sky!Angle, Sky!Quarter
  <2>3. Sky!AxesFromSky(target, offset, lst, decNow).ra \in Int
    BY <1>2, <2>1, <2>2, Wraps DEF Sky!Angle
  <2> QED
    BY <1>4, <2>3, SMT DEF Sky!Size, Sky!Quarter
<1>10. Sky!Half <= Limit => Sky!Quarter - place.dec <= Limit
  BY <1>6, SMT DEF Sky!Half
<1> QED
  BY <1>7, <1>8, <1>9, <1>10 DEF Sky!Allowed

-----------------------------------------------------------------------------
(* Nudges *)

(* move_by: north raises the declination on whichever side of the pier the
   telescope is, as far as the pole; west raises the hour angle. *)
THEOREM NudgesGoTheirWay ==
  \A axes \in Axes, travel \in Nat :
    /\ axes.dec # 0 /\ travel <= Sky!Size(axes.dec) /\ Sky!Size(axes.dec) <= Sky!Half =>
         Sky!GemSky(axes.ra, Sky!MoveBy(axes, "north", travel).dec).dec
           = Sky!GemSky(axes.ra, axes.dec).dec + travel
    /\ Sky!Size(axes.dec) <= Sky!Half =>
         Sky!GemSky(Sky!MoveBy(axes, "west", travel).ra, axes.dec).ha
           = Sky!Wrap180(Sky!GemSky(axes.ra, axes.dec).ha + travel)
<1> SUFFICES ASSUME NEW axes \in Axes, NEW travel \in Nat, Sky!Size(axes.dec) <= Sky!Half
             PROVE  /\ axes.dec # 0 /\ travel <= Sky!Size(axes.dec) =>
                         Sky!GemSky(axes.ra, Sky!MoveBy(axes, "north", travel).dec).dec
                           = Sky!GemSky(axes.ra, axes.dec).dec + travel
                    /\ Sky!GemSky(Sky!MoveBy(axes, "west", travel).ra, axes.dec).ha
                         = Sky!Wrap180(Sky!GemSky(axes.ra, axes.dec).ha + travel)
  OBVIOUS
<1>1. axes.ra \in Int /\ axes.dec \in Int
  BY DEF Axes
<1>2. \A ra, dec \in Int : Sky!Size(dec) <= Sky!Half =>
        Sky!GemSky(ra, dec) = IF dec > 0
                          THEN [ha |-> Sky!Wrap180(ra + Sky!Quarter), dec |-> Sky!Quarter - dec]
                          ELSE [ha |-> Sky!Wrap180(ra - Sky!Quarter), dec |-> Sky!Quarter + dec]
  <2> SUFFICES ASSUME NEW ra \in Int, NEW dec \in Int, Sky!Size(dec) <= Sky!Half
               PROVE  Sky!GemSky(ra, dec) = IF dec > 0
                        THEN [ha |-> Sky!Wrap180(ra + Sky!Quarter), dec |-> Sky!Quarter - dec]
                        ELSE [ha |-> Sky!Wrap180(ra - Sky!Quarter), dec |-> Sky!Quarter + dec]
    OBVIOUS
  <2>1. ra + Sky!Quarter \in Int /\ ra - Sky!Quarter \in Int
    BY SMT DEF Sky!Quarter
  <2>2. CASE dec > 0
    <3>1. Sky!Quarter - dec \in Sky!Declination
      BY <2>2, SMT DEF Sky!Size, Sky!Declination, Sky!Quarter, Sky!Half
    <3> QED
      BY <2>1, <2>2, <3>1, NothingToFold DEF Sky!GemSky, Sky!SideOf
  <2>3. CASE ~(dec > 0)
    <3>1. Sky!Quarter + dec \in Sky!Declination
      BY <2>3, SMT DEF Sky!Size, Sky!Declination, Sky!Quarter, Sky!Half
    <3> QED
      BY <2>1, <2>3, <3>1, NothingToFold DEF Sky!GemSky, Sky!SideOf
  <2> QED
    BY <2>2, <2>3
<1>3. ASSUME axes.dec # 0, travel <= Sky!Size(axes.dec)
      PROVE  Sky!GemSky(axes.ra, Sky!MoveBy(axes, "north", travel).dec).dec
               = Sky!GemSky(axes.ra, axes.dec).dec + travel
  <2> DEFINE moved == axes.dec + Sky!NorthSign(axes.dec) * travel
  <2>1. Sky!MoveBy(axes, "north", travel).dec = moved
    BY DEF Sky!MoveBy, Axes
  <2>2. CASE axes.dec > 0
    <3>1. moved = axes.dec - travel
      BY <1>1, <2>2, SMT DEF Sky!NorthSign
    <3>2. moved \in Int /\ Sky!Size(moved) <= Sky!Half /\ moved >= 0
      BY <1>1, <1>3, <2>2, <3>1, SMT DEF Sky!Size, Sky!Half
    <3>3. Sky!GemSky(axes.ra, moved).dec = Sky!Quarter - moved
      <4>1. CASE moved > 0
        BY <1>1, <1>2, <3>2, <4>1
      <4>2. CASE moved = 0
        <5>1. Sky!Quarter + 0 = Sky!Quarter - 0 /\ ~(0 > 0) /\ Sky!Size(0) <= Sky!Half
          BY SMT DEF Sky!Quarter, Sky!Half, Sky!Size
        <5>2. Sky!GemSky(axes.ra, 0).dec = Sky!Quarter + 0
          BY <1>1, <1>2, <5>1
        <5> QED
          BY <4>2, <5>1, <5>2
      <4> QED
        BY <3>2, <4>1, <4>2, SMT
    <3>4. Sky!GemSky(axes.ra, axes.dec).dec = Sky!Quarter - axes.dec
      BY <1>1, <1>2, <2>2
    <3> QED
      BY <1>1, <2>1, <3>1, <3>3, <3>4, SMT DEF Sky!Quarter
  <2>3. CASE axes.dec < 0
    <3>1. moved = axes.dec + travel
      BY <1>1, <2>3, SMT DEF Sky!NorthSign
    <3>2. moved \in Int /\ Sky!Size(moved) <= Sky!Half /\ ~(moved > 0)
      BY <1>1, <1>3, <2>3, <3>1, SMT DEF Sky!Size, Sky!Half
    <3>3. Sky!GemSky(axes.ra, moved).dec = Sky!Quarter + moved
      BY <1>1, <1>2, <3>2
    <3>4. ~(axes.dec > 0)
      BY <1>1, <2>3, SMT
    <3>5. Sky!GemSky(axes.ra, axes.dec).dec = Sky!Quarter + axes.dec
      BY <1>1, <1>2, <3>4
    <3> QED
      BY <1>1, <2>1, <3>1, <3>3, <3>5, SMT DEF Sky!Quarter
  <2> QED
    BY <1>1, <1>3, <2>2, <2>3, SMT
<1>4. Sky!GemSky(Sky!MoveBy(axes, "west", travel).ra, axes.dec).ha
        = Sky!Wrap180(Sky!GemSky(axes.ra, axes.dec).ha + travel)
  <2> DEFINE west == axes.ra + travel
  <2>1. Sky!MoveBy(axes, "west", travel).ra = west
    BY DEF Sky!MoveBy, Axes
  <2>2. west \in Int
    BY <1>1, SMT
  <2>3. /\ Sky!Wrap180(west + Sky!Quarter) = Sky!Wrap180(Sky!Wrap180(axes.ra + Sky!Quarter) + travel)
        /\ Sky!Wrap180(west - Sky!Quarter) = Sky!Wrap180(Sky!Wrap180(axes.ra - Sky!Quarter) + travel)
    BY <1>1, SMT DEF Sky!Wrap180, Sky!Turn, Sky!Half, Sky!Quarter
  <2> HIDE DEF west
  <2>4. CASE axes.dec > 0
    <3>1. Sky!GemSky(west, axes.dec).ha = Sky!Wrap180(west + Sky!Quarter)
      BY <1>1, <1>2, <2>2, <2>4
    <3>2. Sky!GemSky(axes.ra, axes.dec).ha = Sky!Wrap180(axes.ra + Sky!Quarter)
      BY <1>1, <1>2, <2>4
    <3> QED
      BY <2>1, <2>3, <3>1, <3>2
  <2>5. CASE ~(axes.dec > 0)
    <3>1. Sky!GemSky(west, axes.dec).ha = Sky!Wrap180(west - Sky!Quarter)
      BY <1>1, <1>2, <2>2, <2>5
    <3>2. Sky!GemSky(axes.ra, axes.dec).ha = Sky!Wrap180(axes.ra - Sky!Quarter)
      BY <1>1, <1>2, <2>5
    <3> QED
      BY <2>1, <2>3, <3>1, <3>2
  <2> QED
    BY <2>4, <2>5
<1> QED
  BY <1>3, <1>4
=============================================================================
