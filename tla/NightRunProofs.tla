--------------------------- MODULE NightRunProofs ---------------------------
(***************************************************************************)
(* Proofs about NightRun, for any targets and plan, any counts of frames,  *)
(* passes, points and samples, any focuser whose backlash is allowed for,  *)
(* and any number of tasks and requests.                                   *)
(***************************************************************************)
EXTENDS NightRun, SequenceTheorems, TLAPS

-----------------------------------------------------------------------------
(* The inductive invariant                                                 *)

\* A task that has not begun its step has done nothing of it.
Fresh(t) == t.pc \in {"submitted", "begin"} /\ t.index = 1 /\ t.usable = 0

\* There is a step under way; it counts its passes and samples, and has what it
\* is about to solve or save.
TaskIsSound ==
  Running =>
    /\ task.todo # <<>>
    /\ task.pc \in {"submitted", "begin"} => Fresh(task)
    /\ Step.op = "centre" /\ task.pc \in {"exposing", "solving"} => task.pass <= MaxPasses
    /\ task.pc \in {"lowering", "raising", "sampling"} => task.usable < task.index /\ task.index <= Samples
    /\ task.pc = "solving" => task.seen \in PointingType
    /\ task.pc = "saving" => task.seen \in LightType

\* A session's block: centring and focus, and then its lights.
Shaped(t) ==
  /\ t.todo[Len(t.todo)] = Shoot(Plan[t.block].frames)
  /\ \A i \in 1..(Len(t.todo) - 1) : t.todo[i].op \in {"centre", "focus"}

\* The blocks that are over have an outcome, the one that runs has its lights so
\* far, those to come have none.
SessionIsCounted ==
  /\ DOMAIN outcome \subseteq DOMAIN Plan
  /\ \A b \in DOMAIN outcome : outcome[b].frames <= saved[b]
  /\ Session =>
       /\ Shaped(task)
       /\ Len(outcome) = task.block - 1
       /\ saved[task.block] = IF Step.op = "shoot" THEN task.index - 1 ELSE 0
       /\ \A b \in DOMAIN Plan : b > task.block => saved[b] = 0

\* Where the mount is: on its way it is nowhere near; it leads to what is active
\* if it was named; and it is at what is active, unless it went astray.
MountIsKnown ==
  /\ slew # None => astray /\ mount.at = Pointing(Sky, FALSE) /\ centred = None
  /\ slew # None /\ active # None => (slew.named => slew.to = active)
  /\ active # None /\ ~astray => mount.at.place = active
  /\ (mount.state = "slewing") = (slew # None)
  /\ mount.state = "parked" => ~mount.tracking /\ mount.at.place = Home
  /\ mount.state = "tracking" => mount.tracking
  /\ centred # None => slew = None /\ mount.at = Pointing(centred, TRUE)

\* What a task goes by is what it named, and what it saw, until it is moved.
TaskIsOnTarget ==
  /\ Running /\ Step.op = "centre" /\ task.pc \notin {"submitted", "begin"}
       => active \in {Step.target, None}
  /\ Running /\ task.pc = "solving" /\ ~task.moved
       => (task.seen.near => slew = None /\ mount.at = task.seen)

\* A light has the name of where it was taken, unless the mount was astray.
NamedRight(l) == l.label # None /\ ~l.astray => l.label = l.place
LightsAreRight ==
  /\ Running /\ task.pc = "saving" => NamedRight(task.seen)
  /\ filed # None => NamedRight(filed)

\* Where the focuser is, or will be when it stands still.
Headed == IF Still THEN focuser.position ELSE focuser.goal

\* It comes up from far enough below to take the slack up, or has done so.
ComesUp ==
  IF Still THEN focuser.slack = 0
  ELSE /\ focuser.position <= focuser.goal
       /\ focuser.slack = 0 \/ focuser.goal - focuser.position >= Backlash

FocusIsMeasured ==
  Running =>
    /\ task.pc \in {"lowering", "raising", "sampling"} => task.start \in 0..MaxPosition
    /\ task.pc = "lowering" => task.index = 1 /\ Headed = Clamped(Below(Position(task, 1)))
    /\ task.pc \in {"raising", "sampling"} =>
         /\ Headed = Clamped(Position(task, task.index))
         /\ Below(Position(task, 1)) >= 0 => ComesUp
    /\ task.pc \in {"sampling", "checking"} => Still
    /\ task.pc = "returning" => Headed = Clamped(Below(task.best))
    /\ task.pc \in {"approaching", "checking"} =>
         (Below(task.best) >= 0 /\ task.best <= MaxPosition => ComesUp)

NightInv ==
  TypeOK /\ TaskIsSound /\ SessionIsCounted /\ MountIsKnown /\ TaskIsOnTarget
    /\ LightsAreRight /\ FocusIsMeasured

-----------------------------------------------------------------------------
(* Programs and steps                                                      *)

\* What a step says of itself: the ones that point have a target, and so on.
LEMMA StepFields ==
  ASSUME NEW s \in StepType
  PROVE /\ s.op \in Ops
        /\ s.op \in {"centre", "check"} => s.target \in Targets
        /\ s.op = "centre" => s.solve \in BOOLEAN
        /\ s.op = "shoot" => s.frames \in Nat \ {0}
<1>1. CASE s \in [op : Ops \ {"centre", "check", "shoot"}]
  BY <1>1 DEF Ops
<1>2. CASE s \in [op : {"check"}, target : Targets]
  BY <1>2 DEF Ops
<1>3. CASE s \in [op : {"shoot"}, frames : Nat \ {0}]
  BY <1>3 DEF Ops
<1>4. CASE s \in [op : {"centre"}, target : Targets, solve : BOOLEAN]
  BY <1>4 DEF Ops
<1>5. QED BY <1>1, <1>2, <1>3, <1>4 DEF StepType

\* The steps that are built are steps.
LEMMA StepsAreTyped ==
  /\ \A t \in Targets, solve \in BOOLEAN : Centre(t, solve) \in StepType
  /\ \A n \in Nat \ {0} : Shoot(n) \in StepType
  /\ \A op \in Ops \ {"centre", "check", "shoot"} : Do(op) \in StepType
  /\ \A t \in Targets : [op |-> "check", target |-> t] \in StepType
<1>1. \A t \in Targets, solve \in BOOLEAN : Centre(t, solve) \in StepType
  BY DEF Centre, StepType
<1>2. \A n \in Nat \ {0} : Shoot(n) \in StepType
  BY DEF Shoot, StepType
<1>3. \A op \in Ops \ {"centre", "check", "shoot"} : Do(op) \in StepType
  BY DEF Do, StepType
<1>4. \A t \in Targets : [op |-> "check", target |-> t] \in StepType
  BY DEF StepType
<1>5. QED BY <1>1, <1>2, <1>3, <1>4

\* A block is a list of steps, and its last one takes its lights.
LEMMA BlocksAreShaped ==
  ASSUME NEW k \in DOMAIN Plan, NEW pc \in PCs
  PROVE LET t == NewTask("session", k, BlockProgram(Plan[k]), pc)
        IN /\ t.todo \in Seq(StepType) /\ t.todo # <<>>
           /\ Shaped(t)
<1> DEFINE b == Plan[k]
<1> DEFINE c == IF b.centre THEN <<Centre(b.target, TRUE)>> ELSE <<>>
<1> DEFINE f == IF b.focus THEN <<Do("focus")>> ELSE <<>>
<1> DEFINE todo == BlockProgram(b)
<1>1. b \in [target : Targets, centre : BOOLEAN, focus : BOOLEAN, frames : Nat \ {0}]
  <2>1. Plan \in Seq([target : Targets, centre : BOOLEAN, focus : BOOLEAN, frames : Nat \ {0}])
    BY PlanAssumption
  <2>2. k \in 1..Len(Plan)
    BY <2>1
  <2>3. QED BY <2>1, <2>2, ElementOfSeq
<1>2. /\ Centre(b.target, TRUE) \in StepType /\ Centre(b.target, TRUE).op = "centre"
      /\ Do("focus") \in StepType /\ Do("focus").op = "focus"
      /\ Shoot(b.frames) \in StepType
  <2>1. "focus" \in Ops \ {"centre", "check", "shoot"}
    BY DEF Ops
  <2>2. QED BY <1>1, <2>1, StepsAreTyped DEF Centre, Do
<1>3. /\ c \in Seq(StepType) /\ Len(c) \in {0, 1} /\ \A i \in 1..Len(c) : c[i].op = "centre"
      /\ f \in Seq(StepType) /\ Len(f) \in {0, 1} /\ \A i \in 1..Len(f) : f[i].op = "focus"
  <2>1. \A step \in StepType : /\ <<step>> \in Seq(StepType) /\ Len(<<step>>) = 1
                               /\ <<step>>[1] = step
    OBVIOUS
  <2>2. <<>> \in Seq(StepType) /\ Len(<<>>) = 0
    OBVIOUS
  <2>3. /\ c = <<>> \/ c = <<Centre(b.target, TRUE)>>
        /\ f = <<>> \/ f = <<Do("focus")>>
    OBVIOUS
  <2> HIDE DEF b, c, f
  <2>4. /\ c \in Seq(StepType) /\ Len(c) \in {0, 1} /\ \A i \in 1..Len(c) : c[i].op = "centre"
    <3>1. CASE c = <<>>
      BY <3>1, <2>2
    <3>2. CASE c = <<Centre(b.target, TRUE)>>
      <4> DEFINE p == Centre(b.target, TRUE)
      <4>1. p \in StepType /\ p.op = "centre" /\ c = <<p>>
        BY <3>2, <1>2
      <4> HIDE DEF p
      <4>2. QED BY <4>1, <2>1
    <3>3. QED BY <3>1, <3>2, <2>3
  <2>5. /\ f \in Seq(StepType) /\ Len(f) \in {0, 1} /\ \A i \in 1..Len(f) : f[i].op = "focus"
    <3>1. CASE f = <<>>
      BY <3>1, <2>2
    <3>2. CASE f = <<Do("focus")>>
      BY <3>2, <2>1, <1>2
    <3>3. QED BY <3>1, <3>2, <2>3
  <2>6. QED BY <2>4, <2>5
<1>4. todo = (c \o f) \o <<Shoot(b.frames)>>
  BY DEF BlockProgram
<1> HIDE DEF c, f
<1>5. /\ c \o f \in Seq(StepType) /\ Len(c \o f) = Len(c) + Len(f)
      /\ \A i \in 1..Len(c \o f) : (c \o f)[i].op \in {"centre", "focus"}
  BY <1>3
<1> DEFINE g == c \o f
<1> HIDE DEF g
<1>6. /\ todo \in Seq(StepType) /\ Len(todo) = Len(g) + 1
      /\ todo[Len(g) + 1] = Shoot(b.frames)
      /\ \A i \in 1..Len(g) : todo[i] = g[i]
  BY <1>4, <1>5, <1>2 DEF g
<1> HIDE DEF todo
<1>7. LET t == NewTask("session", k, todo, pc)
      IN t.todo = todo /\ t.block = k
  BY DEF NewTask
<1>8. todo # <<>> /\ Len(g) \in Nat /\ Len(todo) - 1 = Len(g)
  BY <1>5, <1>6 DEF g
<1>9. QED BY <1>5, <1>6, <1>7, <1>8 DEF Shaped, g, todo

\* What is submitted is a list of steps, a session's the first block.
LEMMA ProgramsAreShaped ==
  ASSUME NEW kind \in Kinds, NEW todo \in Programs(kind)
  PROVE /\ todo \in Seq(StepType) /\ todo # <<>>
        /\ kind = "session" => Shaped(NewTask("session", 1, todo, "submitted"))
<1>1. 1 \in DOMAIN Plan
  BY PlanAssumption
<1>2. \A s \in StepType : <<s>> \in Seq(StepType) /\ <<s>> # <<>>
  OBVIOUS
<1>3. CASE kind = "session"
  <2>1. todo = BlockProgram(Plan[1])
    BY <1>3 DEF Programs
  <2>2. "submitted" \in PCs
    BY DEF PCs
  <2>3. NewTask("session", 1, todo, "submitted").todo = todo
    BY DEF NewTask
  <2>4. QED BY <1>1, <2>1, <2>2, <2>3, BlocksAreShaped
<1>4. CASE kind \in {"goto", "moon"}
  <2>1. PICK t \in Targets, solve \in BOOLEAN : todo = <<Centre(t, solve)>>
    BY <1>4 DEF Programs
  <2>2. Centre(t, solve) \in StepType
    BY StepsAreTyped
  <2>3. QED BY <1>2, <1>4, <2>1, <2>2
<1>5. CASE kind = "capture"
  <2>1. todo = <<Shoot(Frames)>>
    BY <1>5 DEF Programs
  <2>2. Shoot(Frames) \in StepType
    BY StepsAreTyped, CountsAssumption
  <2>3. QED BY <1>2, <1>5, <2>1, <2>2
<1>6. CASE kind = "reframe"
  <2>1. PICK t \in Targets :
          todo = <<Do("reference"), Centre(t, TRUE), Do("match"), [op |-> "check", target |-> t]>>
    BY <1>6 DEF Programs
  <2> DEFINE a == Do("reference")
             b == Centre(t, TRUE)
             c == Do("match")
             d == [op |-> "check", target |-> t]
  <2>2. a \in StepType /\ b \in StepType /\ c \in StepType /\ d \in StepType
    BY StepsAreTyped DEF Ops
  <2>3. todo = <<a, b, c, d>>
    BY <2>1
  <2> HIDE DEF a, b, c, d
  <2>4. QED BY <1>6, <2>2, <2>3
<1>7. CASE kind \in {"focus", "sweep", "zenith", "watch"}
  <2>1. todo = <<Do(kind)>>
    BY <1>7 DEF Programs
  <2>2. Do(kind) \in StepType
    BY <1>7, StepsAreTyped DEF Ops
  <2>3. QED BY <1>2, <1>7, <2>1, <2>2
<1>8. QED
  BY <1>3, <1>4, <1>5, <1>6, <1>7, KindsAssumption DEF AllKinds

\* A task about to begin is a task, and has done nothing.
LEMMA NewTasksAreTyped ==
  ASSUME NEW kind \in Kinds, NEW block \in DOMAIN Plan, NEW todo \in Seq(StepType), todo # <<>>,
         NEW pc \in {"submitted", "begin"}
  PROVE LET t == NewTask(kind, block, todo, pc)
        IN /\ t \in TaskType /\ Fresh(t)
           /\ t.kind = kind /\ t.block = block /\ t.todo = todo /\ t.pc = pc
<1>1. 1 \in 1..(MaxPasses + 1) /\ 0 \in 0..Samples /\ 1 \in Nat \ {0} /\ 0 \in Int
  BY CountsAssumption
<1>2. pc \in PCs
  BY DEF PCs
<1>3. QED BY <1>1, <1>2 DEF NewTask, TaskType, Fresh

OutcomeType == [how : {"done", "failed", "cancelled"}, frames : Nat]

\* The step under way is a step, and there is a task.
LEMMA StepIsTyped ==
  ASSUME TypeOK, TaskIsSound, Running
  PROVE /\ task \in TaskType /\ task.todo \in Seq(StepType) /\ task.todo # <<>>
        /\ Step \in StepType /\ task.kind \in Kinds
        /\ task.block \in DOMAIN Plan
        /\ task.pc \in PCs
        /\ Step.op \in Ops
        /\ Step.op \in {"centre", "check"} => Step.target \in Targets
        /\ Step.op = "shoot" => Step.frames \in Nat \ {0}
<1>1. task \in TaskType /\ task.todo # <<>>
  BY DEF TypeOK, TaskIsSound, Running
<1>2. task.todo \in Seq(StepType) /\ task.kind \in Kinds /\ task.block \in DOMAIN Plan /\ task.pc \in PCs
  BY <1>1 DEF TaskType
<1>3. Step \in StepType
  BY <1>1, <1>2 DEF Step
<1>4. QED BY <1>1, <1>2, <1>3, StepFields

-----------------------------------------------------------------------------
(* How a step ends                                                         *)

\* A report is one more outcome of a session, and nothing of another task.
LEMMA ReportAppends ==
  ASSUME TypeOK, NEW how \in {"done", "failed", "cancelled"}, NEW frames \in Nat,
         Report(how, frames)
  PROVE /\ outcome' \in Seq(OutcomeType)
        /\ ~Session => outcome' = outcome
        /\ Session => /\ Len(outcome') = Len(outcome) + 1
                      /\ \A b \in 1..Len(outcome) : outcome'[b] = outcome[b]
                      /\ outcome'[Len(outcome) + 1] = [how |-> how, frames |-> frames]
<1>1. outcome \in Seq(OutcomeType) /\ [how |-> how, frames |-> frames] \in OutcomeType
  BY DEF TypeOK, OutcomeType
<1> DEFINE r == [how |-> how, frames |-> frames]
<1>2. outcome' = IF Session THEN Append(outcome, r) ELSE outcome
  BY DEF Report
<1> HIDE DEF r
<1>3. r \in OutcomeType
  BY <1>1 DEF r
<1>4. QED BY <1>1, <1>2, <1>3, AppendProperties DEF r

\* What a block reports is a number of frames.
LEMMA BlockFrames ==
  ASSUME TypeOK, TaskIsSound, Running
  PROVE Plan[task.block].frames \in Nat
<1>1. task.block \in DOMAIN Plan
  BY StepIsTyped
<1>2. Plan \in Seq([target : Targets, centre : BOOLEAN, focus : BOOLEAN, frames : Nat \ {0}])
  BY PlanAssumption
<1>3. Plan[task.block] \in [target : Targets, centre : BOOLEAN, focus : BOOLEAN, frames : Nat \ {0}]
  <2>1. task.block \in 1..Len(Plan)
    BY <1>1, <1>2
  <2>2. QED BY <1>2, <2>1, ElementOfSeq
<1>4. QED BY <1>3

\* After a block there is no task, or the session's next block is about to begin.
LEMMA BlockOverTask ==
  ASSUME TypeOK, TaskIsSound, Running, NEW how \in {"done", "failed"}, BlockOver(how)
  PROVE /\ outcome' \in Seq(OutcomeType)
        /\ task' # None =>
             /\ Session /\ task.block + 1 \in DOMAIN Plan
             /\ task' \in TaskType /\ Fresh(task') /\ Shaped(task')
             /\ task'.todo # <<>>
             /\ task'.kind = task.kind /\ task'.block = task.block + 1 /\ task'.pc = "begin"
        /\ Session /\ task.block < Len(Plan) => task' # None
<1>1. outcome' \in Seq(OutcomeType)
  <2>1. (IF Session /\ how = "done" THEN Plan[task.block].frames ELSE 0) \in Nat
    BY BlockFrames
  <2>2. QED BY <2>1, ReportAppends DEF BlockOver
<1>2. /\ task' = IF Session /\ task.block < Len(Plan) THEN NextBlock ELSE None
      /\ task.block \in DOMAIN Plan /\ Len(Plan) \in Nat /\ DOMAIN Plan = 1..Len(Plan)
      /\ task.kind \in Kinds
  BY StepIsTyped, PlanAssumption DEF BlockOver
<1>3. ASSUME Session, task.block < Len(Plan)
      PROVE /\ task.block + 1 \in DOMAIN Plan
            /\ task' \in TaskType /\ Fresh(task') /\ Shaped(task') /\ task'.todo # <<>>
            /\ task'.kind = task.kind /\ task'.block = task.block + 1 /\ task'.pc = "begin"
  <2>1. task.block + 1 \in DOMAIN Plan /\ task.kind = "session"
    BY <1>2, <1>3 DEF Session
  <2> DEFINE k == task.block + 1
             todo == BlockProgram(Plan[k])
  <2>2. "begin" \in PCs
    BY DEF PCs
  <2>3. task' = NewTask("session", k, todo, "begin")
    BY <1>2, <1>3 DEF NextBlock
  <2> HIDE DEF k
  <2>4. k \in DOMAIN Plan
    BY <2>1 DEF k
  <2>5. /\ task'.todo \in Seq(StepType) /\ task'.todo # <<>> /\ Shaped(task')
    BY <2>2, <2>3, <2>4, BlocksAreShaped
  <2>6. task'.todo = todo
    BY <2>3 DEF NewTask
  <2> HIDE DEF todo
  <2>7. /\ task' \in TaskType /\ Fresh(task') /\ task'.kind = "session" /\ task'.block = k
        /\ task'.pc = "begin"
    BY <1>2, <2>1, <2>3, <2>4, <2>5, <2>6, NewTasksAreTyped
  <2>8. QED BY <2>1, <2>5, <2>7 DEF k
<1>4. Session /\ task.block < Len(Plan) => task' # None
  BY <1>3, ValuesAssumption
<1>5. QED BY <1>1, <1>2, <1>3, <1>4

\* A list of steps without its first.
LEMMA TailIsTyped ==
  ASSUME TypeOK, TaskIsSound, Running, Len(task.todo) > 1
  PROVE LET t == NewTask(task.kind, task.block, Tail(task.todo), "begin")
        IN /\ t \in TaskType /\ Fresh(t) /\ t.todo # <<>> /\ t.pc = "begin"
           /\ t.kind = task.kind /\ t.block = task.block
           /\ Shaped(task) => Shaped(t) /\ Step.op # "shoot"
<1> DEFINE rest == Tail(task.todo)
<1>1. task.todo \in Seq(StepType) /\ task.todo # <<>> /\ task.kind \in Kinds /\ task.block \in DOMAIN Plan
  BY StepIsTyped
<1>2. /\ rest \in Seq(StepType) /\ Len(rest) = Len(task.todo) - 1 /\ rest # <<>>
      /\ \A i \in 1..Len(rest) : rest[i] = task.todo[i + 1]
      /\ Step = task.todo[1]
  <2>1. Len(task.todo) \in Nat
    BY <1>1
  <2>2. rest \in Seq(StepType) /\ Len(rest) = Len(task.todo) - 1
    BY <1>1, <2>1, HeadTailProperties
  <2>3. \A i \in 1..Len(rest) : rest[i] = task.todo[i + 1]
    BY <1>1, <2>1, HeadTailProperties
  <2>4. rest # <<>>
    <3> HIDE DEF rest
    <3>1. QED BY <2>1, <2>2
  <2>5. Step = task.todo[1]
    BY <1>1 DEF Step
  <2>6. QED BY <2>2, <2>3, <2>4, <2>5
<1> HIDE DEF rest
<1> DEFINE t == NewTask(task.kind, task.block, rest, "begin")
<1>3. /\ t \in TaskType /\ Fresh(t) /\ t.pc = "begin"
      /\ t.kind = task.kind /\ t.block = task.block /\ t.todo = rest
  BY <1>1, <1>2, NewTasksAreTyped
<1> HIDE DEF t
<1>4. ASSUME Shaped(task)
      PROVE Shaped(t) /\ Step.op # "shoot"
  <2>1. Len(task.todo) \in Nat /\ Len(rest) \in Nat \ {0}
    BY <1>1, <1>2
  <2>2. t.todo[Len(t.todo)] = Shoot(Plan[t.block].frames)
    BY <1>2, <1>3, <1>4, <2>1 DEF Shaped
  <2>3. \A i \in 1..(Len(t.todo) - 1) : t.todo[i].op \in {"centre", "focus"}
    BY <1>2, <1>3, <1>4, <2>1 DEF Shaped
  <2>4. Step.op \in {"centre", "focus"}
    BY <1>2, <1>4, <2>1 DEF Shaped
  <2>5. QED BY <2>2, <2>3, <2>4 DEF Shaped
<1>5. QED BY <1>2, <1>3, <1>4 DEF t, rest

\* After a step there is no task, or one about to begin its next step.
LEMMA StepEnds ==
  ASSUME TypeOK, TaskIsSound, Running, StepFails \/ StepDone \/ Ended
  PROVE /\ outcome' \in Seq(OutcomeType)
        /\ task' \in TaskType \cup {None}
        /\ task' # None => task'.todo # <<>> /\ Fresh(task') /\ task'.pc = "begin"
<1>1. CASE StepFails
  BY <1>1, BlockOverTask DEF StepFails
<1>2. CASE StepDone
  <2>1. CASE Len(task.todo) > 1
    <3>1. Goes(NewTask(task.kind, task.block, Tail(task.todo), "begin"))
      BY <1>2, <2>1 DEF StepDone
    <3>2. outcome' \in Seq(OutcomeType)
      BY <3>1 DEF Goes, TypeOK, OutcomeType
    <3>3. QED BY <2>1, <3>1, <3>2, TailIsTyped DEF Goes
  <2>2. CASE ~(Len(task.todo) > 1)
    <3>1. BlockOver("done")
      BY <1>2, <2>2 DEF StepDone
    <3>2. QED BY <3>1, BlockOverTask
  <2>3. QED BY <2>1, <2>2
<1>3. CASE Ended
  BY <1>3, ReportAppends DEF Ended
<1>4. QED BY <1>1, <1>2, <1>3

\* The lights of a session: none is lost, and none is of a later block.
SavedGrows ==
  /\ saved' \in [DOMAIN Plan -> Nat]
  /\ \A b \in DOMAIN Plan : saved[b] <= saved'[b]
  /\ Session => \A b \in DOMAIN Plan : b > task.block => saved'[b] = 0

\* The count goes on over the end of a block that reports no more than it has.
LEMMA BlockOverCounts ==
  ASSUME TypeOK, TaskIsSound, SessionIsCounted, Running, SavedGrows,
         NEW how \in {"done", "failed"}, BlockOver(how),
         Session /\ how = "done" => Plan[task.block].frames <= saved'[task.block]
  PROVE SessionIsCounted'
<1> DEFINE n == IF Session /\ how = "done" THEN Plan[task.block].frames ELSE 0
<1>1. n \in Nat /\ task.block \in DOMAIN Plan /\ DOMAIN Plan = 1..Len(Plan) /\ Len(Plan) \in Nat
  BY BlockFrames, StepIsTyped, PlanAssumption
<1>2. Report(how, n)
  BY DEF BlockOver
<1> HIDE DEF n
<1>3. /\ outcome' \in Seq(OutcomeType)
      /\ ~Session => outcome' = outcome
      /\ Session => /\ Len(outcome') = Len(outcome) + 1
                    /\ \A b \in 1..Len(outcome) : outcome'[b] = outcome[b]
                    /\ outcome'[Len(outcome) + 1] = [how |-> how, frames |-> n]
  BY <1>1, <1>2, ReportAppends
<1>4. /\ outcome \in Seq(OutcomeType) /\ DOMAIN outcome = 1..Len(outcome) /\ Len(outcome) \in Nat
      /\ DOMAIN outcome' = 1..Len(outcome') /\ saved \in [DOMAIN Plan -> Nat]
      /\ saved' \in [DOMAIN Plan -> Nat]
      /\ \A b \in DOMAIN outcome : outcome[b].frames \in Nat
  <2>1. outcome \in Seq(OutcomeType)
    BY DEF TypeOK, OutcomeType
  <2>2. \A b \in DOMAIN outcome : outcome[b].frames \in Nat
    <3>1. \A b \in DOMAIN outcome : outcome[b] \in OutcomeType
      BY <2>1
    <3>2. QED BY <3>1 DEF OutcomeType
  <2>3. DOMAIN outcome = 1..Len(outcome) /\ Len(outcome) \in Nat
    BY <2>1
  <2>4. DOMAIN outcome' = 1..Len(outcome')
    BY <1>3
  <2>5. QED BY <2>1, <2>2, <2>3, <2>4 DEF TypeOK, SavedGrows
<1>5. DOMAIN outcome \subseteq DOMAIN Plan /\ \A b \in DOMAIN outcome : outcome[b].frames <= saved[b]
  BY DEF SessionIsCounted
<1>6. CASE Session
  <2>1. Len(outcome) = task.block - 1
    BY <1>6 DEF SessionIsCounted
  <2>2. DOMAIN outcome' \subseteq DOMAIN Plan
    BY <1>1, <1>3, <1>4, <1>6, <2>1
  <2>3. n <= saved'[task.block]
    BY <1>1, <1>4 DEF n
  <2>4. \A b \in DOMAIN outcome' : outcome'[b].frames <= saved'[b]
    <3> SUFFICES ASSUME NEW b \in DOMAIN outcome' PROVE outcome'[b].frames <= saved'[b]
      OBVIOUS
    <3>1. CASE b \in 1..Len(outcome)
      <4>1. outcome'[b] = outcome[b] /\ b \in DOMAIN outcome /\ b \in DOMAIN Plan
        BY <1>3, <1>4, <1>5, <1>6, <3>1
      <4>2. /\ outcome[b].frames \in Nat /\ outcome[b].frames <= saved[b]
            /\ saved[b] <= saved'[b] /\ saved[b] \in Nat /\ saved'[b] \in Nat
        BY <1>4, <1>5, <4>1 DEF SavedGrows
      <4>3. QED BY <4>1, <4>2
    <3>2. CASE b = task.block
      <4>1. outcome'[b] = [how |-> how, frames |-> n]
        BY <1>1, <1>3, <1>6, <2>1, <3>2
      <4>2. QED BY <2>3, <3>2, <4>1
    <3>3. QED BY <1>1, <1>3, <1>4, <1>6, <2>1, <3>1, <3>2
  <2>5. task' # None =>
          /\ Shaped(task')
          /\ Len(outcome') = task'.block - 1
          /\ saved'[task'.block] = 0 /\ task'.index = 1
          /\ \A b \in DOMAIN Plan : b > task'.block => saved'[b] = 0
    <3> SUFFICES ASSUME task' # None
                 PROVE /\ Shaped(task')
                       /\ Len(outcome') = task'.block - 1
                       /\ saved'[task'.block] = 0 /\ task'.index = 1
                       /\ \A b \in DOMAIN Plan : b > task'.block => saved'[b] = 0
      OBVIOUS
    <3>1. /\ task.block + 1 \in DOMAIN Plan /\ Fresh(task') /\ Shaped(task')
          /\ task'.block = task.block + 1
      BY BlockOverTask
    <3>2. \A b \in DOMAIN Plan : b > task.block => saved'[b] = 0
      BY <1>6 DEF SavedGrows
    <3>3. Len(outcome') = task'.block - 1
      BY <1>1, <1>3, <1>6, <2>1, <3>1
    <3>4. saved'[task'.block] = 0
      BY <1>1, <3>1, <3>2
    <3>5. \A b \in DOMAIN Plan : b > task'.block => saved'[b] = 0
      BY <1>1, <3>1, <3>2
    <3>6. QED BY <3>1, <3>3, <3>4, <3>5 DEF Fresh
  <2>6. QED BY <2>2, <2>4, <2>5 DEF SessionIsCounted, Session, Running
<1>7. CASE ~Session
  <2>1. task' = None /\ outcome' = outcome
    BY <1>3, <1>7 DEF BlockOver
  <2>2. \A b \in DOMAIN outcome : outcome[b].frames <= saved'[b]
    <3> SUFFICES ASSUME NEW b \in DOMAIN outcome PROVE outcome[b].frames <= saved'[b]
      OBVIOUS
    <3>1. /\ outcome[b].frames \in Nat /\ outcome[b].frames <= saved[b]
          /\ saved[b] <= saved'[b] /\ saved[b] \in Nat /\ saved'[b] \in Nat
      BY <1>4, <1>5 DEF SavedGrows
    <3>2. QED BY <3>1
  <2>3. QED BY <1>5, <2>1, <2>2 DEF SessionIsCounted, Session, Running
<1>8. QED BY <1>6, <1>7

\* A session's only step without a next one takes its lights.
LEMMA LastStepShoots ==
  ASSUME TypeOK, TaskIsSound, SessionIsCounted, Session, ~(Len(task.todo) > 1)
  PROVE Step.op = "shoot" /\ Step.frames = Plan[task.block].frames
<1>1. task.todo \in Seq(StepType) /\ task.todo # <<>>
  BY StepIsTyped DEF Session
<1>2. Shaped(task)
  BY DEF SessionIsCounted
<1>3. Len(task.todo) = 1
  <2> DEFINE n == Len(task.todo)
  <2>1. n \in Nat \ {0} /\ ~(n > 1)
    BY <1>1, EmptySeq, Zenon
  <2> HIDE DEF n
  <2>2. n = 1
    BY <2>1
  <2>3. QED BY <2>2 DEF n
<1>4. Step = Shoot(Plan[task.block].frames)
  BY <1>1, <1>2, <1>3 DEF Shaped, Step
<1>5. QED BY <1>4 DEF Shoot

\* The next step of a session has no lights yet, whatever its last step was.
LEMMA NextStepCounts ==
  ASSUME TypeOK, TaskIsSound, SessionIsCounted, Running, UNCHANGED <<outcome, saved>>,
         Len(task.todo) > 1,
         task' = NewTask(task.kind, task.block, Tail(task.todo), "begin")
  PROVE SessionIsCounted'
<1>1. /\ task'.kind = task.kind /\ task'.block = task.block /\ Fresh(task')
      /\ Shaped(task) => Shaped(task') /\ Step.op # "shoot"
  BY TailIsTyped
<1>2. Session' => Session
  BY <1>1 DEF Session, Running
<1>3. Session => saved[task.block] = 0 /\ Shaped(task')
  BY <1>1 DEF SessionIsCounted
<1>4. QED BY <1>1, <1>2, <1>3 DEF SessionIsCounted, Fresh

\* The count goes on over a step that takes no light.
LEMMA StepCounts ==
  ASSUME TypeOK, TaskIsSound, SessionIsCounted, Running, UNCHANGED saved,
         StepFails \/ Ended \/ (StepDone /\ Step.op # "shoot")
  PROVE SessionIsCounted'
<1>1. saved \in [DOMAIN Plan -> Nat]
  BY DEF TypeOK
<1>2. SavedGrows
  BY <1>1 DEF SavedGrows, SessionIsCounted
<1>3. CASE StepFails
  BY <1>2, <1>3, BlockOverCounts DEF StepFails
<1>4. CASE Ended
  <2>1. task' = None /\ Report("cancelled", 0)
    BY <1>4 DEF Ended
  <2>2. CASE ~Session
    BY <2>1, <2>2, ReportAppends DEF SessionIsCounted, Session, Running
  <2>3. CASE Session
    <3>1. /\ outcome' \in Seq(OutcomeType) /\ outcome \in Seq(OutcomeType)
          /\ Len(outcome') = Len(outcome) + 1
          /\ \A b \in 1..Len(outcome) : outcome'[b] = outcome[b]
          /\ outcome'[Len(outcome) + 1] = [how |-> "cancelled", frames |-> 0]
      BY <2>1, <2>3, ReportAppends DEF TypeOK, OutcomeType
    <3>2. /\ Len(outcome) = task.block - 1 /\ task.block \in DOMAIN Plan /\ Len(Plan) \in Nat
          /\ DOMAIN Plan = 1..Len(Plan) /\ task.block \in Nat
      BY <2>3, StepIsTyped, PlanAssumption DEF SessionIsCounted
    <3>3. /\ DOMAIN outcome = 1..Len(outcome) /\ DOMAIN outcome' = 1..Len(outcome')
          /\ Len(outcome) \in Nat
      BY <3>1
    <3>4. DOMAIN outcome' \subseteq DOMAIN Plan
      BY <3>1, <3>2, <3>3
    <3>5. \A b \in DOMAIN outcome' : outcome'[b].frames <= saved'[b]
      <4> SUFFICES ASSUME NEW b \in DOMAIN outcome' PROVE outcome'[b].frames <= saved[b]
        OBVIOUS
      <4>1. CASE b \in 1..Len(outcome)
        BY <3>1, <3>3, <4>1 DEF SessionIsCounted
      <4>2. CASE b = Len(outcome) + 1
        BY <1>1, <3>1, <3>2, <3>4, <4>2
      <4>3. QED BY <3>1, <3>3, <4>1, <4>2
    <3>6. QED BY <2>1, <3>4, <3>5 DEF SessionIsCounted, Session, Running
  <2>4. QED BY <2>2, <2>3
<1>5. CASE StepDone /\ Step.op # "shoot"
  <2>1. CASE Len(task.todo) > 1
    BY <1>5, <2>1, NextStepCounts DEF StepDone, Goes
  <2>2. CASE ~(Len(task.todo) > 1)
    <3>1. ~Session
      BY <1>5, <2>2, LastStepShoots
    <3>2. BlockOver("done")
      BY <1>5, <2>2 DEF StepDone
    <3>3. QED BY <1>2, <3>1, <3>2, BlockOverCounts
  <2>3. QED BY <2>1, <2>2
<1>6. QED BY <1>3, <1>4, <1>5

\* And over a step that goes on, and takes none.
LEMMA GoingOnCounts ==
  ASSUME TypeOK, TaskIsSound, SessionIsCounted, UNCHANGED <<outcome, saved>>,
         task' = task \/ /\ Running /\ task'.kind = task.kind /\ task'.block = task.block
                         /\ task'.todo = task.todo
                         /\ task'.index = task.index \/ Step.op # "shoot"
  PROVE SessionIsCounted'
<1>1. CASE task' = task
  BY <1>1 DEF SessionIsCounted, Session, Running, Shaped, Step
<1>2. CASE /\ Running /\ task'.kind = task.kind /\ task'.block = task.block
           /\ task'.todo = task.todo
           /\ task'.index = task.index \/ Step.op # "shoot"
  <2>1. Session' => Session
    BY <1>2 DEF Session, Running
  <2>2. Step' = Step /\ (Shaped(task) => Shaped(task'))
    BY <1>2 DEF Step, Shaped
  <2>3. QED BY <1>2, <2>1, <2>2 DEF SessionIsCounted
<1>3. QED BY <1>1, <1>2

-----------------------------------------------------------------------------
(* Types                                                                   *)

\* A task that goes on, by the fields that may change.
LEMMA GoingOnIsTyped ==
  ASSUME TypeOK, TaskIsSound, Running,
         NEW pc \in PCs \ {"submitted", "begin"},
         task' = [task EXCEPT !.pc = pc],
         Step.op = "centre" /\ pc \in {"exposing", "solving"} => task.pass <= MaxPasses,
         pc \in {"lowering", "raising", "sampling"} => task.usable < task.index /\ task.index <= Samples,
         pc \notin {"solving", "saving"}
  PROVE task' \in TaskType /\ TaskIsSound'
<1>1. task \in TaskType /\ task.todo # <<>>
  BY StepIsTyped
<1>2. task' \in TaskType /\ task'.pc = pc /\ task'.todo = task.todo /\ task'.pass = task.pass
      /\ task'.usable = task.usable /\ task'.index = task.index
  BY <1>1 DEF TaskType
<1>3. Step' = Step
  BY <1>2 DEF Step
<1>4. QED BY <1>1, <1>2, <1>3 DEF TaskIsSound

\* After a step that is over, what is left to say is said.
LEMMA EndingIsSound ==
  ASSUME TypeOK, TaskIsSound, Running, StepFails \/ StepDone \/ Ended
  PROVE /\ task' \in TaskType \cup {None} /\ TaskIsSound'
        /\ outcome' \in Seq(OutcomeType)
  BY StepEnds DEF TaskIsSound, Running, Fresh

\* A step ends, well or not.
StepOver == StepFails \/ StepDone \/ Ended

TaskTyped == task \in TaskType \cup {None} /\ outcome \in Seq(OutcomeType)

\* A task that slews and waits, as one that fails, is sound.
LEMMA WaitingIsSound ==
  ASSUME TypeOK, TaskIsSound, Running, NEW to, NEW named,
         NEW t \in TaskType, t.todo = task.todo, SlewsAndWaits(to, named, t)
  PROVE TaskTyped' /\ TaskIsSound' /\ (task' \in TaskType \/ StepOver)
<1>1. CASE Refused /\ StepFails
  BY <1>1, EndingIsSound DEF TaskTyped, StepOver
<1>2. CASE Slews(to, named) /\ Goes([t EXCEPT !.pc = "slewing"])
  <2>1. task' \in TaskType /\ task'.pc = "slewing" /\ task'.todo = t.todo
    BY <1>2 DEF Goes, TaskType, PCs
  <2>2. outcome' \in Seq(OutcomeType)
    BY <1>2 DEF Goes, TypeOK, OutcomeType
  <2>3. QED BY <2>1, <2>2, StepIsTyped DEF TaskIsSound, TaskTyped
<1>3. QED BY <1>1, <1>2 DEF SlewsAndWaits

\* A task that is moved, or woken, goes on as it was.
LEMMA WokenIsSound ==
  ASSUME TypeOK, TaskIsSound
  PROVE /\ Woken \in TaskType \cup {None} /\ (Woken # None => Running)
        /\ Running => /\ Woken \in TaskType
                      /\ Woken.todo = task.todo /\ Woken.index = task.index
                      /\ Woken.kind = task.kind /\ Woken.block = task.block
                      /\ Woken.pass = task.pass /\ Woken.usable = task.usable
                      /\ Woken.start = task.start /\ Woken.best = task.best
                      /\ Woken.seen = task.seen /\ Woken.moved = TRUE
                      /\ Woken.pc = IF Waits /\ slew # None THEN "interrupted" ELSE task.pc
<1>1. CASE ~Running
  BY <1>1 DEF Woken, Running
<1>2. CASE Running
  <2>1. task \in TaskType
    BY <1>2, StepIsTyped
  <2>2. QED BY <1>2, <2>1, ValuesAssumption DEF Woken, TaskType, PCs, Running
<1>3. QED BY <1>1, <1>2

\* The next pass, the next sample or frame: a task all the same.
LEMMA NextPass ==
  ASSUME NEW t \in TaskType, NEW n \in 1..(MaxPasses + 1)
  PROVE LET u == [t EXCEPT !.pass = n]
        IN /\ u \in TaskType /\ u.todo = t.todo /\ u.pass = n /\ u.usable = t.usable
           /\ u.index = t.index /\ u.pc = t.pc
  BY DEF TaskType

LEMMA NextIndex ==
  ASSUME NEW t \in TaskType, NEW n \in Nat \ {0}
  PROVE [t EXCEPT !.index = n] \in TaskType /\ [t EXCEPT !.index = n].todo = t.todo
  BY DEF TaskType

LEMMA NextUsable ==
  ASSUME NEW t \in TaskType, NEW n \in 0..Samples
  PROVE LET u == [t EXCEPT !.usable = n]
        IN /\ u \in TaskType /\ u.todo = t.todo /\ u.usable = n /\ u.index = t.index
           /\ u.start = t.start /\ u.pc = t.pc
  BY DEF TaskType

\* A step of a task is one of the task that runs.
LEMMA TaskStepIsRunning == TaskStep => Running
BY DEF TaskStep, Arrived, Interrupted, Exposed, CentreBegins, CentreSolved, SweepBegins, SweepSolved,
    ZenithBegins, ZenithArrived, FocusBegins, FocusMoved, FocusSampled, FocusChecked, ShootBegins,
    Shot, Written, Dithered, ReferenceSolved, LookBegins, LookSolved, WatchBegins, Watched, Driven,
    At, Begins

\* Every step of a task leaves it sound, or gone.
LEMMA TaskStepIsSound ==
  ASSUME TypeOK, TaskIsSound, TaskStep
  PROVE TaskTyped' /\ TaskIsSound' /\ (task' \in TaskType \/ StepOver)
<1> outcome \in Seq(OutcomeType)
  BY DEF TypeOK, OutcomeType
<1>1. Running
  BY TaskStepIsRunning
<1> USE <1>1
<1>2. /\ task \in TaskType /\ task.todo \in Seq(StepType) /\ task.todo # <<>> /\ Step \in StepType
      /\ task.kind \in Kinds /\ task.block \in DOMAIN Plan /\ task.pc \in PCs /\ Step.op \in Ops
      /\ Step.op \in {"centre", "check"} => Step.target \in Targets
  BY StepIsTyped
<1>3. ASSUME StepFails \/ StepDone \/ Ended
      PROVE TaskTyped' /\ TaskIsSound' /\ (task' \in TaskType \/ StepOver)
  BY <1>3, EndingIsSound DEF TaskTyped, StepOver
<1>4. CASE Arrived
  <2>1. CASE StepDone
    BY <2>1, <1>3
  <2>2. CASE GoesTo("exposing") /\ ~(Step.op = "centre" /\ (~Step.solve \/ task.pass > MaxPasses))
    <3>1. "exposing" \in PCs \ {"submitted", "begin"}
      BY DEF PCs
    <3>2. task.pass \in 1..(MaxPasses + 1) /\ MaxPasses \in Nat
      BY <1>2, CountsAssumption DEF TaskType
    <3>3. Step.op = "centre" => task.pass <= MaxPasses
      BY <2>2, <3>2
    <3>4. task' = [task EXCEPT !.pc = "exposing"] /\ outcome' = outcome
      BY <2>2 DEF GoesTo, Goes
    <3>5. QED BY <3>1, <3>3, <3>4, GoingOnIsTyped DEF TaskTyped
  <2>3. QED BY <1>4, <2>1, <2>2 DEF Arrived
<1>5. CASE Interrupted
  BY <1>3, <1>5 DEF Interrupted
<1>6. CASE Exposed
  <2>1. CASE Goes([task EXCEPT !.pc = "solving", !.seen = mount.at, !.moved = FALSE])
    <3>1. mount.at \in PointingType
      BY DEF TypeOK
    <3>2. /\ task' \in TaskType /\ task'.pc = "solving" /\ task'.todo = task.todo
          /\ task'.pass = task.pass /\ task'.seen = mount.at /\ outcome' = outcome
      BY <1>2, <2>1, <3>1 DEF Goes, TaskType, PCs
    <3>3. Step' = Step
      BY <3>2 DEF Step
    <3>4. QED BY <1>2, <1>6, <3>1, <3>2, <3>3 DEF TaskIsSound, TaskTyped, Exposed
  <2>2. QED BY <1>3, <1>6, <2>1 DEF Exposed
<1>7. CASE CentreBegins \/ SweepBegins \/ ZenithBegins
  BY <1>2, <1>7, WaitingIsSound DEF CentreBegins, SweepBegins, ZenithBegins
<1>8. CASE CentreSolved
  <2>1. task.pass \in 1..(MaxPasses + 1) /\ MaxPasses \in Nat \ {0} /\ task.pass <= MaxPasses
    BY <1>2, <1>8, CountsAssumption DEF TaskType, TaskIsSound, CentreSolved, At
  <2> DEFINE t == [task EXCEPT !.pass = @ + 1]
  <2>2. /\ t \in TaskType /\ t.todo = task.todo /\ t.pass = task.pass + 1
        /\ t.usable = task.usable /\ t.index = task.index
    <3>1. task.pass + 1 \in 1..(MaxPasses + 1)
      BY <2>1
    <3>2. QED BY <1>2, <3>1, NextPass
  <2>3. CASE task.pass < MaxPasses /\ Goes([task EXCEPT !.pc = "exposing", !.pass = @ + 1])
    <3>1. /\ task' \in TaskType /\ task'.pc = "exposing" /\ task'.todo = task.todo
          /\ task'.pass = task.pass + 1 /\ outcome' = outcome
      <4> DEFINE n == task.pass + 1
      <4>1. /\ n \in 1..(MaxPasses + 1) /\ "exposing" \in PCs
            /\ task' = [task EXCEPT !.pc = "exposing", !.pass = n] /\ outcome' = outcome
        BY <2>1, <2>3 DEF PCs, Goes
      <4> HIDE DEF n
      <4>2. /\ task' \in TaskType /\ task'.pc = "exposing" /\ task'.todo = task.todo
            /\ task'.pass = n
        BY <1>2, <4>1 DEF TaskType
      <4>3. QED BY <4>1, <4>2 DEF n
    <3>2. Step' = Step
      BY <3>1 DEF Step
    <3>3. QED BY <1>2, <2>1, <2>3, <3>1, <3>2 DEF TaskIsSound, TaskTyped
  <2>4. CASE SlewsAndWaits(Step.target, TRUE, t)
    BY <2>2, <2>4, WaitingIsSound
  <2>5. QED BY <1>3, <1>8, <2>3, <2>4 DEF CentreSolved, Centres
<1>9. CASE SweepSolved
  <2> DEFINE t == [task EXCEPT !.index = @ + 1]
  <2>1. t \in TaskType /\ t.todo = task.todo
    <3>1. task.index + 1 \in Nat \ {0}
      BY <1>2 DEF TaskType
    <3>2. QED BY <1>2, <3>1, NextIndex
  <2>2. CASE SlewsAndWaits(Sky, FALSE, t)
    BY <2>1, <2>2, WaitingIsSound
  <2>3. QED BY <1>3, <1>9, <2>2 DEF SweepSolved
<1>10. CASE ZenithArrived \/ FocusChecked \/ ReferenceSolved \/ Driven
  BY <1>3, <1>10 DEF ZenithArrived, FocusChecked, ReferenceSolved, Driven
<1>11. CASE FocusBegins
  <2>1. focuser.position \in Int
    BY FocuserAssumption DEF TypeOK
  <2>2. /\ task' \in TaskType /\ task'.pc = "lowering" /\ task'.todo = task.todo
        /\ task'.usable = task.usable /\ task'.index = task.index /\ outcome' = outcome
    BY <1>2, <1>11, <2>1 DEF FocusBegins, Goes, TaskType, PCs
  <2>3. task.usable = 0 /\ task.index = 1 /\ Samples \in Nat \ {0}
    BY <1>11, CountsAssumption DEF FocusBegins, Begins, TaskIsSound, Fresh
  <2>4. QED BY <1>2, <2>2, <2>3 DEF TaskIsSound, TaskTyped
<1>12. CASE FocusMoved
  <2>1. PICK pc \in {"raising", "sampling", "approaching", "checking"} :
          /\ GoesTo(pc)
          /\ pc \in {"raising", "sampling"} => task.pc \in {"lowering", "raising"}
    BY <1>12 DEF FocusMoved
  <2>2. pc \in PCs \ {"submitted", "begin"}
    BY DEF PCs
  <2>3. pc \in {"lowering", "raising", "sampling"} => task.usable < task.index /\ task.index <= Samples
    BY <2>1 DEF TaskIsSound
  <2>4. task' = [task EXCEPT !.pc = pc] /\ outcome' = outcome
    BY <2>1 DEF GoesTo, Goes
  <2>5. QED BY <2>2, <2>3, <2>4, GoingOnIsTyped DEF TaskTyped
<1>13. CASE FocusSampled
  <2>1. /\ task.index \in Nat \ {0} /\ task.usable \in 0..Samples /\ Samples \in Nat \ {0}
        /\ task.usable < task.index /\ task.index <= Samples /\ task.start \in Int
    BY <1>2, <1>13, CountsAssumption DEF TaskType, FocusSampled, At, TaskIsSound
  <2>2. ASSUME NEW usable \in {task.usable, task.usable + 1},
               Sampled([task EXCEPT !.usable = usable])
        PROVE TaskTyped' /\ TaskIsSound' /\ (task' \in TaskType \/ StepOver)
    <3> DEFINE t == [task EXCEPT !.usable = usable]
    <3>1. /\ t \in TaskType /\ t.todo = task.todo /\ t.usable = usable /\ t.index = task.index
          /\ t.start = task.start
      <4>1. usable \in 0..Samples
        BY <2>1
      <4>2. QED BY <1>2, <4>1, NextUsable
    <3>2. Sampled(t)
      BY <2>2
    <3> HIDE DEF t
    <3>3. CASE t.index < Samples /\ Goes([t EXCEPT !.pc = "raising", !.index = @ + 1])
      <4>1. /\ task' \in TaskType /\ task'.pc = "raising" /\ task'.todo = task.todo
            /\ task'.usable = usable /\ task'.index = task.index + 1 /\ outcome' = outcome
        <5> DEFINE n == t.index + 1
        <5>1. /\ n \in Nat \ {0} /\ n = task.index + 1 /\ "raising" \in PCs
              /\ task' = [t EXCEPT !.pc = "raising", !.index = n] /\ outcome' = outcome
          BY <2>1, <3>1, <3>3 DEF PCs, Goes
        <5> HIDE DEF n
        <5>2. /\ task' \in TaskType /\ task'.pc = "raising" /\ task'.todo = t.todo
              /\ task'.usable = t.usable /\ task'.index = n
          BY <3>1, <5>1 DEF TaskType
        <5>3. QED BY <3>1, <5>1, <5>2
      <4>2. QED BY <1>2, <2>1, <3>1, <3>3, <4>1 DEF TaskIsSound, TaskTyped
    <3>4. ASSUME NEW best \in Position(t, 1)..Position(t, Samples),
                 Goes([t EXCEPT !.pc = "returning", !.best = best])
          PROVE TaskTyped' /\ TaskIsSound' /\ (task' \in TaskType \/ StepOver)
      <4>1. best \in Int
        BY <2>1, <3>1 DEF Position
      <4>2. /\ task' \in TaskType /\ task'.pc = "returning" /\ task'.todo = task.todo /\ outcome' = outcome
        BY <3>1, <3>4, <4>1 DEF Goes, TaskType, PCs
      <4>3. QED BY <1>2, <4>2 DEF TaskIsSound, TaskTyped
    <3>5. QED BY <1>3, <3>2, <3>3, <3>4 DEF Sampled
  <2>3. task = [task EXCEPT !.usable = task.usable]
    BY <1>2 DEF TaskType
  <2>4. QED BY <1>3, <1>13, <2>2, <2>3 DEF FocusSampled
<1>14. CASE ShootBegins \/ Dithered \/ LookBegins
  <2>1. PICK pc \in {"shooting", "exposing"} :
          GoesTo(pc) /\ (pc = "exposing" => Step.op \in {"match", "check"})
    BY <1>14 DEF ShootBegins, Dithered, LookBegins, Begins
  <2>2. pc \in PCs \ {"submitted", "begin"}
    BY DEF PCs
  <2>3. task' = [task EXCEPT !.pc = pc] /\ outcome' = outcome
    BY <2>1 DEF GoesTo, Goes
  <2>4. QED BY <2>1, <2>2, <2>3, GoingOnIsTyped DEF TaskTyped
<1>15. CASE Shot
  <2> DEFINE light == [place |-> mount.at.place, label |-> active, astray |-> astray]
  <2>1. CASE Goes([task EXCEPT !.pc = "saving", !.seen = light])
    <3>1. light \in LightType
      BY DEF TypeOK, PointingType, LightType
    <3> HIDE DEF light
    <3>2. /\ task' \in TaskType /\ task'.pc = "saving" /\ task'.todo = task.todo
          /\ task'.seen = light /\ outcome' = outcome
      BY <1>2, <2>1, <3>1 DEF Goes, TaskType, PCs
    <3>3. QED BY <1>2, <3>1, <3>2 DEF TaskIsSound, TaskTyped
  <2>2. QED BY <1>3, <1>15, <2>1 DEF Shot
<1>16. CASE Written
  <2>1. ASSUME NEW pc \in {"dithering", "shooting"},
               Goes([task EXCEPT !.pc = pc, !.index = @ + 1, !.seen = None])
        PROVE TaskTyped' /\ TaskIsSound' /\ (task' \in TaskType \/ StepOver)
    <3>1. /\ task' \in TaskType /\ task'.pc = pc /\ task'.todo = task.todo /\ outcome' = outcome
      <4> DEFINE n == task.index + 1
      <4>1. /\ n \in Nat \ {0} /\ pc \in PCs
            /\ task' = [task EXCEPT !.pc = pc, !.index = n, !.seen = None] /\ outcome' = outcome
        BY <1>2, <2>1 DEF TaskType, PCs, Goes
      <4> HIDE DEF n
      <4>2. task' \in TaskType /\ task'.pc = pc /\ task'.todo = task.todo
        BY <1>2, <4>1 DEF TaskType
      <4>3. QED BY <4>1, <4>2
    <3>2. QED BY <1>2, <3>1 DEF TaskIsSound, TaskTyped
  <2>2. QED BY <1>3, <1>16, <2>1 DEF Written
<1>17. CASE LookSolved
  <2>1. CASE GoesTo("exposing")
    <3>1. "exposing" \in PCs \ {"submitted", "begin"} /\ Step.op \in {"match", "check"}
      BY <1>17 DEF PCs, LookSolved, At
    <3>2. task' = [task EXCEPT !.pc = "exposing"] /\ outcome' = outcome
      BY <2>1 DEF GoesTo, Goes
    <3>3. QED BY <3>1, <3>2, GoingOnIsTyped DEF TaskTyped
  <2>2. CASE /\ Step.op = "check"
             /\ Goes(NewTask(task.kind, 1, <<Centre(Step.target, TRUE)>>, "begin"))
    <3>1. Centre(Step.target, TRUE) \in StepType
      BY <1>2, <2>2, StepsAreTyped
    <3> DEFINE c == Centre(Step.target, TRUE)
    <3>2. c \in StepType
      BY <3>1
    <3> HIDE DEF c
    <3>3. 1 \in DOMAIN Plan
      BY PlanAssumption
    <3>4. task' = NewTask(task.kind, 1, <<c>>, "begin") /\ outcome' = outcome
      BY <2>2 DEF Goes, c
    <3>5. task' \in TaskType /\ Fresh(task') /\ task'.todo # <<>> /\ task'.pc = "begin"
      <4> DEFINE todo == <<c>>
      <4>1. todo \in Seq(StepType) /\ todo # <<>>
        BY <3>2
      <4> HIDE DEF todo
      <4>2. task' = NewTask(task.kind, 1, todo, "begin")
        BY <3>4 DEF todo
      <4>3. QED BY <1>2, <3>3, <4>1, <4>2, NewTasksAreTyped
    <3>6. QED BY <3>4, <3>5 DEF TaskIsSound, TaskTyped
  <2>3. QED BY <1>3, <1>17, <2>1, <2>2 DEF LookSolved
<1>18. CASE WatchBegins \/ Watched
  <2>1. ASSUME NEW pc \in {"watching", "driving"}, GoesTo(pc)
        PROVE TaskTyped' /\ TaskIsSound' /\ (task' \in TaskType \/ StepOver)
    <3>1. pc \in PCs \ {"submitted", "begin"}
      BY DEF PCs
    <3>2. task' = [task EXCEPT !.pc = pc] /\ outcome' = outcome
      BY <2>1 DEF GoesTo, Goes
    <3>3. QED BY <3>1, <3>2, GoingOnIsTyped DEF TaskTyped
  <2>2. QED BY <1>3, <1>18, <2>1 DEF WatchBegins, Watched
<1>19. QED
  BY <1>4, <1>5, <1>6, <1>7, <1>8, <1>9, <1>10, <1>11, <1>12, <1>13, <1>14, <1>15, <1>16, <1>17, <1>18
  DEF TaskStep

MountType == [state : {"parked", "idle", "tracking", "slewing"}, tracking : BOOLEAN, at : PointingType]

\* The mount, its slew and what is known of them.
PointingTyped ==
  /\ mount \in MountType /\ slew \in SlewType \cup {None}
  /\ {active, centred} \subseteq Targets \cup {None} /\ astray \in BOOLEAN

\* The places a mount is sent to are known, and so is where that leaves it.
LEMMA SlewsAreTyped ==
  ASSUME TypeOK, NEW to \in Places, NEW named \in BOOLEAN, Slews(to, named) \/ Refused,
         active' \in Targets \cup {None}
  PROVE PointingTyped'
<1>1. Pointing(Sky, FALSE) \in PointingType
  BY DEF Pointing, PointingType, Places
<1>2. mount \in MountType /\ slew \in SlewType \cup {None} /\ centred \in Targets \cup {None}
  BY DEF TypeOK, MountType
<1>3. CASE Slews(to, named)
  <2>1. mount' \in MountType /\ slew' \in SlewType
    BY <1>1, <1>2, <1>3 DEF Slews, MountType, SlewType
  <2>2. QED BY <1>3, <2>1 DEF PointingTyped, Slews
<1>4. CASE Refused
  <2>1. mount' \in MountType
    BY <1>2, <1>4 DEF Refused, MountType
  <2>2. slew' \in SlewType \cup {None}
    BY <1>2, <1>4 DEF Refused, SlewType
  <2>3. QED BY <1>2, <1>4, <2>1, <2>2 DEF PointingTyped, Refused
<1>5. QED BY <1>3, <1>4

\* The other ways the mount's state and pointing change.
LEMMA MountsAreTyped ==
  ASSUME TypeOK
  PROVE /\ \A on \in BOOLEAN : Tracks(on) => mount' \in MountType
        /\ Aborted \in MountType
        /\ [mount EXCEPT !.at.near = FALSE] \in MountType
        /\ [mount EXCEPT !.state = "idle"] \in MountType
        /\ [state |-> "parked", tracking |-> FALSE, at |-> Pointing(Home, FALSE)] \in MountType
        /\ \A to \in Places, near \in BOOLEAN :
             [state |-> "tracking", tracking |-> TRUE, at |-> Pointing(to, near)] \in MountType
<1>1. mount \in MountType /\ mount.at \in PointingType
  BY DEF TypeOK, MountType
<1>2. /\ \A to \in Places, near \in BOOLEAN : Pointing(to, near) \in PointingType
      /\ Home \in Places /\ Sky \in Places
  BY DEF Pointing, PointingType, Places
<1>3. \A on \in BOOLEAN : Tracks(on) => mount' \in MountType
  BY <1>1 DEF Tracks, MountType
<1>4. Aborted \in MountType
  BY <1>1, <1>2 DEF Aborted, MountType
<1>5. [mount EXCEPT !.at.near = FALSE] \in MountType
  BY <1>1 DEF MountType, PointingType
<1>6. [mount EXCEPT !.state = "idle"] \in MountType
  BY <1>1 DEF MountType
<1>7. QED BY <1>2, <1>3, <1>4, <1>5, <1>6 DEF MountType

FocuserType == [position : 0..MaxPosition, slack : 0..Slack, goal : (0..MaxPosition) \cup {None}]

\* The focuser is sent nowhere beyond its ends.
LEMMA MovesAreTyped ==
  ASSUME TypeOK, NEW p \in Int, MovesTo(p)
  PROVE focuser' \in FocuserType
<1>1. Clamped(p) \in 0..MaxPosition
  BY FocuserAssumption DEF Clamped
<1>2. QED BY <1>1 DEF TypeOK, FocuserType, MovesTo

\* Where samples are taken.
LEMMA PositionsAreIntegers ==
  ASSUME NEW t, t.start \in Int
  PROVE /\ \A i \in Int : Position(t, i) \in Int /\ Position(t, i + 1) = Position(t, i) + 1
        /\ Position(t, 1) <= t.start
        /\ \A p \in Int : Below(p) \in Int /\ Below(p) = p - Backlash
        /\ Backlash \in Nat /\ Slack \in Nat /\ Slack <= Backlash /\ MaxPosition \in Nat
<1>1. Samples \div 2 \in Nat
  BY CountsAssumption
<1>2. Backlash \in Nat /\ Slack \in Nat /\ Slack <= Backlash /\ MaxPosition \in Nat
  BY FocuserAssumption
<1> DEFINE h == Samples \div 2
<1>3. h \in Nat /\ \A i : Position(t, i) = t.start + i - 1 - h
  BY <1>1 DEF Position
<1> HIDE DEF h
<1>4. QED BY <1>2, <1>3 DEF Below

\* The rig, the lights and the bounds.
RigTyped ==
  /\ PointingTyped /\ focuser \in FocuserType /\ guiding \in BOOLEAN
  /\ saved \in [DOMAIN Plan -> Nat] /\ filed \in LightType \cup {None}
  /\ tasks \in 0..MaxTasks /\ requests \in 0..MaxRequests

LEMMA TypesAreParts == TypeOK <=> TaskTyped /\ RigTyped
BY DEF TypeOK, TaskTyped, RigTyped, PointingTyped, OutcomeType, FocuserType, MountType

LEMMA TypesArePartsPrimed == TypeOK' <=> TaskTyped' /\ RigTyped'
BY DEF TypeOK, TaskTyped, RigTyped, PointingTyped, OutcomeType, FocuserType, MountType

\* What a task does leaves the rig in a state it has.
LEMMA TaskStepRig ==
  ASSUME TypeOK, TaskIsSound, TaskStep
  PROVE RigTyped'
<1>1. RigTyped
  BY TypesAreParts
<1>2. Running
  BY TaskStepIsRunning
<1>3. /\ task \in TaskType
      /\ Step.op \in {"centre", "check"} => Step.target \in Targets
      /\ Sky \in Places /\ Targets \subseteq Places
  BY <1>2, StepIsTyped DEF Places
<1>4. ASSUME UNCHANGED <<mount, slew, active, centred, astray, saved, filed, tasks, requests, guiding>>,
             focuser' \in FocuserType
      PROVE RigTyped'
  BY <1>1, <1>4 DEF RigTyped, PointingTyped
<1>5. CASE Arrived \/ Interrupted \/ Exposed \/ FocusChecked \/ ShootBegins \/ Shot \/ Dithered
           \/ ReferenceSolved \/ LookBegins \/ LookSolved \/ WatchBegins \/ Watched
  <2>1. UNCHANGED <<pointing, focuser, guiding, saved, filed, counts>>
    BY <1>5 DEF Arrived, Interrupted, Exposed, FocusChecked, ShootBegins, Shot, Dithered,
      ReferenceSolved, LookBegins, LookSolved, WatchBegins, Watched
  <2>2. QED BY <1>1, <1>4, <2>1 DEF pointing, counts, RigTyped
<1>6. ASSUME NEW to \in Places, NEW named \in BOOLEAN, NEW t, SlewsAndWaits(to, named, t),
             active' \in Targets \cup {None},
             UNCHANGED <<focuser, guiding, saved, filed, counts>>
      PROVE RigTyped'
  <2>1. Slews(to, named) \/ Refused
    BY <1>6 DEF SlewsAndWaits
  <2>2. PointingTyped'
    BY <1>6, <2>1, SlewsAreTyped
  <2>3. QED BY <1>1, <1>6, <2>2 DEF RigTyped, counts
<1>7. CASE CentreBegins \/ SweepBegins \/ ZenithBegins
  <2>1. active \in Targets \cup {None}
    BY <1>1 DEF RigTyped, PointingTyped
  <2>2. CASE CentreBegins
    BY <1>3, <1>6, <2>2 DEF CentreBegins, Begins
  <2>3. CASE SweepBegins
    BY <1>3, <1>6, <2>1, <2>3 DEF SweepBegins
  <2>4. CASE ZenithBegins
    BY <1>3, <1>6, <2>4 DEF ZenithBegins
  <2>5. QED BY <1>7, <2>2, <2>3, <2>4
<1>8. CASE CentreSolved
  <2>1. active' \in Targets \cup {None} /\ Step.target \in Targets
    BY <1>1, <1>3, <1>8 DEF RigTyped, PointingTyped, CentreSolved, At
  <2>2. CASE SlewsAndWaits(Step.target, TRUE, [task EXCEPT !.pass = @ + 1])
    BY <1>3, <1>6, <1>8, <2>1, <2>2 DEF CentreSolved
  <2>3. CASE UNCHANGED <<mount, slew, astray>> /\ centred' \in {centred, None, Step.target}
    BY <1>1, <1>8, <2>1, <2>3 DEF RigTyped, PointingTyped, CentreSolved, counts
  <2>4. QED BY <1>8, <2>2, <2>3 DEF CentreSolved, Centres
<1>9. CASE SweepSolved
  <2>1. active' \in Targets \cup {None}
    BY <1>1, <1>9 DEF RigTyped, PointingTyped, SweepSolved
  <2>2. CASE SlewsAndWaits(Sky, FALSE, [task EXCEPT !.index = @ + 1])
    BY <1>3, <1>6, <1>9, <2>1, <2>2 DEF SweepSolved
  <2>3. CASE UNCHANGED <<mount, slew, centred, astray>>
    BY <1>1, <1>9, <2>3 DEF RigTyped, PointingTyped, SweepSolved, counts
  <2>4. QED BY <1>9, <2>2, <2>3 DEF SweepSolved
<1>10. CASE ZenithArrived
  <2>1. mount' \in MountType
    BY <1>10, MountsAreTyped DEF ZenithArrived
  <2>2. QED BY <1>1, <1>10, <2>1 DEF ZenithArrived, RigTyped, PointingTyped, counts
<1>11. CASE FocusBegins \/ FocusMoved \/ FocusSampled
  <2>1. task.start \in Int /\ task.best \in Int /\ task.index \in Nat /\ focuser.position \in Int
        /\ focuser \in FocuserType
    BY <1>1, <1>3, FocuserAssumption DEF TaskType, RigTyped, FocuserType
  <2>2. UNCHANGED <<pointing, guiding, saved, filed, counts>>
    BY <1>11 DEF FocusBegins, FocusMoved, FocusSampled
  <2>3. (\E p \in Int : MovesTo(p)) \/ UNCHANGED focuser
    <3>1. CASE FocusBegins
      <4> DEFINE t == [task EXCEPT !.pc = "lowering", !.start = focuser.position]
      <4>1. t.start \in Int
        BY <1>3, <2>1 DEF TaskType
      <4>2. MovesTo(Below(Position(t, 1)))
        BY <3>1 DEF FocusBegins
      <4> HIDE DEF t
      <4>3. Below(Position(t, 1)) \in Int
        BY <4>1, PositionsAreIntegers
      <4>4. QED BY <4>2, <4>3
    <3>2. CASE FocusMoved
      BY <2>1, <3>2, PositionsAreIntegers DEF FocusMoved
    <3>3. CASE FocusSampled
      <4>1. ASSUME NEW t, t.start \in Int, t.index \in Nat, Sampled(t)
            PROVE (\E p \in Int : MovesTo(p)) \/ UNCHANGED focuser
        <5>1. Position(t, t.index + 1) \in Int /\ Position(t, 1) \in Int /\ Position(t, Samples) \in Int
          BY <4>1, PositionsAreIntegers, CountsAssumption
        <5>2. \A best \in Position(t, 1)..Position(t, Samples) : Below(best) \in Int
          BY <4>1, <5>1, PositionsAreIntegers
        <5>3. QED BY <4>1, <5>1, <5>2 DEF Sampled
      <4>2. [task EXCEPT !.usable = @ + 1].start \in Int /\ [task EXCEPT !.usable = @ + 1].index \in Nat
        BY <1>3, <2>1 DEF TaskType
      <4>3. QED BY <2>1, <3>3, <4>1, <4>2 DEF FocusSampled
    <3>4. QED BY <1>11, <3>1, <3>2, <3>3
  <2>4. focuser' \in FocuserType
    BY <2>1, <2>3, MovesAreTyped
  <2>5. QED BY <1>1, <1>4, <2>2, <2>4 DEF pointing, counts
<1>12. CASE Written
  <2>1. saved' \in [DOMAIN Plan -> Nat]
    BY <1>1, <1>12 DEF Written, RigTyped
  <2>2. filed' \in LightType \cup {None}
    BY <1>1, <1>2, <1>12 DEF Written, At, TaskIsSound, RigTyped
  <2>3. QED BY <1>1, <1>12, <2>1, <2>2 DEF Written, RigTyped, PointingTyped, pointing, counts
<1>13. CASE Driven
  <2>1. mount' \in MountType
    BY <1>13, MountsAreTyped DEF Driven
  <2>2. QED BY <1>1, <1>13, <2>1 DEF Driven, RigTyped, PointingTyped, counts
<1>14. QED
  BY <1>5, <1>7, <1>8, <1>9, <1>10, <1>11, <1>12, <1>13 DEF TaskStep

\* A mount that moves leaves the task sound, woken or not.
LEMMA MovingIsSound ==
  ASSUME TypeOK, TaskIsSound, UNCHANGED outcome,
         task' \in {task, Woken} \/ task' = IF Running THEN [task EXCEPT !.moved = TRUE] ELSE task
  PROVE TaskTyped' /\ TaskIsSound'
<1>1. TaskTyped
  BY TypesAreParts
<1>2. CASE task' = task
  BY <1>1, <1>2 DEF TaskTyped, TaskIsSound, Running, Step, Fresh
<1>3. CASE task' = Woken /\ Running
  <2>1. /\ task' \in TaskType \cup {None}
        /\ task'.todo = task.todo /\ task'.index = task.index
        /\ task'.pass = task.pass /\ task'.usable = task.usable /\ task'.seen = task.seen
        /\ task'.pc \in {"interrupted", task.pc}
    BY <1>3, WokenIsSound
  <2>2. Step' = Step
    BY <2>1 DEF Step
  <2>3. QED BY <1>1, <1>3, <2>1, <2>2 DEF TaskTyped, TaskIsSound, Fresh
<1>4. CASE task' = Woken /\ ~Running
  BY <1>2, <1>4 DEF Woken
<1>5. CASE task' = [task EXCEPT !.moved = TRUE] /\ Running
  <2>1. task \in TaskType
    BY <1>5, StepIsTyped
  <2>2. /\ task' \in TaskType
        /\ task'.todo = task.todo /\ task'.index = task.index
        /\ task'.pass = task.pass /\ task'.usable = task.usable /\ task'.seen = task.seen
        /\ task'.pc = task.pc
    BY <1>5, <2>1 DEF TaskType
  <2>3. Step' = Step
    BY <2>2 DEF Step
  <2>4. QED BY <1>1, <1>5, <2>2, <2>3 DEF TaskTyped, TaskIsSound, Fresh
<1>6. QED BY <1>2, <1>3, <1>4, <1>5

\* What a request changes.
LEMMA RequestCases ==
  ASSUME Request
  PROVE /\ requests' = requests + 1 /\ requests < MaxRequests /\ Turn
        /\ UNCHANGED <<focuser, outcome, saved, filed, tasks>>
        /\ \/ UNCHANGED <<task, pointing>> /\ guiding' = ~guiding
           \/ /\ UNCHANGED guiding
              /\ \/ \E t \in Targets : MountSlew(t)
                 \/ MountAbort \/ GoesHome \/ Unpark \/ Nudge \/ ClearTarget
                 \/ \E on \in BOOLEAN : MountTracking(on)
BY DEF Request

\* A request leaves the mount in a state it has.
LEMMA RequestRig ==
  ASSUME TypeOK, Request
  PROVE RigTyped'
<1>1. RigTyped
  BY TypesAreParts
<1>2. /\ UNCHANGED <<focuser, saved, filed, tasks>>
      /\ requests' \in 0..MaxRequests
  BY <1>1, RequestCases, CountsAssumption DEF RigTyped
<1>3. guiding' \in BOOLEAN
  BY <1>1, RequestCases DEF RigTyped
<1>4. PointingTyped'
  <2>1. PointingTyped
    BY <1>1 DEF RigTyped
  <2>2. CASE UNCHANGED <<task, pointing>>
    BY <2>1, <2>2 DEF pointing, PointingTyped
  <2>3. ASSUME NEW t \in Targets, MountSlew(t)
        PROVE PointingTyped'
    <3>1. t \in Places /\ active' \in Targets \cup {None}
      BY <2>1, <2>3 DEF Places, PointingTyped, MountSlew
    <3>2. QED BY <2>3, <3>1, SlewsAreTyped DEF MountSlew
  <2>4. CASE MountAbort
    BY <2>1, <2>4, MountsAreTyped DEF MountAbort, PointingTyped
  <2>5. CASE GoesHome
    BY <2>1, <2>5, MountsAreTyped DEF GoesHome, PointingTyped
  <2>6. CASE Unpark
    BY <2>1, <2>6, MountsAreTyped DEF Unpark, PointingTyped
  <2>7. CASE Nudge
    BY <2>1, <2>7, MountsAreTyped DEF Nudge, PointingTyped
  <2>8. CASE ClearTarget
    BY <2>1, <2>8 DEF ClearTarget, PointingTyped
  <2>9. ASSUME NEW on \in BOOLEAN, MountTracking(on)
        PROVE PointingTyped'
    <3>1. mount' \in MountType
      BY <2>9, MountsAreTyped DEF MountTracking
    <3>2. QED BY <2>1, <2>9, <3>1 DEF MountTracking, PointingTyped
  <2>10. QED BY <2>2, <2>3, <2>4, <2>5, <2>6, <2>7, <2>8, <2>9, RequestCases
<1>5. QED BY <1>1, <1>2, <1>3, <1>4 DEF RigTyped

\* Every step leaves every part of the state with its type, and the task sound.
LEMMA TypeStep ==
  ASSUME TypeOK, TaskIsSound, [Next]_vars
  PROVE TypeOK' /\ TaskIsSound'
<1>1. TaskTyped /\ RigTyped
  BY TypesAreParts
<1>2. SUFFICES TaskTyped' /\ RigTyped' /\ TaskIsSound'
  BY TypesArePartsPrimed
<1>3. CASE TaskStep
  BY <1>3, TaskStepIsSound, TaskStepRig
<1>4. CASE SlewEnds
  <2>1. slew \in SlewType
    BY <1>1, <1>4 DEF SlewEnds, RigTyped, PointingTyped
  <2>2. slew.to \in Places /\ slew.named \in BOOLEAN
    BY <2>1 DEF SlewType
  <2>3. mount' \in MountType
    BY <1>4, <2>2, MountsAreTyped DEF SlewEnds
  <2>4. RigTyped'
    BY <1>1, <1>4, <2>2, <2>3 DEF SlewEnds, RigTyped, PointingTyped, counts
  <2>5. CASE Waits
    <3>1. Running /\ "arrived" \in PCs \ {"submitted", "begin"}
      BY <2>5 DEF Waits, PCs
    <3>2. task' = [task EXCEPT !.pc = "arrived"] /\ outcome' = outcome
      BY <1>4, <2>5 DEF SlewEnds
    <3>3. QED BY <1>1, <2>4, <3>1, <3>2, GoingOnIsTyped DEF TaskTyped
  <2>6. CASE ~Waits
    <3>1. task' = task /\ outcome' = outcome
      BY <1>4, <2>6 DEF SlewEnds
    <3>2. QED BY <2>4, <3>1, MovingIsSound
  <2>7. QED BY <2>5, <2>6
<1>5. CASE FocuserArrives
  <2>1. focuser \in FocuserType /\ Backlash \in Nat /\ Slack \in Nat /\ MaxPosition \in Nat
    BY <1>1, FocuserAssumption DEF RigTyped
  <2> DEFINE s == IF focuser.goal < focuser.position THEN Slack
                  ELSE IF focuser.goal - focuser.position > focuser.slack THEN 0
                  ELSE focuser.slack - (focuser.goal - focuser.position)
  <2>2. focuser.goal \in 0..MaxPosition /\ focuser.position \in 0..MaxPosition /\ focuser.slack \in 0..Slack
    BY <1>5, <2>1 DEF FocuserType, FocuserArrives, Still
  <2>3. s \in 0..Slack
    BY <2>1, <2>2
  <2>4. focuser' = [position |-> focuser.goal, goal |-> None, slack |-> s]
    BY <1>5 DEF FocuserArrives
  <2> HIDE DEF s
  <2>5. focuser' \in FocuserType
    BY <2>2, <2>3, <2>4 DEF FocuserType
  <2>6. RigTyped'
    BY <1>1, <1>5, <2>5 DEF FocuserArrives, RigTyped, PointingTyped, pointing, counts
  <2>7. QED BY <1>5, <2>6, MovingIsSound DEF FocuserArrives
<1>6. ASSUME NEW kind \in Kinds, Submit(kind)
      PROVE TaskTyped' /\ RigTyped' /\ TaskIsSound'
  <2>1. PICK todo \in Programs(kind) : task' = NewTask(kind, 1, todo, "submitted")
    BY <1>6 DEF Submit
  <2>2. 1 \in DOMAIN Plan
    BY PlanAssumption
  <2>3. task' \in TaskType /\ Fresh(task') /\ task'.todo # <<>> /\ task'.pc = "submitted"
    BY <2>1, <2>2, ProgramsAreShaped, NewTasksAreTyped
  <2>4. outcome' \in Seq(OutcomeType)
    BY <1>6 DEF Submit
  <2>5. RigTyped'
    BY <1>1, <1>6, CountsAssumption DEF Submit, RigTyped, PointingTyped, pointing
  <2>6. QED BY <2>3, <2>4, <2>5 DEF TaskTyped, TaskIsSound
<1>7. CASE Cancel
  <2>1. TaskTyped' /\ TaskIsSound'
    BY <1>7, EndingIsSound DEF Cancel, TaskTyped
  <2>2. RigTyped'
    BY <1>1, <1>7, MountsAreTyped DEF Cancel, RigTyped, PointingTyped, counts
  <2>3. QED BY <2>1, <2>2
<1>8. CASE Request
  <2>1. TaskTyped' /\ TaskIsSound'
    BY <1>8, RequestCases, MovingIsSound DEF MountSlew, MountAbort, GoesHome, Unpark, Nudge, ClearTarget,
      MountTracking
  <2>2. QED BY <1>8, <2>1, RequestRig
<1>9. CASE UNCHANGED vars
  <2>1. RigTyped'
    BY <1>1, <1>9 DEF vars, RigTyped, PointingTyped, counts
  <2>2. QED BY <1>9, <2>1, MovingIsSound DEF vars
<1>10. QED
  BY <1>3, <1>4, <1>5, <1>6, <1>7, <1>8, <1>9 DEF Next

-----------------------------------------------------------------------------
(* What a session counts                                                   *)

\* The steps of a session centre, focus or shoot.
LEMMA SessionSteps ==
  ASSUME TypeOK, TaskIsSound, SessionIsCounted, Session
  PROVE Step.op \in {"centre", "focus", "shoot"}
<1>1. CASE Len(task.todo) > 1
  <2>1. task.todo \in Seq(StepType) /\ Shaped(task)
    BY StepIsTyped DEF Session, SessionIsCounted
  <2>2. 1 \in 1..(Len(task.todo) - 1)
    BY <1>1, <2>1
  <2>3. Step = task.todo[1]
    BY <1>1, <2>1 DEF Step
  <2>4. QED BY <2>1, <2>2, <2>3 DEF Shaped
<1>2. CASE ~(Len(task.todo) > 1)
  BY <1>2, LastStepShoots
<1>3. QED BY <1>1, <1>2

\* A task goes on with its block.
GoesOn ==
  /\ UNCHANGED outcome
  /\ task'.kind = task.kind /\ task'.block = task.block /\ task'.todo = task.todo
  /\ task'.index = task.index \/ Step.op # "shoot"

\* And it stays a session, or none, with what it reported.
Stays == UNCHANGED outcome /\ task' \in TaskType /\ task'.kind = task.kind

\* A reframing takes its field a second time.
CentresAgain ==
  /\ Step.op = "check" /\ UNCHANGED outcome
  /\ Goes(NewTask(task.kind, 1, <<Centre(Step.target, TRUE)>>, "begin"))

\* Whatever a task does but write a light: a step ends, or goes on.
LEMMA TaskStepCases ==
  ASSUME TypeOK, TaskIsSound, TaskStep, ~Written
  PROVE /\ UNCHANGED saved /\ Running
        /\ StepFails \/ Ended \/ (StepDone /\ Step.op # "shoot") \/ GoesOn \/ CentresAgain
<1>1. Running
  BY TaskStepIsRunning
<1>2. task \in TaskType
  BY <1>1, StepIsTyped
<1>3. UNCHANGED saved
  BY DEF TaskStep, Arrived, Interrupted, Exposed, CentreBegins, CentreSolved, SweepBegins, SweepSolved,
    ZenithBegins, ZenithArrived, FocusBegins, FocusMoved, FocusSampled, FocusChecked, ShootBegins,
    Shot, Written, Dithered, ReferenceSolved, LookBegins, LookSolved, WatchBegins, Watched, Driven
<1> SUFFICES StepFails \/ Ended \/ (StepDone /\ Step.op # "shoot") \/ GoesOn \/ CentresAgain
  BY <1>1, <1>3
<1>4. ASSUME NEW pc, GoesTo(pc)
      PROVE GoesOn
  BY <1>2, <1>4 DEF GoesTo, Goes, GoesOn, TaskType
<1>5. ASSUME NEW to, NEW named, NEW t, SlewsAndWaits(to, named, t), t \in TaskType,
             t.kind = task.kind, t.block = task.block, t.todo = task.todo,
             t.index = task.index \/ Step.op # "shoot"
      PROVE StepFails \/ GoesOn
  BY <1>5 DEF SlewsAndWaits, Goes, GoesOn, TaskType
<1>6. CASE Arrived
  BY <1>4, <1>6 DEF Arrived
<1>7. CASE Interrupted
  BY <1>7 DEF Interrupted
<1>8. CASE Exposed
  <2>1. CASE Goes([task EXCEPT !.pc = "solving", !.seen = mount.at, !.moved = FALSE])
    BY <1>2, <2>1 DEF Goes, GoesOn, TaskType
  <2>2. QED BY <1>8, <2>1 DEF Exposed
<1>9. CASE CentreBegins \/ SweepBegins \/ ZenithBegins
  BY <1>2, <1>5, <1>9 DEF CentreBegins, SweepBegins, ZenithBegins
<1>10. CASE CentreSolved
  <2> DEFINE t == [task EXCEPT !.pass = @ + 1]
  <2>1. CASE SlewsAndWaits(Step.target, TRUE, t)
    <3>1. t \in TaskType
      <4>1. task.pass + 1 \in 1..(MaxPasses + 1)
        BY <1>2, <1>10, CountsAssumption DEF TaskType, TaskIsSound, CentreSolved, At
      <4>2. QED BY <1>2, <4>1, NextPass
    <3>2. t.kind = task.kind /\ t.block = task.block /\ t.todo = task.todo /\ t.index = task.index
      BY <1>2 DEF TaskType
    <3> HIDE DEF t
    <3>3. QED BY <1>5, <2>1, <3>1, <3>2
  <2>2. CASE Goes([task EXCEPT !.pc = "exposing", !.pass = @ + 1])
    <3> DEFINE n == task.pass + 1
    <3>1. task' = [task EXCEPT !.pc = "exposing", !.pass = n] /\ outcome' = outcome
      BY <2>2 DEF Goes
    <3> HIDE DEF n
    <3>2. QED BY <1>2, <3>1 DEF GoesOn, TaskType
  <2>3. QED BY <1>10, <2>1, <2>2 DEF CentreSolved, Centres, At
<1>11. CASE SweepSolved
  <2> DEFINE t == [task EXCEPT !.index = @ + 1]
  <2>1. CASE SlewsAndWaits(Sky, FALSE, t)
    <3>1. t \in TaskType
      <4>1. task.index + 1 \in Nat \ {0}
        BY <1>2 DEF TaskType
      <4>2. QED BY <1>2, <4>1, NextIndex
    <3>2. t.kind = task.kind /\ t.block = task.block /\ t.todo = task.todo
      BY <1>2 DEF TaskType
    <3>3. Step.op # "shoot"
      BY <1>11 DEF SweepSolved, At
    <3> HIDE DEF t
    <3>4. QED BY <1>5, <2>1, <3>1, <3>2, <3>3
  <2>2. QED BY <1>11, <2>1 DEF SweepSolved, At
<1>12. CASE ZenithArrived \/ FocusChecked \/ ReferenceSolved \/ Driven
  BY <1>12 DEF ZenithArrived, FocusChecked, ReferenceSolved, Driven, At, Begins
<1>13. CASE FocusBegins
  <2>1. Goes([task EXCEPT !.pc = "lowering", !.start = focuser.position])
    BY <1>13 DEF FocusBegins
  <2>2. QED BY <1>2, <2>1 DEF Goes, GoesOn, TaskType
<1>14. CASE FocusMoved \/ ShootBegins \/ Dithered \/ LookBegins
  BY <1>4, <1>14 DEF FocusMoved, ShootBegins, Dithered, LookBegins
<1>15. CASE FocusSampled
  <2>1. Step.op # "shoot"
    BY <1>15 DEF FocusSampled, At
  <2>2. ASSUME NEW t, Sampled(t), t \in TaskType,
               t.kind = task.kind, t.block = task.block, t.todo = task.todo
        PROVE StepFails \/ GoesOn
    <3>1. CASE Goes([t EXCEPT !.pc = "raising", !.index = @ + 1])
      BY <2>1, <2>2, <3>1 DEF Goes, GoesOn, TaskType
    <3>2. ASSUME NEW best, Goes([t EXCEPT !.pc = "returning", !.best = best])
          PROVE GoesOn
      BY <2>1, <2>2, <3>2 DEF Goes, GoesOn, TaskType
    <3>3. QED BY <2>2, <3>1, <3>2 DEF Sampled
  <2> DEFINE u == [task EXCEPT !.usable = @ + 1]
  <2>3. u \in TaskType /\ u.kind = task.kind /\ u.block = task.block /\ u.todo = task.todo
    <3>1. task.usable + 1 \in 0..Samples
      BY <1>2, <1>15, CountsAssumption DEF TaskType, FocusSampled, At, TaskIsSound
    <3>2. u \in TaskType
      BY <1>2, <3>1, NextUsable
    <3>3. QED BY <1>2, <3>2 DEF TaskType
  <2>4. StepFails \/ Sampled(u) \/ Sampled(task)
    BY <1>15 DEF FocusSampled
  <2> HIDE DEF u
  <2>5. QED BY <1>2, <2>2, <2>3, <2>4
<1>16. CASE Shot
  <2>1. CASE Goes([task EXCEPT !.pc = "saving",
                    !.seen = [place |-> mount.at.place, label |-> active, astray |-> astray]])
    BY <1>2, <2>1 DEF Goes, GoesOn, TaskType
  <2>2. QED BY <1>16, <2>1 DEF Shot
<1>17. CASE LookSolved
  <2>1. CASE GoesTo("exposing")
    BY <1>4, <2>1
  <2>2. CASE /\ Step.op = "check"
             /\ Goes(NewTask(task.kind, 1, <<Centre(Step.target, TRUE)>>, "begin"))
    BY <2>2 DEF CentresAgain, Goes
  <2>3. QED BY <1>17, <2>1, <2>2 DEF LookSolved
<1>18. CASE WatchBegins \/ Watched
  BY <1>4, <1>18 DEF WatchBegins, Watched, At, Begins
<1>19. QED
  BY <1>6, <1>7, <1>8, <1>9, <1>10, <1>11, <1>12, <1>13, <1>14, <1>15, <1>16, <1>17, <1>18
  DEF TaskStep

\* A light of a session is one more, and its block is reported when it has them all.
LEMMA WrittenCounts ==
  ASSUME TypeOK, TaskIsSound, SessionIsCounted, Written
  PROVE /\ SessionIsCounted'
        /\ StepOver \/ (UNCHANGED outcome /\ task'.kind = task.kind)
<1>1. Running /\ Step.op = "shoot"
  BY DEF Written, At
<1>2. /\ task \in TaskType /\ task.block \in DOMAIN Plan /\ task.index \in Nat \ {0}
      /\ saved \in [DOMAIN Plan -> Nat]
  BY <1>1, StepIsTyped DEF TaskType, TypeOK
<1>3. CASE StepFails /\ UNCHANGED saved
  <2>1. SessionIsCounted'
    BY <1>1, <1>3, StepCounts
  <2>2. QED BY <1>3, <2>1 DEF StepOver
<1> DEFINE one == saved[task.block] + 1
<1>4. CASE /\ saved' = IF Session THEN [saved EXCEPT ![task.block] = @ + 1] ELSE saved
           /\ IF LastFrame THEN StepDone
              ELSE Goes([task EXCEPT !.pc = IF guiding THEN "dithering" ELSE "shooting",
                                     !.index = @ + 1, !.seen = None])
  <2>1. /\ saved' = IF Session THEN [saved EXCEPT ![task.block] = one] ELSE saved
        /\ one \in Nat /\ saved[task.block] <= one
    BY <1>2, <1>4
  <2> HIDE DEF one
  <2>2. /\ saved' \in [DOMAIN Plan -> Nat]
        /\ \A b \in DOMAIN Plan : b # task.block => saved'[b] = saved[b]
        /\ saved'[task.block] = IF Session THEN one ELSE saved[task.block]
    BY <1>2, <2>1
  <2>3. \A b \in DOMAIN Plan : saved[b] <= saved'[b]
    BY <1>2, <2>1, <2>2
  <2>4. Session => /\ saved[task.block] = task.index - 1 /\ one = task.index
                   /\ \A b \in DOMAIN Plan : b > task.block => saved'[b] = 0
    <3> SUFFICES ASSUME Session
                 PROVE /\ saved[task.block] = task.index - 1 /\ one = task.index
                       /\ \A b \in DOMAIN Plan : b > task.block => saved'[b] = 0
      OBVIOUS
    <3>1. /\ saved[task.block] = task.index - 1
          /\ \A b \in DOMAIN Plan : b > task.block => saved[b] = 0
      BY <1>1 DEF SessionIsCounted
    <3>2. one = task.index
      BY <1>2, <3>1 DEF one
    <3>3. \A b \in DOMAIN Plan : b > task.block => b # task.block
      BY <1>2, PlanAssumption
    <3>4. QED BY <2>2, <3>1, <3>2, <3>3
  <2>5. SavedGrows
    BY <2>2, <2>3, <2>4 DEF SavedGrows
  <2>6. CASE LastFrame /\ StepDone
    <3>1. CASE Len(task.todo) > 1
      <4>1. ~Session
        <5>1. Shaped(task) => Step.op # "shoot"
          BY <1>1, <3>1, TailIsTyped
        <5>2. QED BY <1>1, <5>1 DEF SessionIsCounted
      <4>2. task' = NewTask(task.kind, task.block, Tail(task.todo), "begin") /\ UNCHANGED outcome
        BY <2>6, <3>1 DEF StepDone, Goes
      <4>3. UNCHANGED saved
        BY <2>1, <4>1
      <4>4. SessionIsCounted'
        BY <1>1, <3>1, <4>2, <4>3, NextStepCounts
      <4>5. QED BY <2>6, <4>4 DEF StepOver
    <3>2. CASE ~(Len(task.todo) > 1)
      <4>1. BlockOver("done")
        BY <2>6, <3>2 DEF StepDone
      <4>2. ASSUME Session PROVE Plan[task.block].frames <= saved'[task.block]
        <5>1. Step.frames = Plan[task.block].frames
          BY <3>2, <4>2, LastStepShoots
        <5>2. task.index = Step.frames
          BY <2>6 DEF LastFrame
        <5>3. saved'[task.block] = task.index
          BY <2>2, <2>4, <4>2
        <5>4. QED BY <1>2, <5>1, <5>2, <5>3
      <4>3. SessionIsCounted'
        BY <1>1, <2>5, <4>1, <4>2, BlockOverCounts
      <4>4. QED BY <2>6, <4>3 DEF StepOver
    <3>3. QED BY <3>1, <3>2
  <2>7. ASSUME NEW pc, Goes([task EXCEPT !.pc = pc, !.index = @ + 1, !.seen = None])
        PROVE SessionIsCounted' /\ UNCHANGED outcome /\ task'.kind = task.kind
    <3> DEFINE n == task.index + 1
    <3>1. /\ task' = [task EXCEPT !.pc = pc, !.index = n, !.seen = None] /\ outcome' = outcome
          /\ n \in Nat /\ n - 1 = task.index
      BY <1>2, <2>7 DEF Goes
    <3> HIDE DEF n
    <3>2. /\ task'.kind = task.kind /\ task'.block = task.block /\ task'.todo = task.todo
          /\ task'.index = n
      BY <1>2, <3>1 DEF TaskType
    <3>3. Step' = Step /\ (Shaped(task) => Shaped(task')) /\ (Session' => Session)
      BY <1>1, <3>2 DEF Step, Shaped, Session, Running
    <3>4. Session => Len(outcome) = task.block - 1 /\ Shaped(task)
      BY DEF SessionIsCounted
    <3>5. \A b \in DOMAIN outcome : outcome[b].frames <= saved'[b]
      <4> SUFFICES ASSUME NEW b \in DOMAIN outcome PROVE outcome[b].frames <= saved'[b]
        OBVIOUS
      <4>1. /\ outcome[b].frames <= saved[b] /\ b \in DOMAIN Plan
        BY DEF SessionIsCounted
      <4>2. outcome \in Seq(OutcomeType)
        BY DEF TypeOK, OutcomeType
      <4>3. outcome[b] \in OutcomeType
        BY <4>2
      <4>4. outcome[b].frames \in Nat
        BY <4>3 DEF OutcomeType
      <4>5. saved[b] <= saved'[b] /\ saved[b] \in Nat /\ saved'[b] \in Nat
        BY <1>2, <2>2, <2>3, <4>1
      <4>6. QED BY <4>1, <4>4, <4>5
    <3>6. DOMAIN outcome' \subseteq DOMAIN Plan
      BY <3>1 DEF SessionIsCounted
    <3>7. Session => saved'[task'.block] = task'.index - 1
      BY <2>2, <2>4, <3>1, <3>2
    <3>8. Session => \A b \in DOMAIN Plan : b > task'.block => saved'[b] = 0
      BY <2>4, <3>2
    <3>9. SessionIsCounted'
      BY <1>1, <3>1, <3>2, <3>3, <3>4, <3>5, <3>6, <3>7, <3>8 DEF SessionIsCounted
    <3>10. QED BY <3>1, <3>2, <3>9
  <2>8. QED BY <1>4, <2>6, <2>7
<1>5. QED BY <1>3, <1>4 DEF Written

\* Every step of a task ends it or lets it stay what it is.
LEMMA TaskStepStays ==
  ASSUME TypeOK, TaskIsSound, SessionIsCounted, TaskStep
  PROVE StepOver \/ Stays
<1>1. task' \in TaskType \/ StepOver
  BY TaskStepIsSound
<1>2. CASE Written
  BY <1>1, <1>2, WrittenCounts DEF Stays
<1>3. CASE ~Written
  <2>1. CASE CentresAgain
    BY <1>1, <2>1 DEF CentresAgain, Goes, NewTask, Stays
  <2>2. CASE ~CentresAgain
    BY <1>1, <1>3, <2>2, TaskStepCases DEF GoesOn, Stays, StepOver
  <2>3. QED BY <2>1, <2>2
<1>4. QED BY <1>2, <1>3

\* The count goes on, whatever the task does and whoever interferes.
LEMMA CountStep ==
  ASSUME TypeOK, TaskIsSound, SessionIsCounted, [Next]_vars
  PROVE SessionIsCounted'
<1>1. CASE Written
  BY <1>1, WrittenCounts
<1>2. CASE TaskStep /\ ~Written
  <2>1. CASE CentresAgain
    <3>1. ~Session /\ UNCHANGED <<outcome, saved>> /\ Running
      BY <1>2, <2>1, SessionSteps, TaskStepCases DEF CentresAgain
    <3>2. task'.kind = task.kind
      BY <2>1 DEF CentresAgain, Goes, NewTask
    <3>3. ~Session'
      BY <3>1, <3>2 DEF Session, Running
    <3>4. QED BY <3>1, <3>3 DEF SessionIsCounted
  <2>2. CASE ~CentresAgain
    BY <1>2, <2>2, TaskStepCases, StepCounts, GoingOnCounts DEF GoesOn
  <2>3. QED BY <2>1, <2>2
<1>3. ASSUME UNCHANGED <<outcome, saved>>,
             task' \in {task, Woken} \/ task' = (IF Running THEN [task EXCEPT !.moved = TRUE] ELSE task)
      PROVE SessionIsCounted'
  <2>1. CASE task' = Woken
    BY <1>3, <2>1, GoingOnCounts, WokenIsSound DEF Woken
  <2>2. CASE task' = [task EXCEPT !.moved = TRUE] /\ Running
    <3>1. task \in TaskType
      BY <2>2, StepIsTyped
    <3>2. /\ task'.kind = task.kind /\ task'.block = task.block
          /\ task'.todo = task.todo /\ task'.index = task.index
      BY <2>2, <3>1 DEF TaskType
    <3>3. QED BY <1>3, <2>2, <3>2, GoingOnCounts
  <2>3. QED BY <1>3, <2>1, <2>2, GoingOnCounts
<1>4. CASE SlewEnds
  <2>1. CASE Waits
    <3>1. task \in TaskType /\ Running
      BY <2>1, StepIsTyped DEF Waits
    <3>2. /\ task'.kind = task.kind /\ task'.block = task.block
          /\ task'.todo = task.todo /\ task'.index = task.index
      BY <1>4, <2>1, <3>1 DEF SlewEnds, TaskType
    <3>3. QED BY <1>4, <3>1, <3>2, GoingOnCounts DEF SlewEnds
  <2>2. QED BY <1>3, <1>4, <2>1 DEF SlewEnds
<1>5. CASE FocuserArrives
  BY <1>3, <1>5 DEF FocuserArrives
<1>6. ASSUME NEW kind \in Kinds, Submit(kind)
      PROVE SessionIsCounted'
  <2>1. PICK todo \in Programs(kind) : task' = NewTask(kind, 1, todo, "submitted")
    BY <1>6 DEF Submit
  <2>2. 1 \in DOMAIN Plan /\ DOMAIN Plan = 1..Len(Plan)
    BY PlanAssumption
  <2>3. /\ task'.kind = kind /\ task'.block = 1 /\ Fresh(task')
        /\ kind = "session" => Shaped(task')
    BY <2>1, <2>2, ProgramsAreShaped, NewTasksAreTyped
  <2>4. outcome' = <<>> /\ saved' = [b \in DOMAIN Plan |-> 0]
    BY <1>6 DEF Submit
  <2>5. DOMAIN outcome' = {} /\ Len(outcome') = 0
    BY <2>4
  <2>6. QED BY <2>2, <2>3, <2>4, <2>5 DEF SessionIsCounted, Session, Fresh
<1>7. CASE Cancel
  BY <1>7, StepCounts DEF Cancel
<1>8. CASE Request
  BY <1>3, <1>8, RequestCases DEF MountSlew, MountAbort, GoesHome, Unpark, Nudge, ClearTarget,
    MountTracking
<1>9. CASE UNCHANGED vars
  BY <1>3, <1>9 DEF vars
<1>10. QED
  BY <1>1, <1>2, <1>4, <1>5, <1>6, <1>7, <1>8, <1>9 DEF Next

-----------------------------------------------------------------------------
(* Where the mount is                                                      *)

\* The mount is sent to what is active, if the move is named, or refuses.
LEMMA SentIsKnown ==
  ASSUME TypeOK, MountIsKnown, NEW to \in Places, NEW named \in BOOLEAN, Slews(to, named) \/ Refused,
         named => active' \in {to, None}
  PROVE MountIsKnown'
<1>1. mount \in MountType /\ slew \in SlewType \cup {None}
  BY DEF TypeOK, MountType
<1>2. CASE Slews(to, named)
  <2>1. /\ slew' = [to |-> to, named |-> named] /\ astray' /\ centred' = None
        /\ mount'.state = "slewing" /\ mount'.at = Pointing(Sky, FALSE)
    BY <1>1, <1>2 DEF Slews, MountType
  <2>2. slew' # None /\ slew'.to = to /\ slew'.named = named
    BY <2>1, ValuesAssumption DEF SlewType
  <2>3. QED BY <2>1, <2>2 DEF MountIsKnown
<1>3. CASE Refused
  <2>1. /\ mount'.at = mount.at /\ mount'.tracking = mount.tracking
        /\ mount'.state = IF mount.state = "parked" THEN "idle" ELSE mount.state
        /\ astray' /\ centred' = centred
    BY <1>1, <1>3 DEF Refused, MountType
  <2>2. slew' = None \/ (slew' \in SlewType /\ ~slew'.named)
    BY <1>1, <1>3 DEF Refused, SlewType
  <2>3. (slew' = None) = (slew = None)
    BY <1>1, <1>3, ValuesAssumption DEF Refused, SlewType
  <2>4. QED BY <2>1, <2>2, <2>3 DEF MountIsKnown
<1>4. QED BY <1>2, <1>3

\* Tracking turned on or off leaves the mount where it is, and its state true.
LEMMA TrackingIsKnown ==
  ASSUME TypeOK, MountIsKnown, NEW on \in BOOLEAN, Tracks(on)
  PROVE /\ mount'.at = mount.at /\ mount'.tracking = on
        /\ (mount'.state = "slewing") = (slew # None)
        /\ mount'.state # "parked"
        /\ mount'.state = "tracking" => on
<1>1. mount \in MountType
  BY DEF TypeOK, MountType
<1>2. (mount.state = "slewing") = (slew # None)
  BY DEF MountIsKnown
<1>3. /\ mount'.at = mount.at /\ mount'.tracking = on
      /\ mount'.state = IF mount.state = "slewing" THEN mount.state
                        ELSE IF on THEN "tracking" ELSE "idle"
  BY <1>1 DEF Tracks, MountType
<1>4. QED BY <1>2, <1>3

\* A pulse or a nudge leaves the mount at the same place.
LEMMA NudgedIsKnown ==
  ASSUME TypeOK, MountIsKnown, mount' = [mount EXCEPT !.at.near = FALSE], centred' = None,
         UNCHANGED <<slew, active, astray>>
  PROVE MountIsKnown'
<1>1. mount \in MountType
  BY DEF TypeOK, MountType
<1>2. /\ mount'.state = mount.state /\ mount'.tracking = mount.tracking
      /\ mount'.at = [place |-> mount.at.place, near |-> FALSE]
  BY <1>1 DEF MountType, PointingType
<1>3. mount.at = Pointing(Sky, FALSE) => mount'.at = Pointing(Sky, FALSE)
  BY <1>2 DEF Pointing
<1>4. mount'.at.place = mount.at.place
  BY <1>2
<1>5. QED BY <1>2, <1>3, <1>4 DEF MountIsKnown

\* What a task does to the mount, and believes of it.
LEMMA TaskStepMount ==
  ASSUME TypeOK, TaskIsSound, MountIsKnown, TaskIsOnTarget, TaskStep
  PROVE MountIsKnown'
<1>1. Running
  BY TaskStepIsRunning
<1>2. /\ task \in TaskType /\ mount \in MountType /\ mount.at \in PointingType
      /\ Sky \in Places /\ Targets \subseteq Places
  BY <1>1, StepIsTyped DEF TypeOK, MountType, Places
<1>3. Step.op \in {"centre", "check"} => Step.target \in Targets
  BY <1>1, StepIsTyped
<1>4. CASE UNCHANGED <<mount, slew, active, centred, astray>>
  BY <1>4 DEF MountIsKnown
<1>5. ASSUME NEW to \in Places, NEW named \in BOOLEAN, NEW t, SlewsAndWaits(to, named, t),
             named => active' \in {to, None}
      PROVE MountIsKnown'
  BY <1>5, SentIsKnown DEF SlewsAndWaits
<1>6. CASE CentreBegins
  BY <1>2, <1>3, <1>5, <1>6 DEF CentreBegins, Begins
<1>7. CASE SweepBegins
  BY <1>2, <1>5, <1>7 DEF SweepBegins
<1>8. CASE ZenithBegins
  BY <1>2, <1>5, <1>8 DEF ZenithBegins
<1>9. CASE CentreSolved
  <2>1. active' = active /\ active \in {Step.target, None} /\ Step.target \in Targets
    BY <1>1, <1>3, <1>9 DEF CentreSolved, At, TaskIsOnTarget
  <2>2. CASE SlewsAndWaits(Step.target, TRUE, [task EXCEPT !.pass = @ + 1])
    BY <1>2, <1>5, <2>1, <2>2
  <2>3. CASE Centres
    <3>1. task.seen = Pointing(Step.target, TRUE) /\ task.seen.near
      BY <2>3 DEF Centres, Pointing
    <3>2. CASE task.moved
      BY <2>1, <2>3, <3>2 DEF Centres, MountIsKnown
    <3>3. CASE ~task.moved
      <4>1. slew = None /\ mount.at = Pointing(Step.target, TRUE)
        BY <1>1, <1>9, <3>1, <3>3 DEF TaskIsOnTarget, CentreSolved, At
      <4>2. QED BY <2>1, <2>3, <3>3, <4>1 DEF Centres, MountIsKnown
    <3>4. QED BY <3>2, <3>3
  <2>4. QED BY <1>4, <1>9, <2>1, <2>2, <2>3 DEF CentreSolved
<1>10. CASE SweepSolved
  BY <1>2, <1>4, <1>5, <1>10 DEF SweepSolved
<1>11. CASE ZenithArrived
  <2>1. UNCHANGED <<slew, active, centred, astray>> /\ Tracks(FALSE)
    BY <1>11 DEF ZenithArrived
  <2>2. QED BY <2>1, TrackingIsKnown DEF MountIsKnown
<1>12. CASE Driven
  <2>1. /\ mount' = [mount EXCEPT !.at.near = FALSE] /\ centred' = None
        /\ UNCHANGED <<slew, active, astray>>
    BY <1>12 DEF Driven
  <2>2. QED BY <2>1, NudgedIsKnown
<1>13. CASE UNCHANGED pointing
  BY <1>4, <1>13 DEF pointing
<1>14. QED
  BY <1>6, <1>7, <1>8, <1>9, <1>10, <1>11, <1>12, <1>13
  DEF TaskStep, Arrived, Interrupted, Exposed, FocusBegins, FocusMoved, FocusSampled, FocusChecked,
    ShootBegins, Shot, Written, Dithered, ReferenceSolved, LookBegins, LookSolved, WatchBegins, Watched

\* A slew that is stopped leaves the mount nowhere near, and not slewing.
LEMMA AbortedIsKnown ==
  ASSUME TypeOK, MountIsKnown, slew # None, slew' = None, mount' = Aborted,
         UNCHANGED <<active, centred, astray>>
  PROVE MountIsKnown'
<1>1. mount \in MountType
  BY DEF TypeOK, MountType
<1>2. mount'.state = "idle" /\ mount'.at = Pointing(Sky, FALSE)
  BY <1>1 DEF Aborted, MountType
<1>3. QED BY <1>2 DEF MountIsKnown

\* Where the mount is stays known, whatever moves it.
LEMMA MountStep ==
  ASSUME TypeOK, TaskIsSound, MountIsKnown, TaskIsOnTarget, [Next]_vars
  PROVE MountIsKnown'
<1>1. CASE TaskStep
  BY <1>1, TaskStepMount
<1>2. CASE UNCHANGED <<mount, slew, active, centred, astray>>
  BY <1>2 DEF MountIsKnown
<1>3. CASE SlewEnds
  <2>1. /\ slew # None /\ slew' = None /\ astray' = ~slew.named
        /\ active' = active /\ centred' = centred
    BY <1>3 DEF SlewEnds
  <2>2. PICK near \in BOOLEAN :
          mount' = [state |-> "tracking", tracking |-> TRUE, at |-> Pointing(slew.to, near)]
    BY <1>3 DEF SlewEnds
  <2>3. /\ mount'.state = "tracking" /\ mount'.tracking /\ mount'.at.place = slew.to
    BY <2>2 DEF Pointing
  <2>4. slew.named \in BOOLEAN
    BY <2>1 DEF TypeOK, SlewType
  <2>5. QED BY <2>1, <2>3, <2>4 DEF MountIsKnown
<1>4. CASE Cancel
  <2>1. CASE UNCHANGED <<slew, mount>>
    BY <1>2, <1>4, <2>1 DEF Cancel
  <2>2. CASE slew # None /\ slew' = None /\ mount' = Aborted
    BY <1>4, <2>2, AbortedIsKnown DEF Cancel
  <2>3. QED BY <1>4, <2>1, <2>2 DEF Cancel
<1>5. CASE Request
  <2>1. ASSUME NEW t \in Targets, MountSlew(t)
        PROVE MountIsKnown'
    <3>1. t \in Places
      BY DEF Places
    <3>2. QED BY <2>1, <3>1, SentIsKnown DEF MountSlew
  <2>2. CASE MountAbort
    BY <2>2, AbortedIsKnown DEF MountAbort
  <2>3. CASE GoesHome
    <3>1. /\ slew' = None /\ centred' = None /\ active' = None
          /\ mount'.state = "parked" /\ ~mount'.tracking /\ mount'.at.place = Home
      BY <2>3 DEF GoesHome, Pointing
    <3>2. QED BY <3>1 DEF MountIsKnown
  <2>4. CASE Unpark
    <3>1. mount \in MountType
      BY DEF TypeOK, MountType
    <3>2. mount'.state = "idle" /\ mount'.at = mount.at /\ mount'.tracking = mount.tracking
      BY <2>4, <3>1 DEF Unpark, MountType
    <3>3. QED BY <2>4, <3>2 DEF Unpark, MountIsKnown
  <2>5. CASE Nudge
    BY <2>5, NudgedIsKnown DEF Nudge
  <2>6. CASE ClearTarget
    BY <2>6 DEF ClearTarget, MountIsKnown
  <2>7. ASSUME NEW on \in BOOLEAN, MountTracking(on)
        PROVE MountIsKnown'
    <3>1. Tracks(on) /\ UNCHANGED <<slew, active>>
      BY <2>7 DEF MountTracking
    <3>2. UNCHANGED <<astray, centred>> \/ (slew = None /\ astray' /\ centred' = None)
      BY <2>7 DEF MountTracking
    <3>3. QED BY <3>1, <3>2, TrackingIsKnown DEF MountIsKnown
  <2>8. CASE UNCHANGED pointing
    BY <1>2, <2>8 DEF pointing
  <2>9. QED BY <1>5, <2>1, <2>2, <2>3, <2>4, <2>5, <2>6, <2>7, <2>8, RequestCases
<1>6. QED
  BY <1>1, <1>2, <1>3, <1>4, <1>5 DEF Next, FocuserArrives, Submit, vars, pointing

\* A step about to begin has seen nothing and named nothing.
LEMMA NewStepIsOnTarget ==
  ASSUME Running' => task'.pc \in {"submitted", "begin"}
  PROVE TaskIsOnTarget'
BY DEF TaskIsOnTarget

\* A task goes by what it named and saw, whatever it does.
LEMMA TaskStepTarget ==
  ASSUME TypeOK, TaskIsSound, MountIsKnown, TaskIsOnTarget, TaskStep
  PROVE TaskIsOnTarget'
<1>1. Running
  BY TaskStepIsRunning
<1>2. task \in TaskType
  BY <1>1, StepIsTyped
<1>3. ASSUME StepFails \/ StepDone \/ Ended
      PROVE TaskIsOnTarget'
  BY <1>1, <1>3, StepEnds, NewStepIsOnTarget DEF Running
<1>4. ASSUME NEW pc \in PCs \ {"solving"}, task'.pc = pc, task'.todo = task.todo, UNCHANGED active,
             task.pc \in {"submitted", "begin"} => Step.op # "centre"
      PROVE TaskIsOnTarget'
  <2>1. Step' = Step
    BY <1>4 DEF Step
  <2>2. QED BY <1>1, <1>4, <2>1 DEF TaskIsOnTarget
<1>5. ASSUME NEW to, NEW named, NEW t \in TaskType, SlewsAndWaits(to, named, t), t.todo = task.todo,
             Step.op = "centre" => active' \in {Step.target, None}
      PROVE TaskIsOnTarget'
  <2>1. CASE Goes([t EXCEPT !.pc = "slewing"])
    <3>1. task'.pc = "slewing" /\ task'.todo = task.todo
      BY <1>5, <2>1 DEF Goes, TaskType
    <3>2. Step' = Step
      BY <3>1 DEF Step
    <3>3. QED BY <1>5, <3>1, <3>2 DEF TaskIsOnTarget
  <2>2. QED BY <1>3, <1>5, <2>1 DEF SlewsAndWaits
<1>6. ASSUME NEW pc \in PCs \ {"solving"}, GoesTo(pc), UNCHANGED active,
             task.pc \in {"submitted", "begin"} => Step.op # "centre"
      PROVE TaskIsOnTarget'
  <2>1. task'.pc = pc /\ task'.todo = task.todo
    BY <1>2, <1>6 DEF GoesTo, Goes, TaskType
  <2>2. QED BY <1>4, <1>6, <2>1
<1>7. CASE Arrived
  <2>1. UNCHANGED active /\ "exposing" \in PCs \ {"solving"} /\ task.pc = "arrived"
    BY <1>7 DEF Arrived, pointing, PCs
  <2>2. QED BY <1>3, <1>6, <1>7, <2>1 DEF Arrived
<1>8. CASE Interrupted
  BY <1>3, <1>8 DEF Interrupted
<1>9. CASE Exposed
  <2>1. CASE Goes([task EXCEPT !.pc = "solving", !.seen = mount.at, !.moved = FALSE])
    <3>1. /\ task'.todo = task.todo /\ task'.seen = mount.at /\ UNCHANGED pointing
          /\ task.pc = "exposing"
      BY <1>2, <1>9, <2>1 DEF Goes, TaskType, Exposed
    <3>2. mount.at.near => slew = None
      BY DEF MountIsKnown, Pointing
    <3>3. Step' = Step
      BY <3>1 DEF Step
    <3>4. QED BY <1>1, <3>1, <3>2, <3>3 DEF TaskIsOnTarget, pointing
  <2>2. QED BY <1>3, <1>9, <2>1 DEF Exposed
<1>10. CASE CentreBegins \/ SweepBegins \/ ZenithBegins
  BY <1>2, <1>5, <1>10 DEF CentreBegins, SweepBegins, ZenithBegins, Begins
<1>11. CASE CentreSolved
  <2>1. active' = active /\ active \in {Step.target, None} /\ task.pc = "solving"
    BY <1>1, <1>11 DEF CentreSolved, At, TaskIsOnTarget
  <2> DEFINE n == task.pass + 1
             t == [task EXCEPT !.pass = n]
  <2>2. CASE SlewsAndWaits(Step.target, TRUE, t)
    <3>1. n \in 1..(MaxPasses + 1)
      BY <1>1, <1>2, <1>11, CountsAssumption DEF TaskType, TaskIsSound, CentreSolved, At
    <3>2. t \in TaskType /\ t.todo = task.todo
      BY <1>2, <3>1, NextPass
    <3> HIDE DEF t
    <3>3. QED BY <1>5, <2>1, <2>2, <3>2
  <2>3. CASE Goes([task EXCEPT !.pc = "exposing", !.pass = n])
    <3> HIDE DEF n
    <3>1. task'.pc = "exposing" /\ task'.todo = task.todo /\ "exposing" \in PCs \ {"solving"}
      BY <1>2, <2>3 DEF Goes, TaskType, PCs
    <3>2. QED BY <1>4, <2>1, <3>1
  <2>4. QED BY <1>3, <1>11, <2>2, <2>3 DEF CentreSolved, Centres
<1>12. CASE SweepSolved
  <2>1. Step.op = "sweep"
    BY <1>12 DEF SweepSolved, At
  <2> DEFINE t == [task EXCEPT !.index = @ + 1]
  <2>2. CASE SlewsAndWaits(Sky, FALSE, t)
    <3>1. task.index + 1 \in Nat \ {0}
      BY <1>2 DEF TaskType
    <3>2. t \in TaskType /\ t.todo = task.todo
      BY <1>2, <3>1, NextIndex
    <3> HIDE DEF t
    <3>3. QED BY <1>5, <2>1, <2>2, <3>2
  <2>3. QED BY <1>3, <1>12, <2>2 DEF SweepSolved
<1>13. CASE ZenithArrived \/ FocusChecked \/ ReferenceSolved \/ Driven
  BY <1>3, <1>13 DEF ZenithArrived, FocusChecked, ReferenceSolved, Driven
<1>14. CASE FocusBegins
  <2>1. Goes([task EXCEPT !.pc = "lowering", !.start = focuser.position])
    BY <1>14 DEF FocusBegins
  <2>2. task'.pc = "lowering" /\ task'.todo = task.todo /\ "lowering" \in PCs \ {"solving"}
    BY <1>2, <2>1 DEF Goes, TaskType, PCs
  <2>3. QED BY <1>4, <1>14, <2>2 DEF FocusBegins, Begins, pointing
<1>15. CASE FocusMoved
  <2>1. {"raising", "approaching", "sampling", "checking"} \subseteq PCs \ {"solving"}
    BY DEF PCs
  <2>2. QED BY <1>6, <1>15, <2>1 DEF FocusMoved, pointing
<1>16. CASE FocusSampled
  <2>1. Step.op = "focus" /\ UNCHANGED active
    BY <1>16 DEF FocusSampled, At, pointing
  <2>2. ASSUME NEW t \in TaskType, t.todo = task.todo, Sampled(t)
        PROVE TaskIsOnTarget'
    <3>1. CASE Goes([t EXCEPT !.pc = "raising", !.index = @ + 1])
      <4>1. task'.pc = "raising" /\ task'.todo = task.todo /\ "raising" \in PCs \ {"solving"}
        BY <2>2, <3>1 DEF Goes, TaskType, PCs
      <4>2. QED BY <1>4, <2>1, <4>1
    <3>2. ASSUME NEW best, Goes([t EXCEPT !.pc = "returning", !.best = best])
          PROVE TaskIsOnTarget'
      <4>1. task'.pc = "returning" /\ task'.todo = task.todo /\ "returning" \in PCs \ {"solving"}
        BY <2>2, <3>2 DEF Goes, TaskType, PCs
      <4>2. QED BY <1>4, <2>1, <4>1
    <3>3. QED BY <1>3, <2>2, <3>1, <3>2 DEF Sampled
  <2> DEFINE u == [task EXCEPT !.usable = @ + 1]
  <2>3. u \in TaskType /\ u.todo = task.todo
    <3>1. task.usable + 1 \in 0..Samples
      BY <1>1, <1>2, <1>16, CountsAssumption DEF TaskType, FocusSampled, At, TaskIsSound
    <3>2. QED BY <1>2, <3>1, NextUsable
  <2>4. StepFails \/ Sampled(u) \/ Sampled(task)
    BY <1>16 DEF FocusSampled
  <2> HIDE DEF u
  <2>5. QED BY <1>2, <1>3, <2>2, <2>3, <2>4
<1>17. CASE ShootBegins \/ Dithered \/ LookBegins
  <2>1. {"shooting", "exposing"} \subseteq PCs \ {"solving"}
    BY DEF PCs
  <2>2. QED BY <1>6, <1>17, <2>1 DEF ShootBegins, Dithered, LookBegins, Begins, At, pointing
<1>18. CASE Shot
  <2>1. CASE Goes([task EXCEPT !.pc = "saving",
                    !.seen = [place |-> mount.at.place, label |-> active, astray |-> astray]])
    <3>1. task'.pc = "saving" /\ task'.todo = task.todo /\ "saving" \in PCs \ {"solving"}
      BY <1>2, <2>1 DEF Goes, TaskType, PCs
    <3>2. QED BY <1>4, <1>18, <3>1 DEF Shot, At, pointing
  <2>2. QED BY <1>3, <1>18, <2>1 DEF Shot
<1>19. CASE Written
  <2>1. ASSUME NEW pc \in {"dithering", "shooting"},
               Goes([task EXCEPT !.pc = pc, !.index = @ + 1, !.seen = None])
        PROVE TaskIsOnTarget'
    <3>1. task'.pc = pc /\ task'.todo = task.todo /\ pc \in PCs \ {"solving"}
      BY <1>2, <2>1 DEF Goes, TaskType, PCs
    <3>2. QED BY <1>4, <1>19, <3>1 DEF Written, At, pointing
  <2>2. QED BY <1>3, <1>19, <2>1 DEF Written
<1>20. CASE LookSolved
  <2>1. CASE GoesTo("exposing")
    <3>1. "exposing" \in PCs \ {"solving"}
      BY DEF PCs
    <3>2. QED BY <1>6, <1>20, <2>1, <3>1 DEF LookSolved, At, pointing
  <2>2. CASE Goes(NewTask(task.kind, 1, <<Centre(Step.target, TRUE)>>, "begin"))
    BY <2>2, NewStepIsOnTarget DEF Goes, NewTask
  <2>3. QED BY <1>3, <1>20, <2>1, <2>2 DEF LookSolved
<1>21. CASE WatchBegins \/ Watched
  <2>1. {"watching", "driving"} \subseteq PCs \ {"solving"}
    BY DEF PCs
  <2>2. QED BY <1>3, <1>6, <1>21, <2>1 DEF WatchBegins, Watched, Begins, At, pointing
<1>22. QED
  BY <1>7, <1>8, <1>9, <1>10, <1>11, <1>12, <1>13, <1>14, <1>15, <1>16, <1>17, <1>18, <1>19, <1>20, <1>21
  DEF TaskStep

\* What a request may do to the task: tell it, or wake it.
Told ==
  \/ task' = task
  \/ task' = Woken
  \/ task' = IF Running THEN [task EXCEPT !.moved = TRUE] ELSE task

\* A task that is told keeps its step; it may be interrupted, and knows that it was moved.
LEMMA ToldKeeps ==
  ASSUME TypeOK, TaskIsSound, Told, Running'
  PROVE /\ Running
        /\ task'.todo = task.todo /\ task'.index = task.index /\ task'.seen = task.seen
        /\ task'.start = task.start /\ task'.best = task.best
        /\ (task'.pc = task.pc \/ (task'.pc = "interrupted" /\ task.pc = "slewing"))
        /\ task' # task => task'.moved
        /\ task' = Woken => task'.moved
        /\ Step' = Step
<1>1. Running
  BY DEF Told, Woken, Running
<1>2. task \in TaskType
  BY <1>1, StepIsTyped
<1>3. /\ task'.todo = task.todo /\ task'.index = task.index /\ task'.seen = task.seen
      /\ task'.start = task.start /\ task'.best = task.best
      /\ (task'.pc = task.pc \/ (task'.pc = "interrupted" /\ task.pc = "slewing"))
      /\ task' # task => task'.moved
      /\ task' = Woken => task'.moved
  <2>1. CASE task' = task
    BY <1>1, <2>1, WokenIsSound
  <2>2. CASE task' = Woken
    BY <1>1, <2>2, WokenIsSound DEF Waits
  <2>3. CASE task' = [task EXCEPT !.moved = TRUE]
    BY <1>2, <2>3 DEF TaskType
  <2>4. QED BY <1>1, <2>1, <2>2, <2>3 DEF Told
<1>4. QED BY <1>1, <1>3 DEF Step

LEMMA RequestTells == Request => Told
BY DEF Request, MountSlew, MountAbort, GoesHome, Unpark, Nudge, ClearTarget, MountTracking, Told

\* A task goes by what it named and saw, until it is told that it was moved.
LEMMA TargetStep ==
  ASSUME TypeOK, TaskIsSound, MountIsKnown, TaskIsOnTarget, [Next]_vars
  PROVE TaskIsOnTarget'
<1>1. CASE TaskStep
  BY <1>1, TaskStepTarget
<1>2. ASSUME task' = task, UNCHANGED <<slew, active>>, mount'.at = mount.at
      PROVE TaskIsOnTarget'
  BY <1>2 DEF TaskIsOnTarget, Running, Step
<1>3. CASE SlewEnds
  <2>1. slew # None /\ active' = active
    BY <1>3 DEF SlewEnds
  <2>2. CASE Waits
    <3>1. Running /\ task \in TaskType
      BY <2>2, StepIsTyped DEF Waits
    <3>2. task' = [task EXCEPT !.pc = "arrived"]
      BY <1>3, <2>2 DEF SlewEnds
    <3>3. task'.pc = "arrived" /\ task'.todo = task.todo /\ task.pc = "slewing"
      BY <2>2, <3>1, <3>2 DEF Waits, TaskType
    <3>4. Step' = Step
      BY <3>3 DEF Step
    <3>5. QED BY <2>1, <3>1, <3>3, <3>4 DEF TaskIsOnTarget
  <2>3. CASE ~Waits
    <3>1. task' = task
      BY <1>3, <2>3 DEF SlewEnds
    <3>2. QED BY <2>1, <3>1 DEF TaskIsOnTarget, Running, Step
  <2>4. QED BY <2>2, <2>3
<1>4. CASE FocuserArrives \/ UNCHANGED vars
  BY <1>2, <1>4 DEF FocuserArrives, vars, pointing
<1>5. ASSUME NEW kind \in Kinds, Submit(kind)
      PROVE TaskIsOnTarget'
  BY <1>5, NewStepIsOnTarget DEF Submit, NewTask
<1>6. CASE Cancel
  <2>1. task' = None
    BY <1>6 DEF Cancel, Ended
  <2>2. QED BY <2>1, NewStepIsOnTarget DEF Running
<1>7. CASE Request
  <2>1. active' \in {active, None}
    BY <1>7, RequestCases DEF MountSlew, MountAbort, GoesHome, Unpark, Nudge, ClearTarget,
      MountTracking, pointing
  <2>2. mount \in MountType
    BY DEF TypeOK, MountType
  <2>3. (slew' = slew /\ mount'.at = mount.at /\ task' = task) \/ (Running' => task'.moved)
    <3>1. ASSUME NEW on \in BOOLEAN, MountTracking(on)
          PROVE (slew' = slew /\ mount'.at = mount.at /\ task' = task) \/ (Running' => task'.moved)
      <4>1. slew' = slew /\ mount'.at = mount.at
        BY <3>1, TrackingIsKnown DEF MountTracking
      <4>2. CASE Running /\ ~on
        <5>1. task \in TaskType
          BY <4>2, StepIsTyped
        <5>2. QED BY <3>1, <4>2, <5>1 DEF MountTracking, TaskType
      <4>3. QED BY <3>1, <4>1, <4>2 DEF MountTracking
    <3>2. CASE Nudge
      <4>1. CASE Running
        <5>1. task \in TaskType
          BY <4>1, StepIsTyped
        <5>2. QED BY <3>2, <4>1, <5>1 DEF Nudge, TaskType
      <4>2. QED BY <3>2, <4>1 DEF Nudge, Running
    <3>3. CASE Unpark
      BY <2>2, <3>3 DEF Unpark, MountType
    <3>4. CASE task' = Woken
      BY <1>7, <3>4, ToldKeeps, RequestTells
    <3>5. CASE ClearTarget \/ UNCHANGED <<task, pointing>>
      BY <3>5 DEF ClearTarget, pointing
    <3>6. QED BY <1>7, <3>1, <3>2, <3>3, <3>4, <3>5, RequestCases DEF MountSlew, MountAbort, GoesHome
  <2>4. SUFFICES ASSUME Running' PROVE TaskIsOnTarget'
    BY DEF TaskIsOnTarget
  <2>5. /\ Running /\ task'.seen = task.seen /\ task'.pc \in {"interrupted", task.pc} /\ Step' = Step
        /\ task'.pc \in {"submitted", "begin"} \/ task.pc \notin {"submitted", "begin"}
    BY <1>7, <2>4, ToldKeeps, RequestTells
  <2>6. Step.op = "centre" /\ task'.pc \notin {"submitted", "begin"} => active' \in {Step.target, None}
    BY <2>1, <2>5 DEF TaskIsOnTarget
  <2>7. task'.pc = "solving" /\ ~task'.moved => (task'.seen.near => slew' = None /\ mount'.at = task'.seen)
    BY <2>3, <2>4, <2>5 DEF TaskIsOnTarget
  <2>8. QED BY <2>5, <2>6, <2>7 DEF TaskIsOnTarget
<1>8. QED
  BY <1>1, <1>3, <1>4, <1>5, <1>6, <1>7 DEF Next

-----------------------------------------------------------------------------
(* What lights are filed under                                             *)

FocusPCs == {"lowering", "raising", "sampling", "returning", "approaching", "checking"}

\* Only a shot has a light to save, and only the steps of a focusing focus.
LEMMA OtherSteps ==
  ASSUME TypeOK, TaskIsSound, TaskStep, ~Shot, ~FocusBegins, ~FocusMoved, ~FocusSampled
  PROVE Running' => task'.pc \notin FocusPCs \cup {"saving", "interrupted"}
<1>1. Running
  BY TaskStepIsRunning
<1>2. task \in TaskType
  BY <1>1, StepIsTyped
<1>3. ASSUME StepFails \/ StepDone \/ Ended
      PROVE Running' => task'.pc \notin FocusPCs \cup {"saving", "interrupted"}
  BY <1>1, <1>3, StepEnds DEF Running, FocusPCs
<1>4. ASSUME NEW pc \in {"exposing", "shooting", "watching", "driving"}, GoesTo(pc)
      PROVE task'.pc \notin FocusPCs \cup {"saving", "interrupted"}
  BY <1>2, <1>4 DEF GoesTo, Goes, TaskType, FocusPCs
<1>5. ASSUME NEW to, NEW named, NEW t \in TaskType, SlewsAndWaits(to, named, t)
      PROVE Running' => task'.pc \notin FocusPCs \cup {"saving", "interrupted"}
  <2>1. CASE Goes([t EXCEPT !.pc = "slewing"])
    BY <2>1 DEF Goes, TaskType, FocusPCs
  <2>2. QED BY <1>3, <1>5, <2>1 DEF SlewsAndWaits
<1>6. CASE Arrived \/ Interrupted \/ ZenithArrived \/ FocusChecked \/ ShootBegins \/ Dithered
           \/ ReferenceSolved \/ LookBegins \/ WatchBegins \/ Watched \/ Driven
  BY <1>3, <1>4, <1>6 DEF Arrived, Interrupted, ZenithArrived, FocusChecked, ShootBegins, Dithered,
    ReferenceSolved, LookBegins, WatchBegins, Watched, Driven
<1>7. CASE Exposed
  <2>1. CASE Goes([task EXCEPT !.pc = "solving", !.seen = mount.at, !.moved = FALSE])
    BY <1>2, <2>1 DEF Goes, TaskType, FocusPCs
  <2>2. QED BY <1>3, <1>7, <2>1 DEF Exposed
<1>8. CASE CentreBegins \/ SweepBegins \/ ZenithBegins
  BY <1>2, <1>5, <1>8 DEF CentreBegins, SweepBegins, ZenithBegins
<1>9. CASE CentreSolved
  <2> DEFINE n == task.pass + 1
             t == [task EXCEPT !.pass = n]
  <2>1. CASE SlewsAndWaits(Step.target, TRUE, t)
    <3>1. n \in 1..(MaxPasses + 1)
      BY <1>1, <1>2, <1>9, CountsAssumption DEF TaskType, TaskIsSound, CentreSolved, At
    <3>2. t \in TaskType
      BY <1>2, <3>1, NextPass
    <3> HIDE DEF t
    <3>3. QED BY <1>5, <2>1, <3>2
  <2>2. CASE Goes([task EXCEPT !.pc = "exposing", !.pass = n])
    <3> HIDE DEF n
    <3>1. QED BY <1>2, <2>2 DEF Goes, TaskType, FocusPCs
  <2>3. QED BY <1>3, <1>9, <2>1, <2>2 DEF CentreSolved, Centres
<1>10. CASE SweepSolved
  <2> DEFINE t == [task EXCEPT !.index = @ + 1]
  <2>1. CASE SlewsAndWaits(Sky, FALSE, t)
    <3>1. task.index + 1 \in Nat \ {0}
      BY <1>2 DEF TaskType
    <3>2. t \in TaskType
      BY <1>2, <3>1, NextIndex
    <3> HIDE DEF t
    <3>3. QED BY <1>5, <2>1, <3>2
  <2>2. QED BY <1>3, <1>10, <2>1 DEF SweepSolved
<1>11. CASE Written
  <2>1. ASSUME NEW pc \in {"dithering", "shooting"},
               Goes([task EXCEPT !.pc = pc, !.index = @ + 1, !.seen = None])
        PROVE task'.pc \notin FocusPCs \cup {"saving", "interrupted"}
    BY <1>2, <2>1 DEF Goes, TaskType, FocusPCs
  <2>2. QED BY <1>3, <1>11, <2>1 DEF Written
<1>12. CASE LookSolved
  <2>1. CASE Goes(NewTask(task.kind, 1, <<Centre(Step.target, TRUE)>>, "begin"))
    BY <2>1 DEF Goes, NewTask, FocusPCs
  <2>2. QED BY <1>3, <1>4, <1>12, <2>1 DEF LookSolved
<1>13. QED
  BY <1>6, <1>7, <1>8, <1>9, <1>10, <1>11, <1>12 DEF TaskStep

\* The steps of a focusing: where the task is after each, if it goes on.
LEMMA FocusSteps ==
  ASSUME TypeOK, TaskIsSound, FocusBegins \/ FocusMoved \/ FocusSampled, Running'
  PROVE task'.pc \in FocusPCs \cup {"begin"}
<1>1. Running
  BY DEF FocusBegins, FocusMoved, FocusSampled, Begins, At
<1>2. task \in TaskType
  BY <1>1, StepIsTyped
<1>3. CASE FocusBegins
  <2>1. Goes([task EXCEPT !.pc = "lowering", !.start = focuser.position])
    BY <1>3 DEF FocusBegins
  <2>2. QED BY <1>2, <2>1 DEF Goes, TaskType, FocusPCs
<1>4. CASE FocusMoved
  BY <1>2, <1>4 DEF FocusMoved, GoesTo, Goes, TaskType, FocusPCs
<1>5. CASE FocusSampled
  <2>1. CASE StepFails
    BY <1>1, <2>1, StepEnds DEF Running, FocusPCs
  <2>2. ASSUME NEW t \in TaskType, Sampled(t)
        PROVE task'.pc \in FocusPCs \cup {"begin"}
    <3>1. CASE Goes([t EXCEPT !.pc = "raising", !.index = @ + 1])
      BY <2>2, <3>1 DEF Goes, TaskType, FocusPCs
    <3>2. ASSUME NEW best, Goes([t EXCEPT !.pc = "returning", !.best = best])
          PROVE task'.pc \in FocusPCs
      BY <2>2, <3>2 DEF Goes, TaskType, FocusPCs
    <3>3. QED BY <2>1, <2>2, <3>1, <3>2 DEF Sampled
  <2> DEFINE u == [task EXCEPT !.usable = @ + 1]
  <2>3. u \in TaskType
    <3>1. task.usable + 1 \in 0..Samples
      BY <1>1, <1>2, <1>5, CountsAssumption DEF TaskType, FocusSampled, At, TaskIsSound
    <3>2. QED BY <1>2, <3>1, NextUsable
  <2>4. StepFails \/ Sampled(u) \/ Sampled(task)
    BY <1>5 DEF FocusSampled
  <2> HIDE DEF u
  <2>5. QED BY <1>2, <2>1, <2>2, <2>3, <2>4
<1>6. QED BY <1>3, <1>4, <1>5

\* A light is named as it is taken, and stays so until it is filed.
LEMMA LightsStep ==
  ASSUME TypeOK, TaskIsSound, MountIsKnown, LightsAreRight, [Next]_vars
  PROVE LightsAreRight'
<1>1. CASE Shot
  <2>1. Running /\ task \in TaskType /\ filed' = filed
    BY <1>1, StepIsTyped DEF Shot, At
  <2> DEFINE light == [place |-> mount.at.place, label |-> active, astray |-> astray]
  <2>2. CASE Goes([task EXCEPT !.pc = "saving", !.seen = light])
    <3>1. NamedRight(light)
      BY DEF NamedRight, MountIsKnown
    <3> HIDE DEF light
    <3>2. task'.seen = light
      BY <2>1, <2>2 DEF Goes, TaskType
    <3>3. NamedRight(task'.seen)
      BY <3>1, <3>2
    <3>4. QED BY <2>1, <3>3 DEF LightsAreRight
  <2>3. CASE StepFails
    <3>1. Running' => task'.pc = "begin"
      BY <2>1, <2>3, StepEnds DEF Running
    <3>2. QED BY <2>1, <3>1 DEF LightsAreRight
  <2>4. QED BY <1>1, <2>2, <2>3 DEF Shot
<1>2. CASE TaskStep /\ ~Shot
  <2>1. Running' => task'.pc # "saving"
    BY <1>2, OtherSteps, FocusSteps DEF FocusPCs
  <2>2. filed' = filed \/ (filed' = task.seen /\ At("shoot", "saving"))
    BY <1>2 DEF TaskStep, Arrived, Interrupted, Exposed, CentreBegins, CentreSolved, SweepBegins, SweepSolved,
      ZenithBegins, ZenithArrived, FocusBegins, FocusMoved, FocusSampled, FocusChecked, ShootBegins,
      Shot, Written, Dithered, ReferenceSolved, LookBegins, LookSolved, WatchBegins, Watched, Driven
  <2>3. QED BY <2>1, <2>2 DEF LightsAreRight, At
<1>3. CASE SlewEnds
  <2>1. filed' = filed
    BY <1>3 DEF SlewEnds
  <2>2. CASE Waits
    <3>1. task \in TaskType
      BY <2>2, StepIsTyped DEF Waits
    <3>2. task'.pc = "arrived"
      BY <1>3, <2>2, <3>1 DEF SlewEnds, TaskType
    <3>3. QED BY <2>1, <3>2 DEF LightsAreRight
  <2>3. CASE task' = task
    BY <2>1, <2>3 DEF LightsAreRight, Running
  <2>4. QED BY <1>3, <2>2, <2>3 DEF SlewEnds
<1>4. CASE FocuserArrives \/ UNCHANGED vars
  BY <1>4 DEF FocuserArrives, vars, LightsAreRight, Running
<1>5. ASSUME NEW kind \in Kinds, Submit(kind)
      PROVE LightsAreRight'
  BY <1>5 DEF Submit, NewTask, LightsAreRight
<1>6. CASE Cancel
  BY <1>6 DEF Cancel, Ended, LightsAreRight, Running
<1>7. CASE Request
  <2>1. filed' = filed
    BY <1>7, RequestCases
  <2>2. Running' => Running /\ task'.seen = task.seen /\ (task'.pc = "saving" => task.pc = "saving")
    BY <1>7, ToldKeeps, RequestTells
  <2>3. QED BY <2>1, <2>2 DEF LightsAreRight
<1>8. QED
  BY <1>1, <1>2, <1>3, <1>4, <1>5, <1>6, <1>7 DEF Next

-----------------------------------------------------------------------------
(* Where the focuser is                                                    *)

\* Positions beyond the focuser's ends are its ends, in the same order.
LEMMA ClampedFacts ==
  /\ \A p \in Int : Clamped(p) \in 0..MaxPosition
  /\ \A p, q \in Int : p <= q => Clamped(p) <= Clamped(q)
  /\ \A p \in 0..MaxPosition : Clamped(p) = p
<1>1. MaxPosition \in Nat
  BY FocuserAssumption
<1>2. \A p \in Int : Clamped(p) \in 0..MaxPosition
  BY <1>1 DEF Clamped
<1>3. \A p, q \in Int : p <= q => Clamped(p) <= Clamped(q)
  BY <1>1 DEF Clamped
<1>4. \A p \in 0..MaxPosition : Clamped(p) = p
  BY <1>1 DEF Clamped
<1>5. QED BY <1>2, <1>3, <1>4

LEMMA FocuserFacts ==
  ASSUME TypeOK
  PROVE /\ focuser \in FocuserType
        /\ focuser.position \in 0..MaxPosition /\ focuser.slack \in 0..Slack
        /\ ~Still => focuser.goal \in 0..MaxPosition
        /\ Headed \in 0..MaxPosition
        /\ {Backlash, Slack, MaxPosition} \subseteq Nat /\ Slack <= Backlash
        /\ None \notin 0..MaxPosition
<1>1. /\ {Backlash, Slack, MaxPosition} \subseteq Nat /\ Slack <= Backlash
      /\ None \notin 0..MaxPosition
  BY FocuserAssumption, ValuesAssumption
<1>2. focuser \in FocuserType
  BY DEF TypeOK, FocuserType
<1>3. QED BY <1>1, <1>2 DEF FocuserType, Still, Headed

\* A focuser that is sent somewhere is headed there, and not still.
LEMMA SentIsHeaded ==
  ASSUME TypeOK, NEW p \in Int, MovesTo(p)
  PROVE /\ Headed' = Clamped(p) /\ ~Still'
        /\ focuser'.goal = Clamped(p)
        /\ focuser'.position = focuser.position /\ focuser'.slack = focuser.slack
<1>1. focuser' = [focuser EXCEPT !.goal = Clamped(p)]
  BY DEF MovesTo
<1>2. Clamped(p) \in 0..MaxPosition
  BY ClampedFacts
<1>3. focuser \in FocuserType /\ None \notin 0..MaxPosition
  BY FocuserFacts
<1>4. /\ focuser'.goal = Clamped(p)
      /\ focuser'.position = focuser.position /\ focuser'.slack = focuser.slack
  BY <1>1, <1>3 DEF FocuserType
<1>5. ~Still'
  BY <1>2, <1>3, <1>4 DEF Still
<1>6. QED BY <1>4, <1>5 DEF Headed, Still

\* It comes up from as far below as the backlash, and has then no slack.
LEMMA ArrivesUp ==
  ASSUME TypeOK, FocuserArrives
  PROVE /\ Headed' = Headed /\ Still'
        /\ ComesUp => ComesUp'
<1>1. /\ focuser \in FocuserType /\ focuser.position \in 0..MaxPosition /\ focuser.slack \in 0..Slack
      /\ focuser.goal \in 0..MaxPosition
      /\ {Backlash, Slack, MaxPosition} \subseteq Nat /\ Slack <= Backlash
      /\ ~Still
  BY FocuserFacts DEF FocuserArrives
<1> DEFINE s == IF focuser.goal < focuser.position THEN Slack
                ELSE IF focuser.goal - focuser.position > focuser.slack THEN 0
                ELSE focuser.slack - (focuser.goal - focuser.position)
<1>2. focuser' = [position |-> focuser.goal, goal |-> None, slack |-> s]
  BY DEF FocuserArrives
<1>3. ComesUp => s = 0
  BY <1>1 DEF ComesUp
<1> HIDE DEF s
<1>4. focuser'.position = focuser.goal /\ focuser'.goal = None /\ focuser'.slack = s
  BY <1>2
<1>5. Headed' = Headed /\ Still'
  BY <1>1, <1>4 DEF Headed, Still
<1>6. QED BY <1>3, <1>4, <1>5 DEF ComesUp

\* Sent up from where it stands still, it comes up if it has no slack, or far enough.
LEMMA SentUp ==
  ASSUME TypeOK, Still, NEW p \in Int, MovesTo(p),
         focuser.position <= Clamped(p),
         focuser.slack = 0 \/ Clamped(p) - focuser.position >= Backlash
  PROVE ComesUp'
BY SentIsHeaded DEF ComesUp

\* The fields a focusing goes by, from one position to the next.
LEMMA FocusMeasured ==
  ASSUME Running', task'.pc \notin FocusPCs
  PROVE FocusIsMeasured'
BY DEF FocusIsMeasured, FocusPCs

\* A focusing measures every sample, and leaves the best one, where it says.
LEMMA FocusStepsMeasure ==
  ASSUME TypeOK, TaskIsSound, FocusIsMeasured, FocusBegins \/ FocusMoved \/ FocusSampled
  PROVE FocusIsMeasured'
<1>1. Running
  BY DEF FocusBegins, FocusMoved, FocusSampled, Begins, At
<1>2. /\ task \in TaskType /\ task.start \in Int /\ task.best \in Int /\ task.index \in Nat \ {0}
      /\ focuser.position \in 0..MaxPosition /\ focuser.position \in Int
      /\ Backlash \in Nat /\ Slack \in Nat /\ MaxPosition \in Nat
  BY <1>1, StepIsTyped, FocuserFacts DEF TaskType
<1>3. SUFFICES ASSUME Running' PROVE FocusIsMeasured'
  BY DEF FocusIsMeasured
<1>4. CASE StepFails
  BY <1>1, <1>3, <1>4, StepEnds, FocusMeasured DEF Running, FocusPCs
<1>5. CASE FocusBegins
  <2> DEFINE t == [task EXCEPT !.pc = "lowering", !.start = focuser.position]
  <2>1. t.start = focuser.position /\ t.start \in Int /\ t.pc = "lowering" /\ t.index = task.index
    BY <1>2 DEF TaskType
  <2>2. task' = t /\ MovesTo(Below(Position(t, 1)))
    BY <1>5 DEF FocusBegins, Goes
  <2> HIDE DEF t
  <2>3. Below(Position(t, 1)) \in Int
    BY <2>1, PositionsAreIntegers
  <2>4. Headed' = Clamped(Below(Position(t, 1)))
    BY <2>2, <2>3, SentIsHeaded
  <2>5. Headed' = Clamped(Below(Position(task', 1)))
    BY <2>2, <2>4
  <2>6. task.index = 1
    BY <1>1, <1>5 DEF FocusBegins, Begins, TaskIsSound, Fresh
  <2>7. QED BY <1>2, <2>1, <2>2, <2>5, <2>6 DEF FocusIsMeasured
<1>6. CASE FocusMoved
  <2>1. PICK pc \in {"raising", "approaching", "sampling", "checking"} : GoesTo(pc)
    BY <1>6 DEF FocusMoved
  <2>2. ASSUME NEW q \in PCs, GoesTo(q)
        PROVE /\ task'.pc = q /\ task'.start = task.start /\ task'.best = task.best
              /\ task'.index = task.index
              /\ Position(task', 1) = Position(task, 1)
              /\ Position(task', task'.index) = Position(task, task.index)
    BY <1>2, <2>2 DEF GoesTo, Goes, TaskType, Position
  <2>3. {"raising", "approaching", "sampling", "checking"} \subseteq PCs
    BY DEF PCs
  <2>4. /\ Position(task, 1) \in Int /\ Position(task, 1) <= task.start
        /\ Below(Position(task, 1)) = Position(task, 1) - Backlash
        /\ Below(task.best) = task.best - Backlash
        /\ Position(task, task.index) \in Int
    BY <1>2, PositionsAreIntegers
  <2>5. CASE task.pc = "lowering" /\ MovesTo(Position(task, 1)) /\ GoesTo("raising")
    <3>1. task.index = 1 /\ task.start \in 0..MaxPosition /\ focuser.position = Clamped(Below(Position(task, 1)))
      BY <1>1, <1>6, <2>5 DEF FocusIsMeasured, FocusMoved, Headed
    <3>2. Headed' = Clamped(Position(task, 1))
      BY <2>4, <2>5, SentIsHeaded
    <3>3. ASSUME Below(Position(task, 1)) >= 0
          PROVE ComesUp'
      <4>1. Position(task, 1) \in 0..MaxPosition /\ Below(Position(task, 1)) \in 0..MaxPosition
        BY <1>2, <2>4, <3>1, <3>3
      <4>2. Clamped(Position(task, 1)) = Position(task, 1) /\ focuser.position = Position(task, 1) - Backlash
        BY <2>4, <3>1, <4>1, ClampedFacts
      <4>3. QED BY <1>2, <1>6, <2>4, <2>5, <4>2, SentUp DEF FocusMoved
    <3>4. QED BY <2>2, <2>3, <2>5, <3>1, <3>2, <3>3 DEF FocusIsMeasured
  <2>6. CASE task.pc = "returning" /\ MovesTo(task.best) /\ GoesTo("approaching")
    <3>1. focuser.position = Clamped(Below(task.best))
      BY <1>1, <1>6, <2>6 DEF FocusIsMeasured, FocusMoved, Headed
    <3>2. ASSUME Below(task.best) >= 0, task.best <= MaxPosition
          PROVE ComesUp'
      <4>1. task.best \in 0..MaxPosition /\ Below(task.best) \in 0..MaxPosition
        BY <1>2, <2>4, <3>2
      <4>2. Clamped(task.best) = task.best /\ focuser.position = task.best - Backlash
        BY <2>4, <3>1, <4>1, ClampedFacts
      <4>3. QED BY <1>2, <1>6, <2>6, <4>2, SentUp DEF FocusMoved
    <3>3. QED BY <2>2, <2>3, <2>6, <3>2 DEF FocusIsMeasured
  <2>7. CASE task.pc = "raising" /\ GoesTo("sampling") /\ UNCHANGED focuser
    <3>1. Still' /\ Headed' = Headed /\ (ComesUp => ComesUp')
      BY <1>6, <2>7 DEF FocusMoved, Still, Headed, ComesUp
    <3>2. QED BY <1>1, <2>2, <2>3, <2>7, <3>1 DEF FocusIsMeasured
  <2>8. CASE task.pc = "approaching" /\ GoesTo("checking") /\ UNCHANGED focuser
    <3>1. Still' /\ (ComesUp => ComesUp')
      BY <1>6, <2>8 DEF FocusMoved, Still, ComesUp
    <3>2. QED BY <1>1, <2>2, <2>3, <2>8, <3>1 DEF FocusIsMeasured
  <2>9. QED BY <1>6, <2>5, <2>6, <2>7, <2>8 DEF FocusMoved
<1>7. CASE FocusSampled
  <2>1. /\ Still /\ focuser.position = Clamped(Position(task, task.index))
        /\ Below(Position(task, 1)) >= 0 => focuser.slack = 0
        /\ task.start \in 0..MaxPosition
    BY <1>1, <1>7 DEF FocusSampled, At, FocusIsMeasured, Headed, ComesUp
  <2>2. ASSUME NEW t \in TaskType, t.start = task.start, t.index = task.index, Sampled(t)
        PROVE FocusIsMeasured'
    <3>1. /\ t.start \in Int /\ t.index \in Int /\ t.index + 1 \in Int /\ 1 \in Int
          /\ Samples \in Int
      BY <1>2, <2>2, CountsAssumption
    <3>2. /\ Position(t, 1) \in Int /\ Position(t, Samples) \in Int
          /\ Position(t, t.index) \in Int /\ Position(t, t.index + 1) \in Int
          /\ Position(t, t.index + 1) = Position(t, t.index) + 1
          /\ \A p \in Int : Below(p) \in Int
      BY <3>1, PositionsAreIntegers
    <3>3. Position(t, 1) = Position(task, 1) /\ Position(t, t.index) = Position(task, task.index)
      BY <2>2 DEF Position
    <3>4. CASE MovesTo(Position(t, t.index + 1)) /\ Goes([t EXCEPT !.pc = "raising", !.index = @ + 1])
      <4> DEFINE n == t.index + 1
      <4>1. task' = [t EXCEPT !.pc = "raising", !.index = n] /\ n \in Int
        BY <3>1, <3>4 DEF Goes
      <4> HIDE DEF n
      <4>2. task'.pc = "raising" /\ task'.index = n /\ task'.start = task.start
        BY <2>2, <4>1 DEF TaskType
      <4>3. Position(task', task'.index) = Position(t, t.index + 1) /\ Position(task', 1) = Position(task, 1)
        BY <2>2, <4>2 DEF Position, n
      <4>4. Headed' = Clamped(Position(task', task'.index))
        BY <3>2, <3>4, <4>3, SentIsHeaded
      <4>5. ASSUME Below(Position(task, 1)) >= 0
            PROVE ComesUp'
        <5>1. focuser.position <= Clamped(Position(t, t.index + 1))
          BY <2>1, <3>2, <3>3, ClampedFacts
        <5>2. QED BY <2>1, <3>2, <3>4, <4>5, <5>1, SentUp
      <4>6. QED BY <2>1, <4>2, <4>3, <4>4, <4>5 DEF FocusIsMeasured
    <3>5. ASSUME NEW best \in Position(t, 1)..Position(t, Samples),
                 MovesTo(Below(best)), Goes([t EXCEPT !.pc = "returning", !.best = best])
          PROVE FocusIsMeasured'
      <4>1. best \in Int /\ Below(best) \in Int
        BY <3>2
      <4>2. task'.pc = "returning" /\ task'.best = best
        BY <2>2, <3>5 DEF Goes, TaskType
      <4>3. Headed' = Clamped(Below(best))
        BY <3>5, <4>1, SentIsHeaded
      <4>4. QED BY <4>2, <4>3 DEF FocusIsMeasured
    <3>6. QED BY <1>4, <2>2, <3>4, <3>5 DEF Sampled
  <2> DEFINE u == [task EXCEPT !.usable = @ + 1]
  <2>3. u \in TaskType /\ u.start = task.start /\ u.index = task.index
    <3>1. task.usable + 1 \in 0..Samples
      <4>1. Running /\ task.pc = "sampling"
        BY <1>7 DEF FocusSampled, At
      <4>2. task.usable < task.index /\ task.index <= Samples
        BY <1>1, <4>1 DEF TaskIsSound
      <4>3. task.usable \in Nat /\ task.index \in Nat /\ Samples \in Nat
        BY <1>2, CountsAssumption DEF TaskType
      <4>4. QED BY <4>2, <4>3
    <3>2. QED BY <1>2, <3>1, NextUsable
  <2>4. StepFails \/ Sampled(u) \/ Sampled(task)
    BY <1>7 DEF FocusSampled
  <2> HIDE DEF u
  <2>5. QED BY <1>2, <1>4, <2>2, <2>3, <2>4
<1>8. QED BY <1>5, <1>6, <1>7

\* Whatever happens, the focuser is where the task takes it to be.
LEMMA FocusStep ==
  ASSUME TypeOK, TaskIsSound, FocusIsMeasured, [Next]_vars
  PROVE FocusIsMeasured'
<1>1. CASE FocusBegins \/ FocusMoved \/ FocusSampled
  BY <1>1, FocusStepsMeasure
<1>2. CASE TaskStep /\ ~FocusBegins /\ ~FocusMoved /\ ~FocusSampled
  <2>1. Running' => task'.pc \notin FocusPCs
    <3>1. CASE Shot
      <4>1. Running /\ task \in TaskType
        BY <3>1, StepIsTyped DEF Shot, At
      <4>2. CASE Goes([task EXCEPT !.pc = "saving",
                        !.seen = [place |-> mount.at.place, label |-> active, astray |-> astray]])
        BY <4>1, <4>2 DEF Goes, TaskType, FocusPCs
      <4>3. CASE StepFails
        BY <4>1, <4>3, StepEnds DEF Running, FocusPCs
      <4>4. QED BY <3>1, <4>2, <4>3 DEF Shot
    <3>2. QED BY <1>2, <3>1, OtherSteps
  <2>2. QED BY <2>1, FocusMeasured DEF FocusIsMeasured
<1>3. ASSUME Running' => /\ Running /\ task'.start = task.start /\ task'.best = task.best
                         /\ task'.index = task.index
                         /\ task'.pc \in {"interrupted", "arrived", task.pc},
             UNCHANGED focuser
      PROVE FocusIsMeasured'
  <2>1. SUFFICES ASSUME Running' PROVE FocusIsMeasured'
    BY DEF FocusIsMeasured
  <2>2. /\ Position(task', 1) = Position(task, 1)
        /\ Position(task', task'.index) = Position(task, task.index)
        /\ Headed' = Headed /\ (ComesUp' <=> ComesUp) /\ (Still' <=> Still)
    BY <1>3, <2>1 DEF Position, Headed, ComesUp, Still
  <2>3. CASE task'.pc = task.pc
    BY <1>3, <2>1, <2>2, <2>3 DEF FocusIsMeasured
  <2>4. CASE task'.pc \in {"interrupted", "arrived"}
    BY <2>1, <2>4, FocusMeasured DEF FocusPCs
  <2>5. QED BY <1>3, <2>1, <2>3, <2>4
<1>4. CASE SlewEnds
  <2>1. UNCHANGED focuser
    BY <1>4 DEF SlewEnds
  <2>2. CASE Waits
    <3>1. task \in TaskType /\ Running
      BY <2>2, StepIsTyped DEF Waits
    <3>2. /\ task'.start = task.start /\ task'.best = task.best /\ task'.index = task.index
          /\ task'.pc = "arrived"
      BY <1>4, <2>2, <3>1 DEF SlewEnds, TaskType
    <3>3. QED BY <1>3, <2>1, <3>1, <3>2
  <2>3. CASE task' = task
    BY <1>3, <2>1, <2>3 DEF Running
  <2>4. QED BY <1>4, <2>2, <2>3 DEF SlewEnds
<1>5. CASE FocuserArrives
  <2>1. task' = task /\ ~Still /\ Still' /\ Headed' = Headed /\ (ComesUp => ComesUp')
    BY <1>5, ArrivesUp DEF FocuserArrives
  <2>2. QED BY <2>1 DEF FocusIsMeasured, Running
<1>6. ASSUME NEW kind \in Kinds, Submit(kind)
      PROVE FocusIsMeasured'
  BY <1>6 DEF Submit, NewTask, FocusIsMeasured
<1>7. CASE Cancel
  BY <1>7 DEF Cancel, Ended, FocusIsMeasured, Running
<1>8. CASE Request
  BY <1>3, <1>8, ToldKeeps, RequestTells, RequestCases
<1>9. CASE UNCHANGED vars
  BY <1>3, <1>9 DEF vars, Running
<1>10. QED
  BY <1>1, <1>2, <1>4, <1>5, <1>6, <1>7, <1>8, <1>9 DEF Next

-----------------------------------------------------------------------------
(* The theorems                                                            *)

\* At first nothing runs, and the mount is parked at home.
LEMMA NightInit == Init => NightInv
<1> SUFFICES ASSUME Init PROVE NightInv
  OBVIOUS
<1>1. RigTyped
  <2>1. mount \in MountType
    BY DEF Init, MountType, PointingType, Pointing, Places
  <2>2. focuser \in FocuserType
    BY FocuserAssumption DEF Init, FocuserType
  <2>3. tasks \in 0..MaxTasks /\ requests \in 0..MaxRequests
    BY CountsAssumption DEF Init
  <2>4. saved \in [DOMAIN Plan -> Nat]
    BY DEF Init
  <2>5. QED BY <2>1, <2>2, <2>3, <2>4 DEF Init, RigTyped, PointingTyped
<1>2. TypeOK
  BY <1>1, TypesAreParts DEF Init, TaskTyped
<1>3. ~Running /\ outcome = <<>> /\ DOMAIN outcome = {}
  BY DEF Init, Running
<1>4. MountIsKnown
  BY DEF Init, MountIsKnown, Pointing
<1>5. QED
  BY <1>2, <1>3, <1>4
  DEF Init, NightInv, TaskIsSound, SessionIsCounted, TaskIsOnTarget, LightsAreRight, FocusIsMeasured, Session

LEMMA NightNext == NightInv /\ [Next]_vars => NightInv'
BY TypeStep, CountStep, MountStep, TargetStep, LightsStep, FocusStep DEF NightInv

THEOREM NightInvariant == Spec => []NightInv
BY NightInit, NightNext, PTL DEF Spec

\* The task, the rig and what is known of it have their types, whatever runs.
THEOREM TypeSafety == Spec => []TypeOK
<1>1. NightInv => TypeOK
  BY DEF NightInv
<1>2. QED BY <1>1, NightInvariant, PTL

\* A light is filed under a target only if that is where the telescope was: the
\* name and the move of every task go together, in whatever order the operator,
\* a failure or a cancellation comes between them.
THEOREM LightsAreFiled == Spec => []LightsAreFiledWhereTaken
<1>1. NightInv => LightsAreFiledWhereTaken
  BY DEF NightInv, LightsAreRight, NamedRight, LightsAreFiledWhereTaken
<1>2. QED BY <1>1, NightInvariant, PTL

\* What a goto, a session and the mount report is so.
THEOREM ReportsAreSo == Spec => []ReportsAreTrue
<1>1. NightInv => ReportsAreTrue
  BY DEF NightInv, MountIsKnown, SessionIsCounted, ReportsAreTrue
<1>2. QED BY <1>1, NightInvariant, PTL

\* Focus is measured and left with the slack taken up, for any slack that is no more
\* than the backlash allowed for.
THEOREM SlackIsGone == Spec => []SlackIsTakenUp
<1>1. NightInv => SlackIsTakenUp
  BY DEF NightInv, FocusIsMeasured, SlackIsTakenUp, At, ComesUp
<1>2. QED BY <1>1, NightInvariant, PTL

-----------------------------------------------------------------------------
(* A session implements the promise that its blocks run in turn            *)

\* The outcomes of a session, as the promise has them.
Hows == [b \in DOMAIN outcome |-> outcome[b].how]

\* One more outcome is one more how.
LEMMA HowsAppend ==
  ASSUME TypeOK, NEW how \in {"done", "failed", "cancelled"}, NEW frames \in Nat,
         Report(how, frames)
  PROVE /\ ~Session => Hows' = Hows
        /\ Session => Hows' = Append(Hows, how)
        /\ Hows \in Seq({"done", "failed", "cancelled"}) /\ Len(Hows) = Len(outcome)
<1> DEFINE Words == {"done", "failed", "cancelled"}
<1>1. outcome \in Seq(OutcomeType) /\ outcome' \in Seq(OutcomeType)
  BY ReportAppends DEF TypeOK, OutcomeType
<1>2. /\ DOMAIN outcome = 1..Len(outcome) /\ DOMAIN outcome' = 1..Len(outcome')
      /\ Len(outcome) \in Nat /\ Len(outcome') \in Nat
      /\ \A b \in DOMAIN outcome : outcome[b] \in OutcomeType
      /\ \A b \in DOMAIN outcome' : outcome'[b] \in OutcomeType
  BY <1>1
<1>3. Hows \in [1..Len(outcome) -> Words] /\ Hows' \in [1..Len(outcome') -> Words]
  BY <1>2 DEF Hows, OutcomeType
<1> HIDE DEF Words
<1>4. Hows \in Seq(Words) /\ Len(Hows) = Len(outcome) /\ Hows' \in Seq(Words) /\ Len(Hows') = Len(outcome')
  BY <1>2, <1>3
<1>5. CASE ~Session
  BY <1>4, <1>5, ReportAppends DEF Hows, Words
<1>6. CASE Session
  <2>1. /\ Len(outcome') = Len(outcome) + 1
        /\ \A b \in 1..Len(outcome) : outcome'[b] = outcome[b]
        /\ outcome'[Len(outcome) + 1] = [how |-> how, frames |-> frames]
    BY <1>6, ReportAppends
  <2>2. \A b \in 1..Len(outcome) : Hows'[b] = Hows[b]
    BY <1>2, <2>1 DEF Hows
  <2>3. Hows'[Len(outcome) + 1] = how
    BY <1>2, <2>1 DEF Hows
  <2>4. how \in Words
    BY DEF Words
  <2>5. /\ Append(Hows, how) \in Seq(Words) /\ Len(Append(Hows, how)) = Len(Hows) + 1
        /\ \A b \in 1..Len(Hows) : Append(Hows, how)[b] = Hows[b]
        /\ Append(Hows, how)[Len(Hows) + 1] = how
    BY <1>4, <2>4, AppendProperties
  <2>6. Hows' = Append(Hows, how)
    <3>1. \A b \in 1..Len(Hows') : Hows'[b] = Append(Hows, how)[b]
      BY <1>2, <1>4, <2>1, <2>2, <2>3, <2>5
    <3>2. QED BY <1>4, <2>1, <2>5, <3>1, SeqEqual
  <2>7. QED BY <1>4, <1>6, <2>6 DEF Words
<1>7. QED BY <1>5, <1>6

\* The end of a block is the end of a block; a cancellation is one; and a step of
\* another task is none of the promise's business.
LEMMA StepOverTurns ==
  ASSUME TypeOK, TaskIsSound, SessionIsCounted, Running, StepOver
  PROVE [Turns!Next]_<<Hows, Session>>
<1>1. ASSUME NEW how \in {"done", "failed"}, BlockOver(how)
      PROVE [Turns!Next]_<<Hows, Session>>
  <2> DEFINE n == IF Session /\ how = "done" THEN Plan[task.block].frames ELSE 0
  <2>1. n \in Nat /\ Report(how, n)
    BY <1>1, BlockFrames DEF BlockOver
  <2> HIDE DEF n
  <2>2. CASE ~Session
    <3>1. Hows' = Hows
      BY <2>1, <2>2, HowsAppend
    <3>2. Session' = Session
      BY <1>1, <2>2 DEF BlockOver, Session, Running
    <3>3. QED BY <3>1, <3>2
  <2>3. CASE Session
    <3>1. /\ Hows' = Append(Hows, how) /\ Len(Hows) = Len(outcome)
          /\ Hows \in Seq({"done", "failed", "cancelled"})
      BY <2>1, <2>3, HowsAppend
    <3>2. /\ Len(outcome) = task.block - 1 /\ task.block \in 1..Len(Plan) /\ Len(Plan) \in Nat
      BY <2>3, StepIsTyped, PlanAssumption DEF SessionIsCounted
    <3>3. Len(Hows) < Len(Plan) /\ Len(Hows') = task.block
      BY <3>1, <3>2
    <3>4. Session' = (task.block < Len(Plan))
      <4>1. CASE task.block < Len(Plan)
        BY <1>1, <2>3, <4>1, BlockOverTask DEF Session, Running
      <4>2. CASE ~(task.block < Len(Plan))
        BY <1>1, <4>2 DEF BlockOver, Session, Running
      <4>3. QED BY <4>1, <4>2
    <3>5. Turns!BlockEnds
      BY <2>3, <3>1, <3>3, <3>4 DEF Turns!BlockEnds, Hows
    <3>6. QED BY <3>5 DEF Turns!Next
  <2>4. QED BY <2>2, <2>3
<1>2. CASE StepFails
  BY <1>1, <1>2 DEF StepFails
<1>3. CASE StepDone
  <2>1. CASE Len(task.todo) > 1
    <3>1. Goes(NewTask(task.kind, task.block, Tail(task.todo), "begin"))
      BY <1>3, <2>1 DEF StepDone
    <3>2. Hows' = Hows /\ task' # None /\ task'.kind = task.kind
      BY <2>1, <3>1, TailIsTyped, ValuesAssumption DEF Goes, Hows
    <3>3. Session' = Session
      BY <3>2 DEF Session, Running
    <3>4. QED BY <3>2, <3>3
  <2>2. CASE ~(Len(task.todo) > 1)
    BY <1>1, <1>3, <2>2 DEF StepDone
  <2>3. QED BY <2>1, <2>2
<1>4. CASE Ended
  <2>1. Report("cancelled", 0) /\ Session' = FALSE
    BY <1>4 DEF Ended, Session, Running
  <2>2. CASE Session
    <3>1. Hows' = Append(Hows, "cancelled")
      BY <2>1, <2>2, HowsAppend
    <3>2. Turns!Cancelled
      BY <2>1, <2>2, <3>1 DEF Turns!Cancelled, Hows
    <3>3. QED BY <3>2 DEF Turns!Next
  <2>3. CASE ~Session
    <3>1. Hows' = Hows
      BY <2>1, <2>3, HowsAppend
    <3>2. Session' = Session
      BY <2>1, <2>3 DEF Session
    <3>3. QED BY <3>1, <3>2
  <2>4. QED BY <2>2, <2>3
<1>5. QED BY <1>2, <1>3, <1>4 DEF StepOver

\* Every step of the night is a step of the promise, or none.
LEMMA StepTurns ==
  ASSUME NightInv, [Next]_vars
  PROVE [Turns!Next]_<<Hows, Session>>
<1> TypeOK /\ TaskIsSound /\ SessionIsCounted
  BY DEF NightInv
<1>1. CASE StepOver /\ Running
  BY <1>1, StepOverTurns
<1>2. ASSUME UNCHANGED outcome, Session' = Session
      PROVE [Turns!Next]_<<Hows, Session>>
  BY <1>2 DEF Hows
<1>3. CASE Stays /\ Running
  <2>1. task' # None /\ task'.kind = task.kind
    BY <1>3, ValuesAssumption DEF Stays
  <2>2. QED BY <1>2, <1>3, <2>1 DEF Stays, Session, Running
<1>4. CASE TaskStep
  BY <1>1, <1>3, <1>4, TaskStepStays, TaskStepIsRunning
<1>5. CASE SlewEnds
  <2>1. CASE Waits
    <3>1. task \in TaskType /\ Running
      BY <2>1, StepIsTyped DEF Waits
    <3>2. task' \in TaskType /\ task'.kind = task.kind
      BY <1>5, <2>1, <3>1 DEF SlewEnds, TaskType, PCs
    <3>3. QED BY <1>3, <1>5, <3>1, <3>2 DEF SlewEnds, Stays
  <2>2. CASE task' = task
    BY <1>2, <1>5, <2>2 DEF SlewEnds, Session, Running
  <2>3. QED BY <1>5, <2>1, <2>2 DEF SlewEnds
<1>6. CASE FocuserArrives \/ UNCHANGED vars
  BY <1>2, <1>6 DEF FocuserArrives, vars, Session, Running
<1>7. ASSUME NEW kind \in Kinds, Submit(kind)
      PROVE [Turns!Next]_<<Hows, Session>>
  <2>1. ~Session /\ outcome' = <<>> /\ Session' \in BOOLEAN
    BY <1>7 DEF Submit, Session, Running
  <2>2. Hows' = <<>>
    BY <2>1 DEF Hows
  <2>3. Turns!Starts
    BY <2>1, <2>2 DEF Turns!Starts, Hows
  <2>4. QED BY <2>3 DEF Turns!Next
<1>8. CASE Cancel
  BY <1>1, <1>8 DEF Cancel, StepOver
<1>9. CASE Request
  <2>1. outcome' = outcome
    BY <1>9, RequestCases
  <2>2. Session' = Session
    <3>1. CASE Running
      <4>1. task \in TaskType
        BY <3>1, StepIsTyped
      <4>2. task' \in TaskType /\ task'.kind = task.kind
        <5>1. CASE task' = Woken
          BY <3>1, <5>1, WokenIsSound
        <5>2. CASE task' = [task EXCEPT !.moved = TRUE]
          BY <4>1, <5>2 DEF TaskType
        <5>3. QED BY <1>9, <3>1, <4>1, <5>1, <5>2, RequestTells DEF Told
      <4>3. QED BY <3>1, <4>2, ValuesAssumption DEF Session, Running
    <3>2. CASE ~Running
      BY <1>9, <3>2, RequestTells DEF Told, Woken, Session, Running
    <3>3. QED BY <3>1, <3>2
  <2>3. QED BY <1>2, <2>1, <2>2
<1>10. QED
  BY <1>4, <1>5, <1>6, <1>7, <1>8, <1>9 DEF Next

\* A session's blocks run one after another, each done or failed, a failure does not
\* end the run, and only a cancellation ends it before its last block
\* (docs/architecture.md); that a run ends at all is left to TLC.
THEOREM BlocksRunInTurn == Spec => Turns!Init /\ [][Turns!Next]_<<Hows, Session>>
<1>1. Init => Turns!Init
  BY DEF Init, Turns!Init, Session, Running, Hows
<1>2. NightInv /\ [Next]_vars => [Turns!Next]_<<Hows, Session>>
  BY StepTurns
<1>3. QED BY <1>1, <1>2, NightInvariant, PTL DEF Spec

=============================================================================
