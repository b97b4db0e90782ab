-------------------------- MODULE TaskEngineProofs --------------------------
(***************************************************************************)
(* Proofs about TaskEngine, for any number of tasks and clients and any    *)
(* length of the history; and about PolarAlignment, which asks it whether  *)
(* a task runs, for any places, requesters and points, and any counts of   *)
(* shots, turns and resets.  The two modules keep their names apart, so    *)
(* that both can be extended here.                                         *)
(***************************************************************************)
EXTENDS TaskEngine, PolarAlignment, SequenceTheorems, TLAPS

\* _trim drops the oldest: the task just submitted is always remembered.
LEMMA TrimKeepsNewest ==
  ASSUME NEW s \in Seq(Tasks), NEW t \in Tasks
  PROVE  /\ Trimmed(Append(s, t)) \in Seq(Tasks)
         /\ Len(Trimmed(Append(s, t))) <= History
         /\ t \in Range(Trimmed(Append(s, t)))
<1> DEFINE a == Append(s, t)
<1>1. a \in Seq(Tasks) /\ Len(a) = Len(s) + 1 /\ a[Len(a)] = t /\ Len(a) \in Nat
  OBVIOUS
<1>2. History \in Nat \ {0}
  BY HistoryAssumption
<1> HIDE DEF a
<1>3. ASSUME Len(a) <= History
      PROVE  /\ Trimmed(a) \in Seq(Tasks) /\ Len(Trimmed(a)) <= History
             /\ t \in Range(Trimmed(a))
  <2>1. Trimmed(a) = a
    BY <1>1, <1>2, <1>3 DEF Trimmed
  <2> QED
    BY <1>1, <1>3, <2>1 DEF Range
<1>4. ASSUME Len(a) > History
      PROVE  /\ Trimmed(a) \in Seq(Tasks) /\ Len(Trimmed(a)) <= History
             /\ t \in Range(Trimmed(a))
  <2> DEFINE b == SubSeq(a, Len(a) - History + 1, Len(a))
  <2>1. Trimmed(a) = b
    BY <1>4 DEF Trimmed
  <2>2. b \in Seq(Tasks) /\ Len(b) = History /\ b[History] = a[Len(a)]
    BY <1>1, <1>2, <1>4
  <2>3. History \in DOMAIN b
    BY <1>2, <2>2
  <2>4. t \in Range(b)
    BY <1>1, <2>2, <2>3 DEF Range
  <2> HIDE DEF b
  <2> QED
    BY <1>2, <2>1, <2>2, <2>4
<1>5. /\ Trimmed(a) \in Seq(Tasks) /\ Len(Trimmed(a)) <= History
      /\ t \in Range(Trimmed(a))
  BY <1>1, <1>2, <1>3, <1>4
<1> QED
  BY <1>5 DEF a

\* The runner's last step, whatever the outcome, leaves nobody running.
LEMMA EndsLeavesNone ==
  ASSUME EngineInv, NEW t \in Tasks, stage[t] \in Alive, NEW o \in Terminal, Ends(t, o),
         driving' \in SUBSET Tasks
  PROVE  EngineInv' /\ \A u \in Tasks : stage'[u] \notin Alive
<1>1. TypeOK'
  BY DEF EngineInv, TypeOK, Ends
<1>2. \A u \in Tasks : stage'[u] \notin Alive
  BY DEF EngineInv, TypeOK, OneAtATime, Ends, Alive
<1>3. OneAtATime'
  BY <1>2 DEF OneAtATime
<1>4. ReportsAgree'
  BY DEF EngineInv, TypeOK, OneAtATime, ReportsAgree, Ends, Alive, Terminal
<1> QED
  BY <1>1, <1>2, <1>3, <1>4 DEF EngineInv

\* An engine just made runs nothing and is asked nothing.
LEMMA InitInv == Init => EngineInv
BY HistoryAssumption DEF Init, EngineInv, TypeOK, OneAtATime, ReportsAgree, Alive, Terminal

\* No step of the engine, of a task or of a client breaks the invariant.
LEMMA StepInv == EngineInv /\ [Next]_vars => EngineInv'
<1> SUFFICES ASSUME EngineInv, [Next]_vars PROVE EngineInv'
  OBVIOUS
<1>1. CASE UNCHANGED vars
  BY <1>1 DEF vars, EngineInv, TypeOK, OneAtATime, ReportsAgree
<1>2. ASSUME NEW t \in Tasks, Submit(t)
      PROVE  EngineInv'
  <2>1. \A u \in Tasks : stage[u] \notin Alive /\ u \notin asked
    BY <1>2, NoneAssumption DEF EngineInv, OneAtATime, ReportsAgree, Submit, Busy, Alive
  <2>2. /\ order' \in Seq(Tasks) /\ Len(order') <= History /\ t \in Range(order')
    BY <1>2, TrimKeepsNewest DEF EngineInv, TypeOK, Submit
  <2>3. TypeOK'
    BY <1>2, <2>2 DEF EngineInv, TypeOK, Submit, Alive, Terminal
  <2>4. OneAtATime'
    BY <1>2, <2>1, <2>2 DEF EngineInv, TypeOK, OneAtATime, Submit
  <2>5. ReportsAgree'
    BY <1>2, <2>1 DEF EngineInv, TypeOK, ReportsAgree, Submit, Terminal, Alive
  <2> QED
    BY <2>3, <2>4, <2>5 DEF EngineInv
<1>3. ASSUME NEW t \in Tasks, Begins(t) \/ Enters(t) \/ Slews(t) \/ SlewEnds(t)
      PROVE  EngineInv'
  <2> USE <1>3 DEF EngineInv, TypeOK, Begins, Enters, Slews, SlewEnds, Alive, Terminal
  <2>1. TypeOK'
    OBVIOUS
  <2>2. OneAtATime'
    BY DEF OneAtATime
  <2>3. ReportsAgree'
    BY DEF ReportsAgree
  <2> QED
    BY <2>1, <2>2, <2>3
<1>4. ASSUME NEW t \in Tasks, Succeeds(t) \/ Fails(t) \/ CleanedUp(t) \/ CleanUpFails(t)
      PROVE  EngineInv'
  <2>1. /\ stage[t] \in Alive /\ driving' \in SUBSET Tasks
        /\ Ends(t, "succeeded") \/ Ends(t, "failed") \/ Ends(t, "cancelled")
    BY <1>4 DEF Succeeds, Fails, CleanedUp, CleanUpFails, Alive, EngineInv, TypeOK
  <2> QED
    BY <2>1, EndsLeavesNone DEF Terminal
<1>5. ASSUME NEW t \in Tasks, Delivered(t)
      PROVE  EngineInv'
  <2>1. stage[t] \in Alive /\ driving' \in SUBSET Tasks
    BY <1>5 DEF Delivered, EngineInv, TypeOK, ReportsAgree
  <2>2. CASE CleansUp(t)
    <3> USE <1>5, <2>2 DEF EngineInv, TypeOK, Delivered, CleansUp, Alive, Terminal
    <3>1. TypeOK'
      OBVIOUS
    <3>2. OneAtATime'
      BY DEF OneAtATime
    <3>3. ReportsAgree'
      BY DEF ReportsAgree
    <3> QED
      BY <3>1, <3>2, <3>3
  <2>3. CASE ~CleansUp(t)
    BY <1>5, <2>1, <2>3, EndsLeavesNone DEF Delivered, Terminal
  <2> QED
    BY <2>2, <2>3
<1>6. ASSUME NEW c \in Callers, NEW t \in Tasks, Cancel(c, t)
      PROVE  EngineInv'
  <2>1. runner = t /\ stage[t] \in Alive \ {"first"}
    BY <1>6 DEF Cancel, Busy, EngineInv, OneAtATime, TypeOK
  <2>2. TypeOK'
    BY <1>6 DEF Cancel, EngineInv, TypeOK
  <2>3. OneAtATime' /\ ReportsAgree'
    BY <1>6, <2>1 DEF Cancel, EngineInv, TypeOK, OneAtATime, ReportsAgree
  <2> QED
    BY <2>2, <2>3 DEF EngineInv
<1>7. ASSUME NEW c \in Callers, Returns(c)
      PROVE  EngineInv'
  BY <1>7 DEF Returns, EngineInv, TypeOK, OneAtATime, ReportsAgree
<1> QED
  BY <1>1, <1>2, <1>3, <1>4, <1>5, <1>6, <1>7 DEF Next

\* Two tasks are never under way at once, and the one that is, its clean-up
\* included, is the one that cancel reaches and that clients are told about.
THEOREM EngineSafety == Spec => []EngineInv
<1>1. Init => EngineInv
  BY InitInv
<1>2. EngineInv /\ [Next]_vars => EngineInv'
  BY StepInv
<1> QED
  BY <1>1, <1>2, PTL DEF Spec

-----------------------------------------------------------------------------
(* The engine implements ExclusiveUse                                      *)

\* Whose runner is alive owns the rig, and when nobody's is nobody does.
LEMMA OwnerIsRunner ==
  ASSUME OneAtATime
  PROVE  /\ \A t \in Tasks : stage[t] \in Alive => Owner = t
         /\ (\A t \in Tasks : stage[t] \notin Alive) => Owner = None
BY DEF Owner, OneAtATime

\* The same after a step.
LEMMA OwnerIsRunnerNext ==
  ASSUME OneAtATime'
  PROVE  /\ \A t \in Tasks : stage'[t] \in Alive => Owner' = t
         /\ (\A t \in Tasks : stage'[t] \notin Alive) => Owner' = None
BY DEF Owner, OneAtATime

\* A step of the engine that moves no runner into or out of life leaves the
\* rig's owner alone.
LEMMA OwnerStays ==
  ASSUME EngineInv, EngineInv', \A t \in Tasks : stage'[t] \in Alive <=> stage[t] \in Alive
  PROVE  Owner' = Owner
<1>1. CASE \E t \in Tasks : stage[t] \in Alive
  BY <1>1, OwnerIsRunner, OwnerIsRunnerNext DEF EngineInv
<1>2. CASE \A t \in Tasks : stage[t] \notin Alive
  BY <1>2, OwnerIsRunner, OwnerIsRunnerNext DEF EngineInv
<1> QED
  BY <1>1, <1>2

\* The end of a runner gives the rig back.
LEMMA EndsLeaves ==
  ASSUME EngineInv, NEW t \in Tasks, stage[t] \in Alive, NEW o \in Terminal, Ends(t, o),
         driving' \in SUBSET Tasks
  PROVE  Rig!Leave
<1>1. EngineInv' /\ \A u \in Tasks : stage'[u] \notin Alive
  BY EndsLeavesNone
<1>2. Owner = t /\ Owner' = None
  BY <1>1, OwnerIsRunner, OwnerIsRunnerNext DEF EngineInv
<1> QED
  BY <1>2, NoneAssumption DEF Rig!Leave

\* Every step of the engine is a taking of the rig by nobody's leave but its
\* own, a giving back, or neither.
LEMMA StepRig == EngineInv /\ [Next]_vars => [Rig!Next]_Owner
<1> SUFFICES ASSUME EngineInv, [Next]_vars PROVE [Rig!Next]_Owner
  OBVIOUS
<1>1. EngineInv'
  BY StepInv
<1>2. CASE UNCHANGED vars
  BY <1>2 DEF vars, Owner
<1>3. ASSUME NEW t \in Tasks, Submit(t)
      PROVE  Rig!Next
  <2>1. \A u \in Tasks : stage[u] \notin Alive
    BY <1>3, NoneAssumption DEF EngineInv, OneAtATime, Submit, Busy
  <2>2. stage'[t] \in Alive
    BY <1>3 DEF EngineInv, TypeOK, Submit, Alive
  <2>3. Owner = None /\ Owner' = t
    BY <1>1, <2>1, <2>2, OwnerIsRunner, OwnerIsRunnerNext DEF EngineInv
  <2> QED
    BY <2>3 DEF Rig!Next, Rig!Take
<1>4. ASSUME NEW t \in Tasks, Begins(t) \/ Enters(t) \/ Slews(t) \/ SlewEnds(t)
      PROVE  Owner' = Owner
  <2>1. \A u \in Tasks : stage'[u] \in Alive <=> stage[u] \in Alive
    BY <1>4 DEF EngineInv, TypeOK, Begins, Enters, Slews, SlewEnds, Alive
  <2> QED
    BY <1>1, <2>1, OwnerStays
<1>5. ASSUME NEW t \in Tasks, Succeeds(t) \/ Fails(t) \/ CleanedUp(t) \/ CleanUpFails(t)
      PROVE  Rig!Leave
  <2>1. /\ stage[t] \in Alive /\ driving' \in SUBSET Tasks
        /\ Ends(t, "succeeded") \/ Ends(t, "failed") \/ Ends(t, "cancelled")
    BY <1>5 DEF Succeeds, Fails, CleanedUp, CleanUpFails, Alive, EngineInv, TypeOK
  <2> QED
    BY <2>1, EndsLeaves DEF Terminal
<1>6. ASSUME NEW t \in Tasks, Delivered(t)
      PROVE  Rig!Leave \/ Owner' = Owner
  <2>1. stage[t] \in Alive /\ driving' \in SUBSET Tasks
    BY <1>6 DEF Delivered, EngineInv, TypeOK, ReportsAgree
  <2>2. CASE CleansUp(t)
    <3>1. \A u \in Tasks : stage'[u] \in Alive <=> stage[u] \in Alive
      BY <1>6, <2>2 DEF EngineInv, TypeOK, Delivered, CleansUp, Alive
    <3> QED
      BY <1>1, <3>1, OwnerStays
  <2>3. CASE ~CleansUp(t)
    BY <1>6, <2>1, <2>3, EndsLeaves DEF Delivered, Terminal
  <2> QED
    BY <2>2, <2>3
<1>7. ASSUME NEW c \in Callers, Returns(c) \/ \E t \in Tasks : Cancel(c, t)
      PROVE  Owner' = Owner
  BY <1>7 DEF Returns, Cancel, Owner
<1> QED
  BY <1>2, <1>3, <1>4, <1>5, <1>6, <1>7 DEF Next, Rig!Next

\* "Enforces one at a time": whatever clients submit and cancel, and whenever
\* tasks end, fail or clean up, the engine hands the rig from one to the next.
THEOREM EngineIsExclusive == Spec => RigIsExclusive
<1>1. Init => Rig!Init
  BY DEF Init, Rig!Init, Owner, Alive
<1>2. Init => EngineInv
  BY InitInv
<1>3. EngineInv /\ [Next]_vars => EngineInv'
  BY StepInv
<1>4. EngineInv /\ [Next]_vars => [Rig!Next]_Owner
  BY StepRig
<1> QED
  BY <1>1, <1>2, <1>3, <1>4, PTL DEF Spec, RigIsExclusive, Rig!Spec

-----------------------------------------------------------------------------
(* Polar alignment                                                         *)

\* Who exposes or solves has the lock.
Under(p) == request[p] # Nothing /\ request[p].pc \in {"exposing", "solving"}
LockIsHeld == \A p \in Requesters : Under(p) <=> lock = p

\* Shots are numbered as they are taken, and the one being solved is the last.
ShotsAreNumbered ==
  /\ \A i \in DOMAIN frames : frames[i].id <= taken
  /\ \A i \in DOMAIN shots : shots[i] # Nothing => shots[i].id <= taken
  /\ knobs # Nothing => knobs.id <= taken
  /\ \A p \in Requesters : request[p] # Nothing /\ request[p].pc = "solving" =>
       request[p].shot \in Frame /\ request[p].shot.id = taken

\* Nothing is from before the last reset, nothing kept from before a turn of the
\* knobs; who asks for live frames adjusts.
SessionIsOne ==
  /\ \A i, j \in DOMAIN frames : i # j => frames[i].id # frames[j].id
  /\ ~overtaken =>
    /\ \A i \in DOMAIN frames : frames[i].of = resets
    /\ \A i \in DOMAIN shots : shots[i] # Nothing => shots[i].of = resets
    /\ last_solve # Nothing => last_solve.of = resets
    /\ \A p \in Requesters : request[p] # Nothing =>
         /\ request[p].pc = "solving" => request[p].shot.of = resets
         /\ request[p].kind = "live" => adjusting
    /\ pinned # Nothing => adjusting /\ pinned.fit = fit
    /\ \A i, j \in DOMAIN frames : frames[i].turn = frames[j].turn
    /\ ~adjusting =>
         /\ \A i \in DOMAIN frames : frames[i].turn = turn
         /\ \A i \in DOMAIN shots : shots[i] # Nothing => shots[i].turn = turn
         /\ \A p \in Requesters : request[p] # Nothing /\ request[p].pc = "solving" =>
              request[p].shot.turn = turn

\* Every list of frames there was on the way to those kept has a fit, the last of
\* them for a site there was.
FitStands ==
  /\ fit # Nothing <=> knobs # Nothing
  /\ fit # Nothing => Len(fit.frames) >= 2 /\ Fits(fit.frames) /\ fit.site <= Site
  /\ fit # Nothing /\ fit.site = Site => fit.frames = frames
  /\ fit = Nothing <=> Len(frames) < 2
  /\ \A n \in 2..Len(frames) : Fits(SubSeq(frames, 1, n))

\* A sweep under way has points of its own, and has computed nothing yet.
SweepIsOne ==
  /\ \A s \in DOMAIN service :
       /\ service[s].axis # Nothing =>
            /\ service[s].axis = service[s].points /\ Len(service[s].points) = Points
            /\ \A i \in 1..Points : service[s].points[i] = service[s].points[1]
       /\ service[s].error => service[s].axis # Nothing
  /\ task # Nothing =>
       /\ service[task].axis = Nothing /\ Len(service[task].points) < Points
       /\ \A i \in DOMAIN service[task].points : service[task].points[i] = sweeps

PolarInv == PolarTypeOK /\ LockIsHeld /\ ShotsAreNumbered /\ SessionIsOne /\ FitStands /\ SweepIsOne

-----------------------------------------------------------------------------
(* Lists of shots                                                          *)

\* The latest few: the new one, and some of those there were.
LEMMA LatestFew ==
  ASSUME PolarTypeOK, NEW shot \in Frame \cup {Nothing}
  PROVE /\ WithShot(shot) \in Seq(Frame \cup {Nothing})
        /\ Len(WithShot(shot)) <= KeptShots
        /\ \A i \in DOMAIN WithShot(shot) :
             \/ WithShot(shot)[i] = shot
             \/ \E j \in DOMAIN shots : WithShot(shot)[i] = shots[j]
<1> DEFINE T == Frame \cup {Nothing}
           kept == IF Len(shots) >= KeptShots
              THEN SubSeq(shots, Len(shots) - KeptShots + 2, Len(shots)) ELSE shots
<1>1. /\ shots \in Seq(T) /\ Len(shots) <= KeptShots /\ KeptShots \in Nat \ {0} /\ shot \in T
      /\ Len(shots) \in Nat /\ DOMAIN shots = 1..Len(shots)
  BY KeptShotsAssumption DEF PolarTypeOK
<1> HIDE DEF T
<1>2. /\ kept \in Seq(T) /\ Len(kept) < KeptShots /\ Len(kept) \in Nat /\ DOMAIN kept = 1..Len(kept)
      /\ \A i \in 1..Len(kept) : \E j \in DOMAIN shots : kept[i] = shots[j]
  <2>1. CASE Len(shots) >= KeptShots
    <3> DEFINE m == Len(shots) - KeptShots + 2
               n == Len(shots)
    <3>1. m \in Int /\ n \in Int /\ m >= 1 /\ n - m + 1 = KeptShots - 1
             /\ \A i \in m..n : shots[i] \in T
      BY <1>1, <2>1
    <3> HIDE DEF m, n
    <3>2. /\ SubSeq(shots, m, n) \in Seq(T)
          /\ Len(SubSeq(shots, m, n)) = IF m <= n THEN n - m + 1 ELSE 0
          /\ \A i \in 1..(n - m + 1) : SubSeq(shots, m, n)[i] = shots[m + i - 1]
      BY <3>1, SubSeqProperties
    <3>3. kept = SubSeq(shots, m, n)
      BY <2>1 DEF m, n
    <3> HIDE DEF kept
    <3>4. Len(kept) = KeptShots - 1 /\ DOMAIN kept = 1..Len(kept)
      BY <1>1, <3>1, <3>2, <3>3
    <3>5. ASSUME NEW i \in 1..Len(kept) PROVE \E j \in DOMAIN shots : kept[i] = shots[j]
      <4>1. kept[i] = shots[m + i - 1]
        BY <3>1, <3>2, <3>3, <3>4
      <4>2. m + i - 1 \in DOMAIN shots
        BY <1>1, <3>1, <3>4 DEF n
      <4>3. QED BY <4>1, <4>2
    <3>6. QED BY <1>1, <3>2, <3>3, <3>4, <3>5
  <2>2. CASE ~(Len(shots) >= KeptShots)
    BY <1>1, <2>2
  <2>3. QED BY <2>1, <2>2
<1> HIDE DEF kept
<1>3. WithShot(shot) = Append(kept, shot)
  BY DEF WithShot, kept
<1>4. /\ Append(kept, shot) \in Seq(T) /\ Len(Append(kept, shot)) = Len(kept) + 1
      /\ \A i \in 1..Len(kept) : Append(kept, shot)[i] = kept[i]
      /\ Append(kept, shot)[Len(kept) + 1] = shot
  BY <1>1, <1>2, AppendProperties
<1>5. DOMAIN Append(kept, shot) = 1..(Len(kept) + 1)
  BY <1>4
<1>6. \A i \in DOMAIN Append(kept, shot) :
        Append(kept, shot)[i] = shot \/ \E j \in DOMAIN shots : Append(kept, shot)[i] = shots[j]
  BY <1>2, <1>4, <1>5
<1>7. QED BY <1>1, <1>2, <1>3, <1>4, <1>6 DEF T

\* One more frame, or one less: those there were are where they were.
LEMMA OneMore ==
  ASSUME NEW s \in Seq(Frame), NEW f \in Frame
  PROVE /\ Append(s, f) \in Seq(Frame) /\ Len(Append(s, f)) = Len(s) + 1
        /\ DOMAIN Append(s, f) = 1..(Len(s) + 1) /\ DOMAIN s = 1..Len(s) /\ Len(s) \in Nat
        /\ \A i \in 1..Len(s) : Append(s, f)[i] = s[i]
        /\ Append(s, f)[Len(s) + 1] = f
        /\ \A n \in 2..Len(s) : SubSeq(Append(s, f), 1, n) = SubSeq(s, 1, n)
        /\ SubSeq(Append(s, f), 1, Len(s) + 1) = Append(s, f)
        /\ Last(Append(s, f)) = f
<1> DEFINE a == Append(s, f)
<1>1. /\ a \in Seq(Frame) /\ Len(a) = Len(s) + 1 /\ DOMAIN a = 1..(Len(s) + 1)
      /\ DOMAIN s = 1..Len(s) /\ Len(s) \in Nat /\ a[Len(s) + 1] = f
      /\ \A i \in 1..Len(s) : a[i] = s[i]
  BY AppendProperties
<1> HIDE DEF a
<1>2. ASSUME NEW n \in 2..Len(s) PROVE SubSeq(a, 1, n) = SubSeq(s, 1, n)
  <2>1. /\ SubSeq(a, 1, n) \in Seq(Frame) /\ Len(SubSeq(a, 1, n)) = n
        /\ \A i \in 1..n : SubSeq(a, 1, n)[i] = a[i]
    BY <1>1, SubSeqProperties
  <2>2. /\ SubSeq(s, 1, n) \in Seq(Frame) /\ Len(SubSeq(s, 1, n)) = n
        /\ \A i \in 1..n : SubSeq(s, 1, n)[i] = s[i]
    BY <1>1, SubSeqProperties
  <2>3. \A i \in 1..n : SubSeq(a, 1, n)[i] = SubSeq(s, 1, n)[i]
    BY <1>1, <2>1, <2>2
  <2>4. QED BY <2>1, <2>2, <2>3, SeqEqual
<1>3. SubSeq(a, 1, Len(s) + 1) = a
  BY <1>1, SubSeqFull
<1>4. Last(a) = f
  BY <1>1 DEF Last
<1>5. QED BY <1>1, <1>2, <1>3, <1>4 DEF a

LEMMA OneLess ==
  ASSUME NEW s \in Seq(Frame), s # <<>>
  PROVE /\ Front(s) \in Seq(Frame) /\ Len(Front(s)) = Len(s) - 1
        /\ Len(s) \in Nat \ {0}
        /\ DOMAIN Front(s) = 1..(Len(s) - 1) /\ DOMAIN s = 1..Len(s)
        /\ \A i \in 1..(Len(s) - 1) : Front(s)[i] = s[i]
        /\ \A n \in 2..(Len(s) - 1) : SubSeq(Front(s), 1, n) = SubSeq(s, 1, n)
        /\ Front(s) = SubSeq(s, 1, Len(s) - 1)
<1> DEFINE f == Front(s)
<1>1. Len(s) \in Nat \ {0} /\ DOMAIN s = 1..Len(s) /\ \A i \in 1..Len(s) : s[i] \in Frame
  BY EmptySeq, LenProperties
<1>2. f = SubSeq(s, 1, Len(s) - 1)
  BY DEF Front
<1>3. /\ f \in Seq(Frame) /\ Len(f) = Len(s) - 1 /\ \A i \in 1..(Len(s) - 1) : f[i] = s[i]
  BY <1>1, <1>2, SubSeqProperties
<1> HIDE DEF f
<1>4. DOMAIN f = 1..(Len(s) - 1)
  BY <1>3
<1>5. ASSUME NEW n \in 2..(Len(s) - 1) PROVE SubSeq(f, 1, n) = SubSeq(s, 1, n)
  <2>1. /\ SubSeq(f, 1, n) \in Seq(Frame) /\ Len(SubSeq(f, 1, n)) = n
        /\ \A i \in 1..n : SubSeq(f, 1, n)[i] = f[i]
    BY <1>1, <1>3, <1>4, SubSeqProperties
  <2>2. /\ SubSeq(s, 1, n) \in Seq(Frame) /\ Len(SubSeq(s, 1, n)) = n
        /\ \A i \in 1..n : SubSeq(s, 1, n)[i] = s[i]
    BY <1>1, SubSeqProperties
  <2>3. \A i \in 1..n : SubSeq(f, 1, n)[i] = SubSeq(s, 1, n)[i]
    BY <1>1, <1>3, <2>1, <2>2
  <2>4. QED BY <2>1, <2>2, <2>3, SeqEqual
<1>6. QED BY <1>1, <1>2, <1>3, <1>4, <1>5 DEF f

-----------------------------------------------------------------------------
(* Types                                                                   *)

\* What a request under way is.
LEMMA RequestIsTyped ==
  ASSUME PolarTypeOK, NEW p \in Requesters, request[p] # Nothing
  PROVE request[p] \in Shooting
BY DEF PolarTypeOK

\* A request that goes on.
LEMMA GoesOn ==
  ASSUME NEW r \in Shooting, NEW shot \in Frame
  PROVE /\ [r EXCEPT !.pc = "exposing"] \in Shooting
        /\ [r EXCEPT !.pc = "exposing"].pc = "exposing"
        /\ [r EXCEPT !.pc = "exposing"].kind = r.kind
        /\ [r EXCEPT !.pc = "solving", !.shot = shot] \in Shooting
        /\ [r EXCEPT !.pc = "solving", !.shot = shot].pc = "solving"
        /\ [r EXCEPT !.pc = "solving", !.shot = shot].kind = r.kind
        /\ [r EXCEPT !.pc = "solving", !.shot = shot].shot = shot
BY DEF Shooting

\* The shot that is taken when the shutter closes.
LEMMA ShotIsTaken ==
  ASSUME PolarTypeOK, NEW p \in Requesters, NEW place \in Places, Exposed(p, place)
  PROVE /\ request' \in [Requesters -> Shooting \cup {Nothing}]
        /\ request'[p] # Nothing /\ request'[p].kind = request[p].kind /\ request'[p].pc = "solving"
        /\ request'[p].shot \in Frame
        /\ request'[p].shot.id = taken + 1 /\ request'[p].shot.turn = turn
        /\ request'[p].shot.of = resets
        /\ \A q \in Requesters : q # p => request'[q] = request[q]
        /\ taken' = taken + 1 /\ UNCHANGED <<session, lock, sweep, turn, resets, overtaken>>
        /\ Under(p)
<1> DEFINE shot == [id |-> taken + 1, turn |-> turn, at |-> place, of |-> resets]
<1>1. shot \in Frame
  BY PolarBoundsAssumption DEF PolarTypeOK, Frame
<1>2. shot.id = taken + 1 /\ shot.turn = turn /\ shot.of = resets
  OBVIOUS
<1>3. request' = [request EXCEPT ![p].pc = "solving", ![p].shot = shot]
  BY DEF Exposed
<1>4. taken' = taken + 1
         /\ UNCHANGED <<session, lock, sweep, turn, resets, overtaken>> /\ Under(p)
  BY DEF Exposed, Under
<1> HIDE DEF shot
<1>5. request[p] \in Shooting
  BY <1>4, RequestIsTyped DEF Under
<1> DEFINE r == [request[p] EXCEPT !.pc = "solving", !.shot = shot]
<1>6. request' = [request EXCEPT ![p] = r]
  BY <1>3
<1>7. r \in Shooting /\ r.pc = "solving" /\ r.kind = request[p].kind /\ r.shot = shot
  BY <1>1, <1>5, GoesOn
<1> HIDE DEF r
<1>8. /\ request' \in [Requesters -> Shooting \cup {Nothing}] /\ request'[p] = r
      /\ \A q \in Requesters : q # p => request'[q] = request[q]
  BY <1>6, <1>7 DEF PolarTypeOK
<1>9. r # Nothing
  BY <1>7, NothingAssumption
<1>10. QED BY <1>1, <1>2, <1>4, <1>7, <1>8, <1>9

\* Requests begin, go on and end as requests.
LEMMA AskTypes ==
  ASSUME PolarTypeOK, NEW p \in Requesters,
         \/ \E kind \in ByHand : Ask(p, kind)
         \/ Exposes(p) \/ Refused(p)
         \/ \E place \in Places : Exposed(p, place)
  PROVE PolarTypeOK'
<1>1. ASSUME NEW kind \in ByHand, Ask(p, kind) PROVE PolarTypeOK'
  <2>1. [kind |-> kind, pc |-> "queued", shot |-> Nothing] \in Shooting
    BY DEF Shooting
  <2>2. request' \in [Requesters -> Shooting \cup {Nothing}]
    BY <1>1, <2>1 DEF Ask, PolarTypeOK
  <2>3. QED BY <1>1, <2>2 DEF Ask, PolarTypeOK, sweep
<1>2. CASE Exposes(p)
  <2>1. [request[p] EXCEPT !.pc = "exposing"] \in Shooting
    BY <1>2, RequestIsTyped DEF Exposes, Shooting
  <2>2. request' \in [Requesters -> Shooting \cup {Nothing}]
    BY <1>2, <2>1 DEF Exposes, PolarTypeOK
  <2>3. QED BY <1>2, <2>2 DEF Exposes, PolarTypeOK, session, sweep
<1>3. CASE Refused(p)
  BY <1>3 DEF Refused, PolarTypeOK, session, sweep
<1>4. ASSUME NEW place \in Places, Exposed(p, place) PROVE PolarTypeOK'
  BY <1>4, ShotIsTaken DEF PolarTypeOK, session, sweep
<1>5. QED BY <1>1, <1>2, <1>3, <1>4

\* A shot that ends, solved or not.
LEMMA ShotTypes ==
  ASSUME PolarTypeOK, ShotsAreNumbered, NEW p \in Requesters,
         Unsolved(p) \/ Solved(p)
  PROVE PolarTypeOK'
<1>1. CASE Unsolved(p)
  BY <1>1, LatestFew DEF Unsolved, PolarTypeOK, sweep
<1>2. CASE Solved(p)
  <2>1. request[p].shot \in Frame
    BY <1>2 DEF Solved, ShotsAreNumbered
  <2>2. shots' \in Seq(Frame \cup {Nothing}) /\ Len(shots') <= KeptShots
    BY <1>2, <2>1, LatestFew DEF Solved
  <2>3. knobs' \in Frame \cup {Nothing} /\ last_solve' \in Frame \cup {Nothing}
    BY <1>2, <2>1 DEF Solved, PolarTypeOK
  <2>4. pinned' \in Pin \cup {Nothing}
    <3>1. fit # Nothing => [fit |-> fit, shot |-> request[p].shot] \in Pin
      BY <2>1 DEF PolarTypeOK, Pin
    <3>2. QED BY <1>2, <3>1 DEF Solved, PolarTypeOK
  <2>5. lock' \in Requesters \cup {Nothing} /\ request' \in [Requesters -> Shooting \cup {Nothing}]
    BY <1>2 DEF Solved, PolarTypeOK
  <2>6. QED BY <1>2, <2>2, <2>3, <2>4, <2>5 DEF Solved, PolarTypeOK, sweep
<1>3. QED BY <1>1, <1>2

\* What is kept is frames, and so is what a fit is of.
LEMMA OperatorTypes ==
  ASSUME PolarTypeOK,
         (\E i \in DOMAIN shots : Accept(i)) \/ DropLast \/ Repin \/ Reset
  PROVE PolarTypeOK'
<1>1. Site \in Nat \ {0}
  BY EmptySeq DEF PolarTypeOK, Site
<1>2. ASSUME NEW i \in DOMAIN shots, Accept(i) PROVE PolarTypeOK'
  <2> DEFINE kept == Append(frames, shots[i])
  <2>1. shots[i] \in Frame
    BY <1>2 DEF Accept, PolarTypeOK
  <2>2. kept \in Seq(Frame) /\ Last(kept) \in Frame
    BY <2>1, OneMore DEF PolarTypeOK
  <2>3. /\ frames' = kept
        /\ fit' = IF Len(kept) >= 2 THEN [frames |-> kept, site |-> Site] ELSE fit
        /\ knobs' = IF Len(kept) >= 2 THEN Last(kept) ELSE knobs
    BY <1>2 DEF Accept
  <2> HIDE DEF kept
  <2>4. fit' \in Fit \cup {Nothing} /\ knobs' \in Frame \cup {Nothing}
    BY <1>1, <2>2, <2>3 DEF PolarTypeOK, Fit
  <2>5. QED BY <1>2, <2>2, <2>3, <2>4 DEF Accept, PolarTypeOK, sweep
<1>3. CASE DropLast
  <2> DEFINE remade == IF Len(frames') >= 2 THEN [frames |-> frames', site |-> Site] ELSE Nothing
  <2>1. frames' \in Seq(Frame) /\ (Len(frames') >= 2 => Last(frames') \in Frame)
    <3>1. frames' = Front(frames)
      BY <1>3 DEF DropLast
    <3>2. frames' \in Seq(Frame)
      BY <1>3, <3>1, OneLess DEF DropLast, PolarTypeOK
    <3>3. QED BY <3>2 DEF Last
  <2>2. remade \in Fit \cup {Nothing} /\ (remade # Nothing => Len(frames') >= 2)
    BY <1>1, <2>1 DEF Fit
  <2>3. \/ fit' = remade /\ knobs' = IF remade # Nothing THEN Last(frames') ELSE Nothing
        \/ UNCHANGED <<fit, knobs>>
    BY <1>3 DEF DropLast
  <2> HIDE DEF remade
  <2>4. fit' \in Fit \cup {Nothing} /\ knobs' \in Frame \cup {Nothing}
    BY <2>1, <2>2, <2>3 DEF PolarTypeOK
  <2>5. QED BY <1>3, <2>1, <2>4 DEF DropLast, PolarTypeOK, sweep
<1>4. CASE Repin
  BY <1>4 DEF Repin, PolarTypeOK, sweep
<1>5. CASE Reset
  <2>1. <<>> \in Seq(Frame) /\ <<>> \in Seq(Frame \cup {Nothing}) /\ Len(<<>>) <= KeptShots
    BY KeptShotsAssumption
  <2>2. resets' \in 0..MaxResets
    BY <1>5, PolarBoundsAssumption DEF Reset, PolarTypeOK
  <2>3. overtaken' \in BOOLEAN
    BY <1>5 DEF Reset, InFlight
  <2>4. QED BY <1>5, <2>1, <2>2, <2>3 DEF Reset, PolarTypeOK, sweep
<1>6. QED BY <1>2, <1>3, <1>4, <1>5

\* A service with other points, or with an error that is known.
LEMMA ServiceParts ==
  ASSUME NEW v \in Service, NEW points \in Seq(Nat)
  PROVE /\ [v EXCEPT !.points = points] \in Service
        /\ [v EXCEPT !.points = points].points = points
        /\ [v EXCEPT !.points = points].axis = v.axis
        /\ [v EXCEPT !.points = points].error = v.error
        /\ [v EXCEPT !.error = TRUE] \in Service
        /\ [v EXCEPT !.error = TRUE].points = v.points
        /\ [v EXCEPT !.error = TRUE].axis = v.axis
BY DEF Service

\* The services stay services, and a sweep is of one of them.
LEMMA SweepTypes ==
  ASSUME PolarTypeOK,
         SweepBegins \/ PointSolved \/ SweepFails \/ Refined \/ SetSite
  PROVE PolarTypeOK'
<1>1. /\ Len(service) \in Nat \ {0} /\ DOMAIN service = 1..Len(service) /\ Site \in DOMAIN service
      /\ NewService \in Service /\ service \in Seq(Service)
  BY EmptySeq DEF PolarTypeOK, Site, NewService, Service
<1>2. ASSUME NEW s \in DOMAIN service, NEW v \in Service
      PROVE /\ [service EXCEPT ![s] = v] \in Seq(Service) /\ [service EXCEPT ![s] = v] # <<>>
            /\ DOMAIN [service EXCEPT ![s] = v] = DOMAIN service
  <2>1. [service EXCEPT ![s] = v] \in Seq(Service)
           /\ Len([service EXCEPT ![s] = v]) = Len(service)
    BY <1>1, ExceptSeq
  <2>2. QED BY <1>1, <2>1
<1>3. \A s \in DOMAIN service : service[s] \in Service
  BY <1>1
<1>4. CASE SweepBegins
  BY <1>1, <1>2, <1>4 DEF SweepBegins, PolarTypeOK, session
<1>5. CASE PointSolved
  <2> DEFINE kept == Append(service[task].points, sweeps)
             last == Len(kept) = Points
             axis == IF last THEN kept ELSE service[task].axis
             error == service[task].error \/ last
  <2>1. task \in DOMAIN service
    BY <1>5 DEF PointSolved, PolarTypeOK
  <2>2. kept \in Seq(Nat) /\ service[task].axis \in Seq(Nat) \cup {Nothing}
           /\ service[task].error \in BOOLEAN
    BY <1>3, <2>1 DEF PolarTypeOK, Service
  <2>3. service' = [service EXCEPT ![task] = [points |-> kept, axis |-> axis, error |-> error]]
    BY <1>5 DEF PointSolved
  <2>4. axis \in Seq(Nat) \cup {Nothing} /\ error \in BOOLEAN /\ task' \in {task, Nothing}
    BY <1>5, <2>2 DEF PointSolved
  <2> HIDE DEF kept, axis, error
  <2>5. service' \in Seq(Service) /\ service' # <<>> /\ DOMAIN service' = DOMAIN service
    <3>1. [points |-> kept, axis |-> axis, error |-> error] \in Service
      BY <2>2, <2>4 DEF Service
    <3>2. QED BY <1>2, <2>1, <2>3, <3>1
  <2>6. QED BY <1>5, <2>1, <2>4, <2>5 DEF PointSolved, PolarTypeOK, session
<1>6. CASE SweepFails
  <2>1. CASE UNCHANGED service
    BY <1>6, <2>1 DEF SweepFails, PolarTypeOK, session
  <2>2. CASE service' = [service EXCEPT ![task].points = Append(@, sweeps)]
    <3>1. task \in DOMAIN service
      BY <1>6 DEF SweepFails, PolarTypeOK
    <3>2. Append(service[task].points, sweeps) \in Seq(Nat)
      BY <1>3, <3>1 DEF PolarTypeOK, Service
    <3>3. [service[task] EXCEPT !.points = Append(service[task].points, sweeps)] \in Service
      BY <1>3, <3>1, <3>2, ServiceParts
    <3>4. service' \in Seq(Service) /\ service' # <<>> /\ DOMAIN service' = DOMAIN service
      BY <1>2, <2>2, <3>1, <3>3
    <3>5. QED BY <1>6, <3>4 DEF SweepFails, PolarTypeOK, session
  <2>3. QED BY <1>6, <2>1, <2>2 DEF SweepFails
<1>7. CASE Refined
  <2>1. [service[Site] EXCEPT !.error = TRUE] \in Service
    BY <1>1, <1>3, ServiceParts DEF Service
  <2>2. service' \in Seq(Service) /\ service' # <<>> /\ DOMAIN service' = DOMAIN service
    BY <1>1, <1>2, <1>7, <2>1 DEF Refined
  <2>3. QED BY <1>7, <2>2 DEF Refined, PolarTypeOK, session
<1>8. CASE SetSite
  <2>1. /\ service' \in Seq(Service) /\ Len(service') = Len(service) + 1
    BY <1>1, <1>8, AppendProperties DEF SetSite
  <2>2. service' # <<>> /\ DOMAIN service \subseteq DOMAIN service'
    BY <1>1, <2>1
  <2>3. QED BY <1>8, <2>1, <2>2 DEF SetSite, PolarTypeOK, session
<1>9. QED BY <1>4, <1>5, <1>6, <1>7, <1>8

LEMMA TypeStep ==
  ASSUME PolarTypeOK, ShotsAreNumbered, [PolarNext]_polarVars
  PROVE PolarTypeOK'
<1>1. CASE Turn
  <2>1. turn' \in 0..MaxTurns
    BY <1>1, PolarBoundsAssumption DEF Turn, PolarTypeOK
  <2>2. QED BY <1>1, <2>1 DEF Turn, PolarTypeOK, session, sweep
<1>2. CASE UNCHANGED polarVars
  BY <1>2 DEF polarVars, PolarTypeOK, session, sweep
<1>3. QED BY <1>1, <1>2, AskTypes, ShotTypes, OperatorTypes, SweepTypes DEF PolarNext

-----------------------------------------------------------------------------
(* The lock, and the numbers of shots                                      *)

LEMMA LockStep ==
  ASSUME PolarTypeOK, LockIsHeld, [PolarNext]_polarVars
  PROVE LockIsHeld'
<1> Nothing \notin Requesters
  BY NothingAssumption
<1>1. CASE UNCHANGED <<lock, request>>
  BY <1>1 DEF LockIsHeld, Under
<1>2. ASSUME NEW p \in Requesters, NEW kind \in ByHand, Ask(p, kind) PROVE LockIsHeld'
  BY <1>2 DEF Ask, LockIsHeld, Under, PolarTypeOK
<1>3. ASSUME NEW p \in Requesters, Exposes(p) PROVE LockIsHeld'
  <2>1. request'[p].pc = "exposing" /\ request'[p] # Nothing
    <3>1. [request[p] EXCEPT !.pc = "exposing"] \in Shooting
      BY <1>3, RequestIsTyped DEF Exposes, Shooting
    <3>2. [request[p] EXCEPT !.pc = "exposing"].pc = "exposing"
      BY <1>3, RequestIsTyped DEF Exposes, Shooting
    <3>3. QED BY <1>3, <3>1, <3>2, NothingAssumption DEF Exposes, PolarTypeOK
  <2>2. \A q \in Requesters : q # p => request'[q] = request[q]
    BY <1>3 DEF Exposes, PolarTypeOK
  <2>3. QED BY <1>3, <2>1, <2>2 DEF Exposes, LockIsHeld, Under
<1>4. ASSUME NEW p \in Requesters, NEW place \in Places, Exposed(p, place) PROVE LockIsHeld'
  BY <1>4, ShotIsTaken DEF LockIsHeld, Under
<1>5. ASSUME NEW p \in Requesters, Refused(p) \/ Unsolved(p) \/ Solved(p)
         PROVE LockIsHeld'
  <2>1. /\ lock' = IF lock = p THEN Nothing ELSE lock
        /\ request' = [request EXCEPT ![p] = Nothing]
    BY <1>5 DEF Refused, Unsolved, Solved
  <2>2. QED BY <2>1 DEF LockIsHeld, Under, PolarTypeOK
<1>6. CASE (\E i \in DOMAIN shots : Accept(i)) \/ DropLast \/ Repin \/ Reset
  BY <1>1, <1>6 DEF Accept, DropLast, Repin, Reset
<1>7. CASE SweepBegins \/ PointSolved \/ SweepFails \/ Refined
         \/ SetSite \/ Turn \/ UNCHANGED polarVars
  BY <1>1, <1>7 DEF SweepBegins, PointSolved, SweepFails, Refined,
       SetSite, Turn, polarVars
<1>8. QED BY <1>2, <1>3, <1>4, <1>5, <1>6, <1>7 DEF PolarNext

\* A request that begins, or whose shutter opens, has taken no shot yet.
LEMMA NotYet ==
  ASSUME PolarTypeOK, NEW p \in Requesters,
         (\E kind \in ByHand : Ask(p, kind)) \/ Exposes(p)
  PROVE /\ request'[p] # Nothing => request'[p].pc # "solving"
        /\ \A q \in Requesters : q # p => request'[q] = request[q]
        /\ Exposes(p) => request[p] # Nothing /\ request'[p].kind = request[p].kind
        /\ \A kind \in ByHand : Ask(p, kind) => request'[p].kind = kind
<1>1. ASSUME NEW kind \in ByHand, Ask(p, kind)
      PROVE /\ request'[p].kind = kind /\ request'[p].pc = "queued"
            /\ \A q \in Requesters : q # p => request'[q] = request[q]
  <2>1. /\ request'[p] = [kind |-> kind, pc |-> "queued", shot |-> Nothing]
        /\ \A q \in Requesters : q # p => request'[q] = request[q]
    BY <1>1 DEF Ask, PolarTypeOK
  <2>2. QED BY <2>1
<1>2. CASE Exposes(p)
  <2>1. /\ request'[p] = [request[p] EXCEPT !.pc = "exposing"] /\ request[p] # Nothing
        /\ \A q \in Requesters : q # p => request'[q] = request[q]
    BY <1>2 DEF Exposes, PolarTypeOK
  <2>2. request'[p].pc = "exposing" /\ request'[p].kind = request[p].kind
    BY <2>1, RequestIsTyped DEF Shooting
  <2>3. \A kind \in ByHand : ~Ask(p, kind)
    BY <1>2 DEF Ask, Exposes
  <2>4. QED BY <2>1, <2>2, <2>3
<1>3. CASE ~Exposes(p)
  BY <1>1, <1>3
<1>4. QED BY <1>2, <1>3

LEMMA NumbersStep ==
  ASSUME PolarTypeOK, LockIsHeld, ShotsAreNumbered, [PolarNext]_polarVars
  PROVE ShotsAreNumbered'
<1> taken \in Nat /\ \A s \in Frame : s.id \in Nat
  BY DEF PolarTypeOK, Frame
<1>1. ASSUME UNCHANGED <<session, taken, request>> PROVE ShotsAreNumbered'
  BY <1>1 DEF ShotsAreNumbered, session
<1>2. ASSUME NEW p \in Requesters, (\E kind \in ByHand : Ask(p, kind)) \/ Exposes(p)
      PROVE ShotsAreNumbered'
  <2>1. UNCHANGED <<frames, shots, knobs, taken>>
    BY <1>2 DEF Ask, Exposes, session
  <2>2. QED BY <1>2, <2>1, NotYet DEF ShotsAreNumbered
<1>3. ASSUME NEW p \in Requesters, NEW place \in Places, Exposed(p, place)
      PROVE ShotsAreNumbered'
  <2>1. UNCHANGED <<frames, shots, knobs>> /\ taken' = taken + 1
    BY <1>3, ShotIsTaken DEF session
  <2>2. \A q \in Requesters : request'[q] # Nothing /\ request'[q].pc = "solving" =>
          request'[q].shot \in Frame /\ request'[q].shot.id = taken'
    <3>1. request'[p].shot \in Frame /\ request'[p].shot.id = taken'
      BY <1>3, <2>1, ShotIsTaken
    <3>2. \A q \in Requesters : q # p => request'[q] = request[q] /\ ~Under(q)
      BY <1>3, ShotIsTaken DEF LockIsHeld
    <3>3. QED BY <3>1, <3>2 DEF Under
  <2>3. /\ \A i \in DOMAIN frames : frames[i].id <= taken + 1
        /\ \A i \in DOMAIN shots : shots[i] # Nothing => shots[i].id <= taken + 1
        /\ knobs # Nothing => knobs.id <= taken + 1
    <3>1. /\ \A i \in DOMAIN frames : frames[i] \in Frame
          /\ \A i \in DOMAIN shots : shots[i] \in Frame \cup {Nothing}
          /\ knobs \in Frame \cup {Nothing}
      BY DEF PolarTypeOK
    <3>2. \A n \in Nat : n <= taken => n <= taken + 1
      OBVIOUS
    <3>3. QED BY <3>1, <3>2 DEF ShotsAreNumbered
  <2>4. QED BY <2>1, <2>2, <2>3 DEF ShotsAreNumbered
<1>4. ASSUME NEW p \in Requesters, Refused(p) PROVE ShotsAreNumbered'
  <2>1. UNCHANGED <<frames, shots, knobs, taken>> /\ request' = [request EXCEPT ![p] = Nothing]
    BY <1>4 DEF Refused, session
  <2>2. QED BY <2>1 DEF ShotsAreNumbered, PolarTypeOK
<1>5. ASSUME NEW p \in Requesters, Unsolved(p) \/ Solved(p) PROVE ShotsAreNumbered'
  <2>1. UNCHANGED <<frames, taken>> /\ request' = [request EXCEPT ![p] = Nothing]
    BY <1>5 DEF Unsolved, Solved
  <2>2. request[p].shot \in Frame /\ request[p].shot.id = taken
    BY <1>5 DEF Unsolved, Solved, ShotsAreNumbered
  <2>3. /\ shots' = WithShot(Nothing) \/ shots' = WithShot(request[p].shot)
        /\ knobs' \in {knobs, request[p].shot}
    BY <1>5 DEF Unsolved, Solved
  <2>4. \A i \in DOMAIN shots' : shots'[i] # Nothing => shots'[i].id <= taken
    <3>1. \A i \in DOMAIN shots' : shots'[i] # Nothing =>
            shots'[i] = request[p].shot \/ \E j \in DOMAIN shots : shots'[i] = shots[j]
      BY <2>2, <2>3, LatestFew
    <3>2. QED BY <2>2, <3>1 DEF ShotsAreNumbered
  <2>5. knobs' # Nothing => knobs'.id <= taken
    BY <2>2, <2>3 DEF ShotsAreNumbered
  <2>6. QED BY <2>1, <2>4, <2>5 DEF ShotsAreNumbered, PolarTypeOK
<1>6. ASSUME NEW i \in DOMAIN shots, Accept(i) PROVE ShotsAreNumbered'
  <2> DEFINE kept == Append(frames, shots[i])
  <2>1. shots[i] \in Frame /\ shots[i].id <= taken
    BY <1>6 DEF Accept, PolarTypeOK, ShotsAreNumbered
  <2>2. frames' = kept /\ knobs' \in {knobs, Last(kept)} /\ UNCHANGED <<shots, taken, request>>
    BY <1>6 DEF Accept
  <2>3. /\ DOMAIN kept = 1..(Len(frames) + 1) /\ DOMAIN frames = 1..Len(frames) /\ Len(frames) \in Nat
        /\ \A j \in 1..Len(frames) : kept[j] = frames[j]
        /\ kept[Len(frames) + 1] = shots[i] /\ Last(kept) = shots[i]
    BY <2>1, OneMore DEF PolarTypeOK
  <2> HIDE DEF kept
  <2>4. \A j \in DOMAIN kept : kept[j].id <= taken
    <3> SUFFICES ASSUME NEW j \in DOMAIN kept PROVE kept[j].id <= taken
      OBVIOUS
    <3>1. CASE j = Len(frames) + 1
      BY <2>1, <2>3, <3>1
    <3>2. CASE j \in DOMAIN frames
      BY <2>3, <3>2 DEF ShotsAreNumbered
    <3>3. QED BY <2>3, <3>1, <3>2
  <2>5. QED BY <2>1, <2>2, <2>3, <2>4 DEF ShotsAreNumbered
<1>7. CASE DropLast
  <2>1. /\ frames' = Front(frames) /\ UNCHANGED <<shots, taken, request>>
        /\ frames \in Seq(Frame) /\ frames # <<>>
    BY <1>7 DEF DropLast, PolarTypeOK
  <2>2. /\ DOMAIN frames' \subseteq DOMAIN frames /\ DOMAIN frames' = 1..Len(frames')
           /\ Len(frames') \in Nat
        /\ \A j \in DOMAIN frames' : frames'[j] = frames[j]
    <3>1. /\ DOMAIN Front(frames) = 1..(Len(frames) - 1) /\ DOMAIN frames = 1..Len(frames)
          /\ Len(frames) \in Nat \ {0} /\ Len(Front(frames)) = Len(frames) - 1
          /\ \A j \in 1..(Len(frames) - 1) : Front(frames)[j] = frames[j]
      BY <2>1, OneLess
    <3>2. QED BY <2>1, <3>1
  <2>3. knobs' # Nothing => knobs' = knobs \/ (Len(frames') >= 2 /\ knobs' = Last(frames'))
    BY <1>7 DEF DropLast
  <2>4. knobs' # Nothing => knobs'.id <= taken
    BY <2>2, <2>3 DEF ShotsAreNumbered, Last
  <2>5. QED BY <2>1, <2>2, <2>4 DEF ShotsAreNumbered
<1>8. CASE Repin
  BY <1>8 DEF Repin, ShotsAreNumbered
<1>9. CASE Reset
  BY <1>9 DEF Reset, ShotsAreNumbered
<1>10. CASE SweepBegins \/ PointSolved \/ SweepFails \/ Refined
          \/ SetSite \/ Turn \/ UNCHANGED polarVars
  BY <1>1, <1>10 DEF SweepBegins, PointSolved, SweepFails, Refined,
       SetSite, Turn, polarVars
<1>11. QED BY <1>2, <1>3, <1>4, <1>5, <1>6, <1>7, <1>8, <1>9, <1>10 DEF PolarNext

-----------------------------------------------------------------------------
(* One measurement                                                         *)

LEMMA SessionStep ==
  ASSUME PolarTypeOK, LockIsHeld, ShotsAreNumbered, SessionIsOne, [PolarNext]_polarVars
  PROVE SessionIsOne'
<1>1. ASSUME UNCHANGED <<session, request, resets, overtaken>>,
             turn' = turn \/ adjusting \/ (frames = <<>> /\ shots = <<>> /\ ~InFlight)
      PROVE SessionIsOne'
  <2>1. CASE turn' = turn
    BY <1>1, <2>1 DEF SessionIsOne, session
  <2>2. CASE adjusting
    BY <1>1, <2>2 DEF SessionIsOne, session
  <2>3. CASE frames = <<>> /\ shots = <<>> /\ ~InFlight
    BY <1>1, <2>3 DEF SessionIsOne, session, InFlight
  <2>4. QED BY <1>1, <2>1, <2>2, <2>3
<1>2. ASSUME NEW p \in Requesters, (\E kind \in ByHand : Ask(p, kind)) \/ Exposes(p)
      PROVE SessionIsOne'
  <2>1. /\ UNCHANGED <<frames, shots, last_solve, pinned, fit, resets, overtaken, turn>>
        /\ adjusting => adjusting'
        /\ adjusting \in BOOLEAN /\ adjusting' \in BOOLEAN
    BY <1>2 DEF Ask, Exposes, session, PolarTypeOK
  <2>2. request'[p] # Nothing /\ request'[p].kind = "live" /\ ~overtaken => adjusting'
    <3>1. CASE Exposes(p)
      BY <1>2, <2>1, <3>1, NotYet DEF SessionIsOne
    <3>2. ASSUME NEW kind \in ByHand, Ask(p, kind)
             PROVE request'[p].kind = "live" => adjusting'
      BY <3>2, NotYet DEF Ask
    <3>3. QED BY <1>2, <3>1, <3>2
  <2>3. /\ request'[p] # Nothing => request'[p].pc # "solving"
        /\ \A q \in Requesters : q # p => request'[q] = request[q]
    BY <1>2, NotYet
  <2>4. ~overtaken => \A q \in Requesters : request'[q] # Nothing =>
          /\ request'[q].pc = "solving" => request'[q].shot.of = resets
          /\ request'[q].kind = "live" => adjusting'
    BY <2>1, <2>2, <2>3 DEF SessionIsOne
  <2>5. ~overtaken /\ ~adjusting' => \A q \in Requesters :
           request'[q] # Nothing /\ request'[q].pc = "solving" =>
          request'[q].shot.turn = turn
    BY <2>1, <2>3 DEF SessionIsOne
  <2>6. QED BY <2>1, <2>4, <2>5 DEF SessionIsOne
<1>3. ASSUME NEW p \in Requesters, NEW place \in Places, Exposed(p, place)
      PROVE SessionIsOne'
  <2>1. UNCHANGED <<session, resets, overtaken, turn>>
    BY <1>3, ShotIsTaken
  <2>2. /\ request[p] # Nothing /\ request'[p].kind = request[p].kind
        /\ request'[p].shot.turn = turn /\ request'[p].shot.of = resets
        /\ \A q \in Requesters : q # p => request'[q] = request[q]
    BY <1>3, ShotIsTaken DEF Under
  <2>3. ~overtaken => \A q \in Requesters : request'[q] # Nothing =>
          /\ request'[q].pc = "solving" => request'[q].shot.of = resets
          /\ request'[q].kind = "live" => adjusting
    BY <2>2 DEF SessionIsOne
  <2>4. ~overtaken /\ ~adjusting => \A q \in Requesters :
           request'[q] # Nothing /\ request'[q].pc = "solving" =>
          request'[q].shot.turn = turn
    BY <2>2 DEF SessionIsOne
  <2>5. QED BY <2>1, <2>3, <2>4 DEF SessionIsOne, session
<1>4. ASSUME NEW p \in Requesters, Refused(p) PROVE SessionIsOne'
  <2>1. UNCHANGED <<session, resets, overtaken, turn>> /\ request' = [request EXCEPT ![p] = Nothing]
    BY <1>4 DEF Refused
  <2>2. \A q \in Requesters : request'[q] # Nothing => request'[q] = request[q]
    BY <2>1 DEF PolarTypeOK
  <2>3. QED BY <2>1, <2>2 DEF SessionIsOne, session
<1>5. ASSUME NEW p \in Requesters, Unsolved(p) \/ Solved(p) PROVE SessionIsOne'
  <2>1. /\ UNCHANGED <<frames, fit, adjusting, resets, overtaken, turn>>
        /\ request' = [request EXCEPT ![p] = Nothing]
        /\ request[p] # Nothing /\ request[p].pc = "solving"
    BY <1>5 DEF Unsolved, Solved
  <2>2. /\ shots' = WithShot(Nothing) \/ shots' = WithShot(request[p].shot)
        /\ last_solve' \in {last_solve, request[p].shot}
    BY <1>5 DEF Unsolved, Solved
  <2>3. \A q \in Requesters : request'[q] # Nothing => request'[q] = request[q]
    BY <2>1 DEF PolarTypeOK
  <2>4. request[p].shot \in Frame
    BY <2>1 DEF ShotsAreNumbered
  <2>5. \A i \in DOMAIN shots' : shots'[i] # Nothing =>
          shots'[i] = request[p].shot \/ \E j \in DOMAIN shots : shots'[i] = shots[j]
    BY <2>2, <2>4, LatestFew
  <2>6. /\ ~overtaken => \A i \in DOMAIN shots' : shots'[i] # Nothing => shots'[i].of = resets
        /\ ~overtaken => (last_solve' # Nothing => last_solve'.of = resets)
        /\ ~overtaken /\ ~adjusting => \A i \in DOMAIN shots' :
             shots'[i] # Nothing => shots'[i].turn = turn
    BY <2>1, <2>2, <2>5 DEF SessionIsOne
  <2>7. ~overtaken => (pinned' # Nothing => adjusting /\ pinned'.fit = fit)
    <3>1. CASE pinned' = pinned
      BY <3>1 DEF SessionIsOne
    <3>2. CASE pinned' = [fit |-> fit, shot |-> request[p].shot] /\ request[p].kind = "live"
      BY <2>1, <3>2 DEF SessionIsOne
    <3>3. QED BY <1>5, <3>1, <3>2 DEF Unsolved, Solved
  <2>8. QED BY <2>1, <2>3, <2>6, <2>7 DEF SessionIsOne
<1>6. ASSUME NEW i \in DOMAIN shots, Accept(i) PROVE SessionIsOne'
  <2> DEFINE kept == Append(frames, shots[i])
             n == Len(frames) + 1
  <2>1. /\ shots[i] \in Frame /\ ~adjusting /\ \A k \in DOMAIN frames : frames[k].id # shots[i].id
        /\ frames' = kept
        /\ UNCHANGED <<shots, adjusting, pinned, last_solve, request, turn, resets, overtaken>>
    BY <1>6 DEF Accept, PolarTypeOK
  <2>2. /\ DOMAIN kept = (DOMAIN frames) \cup {n} /\ n \notin DOMAIN frames
        /\ \A j \in DOMAIN frames : kept[j] = frames[j]
        /\ kept[n] = shots[i]
    <3>1. /\ DOMAIN kept = 1..n /\ DOMAIN frames = 1..Len(frames) /\ Len(frames) \in Nat
          /\ \A j \in 1..Len(frames) : kept[j] = frames[j]
          /\ kept[n] = shots[i]
      BY <2>1, OneMore DEF PolarTypeOK
    <3>2. QED BY <3>1
  <2> HIDE DEF kept, n
  <2>3. \A j, k \in DOMAIN kept : j # k => kept[j].id # kept[k].id
    <3>1. \A j, k \in DOMAIN frames : j # k => frames[j].id # frames[k].id
      BY DEF SessionIsOne
    <3>2. QED BY <2>1, <2>2, <3>1
  <2>4. ~overtaken => \A j \in DOMAIN kept : kept[j].of = resets /\ kept[j].turn = turn
    BY <2>1, <2>2, NothingAssumption DEF SessionIsOne
  <2>5. ~overtaken => pinned = Nothing
    BY <2>1 DEF SessionIsOne
  <2>6. QED BY <2>1, <2>3, <2>4, <2>5 DEF SessionIsOne
<1>7. CASE DropLast
  <2>1. /\ frames' = Front(frames) /\ ~adjusting /\ frames \in Seq(Frame) /\ frames # <<>>
        /\ UNCHANGED <<shots, adjusting, pinned, last_solve, request, turn, resets, overtaken>>
    BY <1>7 DEF DropLast, PolarTypeOK
  <2>2. /\ DOMAIN frames' \subseteq DOMAIN frames
        /\ \A j \in DOMAIN frames' : frames'[j] = frames[j]
    <3>1. /\ DOMAIN Front(frames) = 1..(Len(frames) - 1) /\ DOMAIN frames = 1..Len(frames)
          /\ Len(frames) \in Nat \ {0}
          /\ \A j \in 1..(Len(frames) - 1) : Front(frames)[j] = frames[j]
      BY <2>1, OneLess
    <3>2. QED BY <2>1, <3>1
  <2>3. ~overtaken => pinned = Nothing
    BY <2>1 DEF SessionIsOne
  <2>4. QED BY <2>1, <2>2, <2>3 DEF SessionIsOne
<1>8. CASE Repin
  BY <1>8 DEF Repin, SessionIsOne
<1>9. CASE Reset
  <2>1. ~overtaken' => \A p \in Requesters : request'[p] = Nothing
    BY <1>9 DEF Reset, InFlight
  <2>2. QED BY <1>9, <2>1 DEF Reset, SessionIsOne
<1>10. CASE SweepBegins \/ PointSolved \/ SweepFails \/ Refined
          \/ SetSite \/ Turn \/ UNCHANGED polarVars
  BY <1>1, <1>10 DEF SweepBegins, PointSolved, SweepFails, Refined,
       SetSite, Turn, polarVars
<1>11. QED BY <1>2, <1>3, <1>4, <1>5, <1>6, <1>7, <1>8, <1>9, <1>10 DEF PolarNext

-----------------------------------------------------------------------------
(* The fit                                                                 *)

LEMMA FitStep ==
  ASSUME PolarTypeOK, ShotsAreNumbered, FitStands, [PolarNext]_polarVars
  PROVE FitStands'
<1>1. /\ Site = Len(service) /\ Site \in Nat \ {0}
         /\ (fit # Nothing => fit \in Fit /\ fit.site \in Nat)
      /\ frames \in Seq(Frame)
  BY EmptySeq DEF PolarTypeOK, Site, Fit
<1>2. ASSUME UNCHANGED <<frames, fit, knobs>>, Site' \in Nat, Site <= Site'
      PROVE FitStands'
  BY <1>1, <1>2 DEF FitStands
<1>3. ASSUME UNCHANGED <<frames, fit, service>>, (knobs' = Nothing) = (knobs = Nothing) PROVE FitStands'
  BY <1>3 DEF FitStands, Site
<1>4. ASSUME NEW p \in Requesters, \/ \E kind \in ByHand : Ask(p, kind)
                                  \/ Exposes(p) \/ Refused(p) \/ Unsolved(p)
                                  \/ \E place \in Places : Exposed(p, place)
      PROVE FitStands'
  BY <1>3, <1>4 DEF Ask, Exposes, Refused, Unsolved, Exposed,
       session, sweep
<1>5. ASSUME NEW p \in Requesters, Solved(p) PROVE FitStands'
  <2>1. request[p].shot # Nothing
    BY <1>5, NothingAssumption DEF Solved, ShotsAreNumbered
  <2>2. UNCHANGED <<frames, fit, service>>
           /\ (knobs' = knobs \/ (fit # Nothing /\ knobs' = request[p].shot))
    BY <1>5 DEF Solved, sweep
  <2>3. QED BY <1>3, <2>1, <2>2 DEF FitStands
<1>6. ASSUME NEW i \in DOMAIN shots, Accept(i) PROVE FitStands'
  <2> DEFINE kept == Append(frames, shots[i])
  <2>1. /\ shots[i] \in Frame /\ frames' = kept /\ UNCHANGED service
        /\ Len(kept) >= 2 => Fits(kept)
        /\ fit' = IF Len(kept) >= 2 THEN [frames |-> kept, site |-> Site] ELSE fit
        /\ knobs' = IF Len(kept) >= 2 THEN Last(kept) ELSE knobs
    BY <1>6 DEF Accept, PolarTypeOK, sweep
  <2>2. /\ kept \in Seq(Frame) /\ Len(kept) = Len(frames) + 1 /\ Len(frames) \in Nat
           /\ Last(kept) = shots[i]
        /\ \A n \in 2..Len(frames) : SubSeq(kept, 1, n) = SubSeq(frames, 1, n)
        /\ SubSeq(kept, 1, Len(frames) + 1) = kept
    BY <1>1, <2>1, OneMore
  <2> HIDE DEF kept
  <2>3. \A n \in 2..Len(kept) : Fits(SubSeq(kept, 1, n))
    <3> SUFFICES ASSUME NEW n \in 2..Len(kept) PROVE Fits(SubSeq(kept, 1, n))
      OBVIOUS
    <3>1. CASE n = Len(frames) + 1
      <4>1. SubSeq(kept, 1, n) = kept /\ Len(kept) >= 2
        BY <2>2, <3>1
      <4>2. QED BY <2>1, <4>1, Zenon
    <3>2. CASE n \in 2..Len(frames)
      BY <2>2, <3>2 DEF FitStands
    <3>3. QED BY <2>2, <3>1, <3>2
  <2>4. CASE Len(kept) >= 2
    <3>1. /\ fit' = [frames |-> kept, site |-> Site] /\ knobs' = shots[i] /\ Fits(kept)
          /\ Site' = Site
      BY <2>1, <2>2, <2>4 DEF Site
    <3>2. fit' # Nothing /\ knobs' # Nothing /\ fit'.frames = kept /\ fit'.site = Site
      <4>1. [frames |-> kept, site |-> Site] \in Fit
        BY <1>1, <2>2 DEF Fit
      <4>2. QED BY <2>1, <3>1, <4>1, NothingAssumption
    <3>3. QED BY <1>1, <2>1, <2>3, <2>4, <3>1, <3>2 DEF FitStands
  <2>5. CASE ~(Len(kept) >= 2)
    <3>1. Len(frames) < 2 /\ fit = Nothing /\ knobs = Nothing
      BY <2>2, <2>5 DEF FitStands
    <3>2. QED BY <2>1, <2>2, <2>3, <2>5, <3>1 DEF FitStands
  <2>6. QED BY <2>4, <2>5
<1>7. CASE DropLast
  <2> DEFINE less == Front(frames)
             remade == IF Len(less) >= 2 THEN [frames |-> less, site |-> Site] ELSE Nothing
  <2>1. /\ frames # <<>> /\ frames' = less /\ UNCHANGED service
        /\ \/ fit' = remade /\ knobs' = IF remade # Nothing THEN Last(less) ELSE Nothing
           \/ fit # Nothing /\ remade # Nothing /\ fit.site # Site /\ UNCHANGED <<fit, knobs>>
    BY <1>7 DEF DropLast, sweep
  <2>2. /\ less \in Seq(Frame) /\ Len(less) = Len(frames) - 1 /\ Len(frames) \in Nat \ {0}
        /\ \A n \in 2..(Len(frames) - 1) : SubSeq(less, 1, n) = SubSeq(frames, 1, n)
        /\ less = SubSeq(frames, 1, Len(frames) - 1)
    BY <1>1, <2>1, OneLess
  <2> HIDE DEF less
  <2>3. /\ \A n \in 2..Len(less) : Fits(SubSeq(less, 1, n))
        /\ Len(less) >= 2 => Fits(less)
    <3>1. ASSUME NEW n \in 2..Len(less) PROVE Fits(SubSeq(less, 1, n))
      <4>1. n \in 2..Len(frames) /\ SubSeq(less, 1, n) = SubSeq(frames, 1, n)
        BY <2>2
      <4>2. QED BY <4>1 DEF FitStands
    <3>2. ASSUME Len(less) >= 2 PROVE Fits(less)
      <4>1. Len(frames) - 1 \in 2..Len(frames)
        BY <2>2, <3>2
      <4>2. Fits(SubSeq(frames, 1, Len(frames) - 1))
        BY <4>1 DEF FitStands
      <4>3. QED BY <2>2, <4>2, Zenon
    <3>3. QED BY <3>1, <3>2
  <2>4. (remade # Nothing) = (Len(less) >= 2)
    <3>1. Len(less) >= 2 => [frames |-> less, site |-> Site] \in Fit
      BY <1>1, <2>2 DEF Fit
    <3>2. QED BY <3>1, NothingAssumption
  <2>5. Len(less) >= 2 => Last(less) # Nothing
    <3>1. Len(less) >= 2 => Last(less) \in Frame
      BY <2>2 DEF Last
    <3>2. QED BY <3>1, NothingAssumption
  <2>6. CASE fit' = remade /\ knobs' = IF remade # Nothing THEN Last(less) ELSE Nothing
    <3>1. CASE Len(less) >= 2
      <4>1. /\ fit' # Nothing /\ fit'.frames = less /\ fit'.site = Site /\ knobs' # Nothing
               /\ Site' = Site
        BY <2>1, <2>4, <2>5, <2>6, <3>1 DEF Site
      <4>2. QED BY <1>1, <2>1, <2>2, <2>3, <3>1, <4>1 DEF FitStands
    <3>2. CASE ~(Len(less) >= 2)
      <4>1. fit' = Nothing /\ knobs' = Nothing
        BY <2>4, <2>6, <3>2
      <4>2. QED BY <2>1, <2>2, <2>3, <3>2, <4>1 DEF FitStands
    <3>3. QED BY <3>1, <3>2
  <2>7. CASE fit # Nothing /\ remade # Nothing /\ fit.site # Site /\ UNCHANGED <<fit, knobs>>
    <3>1. Len(less) >= 2 /\ Site' = Site
      BY <2>1, <2>4, <2>7 DEF Site
    <3>2. QED BY <2>1, <2>2, <2>3, <2>7, <3>1 DEF FitStands
  <2>8. QED BY <2>1, <2>6, <2>7
<1>8. CASE Repin
  BY <1>3, <1>8 DEF Repin, sweep
<1>9. CASE Reset
  BY <1>9, EmptySeq DEF Reset, FitStands
<1>10. CASE SweepBegins \/ PointSolved \/ SweepFails \/ Refined \/ SetSite
  <2>1. service \in Seq(Service) /\ UNCHANGED <<frames, fit, knobs>>
    BY <1>10 DEF SweepBegins, PointSolved, SweepFails, Refined,
         SetSite, session, PolarTypeOK
  <2>2. Site' \in Nat /\ Site <= Site'
    <3>1. CASE SetSite
      <4>1. service' = Append(service, NewService) /\ NewService \in Service
        BY <3>1 DEF SetSite, NewService, Service
      <4>2. QED BY <1>1, <2>1, <4>1, AppendProperties DEF Site
    <3>2. CASE UNCHANGED service
      BY <1>1, <3>2 DEF Site
    <3>3. ASSUME NEW s \in DOMAIN service, NEW v, service' = [service EXCEPT ![s] = v]
             PROVE Len(service') = Len(service)
      BY <2>1, <3>3
    <3>4. Site \in DOMAIN service /\ (task # Nothing => task \in DOMAIN service)
      BY <1>1, <2>1 DEF PolarTypeOK
    <3>5. CASE \E s \in DOMAIN service : \E v : service' = [service EXCEPT ![s] = v]
      BY <1>1, <3>3, <3>5 DEF Site
    <3>6. CASE SweepBegins \/ PointSolved \/ Refined
      BY <3>4, <3>5, <3>6 DEF SweepBegins, PointSolved, Refined
    <3>7. CASE SweepFails
      BY <3>2, <3>4, <3>5, <3>7 DEF SweepFails
    <3>8. QED BY <1>10, <3>1, <3>6, <3>7
  <2>3. QED BY <1>2, <2>1, <2>2
<1>11. CASE Turn \/ UNCHANGED polarVars
  BY <1>3, <1>11 DEF Turn, polarVars, session, sweep
<1>12. QED BY <1>4, <1>5, <1>6, <1>7, <1>8, <1>9, <1>10, <1>11 DEF PolarNext

-----------------------------------------------------------------------------
(* The sweep                                                               *)

\* A service whose axis is of its points, all of them of one sweep.
Computed(v) ==
  /\ v.axis # Nothing =>
       /\ v.axis = v.points /\ Len(v.points) = Points
       /\ \A i \in 1..Points : v.points[i] = v.points[1]
  /\ v.error => v.axis # Nothing

\* One more point of a sweep.
LEMMA OnePoint ==
  ASSUME NEW s \in Seq(Nat), NEW n \in Nat
  PROVE /\ Append(s, n) \in Seq(Nat) /\ Len(Append(s, n)) = Len(s) + 1 /\ Len(s) \in Nat
        /\ DOMAIN Append(s, n) = 1..(Len(s) + 1)
        /\ (\A i \in DOMAIN s : s[i] = n) => \A i \in DOMAIN Append(s, n) : Append(s, n)[i] = n
<1>1. /\ Append(s, n) \in Seq(Nat) /\ Len(Append(s, n)) = Len(s) + 1 /\ Len(s) \in Nat
      /\ \A i \in 1..Len(s) : Append(s, n)[i] = s[i]
      /\ Append(s, n)[Len(s) + 1] = n
      /\ DOMAIN s = 1..Len(s)
  BY AppendProperties
<1>2. DOMAIN Append(s, n) = 1..(Len(s) + 1)
  BY <1>1
<1>3. ASSUME \A i \in DOMAIN s : s[i] = n, NEW i \in 1..(Len(s) + 1) PROVE Append(s, n)[i] = n
  BY <1>1, <1>3
<1>4. QED BY <1>1, <1>2, <1>3

LEMMA SweepStep ==
  ASSUME PolarTypeOK, SweepIsOne, [PolarNext]_polarVars
  PROVE SweepIsOne'
<1>1. /\ service \in Seq(Service) /\ DOMAIN service = 1..Len(service)
         /\ Len(service) \in Nat \ {0}
      /\ Site \in DOMAIN service /\ sweeps \in Nat
      /\ \A s \in DOMAIN service : service[s] \in Service /\ Computed(service[s])
      /\ task # Nothing => task \in DOMAIN service
      /\ Points \in Nat /\ Points >= 3
      /\ Nothing \notin Seq(Nat) /\ Nothing \notin DOMAIN service
  <2>1. service \in Seq(Service) /\ service # <<>>
           /\ (task # Nothing => task \in DOMAIN service) /\ sweeps \in Nat
    BY DEF PolarTypeOK
  <2>2. DOMAIN service = 1..Len(service) /\ Len(service) \in Nat \ {0}
           /\ \A s \in DOMAIN service : service[s] \in Service
    BY <2>1, EmptySeq
  <2>3. Nothing \notin Seq(Nat) /\ Nothing \notin Nat
    BY NothingAssumption
  <2>4. \A s \in DOMAIN service : Computed(service[s])
    BY DEF SweepIsOne, Computed
  <2>5. QED BY <2>1, <2>2, <2>3, <2>4, PointsAssumption DEF Site
<1>2. ASSUME NEW s \in DOMAIN service, NEW v, service' = [service EXCEPT ![s] = v], Computed(v)
      PROVE /\ DOMAIN service' = DOMAIN service /\ service'[s] = v
            /\ \A r \in DOMAIN service' : Computed(service'[r])
  BY <1>1, <1>2
<1>3. ASSUME \A s \in DOMAIN service' : Computed(service'[s]),
             task' # Nothing =>
               /\ service'[task'].axis = Nothing /\ Len(service'[task'].points) < Points
               /\ \A i \in DOMAIN service'[task'].points : service'[task'].points[i] = sweeps'
      PROVE SweepIsOne'
  BY <1>3 DEF SweepIsOne, Computed
<1>4. CASE UNCHANGED sweep
  BY <1>4 DEF sweep, SweepIsOne
<1>5. CASE SweepBegins
  <2>1. Computed(NewService)
    BY DEF NewService, Computed
  <2>2. service' = [service EXCEPT ![Site] = NewService] /\ task' = Site
    BY <1>5 DEF SweepBegins
  <2>3. /\ service'[task'] = NewService /\ \A s \in DOMAIN service' : Computed(service'[s])
    BY <1>1, <1>2, <2>1, <2>2
  <2>4. /\ NewService.axis = Nothing /\ Len(NewService.points) < Points
           /\ DOMAIN NewService.points = {}
    BY <1>1 DEF NewService
  <2>5. QED BY <1>3, <2>3, <2>4
<1>6. CASE PointSolved
  <2> DEFINE kept == Append(service[task].points, sweeps)
             last == Len(kept) = Points
             v == [points |-> kept, axis |-> IF last THEN kept ELSE service[task].axis,
                   error |-> service[task].error \/ last]
  <2>1. task \in DOMAIN service /\ service' = [service EXCEPT ![task] = v] /\ sweeps' = sweeps
        /\ task' = (IF last THEN Nothing ELSE task)
    BY <1>1, <1>6 DEF PointSolved
  <2>2. /\ service[task].points \in Seq(Nat) /\ service[task].axis = Nothing
           /\ service[task].error \in BOOLEAN
        /\ Len(service[task].points) < Points
        /\ \A i \in DOMAIN service[task].points : service[task].points[i] = sweeps
        /\ Computed(service[task])
    BY <1>1, <1>6, <2>1 DEF PointSolved, SweepIsOne, Service
  <2>3. /\ kept \in Seq(Nat) /\ Len(kept) = Len(service[task].points) + 1
           /\ Len(service[task].points) \in Nat
        /\ DOMAIN kept = 1..Len(kept) /\ \A i \in DOMAIN kept : kept[i] = sweeps
    BY <1>1, <2>2, OnePoint
  <2>4. v.points = kept /\ v.axis = (IF last THEN kept ELSE Nothing)
           /\ v.error = (service[task].error \/ last)
    BY <2>2
  <2> HIDE DEF kept, v
  <2>5. Computed(v)
    <3>1. CASE last
      <4>1. \A i \in 1..Points : kept[i] = sweeps
        BY <2>3, <3>1
      <4>2. 1 \in 1..Points
        BY <1>1
      <4>3. QED BY <1>1, <2>3, <2>4, <3>1, <4>1, <4>2 DEF Computed
    <3>2. CASE ~last
      BY <2>2, <2>4, <3>2 DEF Computed
    <3>3. QED BY <3>1, <3>2
  <2>6. service'[task] = v /\ \A s \in DOMAIN service' : Computed(service'[s])
    BY <1>2, <2>1, <2>5
  <2>7. task' # Nothing => task' = task /\ v.axis = Nothing /\ Len(kept) < Points
    BY <1>1, <2>1, <2>2, <2>3, <2>4
  <2>8. QED BY <1>3, <2>1, <2>3, <2>4, <2>6, <2>7
<1>7. CASE SweepFails
  <2>1. task' = Nothing /\ task \in DOMAIN service
    BY <1>1, <1>7 DEF SweepFails
  <2>2. CASE UNCHANGED service
    BY <1>1, <1>3, <2>1, <2>2
  <2>3. CASE service' = [service EXCEPT ![task].points = Append(@, sweeps)]
    <3> DEFINE v == [service[task] EXCEPT !.points = Append(service[task].points, sweeps)]
    <3>1. /\ service[task] \in Service /\ service[task].points \in Seq(Nat)
             /\ service[task].axis = Nothing
          /\ Computed(service[task])
      BY <1>1, <1>7, <2>1 DEF SweepFails, SweepIsOne, Service
    <3>2. Append(service[task].points, sweeps) \in Seq(Nat)
      BY <1>1, <3>1, OnePoint
    <3>3. v.axis = Nothing /\ v.error = service[task].error
      BY <3>1, <3>2, ServiceParts
    <3>4. Computed(v)
      BY <3>1, <3>3 DEF Computed
    <3>5. service' = [service EXCEPT ![task] = v]
      BY <2>3
    <3> HIDE DEF v
    <3>6. \A s \in DOMAIN service' : Computed(service'[s])
      BY <1>2, <2>1, <3>4, <3>5
    <3>7. QED BY <1>3, <2>1, <3>6
  <2>4. QED BY <1>7, <2>2, <2>3 DEF SweepFails
<1>8. CASE Refined
  <2> DEFINE v == [service[Site] EXCEPT !.error = TRUE]
  <2>1. /\ service' = [service EXCEPT ![Site] = v] /\ service[Site].axis # Nothing
           /\ UNCHANGED <<task, sweeps>>
    BY <1>8 DEF Refined
  <2>2. v.points = service[Site].points /\ v.axis = service[Site].axis
           /\ service[Site] \in Service
    BY <1>1, ServiceParts, EmptySeq
  <2> HIDE DEF v
  <2>3. Computed(v)
    BY <1>1, <2>1, <2>2 DEF Computed
  <2>4. /\ service'[Site] = v /\ \A s \in DOMAIN service' : Computed(service'[s])
    BY <1>1, <1>2, <2>1, <2>3
  <2>5. task # Nothing => task # Site /\ service'[task] = service[task]
    BY <1>1, <2>1 DEF SweepIsOne
  <2>6. QED BY <1>3, <2>1, <2>4, <2>5 DEF SweepIsOne
<1>9. CASE SetSite
  <2>1. service' = Append(service, NewService) /\ NewService \in Service
           /\ UNCHANGED <<task, sweeps>>
    BY <1>9 DEF SetSite, NewService, Service
  <2>2. /\ DOMAIN service' = 1..(Len(service) + 1)
        /\ \A s \in DOMAIN service : service'[s] = service[s]
        /\ service'[Len(service) + 1] = NewService
    <3>1. /\ service' \in Seq(Service) /\ Len(service') = Len(service) + 1
          /\ \A s \in 1..Len(service) : service'[s] = service[s]
          /\ service'[Len(service) + 1] = NewService
      BY <1>1, <2>1, AppendProperties
    <3>2. QED BY <1>1, <3>1
  <2>3. Computed(NewService)
    BY DEF NewService, Computed
  <2>4. \A s \in DOMAIN service' : Computed(service'[s])
    BY <1>1, <2>2, <2>3
  <2>5. task # Nothing => service'[task] = service[task]
    BY <1>1, <2>2
  <2>6. QED BY <1>3, <2>1, <2>4, <2>5 DEF SweepIsOne
<1>10. CASE (\E p \in Requesters :
               \/ \E kind \in ByHand : Ask(p, kind)
               \/ Exposes(p) \/ Refused(p) \/ Unsolved(p) \/ Solved(p)
               \/ \E place \in Places : Exposed(p, place))
            \/ (\E i \in DOMAIN shots : Accept(i)) \/ DropLast \/ Repin
               \/ Reset \/ Turn \/ UNCHANGED polarVars
  BY <1>4, <1>10 DEF Ask, Exposes, Refused, Unsolved, Solved,
       Exposed, Accept, DropLast, Repin, Reset, Turn,
       polarVars
<1>11. QED BY <1>5, <1>6, <1>7, <1>8, <1>9, <1>10 DEF PolarNext

-----------------------------------------------------------------------------
(* The theorems                                                            *)

LEMMA PolarStarts == PolarInit => PolarInv
<1> SUFFICES ASSUME PolarInit PROVE PolarInv
  OBVIOUS
<1>1. service \in Seq(Service) /\ DOMAIN service = {1} /\ service[1] = NewService
         /\ Len(service) = 1
  BY DEF PolarInit, NewService, Service
<1>2. PolarTypeOK
  <2>1. frames \in Seq(Frame) /\ shots \in Seq(Frame \cup {Nothing}) /\ Len(shots) <= KeptShots
    BY EmptySeq, KeptShotsAssumption DEF PolarInit
  <2>2. service # <<>>
    BY <1>1
  <2>3. request \in [Requesters -> Shooting \cup {Nothing}]
    BY DEF PolarInit
  <2>4. turn \in 0..MaxTurns /\ resets \in 0..MaxResets
    BY PolarBoundsAssumption DEF PolarInit
  <2>5. QED BY <1>1, <2>1, <2>2, <2>3, <2>4 DEF PolarInit, PolarTypeOK
<1>3. LockIsHeld /\ ShotsAreNumbered /\ SessionIsOne /\ FitStands
  BY NothingAssumption DEF PolarInit, LockIsHeld, Under, ShotsAreNumbered, SessionIsOne, FitStands
<1>4. SweepIsOne
  BY <1>1 DEF PolarInit, NewService, SweepIsOne
<1>5. QED BY <1>2, <1>3, <1>4 DEF PolarInv

LEMMA PolarStep == PolarInv /\ [PolarNext]_polarVars => PolarInv'
BY TypeStep, LockStep, NumbersStep, SessionStep, FitStep, SweepStep DEF PolarInv

\* What the requests, the shots, the fit and the sweep know of each other always holds.
THEOREM PolarInvariant == PolarSpec => []PolarInv
<1>1. PolarInit => PolarInv
  BY PolarStarts
<1>2. PolarInv /\ [PolarNext]_polarVars => PolarInv'
  BY PolarStep
<1>3. QED BY <1>1, <1>2, PTL DEF PolarSpec

\* Frames, shots, requests and sweeps have their types.
THEOREM PolarTypeSafety == PolarSpec => []PolarTypeOK
<1>1. PolarInv => PolarTypeOK
  BY DEF PolarInv
<1>2. QED BY <1>1, PolarInvariant, PTL

\* What is kept belongs to one measurement.
THEOREM MeasurementIsOne == PolarSpec => []OneMeasurement
<1>1. PolarInv => OneMeasurement
  BY DEF PolarInv, SessionIsOne, OneMeasurement
<1>2. QED BY <1>1, PolarInvariant, PTL

\* A fit is of the frames kept, and an axis of the points of one sweep.
THEOREM FitsAreOfTheirFrames == PolarSpec => []FitIsOfItsFrames
<1>1. PolarInv => FitIsOfItsFrames
  BY DEF PolarInv, FitStands, SweepIsOne, FitIsOfItsFrames
<1>2. QED BY <1>1, PolarInvariant, PTL

\* The knobs are read off ever newer frames.
THEOREM KnobsFollow == PolarSpec => KnobsGoForward
<1>1. ASSUME PolarInv, [PolarNext]_polarVars, fit # Nothing, fit' = fit, knobs # Nothing, knobs' # Nothing
      PROVE knobs'.id >= knobs.id
  <2>1. knobs.id <= taken /\ knobs.id \in Nat /\ taken \in Nat
    BY <1>1 DEF PolarInv, ShotsAreNumbered, PolarTypeOK, Frame
  <2>2. CASE knobs' = knobs
    BY <2>1, <2>2
  <2>3. ASSUME NEW p \in Requesters, Solved(p) PROVE knobs'.id >= knobs.id
    <3>1. request[p].shot.id = taken
      BY <1>1, <2>3 DEF PolarInv, ShotsAreNumbered, Solved
    <3>2. knobs' = knobs \/ knobs' = request[p].shot
      BY <2>3 DEF Solved
    <3>3. QED BY <2>1, <2>2, <3>1, <3>2
  <2>4. fit.site = Site => fit.frames = frames
    BY <1>1 DEF PolarInv, FitStands
  <2>5. ASSUME NEW fs \in Seq(Frame), Len(fs) # Len(frames)
           PROVE fit # [frames |-> fs, site |-> Site]
    BY <2>4, <2>5
  <2>6. frames \in Seq(Frame)
    BY <1>1 DEF PolarInv, PolarTypeOK
  <2>7. ASSUME NEW i \in DOMAIN shots, Accept(i) PROVE knobs' = knobs
    <3>1. shots[i] \in Frame
      BY <1>1, <2>7 DEF PolarInv, PolarTypeOK, Accept
    <3>2. Append(frames, shots[i]) \in Seq(Frame) /\ Len(Append(frames, shots[i])) # Len(frames)
      BY <2>6, <3>1, OneMore
    <3>3. fit # [frames |-> Append(frames, shots[i]), site |-> Site]
      BY <2>5, <3>2
    <3>4. QED BY <1>1, <2>7, <3>3 DEF Accept
  <2>8. CASE DropLast
    <3>1. Front(frames) \in Seq(Frame) /\ Len(Front(frames)) # Len(frames)
             /\ frames' = Front(frames)
      BY <2>6, <2>8, OneLess DEF DropLast
    <3>2. fit # [frames |-> frames', site |-> Site]
      BY <2>5, <3>1
    <3>3. QED BY <1>1, <2>2, <2>8, <3>2 DEF DropLast
  <2>9. ~Reset
    BY <1>1 DEF Reset
  <2>10. CASE UNCHANGED knobs
    BY <2>2, <2>10
  <2>11. ASSUME NEW p \in Requesters,
                \/ \E kind \in ByHand : Ask(p, kind)
                \/ Exposes(p) \/ Refused(p) \/ Unsolved(p)
                \/ \E place \in Places : Exposed(p, place)
         PROVE UNCHANGED knobs
    BY <2>11 DEF Ask, Exposes, Refused, Unsolved, Exposed,
         session
  <2>12. CASE Repin \/ SweepBegins \/ PointSolved \/ SweepFails
            \/ Refined \/ SetSite \/ Turn \/ UNCHANGED polarVars
    BY <2>10, <2>12 DEF Repin, SweepBegins, PointSolved, SweepFails,
         Refined, SetSite, Turn, polarVars, session
  <2>13. QED BY <1>1, <2>2, <2>3, <2>7, <2>8, <2>9, <2>10, <2>11, <2>12 DEF PolarNext
<1>2. PolarInv /\ [PolarNext]_polarVars =>
        [fit # Nothing /\ fit' = fit /\ knobs # Nothing /\ knobs' # Nothing => knobs'.id >= knobs.id]_polarVars
  <2> SUFFICES ASSUME PolarInv, [PolarNext]_polarVars
               PROVE fit # Nothing /\ fit' = fit /\ knobs # Nothing /\ knobs' # Nothing => knobs'.id >= knobs.id
    OBVIOUS
  <2>1. QED BY <1>1
<1>3. QED BY <1>2, PolarInvariant, PTL DEF PolarSpec, KnobsGoForward

-----------------------------------------------------------------------------
(* The shots of the polar alignment implement ExclusiveUse                 *)

\* Whose shot it is, from the start of the exposure to the end of the solve.
Shooter ==
  IF \E p \in Requesters : Under(p) THEN CHOOSE p \in Requesters : Under(p) ELSE Nothing

OneShot == INSTANCE ExclusiveUse WITH Users <- Requesters, Nobody <- Nothing, user <- Shooter
ShotsAreExclusive == OneShot!Spec

LEMMA ShooterHasTheLock ==
  ASSUME PolarTypeOK, LockIsHeld
  PROVE  Shooter = lock
<1>1. CASE \E p \in Requesters : Under(p)
  BY <1>1 DEF Shooter, LockIsHeld
<1>2. CASE \A p \in Requesters : ~Under(p)
  BY <1>2 DEF Shooter, LockIsHeld, PolarTypeOK
<1>3. QED BY <1>1, <1>2

\* The same after a step.
LEMMA ShooterHasTheLockNext ==
  ASSUME PolarTypeOK', LockIsHeld'
  PROVE  Shooter' = lock'
<1>1. CASE \E p \in Requesters : Under(p)'
  BY <1>1 DEF Shooter, LockIsHeld
<1>2. CASE \A p \in Requesters : ~Under(p)'
  BY <1>2 DEF Shooter, LockIsHeld, PolarTypeOK
<1>3. QED BY <1>1, <1>2

\* _shoot, and live after it: a second dashboard that asks for a shot waits until the
\* first one's is solved or has failed; whatever else is clicked meanwhile, no frame is
\* ever exposed or solved beside another.
THEOREM OneShotAtATime == PolarSpec => ShotsAreExclusive
<1>1. PolarInit => OneShot!Init
  BY DEF PolarInit, OneShot!Init, Shooter, Under
<1>2. ASSUME PolarInv, [PolarNext]_polarVars PROVE [OneShot!Next]_Shooter
  <2>1. Shooter = lock /\ Shooter' = lock' /\ Nothing \notin Requesters
    BY <1>2, PolarStep, ShooterHasTheLock, ShooterHasTheLockNext, NothingAssumption DEF PolarInv
  <2>2. ASSUME NEW p \in Requesters, Exposes(p) PROVE OneShot!Next
    BY <2>1, <2>2 DEF Exposes, OneShot!Next, OneShot!Take
  <2>3. ASSUME NEW p \in Requesters, Refused(p) \/ Unsolved(p) \/ Solved(p)
        PROVE  OneShot!Next \/ Shooter' = Shooter
    <3>1. lock' = IF lock = p THEN Nothing ELSE lock
      BY <2>3 DEF Refused, Unsolved, Solved
    <3>2. QED BY <2>1, <3>1 DEF OneShot!Next, OneShot!Leave
  <2>4. ASSUME NEW p \in Requesters,
               (\E kind \in ByHand : Ask(p, kind)) \/ (\E place \in Places : Exposed(p, place))
        PROVE  Shooter' = Shooter
    BY <2>1, <2>4 DEF Ask, Exposed
  <2>5. CASE \/ (\E i \in DOMAIN shots : Accept(i)) \/ DropLast \/ Repin \/ Reset
             \/ SweepBegins \/ PointSolved \/ SweepFails \/ Refined
             \/ SetSite \/ Turn \/ UNCHANGED polarVars
    BY <2>1, <2>5 DEF Accept, DropLast, Repin, Reset, SweepBegins, PointSolved, SweepFails,
         Refined, SetSite, Turn, polarVars
  <2>6. QED BY <1>2, <2>2, <2>3, <2>4, <2>5 DEF PolarNext
<1>3. QED BY <1>1, <1>2, PolarInvariant, PTL DEF PolarSpec, ShotsAreExclusive, OneShot!Spec
=============================================================================
