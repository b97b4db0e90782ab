-------------------------- MODULE CameraSharingProofs --------------------------
(***************************************************************************)
(* Proofs about CameraSharing, for any number of parties and of threads    *)
(* left behind, whatever fails and whoever is interrupted.                 *)
(***************************************************************************)
EXTENDS CameraSharing, SequenceTheorems, TLAPS

-----------------------------------------------------------------------------
(* The inductive invariant                                                 *)

\* Those who want the preview's lock, and where they are while they have the
\* camera's.
Lockers == Users \cup {View}
OnCamera == {"prepare", "arm", "exposing", "disarm", "roll", "video", "cut"}

\* The view films and everybody else exposes.
PhasesAgree ==
  /\ pc[View] \in {"idle", "queued", "prepare", "roll", "video", "cut"}
  /\ \A p \in Exposers : pc[p] \notin {"roll", "video", "cut"}
  /\ \A p \in Askers : pc[p] \notin {"queued", "holding"}
  /\ \A p \in cancelled : p \in Lockers /\ pc[p] # "idle"

\* Who is somewhere is in line for the preview's lock, and past the line only
\* with the lock; the camera is whose who is on it.
LocksAgree ==
  /\ \A p \in Lockers : pc[p] # "idle" <=> \E i \in DOMAIN lock : lock[i] = p
  /\ \A p \in Lockers : pc[p] \notin {"idle", "queued"} => Holds(p)
  /\ \A p \in Parties : cam = p <=> pc[p] \in OnCamera

\* Nothing overtaken, the threads left behind are the one that starts an exposure
\* and the one that stops it, or the one that stops the video, and then the
\* set-ups of those who came after.
ThreadsInOrder ==
  \A i \in DOMAIN threads :
    /\ threads[i].call \in {"prepare", "arm", "disarm", "cut"}
    /\ threads[i].call \in {"arm", "cut"} => i = 1
    /\ threads[i].call = "disarm" => i = 1 \/ (i = 2 /\ threads[1].call = "arm")

\* Where the sensor is to be stopped by somebody still, or by a thread.
SensorIsOwned ==
  /\ sensor = "exposing" =>
       \/ \E p \in Exposers : pc[p] \in {"exposing", "disarm"}
       \/ threads # <<>> /\ threads[1].call = "disarm"
  /\ sensor = "video" =>
       \/ pc[View] \in {"video", "cut"}
       \/ threads # <<>> /\ threads[1].call = "cut"
  /\ threads # <<>> /\ threads[1].call = "arm" =>
       /\ sensor = "idle"
       /\ \/ \E p \in Exposers : pc[p] = "disarm"
          \/ Len(threads) > 1 /\ threads[2].call = "disarm"

\* Past its set-up a party has the sensor to itself: nothing is left behind it but
\* its own start, and what it asked for is what the sensor has.
SetUpIsKept ==
  /\ setup = applied
  /\ \A p \in Parties : pc[p] \in OnCamera \ {"prepare", "disarm"} => threads = <<>>
  /\ \A p \in Parties : pc[p] = "disarm" =>
       threads = <<>> \/ (Len(threads) = 1 /\ threads[1].call = "arm")
  /\ \A p \in Exposers : pc[p] = "arm" => applied = p

Ordered == ThreadsInOrder /\ SensorIsOwned /\ SetUpIsKept
InOrder == ~disturbed => Ordered

SharingInv == TypeOK /\ PhasesAgree /\ LocksAgree /\ InOrder

-----------------------------------------------------------------------------
(* Lines                                                                   *)

\* What is left of a sequence without one of its places.
LEMMA Removed ==
  ASSUME NEW S, NEW q \in Seq(S), NEW i \in DOMAIN q
  PROVE  /\ RemoveAt(q, i) \in Seq(S) /\ Len(RemoveAt(q, i)) = Len(q) - 1
         /\ \A j \in 1..(Len(q) - 1) : RemoveAt(q, i)[j] = IF j < i THEN q[j] ELSE q[j + 1]
<1> DEFINE a == SubSeq(q, 1, i - 1)
           b == SubSeq(q, i + 1, Len(q))
<1>1. Len(q) \in Nat /\ i \in 1..Len(q) /\ \A j \in 1..Len(q) : q[j] \in S
  BY LenProperties
<1>2. a \in Seq(S) /\ Len(a) = i - 1 /\ \A j \in 1..(i - 1) : a[j] = q[j]
  BY <1>1, SubSeqProperties
<1>3. b \in Seq(S) /\ Len(b) = Len(q) - i /\ \A j \in 1..(Len(q) - i) : b[j] = q[i + j]
  BY <1>1, SubSeqProperties
<1> HIDE DEF a, b
<1>4. a \o b \in Seq(S) /\ Len(a \o b) = Len(q) - 1
      /\ \A j \in 1..(Len(q) - 1) :
           (a \o b)[j] = IF j <= Len(a) THEN a[j] ELSE b[j - Len(a)]
  <2>1. /\ a \o b \in Seq(S) /\ Len(a \o b) = Len(a) + Len(b)
        /\ \A j \in 1..(Len(a) + Len(b)) :
             (a \o b)[j] = IF j <= Len(a) THEN a[j] ELSE b[j - Len(a)]
    BY <1>2, <1>3, ConcatProperties
  <2>2. Len(a) + Len(b) = Len(q) - 1
    BY <1>1, <1>2, <1>3
  <2> QED
    BY <2>1, <2>2
<1>5. ASSUME NEW j \in 1..(Len(q) - 1)
      PROVE  (a \o b)[j] = IF j < i THEN q[j] ELSE q[j + 1]
  <2>1. CASE j < i
    BY <1>1, <1>2, <1>4, <2>1
  <2>2. CASE ~(j < i)
    <3>1. j - (i - 1) \in 1..(Len(q) - i) /\ i + (j - (i - 1)) = j + 1
      BY <1>1, <2>2
    <3>2. b[j - (i - 1)] = q[j + 1]
      BY <1>3, <3>1
    <3>3. ~(j <= Len(a)) /\ j - Len(a) = j - (i - 1)
      BY <1>1, <1>2, <2>2
    <3>4. (a \o b)[j] = b[j - Len(a)]
      BY <1>4, <3>3
    <3> QED
      BY <2>2, <3>2, <3>3, <3>4
  <2> QED
    BY <2>1, <2>2
<1> QED
  BY <1>4, <1>5 DEF RemoveAt, a, b

\* Nobody is twice in what is left, and everybody else is there still, in the same
\* order: who was first goes on being first.
LEMMA RemovedFromLine ==
  ASSUME NEW S, NEW q \in Seq(S), IsInjective(q), NEW i \in DOMAIN q
  PROVE  LET r == RemoveAt(q, i)
         IN /\ IsInjective(r)
            /\ \A x : (\E j \in DOMAIN r : r[j] = x) <=> (x # q[i] /\ \E j \in DOMAIN q : q[j] = x)
            /\ \A x : x # q[i] /\ q # <<>> /\ Head(q) = x => r # <<>> /\ Head(r) = x
<1> DEFINE r == RemoveAt(q, i)
           n == Len(q)
<1>1. n \in Nat /\ i \in 1..n /\ DOMAIN q = 1..n
  BY LenProperties
<1>2. /\ r \in Seq(S) /\ Len(r) = n - 1 /\ DOMAIN r = 1..(n - 1)
      /\ \A j \in 1..(n - 1) : r[j] = IF j < i THEN q[j] ELSE q[j + 1]
  BY <1>1, Removed, LenProperties
<1>3. \A a, b \in 1..n : q[a] = q[b] => a = b
  BY <1>1 DEF IsInjective
<1> HIDE DEF r, n
<1>4. IsInjective(r)
  <2>1. SUFFICES ASSUME NEW a \in 1..(n - 1), NEW b \in 1..(n - 1), r[a] = r[b]
                 PROVE  a = b
    BY <1>2 DEF IsInjective
  <2> DEFINE c == IF a < i THEN a ELSE a + 1
             d == IF b < i THEN b ELSE b + 1
  <2>2. c \in 1..n /\ d \in 1..n /\ r[a] = q[c] /\ r[b] = q[d]
    BY <1>1, <1>2
  <2>3. c = d
    BY <1>3, <2>1, <2>2
  <2> QED
    BY <1>1, <2>3
<1>5. ASSUME NEW x, NEW j \in 1..(n - 1), r[j] = x
      PROVE  x # q[i] /\ \E k \in 1..n : q[k] = x
  <2> DEFINE c == IF j < i THEN j ELSE j + 1
  <2>1. c \in 1..n /\ r[j] = q[c] /\ c # i
    BY <1>1, <1>2
  <2> QED
    BY <1>1, <1>3, <1>5, <2>1
<1>6. ASSUME NEW x, NEW k \in 1..n, q[k] = x, x # q[i]
      PROVE  \E j \in 1..(n - 1) : r[j] = x
  <2> DEFINE c == IF k < i THEN k ELSE k - 1
  <2>1. k # i
    BY <1>6
  <2>2. c \in 1..(n - 1) /\ (c < i => k < i /\ c = k) /\ (~(c < i) => c + 1 = k)
    BY <1>1, <2>1
  <2>3. r[c] = q[k]
    BY <1>2, <2>2
  <2> QED
    BY <1>6, <2>2, <2>3
<1>7. ASSUME NEW x, x # q[i], q # <<>>, Head(q) = x
      PROVE  r # <<>> /\ Head(r) = x
  <2>1. q[1] = x /\ i # 1 /\ n # 0
    BY <1>1, <1>7 DEF n
  <2>2. 1 \in 1..(n - 1) /\ 1 < i
    BY <1>1, <2>1
  <2>3. r[1] = x
    BY <1>2, <2>1, <2>2
  <2>4. r # <<>>
    BY <1>2, <2>2
  <2> QED
    BY <1>2, <2>3, <2>4
<1> QED
  BY <1>1, <1>2, <1>4, <1>5, <1>6, <1>7 DEF r

\* Who joins a line is behind everybody in it.
LEMMA AppendedToLine ==
  ASSUME NEW S, NEW q \in Seq(S), IsInjective(q), NEW x \in S,
         ~\E j \in DOMAIN q : q[j] = x
  PROVE  LET r == Append(q, x)
         IN /\ r \in Seq(S) /\ IsInjective(r)
            /\ \A y : (\E j \in DOMAIN r : r[j] = y) <=> (y = x \/ \E j \in DOMAIN q : q[j] = y)
            /\ \A y : q # <<>> /\ Head(q) = y => r # <<>> /\ Head(r) = y
<1> DEFINE r == Append(q, x)
           n == Len(q)
<1>1. n \in Nat /\ DOMAIN q = 1..n
  BY LenProperties
<1>2. /\ r \in Seq(S) /\ Len(r) = n + 1 /\ DOMAIN r = 1..(n + 1)
      /\ r[n + 1] = x /\ \A j \in 1..n : r[j] = q[j]
  BY <1>1
<1> HIDE DEF r
<1>3. IsInjective(r)
  BY <1>1, <1>2 DEF IsInjective
<1>4. \A y : (\E j \in 1..(n + 1) : r[j] = y) <=> (y = x \/ \E j \in 1..n : q[j] = y)
  BY <1>1, <1>2
<1>5. \A y : q # <<>> /\ Head(q) = y => r # <<>> /\ Head(r) = y
  <2>1. q # <<>> => n # 0
    BY <1>1
  <2> QED
    BY <1>1, <1>2, <2>1
<1> QED
  BY <1>1, <1>2, <1>3, <1>4, <1>5 DEF r

-----------------------------------------------------------------------------
(* Who is where                                                            *)

InLine(p) == \E i \in DOMAIN lock : lock[i] = p

\* What letting the lock go, and asking for it, do to everybody's place.
LEMMA ReleasedKeeps ==
  ASSUME TypeOK, NEW p, Released(p)
  PROVE  /\ lock' \in Seq(Lockers) /\ IsInjective(lock')
         /\ \A x : InLine(x)' <=> x # p /\ InLine(x)
         /\ \A x : x # p /\ Holds(x) => Holds(x)'
<1>1. PICK i \in DOMAIN lock : lock[i] = p /\ lock' = RemoveAt(lock, i)
  BY DEF Released
<1>2. lock \in Seq(Lockers) /\ IsInjective(lock)
  BY DEF TypeOK, Lockers
<1>3. lock' \in Seq(Lockers)
  BY <1>1, <1>2, Removed
<1>4. LET r == RemoveAt(lock, i)
      IN /\ IsInjective(r)
         /\ \A x : (\E j \in DOMAIN r : r[j] = x) <=> (x # lock[i] /\ \E j \in DOMAIN lock : lock[j] = x)
         /\ \A x : x # lock[i] /\ lock # <<>> /\ Head(lock) = x => r # <<>> /\ Head(r) = x
  BY <1>2, RemovedFromLine
<1> QED
  BY <1>1, <1>3, <1>4 DEF InLine, Holds

LEMMA AskingKeeps ==
  ASSUME TypeOK, NEW p \in Lockers, ~InLine(p), lock' = Append(lock, p)
  PROVE  /\ lock' \in Seq(Lockers) /\ IsInjective(lock')
         /\ \A x : InLine(x)' <=> x = p \/ InLine(x)
         /\ \A x : Holds(x) => Holds(x)'
<1>1. lock \in Seq(Lockers) /\ IsInjective(lock)
  BY DEF TypeOK, Lockers
<1>2. LET r == Append(lock, p)
      IN /\ r \in Seq(Lockers) /\ IsInjective(r)
         /\ \A y : (\E j \in DOMAIN r : r[j] = y) <=> (y = p \/ \E j \in DOMAIN lock : lock[j] = y)
         /\ \A y : lock # <<>> /\ Head(lock) = y => r # <<>> /\ Head(r) = y
  BY <1>1, AppendedToLine DEF InLine
<1> QED
  BY <1>2 DEF InLine, Holds

\* A party goes to a phase: in line for the lock as long as it is somewhere, with
\* the lock to go further, with the camera's while it is on it.
Fits(p, phase) ==
  /\ phase \in Phases
  /\ p = View => phase \in {"idle", "queued", "prepare", "roll", "video", "cut"}
  /\ p \in Exposers => phase \notin {"roll", "video", "cut"}
  /\ p \in Askers => phase \notin {"queued", "holding"}

InLineStill(p, phase) ==
  \/ p \in Askers /\ lock' = lock
  \/ /\ p \in Lockers /\ pc[p] # "idle" /\ phase # "idle" /\ lock' = lock
     /\ phase = "queued" \/ Holds(p)
  \/ p \in Lockers /\ pc[p] = "idle" /\ phase = "queued" /\ lock' = Append(lock, p)
  \/ p \in Lockers /\ pc[p] # "idle" /\ phase = "idle" /\ Released(p)

CameraFollows(p, phase) ==
  IF phase \in OnCamera THEN cam \in {p, None} /\ cam' = p
                        ELSE cam' = IF cam = p THEN None ELSE cam

GoesTo(p, phase) ==
  /\ p \in Parties /\ Goes(p, phase)
  /\ Fits(p, phase) /\ InLineStill(p, phase) /\ CameraFollows(p, phase)
  /\ \A q \in cancelled' : q \in Lockers /\ (IF q = p THEN phase ELSE pc[q]) # "idle"

Nobody ==
  /\ UNCHANGED <<pc, lock, cam>>
  /\ \A q \in cancelled' : q \in Lockers /\ pc[q] # "idle"

\* A step moves one party, or none.
LEMMA GoesKeeps ==
  ASSUME TypeOK, PhasesAgree, LocksAgree,
         NEW p, NEW phase, GoesTo(p, phase)
  PROVE  /\ pc' \in [Parties -> Phases] /\ cam' \in Parties \cup {None}
         /\ lock' \in Seq(Lockers) /\ IsInjective(lock')
         /\ PhasesAgree' /\ LocksAgree'
<1>1. /\ pc \in [Parties -> Phases] /\ cam \in Parties \cup {None}
      /\ lock \in Seq(Lockers) /\ IsInjective(lock) /\ cancelled \subseteq Parties
  BY DEF TypeOK, Lockers
<1>2. p \in Parties /\ phase \in Phases /\ pc' = [pc EXCEPT ![p] = phase]
  BY DEF GoesTo, Goes, Fits
<1>3. pc'[p] = phase /\ (\A q \in Parties \ {p} : pc'[q] = pc[q]) /\ pc' \in [Parties -> Phases]
  BY <1>1, <1>2
<1>4. View \in Parties /\ Exposers \subseteq Parties /\ Lockers \subseteq Parties /\ None \notin Parties
      /\ Askers \subseteq Exposers /\ Askers \cap Lockers = {} /\ View \notin Exposers
  BY PartiesAssumption DEF Parties, Exposers, Lockers
<1>5. \A q \in Lockers : pc[q] # "idle" <=> InLine(q)
  BY DEF LocksAgree, InLine
<1>6. /\ lock' \in Seq(Lockers) /\ IsInjective(lock')
      /\ \A q \in Lockers : pc'[q] # "idle" <=> InLine(q)'
      /\ \A q \in Lockers : q # p /\ Holds(q) => Holds(q)'
      /\ p \in Lockers /\ phase \notin {"idle", "queued"} => Holds(p)'
  <2>1. CASE p \in Askers /\ lock' = lock
    BY <1>1, <1>3, <1>4, <1>5, <2>1 DEF InLine, Holds
  <2>2. CASE /\ p \in Lockers /\ pc[p] # "idle" /\ phase # "idle" /\ lock' = lock
             /\ phase = "queued" \/ Holds(p)
    BY <1>1, <1>3, <1>4, <1>5, <2>2 DEF InLine, Holds
  <2>3. CASE p \in Lockers /\ pc[p] = "idle" /\ phase = "queued" /\ lock' = Append(lock, p)
    <3>1. ~InLine(p)
      BY <1>5, <2>3
    <3> QED
      BY <1>3, <1>4, <1>5, <2>3, <3>1, AskingKeeps
  <2>4. CASE p \in Lockers /\ pc[p] # "idle" /\ phase = "idle" /\ Released(p)
    BY <1>3, <1>4, <1>5, <2>4, ReleasedKeeps
  <2> QED
    BY <2>1, <2>2, <2>3, <2>4 DEF GoesTo, InLineStill
<1>7. PhasesAgree'
  <2>1. Fits(p, phase) /\ \A q \in cancelled' : q \in Lockers /\ pc'[q] # "idle"
    BY <1>3, <1>4 DEF GoesTo
  <2> QED
    BY <1>3, <1>4, <2>1 DEF PhasesAgree, Fits
<1>8. cam' \in Parties \cup {None} /\ \A q \in Parties : cam' = q <=> pc'[q] \in OnCamera
  <2>1. \A q \in Parties : cam = q <=> pc[q] \in OnCamera
    BY DEF LocksAgree
  <2> QED
    BY <1>1, <1>2, <1>3, <1>4, <2>1 DEF GoesTo, CameraFollows
<1>9. \A q \in Lockers : pc'[q] \notin {"idle", "queued"} => Holds(q)'
  BY <1>3, <1>4, <1>6 DEF LocksAgree
<1>10. LocksAgree'
  BY <1>6, <1>8, <1>9 DEF LocksAgree, InLine
<1> QED
  BY <1>3, <1>6, <1>7, <1>8, <1>10

LEMMA NobodyKeeps ==
  ASSUME TypeOK, PhasesAgree, LocksAgree, Nobody
  PROVE  PhasesAgree' /\ LocksAgree'
BY DEF Nobody, PhasesAgree, LocksAgree, Holds

LEMMA WhoIsWho ==
  /\ View \in Parties /\ View \in Lockers /\ View \notin Exposers /\ View \notin Users /\ View \notin Askers
  /\ None \notin Parties
  /\ \A p \in Exposers : p \in Parties /\ p # View /\ (p \in Users <=> p \notin Askers)
  /\ \A p \in Users : p \in Exposers /\ p \in Lockers
  /\ \A p \in Askers : p \in Exposers /\ p \notin Lockers
BY PartiesAssumption DEF Parties, Exposers, Lockers

\* A step of one party, the others' cancellations as they were.
LEMMA OneGoes ==
  ASSUME TypeOK, PhasesAgree, LocksAgree, NEW p \in Parties, NEW phase,
         Goes(p, phase), Fits(p, phase), InLineStill(p, phase), CameraFollows(p, phase),
         \A q \in cancelled' : q \in cancelled /\ (q = p => phase # "idle")
  PROVE  GoesTo(p, phase)
BY DEF GoesTo, PhasesAgree

LEMMA ExposersGo ==
  ASSUME TypeOK, PhasesAgree, LocksAgree, NEW p \in Exposers,
         Expose(p) \/ UserStep(p) \/ Leave(p)
  PROVE  \E phase : GoesTo(p, phase) /\ (phase = "refused" => Expose(p))
<1>1. /\ p \in Parties /\ p # View /\ (p \in Users <=> p \notin Askers)
      /\ p \in Users => p \in Lockers
  BY WhoIsWho
<1>2. /\ cam = p <=> pc[p] \in OnCamera
      /\ p \in Users /\ pc[p] \notin {"idle", "queued"} => Holds(p)
      /\ None # p
  BY <1>1, WhoIsWho DEF LocksAgree
<1> USE DEF Fits, InLineStill, CameraFollows, OnCamera, Phases, Calls
<1>3. CASE Expose(p)
  <2>1. CASE cam = None
    <3>1. p \notin cancelled /\ Goes(p, "prepare") /\ cam' = p /\ UNCHANGED <<lock, cancelled>>
      BY <1>3, <2>1 DEF Expose
    <3>2. p \in Users => pc[p] \in {"holding", "refused"}
      BY <1>3 DEF Expose
    <3> QED
      BY <1>1, <1>2, <2>1, <3>1, <3>2, OneGoes
  <2>2. CASE cam # None
    <3>1. p \notin cancelled /\ Goes(p, "refused") /\ UNCHANGED <<lock, cam, cancelled>>
      BY <1>3, <2>2 DEF Expose
    <3>2. pc[p] \in {IF p \in Users THEN "holding" ELSE "idle", "refused"}
      BY <1>3 DEF Expose
    <3>3. GoesTo(p, "refused")
      BY <1>1, <1>2, <2>2, <3>1, <3>2, OneGoes
    <3> QED
      BY <1>3, <3>3
  <2> QED
    BY <2>1, <2>2
<1>4. CASE Admitted(p)
  BY <1>1, <1>2, <1>4, OneGoes DEF Admitted
<1>5. CASE Prepared(p)
  BY <1>1, <1>2, <1>5, OneGoes DEF Prepared
<1>6. CASE PrepareFails(p)
  BY <1>1, <1>2, <1>6, OneGoes DEF PrepareFails
<1>7. CASE Armed(p)
  BY <1>1, <1>2, <1>7, OneGoes DEF Armed
<1>8. CASE Downloaded(p)
  BY <1>1, <1>2, <1>8, OneGoes DEF Downloaded, Finishes
<1>9. CASE Missed(p)
  BY <1>1, <1>2, <1>9, OneGoes DEF Missed
<1>10. CASE Disarmed(p)
  BY <1>1, <1>2, <1>10, OneGoes DEF Disarmed, Finishes
<1>11. CASE Leave(p)
  BY <1>1, <1>2, <1>11, OneGoes DEF Leave, LeavesPaused
<1> QED
  BY <1>3, <1>4, <1>5, <1>6, <1>7, <1>8, <1>9, <1>10, <1>11 DEF UserStep

LEMMA EnteringGoes ==
  ASSUME TypeOK, PhasesAgree, LocksAgree, NEW u, Enter(u)
  PROVE  GoesTo(u, "queued")
<1>1. u \in Users /\ u \in Parties /\ u \in Lockers /\ u # View /\ u \notin Askers /\ u \in Exposers
  BY WhoIsWho DEF Enter
<1>2. pc[u] = "idle" /\ Goes(u, "queued") /\ lock' = Append(lock, u) /\ cam' = cam
  BY DEF Enter
<1>3. cam # u
  BY <1>1, <1>2 DEF LocksAgree, OnCamera
<1>4. Fits(u, "queued") /\ InLineStill(u, "queued") /\ CameraFollows(u, "queued")
  BY <1>1, <1>2, <1>3 DEF Fits, Phases, Calls, InLineStill, CameraFollows, OnCamera
<1>5. \A q \in cancelled' : q \in Lockers /\ (IF q = u THEN "queued" ELSE pc[q]) # "idle"
  BY <1>1, WhoIsWho DEF Enter, Interrupts, PhasesAgree
<1> QED
  BY <1>1, <1>2, <1>4, <1>5 DEF GoesTo

LEMMA OthersStay ==
  ASSUME TypeOK, PhasesAgree, LocksAgree,
         \/ \E t \in Exposers : CancelTask(t)
         \/ UpdateConfig \/ Abort \/ Looks
         \/ \E i \in DOMAIN threads : ThreadEnds(i)
  PROVE  Nobody
<1>1. CASE \E t \in Exposers : CancelTask(t)
  BY <1>1, TasksAssumption DEF CancelTask, Nobody, PhasesAgree, Alive, Lockers
<1>2. CASE UpdateConfig
  BY <1>2, WhoIsWho DEF UpdateConfig, Interrupts, Nobody, PhasesAgree
<1>3. CASE Abort
  BY <1>3 DEF Abort, Nobody, PhasesAgree
<1>4. CASE Looks
  BY <1>4 DEF Looks, Nobody, PhasesAgree
<1>5. CASE \E i \in DOMAIN threads : ThreadEnds(i)
  BY <1>5 DEF ThreadEnds, Nobody, PhasesAgree
<1> QED
  BY <1>1, <1>2, <1>3, <1>4, <1>5

LEMMA ViewGoes ==
  ASSUME TypeOK, PhasesAgree, LocksAgree, ViewStep, ~Looks
  PROVE  \E phase : GoesTo(View, phase)
<1>1. View \in Parties /\ View \in Lockers /\ View \notin Exposers /\ View \notin Askers /\ None # View
  BY WhoIsWho
<1>2. /\ cam = View <=> pc[View] \in OnCamera
      /\ pc[View] \notin {"idle", "queued"} => Holds(View)
  BY <1>1 DEF LocksAgree
<1> USE DEF Fits, InLineStill, CameraFollows, OnCamera, Phases, Calls
<1>3. CASE StreamBegins
  <2>1. GoesTo(View, "queued")
    BY <1>1, <1>2, <1>3, OneGoes DEF StreamBegins, PhasesAgree
  <2> QED
    BY <2>1
<1>4. CASE StreamStarts
  <2>1. CASE cam = None
    BY <1>1, <1>2, <1>4, <2>1, OneGoes DEF StreamStarts
  <2>2. CASE cam # None
    BY <1>1, <1>2, <1>4, <2>2, OneGoes DEF StreamStarts, StreamEnds
  <2> QED
    BY <2>1, <2>2
<1>5. CASE StreamPrepared
  <2>1. CASE Goes(View, "roll") /\ UNCHANGED <<lock, cam, resting>>
    BY <1>1, <1>2, <1>5, <2>1, OneGoes DEF StreamPrepared
  <2>2. CASE cam' = None /\ StreamEnds(TRUE)
    BY <1>1, <1>2, <1>5, <2>2, OneGoes DEF StreamPrepared, StreamEnds
  <2> QED
    BY <1>5, <2>1, <2>2 DEF StreamPrepared
<1>6. CASE Rolling
  <2>1. CASE Goes(View, "video") /\ UNCHANGED <<lock, cam, resting>>
    BY <1>1, <1>2, <1>6, <2>1, OneGoes DEF Rolling
  <2>2. CASE cam' = None /\ StreamEnds(TRUE)
    BY <1>1, <1>2, <1>6, <2>2, OneGoes DEF Rolling, StreamEnds
  <2> QED
    BY <1>6, <2>1, <2>2 DEF Rolling
<1>7. CASE StopsFilming
  BY <1>1, <1>2, <1>7, OneGoes DEF StopsFilming
<1>8. CASE Cut
  BY <1>1, <1>2, <1>8, OneGoes DEF Cut, StreamEnds
<1> QED
  BY <1>3, <1>4, <1>5, <1>6, <1>7, <1>8 DEF ViewStep

\* A cancelled party stops the sensor, or lets go of everything.
LEMMA UnwindingGoes ==
  ASSUME TypeOK, PhasesAgree, LocksAgree, NEW p \in Parties, Unwinds(p)
  PROVE  \E phase \in {"disarm", "cut", "idle"} : GoesTo(p, phase)
<1>1. /\ p \in Lockers /\ pc[p] # "idle" /\ (p = View <=> p \notin Exposers) /\ p \notin Askers
      /\ p # None
  BY WhoIsWho DEF Unwinds, PhasesAgree, Parties
<1>2. /\ cam = p <=> pc[p] \in OnCamera
      /\ pc[p] \notin {"idle", "queued"} => Holds(p)
      /\ p # View => pc[p] \notin {"roll", "video", "cut"}
      /\ p = View => pc[p] \in {"idle", "queued", "prepare", "roll", "video", "cut"}
  BY <1>1 DEF LocksAgree, PhasesAgree
<1>3. \A q \in cancelled' : q \in cancelled /\ q # p
  BY DEF Unwinds
<1> USE DEF Fits, InLineStill, CameraFollows, OnCamera, Phases, Calls
<1>4. CASE CleanUp(p) # "none"
  <2>1. UNCHANGED <<lock, cam>> /\ Goes(p, CleanUp(p))
    BY <1>4 DEF Unwinds
  <2>2. CASE CleanUp(p) = "disarm" /\ pc[p] \in {"arm", "exposing"}
    BY <1>1, <1>2, <1>3, <2>1, <2>2, OneGoes
  <2>3. CASE CleanUp(p) = "cut" /\ pc[p] = "video"
    BY <1>1, <1>2, <1>3, <2>1, <2>3, OneGoes
  <2> QED
    BY <1>4, <2>2, <2>3 DEF CleanUp
<1>5. CASE CleanUp(p) = "none"
  <2>1. Released(p) /\ Goes(p, "idle") /\ cam' = IF cam = p THEN None ELSE cam
    BY <1>5 DEF Unwinds, StreamEnds, LeavesPaused
  <2>2. GoesTo(p, "idle")
    BY <1>1, <1>2, <1>3, <2>1, OneGoes
  <2> QED
    BY <2>2
<1> QED
  BY <1>4, <1>5

\* The steps of the specification, for who goes.
LEMMA StepsGo ==
  ASSUME TypeOK, PhasesAgree, LocksAgree, Next
  PROVE  (\E p, phase : GoesTo(p, phase) /\ (phase = "refused" => p \in Exposers /\ Expose(p))) \/ Nobody
<1>1. CASE \E p \in Exposers : Enter(p) \/ Leave(p) \/ Expose(p) \/ UserStep(p)
  BY <1>1, ExposersGo, EnteringGoes
<1>2. CASE ViewStep
  BY <1>2, ViewGoes, OthersStay, WhoIsWho DEF GoesTo, Fits
<1>3. CASE \E p \in Parties : Unwinds(p)
  BY <1>3, UnwindingGoes
<1>4. CASE \/ \E t \in Exposers : CancelTask(t)
           \/ UpdateConfig \/ Abort
           \/ \E i \in DOMAIN threads : ThreadEnds(i)
  BY <1>4, OthersStay
<1> QED
  BY <1>1, <1>2, <1>3, <1>4 DEF Next

LEMMA PlacesKept ==
  ASSUME TypeOK, PhasesAgree, LocksAgree, [Next]_vars
  PROVE  /\ pc' \in [Parties -> Phases] /\ cam' \in Parties \cup {None}
         /\ lock' \in Seq(Lockers) /\ IsInjective(lock')
         /\ PhasesAgree' /\ LocksAgree'
<1>1. CASE UNCHANGED vars
  BY <1>1 DEF vars, TypeOK, Lockers, PhasesAgree, LocksAgree, Holds
<1>2. CASE \E p, phase : GoesTo(p, phase)
  BY <1>2, GoesKeeps
<1>3. CASE Nobody
  BY <1>3, NobodyKeeps DEF TypeOK, Nobody, Lockers
<1> QED
  BY <1>1, <1>2, <1>3, StepsGo

-----------------------------------------------------------------------------
(* Types                                                                   *)

ThreadType == [call : Calls, by : Parties]

\* A thread that ends is one of those left behind, and goes.
LEMMA ThreadGone ==
  ASSUME TypeOK, NEW i \in DOMAIN threads, ThreadEnds(i)
  PROVE  /\ i \in 1..Len(threads) /\ Len(threads) \in Nat
         /\ threads[i] \in ThreadType
         /\ threads' \in Seq(ThreadType) /\ Len(threads') = Len(threads) - 1
         /\ \A j \in 1..(Len(threads) - 1) : threads'[j] = IF j < i THEN threads[j] ELSE threads[j + 1]
<1>1. threads \in Seq(ThreadType) /\ threads' = RemoveAt(threads, i)
  BY DEF TypeOK, ThreadType, ThreadEnds
<1> QED
  BY <1>1, Removed, LenProperties

LEMMA HardwareTypes ==
  ASSUME TypeOK, Next
  PROVE  /\ sensor' \in {"idle", "exposing", "video"}
         /\ {setup', applied'} \subseteq Parties \cup {None}
         /\ threads' \in Seq(ThreadType)
         /\ disturbed' \in BOOLEAN
<1> USE DEF Sets, SetsPartly, CallReturns, settings, hardware
<1>1. /\ sensor \in {"idle", "exposing", "video"} /\ {setup, applied} \subseteq Parties \cup {None}
      /\ threads \in Seq(ThreadType) /\ disturbed \in BOOLEAN
      /\ View \in Parties /\ \A p \in Exposers : p \in Parties
  BY WhoIsWho DEF TypeOK, ThreadType
<1>2. ASSUME NEW p \in Exposers, Enter(p) \/ Leave(p) \/ Expose(p) \/ CancelTask(p)
      PROVE  UNCHANGED hardware
  BY <1>2 DEF Enter, Leave, Expose, CancelTask
<1>3. ASSUME NEW p \in Exposers, UserStep(p)
      PROVE  /\ sensor' \in {"idle", "exposing", "video"} /\ disturbed' \in BOOLEAN /\ threads' = threads
             /\ {setup', applied'} \subseteq Parties \cup {None}
  BY <1>1, <1>3 DEF UserStep, Admitted, Prepared, PrepareFails, Armed, Downloaded, Missed, Disarmed
<1>4. ASSUME ViewStep
      PROVE  /\ sensor' \in {"idle", "exposing", "video"} /\ disturbed' \in BOOLEAN /\ threads' = threads
             /\ {setup', applied'} \subseteq Parties \cup {None}
  BY <1>1, <1>4 DEF ViewStep, StreamBegins, Looks, StreamStarts, StreamPrepared, Rolling, StopsFilming, Cut
<1>5. ASSUME UpdateConfig \/ Abort
      PROVE  /\ sensor' \in {"idle", "exposing", "video"} /\ disturbed' \in BOOLEAN
             /\ UNCHANGED <<threads, setup, applied>>
  BY <1>1, <1>5 DEF UpdateConfig, Abort
<1>6. ASSUME NEW p \in Parties, Unwinds(p)
      PROVE  threads' \in Seq(ThreadType) /\ disturbed' \in BOOLEAN /\ UNCHANGED <<sensor, setup, applied>>
  <2>1. CASE pc[p] \in Calls
    <3>1. [call |-> pc[p], by |-> p] \in ThreadType
      BY <2>1 DEF ThreadType
    <3>2. threads' = Append(threads, [call |-> pc[p], by |-> p])
      BY <1>6, <2>1 DEF Unwinds, LeavesThread
    <3> QED
      BY <1>1, <1>6, <3>1, <3>2 DEF Unwinds
  <2>2. CASE pc[p] \notin Calls
    BY <1>1, <1>6, <2>2 DEF Unwinds, LeavesThread
  <2> QED
    BY <2>1, <2>2
<1>7. ASSUME NEW i \in DOMAIN threads, ThreadEnds(i)
      PROVE  /\ sensor' \in {"idle", "exposing", "video"} /\ disturbed' \in BOOLEAN
             /\ threads' \in Seq(ThreadType)
             /\ {setup', applied'} \subseteq Parties \cup {None}
  <2>1. threads[i].by \in Parties /\ threads' \in Seq(ThreadType)
    BY <1>7, ThreadGone DEF ThreadType
  <2>2. sensor' \in {"idle", "exposing", "video"} /\ disturbed' \in BOOLEAN
    BY <1>1, <1>7 DEF ThreadEnds
  <2>3. {setup', applied'} \subseteq Parties \cup {None}
    BY <1>1, <1>7, <2>1 DEF ThreadEnds
  <2> QED
    BY <2>1, <2>2, <2>3
<1> QED
  BY <1>1, <1>2, <1>3, <1>4, <1>5, <1>6, <1>7 DEF Next

LEMMA FlagTypes ==
  ASSUME TypeOK, Next
  PROVE  /\ enabled' \in BOOLEAN /\ paused' \in BOOLEAN /\ resting' \in BOOLEAN
         /\ shown' \in {"idle", "exposing"} /\ cancelled' \in SUBSET Parties
<1> USE DEF Finishes, StreamEnds, LeavesPaused, Unpauses, Interrupts, view
<1>1. /\ enabled \in BOOLEAN /\ paused \in BOOLEAN /\ resting \in BOOLEAN
      /\ shown \in {"idle", "exposing"} /\ cancelled \in SUBSET Parties
      /\ View \in Parties /\ \A p \in Exposers : p \in Parties
  BY WhoIsWho DEF TypeOK
<1>2. ASSUME NEW p \in Exposers, Enter(p) \/ Leave(p) \/ Expose(p) \/ CancelTask(p)
      PROVE  /\ UNCHANGED <<enabled, resting, shown>>
             /\ paused' \in BOOLEAN /\ cancelled' \in SUBSET Parties
  BY <1>1, <1>2 DEF Enter, Leave, Expose, CancelTask
<1>3. ASSUME NEW p \in Exposers, UserStep(p)
      PROVE  UNCHANGED <<enabled, paused, resting, cancelled>> /\ shown' \in {"idle", "exposing"}
  BY <1>1, <1>3 DEF UserStep, Admitted, Prepared, PrepareFails, Armed, Downloaded, Missed, Disarmed
<1>4. ASSUME ViewStep
      PROVE  /\ UNCHANGED <<enabled, paused, cancelled>>
             /\ resting' \in BOOLEAN /\ shown' \in {"idle", "exposing"}
  BY <1>1, <1>4 DEF ViewStep, StreamBegins, Looks, StreamStarts, StreamPrepared, Rolling, StopsFilming, Cut
<1>5. ASSUME UpdateConfig \/ Abort
      PROVE  /\ UNCHANGED <<paused, resting>> /\ enabled' \in BOOLEAN
             /\ shown' \in {"idle", "exposing"} /\ cancelled' \in SUBSET Parties
  BY <1>1, <1>5 DEF UpdateConfig, Abort
<1>6. ASSUME NEW p \in Parties, Unwinds(p)
      PROVE  /\ UNCHANGED enabled /\ paused' \in BOOLEAN /\ resting' \in BOOLEAN
             /\ shown' \in {"idle", "exposing"} /\ cancelled' \in SUBSET Parties
  BY <1>1, <1>6 DEF Unwinds
<1>7. ASSUME NEW i \in DOMAIN threads, ThreadEnds(i)
      PROVE  UNCHANGED <<enabled, paused, resting, shown, cancelled>>
  BY <1>7 DEF ThreadEnds
<1> QED
  BY <1>1, <1>2, <1>3, <1>4, <1>5, <1>6, <1>7 DEF Next

LEMMA TypeKept ==
  ASSUME TypeOK, PhasesAgree, LocksAgree, [Next]_vars
  PROVE  TypeOK'
<1>1. CASE UNCHANGED vars
  BY <1>1 DEF vars, view, hardware, settings, TypeOK
<1>2. CASE Next
  BY <1>2, PlacesKept, HardwareTypes, FlagTypes DEF TypeOK, Lockers, ThreadType
<1> QED
  BY <1>1, <1>2

-----------------------------------------------------------------------------
(* The sensor, as long as nothing is overtaken                             *)

\* One party at a time is on the camera.
LEMMA Alone ==
  ASSUME LocksAgree, NEW p \in Parties, pc[p] \in OnCamera
  PROVE  \A q \in Parties : q # p => pc[q] \notin OnCamera
BY DEF LocksAgree

\* With nothing left behind, a sensor that nobody has started is at rest.
LEMMA AtRest ==
  ASSUME TypeOK, LocksAgree, Ordered, threads = <<>>,
         NEW p \in Parties, pc[p] \in {"prepare", "arm", "roll"}
  PROVE  sensor = "idle"
<1>1. \A q \in Parties : pc[q] \notin {"exposing", "disarm", "video", "cut"}
  BY Alone DEF OnCamera
<1> QED
  BY <1>1, WhoIsWho DEF TypeOK, Ordered, SensorIsOwned

LEMMA EmptyIsOrdered ==
  ASSUME threads' = <<>>, setup' = applied',
         sensor' = "exposing" => \E p \in Exposers : pc'[p] \in {"exposing", "disarm"},
         sensor' = "video" => pc'[View] \in {"video", "cut"},
         \A p \in Exposers : pc'[p] = "arm" => applied' = p
  PROVE  Ordered'
BY DEF Ordered, ThreadsInOrder, SensorIsOwned, SetUpIsKept

\* Steps that leave the sensor alone, of parties that have not come to it.
Before == OnCamera \ {"prepare"}

LEMMA QuietKeeps ==
  ASSUME Ordered, UNCHANGED hardware,
         \A q \in Parties : pc'[q] = pc[q] \/ (pc[q] \notin Before /\ pc'[q] \notin Before)
  PROVE  Ordered'
<1>1. /\ UNCHANGED <<sensor, setup, applied, threads>>
      /\ \A q \in Parties, s \in Before : pc'[q] = s <=> pc[q] = s
  BY DEF hardware, settings
<1>2. View \in Parties /\ \A p \in Exposers : p \in Parties
  BY WhoIsWho
<1>3. {"arm", "exposing", "disarm", "roll", "video", "cut"} \subseteq Before
  BY DEF Before, OnCamera
<1>4. ThreadsInOrder'
  BY <1>1 DEF Ordered, ThreadsInOrder
<1>5. SensorIsOwned'
  BY <1>1, <1>2, <1>3 DEF Ordered, SensorIsOwned
<1>6. SetUpIsKept'
  <2>1. \A s \in OnCamera \ {"prepare", "disarm"} : s \in Before
    BY DEF Before
  <2> QED
    BY <1>1, <1>2, <1>3, <2>1 DEF Ordered, SetUpIsKept
<1> QED
  BY <1>4, <1>5, <1>6 DEF Ordered

\* A goes to a phase, and who was elsewhere stays there.
LEMMA Went ==
  ASSUME TypeOK, NEW p \in Parties, NEW phase, Goes(p, phase)
  PROVE  pc'[p] = phase /\ \A q \in Parties : q # p => pc'[q] = pc[q]
BY DEF TypeOK, Goes

LEMMA ExposureKeeps ==
  ASSUME TypeOK, LocksAgree, PhasesAgree, InOrder, ~disturbed', NEW p \in Exposers, UserStep(p) \/ Expose(p)
  PROVE  Ordered'
<1>1. p \in Parties /\ p # View /\ View \in Parties /\ \A q \in Exposers : q \in Parties /\ q # View
  BY WhoIsWho
<1>2. pc[p] \in OnCamera => /\ \A q \in Parties : q # p => pc[q] \notin OnCamera
                            /\ \A q \in Parties : q # p => pc[q] # "arm"
  BY <1>1, Alone DEF OnCamera
<1>3. CASE Expose(p)
  <2>1. ~disturbed /\ UNCHANGED hardware /\ pc[p] \in {"holding", "idle", "refused"}
        /\ (Goes(p, "prepare") \/ Goes(p, "refused"))
    BY <1>3 DEF Expose, hardware
  <2> QED
    BY <1>1, <2>1, Went, QuietKeeps DEF InOrder, Before, OnCamera
<1>4. CASE Admitted(p)
  <2>1. ~disturbed /\ UNCHANGED hardware /\ pc[p] = "queued" /\ Goes(p, "holding")
    BY <1>4 DEF Admitted, hardware
  <2> QED
    BY <1>1, <2>1, Went, QuietKeeps DEF InOrder, Before, OnCamera
<1>5. CASE Prepared(p)
  <2>1. ~disturbed /\ threads = <<>> /\ threads' = <<>> /\ pc[p] = "prepare" /\ Sets(p)
        /\ Goes(p, "arm") /\ sensor' = sensor
    BY <1>5 DEF Prepared, CallReturns
  <2>2. Ordered
    BY <2>1 DEF InOrder
  <2>3. sensor = "idle"
    BY <1>1, <2>1, <2>2, AtRest
  <2>4. setup' = p /\ applied' = p
    BY <2>1, <2>2 DEF Sets, Ordered, SetUpIsKept
  <2>5. \A q \in Exposers : pc'[q] = "arm" => q = p
    BY <1>1, <1>2, <2>1, Went DEF OnCamera
  <2> QED
    BY <2>1, <2>3, <2>4, <2>5, EmptyIsOrdered
<1>6. CASE PrepareFails(p)
  BY <1>6 DEF PrepareFails, SetsPartly
<1>7. CASE Armed(p)
  <2>1. ~disturbed /\ threads = <<>> /\ threads' = <<>> /\ pc[p] = "arm"
        /\ setup' = setup /\ applied' = applied
    BY <1>7 DEF Armed, CallReturns, settings
  <2>2. Ordered
    BY <2>1 DEF InOrder
  <2>3. sensor = "idle"
    BY <1>1, <2>1, <2>2, AtRest
  <2>4. sensor' = "exposing" /\ Goes(p, "exposing")
    BY <1>7, <2>3 DEF Armed
  <2>5. pc'[p] = "exposing" /\ \A q \in Exposers : pc'[q] # "arm"
    BY <1>1, <1>2, <2>1, <2>4, Went DEF OnCamera
  <2>6. setup' = applied'
    BY <2>1, <2>2 DEF Ordered, SetUpIsKept
  <2> QED
    BY <2>1, <2>4, <2>5, <2>6, EmptyIsOrdered
<1>8. CASE Downloaded(p)
  <2>1. ~disturbed /\ threads = <<>> /\ threads' = <<>> /\ pc[p] = "exposing"
        /\ setup' = setup /\ applied' = applied /\ sensor' = "idle"
        /\ Goes(p, IF p \in Users THEN "holding" ELSE "idle")
    BY <1>8 DEF Downloaded, CallReturns, settings, Finishes
  <2>2. \A q \in Exposers : pc'[q] # "arm"
    BY <1>1, <1>2, <2>1, Went DEF OnCamera
  <2>3. setup' = applied'
    BY <2>1 DEF InOrder, Ordered, SetUpIsKept
  <2> QED
    BY <2>1, <2>2, <2>3, EmptyIsOrdered
<1>9. CASE Missed(p)
  <2>1. ~disturbed /\ pc[p] = "exposing" /\ Goes(p, "disarm") /\ UNCHANGED <<threads, sensor, setup, applied>>
    BY <1>9 DEF Missed, hardware, settings
  <2>2. threads = <<>> /\ setup = applied /\ (sensor = "video" => pc[View] \in {"video", "cut"})
    BY <1>1, <2>1 DEF InOrder, Ordered, SetUpIsKept, SensorIsOwned, OnCamera
  <2>3. pc'[p] = "disarm" /\ pc'[View] = pc[View] /\ \A q \in Exposers : pc'[q] # "arm"
    BY <1>1, <1>2, <2>1, Went DEF OnCamera
  <2> QED
    BY <2>1, <2>2, <2>3, EmptyIsOrdered
<1>10. CASE Disarmed(p)
  <2>1. ~disturbed /\ threads = <<>> /\ threads' = <<>> /\ pc[p] = "disarm"
        /\ setup' = setup /\ applied' = applied /\ sensor' # "exposing"
        /\ (sensor' = "video" => sensor = "video")
        /\ Goes(p, IF p \in Users THEN "holding" ELSE "idle")
    BY <1>10 DEF Disarmed, CallReturns, settings, Finishes
  <2>2. pc'[View] = pc[View] /\ \A q \in Exposers : pc'[q] # "arm"
    BY <1>1, <1>2, <2>1, Went DEF OnCamera
  <2>3. setup' = applied' /\ (sensor = "video" => pc[View] \in {"video", "cut"})
    BY <2>1 DEF InOrder, Ordered, SetUpIsKept, SensorIsOwned
  <2> QED
    BY <2>1, <2>2, <2>3, EmptyIsOrdered
<1> QED
  BY <1>3, <1>4, <1>5, <1>6, <1>7, <1>8, <1>9, <1>10 DEF UserStep

LEMMA FilmingKeeps ==
  ASSUME TypeOK, LocksAgree, PhasesAgree, InOrder, ~disturbed', ViewStep
  PROVE  Ordered'
<1>1. View \in Parties /\ \A q \in Exposers : q \in Parties /\ q # View
  BY WhoIsWho
<1>2. pc[View] \in OnCamera => \A q \in Exposers : pc[q] # "arm" /\ pc[q] \notin {"exposing", "disarm"}
  BY <1>1, Alone DEF OnCamera
<1>3. CASE StreamBegins \/ Looks
  <2>1. ~disturbed /\ UNCHANGED hardware
    BY <1>3 DEF StreamBegins, Looks, hardware
  <2>2. pc' = pc \/ (pc[View] = "idle" /\ Goes(View, "queued"))
    BY <1>3 DEF StreamBegins, Looks
  <2> QED
    BY <1>1, <2>1, <2>2, Went, QuietKeeps DEF InOrder, Before, OnCamera
<1>4. CASE StreamStarts
  <2>1. ~disturbed /\ UNCHANGED hardware /\ pc[View] = "queued"
        /\ (Goes(View, "prepare") \/ Goes(View, "idle"))
    BY <1>4 DEF StreamStarts, StreamEnds, hardware
  <2> QED
    BY <1>1, <2>1, Went, QuietKeeps DEF InOrder, Before, OnCamera
<1>5. CASE StreamPrepared
  <2>1. ~disturbed /\ threads = <<>> /\ threads' = <<>> /\ pc[View] = "prepare" /\ Sets(View)
        /\ Goes(View, "roll") /\ sensor' = sensor
    BY <1>5 DEF StreamPrepared, SetsPartly, CallReturns
  <2>2. Ordered
    BY <2>1 DEF InOrder
  <2>3. sensor = "idle"
    BY <1>1, <2>1, <2>2, AtRest
  <2>4. setup' = applied'
    BY <2>1, <2>2 DEF Sets, Ordered, SetUpIsKept
  <2>5. \A q \in Exposers : pc'[q] # "arm"
    BY <1>1, <1>2, <2>1, Went DEF OnCamera
  <2> QED
    BY <2>1, <2>3, <2>4, <2>5, EmptyIsOrdered
<1>6. CASE Rolling
  <2>1. ~disturbed /\ threads = <<>> /\ threads' = <<>> /\ pc[View] = "roll"
        /\ setup' = setup /\ applied' = applied
    BY <1>6 DEF Rolling, CallReturns, settings
  <2>2. Ordered
    BY <2>1 DEF InOrder
  <2>3. sensor = "idle"
    BY <1>1, <2>1, <2>2, AtRest
  <2>4. (sensor' = "video" /\ Goes(View, "video")) \/ (sensor' = "idle" /\ Goes(View, "idle"))
    BY <1>6, <2>3 DEF Rolling, StreamEnds
  <2>5. (sensor' = "video" => pc'[View] = "video") /\ \A q \in Exposers : pc'[q] # "arm"
    BY <1>1, <1>2, <2>1, <2>4, Went DEF OnCamera
  <2>6. setup' = applied'
    BY <2>1, <2>2 DEF Ordered, SetUpIsKept
  <2> QED
    BY <2>1, <2>4, <2>5, <2>6, EmptyIsOrdered
<1>7. CASE StopsFilming
  <2>1. ~disturbed /\ pc[View] = "video" /\ Goes(View, "cut") /\ UNCHANGED <<threads, sensor, setup, applied>>
    BY <1>7 DEF StopsFilming, hardware, settings
  <2>2. threads = <<>> /\ setup = applied /\ sensor # "exposing"
    BY <1>1, <1>2, <2>1 DEF InOrder, Ordered, SetUpIsKept, SensorIsOwned, OnCamera
  <2>3. pc'[View] = "cut" /\ \A q \in Exposers : pc'[q] # "arm"
    BY <1>1, <1>2, <2>1, Went DEF OnCamera
  <2> QED
    BY <2>1, <2>2, <2>3, EmptyIsOrdered
<1>8. CASE Cut
  <2>1. ~disturbed /\ threads = <<>> /\ threads' = <<>> /\ pc[View] = "cut"
        /\ setup' = setup /\ applied' = applied /\ sensor' # "video"
        /\ (sensor' = "exposing" => sensor = "exposing")
        /\ Goes(View, "idle")
    BY <1>8 DEF Cut, CallReturns, settings, StreamEnds
  <2>2. \A q \in Exposers : pc'[q] # "arm"
    BY <1>1, <1>2, <2>1, Went DEF OnCamera
  <2>3. setup' = applied' /\ sensor # "exposing"
    BY <1>1, <1>2, <2>1 DEF InOrder, Ordered, SetUpIsKept, SensorIsOwned, OnCamera
  <2> QED
    BY <2>1, <2>2, <2>3, EmptyIsOrdered
<1> QED
  BY <1>3, <1>4, <1>5, <1>6, <1>7, <1>8 DEF ViewStep

LEMMA AbortKeeps ==
  ASSUME InOrder, ~disturbed', Abort
  PROVE  Ordered'
<1>1. ~disturbed /\ threads = <<>> /\ threads' = <<>> /\ setup' = setup /\ applied' = applied /\ pc' = pc
      /\ sensor' # "exposing" /\ (sensor' = "video" => sensor = "video")
  BY DEF Abort, CallReturns, settings
<1>2. /\ setup = applied /\ (sensor = "video" => pc[View] \in {"video", "cut"})
      /\ \A p \in Exposers : pc[p] = "arm" => applied = p
  BY <1>1 DEF InOrder, Ordered, SetUpIsKept, SensorIsOwned
<1> QED
  BY <1>1, <1>2, EmptyIsOrdered

\* What the threads left behind are after one more.
LEMMA OneMore ==
  ASSUME TypeOK, NEW t, threads' = Append(threads, t)
  PROVE  /\ Len(threads) \in Nat /\ Len(threads') = Len(threads) + 1 /\ threads' # <<>>
         /\ DOMAIN threads' = 1..(Len(threads) + 1) /\ DOMAIN threads = 1..Len(threads)
         /\ threads'[Len(threads) + 1] = t /\ \A j \in 1..Len(threads) : threads'[j] = threads[j]
<1>1. threads \in Seq(ThreadType)
  BY DEF TypeOK, ThreadType
<1>2. threads \in Seq(ThreadType \cup {t})
  BY <1>1
<1> QED
  BY <1>2

\* A party cancelled in the call leaves its thread behind the others.
LEMMA AbandonedKeeps ==
  ASSUME TypeOK, LocksAgree, PhasesAgree, Ordered, NEW p \in Parties, Unwinds(p),
         pc[p] \in {"prepare", "arm", "disarm", "cut"}
  PROVE  Ordered'
<1> DEFINE t == [call |-> pc[p], by |-> p]
           n == Len(threads)
<1>1. threads' = Append(threads, t) /\ UNCHANGED <<sensor, setup, applied>>
      /\ Goes(p, IF pc[p] = "arm" THEN "disarm" ELSE "idle")
  BY DEF Unwinds, LeavesThread, CleanUp, StreamEnds, LeavesPaused, settings, Calls
<1>2. /\ n \in Nat /\ Len(threads') = n + 1 /\ threads' # <<>>
      /\ DOMAIN threads' = 1..(n + 1) /\ DOMAIN threads = 1..n
      /\ threads'[n + 1] = t /\ \A j \in 1..n : threads'[j] = threads[j]
  BY <1>1, OneMore
<1>3. t.call = pc[p]
  OBVIOUS
<1> HIDE DEF t, n
<1>4. \A q \in Parties : q # p => pc'[q] = pc[q] /\ pc[q] \notin OnCamera
  BY <1>1, Went, Alone DEF OnCamera
<1>5. pc'[p] = IF pc[p] = "arm" THEN "disarm" ELSE "idle"
  BY <1>1, Went
<1>6. View \in Parties /\ \A q \in Exposers : q \in Parties /\ q # View
  BY WhoIsWho
<1>7. threads = <<>> <=> n = 0
  BY <1>2 DEF n
<1>8. /\ pc[p] \in {"arm", "cut"} => n = 0
      /\ pc[p] = "disarm" => n = 0 \/ (n = 1 /\ threads[1].call = "arm")
  BY <1>7 DEF Ordered, SetUpIsKept, OnCamera, n
<1>9. /\ p = View => pc[p] \in {"prepare", "cut"}
      /\ p # View => p \in Exposers /\ pc[p] \in {"prepare", "arm", "disarm"}
  BY DEF PhasesAgree, Parties
<1>10. ThreadsInOrder'
  <2>1. SUFFICES ASSUME NEW i \in 1..(n + 1)
                 PROVE  /\ threads'[i].call \in {"prepare", "arm", "disarm", "cut"}
                        /\ threads'[i].call \in {"arm", "cut"} => i = 1
                        /\ threads'[i].call = "disarm" => i = 1 \/ (i = 2 /\ threads'[1].call = "arm")
    BY <1>2 DEF ThreadsInOrder
  <2>2. CASE i \in 1..n
    <3>1. threads'[i] = threads[i] /\ threads'[1] = threads[1]
      BY <1>2, <2>2
    <3> QED
      BY <1>2, <2>2, <3>1 DEF Ordered, ThreadsInOrder
  <2>3. CASE i = n + 1
    BY <1>2, <1>3, <1>8, <2>3
  <2> QED
    BY <1>2, <2>2, <2>3
<1>11. SensorIsOwned'
  <2>1. sensor = "exposing" => \/ pc[p] = "disarm"
                               \/ n # 0 /\ threads[1].call = "disarm"
    BY <1>4, <1>6, <1>7, <1>9 DEF Ordered, SensorIsOwned, OnCamera
  <2>2. sensor = "video" => \/ pc[p] = "cut"
                            \/ n # 0 /\ threads[1].call = "cut"
    BY <1>4, <1>6, <1>7, <1>9 DEF Ordered, SensorIsOwned, OnCamera
  <2>3. n # 0 /\ threads[1].call = "arm" => \/ pc[p] = "disarm"
                                            \/ n > 1 /\ threads[2].call = "disarm"
    BY <1>4, <1>6, <1>7, <1>9 DEF Ordered, SensorIsOwned, OnCamera, n
  <2>4. n # 0 /\ threads[1].call = "arm" => sensor = "idle"
    BY <1>7 DEF Ordered, SensorIsOwned
  <2>5. pc[p] = "arm" => sensor = "idle"
    BY <1>7, <1>8, AtRest
  <2>6. sensor' # "idle" => threads'[1].call = IF sensor = "exposing" THEN "disarm" ELSE "cut"
    BY <1>1, <1>2, <1>3, <1>8, <2>1, <2>2, <2>4 DEF TypeOK
  <2>7. threads'[1].call = "arm" => /\ sensor = "idle"
                                    /\ \/ pc[p] = "arm" /\ p \in Exposers /\ pc'[p] = "disarm"
                                       \/ n + 1 > 1 /\ threads'[2].call = "disarm"
    <3>1. CASE n = 0
      BY <1>2, <1>3, <1>5, <1>9, <2>5, <3>1
    <3>2. CASE n = 1
      BY <1>2, <1>3, <2>3, <2>4, <3>2
    <3>3. CASE n > 1
      BY <1>2, <2>3, <2>4, <1>8, <3>3
    <3> QED
      BY <1>2, <3>1, <3>2, <3>3
  <2> QED
    BY <1>1, <1>2, <2>6, <2>7 DEF SensorIsOwned
<1>12. SetUpIsKept'
  <2>1. \A q \in Parties : pc'[q] \in OnCamera => q = p /\ pc[p] = "arm" /\ pc'[q] = "disarm"
    BY <1>4, <1>5 DEF OnCamera
  <2>2. pc[p] = "arm" => Len(threads') = 1 /\ threads'[1].call = "arm"
    BY <1>2, <1>3, <1>8
  <2>3. setup' = applied'
    BY <1>1 DEF Ordered, SetUpIsKept
  <2> QED
    BY <1>6, <2>1, <2>2, <2>3 DEF SetUpIsKept, OnCamera
<1> QED
  BY <1>10, <1>11, <1>12 DEF Ordered

LEMMA UnwindingKeeps ==
  ASSUME TypeOK, LocksAgree, PhasesAgree, InOrder, ~disturbed', NEW p \in Parties, Unwinds(p)
  PROVE  Ordered'
<1>1. /\ ~disturbed /\ Ordered /\ ~(p = View /\ pc[p] = "roll")
      /\ UNCHANGED <<sensor, setup, applied>>
  BY DEF Unwinds, InOrder, settings
<1>2. /\ pc[p] # "idle" /\ (p # View <=> p \in Exposers)
      /\ p # View => pc[p] \notin {"roll", "video", "cut"}
      /\ p = View => pc[p] \in {"queued", "prepare", "roll", "video", "cut"}
      /\ pc[p] \in Phases
  BY WhoIsWho DEF Unwinds, PhasesAgree, Parties, TypeOK
<1>3. View \in Parties /\ \A q \in Exposers : q \in Parties /\ q # View
  BY WhoIsWho
<1>4. CASE pc[p] \in {"prepare", "arm", "disarm", "cut"}
  BY <1>1, <1>4, AbandonedKeeps
<1>5. CASE pc[p] \in {"exposing", "video"}
  <2>1. threads' = threads /\ Goes(p, IF p = View THEN "cut" ELSE "disarm")
    BY <1>2, <1>5 DEF Unwinds, LeavesThread, CleanUp, Calls
  <2>2. /\ pc'[p] = IF p = View THEN "cut" ELSE "disarm"
        /\ \A q \in Parties : q # p => pc'[q] = pc[q] /\ pc[q] \notin OnCamera
    BY <1>5, <2>1, Went, Alone DEF OnCamera
  <2>3. threads = <<>> /\ setup = applied
    BY <1>1, <1>5 DEF Ordered, SetUpIsKept, OnCamera
  <2>4. \A q \in Exposers : pc'[q] # "arm"
    BY <1>2, <1>3, <2>2 DEF OnCamera
  <2>5. /\ sensor = "exposing" => p \in Exposers /\ pc'[p] = "disarm"
        /\ sensor = "video" => p = View /\ pc'[View] = "cut"
    BY <1>1, <1>2, <1>3, <1>5, <2>2, <2>3 DEF Ordered, SensorIsOwned, OnCamera
  <2> QED
    BY <1>1, <2>1, <2>3, <2>4, <2>5, EmptyIsOrdered
<1>6. CASE pc[p] \in {"queued", "holding", "refused"}
  <2>1. threads' = threads /\ Goes(p, "idle")
    BY <1>6 DEF Unwinds, LeavesThread, CleanUp, Calls, StreamEnds, LeavesPaused
  <2>2. disturbed' = disturbed
    <3>1. disturbed = FALSE /\ disturbed' = (disturbed \/ (p = View /\ pc[p] = "roll"))
      BY <1>1 DEF TypeOK, Unwinds
    <3> QED
      BY <1>1, <3>1
  <2>3. UNCHANGED hardware
    BY <1>1, <2>1, <2>2 DEF hardware, settings
  <2> QED
    BY <1>1, <1>6, <2>1, <2>3, Went, QuietKeeps DEF Before, OnCamera
<1> QED
  BY <1>1, <1>2, <1>4, <1>5, <1>6 DEF Phases, Calls

\* The oldest of the threads left behind ends; with a younger one first, a call would
\* be overtaken.
LEMMA ThreadEndingKeeps ==
  ASSUME TypeOK, LocksAgree, PhasesAgree, InOrder, ~disturbed',
         NEW i \in DOMAIN threads, ThreadEnds(i)
  PROVE  Ordered'
<1> DEFINE n == Len(threads)
           call == threads[1].call
<1>1. /\ i \in 1..n /\ n \in Nat /\ Len(threads') = n - 1 /\ DOMAIN threads' = 1..(n - 1)
      /\ \A j \in 1..(n - 1) : threads'[j] = IF j < i THEN threads[j] ELSE threads[j + 1]
      /\ threads[i].by \in Parties
  BY ThreadGone, LenProperties DEF ThreadType
<1>2. ~disturbed /\ Ordered /\ i = 1 /\ pc' = pc
  <2>1. ~SetsPartly(threads[i].by)
    BY DEF SetsPartly
  <2>2. disturbed' = (disturbed \/ i > 1) /\ pc' = pc
    BY <2>1 DEF ThreadEnds
  <2>3. ~disturbed /\ ~(i > 1)
    BY <2>2
  <2> QED
    BY <1>1, <2>2, <2>3 DEF InOrder
<1>3. \A j \in 1..(n - 1) : threads'[j] = threads[j + 1] /\ j + 1 \in 1..n
  BY <1>1, <1>2
<1>4. /\ n > 0 /\ threads # <<>> /\ DOMAIN threads = 1..n
      /\ threads' # <<>> <=> n - 1 > 0
  BY <1>1, LenProperties
<1>5. \/ call = "prepare" /\ Sets(threads[1].by)
      \/ call # "prepare" /\ setup' = setup /\ applied' = applied
  BY <1>2 DEF ThreadEnds, SetsPartly, settings
<1>6. sensor' = CASE call = "arm" /\ sensor = "idle" -> "exposing"
                  [] call = "roll" /\ sensor = "idle" -> "video"
                  [] call = "disarm" /\ sensor = "exposing" -> "idle"
                  [] call = "cut" /\ sensor = "video" -> "idle"
                  [] OTHER -> sensor
  BY <1>2 DEF ThreadEnds
<1>7. sensor \in {"idle", "exposing", "video"}
  BY DEF TypeOK
<1> HIDE DEF n
<1>8. call \in {"prepare", "arm", "disarm", "cut"}
  BY <1>1, <1>2, <1>4 DEF Ordered, ThreadsInOrder
<1>9. \A j \in 2..n : /\ threads[j].call \in {"prepare", "disarm"}
                      /\ threads[j].call = "disarm" => j = 2 /\ call = "arm"
  BY <1>2, <1>4 DEF Ordered, ThreadsInOrder
<1>10. \A q \in Parties : pc[q] \in OnCamera \ {"prepare"} => pc[q] = "disarm" /\ n = 1 /\ call = "arm"
  BY <1>2, <1>4 DEF Ordered, SetUpIsKept, n
<1>11. View \in Parties /\ (\A q \in Exposers : q \in Parties /\ q # View)
       /\ pc[View] # "disarm"
  BY WhoIsWho DEF PhasesAgree
<1>12. /\ sensor = "exposing" => call = "disarm"
       /\ sensor = "video" => call = "cut"
       /\ call = "arm" => \/ \E q \in Exposers : pc[q] = "disarm"
                          \/ n > 1 /\ threads[2].call = "disarm"
  <2>1. call = "arm" => sensor = "idle"
    BY <1>2, <1>4 DEF Ordered, SensorIsOwned
  <2>2. sensor = "exposing" => call = "disarm"
    BY <1>2, <1>10, <1>11, <2>1 DEF Ordered, SensorIsOwned, OnCamera
  <2>3. sensor = "video" => call = "cut"
    BY <1>2, <1>10, <1>11 DEF Ordered, SensorIsOwned, OnCamera
  <2> QED
    BY <1>2, <1>4, <2>2, <2>3 DEF Ordered, SensorIsOwned, n
<1>13. ThreadsInOrder'
  <2>1. SUFFICES ASSUME NEW j \in 1..(n - 1)
                 PROVE  /\ threads'[j].call \in {"prepare", "disarm"}
                        /\ threads'[j].call = "disarm" => j = 1
    BY <1>1 DEF ThreadsInOrder, n
  <2>2. j + 1 \in 2..n /\ threads'[j] = threads[j + 1]
    BY <1>1, <1>3 DEF n
  <2> QED
    BY <1>9, <2>2
<1>14. SensorIsOwned'
  <2>1. /\ sensor' # "video"
        /\ sensor' = "exposing" => call = "arm"
    BY <1>6, <1>7, <1>8, <1>12
  <2>2. n > 1 /\ threads[2].call = "disarm" => threads' # <<>> /\ threads'[1].call = "disarm"
    BY <1>3, <1>4 DEF n
  <2>3. threads' # <<>> => threads'[1].call # "arm"
    BY <1>3, <1>4, <1>9 DEF n
  <2> QED
    BY <1>2, <1>12, <2>1, <2>2, <2>3 DEF SensorIsOwned
<1>15. SetUpIsKept'
  <2>1. setup' = applied'
    BY <1>2, <1>5 DEF Sets, Ordered, SetUpIsKept
  <2>2. n = 1 => threads' = <<>>
    BY <1>4
  <2>3. \A q \in Parties : pc'[q] \in OnCamera \ {"prepare"} => pc'[q] = "disarm" /\ threads' = <<>>
    BY <1>2, <1>10, <2>2
  <2> QED
    BY <1>11, <2>1, <2>3 DEF SetUpIsKept, OnCamera
<1> QED
  BY <1>13, <1>14, <1>15 DEF Ordered

LEMMA OrderKept ==
  ASSUME SharingInv, [Next]_vars
  PROVE  InOrder'
<1>1. SUFFICES ASSUME ~disturbed'
               PROVE  Ordered'
  BY DEF InOrder
<1>2. TypeOK /\ PhasesAgree /\ LocksAgree /\ InOrder
  BY DEF SharingInv
<1>3. CASE UNCHANGED vars
  BY <1>1, <1>2, <1>3, QuietKeeps DEF vars, hardware, InOrder
<1>4. ASSUME NEW p \in Exposers, Enter(p) \/ Leave(p) \/ CancelTask(p)
      PROVE  Ordered'
  <2>1. ~disturbed /\ UNCHANGED hardware
    BY <1>1, <1>4 DEF Enter, Leave, CancelTask, hardware
  <2>2. \/ pc' = pc
        \/ pc[p] \in {"idle", "holding", "refused"} /\ (Goes(p, "queued") \/ Goes(p, "idle"))
    BY <1>4 DEF Enter, Leave, CancelTask, LeavesPaused
  <2>3. p \in Parties
    BY WhoIsWho
  <2> QED
    BY <1>2, <2>1, <2>2, <2>3, Went, QuietKeeps DEF InOrder, Before, OnCamera
<1>5. CASE UpdateConfig
  BY <1>1, <1>2, <1>5, QuietKeeps DEF UpdateConfig, hardware, InOrder
<1> QED
  BY <1>1, <1>2, <1>3, <1>4, <1>5, ExposureKeeps, FilmingKeeps, AbortKeeps, UnwindingKeeps,
     ThreadEndingKeeps DEF Next

-----------------------------------------------------------------------------
(* The theorems                                                            *)

LEMMA SharingInvariant == Spec => []SharingInv
<1>1. Init => SharingInv
  <2> SUFFICES ASSUME Init PROVE SharingInv
    OBVIOUS
  <2>1. /\ lock = <<>> /\ threads = <<>> /\ cam = None /\ setup = None /\ applied = None
        /\ cancelled = {} /\ sensor = "idle" /\ shown = "idle" /\ ~disturbed /\ disturbed \in BOOLEAN
        /\ enabled \in BOOLEAN /\ paused \in BOOLEAN /\ resting \in BOOLEAN
        /\ pc \in [Parties -> Phases] /\ \A p \in Parties : pc[p] = "idle"
    BY DEF Init, Phases
  <2>2. TypeOK
    BY <2>1 DEF TypeOK, IsInjective
  <2>3. \A p \in Lockers : p \in Parties
    BY WhoIsWho DEF Lockers
  <2>4. PhasesAgree /\ LocksAgree
    BY <2>1, <2>3, WhoIsWho DEF PhasesAgree, LocksAgree, OnCamera
  <2>5. Ordered
    BY <2>1, WhoIsWho DEF Ordered, ThreadsInOrder, SensorIsOwned, SetUpIsKept, OnCamera
  <2> QED
    BY <2>2, <2>4, <2>5 DEF SharingInv, InOrder
<1>2. SharingInv /\ [Next]_vars => SharingInv'
  BY TypeKept, PlacesKept, OrderKept DEF SharingInv
<1> QED
  BY <1>1, <1>2, PTL DEF Spec

\* The fields of PreviewService and ZwoCamera hold what the code puts there.
THEOREM TypeSafety == Spec => []TypeOK
BY SharingInvariant, PTL DEF SharingInv

\* expose and _prepare: whoever is about to start an exposure finds the sensor at
\* rest, as long as nothing is left behind, and set up for it.
THEOREM ExposuresStartClean == Spec => []SensorIsReady
<1>1. SharingInv => SensorIsReady
  <2> SUFFICES ASSUME SharingInv, ~disturbed, NEW p \in Exposers, pc[p] = "arm"
               PROVE  (threads = <<>> => sensor = "idle") /\ setup = p
    BY DEF SensorIsReady
  <2>1. p \in Parties /\ TypeOK /\ LocksAgree /\ Ordered
    BY WhoIsWho DEF SharingInv, InOrder
  <2> QED
    BY <2>1, AtRest DEF Ordered, SetUpIsKept
<1> QED
  BY <1>1, SharingInvariant, PTL

\* paused(): when everybody who exposes stands the view down first, nobody is told that
\* the camera is busy.
THEOREM NobodyIsRefused ==
  ASSUME Askers = {}
  PROVE  Spec => []ClaimsAreServed
<1>1. Init => ClaimsAreServed
  BY DEF Init, ClaimsAreServed, Parties
<1>2. SharingInv /\ ClaimsAreServed /\ [Next]_vars => ClaimsAreServed'
  <2> SUFFICES ASSUME SharingInv, ClaimsAreServed, [Next]_vars
               PROVE  ClaimsAreServed'
    OBVIOUS
  <2>1. TypeOK /\ PhasesAgree /\ LocksAgree
    BY DEF SharingInv
  <2>2. ASSUME NEW p \in Exposers, Expose(p)
        PROVE  ClaimsAreServed'
    <3>1. p \in Users /\ p \in Parties /\ p \in Lockers /\ None \notin Parties
          /\ pc[p] = "holding"
      BY <2>2, WhoIsWho DEF Expose, ClaimsAreServed
    <3>2. Holds(p)
      BY <2>1, <3>1 DEF LocksAgree
    <3>3. cam = None
      <4> SUFFICES ASSUME cam \in Parties PROVE FALSE
        BY <2>1 DEF TypeOK
      <4>1. pc[cam] \in OnCamera /\ cam \in Lockers
        BY <2>1 DEF LocksAgree, Parties, Exposers, Lockers
      <4>2. Holds(cam)
        BY <2>1, <4>1 DEF LocksAgree, OnCamera
      <4> QED
        BY <3>1, <3>2, <4>1, <4>2 DEF Holds, OnCamera
    <3> QED
      BY <2>1, <2>2, <3>1, <3>3, Went DEF Expose, ClaimsAreServed, Parties
  <2>3. ASSUME NEW p, NEW phase, GoesTo(p, phase), phase # "refused"
        PROVE  ClaimsAreServed'
    BY <2>1, <2>3, Went DEF GoesTo, ClaimsAreServed, Parties
  <2>4. CASE Nobody \/ UNCHANGED vars
    BY <2>4 DEF Nobody, vars, ClaimsAreServed
  <2> QED
    BY <2>1, <2>2, <2>3, <2>4, StepsGo
<1> QED
  BY <1>1, <1>2, SharingInvariant, PTL DEF Spec

-----------------------------------------------------------------------------
(* The view's lock and the camera's implement ExclusiveUse                 *)

\* Whoever is past the line for the preview's lock has the live view out of the
\* way, or is the live view.
Inside(p) == p \in Lockers /\ pc[p] \notin {"idle", "queued"}
Insider == IF \E p \in Lockers : Inside(p) THEN CHOOSE p \in Lockers : Inside(p) ELSE None

Turn == INSTANCE ExclusiveUse WITH Users <- Lockers, Nobody <- None, user <- Insider
TurnsAreExclusive == Turn!Spec

\* Whoever has the camera's lock has the camera.
Sensor == INSTANCE ExclusiveUse WITH Users <- Parties, Nobody <- None, user <- cam
SensorIsExclusive == Sensor!Spec

\* There is one insider at most, and it is the head of the line.
LEMMA InsiderIsOne ==
  ASSUME LocksAgree
  PROVE  /\ \A p \in Lockers : Inside(p) => Insider = p
         /\ (\A p \in Lockers : ~Inside(p)) => Insider = None
<1>1. \A p, q \in Lockers : Inside(p) /\ Inside(q) => p = q
  BY DEF LocksAgree, Inside, Holds
<1> QED
  BY <1>1 DEF Insider

\* The same after a step.
LEMMA InsiderIsOneNext ==
  ASSUME LocksAgree'
  PROVE  /\ \A p \in Lockers : Inside(p)' => Insider' = p
         /\ (\A p \in Lockers : ~Inside(p)') => Insider' = None
<1>1. \A p, q \in Lockers : Inside(p)' /\ Inside(q)' => p = q
  BY DEF LocksAgree, Inside, Holds
<1> QED
  BY <1>1 DEF Insider

\* A step lets one party in, to an empty room, or out, or neither.
LEMMA StepTurn ==
  ASSUME TypeOK, PhasesAgree, LocksAgree, [Next]_vars
  PROVE  [Turn!Next]_Insider
<1>1. LocksAgree'
  BY PlacesKept
<1>2. CASE UNCHANGED pc
  BY <1>2 DEF Insider, Inside
<1>3. ASSUME NEW p, NEW phase, GoesTo(p, phase)
      PROVE  [Turn!Next]_Insider
  <2>1. \A q \in Lockers : q # p => (Inside(q)' <=> Inside(q))
    BY <1>3 DEF TypeOK, GoesTo, Goes, Inside, Lockers, Parties, Exposers
  <2>2. CASE \A q \in Lockers : Inside(q)' <=> Inside(q)
    <3>1. CASE \E q \in Lockers : Inside(q)
      BY <1>1, <2>2, <3>1, InsiderIsOne, InsiderIsOneNext
    <3>2. CASE \A q \in Lockers : ~Inside(q)
      BY <1>1, <2>2, <3>2, InsiderIsOne, InsiderIsOneNext
    <3> QED
      BY <3>1, <3>2
  <2>3. CASE p \in Lockers /\ Inside(p)' /\ ~Inside(p)
    <3>1. \A q \in Lockers : ~Inside(q)
      BY <1>1, <2>1, <2>3, InsiderIsOneNext
    <3>2. Insider = None /\ Insider' = p
      BY <1>1, <2>3, <3>1, InsiderIsOne, InsiderIsOneNext
    <3> QED
      BY <2>3, <3>2 DEF Turn!Next, Turn!Take
  <2>4. CASE p \in Lockers /\ ~Inside(p)' /\ Inside(p)
    <3>1. \A q \in Lockers : ~Inside(q)'
      BY <2>1, <2>4, InsiderIsOne
    <3>2. Insider = p /\ Insider' = None /\ p # None
      BY <1>1, <2>4, <3>1, InsiderIsOne, InsiderIsOneNext, WhoIsWho DEF Lockers
    <3> QED
      BY <3>2 DEF Turn!Next, Turn!Leave
  <2> QED
    BY <2>1, <2>2, <2>3, <2>4
<1> QED
  BY <1>2, <1>3, StepsGo DEF Nobody, vars

\* A step takes the camera from nobody, gives it back, or neither.
LEMMA StepSensor ==
  ASSUME TypeOK, PhasesAgree, LocksAgree, [Next]_vars
  PROVE  [Sensor!Next]_cam
<1>1. ASSUME NEW p, NEW phase, GoesTo(p, phase)
      PROVE  [Sensor!Next]_cam
  <2>1. p \in Parties /\ p # None
    BY <1>1, WhoIsWho DEF GoesTo
  <2> QED
    BY <1>1, <2>1 DEF GoesTo, CameraFollows, Sensor!Next, Sensor!Take, Sensor!Leave
<1> QED
  BY <1>1, StepsGo DEF Nobody, vars

\* paused() and _stream: whoever waits, is interrupted or cancelled, and wherever a
\* call fails, the preview's lock admits one after another and never two: either the
\* live view has the camera, or one of those who stood it down.
THEOREM OneAtATimeInside == Spec => TurnsAreExclusive
<1>1. Init => Turn!Init
  BY WhoIsWho DEF Init, Turn!Init, Insider, Inside, Lockers, Parties, Exposers
<1>2. SharingInv /\ [Next]_vars => [Turn!Next]_Insider
  BY StepTurn DEF SharingInv
<1> QED
  BY <1>1, <1>2, SharingInvariant, PTL DEF Spec, TurnsAreExclusive, Turn!Spec

\* expose and stream: the camera's own lock, tested and taken without an await between
\* and given back on every way out, passes from one to the next, those who do not
\* stand the view down included.
THEOREM OneOnTheCamera == Spec => SensorIsExclusive
<1>1. Init => Sensor!Init
  BY DEF Init, Sensor!Init
<1>2. SharingInv /\ [Next]_vars => [Sensor!Next]_cam
  BY StepSensor DEF SharingInv
<1> QED
  BY <1>1, <1>2, SharingInvariant, PTL DEF Spec, SensorIsExclusive, Sensor!Spec
=============================================================================
