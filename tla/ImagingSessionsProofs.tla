------------------------ MODULE ImagingSessionsProofs ------------------------
(***************************************************************************)
(* Proofs about ImagingSessions, for any number of sessions, names and     *)
(* frames, and whatever the operator starts, changes and deletes.          *)
(***************************************************************************)
EXTENDS ImagingSessions, FiniteSetTheorems, TLAPS

-----------------------------------------------------------------------------
(* The inductive invariant                                                 *)

Early == {"submitted", "cooling", "testing"}

\* What a running task carries: the library's darks may be nobody's, a
\* session's frames are counted on from the frames there were to the number
\* asked for, and a frame is carried only while it is written.
TaskAgrees(t) ==
  /\ t.library => t.kind = "dark"
  /\ t.session = None => t.library
  /\ t.session # None => saved[t.session] # None
  /\ t.pc = "testing" => t.kind = "flat"
  /\ t.pc \in Early => t.base = 0 /\ t.index = 1 /\ t.total = Count
  /\ t.base + t.total = Count /\ t.index <= t.total
  /\ t.pc = "writing" <=> t.frame # None

\* The frame it carries is the newest there is, of its group's present take.
FrameAgrees(t) ==
  t.pc = "writing" =>
    /\ t.frame.number = shot /\ \A f \in files \cup strays : f.number < shot
    /\ t.frame.session = t.session /\ t.frame.kind = t.kind
    /\ t.frame.kept /\ ~t.frame.stray /\ t.frame.listed = "no"
    /\ t.library => t.frame.folder = Label(t)
    /\ ~t.library => t.frame.folder \in Names /\ t.frame.take = take[t.session][t.kind]

TaskIsSound == Busy => TaskAgrees(task) /\ FrameAgrees(task)

\* Frames are finitely many and numbered; the ones still written for nobody are
\* in no table.
FramesAreNumbered ==
  /\ IsFiniteSet(files)
  /\ \A f \in files \cup strays : f.number <= shot
  /\ \A f \in strays : f.stray /\ f.listed = "no"

\* Names not shared, a folder is one session's, and all in it is that session's.
FoldersAreOwned ==
  ~Shared => \A s \in Sessions : Exists(s) =>
    /\ \A o \in Sessions : Exists(o) /\ saved[o].name = saved[s].name => o = s
    /\ \A f \in files \cup strays : f.folder = saved[s].name => f.session = s
    /\ Busy /\ task.pc = "writing" /\ task.frame.folder = saved[s].name
         => task.frame.session = s

\* As many frames are in the folder as the session counts, and as the task will
\* have counted when its next frame is.
TaskCounts ==
  Busy /\ ~task.library /\ Exists(task.session) =>
    LET n == Cardinality(Counted(task.session, task.kind))
    IN /\ task.pc \in Early => task.done <= n
       /\ task.pc \notin Early => task.base + task.index <= n + 1

FramesAreThere == ~Shared /\ ~torn => TaskCounts /\ CountedIsOnDisk

ImagingInv ==
  /\ TypeOK
  /\ TaskIsSound
  /\ FramesAreNumbered
  /\ FoldersAreOwned
  /\ FramesAreThere
  /\ LinkedFollow
  /\ NothingDangles

-----------------------------------------------------------------------------
(* Groups                                                                  *)

\* The groups of one session follow each other.
Follows(g) ==
  /\ \A k \in DOMAIN Source : g[k].linked => g[k].setup = g[Source[k]].setup
  /\ g["dark"].linked => g["dark"].exposure = g["light"].exposure
  /\ g["darkflat"].linked /\ g["flat"].exposure # NoExposure
       => g["darkflat"].exposure = g["flat"].exposure

Groups == [Kinds -> GroupType]

\* Counting frames of a group changes nothing else of its session.
LEMMA CountingKeeps ==
  ASSUME NEW d \in SessionType, Follows(d.groups), NEW k0 \in Kinds, NEW n \in 0..Count,
         NEW d2, d2 = [d EXCEPT !.groups[k0].captured = n]
  PROVE  /\ d2 \in SessionType /\ d2.name = d.name /\ Follows(d2.groups)
         /\ \A k \in Kinds : d2.groups[k].captured = IF k = k0 THEN n ELSE d.groups[k].captured
<1> DEFINE gs == d.groups
           gs2 == [gs EXCEPT ![k0].captured = n]
<1>1. gs \in [Kinds -> GroupType] /\ Follows(gs) /\ d.name \in Names
  BY DEF SessionType
<1>2. /\ d2 \in [name : Names, groups : [Kinds -> GroupType]] <=> gs2 \in [Kinds -> GroupType]
      /\ d2.name = d.name /\ d2.groups = gs2
  BY DEF SessionType
<1> HIDE DEF gs, gs2
<1>3. /\ gs2 \in [Kinds -> GroupType]
      /\ \A k \in Kinds : /\ gs2[k].captured = IF k = k0 THEN n ELSE gs[k].captured
                         /\ gs2[k].exposure = gs[k].exposure /\ gs2[k].setup = gs[k].setup
                         /\ gs2[k].linked = gs[k].linked
  BY <1>1 DEF GroupType, gs2
<1>4. Follows(gs2)
  BY <1>1, <1>3 DEF Follows, Source, Kinds
<1> QED
  BY <1>2, <1>3, <1>4 DEF SessionType, gs

\* Relinking makes the groups follow, whatever they were, and counts nothing.
LEMMA RelinkFollows ==
  ASSUME NEW g \in Groups
  PROVE  /\ Relink(g) \in Groups /\ Follows(Relink(g))
         /\ \A k \in Kinds : Relink(g)[k].captured = g[k].captured
<1> DEFINE light == g["light"]
           dark == IF g["dark"].linked
                   THEN [g["dark"] EXCEPT !.setup = light.setup, !.exposure = light.exposure]
                   ELSE g["dark"]
           flat == IF g["flat"].linked THEN [g["flat"] EXCEPT !.setup = light.setup] ELSE g["flat"]
           darkflat == IF g["darkflat"].linked
                       THEN [g["darkflat"] EXCEPT !.setup = flat.setup,
                               !.exposure = IF flat.exposure = NoExposure THEN @ ELSE flat.exposure]
                       ELSE g["darkflat"]
           r == [g EXCEPT !["dark"] = dark, !["flat"] = flat, !["darkflat"] = darkflat]
<1>1. g["light"] \in GroupType /\ g["dark"] \in GroupType /\ g["flat"] \in GroupType
      /\ g["darkflat"] \in GroupType
  BY DEF Groups, Kinds
<1>2. dark \in GroupType /\ dark.captured = g["dark"].captured /\ dark.linked = g["dark"].linked
      /\ (dark.linked => dark.setup = light.setup /\ dark.exposure = light.exposure)
  BY <1>1 DEF GroupType
<1>3. flat \in GroupType /\ flat.captured = g["flat"].captured /\ flat.linked = g["flat"].linked
      /\ flat.exposure = g["flat"].exposure
      /\ (flat.linked => flat.setup = light.setup)
  BY <1>1 DEF GroupType
<1> HIDE DEF flat
<1>4. /\ darkflat \in GroupType /\ darkflat.captured = g["darkflat"].captured
      /\ darkflat.linked = g["darkflat"].linked
      /\ darkflat.linked => /\ darkflat.setup = flat.setup
                            /\ flat.exposure # NoExposure => darkflat.exposure = flat.exposure
  BY <1>1, <1>3 DEF GroupType
<1>5. Relink(g) = r
  BY DEF Relink, flat
<1> HIDE DEF dark, darkflat
<1>6. r["light"] = light /\ r["dark"] = dark /\ r["flat"] = flat /\ r["darkflat"] = darkflat
      /\ r \in Groups
  BY <1>1, <1>2, <1>3, <1>4 DEF Groups, Kinds
<1> HIDE DEF r
<1>7. Follows(r)
  BY <1>2, <1>3, <1>4, <1>6 DEF Follows, Source
<1>8. \A k \in Kinds : r[k].captured = g[k].captured
  BY <1>2, <1>3, <1>4, <1>6 DEF Kinds
<1> QED
  BY <1>5, <1>6, <1>7, <1>8

\* What the operator types is a value of its field.
LEMMA PatchedTyped ==
  ASSUME NEW g \in Groups, NEW p \in Patches
  PROVE  /\ Patched(g, p[1], p[2], p[3]) \in Groups
         /\ \A k \in Kinds : Patched(g, p[1], p[2], p[3])[k].captured = g[k].captured
<1>1. PICK k \in Kinds, field \in {"exposure", "setup", "linked"} :
        /\ p[1] = k /\ p[2] = field
        /\ field = "linked" => p[3] \in BOOLEAN
        /\ field # "linked" => p[3] \in Nat
  BY PatchesAssumption
<1> DEFINE v == p[3]
           typed == CASE field = "exposure" -> [g[k] EXCEPT !.exposure = v]
                      [] field = "setup"    -> [g[k] EXCEPT !.setup = v]
                      [] field = "linked"   -> [g[k] EXCEPT !.linked = v]
           owned == IF k # "light" /\ field # "linked"
                    THEN [typed EXCEPT !.linked = FALSE] ELSE typed
           final == IF k = "flat" /\ field = "exposure"
                    THEN [owned EXCEPT !.auto = v = NoExposure] ELSE owned
<1>2. g[k] \in GroupType
  BY DEF Groups
<1> HIDE DEF v
<1>3. typed \in GroupType /\ typed.captured = g[k].captured
  BY <1>1, <1>2 DEF GroupType, v
<1> HIDE DEF typed
<1>4. owned \in GroupType /\ owned.captured = g[k].captured
  BY <1>3 DEF GroupType
<1> HIDE DEF owned
<1>5. final \in GroupType /\ final.captured = g[k].captured
  BY <1>4 DEF GroupType
<1>6. Patched(g, p[1], p[2], p[3]) = [g EXCEPT ![k] = final]
  BY <1>1 DEF Patched, v, typed, owned
<1> HIDE DEF final
<1> QED
  BY <1>5, <1>6 DEF Groups

\* A session just made has counted nothing, and its groups follow.
LEMMA NewSessionTyped ==
  ASSUME NEW n \in Names
  PROVE  /\ NewSession(n) \in SessionType /\ NewSession(n).name = n
         /\ Follows(NewSession(n).groups)
         /\ \A k \in Kinds : NewSession(n).groups[k].captured = 0
<1> DEFINE g == [k \in Kinds |-> NewGroup(k)]
<1>1. \A k \in Kinds : NewGroup(k) \in GroupType /\ NewGroup(k).captured = 0
  BY CountAssumption DEF NewGroup, GroupType, NoExposure
<1>2. g \in Groups /\ \A k \in Kinds : g[k].captured = 0
  BY <1>1 DEF Groups
<1>3. NewSession(n) = [name |-> n, groups |-> Relink(g)]
  BY DEF NewSession
<1> HIDE DEF g
<1> QED
  BY <1>2, <1>3, RelinkFollows DEF SessionType, Groups

-----------------------------------------------------------------------------
(* Frames moved aside                                                      *)

\* f2 is f where it is now: the same frame, still in its folder only if it was.
SameFrame(f2, f) ==
  /\ f2.number = f.number /\ f2.session = f.session /\ f2.kind = f.kind
  /\ f2.folder = f.folder /\ f2.take = f.take /\ f2.stray = f.stray
  /\ f2.kept => f2 = f

\* files' are the files there were, some of them moved.
Moves(moved) ==
  /\ \A f2 \in files' : f2 \in FrameType /\ \E f \in files : SameFrame(f2, f)
  /\ files \ moved \subseteq files'
  /\ IsFiniteSet(files')

\* An image of the files is finite, each of its elements where f went.
LEMMA Imaged ==
  ASSUME IsFiniteSet(files), NEW to \in [files -> FrameType],
         files' = {to[f] : f \in files}
  PROVE  IsFiniteSet(files')
<1>1. to \in Surjection(files, files')
  BY DEF Surjection
<1> QED
  BY <1>1, FS_Surjection

\* Setting frames aside moves them, and a row that said where its frame was
\* says where it is.
LEMMA AsideMoves ==
  ASSUME IsFiniteSet(files), \A f \in files : f \in FrameType, NEW moved, files' = Aside(moved)
  PROVE  /\ Moves(moved)
         /\ (\A f \in files : f.listed # "no" => (f.listed = "kept") = f.kept)
              => \A f \in files' : f.listed # "no" => (f.listed = "kept") = f.kept
<1> DEFINE Where(f) == IF f \notin moved THEN f
                       ELSE [f EXCEPT !.kept = FALSE, !.listed = IF @ = "no" THEN @ ELSE "aside"]
           to == [f \in files |-> Where(f)]
<1>1. \A f \in FrameType :
        /\ Where(f) \in FrameType /\ SameFrame(Where(f), f)
        /\ f \notin moved => Where(f) = f
        /\ (f.listed # "no" => (f.listed = "kept") = f.kept)
             => (Where(f).listed # "no" => (Where(f).listed = "kept") = Where(f).kept)
  <2> SUFFICES ASSUME NEW f \in FrameType
               PROVE  /\ Where(f) \in FrameType /\ SameFrame(Where(f), f)
                      /\ f \notin moved => Where(f) = f
                      /\ (f.listed # "no" => (f.listed = "kept") = f.kept)
                           => (Where(f).listed # "no" => (Where(f).listed = "kept") = Where(f).kept)
    OBVIOUS
  <2>1. CASE f \notin moved
    BY <2>1 DEF SameFrame
  <2>2. CASE f \in moved
    <3> DEFINE g == [f EXCEPT !.kept = FALSE, !.listed = IF @ = "no" THEN @ ELSE "aside"]
    <3>1. g \in FrameType /\ g.kept = FALSE /\ g.listed \in {"no", "aside"}
      BY DEF FrameType
    <3>2. SameFrame(g, f)
      BY DEF FrameType, SameFrame
    <3>3. Where(f) = g
      BY <2>2
    <3> HIDE DEF g, Where
    <3>4. (Where(f).listed = "kept") = Where(f).kept
      BY <3>1, <3>3
    <3> QED
      BY <2>2, <3>1, <3>2, <3>3, <3>4
  <2> QED
    BY <2>1, <2>2
<1>2. files' = {Where(f) : f \in files}
  BY DEF Aside
<1> HIDE DEF Where
<1>3. to \in [files -> FrameType] /\ files' = {to[f] : f \in files}
  BY <1>1, <1>2
<1>4. IsFiniteSet(files')
  BY <1>3, Imaged
<1> QED
  BY <1>1, <1>2, <1>4 DEF Moves

\* A crash may leave them moved and their rows not.
LEMMA HalfAsideMoves ==
  ASSUME IsFiniteSet(files), \A f \in files : f \in FrameType, NEW moved,
         files' = {IF f \in moved THEN [f EXCEPT !.kept = FALSE] ELSE f : f \in files}
  PROVE  Moves(moved)
<1> DEFINE Where(f) == IF f \in moved THEN [f EXCEPT !.kept = FALSE] ELSE f
           to == [f \in files |-> Where(f)]
<1>1. \A f \in FrameType :
        Where(f) \in FrameType /\ SameFrame(Where(f), f) /\ (f \notin moved => Where(f) = f)
  BY DEF FrameType, SameFrame
<1>2. files' = {Where(f) : f \in files}
  OBVIOUS
<1> HIDE DEF Where
<1>3. to \in [files -> FrameType] /\ files' = {to[f] : f \in files}
  BY <1>1, <1>2
<1>4. IsFiniteSet(files')
  BY <1>3, Imaged
<1> QED
  BY <1>1, <1>2, <1>4 DEF Moves

-----------------------------------------------------------------------------
(* What the task's steps come to                                           *)

CurrentIsSaved == current # None => Exists(current.id) /\ saved[current.id].name = current.name

\* d is the session s with its groups changed: counting no more than it did.
Changes(s, d) ==
  /\ d \in SessionType /\ d.name = saved[s].name /\ Follows(d.groups)
  /\ \A k \in Kinds : d.groups[k].captured <= saved[s].groups[k].captured

\* The copy in memory says only what saving leaves as it was.
LEMMA SaveKeepsTheCopy ==
  ASSUME TypeOK, CurrentIsSaved, NEW s \in Sessions, NEW d \in SessionType,
         d.name = saved[s].name, Save(s, d)
  PROVE  saved' = [saved EXCEPT ![s] = d] /\ current' = current
<1>1. CASE current = None
  BY <1>1 DEF Save, Holds
<1>2. CASE current # None
  BY <1>2 DEF TypeOK, Save, Holds, Copy, CurrentIsSaved
<1> QED
  BY <1>1, <1>2

\* A session's file holds a session, once there is one.
LEMMA ThereIsASession ==
  ASSUME TypeOK, NEW s \in Sessions, Exists(s)
  PROVE  saved[s] \in SessionType
BY DEF TypeOK, Exists

LEMMA EndsTyped ==
  ASSUME TypeOK, Busy, NEW present, Ends(present)
  PROVE  task' = None /\ shelf \subseteq shelf' /\ shelf' \subseteq Nat \X Nat
BY DEF TypeOK, Busy, Ends, Label, TaskType

\* A library run whose set has a frame describes it.
LEMMA EndsDescribed ==
  ASSUME NEW present, Ends(present), task.library, task.pc \in {"exposing", "writing"},
         NEW f \in present, f.folder = Label(task)
  PROVE  f.folder \in shelf'
BY DEF Ends

\* Before the first frame the task goes on, or ends; its session may have been
\* started over.
Starts(t) ==
  /\ t \in TaskType
  /\ t.session = task.session /\ t.library = task.library /\ t.kind = task.kind
  /\ t.frame = None /\ t.index = 1 /\ t.base + t.total = Count
  /\ \/ t.pc = "testing" /\ t.kind = "flat" /\ t.base = 0 /\ t.done = task.done
     \/ t.pc = "exposing" /\ t.base <= task.done

Preparing ==
  /\ \/ task' = None /\ Ends(files)
     \/ Starts(task') /\ shelf' = shelf
  /\ \/ saved' = saved
     \/ /\ task.session \in Sessions /\ Exists(task.session)
        /\ \E d : Changes(task.session, d) /\ saved' = [saved EXCEPT ![task.session] = d]
  /\ current' = current

LEMMA PrepareComesTo ==
  ASSUME TypeOK, TaskIsSound, CurrentIsSaved, Busy, task.pc \in {"cooling", "testing"},
         NEW t \in TaskType,
         t.session = task.session, t.library = task.library, t.kind = task.kind,
         t.done = task.done, t.frame = task.frame, t.base = task.base,
         t.index = task.index, t.total = task.total,
         NEW d,
         t.session # None => \/ d = Gone /\ saved[t.session] = Gone
                             \/ Exists(t.session) /\ Changes(t.session, d),
         Prepare(t, d)
  PROVE  Preparing
<1>1. /\ t.frame = None /\ t.index = 1 /\ t.base = 0 /\ t.total = Count /\ t.done \in 0..Count
      /\ ~t.library => t.session \in Sessions
  BY DEF TaskIsSound, TaskAgrees, Early, TaskType
<1>2. saved \in [Sessions -> SessionType \cup {None, Gone}]
  BY DEF TypeOK
<1>3. t.session # None => \/ d = Gone /\ saved[t.session] = Gone
                          \/ Exists(t.session) /\ Changes(t.session, d) /\ d # Gone
  <2>1. Gone \notin SessionType
    BY ValuesAssumption
  <2> QED
    BY <2>1 DEF Changes
<1>4. t.session \in Sessions \cup {None}
  BY DEF TaskType
<1>5. t.session # None =>
         \/ [saved EXCEPT ![t.session] = d] = saved
         \/ Exists(t.session) /\ Changes(t.session, d)
  BY <1>2, <1>3, <1>4
<1>6. ASSUME NEW b \in 0..Count, NEW n \in 1..Count, b + n = Count, b <= t.done,
              task' = [t EXCEPT !.pc = "exposing", !.base = b, !.total = n]
       PROVE  Starts(task')
  <2>1. task' \in TaskType
    BY <1>6 DEF TaskType
  <2>2. /\ task'.session = t.session /\ task'.library = t.library /\ task'.kind = t.kind
        /\ task'.frame = t.frame /\ task'.index = t.index /\ task'.base = b /\ task'.total = n
        /\ task'.pc = "exposing"
    BY <1>6 DEF TaskType
  <2> QED
    BY <1>1, <1>6, <2>1, <2>2 DEF Starts
<1>7. task' = [t EXCEPT !.pc = "exposing"] => Starts(task')
  <2>1. [t EXCEPT !.pc = "exposing"] = [t EXCEPT !.pc = "exposing", !.base = 0, !.total = Count]
    BY <1>1 DEF TaskType
  <2>2. 0 \in 0..Count /\ Count \in 1..Count /\ 0 + Count = Count /\ 0 <= t.done
    BY <1>1, CountAssumption
  <2> QED
    BY <2>1, <2>2, <1>6
<1>8. /\ t.session = None => t.library
      /\ t.library => t.kind = "dark"
  BY DEF TaskIsSound, TaskAgrees
<1> USE DEF Preparing
<1>9. CASE t.exposure = NoExposure /\ Ends(files) /\ UNCHANGED current
           /\ saved' = IF t.session = None THEN saved ELSE [saved EXCEPT ![t.session] = d]
  <2>1. task' = None
    BY <1>9 DEF Ends
  <2> QED
    BY <2>1, <1>9, <1>4, <1>5
<1>10. CASE t.library /\ task' = [t EXCEPT !.pc = "exposing"] /\ UNCHANGED <<saved, current, shelf>>
  BY <1>10, <1>7
<1>11. CASE /\ ~t.library /\ 0 < t.done /\ t.done < Count
           /\ task' = Resumed(t) /\ saved' = [saved EXCEPT ![t.session] = d]
           /\ UNCHANGED <<current, shelf>>
  <2>1. /\ t.done \in 0..Count /\ Count - t.done \in 1..Count
        /\ t.done + (Count - t.done) = Count /\ t.done <= t.done
    BY <1>1, <1>11, CountAssumption
  <2>2. Starts(task')
    BY <2>1, <1>11, <1>6 DEF Resumed
  <2> QED
    BY <2>2, <1>1, <1>8, <1>11, <1>4, <1>5
<1>12. CASE /\ ~t.library /\ d # Gone /\ task' = [t EXCEPT !.pc = "exposing"]
           /\ Save(t.session, [d EXCEPT !.groups[t.kind].captured = 0])
           /\ UNCHANGED shelf
  <2> DEFINE d2 == [d EXCEPT !.groups[t.kind].captured = 0]
  <2>1. Starts(task')
    BY <1>12, <1>7
  <2>2. Exists(t.session) /\ Changes(t.session, d) /\ d \in SessionType /\ t.kind \in Kinds
        /\ saved[t.session] \in SessionType
    BY <1>1, <1>3, <1>8, <1>12, ThereIsASession DEF Changes, TaskType
  <2>3. d2 \in SessionType /\ d2.name = d.name /\ Follows(d2.groups)
        /\ \A k \in Kinds : d2.groups[k].captured = IF k = t.kind THEN 0 ELSE d.groups[k].captured
    BY <2>2, CountingKeeps, CountAssumption DEF Changes
  <2>4. \A k \in Kinds : saved[t.session].groups[k].captured \in Nat
    BY <2>2, CountAssumption DEF SessionType, GroupType
  <2> HIDE DEF d2
  <2>5. Changes(t.session, d2)
    BY <2>2, <2>3, <2>4 DEF Changes
  <2>6. saved' = [saved EXCEPT ![t.session] = d2] /\ current' = current
    BY <2>5, <1>1, <1>12, SaveKeepsTheCopy DEF Changes, d2
  <2> QED
    BY <2>1, <2>2, <2>5, <2>6, <1>1, <1>12
<1>13. CASE ~t.library /\ Ends(files) /\ UNCHANGED <<saved, current>>
  BY <1>13 DEF Ends
<1> QED
  BY <1>9, <1>10, <1>11, <1>12, <1>13 DEF Prepare

\* A session is no change of itself; relinked from the same groups, one.
LEMMA NoChange ==
  ASSUME TypeOK, LinkedFollow, NEW s \in Sessions, Exists(s)
  PROVE  Changes(s, saved[s])
<1>1. saved[s] \in SessionType /\ Follows(saved[s].groups)
  BY ThereIsASession DEF LinkedFollow, Follows
<1>2. \A k \in Kinds : saved[s].groups[k].captured \in Nat
  BY <1>1, CountAssumption DEF SessionType, GroupType
<1> QED
  BY <1>1, <1>2 DEF Changes

\* A session as it is renamed and its groups relinked.
Renamed(s, n, g) == [saved[s] EXCEPT !.name = n, !.groups = Relink(g)]

LEMMA Relinked ==
  ASSUME TypeOK, NEW s \in Sessions, Exists(s), NEW n \in Names, NEW g \in Groups,
         \A k \in Kinds : g[k].captured = saved[s].groups[k].captured
  PROVE  /\ Renamed(s, n, g) \in SessionType
         /\ Renamed(s, n, g).name = n /\ Renamed(s, n, g).groups = Relink(g)
         /\ Changes(s, [saved[s] EXCEPT !.groups = Relink(g)])
<1>1. Relink(g) \in Groups /\ Follows(Relink(g))
      /\ \A k \in Kinds : Relink(g)[k].captured = g[k].captured
  BY RelinkFollows
<1>2. saved[s] \in SessionType
  BY ThereIsASession
<1>3. \A k \in Kinds : Relink(g)[k].captured <= saved[s].groups[k].captured
  BY <1>1, <1>2, CountAssumption DEF SessionType, GroupType, Groups
<1> DEFINE r == Relink(g)
<1> HIDE DEF r
<1>4. \A d : d = [saved[s] EXCEPT !.name = n, !.groups = r]
             => d \in SessionType /\ d.name = n /\ d.groups = r
  BY <1>1, <1>2 DEF SessionType, Groups, r
<1>5. [saved[s] EXCEPT !.groups = r] \in SessionType /\ [saved[s] EXCEPT !.groups = r].name = saved[s].name
      /\ [saved[s] EXCEPT !.groups = r].groups = r
  BY <1>1, <1>2 DEF SessionType, Groups, r
<1> QED
  BY <1>1, <1>3, <1>4, <1>5 DEF Changes, r, Renamed

LEMMA CoolingEndsComesTo ==
  ASSUME TypeOK, TaskIsSound, CurrentIsSaved, LinkedFollow, CoolingEnds
  PROVE  Preparing
<1>1. Busy /\ task.pc = "cooling" /\ task \in TaskType
  BY DEF CoolingEnds, TypeOK, Busy
<1>2. /\ task.frame = None /\ task.index = 1 /\ task.base = 0 /\ task.total = Count
      /\ task.session # None => saved[task.session] # None /\ task.session \in Sessions
  BY <1>1 DEF TaskIsSound, TaskAgrees, Early, TaskType
<1>3. CASE FindsExposure /\ task' = [task EXCEPT !.pc = "testing"] /\ UNCHANGED <<saved, current, shelf>>
  <2>1. task' \in TaskType
    BY <1>1, <1>3 DEF TaskType
  <2>2. Starts(task')
    BY <1>1, <1>2, <1>3, <2>1, CountAssumption DEF Starts, TaskType, FindsExposure
  <2> QED
    BY <1>3, <2>2 DEF Preparing
<1>4. CASE Prepare(task, IF task.session = None THEN None ELSE saved[task.session])
  <2> DEFINE d == IF task.session = None THEN None ELSE saved[task.session]
  <2>1. task.session # None => \/ d = Gone /\ saved[task.session] = Gone
                               \/ Exists(task.session) /\ Changes(task.session, d)
    BY <1>2, NoChange DEF Exists
  <2> HIDE DEF d
  <2>2. Prepare(task, d)
    BY <1>4 DEF d
  <2> QED
    BY <1>1, <2>1, <2>2, PrepareComesTo
<1> QED
  BY <1>3, <1>4 DEF CoolingEnds

LEMMA ExposureFoundComesTo ==
  ASSUME TypeOK, TaskIsSound, CurrentIsSaved, LinkedFollow, ExposureFound
  PROVE  Preparing
<1>1. Busy /\ task.pc = "testing" /\ task \in TaskType
  BY DEF ExposureFound, TypeOK, Busy
<1>2. PICK e \in Exposures :
        IF Exists(task.session)
        THEN Prepare([task EXCEPT !.exposure = e],
                     [saved[task.session] EXCEPT
                        !.groups = Relink([@ EXCEPT !["flat"].exposure = e])])
        ELSE Ends(files) /\ UNCHANGED <<saved, current>>
  BY DEF ExposureFound
<1>3. task.session \in Sessions
  BY <1>1 DEF TaskIsSound, TaskAgrees, TaskType
<1>4. CASE ~Exists(task.session)
  BY <1>2, <1>4 DEF Preparing, Ends
<1>5. CASE Exists(task.session)
  <2> DEFINE t == [task EXCEPT !.exposure = e]
             g == [saved[task.session].groups EXCEPT !["flat"].exposure = e]
             d == [saved[task.session] EXCEPT !.groups = Relink(g)]
  <2>1. t \in TaskType /\ t.session = task.session /\ t.library = task.library
        /\ t.kind = task.kind /\ t.done = task.done /\ t.frame = task.frame
        /\ t.base = task.base /\ t.index = task.index /\ t.total = task.total
    BY <1>1, ExposureAssumption DEF TaskType
  <2>2. saved[task.session] \in SessionType
    BY <1>3, <1>5, ThereIsASession
  <2>3. g \in Groups
        /\ \A k \in Kinds : g[k].captured = saved[task.session].groups[k].captured
    <3> DEFINE gs == saved[task.session].groups
    <3>1. gs \in [Kinds -> GroupType] /\ e \in Nat /\ "flat" \in Kinds
      BY <2>2, ExposureAssumption DEF SessionType, Kinds
    <3>2. g = [gs EXCEPT !["flat"].exposure = e]
      OBVIOUS
    <3> HIDE DEF gs, g
    <3>3. g \in [Kinds -> GroupType] /\ \A k \in Kinds : g[k].captured = gs[k].captured
      BY <3>1, <3>2 DEF GroupType
    <3> QED
      BY <3>3 DEF Groups, gs
  <2>4. Prepare(t, d)
    BY <1>2, <1>5, <2>2 DEF SessionType
  <2> HIDE DEF g, t
  <2>5. Changes(task.session, d)
    <3>1. saved[task.session].name \in Names
      BY <2>2 DEF SessionType
    <3> QED
      BY <1>3, <1>5, <2>3, <3>1, Relinked
  <2> HIDE DEF d
  <2> QED
    BY <1>1, <1>5, <2>1, <2>4, <2>5, PrepareComesTo
<1> QED
  BY <1>4, <1>5

\* The session once the frame that has just been written is counted.
Filed == [saved[task.session] EXCEPT !.groups[task.kind].captured = task.base + task.index]

FiledRight ==
  /\ Filed \in SessionType /\ Filed.name = saved[task.session].name /\ Follows(Filed.groups)
  /\ Filed.groups[task.kind].captured = task.base + task.index
  /\ \A k \in Kinds \ {task.kind} :
       Filed.groups[k].captured = saved[task.session].groups[k].captured

\* A frame that is written is a new one in its folder, counted if its session is
\* there to count it.
Filing ==
  /\ files' = files \cup {Listed(task.frame)} /\ IsFiniteSet(files')
  /\ Listed(task.frame) \in FrameType /\ Listed(task.frame) \notin files
  /\ \/ task' = None /\ Ends(files')
     \/ /\ task' = NextFrame(task) /\ task' \in TaskType /\ shelf' = shelf
        /\ task.index < task.total
        /\ task.library \/ Exists(task.session)
  /\ current' = current
  /\ \/ saved' = saved /\ (task.library \/ ~Exists(task.session))
     \/ /\ ~task.library /\ task.session \in Sessions /\ Exists(task.session)
        /\ FiledRight /\ saved' = [saved EXCEPT ![task.session] = Filed]

LEMMA FilesAreNew ==
  ASSUME TypeOK, TaskIsSound, FramesAreNumbered, Busy, task.pc = "writing"
  PROVE  /\ task.frame \in FrameType /\ Listed(task.frame) \in FrameType
         /\ task.frame \notin files /\ Listed(task.frame) \notin files
         /\ SameFrame(task.frame, task.frame)
         /\ Listed(task.frame) = [task.frame EXCEPT !.listed = "kept"]
         /\ IsFiniteSet(files \cup {task.frame}) /\ IsFiniteSet(files \cup {Listed(task.frame)})
<1>1. task.frame \in FrameType
  BY ValuesAssumption DEF TypeOK, TaskIsSound, TaskAgrees, TaskType, Busy
<1>2. task.frame.number = shot /\ \A f \in files : f.number < shot
  BY DEF TaskIsSound, FrameAgrees
<1>3. Listed(task.frame) \in FrameType /\ Listed(task.frame).number = task.frame.number
  BY <1>1 DEF FrameType, Listed
<1>4. shot \in Nat /\ IsFiniteSet(files)
  BY DEF TypeOK, FramesAreNumbered
<1>5. ~(shot < shot)
  BY <1>4
<1>6. task.frame \notin files /\ Listed(task.frame) \notin files
  BY <1>2, <1>3, <1>5
<1>7. IsFiniteSet(files \cup {task.frame}) /\ IsFiniteSet(files \cup {Listed(task.frame)})
  BY <1>4, FS_AddElement
<1> QED
  BY <1>1, <1>3, <1>6, <1>7 DEF SameFrame, Listed

LEMMA FrameWrittenComesTo ==
  ASSUME TypeOK, TaskIsSound, FramesAreNumbered, CurrentIsSaved, LinkedFollow, FrameWritten
  PROVE  Filing
<1>1. Busy /\ task.pc = "writing" /\ task \in TaskType /\ files' = files \cup {Listed(task.frame)}
  BY DEF FrameWritten, TypeOK, Busy
<1>2. /\ Listed(task.frame) \in FrameType /\ Listed(task.frame) \notin files /\ IsFiniteSet(files')
  BY <1>1, FilesAreNew
<1>3. /\ task.base \in 0..Count /\ task.index \in 1..Count /\ task.total \in 1..Count
      /\ task.base + task.total = Count /\ task.index <= task.total
      /\ ~task.library => task.session \in Sessions
      /\ task.kind \in Kinds /\ task.library \in BOOLEAN
  BY <1>1 DEF TaskIsSound, TaskAgrees, TaskType
<1>4. task.base + task.index \in 0..Count
  BY <1>3, CountAssumption
<1>5. ~Last(task) => NextFrame(task) \in TaskType /\ task.index < task.total
  <2>1. ~Last(task) => task.index + 1 \in 1..Count /\ task.index < task.total
    BY <1>3, CountAssumption DEF Last
  <2> QED
    BY <1>1, <2>1 DEF TaskType, NextFrame
<1>6. CASE /\ task.library
           /\ IF Last(task) THEN Ends(files') ELSE task' = NextFrame(task) /\ UNCHANGED shelf
           /\ UNCHANGED <<saved, current>>
  BY <1>1, <1>2, <1>5, <1>6 DEF Filing, Ends
<1>7. CASE /\ ~task.library /\ Exists(task.session)
           /\ Save(task.session, Filed)
           /\ IF Last(task) THEN Ends(files') ELSE task' = NextFrame(task) /\ UNCHANGED shelf
  <2>1. saved[task.session] \in SessionType /\ Follows(saved[task.session].groups)
    BY <1>3, <1>7, ThereIsASession DEF LinkedFollow, Follows
  <2>2. FiledRight
    BY <1>3, <1>4, <2>1, CountingKeeps DEF FiledRight, Filed
  <2>3. saved' = [saved EXCEPT ![task.session] = Filed] /\ current' = current
    BY <1>3, <1>7, <2>2, SaveKeepsTheCopy DEF FiledRight
  <2> QED
    BY <1>1, <1>2, <1>3, <1>5, <1>7, <2>2, <2>3 DEF Filing, Ends
<1>8. CASE /\ ~task.library /\ ~Exists(task.session)
           /\ Ends(files') /\ UNCHANGED <<saved, current>>
  BY <1>1, <1>2, <1>8 DEF Filing, Ends
<1> QED
  BY <1>3, <1>6, <1>7, <1>8 DEF FrameWritten, Filed

-----------------------------------------------------------------------------
(* What the requests come to                                               *)

\* A session put in a file: it counts nothing the one there did not, the copy in
\* memory is of it or of another.
Stored(s, d) ==
  /\ d \in SessionType /\ Follows(d.groups)
  /\ saved' = [saved EXCEPT ![s] = d]
  /\ current' \in {current, Copy(s, d)}

LEMMA SaveStores ==
  ASSUME NEW s \in Sessions, NEW d \in SessionType, Follows(d.groups), Save(s, d)
  PROVE  Stored(s, d) /\ (Holds(s) => current' = Copy(s, d))
BY DEF Save, Stored

LEMMA CreateComesTo ==
  ASSUME NEW s \in Sessions, NEW n \in Names, Create(s, n)
  PROVE  /\ saved[s] = None /\ Stored(s, NewSession(n)) /\ current' = Copy(s, NewSession(n))
         /\ NewSession(n).name = n /\ \A k \in Kinds : NewSession(n).groups[k].captured = 0
         /\ Shared \/ Free(s, n)
         /\ UNCHANGED <<task, strays, files, shelf, shot, take, torn>>
BY NewSessionTyped DEF Create, Stored

LEMMA RenameComesTo ==
  ASSUME TypeOK, NEW s \in Sessions, NEW n \in Names, Rename(s, n)
  PROVE  \E d : /\ Exists(s) /\ Stored(s, d) /\ (Holds(s) => current' = Copy(s, d)) /\ d.name = n
                /\ \A k \in Kinds : d.groups[k].captured = saved[s].groups[k].captured
                /\ Shared \/ Free(s, n)
                /\ UNCHANGED <<task, strays, files, shelf, shot, take, torn>>
<1> DEFINE d == [saved[s] EXCEPT !.name = n, !.groups = Relink(@)]
           g == saved[s].groups
<1>1. Exists(s) /\ Save(s, d) /\ (Shared \/ Free(s, n))
      /\ UNCHANGED <<task, strays, files, shelf, shot, take, torn>>
  BY DEF Rename
<1>2. saved[s] \in SessionType /\ g \in Groups
  BY <1>1, ThereIsASession DEF SessionType, Groups
<1>3. d \in SessionType /\ d.name = n /\ d.groups = Relink(g)
  <2>1. d = Renamed(s, n, g)
    BY <1>2 DEF SessionType, Renamed
  <2>2. \A k \in Kinds : g[k].captured = saved[s].groups[k].captured
    OBVIOUS
  <2> HIDE DEF d, g
  <2> QED
    BY <1>1, <1>2, <2>1, <2>2, Relinked
<1> HIDE DEF d
<1>4. Follows(d.groups) /\ \A k \in Kinds : d.groups[k].captured = saved[s].groups[k].captured
  BY <1>2, <1>3, RelinkFollows
<1> QED
  BY <1>1, <1>3, <1>4, SaveStores

LEMMA PatchComesTo ==
  ASSUME TypeOK, CurrentIsSaved, NEW s \in Sessions, NEW p \in Patches, Patch(s, p)
  PROVE  \E d : /\ Exists(s) /\ Changes(s, d) /\ saved' = [saved EXCEPT ![s] = d]
                /\ UNCHANGED <<current, task, strays, files, shelf, shot, take, torn>>
<1> DEFINE g == Patched(saved[s].groups, p[1], p[2], p[3])
           d == [saved[s] EXCEPT !.groups = Relink(g)]
<1>1. Exists(s) /\ UNCHANGED <<task, strays, files, shelf, shot, take, torn>>
  BY DEF Patch
<1>2. saved[s] \in SessionType /\ saved[s].groups \in Groups /\ saved[s].name \in Names
  BY <1>1, ThereIsASession DEF SessionType, Groups
<1>3. g \in Groups /\ \A k \in Kinds : g[k].captured = saved[s].groups[k].captured
  BY <1>2, PatchedTyped
<1>4. Save(s, d)
  BY <1>2 DEF Patch, SessionType
<1> HIDE DEF g
<1>5. Changes(s, d)
  BY <1>1, <1>2, <1>3, Relinked
<1> HIDE DEF d
<1> QED
  BY <1>1, <1>4, <1>5, SaveKeepsTheCopy DEF Changes

\* A task made of a session, or of none for the library.
Made ==
  /\ ~Busy /\ task' \in TaskType
  /\ task'.pc = "submitted" /\ task'.frame = None
  /\ task'.base = 0 /\ task'.total = Count /\ task'.index = 1
  /\ task'.library => task'.kind = "dark"
  /\ task'.session = None => task'.library
  /\ task'.session # None => Exists(task'.session)

\* A task just made has shot nothing, and takes up what its group had.
LEMMA GroupTaskMade ==
  ASSUME NEW s \in Sessions \cup {None}, NEW k \in Kinds, NEW group \in GroupType,
         NEW library \in BOOLEAN,
         ~Busy, task' = GroupTask(s, k, group, library),
         library => k = "dark", s = None => library, s # None => Exists(s)
  PROVE  /\ Made
         /\ task'.session = s /\ task'.kind = k /\ task'.library = library
         /\ task'.done = group.captured
<1> DEFINE t == GroupTask(s, k, group, library)
<1>1. t \in TaskType
  BY CountAssumption DEF GroupTask, GroupType, TaskType
<1>2. /\ t.session = s /\ t.kind = k /\ t.library = library /\ t.done = group.captured
      /\ t.pc = "submitted" /\ t.frame = None
      /\ t.base = 0 /\ t.total = Count /\ t.index = 1
  BY DEF GroupTask
<1>3. task' = t
  OBVIOUS
<1> HIDE DEF t
<1> QED
  BY <1>1, <1>2, <1>3 DEF Made

\* A group of which c frames are counted.
Retaken(x, c, a) == [x EXCEPT !.captured = c, !.auto = a]

\* A redo counts the groups it redoes from nothing, and sets their frames aside.
Redoes(s, k, redo, d) ==
  /\ ~Busy /\ Exists(s) /\ redo \subseteq Kinds /\ k \in redo
  /\ d \in SessionType /\ d.name = saved[s].name
  /\ Follows(saved[s].groups) => Follows(d.groups)
  /\ \A r \in Kinds : d.groups[r].captured = IF r \in redo THEN 0 ELSE saved[s].groups[r].captured
  /\ saved' = [saved EXCEPT ![s] = d]
  /\ task' = GroupTask(s, k, d.groups[k], FALSE)
  /\ files' = Aside(UNION {InFolder(s, r) : r \in redo})
  /\ take' \in [Sessions -> [Kinds -> Nat]]
  /\ \A o \in Sessions, r \in Kinds : o # s \/ r \notin redo => take'[o][r] = take[o][r]
  /\ UNCHANGED <<current, strays, shelf, shot, torn>>

LEMMA RedoComesTo ==
  ASSUME TypeOK, NEW s \in Sessions, NEW k \in Kinds, NEW also \in BOOLEAN, Redo(s, k, also)
  PROVE  \E redo, d : Redoes(s, k, redo, d)
<1> DEFINE redo == Redone(k, also)
           g == saved[s].groups
           groups == [r \in Kinds |->
                        [g[r] EXCEPT !.captured = IF r \in redo THEN 0 ELSE @,
                                     !.auto = IF r = "flat" /\ k = "flat" THEN TRUE ELSE @]]
           d == [saved[s] EXCEPT !.groups = groups]
<1>1. /\ Exists(s) /\ Submit(GroupTask(s, k, groups[k], FALSE))
      /\ files' = Aside(UNION {InFolder(s, r) : r \in redo})
      /\ saved' = [saved EXCEPT ![s].groups = groups]
      /\ take' = [take EXCEPT ![s] = [r \in Kinds |-> @[r] + IF r \in redo THEN 1 ELSE 0]]
      /\ UNCHANGED <<current, strays, shelf, shot, torn>>
  BY DEF Redo
<1>2. redo \subseteq Kinds /\ k \in redo
  BY DEF Redone, Kinds
<1>3. saved[s] \in SessionType /\ g \in Groups
  BY <1>1, ThereIsASession DEF SessionType, Groups
<1> HIDE DEF redo, g
<1>4. \A r \in Kinds : g[r] \in GroupType
  BY <1>3 DEF Groups
<1>5. \A r \in Kinds :
        /\ groups[r] \in GroupType
        /\ groups[r].captured = IF r \in redo THEN 0 ELSE g[r].captured
        /\ groups[r].linked = g[r].linked /\ groups[r].setup = g[r].setup
        /\ groups[r].exposure = g[r].exposure
  <2> SUFFICES ASSUME NEW r \in Kinds
               PROVE  /\ groups[r] \in GroupType
                      /\ groups[r].captured = IF r \in redo THEN 0 ELSE g[r].captured
                      /\ groups[r].linked = g[r].linked /\ groups[r].setup = g[r].setup
                      /\ groups[r].exposure = g[r].exposure
    OBVIOUS
  <2>1. \A x \in GroupType, c \in 0..Count, a \in BOOLEAN :
          LET y == Retaken(x, c, a)
          IN /\ y \in GroupType /\ y.captured = c /\ y.linked = x.linked /\ y.setup = x.setup
             /\ y.exposure = x.exposure
    BY DEF GroupType, Retaken
  <2> DEFINE c == IF r \in redo THEN 0 ELSE g[r].captured
             a == IF r = "flat" /\ k = "flat" THEN TRUE ELSE g[r].auto
  <2>2. c \in 0..Count /\ a \in BOOLEAN
    <3>1. g[r].captured \in 0..Count /\ g[r].auto \in BOOLEAN /\ 0 \in 0..Count
      BY <1>4, CountAssumption DEF GroupType
    <3>2. CASE r = "flat" /\ k = "flat"
      BY <3>1, <3>2
    <3>3. CASE ~(r = "flat" /\ k = "flat")
      BY <3>1, <3>3
    <3> QED
      BY <3>2, <3>3
  <2>3. groups[r] = Retaken(g[r], c, a)
    BY <1>4 DEF GroupType, Retaken
  <2>4. c = IF r \in redo THEN 0 ELSE g[r].captured
    OBVIOUS
  <2> HIDE DEF groups, c, a
  <2> QED
    BY <1>4, <2>1, <2>2, <2>3, <2>4
<1>6. groups \in Groups
  BY <1>5 DEF Groups
<1>7. d \in SessionType /\ d.name = saved[s].name /\ d.groups = groups
  BY <1>3, <1>6 DEF SessionType, Groups
<1>8. saved' = [saved EXCEPT ![s] = d]
  BY <1>1
<1> HIDE DEF groups, d
<1>9. Follows(g) => Follows(groups)
  BY <1>5 DEF Follows, Source, Kinds
<1>10. /\ take' \in [Sessions -> [Kinds -> Nat]]
       /\ \A o \in Sessions, r \in Kinds : o # s \/ r \notin redo => take'[o][r] = take[o][r]
  <2> DEFINE here == [r \in Kinds |-> take[s][r] + IF r \in redo THEN 1 ELSE 0]
  <2>1. take \in [Sessions -> [Kinds -> Nat]]
    BY DEF TypeOK
  <2>2. here \in [Kinds -> Nat] /\ \A r \in Kinds : r \notin redo => here[r] = take[s][r]
    BY <2>1
  <2>3. take' = [take EXCEPT ![s] = here]
    BY <1>1
  <2> HIDE DEF here
  <2> QED
    BY <2>1, <2>2, <2>3
<1>11. ~Busy /\ task' = GroupTask(s, k, d.groups[k], FALSE)
  BY <1>1, <1>7 DEF Submit
<1>12. \A r \in Kinds : d.groups[r].captured = IF r \in redo THEN 0 ELSE saved[s].groups[r].captured
  BY <1>5, <1>7 DEF g
<1>13. Follows(saved[s].groups) => Follows(d.groups)
  BY <1>7, <1>9 DEF g
<1>14. Redoes(s, k, redo, d)
  BY <1>1, <1>2, <1>7, <1>8, <1>10, <1>11, <1>12, <1>13 DEF Redoes
<1> QED
  BY <1>14

-----------------------------------------------------------------------------
(* What any step comes to                                                  *)

Created(s, d) ==
  /\ saved[s] = None /\ Stored(s, d) /\ current' = Copy(s, d)
  /\ \A k \in Kinds : d.groups[k].captured = 0
  /\ Shared \/ Free(s, d.name)
  /\ UNCHANGED <<task, strays, files, shelf, shot, take, torn>>

RenamedTo(s, d) ==
  /\ Exists(s) /\ Stored(s, d) /\ (Holds(s) => current' = Copy(s, d))
  /\ \A k \in Kinds : d.groups[k].captured = saved[s].groups[k].captured
  /\ Shared \/ Free(s, d.name)
  /\ UNCHANGED <<task, strays, files, shelf, shot, take, torn>>

Changed(s, d) ==
  /\ Exists(s) /\ Changes(s, d) /\ saved' = [saved EXCEPT ![s] = d]
  /\ UNCHANGED <<current, task, strays, files, shelf, shot, take, torn>>

Submitted ==
  /\ Made
  /\ task'.session # None => task'.done = saved[task'.session].groups[task'.kind].captured
  /\ UNCHANGED <<saved, current, strays, files, shelf, shot, take, torn>>

RedoneFrom(s, k, redo, d) == Redoes(s, k, redo, d) /\ Made /\ task'.session = s
                             /\ task'.kind = k /\ task'.done = 0
                             /\ Moves(UNION {InFolder(s, r) : r \in redo})

Begun ==
  /\ Busy /\ task.pc = "submitted" /\ Known(task)
  /\ task' = [task EXCEPT !.pc = "cooling"]
  /\ current' = IF task.session = None THEN current ELSE Copy(task.session, saved[task.session])
  /\ UNCHANGED <<saved, strays, files, shelf, shot, take, torn>>

Prepared == Busy /\ task.pc \in {"cooling", "testing"} /\ Preparing
            /\ UNCHANGED <<strays, files, shot, take, torn>>

Arrived ==
  /\ Busy /\ task.pc = "exposing" /\ Known(task)
  /\ task' = [task EXCEPT !.pc = "writing", !.frame = Frame(task)]
  /\ Frame(task) \in FrameType /\ shot' = shot + 1
  /\ UNCHANGED <<saved, current, strays, files, shelf, take, torn>>

Written == Busy /\ task.pc = "writing" /\ Filing /\ UNCHANGED <<strays, shot, take, torn>>

\* The task is over, by itself or not; a cancelled write may go on.
Over ==
  /\ Busy /\ Ends(files)
  /\ \/ UNCHANGED strays
     \/ task.pc = "writing" /\ strays' = strays \cup {[task.frame EXCEPT !.stray = TRUE]}
  /\ UNCHANGED <<saved, current, files, shot, take, torn>>

Crashed ==
  /\ Restarted
  /\ \/ UNCHANGED files
     \/ Busy /\ task.pc = "writing" /\ files' = files \cup {task.frame}
     \/ Busy /\ task.pc = "writing" /\ files' = files \cup {Listed(task.frame)}
  /\ torn' = (torn \/ (Busy /\ task.library))
  /\ UNCHANGED <<saved, shelf, shot, take>>

CrashedInRedo ==
  /\ \E moved : Moves(moved)
  /\ ~Busy /\ Restarted /\ torn'
  /\ UNCHANGED <<saved, shelf, shot, take>>

StepKind ==
  \/ UNCHANGED vars
  \/ \E s \in Sessions, d \in SessionType :
       Created(s, d) \/ RenamedTo(s, d) \/ Changed(s, d)
  \/ \E s \in Sessions : Open(s) \/ Delete(s)
  \/ Submitted
  \/ \E s \in Sessions, k \in Kinds : \E redo, d : RedoneFrom(s, k, redo, d)
  \/ Begun \/ Prepared \/ Arrived \/ Written \/ Over \/ StrayLands \/ Crashed \/ CrashedInRedo

LEMMA NextComesTo ==
  ASSUME ImagingInv, [Next]_vars
  PROVE  StepKind
<1> USE DEF Request, TaskStep
<1>1. /\ TypeOK /\ TaskIsSound /\ FramesAreNumbered /\ LinkedFollow /\ NothingDangles
      /\ CurrentIsSaved
  BY DEF ImagingInv, NothingDangles, CurrentIsSaved
<1>2. CASE UNCHANGED vars
  BY <1>2 DEF StepKind
<1>3. CASE \E s \in Sessions, n \in Names : Create(s, n)
  <2>1. PICK s \in Sessions, n \in Names : Create(s, n)
    BY <1>3
  <2>2. NewSession(n) \in SessionType /\ Created(s, NewSession(n))
    BY <2>1, CreateComesTo DEF Created, Stored
  <2> QED
    BY <2>2 DEF StepKind
<1>4. CASE \E s \in Sessions, n \in Names : Rename(s, n)
  <2>1. PICK s \in Sessions, n \in Names : Rename(s, n)
    BY <1>4
  <2>2. \E d \in SessionType : RenamedTo(s, d)
    BY <1>1, <2>1, RenameComesTo DEF RenamedTo, Stored
  <2> QED
    BY <2>2 DEF StepKind
<1>5. CASE \E s \in Sessions : Open(s) \/ Delete(s)
  BY <1>5 DEF StepKind
<1>6. CASE \E s \in Sessions, p \in Patches : Patch(s, p)
  <2>1. PICK s \in Sessions, p \in Patches : Patch(s, p)
    BY <1>6
  <2>2. \E d \in SessionType : Changed(s, d)
    BY <1>1, <2>1, PatchComesTo DEF Changed, Changes
  <2> QED
    BY <2>2 DEF StepKind
<1>7. CASE \E g \in Started, library \in BOOLEAN : StartGroup(g[1], g[2], library)
  <2>1. PICK g \in Started, library \in BOOLEAN : StartGroup(g[1], g[2], library)
    BY <1>7
  <2>2. g[1] \in Sessions /\ g[2] \in Kinds /\ g[1] # None
    BY StartedAssumption, NoneAssumption
  <2>3. saved[g[1]] \in SessionType
    BY <1>1, <2>1, <2>2, ThereIsASession DEF StartGroup
  <2>4. saved[g[1]].groups[g[2]] \in GroupType
    BY <2>2, <2>3 DEF SessionType
  <2>5. /\ ~Busy /\ task' = GroupTask(g[1], g[2], saved[g[1]].groups[g[2]], library)
        /\ library => g[2] = "dark"
        /\ Exists(g[1])
    BY <2>1 DEF StartGroup, Submit
  <2>6. /\ Made /\ task'.session = g[1] /\ task'.kind = g[2]
        /\ task'.done = saved[g[1]].groups[g[2]].captured
    BY <2>2, <2>4, <2>5, GroupTaskMade
  <2>7. Submitted
    BY <2>1, <2>6 DEF StartGroup, Submitted
  <2> QED
    BY <2>7 DEF StepKind
<1>8. CASE \E g \in Started, also \in BOOLEAN : Redo(g[1], g[2], also)
  <2>1. PICK g \in Started, also \in BOOLEAN : Redo(g[1], g[2], also)
    BY <1>8
  <2>2. g[1] \in Sessions /\ g[2] \in Kinds /\ g[1] # None
    BY StartedAssumption, NoneAssumption
  <2>3. PICK redo, d : Redoes(g[1], g[2], redo, d)
    BY <1>1, <2>1, <2>2, RedoComesTo
  <2>4. d.groups[g[2]] \in GroupType /\ d.groups[g[2]].captured = 0
    BY <2>2, <2>3 DEF SessionType, Redoes
  <2>5. Moves(UNION {InFolder(g[1], r) : r \in redo})
    BY <1>1, <2>3, AsideMoves DEF TypeOK, FramesAreNumbered, Redoes
  <2>6. ~Busy /\ Exists(g[1]) /\ task' = GroupTask(g[1], g[2], d.groups[g[2]], FALSE)
    BY <2>3 DEF Redoes
  <2>7. Made /\ task'.session = g[1] /\ task'.kind = g[2] /\ task'.done = 0
    <3> DEFINE s == g[1]
               k == g[2]
               group == d.groups[k]
    <3>1. /\ s \in Sessions \cup {None} /\ k \in Kinds /\ group \in GroupType /\ FALSE \in BOOLEAN
          /\ ~Busy /\ task' = GroupTask(s, k, group, FALSE) /\ Exists(s) /\ s # None
          /\ group.captured = 0
      BY <2>2, <2>4, <2>6
    <3> HIDE DEF s, k, group
    <3>2. Made /\ task'.session = s /\ task'.kind = k /\ task'.done = group.captured
      BY <3>1, GroupTaskMade
    <3> QED
      BY <3>1, <3>2 DEF s, k
  <2>8. RedoneFrom(g[1], g[2], redo, d)
    BY <2>3, <2>5, <2>7 DEF RedoneFrom
  <2> QED
    BY <2>2, <2>8 DEF StepKind
<1>9. CASE ShootLibrary
  <2>1. NewGroup("dark") \in GroupType
    BY CountAssumption DEF NewGroup, GroupType, NoExposure
  <2>2. ~Busy /\ task' = GroupTask(None, "dark", NewGroup("dark"), TRUE) /\ "dark" \in Kinds
    BY <1>9 DEF ShootLibrary, Submit, Kinds
  <2>3. Made /\ task'.session = None
    BY <2>1, <2>2, GroupTaskMade
  <2>4. Submitted
    BY <1>9, <2>3 DEF ShootLibrary, Submitted
  <2> QED
    BY <2>4 DEF StepKind
<1>10. CASE Begin
  <2>1. Begun \/ Over
    BY <1>10 DEF Begin, Begun, Over
  <2> QED
    BY <2>1 DEF StepKind
<1>11. CASE CoolingEnds \/ ExposureFound
  <2>1. Prepared
    BY <1>1, <1>11, CoolingEndsComesTo, ExposureFoundComesTo
    DEF CoolingEnds, ExposureFound, Prepared
  <2> QED
    BY <2>1 DEF StepKind
<1>12. CASE FrameArrives
  <2>1. Busy /\ task \in TaskType /\ task.pc = "exposing"
    BY <1>1, <1>12 DEF FrameArrives, TypeOK, Busy
  <2>2. CASE Known(task)
    <3>1. Frame(task).folder \in Folders /\ Frame(task).take \in Nat
      <4>1. CASE task.library
        BY <2>1, <4>1 DEF Frame, Label, Folders, TaskType
      <4>2. CASE ~task.library
        <5>1. task.session \in Sessions /\ task.kind \in Kinds /\ saved[task.session] \in SessionType
          BY <1>1, <2>1, <2>2, <4>2, ThereIsASession DEF Known, TaskType, TaskIsSound, TaskAgrees
        <5> QED
          BY <1>1, <4>2, <5>1 DEF Frame, Folders, SessionType, TypeOK
      <4> QED
        BY <4>1, <4>2
    <3>2. Frame(task) \in FrameType
      BY <1>1, <2>1, <3>1 DEF Frame, FrameType, TaskType, TypeOK
    <3> QED
      BY <1>12, <2>2, <3>2 DEF FrameArrives, Arrived, StepKind
  <2>3. CASE ~Known(task)
    BY <1>12, <2>3 DEF FrameArrives, Over, StepKind
  <2> QED
    BY <2>2, <2>3
<1>13. CASE FrameWritten
  <2>1. Written
    BY <1>1, <1>13, FrameWrittenComesTo DEF FrameWritten, Written
  <2> QED
    BY <2>1 DEF StepKind
<1>14. CASE Fails \/ Cancel
  BY <1>14 DEF Fails, Cancel, Over, StepKind
<1>15. CASE StrayLands
  BY <1>15 DEF StepKind
<1>16. CASE Crash
  BY <1>16 DEF Crash, Crashed, StepKind
<1>17. CASE \E s \in Sessions, k \in Kinds : CrashInRedo(s, k)
  <2>1. PICK s \in Sessions, k \in Kinds : CrashInRedo(s, k)
    BY <1>17
  <2>2. \E moved : Moves(moved)
    BY <1>1, <2>1, AsideMoves, HalfAsideMoves DEF CrashInRedo, TypeOK, FramesAreNumbered
  <2> QED
    BY <2>1, <2>2 DEF CrashInRedo, CrashedInRedo, StepKind
<1> QED
  BY <1>2, <1>3, <1>4, <1>5, <1>6, <1>7, <1>8, <1>9, <1>10, <1>11, <1>12, <1>13, <1>14, <1>15,
     <1>16, <1>17 DEF Next

-----------------------------------------------------------------------------
(* The invariant is kept, one conjunct at a time                           *)

LEMMA TypeKept ==
  ASSUME TypeOK, TaskIsSound, FramesAreNumbered, StepKind
  PROVE  TypeOK'
<1>1. Busy /\ task.pc = "writing" => task.frame \in FrameType
  BY FilesAreNew
<1>2. CASE UNCHANGED vars
  BY <1>2 DEF TypeOK, vars
<1>3. ASSUME NEW s \in Sessions, NEW d \in SessionType,
             Created(s, d) \/ RenamedTo(s, d) \/ Changed(s, d)
      PROVE  TypeOK'
  <2>1. saved' = [saved EXCEPT ![s] = d] /\ current' \in {current, Copy(s, d)}
        /\ UNCHANGED <<task, strays, files, shelf, shot, take, torn>>
    BY <1>3 DEF Created, RenamedTo, Changed, Stored
  <2>2. Copy(s, d) \in [id : Sessions, name : Names]
    BY DEF Copy, SessionType
  <2> QED
    BY <2>1, <2>2 DEF TypeOK
<1>4. ASSUME NEW s \in Sessions, Open(s)
      PROVE  TypeOK'
  <2>1. Copy(s, saved[s]) \in [id : Sessions, name : Names]
    BY <1>4, ThereIsASession DEF Open, Copy, SessionType
  <2> QED
    BY <1>4, <2>1 DEF TypeOK, Open
<1>5. ASSUME NEW s \in Sessions, Delete(s)
      PROVE  TypeOK'
  BY <1>5 DEF TypeOK, Delete
<1>6. CASE Submitted
  BY <1>6 DEF TypeOK, Submitted, Made
<1>7. ASSUME NEW s \in Sessions, NEW k \in Kinds, NEW redo, NEW d, RedoneFrom(s, k, redo, d)
      PROVE  TypeOK'
  BY <1>7 DEF TypeOK, RedoneFrom, Redoes, Made, Moves
<1>8. CASE Begun
  <2>1. task \in TaskType
    BY <1>8 DEF TypeOK, Begun, Busy
  <2>2. task' \in TaskType
    BY <1>8, <2>1 DEF Begun, TaskType
  <2>3. task.session # None => Copy(task.session, saved[task.session]) \in [id : Sessions, name : Names]
    <3>1. task.session # None => task.session \in Sessions /\ Exists(task.session)
      BY <1>8, <2>1 DEF Begun, Known, TaskType
    <3> QED
      BY <3>1, ThereIsASession DEF Copy, SessionType
  <2>4. current' \in [id : Sessions, name : Names] \cup {None}
    BY <1>8, <2>3 DEF Begun, TypeOK
  <2> QED
    BY <1>8, <2>2, <2>4 DEF TypeOK, Begun
<1>9. CASE Prepared
  <2>1. task' \in TaskType \cup {None} /\ shelf' \subseteq Nat \X Nat
    BY <1>9, EndsTyped DEF Prepared, Preparing, Starts, TypeOK
  <2>2. saved' \in [Sessions -> SessionType \cup {None, Gone}]
    BY <1>9 DEF Prepared, Preparing, Changes, TypeOK
  <2> QED
    BY <1>9, <2>1, <2>2 DEF Prepared, Preparing, TypeOK
<1>10. CASE Arrived
  <2>1. task \in TaskType
    BY <1>10 DEF TypeOK, Arrived, Busy
  <2>2. task' \in TaskType
    BY <1>10, <2>1 DEF Arrived, TaskType
  <2> QED
    BY <1>10, <2>2 DEF TypeOK, Arrived
<1>11. CASE Written
  <2>1. task' \in TaskType \cup {None} /\ shelf' \subseteq Nat \X Nat
    BY <1>11, EndsTyped DEF Written, Filing, TypeOK
  <2>2. saved' \in [Sessions -> SessionType \cup {None, Gone}]
    BY <1>11 DEF Written, Filing, FiledRight, TypeOK
  <2> QED
    BY <1>11, <2>1, <2>2 DEF Written, Filing, TypeOK
<1>12. CASE Over
  <2>1. task.pc = "writing" => [task.frame EXCEPT !.stray = TRUE] \in FrameType
    BY <1>12, <1>1 DEF FrameType, Over
  <2>2. \A f \in strays' : f \in FrameType
    BY <1>12, <2>1 DEF Over, TypeOK
  <2> QED
    BY <1>12, <2>2, EndsTyped DEF TypeOK, Over
<1>13. CASE StrayLands
  BY <1>13 DEF TypeOK, StrayLands
<1>14. CASE Crashed
  <2>1. Busy /\ task.pc = "writing" => Listed(task.frame) \in FrameType
    BY <1>1 DEF FrameType, Listed
  <2>2. \A f \in files' : f \in FrameType
    BY <1>14, <1>1, <2>1 DEF Crashed, TypeOK
  <2>3. torn' \in BOOLEAN
    BY <1>14 DEF Crashed
  <2> QED
    BY <1>14, <2>2, <2>3 DEF TypeOK, Crashed, Restarted
<1>15. CASE CrashedInRedo
  BY <1>15 DEF TypeOK, CrashedInRedo, Restarted, Moves
<1> QED
  BY <1>2, <1>3, <1>4, <1>5, <1>6, <1>7, <1>8, <1>9, <1>10, <1>11, <1>12, <1>13, <1>14, <1>15
  DEF StepKind

\* The session files there are, and what each step makes of one.
LEMMA SavedStep ==
  ASSUME TypeOK, StepKind
  PROVE  \/ saved' = saved
         \/ \E s \in Sessions, d \in SessionType :
              /\ saved[s] # Gone /\ (Follows(saved[s].groups) \/ saved[s] = None => Follows(d.groups))
              /\ saved' = [saved EXCEPT ![s] = d]
         \/ \E s \in Sessions : Exists(s) /\ saved' = [saved EXCEPT ![s] = Gone]
<1>1. ASSUME NEW s \in Sessions, NEW d \in SessionType,
             Created(s, d) \/ RenamedTo(s, d) \/ Changed(s, d)
      PROVE  saved[s] # Gone /\ Follows(d.groups) /\ saved' = [saved EXCEPT ![s] = d]
  BY <1>1, ValuesAssumption DEF Created, RenamedTo, Changed, Stored, Changes, Exists
<1>2. ASSUME NEW s \in Sessions, NEW k \in Kinds, NEW redo, NEW d, RedoneFrom(s, k, redo, d)
      PROVE  /\ d \in SessionType /\ saved[s] # Gone /\ Exists(s)
             /\ Follows(saved[s].groups) => Follows(d.groups)
             /\ saved' = [saved EXCEPT ![s] = d]
  BY <1>2 DEF RedoneFrom, Redoes, Exists
<1>3. ASSUME Prepared
      PROVE  \/ saved' = saved
             \/ \E d \in SessionType :
                  /\ task.session \in Sessions /\ saved[task.session] # Gone /\ Follows(d.groups)
                  /\ saved' = [saved EXCEPT ![task.session] = d]
  BY <1>3 DEF Prepared, Preparing, Changes, Exists
<1>4. ASSUME Written
      PROVE  \/ saved' = saved
             \/ /\ task.session \in Sessions /\ saved[task.session] # Gone /\ Filed \in SessionType
                /\ Follows(Filed.groups) /\ saved' = [saved EXCEPT ![task.session] = Filed]
  BY <1>4 DEF Written, Filing, FiledRight, Exists
<1>5. ASSUME NEW s \in Sessions, Open(s) \/ Delete(s)
      PROVE  \/ saved' = saved
             \/ Exists(s) /\ saved' = [saved EXCEPT ![s] = Gone]
  BY <1>5 DEF Open, Delete
<1>6. ASSUME \/ UNCHANGED vars \/ Submitted \/ Begun \/ Arrived \/ Over \/ StrayLands
             \/ Crashed \/ CrashedInRedo
      PROVE  saved' = saved
  BY <1>6 DEF vars, Submitted, Begun, Arrived, Over, StrayLands, Crashed, CrashedInRedo
<1>7. \A s \in Sessions : Exists(s) => saved[s] # None /\ saved[s] # Gone
  BY DEF Exists
<1> QED
  BY <1>1, <1>2, <1>3, <1>4, <1>5, <1>6, <1>7 DEF StepKind

\* What follows goes on following.
LEMMA LinkedKept ==
  ASSUME TypeOK, LinkedFollow, StepKind
  PROVE  LinkedFollow'
<1>1. \A s \in Sessions : Exists(s) => Follows(saved[s].groups)
  BY DEF LinkedFollow, Follows
<1>2. SUFFICES ASSUME NEW s \in Sessions, Exists(s)'
               PROVE  Follows(saved'[s].groups)
  BY DEF LinkedFollow, Follows
<1>3. saved \in [Sessions -> SessionType \cup {None, Gone}]
  BY DEF TypeOK
<1>4. CASE saved' = saved
  BY <1>1, <1>2, <1>4 DEF Exists
<1>5. ASSUME NEW o \in Sessions, NEW d \in SessionType, saved[o] # Gone,
             Follows(saved[o].groups) \/ saved[o] = None => Follows(d.groups),
             saved' = [saved EXCEPT ![o] = d]
      PROVE  Follows(saved'[s].groups)
  <2>1. CASE s = o
    BY <1>1, <1>3, <1>5, <2>1 DEF Exists
  <2>2. CASE s # o
    BY <1>1, <1>2, <1>3, <1>5, <2>2 DEF Exists
  <2> QED
    BY <2>1, <2>2
<1>6. ASSUME NEW o \in Sessions, saved' = [saved EXCEPT ![o] = Gone]
      PROVE  Follows(saved'[s].groups)
  BY <1>1, <1>2, <1>3, <1>6 DEF Exists
<1> QED
  BY <1>4, <1>5, <1>6, SavedStep

\* A file once deleted is never there again; a session that was, is or is gone.
LEMMA GoneKept ==
  ASSUME TypeOK, StepKind, NEW s \in Sessions
  PROVE  /\ saved[s] = Gone => saved'[s] = Gone
         /\ saved[s] # None => saved'[s] # None
<1>1. saved \in [Sessions -> SessionType \cup {None, Gone}]
  BY DEF TypeOK
<1>2. Gone # None /\ None \notin SessionType
  BY ValuesAssumption
<1> QED
  BY <1>1, <1>2, SavedStep

\* Steps that leave the task and the frames as they are.
Elsewhere ==
  \/ UNCHANGED vars
  \/ \E s \in Sessions, d \in SessionType : Created(s, d) \/ RenamedTo(s, d) \/ Changed(s, d)
  \/ \E s \in Sessions : Open(s) \/ Delete(s)

LEMMA ElsewhereKeeps ==
  ASSUME Elsewhere
  PROVE  UNCHANGED <<task, strays, files, shelf, shot, take, torn>>
BY DEF Elsewhere, Created, RenamedTo, Changed, Open, Delete, vars

\* The task stays sound, and the frames numbered.
LEMMA SoundKept ==
  ASSUME TypeOK, TaskIsSound, FramesAreNumbered, StepKind
  PROVE  TaskIsSound'
<1>1. SUFFICES ASSUME Busy'
               PROVE  TaskAgrees(task)' /\ FrameAgrees(task)'
  BY DEF TaskIsSound
<1>2. \A s \in Sessions : saved[s] # None => saved'[s] # None
  BY GoneKept
<1>3. CASE Elsewhere \/ StrayLands
  <2>1. UNCHANGED <<task, shot, take>> /\ files' \cup strays' = files \cup strays
    BY <1>3, ElsewhereKeeps DEF StrayLands
  <2>2. Busy /\ task \in TaskType
    BY <1>1, <2>1 DEF Busy, TypeOK
  <2>3. TaskAgrees(task)'
    BY <1>2, <2>1, <2>2 DEF TaskIsSound, TaskAgrees, TaskType
  <2>4. FrameAgrees(task)'
    BY <2>1, <2>2 DEF TaskIsSound, FrameAgrees, Label
  <2> QED
    BY <2>3, <2>4
<1>4. CASE Made
  <2>1. TaskAgrees(task)'
    <3>1. task' \in TaskType
      BY <1>4 DEF Made
    <3>2. task'.session # None => saved'[task'.session] # None
      BY <1>2, <1>4, <3>1 DEF Made, Exists, TaskType
    <3> QED
      BY <1>4, <3>1, <3>2, CountAssumption DEF TaskAgrees, Made, Early
  <2> QED
    BY <1>4, <2>1 DEF FrameAgrees, Made
<1>5. CASE Begun
  <2>1. Busy /\ task \in TaskType
    BY <1>5 DEF Begun, Busy, TypeOK
  <2>2. /\ task'.session = task.session /\ task'.library = task.library /\ task'.kind = task.kind
        /\ task'.base = task.base /\ task'.index = task.index /\ task'.total = task.total
        /\ task'.frame = task.frame /\ task'.pc = "cooling"
    BY <1>5, <2>1 DEF Begun, TaskType
  <2>3. TaskAgrees(task)'
    BY <1>2, <1>5, <2>1, <2>2 DEF TaskIsSound, TaskAgrees, TaskType, Begun, Early
  <2> QED
    BY <2>2, <2>3 DEF FrameAgrees
<1>6. CASE Prepared
  <2>1. Busy /\ task \in TaskType /\ task.pc \in Early /\ Starts(task') /\ task' \in TaskType
    BY <1>1, <1>6 DEF Prepared, Preparing, Busy, TypeOK, Early, Starts
  <2>2. TaskAgrees(task)'
    <3>1. task'.session # None => saved'[task'.session] # None
      BY <1>2, <2>1 DEF TaskIsSound, TaskAgrees, TaskType, Starts
    <3>2. task'.index <= task'.total /\ task'.base + task'.total = Count /\ task'.index = 1
          /\ (task'.base = 0 => task'.total = Count)
      BY <2>1, CountAssumption DEF Starts, TaskType
    <3> QED
      BY <2>1, <3>1, <3>2 DEF TaskIsSound, TaskAgrees, Early, Starts
  <2> QED
    BY <2>1, <2>2 DEF FrameAgrees, Starts
<1>7. CASE Arrived
  <2>1. Busy /\ task \in TaskType /\ task.pc = "exposing"
    BY <1>7 DEF Arrived, Busy, TypeOK
  <2>2. /\ task'.session = task.session /\ task'.library = task.library /\ task'.kind = task.kind
        /\ task'.base = task.base /\ task'.index = task.index /\ task'.total = task.total
        /\ task'.frame = Frame(task) /\ task'.pc = "writing" /\ Label(task') = Label(task)
    BY <1>7, <2>1 DEF Arrived, TaskType, Label
  <2>3. TaskAgrees(task)'
    <3>1. Frame(task) # None
      BY <1>7, ValuesAssumption DEF Arrived
    <3> QED
      BY <1>2, <2>1, <2>2, <3>1 DEF TaskIsSound, TaskAgrees, TaskType, Early
  <2>4. FrameAgrees(task)'
    <3>1. \A f \in files' \cup strays' : f.number < shot'
      BY <1>7 DEF Arrived, FramesAreNumbered, TypeOK, FrameType
    <3>2. ~task.library => Frame(task).folder \in Names
      <4>1. ~task.library => task.session \in Sessions /\ Exists(task.session)
        BY <1>7, <2>1 DEF Arrived, Known, TaskIsSound, TaskAgrees, TaskType
      <4>2. ~task.library => saved[task.session] \in SessionType
        BY <4>1, ThereIsASession
      <4> QED
        BY <4>2 DEF Frame, SessionType
    <3>3. UNCHANGED take
      BY <1>7 DEF Arrived
    <3>4. /\ Frame(task).number = shot' /\ Frame(task).session = task.session
          /\ Frame(task).kind = task.kind /\ Frame(task).kept /\ ~Frame(task).stray
          /\ Frame(task).listed = "no"
          /\ task.library => Frame(task).folder = Label(task)
          /\ ~task.library => Frame(task).take = take[task.session][task.kind]
      BY <1>7 DEF Frame, Arrived
    <3> HIDE DEF Frame
    <3> QED
      BY <2>2, <3>1, <3>2, <3>3, <3>4 DEF FrameAgrees
  <2> QED
    BY <2>3, <2>4
<1>8. CASE Written
  <2>1. Busy /\ task \in TaskType /\ task.pc = "writing" /\ task' = NextFrame(task)
        /\ task.index < task.total
    BY <1>1, <1>8 DEF Written, Filing, Busy, TypeOK
  <2>2. /\ task'.session = task.session /\ task'.library = task.library /\ task'.kind = task.kind
        /\ task'.base = task.base /\ task'.index = task.index + 1 /\ task'.total = task.total
        /\ task'.frame = None /\ task'.pc = "exposing"
    BY <2>1 DEF NextFrame, TaskType
  <2>3. TaskAgrees(task)'
    <3>1. task.index + 1 <= task.total
      BY <2>1 DEF TaskType
    <3> QED
      BY <1>2, <2>1, <2>2, <3>1 DEF TaskIsSound, TaskAgrees, TaskType, Early
  <2> QED
    BY <2>2, <2>3 DEF FrameAgrees
<1>9. CASE Over \/ Crashed \/ CrashedInRedo
  BY <1>1, <1>9 DEF Over, Ends, Crashed, CrashedInRedo, Restarted, Busy
<1> QED
  BY <1>3, <1>4, <1>5, <1>6, <1>7, <1>8, <1>9 DEF StepKind, Elsewhere, Submitted, RedoneFrom

LEMMA NumberedKept ==
  ASSUME TypeOK, TaskIsSound, FramesAreNumbered, StepKind
  PROVE  FramesAreNumbered'
<1>1. Busy /\ task.pc = "writing" =>
        /\ task.frame.number <= shot /\ Listed(task.frame).number <= shot
        /\ [task.frame EXCEPT !.stray = TRUE].number <= shot
        /\ [task.frame EXCEPT !.stray = TRUE].stray
        /\ [task.frame EXCEPT !.stray = TRUE].listed = "no"
        /\ IsFiniteSet(files \cup {task.frame}) /\ IsFiniteSet(files \cup {Listed(task.frame)})
  <2>1. ASSUME Busy, task.pc = "writing"
        PROVE  task.frame \in FrameType /\ task.frame.number = shot /\ shot \in Nat
               /\ task.frame.listed = "no"
    BY <2>1, FilesAreNew DEF TaskIsSound, FrameAgrees, TypeOK
  <2>2. \A f \in FrameType :
          /\ Listed(f).number = f.number /\ [f EXCEPT !.stray = TRUE].number = f.number
          /\ [f EXCEPT !.stray = TRUE].stray /\ [f EXCEPT !.stray = TRUE].listed = f.listed
    BY DEF FrameType, Listed
  <2>3. \A n \in Nat : n <= n
    OBVIOUS
  <2> QED
    BY <2>1, <2>2, <2>3, FilesAreNew
<1>2. CASE Elsewhere \/ Submitted \/ Begun \/ Prepared
  BY <1>2, ElsewhereKeeps DEF FramesAreNumbered, Submitted, Begun, Prepared
<1>3. ASSUME \E moved : Moves(moved), shot' = shot, strays' \subseteq strays
      PROVE  FramesAreNumbered'
  BY <1>3 DEF FramesAreNumbered, Moves, SameFrame
<1>4. CASE CrashedInRedo
  BY <1>3, <1>4 DEF CrashedInRedo, Restarted
<1>5. ASSUME NEW s \in Sessions, NEW k \in Kinds, NEW redo, NEW d, RedoneFrom(s, k, redo, d)
       PROVE  FramesAreNumbered'
  BY <1>3, <1>5 DEF RedoneFrom, Redoes
<1>6. CASE Arrived
  BY <1>6 DEF FramesAreNumbered, Arrived, TypeOK, FrameType
<1>7. CASE Written
  BY <1>1, <1>7 DEF FramesAreNumbered, Written, Filing
<1>8. CASE Over
  BY <1>1, <1>8 DEF FramesAreNumbered, Over
<1>9. CASE Crashed
  BY <1>1, <1>9 DEF FramesAreNumbered, Crashed, Restarted
<1>10. CASE StrayLands
  BY <1>10, FS_AddElement DEF FramesAreNumbered, StrayLands
<1> QED
  BY <1>2, <1>4, <1>6, <1>7, <1>8, <1>9, <1>10, <1>5 DEF StepKind, Elsewhere

\* What a row of the table says, and what a library frame's set is.
RowIsTrue(f) == f.listed # "no" => (f.listed = "kept") = f.kept
SetIsThere(f) ==
  \/ f.folder \in Names \cup shelf \/ f.stray
  \/ Busy /\ task.library /\ task.pc \in {"exposing", "writing"} /\ Label(task) = f.folder

\* No name comes to nothing: neither a row's, nor a set's, nor the copy's.
LEMMA DanglesKept ==
  ASSUME TypeOK, TaskIsSound, FramesAreNumbered, NothingDangles, StepKind
  PROVE  NothingDangles'
<1>1. /\ CurrentIsSaved
      /\ ~torn => \A f \in files : RowIsTrue(f) /\ SetIsThere(f)
  BY DEF NothingDangles, CurrentIsSaved, RowIsTrue, SetIsThere
<1>2. SUFFICES /\ CurrentIsSaved'
               /\ ~torn' => \A f \in files' : RowIsTrue(f) /\ SetIsThere(f)'
  BY DEF NothingDangles, CurrentIsSaved, RowIsTrue, SetIsThere
<1>3. saved \in [Sessions -> SessionType \cup {None, Gone}] /\ None # Gone
      /\ None \notin SessionType /\ Gone \notin SessionType
      /\ (current # None => current.id \in Sessions)
  BY ValuesAssumption DEF TypeOK
<1>4. ASSUME NEW s \in Sessions, NEW d \in SessionType,
             saved' = [saved EXCEPT ![s] = d],
             current' = Copy(s, d) \/ (current' = current /\ (Holds(s) => d.name = current.name))
      PROVE  CurrentIsSaved'
  BY <1>1, <1>3, <1>4 DEF CurrentIsSaved, Exists, Holds, Copy
<1>5. ASSUME NEW s \in Sessions, NEW d, Changes(s, d), Exists(s),
             saved' = [saved EXCEPT ![s] = d], current' = current
      PROVE  CurrentIsSaved'
  BY <1>1, <1>3, <1>5 DEF CurrentIsSaved, Exists, Changes
<1>6. CASE Elsewhere
  <2>1. \A f \in files' : RowIsTrue(f) /\ SetIsThere(f)' <=> RowIsTrue(f) /\ SetIsThere(f)
    BY <1>6, ElsewhereKeeps DEF SetIsThere, Busy, Label
  <2>2. CurrentIsSaved'
    <3>1. CASE UNCHANGED vars
      BY <1>1, <3>1 DEF CurrentIsSaved, Exists, vars
    <3>2. ASSUME NEW s \in Sessions, NEW d \in SessionType,
                 Created(s, d) \/ RenamedTo(s, d) \/ Changed(s, d)
          PROVE  CurrentIsSaved'
      BY <1>1, <1>4, <1>5, <3>2 DEF Created, RenamedTo, Changed, Stored, Holds, CurrentIsSaved, Exists
    <3>3. ASSUME NEW s \in Sessions, Open(s) \/ Delete(s)
          PROVE  CurrentIsSaved'
      BY <1>1, <1>3, <3>3 DEF Open, Delete, CurrentIsSaved, Exists, Holds, Copy
    <3> QED
      BY <1>6, <3>1, <3>2, <3>3 DEF Elsewhere
  <2> QED
    BY <1>1, <1>6, <2>1, <2>2, ElsewhereKeeps
<1>7. CASE Submitted
  <2>1. CurrentIsSaved'
    BY <1>1, <1>7 DEF Submitted, CurrentIsSaved, Exists
  <2>2. \A f \in files : SetIsThere(f) => SetIsThere(f)'
    BY <1>7 DEF Submitted, Made, SetIsThere
  <2> QED
    BY <1>1, <1>7, <2>1, <2>2 DEF Submitted
<1>8. ASSUME NEW s \in Sessions, NEW k \in Kinds, NEW redo, NEW d, RedoneFrom(s, k, redo, d)
      PROVE  /\ CurrentIsSaved'
             /\ ~torn' => \A f \in files' : RowIsTrue(f) /\ SetIsThere(f)'
  <2>1. CurrentIsSaved'
    BY <1>1, <1>3, <1>8 DEF RedoneFrom, Redoes, CurrentIsSaved, Exists
  <2>2. ~torn => \A f \in files' : RowIsTrue(f)
    BY <1>1, <1>8, AsideMoves DEF TypeOK, FramesAreNumbered, RedoneFrom, Redoes, RowIsTrue
  <2>3. \A f \in files, f2 \in files' : SameFrame(f2, f) /\ SetIsThere(f) => SetIsThere(f2)'
    BY <1>8 DEF RedoneFrom, Redoes, SetIsThere, SameFrame
  <2>4. torn' = torn /\ \A f2 \in files' : \E f \in files : SameFrame(f2, f)
    BY <1>8 DEF RedoneFrom, Redoes, Moves
  <2> QED
    BY <1>1, <2>1, <2>2, <2>3, <2>4
\* A task that goes on has its set; one that ends has described it.
<1>9. ASSUME Busy, NEW present, files \subseteq present,
             \/ Ends(present)
             \/ /\ shelf' = shelf /\ Busy' /\ task'.library = task.library
                /\ Label(task)' = Label(task)
                /\ task.pc \in {"exposing", "writing"} => task'.pc \in {"exposing", "writing"}
             \/ task.pc \notin {"exposing", "writing"} /\ shelf' = shelf,
             NEW f \in present, SetIsThere(f)
      PROVE  SetIsThere(f)'
  BY <1>9 DEF SetIsThere, Ends
<1>10. CASE Begun
  <2>1. CurrentIsSaved'
    BY <1>1, <1>10, NoneAssumption DEF Begun, CurrentIsSaved, Exists, Known, Copy
  <2> QED
    BY <1>1, <1>9, <1>10, <2>1 DEF Begun
<1>11. CASE Prepared
  <2>1. CurrentIsSaved'
    BY <1>1, <1>5, <1>11 DEF Prepared, Preparing, CurrentIsSaved, Exists
  <2>2. Busy /\ files' = files /\ torn' = torn
        /\ (Ends(files) \/ (task.pc \notin {"exposing", "writing"} /\ shelf' = shelf))
    BY <1>11 DEF Prepared, Preparing
  <2> QED
    BY <1>1, <1>9, <2>1, <2>2
<1>12. CASE Arrived
  <2>1. CurrentIsSaved'
    BY <1>1, <1>12 DEF Arrived, CurrentIsSaved, Exists
  <2>2. task \in TaskType
    BY <1>12 DEF Arrived, TypeOK, Busy
  <2>3. task' \in TaskType /\ task'.library = task.library /\ Label(task)' = Label(task)
        /\ task'.pc = "writing"
    BY <1>12, <2>2 DEF Arrived, TaskType, Label
  <2>4. Busy'
    BY <2>3, ValuesAssumption DEF Busy
  <2>5. Busy /\ files' = files /\ torn' = torn /\ shelf' = shelf
    BY <1>12 DEF Arrived
  <2> QED
    BY <1>1, <1>9, <2>1, <2>3, <2>4, <2>5
<1>13. CASE Written
  <2>1. CurrentIsSaved'
    <3>1. CASE saved' = saved
      BY <1>1, <1>13, <3>1 DEF Written, Filing, CurrentIsSaved, Exists
    <3>2. CASE saved' # saved
      <4>1. /\ task.session \in Sessions /\ Exists(task.session) /\ FiledRight
            /\ saved' = [saved EXCEPT ![task.session] = Filed] /\ current' = current
        BY <1>13, <3>2 DEF Written, Filing
      <4> QED
        BY <1>1, <1>3, <4>1 DEF CurrentIsSaved, Exists, FiledRight
    <3> QED
      BY <3>1, <3>2
  <2>2. /\ Busy /\ task \in TaskType /\ task.pc = "writing" /\ torn' = torn
        /\ files' = files \cup {Listed(task.frame)} /\ files \subseteq files'
    BY <1>13 DEF Written, Filing, TypeOK, Busy
  <2>3. \/ Ends(files')
        \/ /\ shelf' = shelf /\ Busy' /\ task'.library = task.library
           /\ Label(task)' = Label(task) /\ task'.pc \in {"exposing", "writing"}
    <3>1. NextFrame(task).library = task.library /\ Label(NextFrame(task)) = Label(task)
          /\ NextFrame(task).pc = "exposing"
      BY <2>2 DEF NextFrame, TaskType, Label
    <3>2. task' \in TaskType => Busy'
      BY ValuesAssumption DEF Busy
    <3> QED
      BY <1>13, <3>1, <3>2 DEF Written, Filing, Label
  <2>4. RowIsTrue(Listed(task.frame)) /\ SetIsThere(Listed(task.frame))
    <3>1. task.frame \in FrameType /\ task.frame.kept
          /\ (task.library => task.frame.folder = Label(task))
          /\ (~task.library => task.frame.folder \in Names)
      BY <2>2, FilesAreNew DEF TaskIsSound, FrameAgrees
    <3>2. Listed(task.frame).kept = task.frame.kept /\ Listed(task.frame).listed = "kept"
          /\ Listed(task.frame).folder = task.frame.folder
      BY <3>1 DEF Listed, FrameType
    <3> QED
      BY <2>2, <3>1, <3>2 DEF RowIsTrue, SetIsThere
  <2> QED
    BY <1>1, <1>9, <2>1, <2>2, <2>3, <2>4
<1>14. CASE Over
  <2>1. CurrentIsSaved'
    BY <1>1, <1>14 DEF Over, CurrentIsSaved, Exists
  <2> QED
    BY <1>1, <1>9, <1>14, <2>1 DEF Over
<1>15. CASE StrayLands
  <2>1. CurrentIsSaved'
    BY <1>1, <1>15 DEF StrayLands, CurrentIsSaved, Exists
  <2>2. \A f \in files \cup strays : SetIsThere(f) => SetIsThere(f)'
    BY <1>15 DEF StrayLands, SetIsThere, Busy, Label
  <2>3. \A f \in strays : RowIsTrue(f) /\ SetIsThere(f)
    BY DEF SetIsThere, RowIsTrue, FramesAreNumbered
  <2>4. files' \subseteq files \cup strays /\ torn' = torn
    BY <1>15 DEF StrayLands
  <2> QED
    BY <1>1, <2>1, <2>2, <2>3, <2>4
<1>16. CASE Crashed
  <2>1. CurrentIsSaved'
    BY <1>16 DEF Crashed, Restarted, CurrentIsSaved
  <2>2. ASSUME ~torn', NEW f \in files'
        PROVE  RowIsTrue(f) /\ SetIsThere(f)'
    <3>1. ~torn /\ ~(Busy /\ task.library) /\ shelf' = shelf
      BY <1>16, <2>2 DEF Crashed
    <3>2. CASE f \in files
      BY <1>1, <3>1, <3>2 DEF SetIsThere
    <3>3. CASE f \notin files
      <4>1. Busy /\ task.pc = "writing" /\ f \in {task.frame, Listed(task.frame)} /\ ~task.library
        BY <1>16, <2>2, <3>1, <3>3 DEF Crashed
      <4>2. task.frame \in FrameType /\ task.frame.kept /\ task.frame.folder \in Names
            /\ task.frame.listed = "no"
        BY <4>1, FilesAreNew DEF TaskIsSound, FrameAgrees
      <4>3. Listed(task.frame).kept = task.frame.kept /\ Listed(task.frame).listed = "kept"
            /\ Listed(task.frame).folder = task.frame.folder
        BY <4>2 DEF Listed, FrameType
      <4> QED
        BY <4>1, <4>2, <4>3 DEF RowIsTrue, SetIsThere
    <3> QED
      BY <3>2, <3>3
  <2> QED
    BY <2>1, <2>2
<1>17. CASE CrashedInRedo
  BY <1>17 DEF CrashedInRedo, Restarted, CurrentIsSaved
<1> QED
  BY <1>6, <1>7, <1>8, <1>10, <1>11, <1>12, <1>13, <1>14, <1>15, <1>16, <1>17 DEF StepKind, Elsewhere

\* Folders have the owners they had: no session is new or renamed, and every
\* frame is where one of the same session was, or is the one being written.
SameOwners ==
  /\ \A s \in Sessions : Exists(s)' => Exists(s) /\ saved'[s].name = saved[s].name
  /\ \A f2 \in files' \cup strays' :
       \/ \E f \in files \cup strays : f2.folder = f.folder /\ f2.session = f.session
       \/ /\ Busy /\ task.pc = "writing"
          /\ f2.folder = task.frame.folder /\ f2.session = task.frame.session

LEMMA OwnersKept ==
  ASSUME FoldersAreOwned, SameOwners,
         Busy' /\ task'.pc = "writing" =>
           \/ Busy /\ task.pc = "writing" /\ task'.frame = task.frame
           \/ \A s \in Sessions : Exists(s) /\ task'.frame.folder = saved[s].name
                                    => task'.frame.session = s
  PROVE  FoldersAreOwned'
<1>1. SUFFICES ASSUME ~Shared, NEW s \in Sessions, Exists(s)'
               PROVE  /\ \A o \in Sessions : Exists(o)' /\ saved'[o].name = saved'[s].name => o = s
                      /\ \A f \in files' \cup strays' : f.folder = saved'[s].name => f.session = s
                      /\ Busy' /\ task'.pc = "writing" /\ task'.frame.folder = saved'[s].name
                           => task'.frame.session = s
  BY DEF FoldersAreOwned
<1>2. Exists(s) /\ saved'[s].name = saved[s].name
  BY <1>1 DEF SameOwners
<1>3. /\ \A o \in Sessions : Exists(o) /\ saved[o].name = saved[s].name => o = s
      /\ \A f \in files \cup strays : f.folder = saved[s].name => f.session = s
      /\ Busy /\ task.pc = "writing" /\ task.frame.folder = saved[s].name
           => task.frame.session = s
  BY <1>1, <1>2 DEF FoldersAreOwned
<1> QED
  BY <1>1, <1>2, <1>3 DEF SameOwners

\* A session saved under its name keeps every name as it was.
LEMMA NamesKept ==
  ASSUME TypeOK, NEW s \in Sessions, Exists(s), NEW d, d.name = saved[s].name,
         saved' = [saved EXCEPT ![s] = d]
  PROVE  \A o \in Sessions : Exists(o)' => Exists(o) /\ saved'[o].name = saved[o].name
BY DEF TypeOK, Exists

LEMMA OwnedKept ==
  ASSUME TypeOK, TaskIsSound, FramesAreNumbered, FoldersAreOwned, StepKind
  PROVE  FoldersAreOwned'
<1>1. ASSUME NEW s \in Sessions, NEW d \in SessionType, Created(s, d) \/ RenamedTo(s, d)
      PROVE  FoldersAreOwned'
  <2>1. /\ saved' = [saved EXCEPT ![s] = d] /\ UNCHANGED <<task, files, strays>>
        /\ Shared \/ Free(s, d.name)
    BY <1>1 DEF Created, RenamedTo, Stored
  <2>2. saved \in [Sessions -> SessionType \cup {None, Gone}]
    BY DEF TypeOK
  <2>3. Busy /\ task.pc = "writing" => task.frame.session = task.session /\ task.frame # None
    BY DEF TaskIsSound, TaskAgrees, FrameAgrees
  <2>4. SUFFICES ASSUME ~Shared, NEW o \in Sessions, Exists(o)'
                 PROVE  /\ \A p \in Sessions : Exists(p)' /\ saved'[p].name = saved'[o].name => p = o
                        /\ \A f \in files \cup strays : f.folder = saved'[o].name => f.session = o
                        /\ Busy /\ task.pc = "writing" /\ task.frame.folder = saved'[o].name
                             => task.frame.session = o
    BY <2>1 DEF FoldersAreOwned, Busy
  <2>5. Free(s, d.name) /\ saved'[s] = d /\ (\A p \in Sessions \ {s} : saved'[p] = saved[p])
    BY <2>1, <2>2, <2>4
  <2>6. CASE o = s
    BY <2>3, <2>5, <2>6 DEF Free, Exists
  <2>7. CASE o # s
    BY <2>4, <2>5, <2>7 DEF FoldersAreOwned, Free, Exists
  <2> QED
    BY <2>6, <2>7
<1>2. ASSUME NEW s \in Sessions, NEW d, Changed(s, d)
      PROVE  FoldersAreOwned'
  <2>1. SameOwners /\ UNCHANGED task
    BY <1>2, NamesKept DEF Changed, Changes, SameOwners
  <2> QED
    BY <2>1, OwnersKept DEF Busy
<1>3. ASSUME NEW s \in Sessions, Open(s) \/ Delete(s)
      PROVE  FoldersAreOwned'
  <2>1. SameOwners /\ UNCHANGED task
    BY <1>3 DEF Open, Delete, SameOwners, Exists, TypeOK
  <2> QED
    BY <2>1, OwnersKept DEF Busy
<1>4. CASE UNCHANGED vars \/ StrayLands
  <2>1. SameOwners /\ UNCHANGED task
    BY <1>4 DEF vars, StrayLands, SameOwners, Exists
  <2> QED
    BY <2>1, OwnersKept DEF Busy
<1>5. CASE Submitted \/ Begun
  <2>1. SameOwners
    BY <1>5 DEF Submitted, Begun, SameOwners, Exists
  <2>2. task'.pc # "writing"
    <3>1. task' = [task EXCEPT !.pc = "cooling"] /\ Busy => task'.pc = "cooling"
      BY DEF Busy, TypeOK, TaskType
    <3> QED
      BY <1>5, <3>1 DEF Submitted, Made, Begun
  <2> QED
    BY <2>1, <2>2, OwnersKept
<1>6. ASSUME NEW s \in Sessions, NEW k \in Kinds, NEW redo, NEW d, RedoneFrom(s, k, redo, d)
      PROVE  FoldersAreOwned'
  <2>1. \A o \in Sessions : Exists(o)' => Exists(o) /\ saved'[o].name = saved[o].name
    BY <1>6, NamesKept DEF RedoneFrom, Redoes
  <2>2. SameOwners
    BY <1>6, <2>1 DEF RedoneFrom, Redoes, Moves, SameFrame, SameOwners
  <2>3. task'.pc # "writing"
    BY <1>6 DEF RedoneFrom, Made
  <2> QED
    BY <2>2, <2>3, OwnersKept
<1>7. CASE Prepared
  <2>1. \A o \in Sessions : Exists(o)' => Exists(o) /\ saved'[o].name = saved[o].name
    <3>1. CASE saved' = saved
      BY <3>1 DEF Exists
    <3>2. ASSUME NEW d, task.session \in Sessions, Exists(task.session), Changes(task.session, d),
                 saved' = [saved EXCEPT ![task.session] = d]
          PROVE  \A o \in Sessions : Exists(o)' => Exists(o) /\ saved'[o].name = saved[o].name
      BY <3>2, NamesKept DEF Changes
    <3> QED
      BY <1>7, <3>1, <3>2 DEF Prepared, Preparing
  <2>2. SameOwners
    BY <1>7, <2>1 DEF Prepared, SameOwners
  <2>3. Busy' => task'.pc # "writing"
    BY <1>7 DEF Prepared, Preparing, Starts, Busy
  <2> QED
    BY <2>2, <2>3, OwnersKept
<1>8. CASE Arrived
  <2>1. SameOwners
    BY <1>8 DEF Arrived, SameOwners, Exists
  <2>2. Busy /\ task \in TaskType
    BY <1>8 DEF Arrived, TypeOK, Busy
  <2>3. task'.frame = Frame(task)
    BY <1>8, <2>2 DEF Arrived, TaskType
  <2>4. ASSUME ~Shared, NEW s \in Sessions, Exists(s), Frame(task).folder = saved[s].name
        PROVE  Frame(task).session = s
    <3>1. saved[s].name \in Names
      BY <2>4, ThereIsASession DEF SessionType
    <3>2. ~task.library
      BY <2>2, <2>4, <3>1, NamesAssumption DEF Frame, Label, TaskType
    <3>3. task.session \in Sessions /\ Exists(task.session)
      BY <1>8, <2>2, <3>2 DEF Arrived, Known, TaskIsSound, TaskAgrees, TaskType
    <3>4. saved[task.session].name = saved[s].name
      BY <2>4, <3>2 DEF Frame
    <3> QED
      BY <2>4, <3>3, <3>4 DEF FoldersAreOwned, Frame
  <2>5. CASE Shared
    BY <2>5 DEF FoldersAreOwned
  <2>6. CASE ~Shared
    BY <2>1, <2>3, <2>4, <2>6, OwnersKept
  <2> QED
    BY <2>5, <2>6
<1>9. CASE Written
  <2>1. \A o \in Sessions : Exists(o)' => Exists(o) /\ saved'[o].name = saved[o].name
    <3>1. CASE saved' = saved
      BY <3>1 DEF Exists
    <3>2. CASE saved' # saved
      BY <1>9, <3>2, NamesKept DEF Written, Filing, FiledRight
    <3> QED
      BY <3>1, <3>2
  <2>2. Listed(task.frame).folder = task.frame.folder /\ Listed(task.frame).session = task.frame.session
    BY <1>9, FilesAreNew DEF Written, FrameType
  <2>3. SameOwners
    BY <1>9, <2>1, <2>2 DEF Written, Filing, SameOwners
  <2>4. Busy' => task'.pc # "writing"
    <3>1. Busy /\ task \in TaskType
      BY <1>9 DEF Written, TypeOK, Busy
    <3>2. NextFrame(task).pc = "exposing"
      BY <3>1 DEF NextFrame, TaskType
    <3> QED
      BY <1>9, <3>2 DEF Written, Filing, Busy
  <2> QED
    BY <2>3, <2>4, OwnersKept
<1>10. CASE Over \/ Crashed
  <2>1. Busy /\ task.pc = "writing" =>
          /\ Listed(task.frame).folder = task.frame.folder
          /\ Listed(task.frame).session = task.frame.session
          /\ [task.frame EXCEPT !.stray = TRUE].folder = task.frame.folder
          /\ [task.frame EXCEPT !.stray = TRUE].session = task.frame.session
    BY FilesAreNew DEF FrameType
  <2>2. SameOwners
    BY <1>10, <2>1 DEF Over, Crashed, Restarted, SameOwners, Exists
  <2>3. ~Busy'
    BY <1>10 DEF Over, Ends, Crashed, Restarted, Busy
  <2> QED
    BY <2>2, <2>3, OwnersKept
<1>11. CASE CrashedInRedo
  <2>1. SameOwners /\ ~Busy'
    BY <1>11 DEF CrashedInRedo, Restarted, Busy, Moves, SameFrame, SameOwners, Exists
  <2> QED
    BY <2>1, OwnersKept
<1> QED
  BY <1>1, <1>2, <1>3, <1>4, <1>5, <1>6, <1>7, <1>8, <1>9, <1>10, <1>11 DEF StepKind

-----------------------------------------------------------------------------
(* Frames on disk and frames counted                                       *)

OnDisk(s, k) == Cardinality(Counted(s, k))

\* Frames of a take that stay in files stay counted.
LEMMA OnDiskGrows ==
  ASSUME IsFiniteSet(files), IsFiniteSet(files'), NEW s, NEW k,
         take'[s][k] = take[s][k], Counted(s, k) \subseteq files'
  PROVE  OnDisk(s, k) \in Nat /\ OnDisk(s, k)' \in Nat /\ OnDisk(s, k) <= OnDisk(s, k)'
<1>1. Counted(s, k)' \subseteq files' /\ Counted(s, k) \subseteq files
  BY DEF Counted
<1>2. Counted(s, k) \subseteq Counted(s, k)'
  BY DEF Counted
<1>3. IsFiniteSet(Counted(s, k)') /\ IsFiniteSet(Counted(s, k))
  BY <1>1, FS_Subset
<1>4. Cardinality(Counted(s, k)) <= Cardinality(Counted(s, k)')
  BY <1>2, <1>3, FS_Subset
<1> QED
  BY <1>3, <1>4, FS_CardinalityType DEF OnDisk

\* Every session is short of nothing if it counts no more than it did, or
\* nothing, and its frames are still there.
CountsNoMore(s, k) ==
  \/ saved'[s].groups[k].captured = 0
  \/ /\ Exists(s) /\ saved'[s].groups[k].captured <= saved[s].groups[k].captured
     /\ take'[s][k] = take[s][k] /\ Counted(s, k) \subseteq files'

LEMMA CapturedTyped ==
  ASSUME NEW d \in SessionType, NEW k \in Kinds
  PROVE  d.groups[k].captured \in Nat
<1>1. d.groups[k] \in GroupType
  BY DEF SessionType
<1> QED
  BY <1>1, CountAssumption DEF GroupType

LEMMA CountedKept ==
  ASSUME TypeOK, TypeOK', IsFiniteSet(files), IsFiniteSet(files'), ~torn, CountedIsOnDisk,
         NEW s \in Sessions, NEW k \in Kinds, Exists(s)', CountsNoMore(s, k)
  PROVE  saved'[s].groups[k].captured <= OnDisk(s, k)'
<1>1. OnDisk(s, k)' \in Nat
  <2>1. Counted(s, k)' \subseteq files'
    BY DEF Counted
  <2>2. IsFiniteSet(Counted(s, k)')
    BY <2>1, FS_Subset
  <2> QED
    BY <2>2, FS_CardinalityType DEF OnDisk
<1>2. CASE saved'[s].groups[k].captured = 0
  BY <1>1, <1>2
<1>3. CASE /\ Exists(s) /\ saved'[s].groups[k].captured <= saved[s].groups[k].captured
           /\ take'[s][k] = take[s][k] /\ Counted(s, k) \subseteq files'
  <2>1. saved[s].groups[k].captured \in Nat /\ saved'[s].groups[k].captured \in Nat
    <3>1. saved[s] \in SessionType /\ saved'[s] \in SessionType
      BY <1>3 DEF TypeOK, Exists
    <3> QED
      BY <3>1, CapturedTyped
  <2>2. OnDisk(s, k) \in Nat /\ OnDisk(s, k) <= OnDisk(s, k)'
    BY <1>3, OnDiskGrows
  <2>3. saved[s].groups[k].captured <= OnDisk(s, k)
    BY <1>3 DEF CountedIsOnDisk, OnDisk
  <2> QED
    BY <1>1, <1>3, <2>1, <2>2, <2>3
<1> QED
  BY <1>2, <1>3 DEF CountsNoMore

\* Whatever a step does, the sessions it does not file a frame into count no more.
LEMMA NoneCountsMore ==
  ASSUME TypeOK, TypeOK', TaskIsSound, FramesAreNumbered, FoldersAreOwned, ~Shared, ~torn', StepKind,
         NEW s \in Sessions, NEW k \in Kinds, Exists(s)'
  PROVE  \/ CountsNoMore(s, k)
         \/ Written /\ ~task.library /\ task.session = s /\ task.kind = k /\ Exists(s)
            /\ FiledRight /\ saved' = [saved EXCEPT ![s] = Filed]
<1>1. saved \in [Sessions -> SessionType \cup {None, Gone}]
  BY DEF TypeOK
<1>2. ASSUME \/ saved'[s] = saved[s]
             \/ Exists(s) /\ Changes(s, saved'[s])
             \/ /\ Exists(s)
                /\ \A r \in Kinds : saved'[s].groups[r].captured = saved[s].groups[r].captured,
             files \subseteq files', take' = take
      PROVE  CountsNoMore(s, k)
  <2>1. Exists(s)
    BY <1>2 DEF Exists
  <2>2. saved[s].groups[k].captured \in Nat
    BY <2>1, ThereIsASession, CapturedTyped
  <2>3. saved'[s].groups[k].captured <= saved[s].groups[k].captured
    BY <1>2, <2>2 DEF Changes
  <2>4. Counted(s, k) \subseteq files'
    BY <1>2 DEF Counted
  <2> QED
    BY <1>2, <2>1, <2>3, <2>4 DEF CountsNoMore
<1>3. CASE \/ UNCHANGED vars \/ Submitted \/ Begun \/ Arrived \/ Over \/ StrayLands \/ Crashed
  <2>1. saved' = saved /\ files \subseteq files' /\ take' = take
    BY <1>3 DEF vars, Submitted, Begun, Arrived, Over, StrayLands, Crashed
  <2> QED
    BY <1>2, <2>1
<1>4. ASSUME NEW o \in Sessions, NEW d \in SessionType,
             Created(o, d) \/ RenamedTo(o, d) \/ Changed(o, d)
      PROVE  CountsNoMore(s, k)
  <2>1. saved' = [saved EXCEPT ![o] = d] /\ files' = files /\ take' = take
    BY <1>4 DEF Created, RenamedTo, Changed, Stored
  <2>2. CASE o # s
    BY <1>1, <1>2, <2>1, <2>2
  <2>3. CASE o = s /\ Created(o, d)
    BY <1>1, <2>1, <2>3 DEF Created, CountsNoMore
  <2>4. CASE o = s /\ (RenamedTo(o, d) \/ Changed(o, d))
    BY <1>1, <1>2, <2>1, <2>4 DEF RenamedTo, Changed
  <2> QED
    BY <1>4, <2>2, <2>3, <2>4
<1>5. ASSUME NEW o \in Sessions, Open(o) \/ Delete(o)
      PROVE  CountsNoMore(s, k)
  <2>1. saved'[s] = saved[s] /\ files' = files /\ take' = take
    BY <1>1, <1>5 DEF Open, Delete, Exists
  <2> QED
    BY <1>2, <2>1
<1>6. ASSUME NEW o \in Sessions, NEW q \in Kinds, NEW redo, NEW d, RedoneFrom(o, q, redo, d)
      PROVE  CountsNoMore(s, k)
  <2> DEFINE moved == UNION {InFolder(o, r) : r \in redo}
  <2>1. /\ saved' = [saved EXCEPT ![o] = d] /\ Exists(o)
        /\ \A r \in Kinds :
             d.groups[r].captured = IF r \in redo THEN 0 ELSE saved[o].groups[r].captured
        /\ o # s \/ k \notin redo => take'[s][k] = take[s][k]
        /\ files \ moved \subseteq files'
    BY <1>6 DEF RedoneFrom, Redoes, Moves
  <2>2. CASE o = s /\ k \in redo
    BY <1>1, <2>1, <2>2 DEF CountsNoMore
  <2>3. CASE o # s \/ k \notin redo
    <3>1. Exists(s) /\ saved'[s].groups[k].captured = saved[s].groups[k].captured
      BY <1>1, <2>1, <2>3 DEF Exists
    <3>2. saved[s].groups[k].captured \in Nat
      BY <3>1, ThereIsASession, CapturedTyped
    <3>3. ASSUME NEW f \in Counted(s, k)
          PROVE  f \notin moved
      <4>1. SUFFICES ASSUME NEW r \in redo, f \in InFolder(o, r)
                     PROVE  FALSE
        OBVIOUS
      <4>2. f \in files /\ f.session = s /\ f.kind = k
        BY DEF Counted
      <4>3. f.kind = r /\ f.folder = saved[o].name
        BY <4>1 DEF InFolder
      <4>4. f.session = o
        BY <2>1, <4>2, <4>3 DEF FoldersAreOwned
      <4> QED
        BY <2>3, <4>1, <4>2, <4>3, <4>4
    <3>4. Counted(s, k) \subseteq files'
      BY <2>1, <3>3 DEF Counted
    <3> QED
      BY <2>1, <2>3, <3>1, <3>2, <3>4 DEF CountsNoMore
  <2> QED
    BY <2>2, <2>3
<1>7. CASE Prepared
  <2>1. files' = files /\ take' = take
    BY <1>7 DEF Prepared
  <2>2. \/ saved'[s] = saved[s]
        \/ Exists(s) /\ Changes(s, saved'[s])
    BY <1>1, <1>7 DEF Prepared, Preparing
  <2> QED
    BY <1>2, <2>1, <2>2
<1>8. CASE Written
  <2>1. files \subseteq files' /\ take' = take
    BY <1>8 DEF Written, Filing
  <2>2. CASE saved'[s] = saved[s]
    BY <1>2, <2>1, <2>2
  <2>3. CASE saved'[s] # saved[s]
    <3>1. /\ ~task.library /\ task.session = s /\ Exists(s) /\ FiledRight
          /\ saved' = [saved EXCEPT ![s] = Filed]
      BY <1>1, <1>8, <2>3 DEF Written, Filing
    <3>2. CASE task.kind = k
      BY <1>8, <3>1, <3>2
    <3>3. CASE task.kind # k
      <4>1. saved'[s].groups[k].captured = saved[s].groups[k].captured
        BY <1>1, <3>1, <3>3 DEF FiledRight
      <4>2. saved[s].groups[k].captured \in Nat
        BY <3>1, ThereIsASession, CapturedTyped
      <4>3. Counted(s, k) \subseteq files'
        BY <2>1 DEF Counted
      <4> QED
        BY <2>1, <3>1, <4>1, <4>2, <4>3 DEF CountsNoMore
    <3> QED
      BY <3>2, <3>3
  <2> QED
    BY <2>2, <2>3
<1>9. ~CrashedInRedo
  BY DEF CrashedInRedo
<1> QED
  BY <1>3, <1>4, <1>5, <1>6, <1>7, <1>8, <1>9 DEF StepKind

\* A frame that is written is one more of its take.
LEMMA WrittenAdds ==
  ASSUME TypeOK, TaskIsSound, FramesAreNumbered, Written, ~task.library,
         NEW s, NEW k, s = task.session, k = task.kind
  PROVE  OnDisk(s, k) \in Nat /\ OnDisk(s, k)' = OnDisk(s, k) + 1
<1> DEFINE f == Listed(task.frame)
<1>1. /\ files' = files \cup {f} /\ f \notin files /\ take' = take
      /\ IsFiniteSet(files)
  BY DEF Written, Filing, FramesAreNumbered
<1>2. /\ f.session = s /\ f.kind = k /\ f.folder \in Names /\ f.kept /\ f.take = take[s][k]
  <2>1. /\ task.frame.session = s /\ task.frame.kind = k /\ task.frame.folder \in Names
        /\ task.frame.kept /\ task.frame.take = take[s][k] /\ task.frame \in FrameType
    BY FilesAreNew DEF Written, TaskIsSound, FrameAgrees
  <2> QED
    BY <2>1 DEF Listed, FrameType
<1> HIDE DEF f
<1>3. {g \in files' : /\ g.session = s /\ g.kind = k /\ g.folder \in Names
                      /\ g.kept /\ g.take = take[s][k]}
        = Counted(s, k) \cup {f}
  BY <1>1, <1>2 DEF Counted
<1>4. f \notin Counted(s, k) /\ IsFiniteSet(Counted(s, k))
  <2>1. Counted(s, k) \subseteq files
    BY DEF Counted
  <2> QED
    BY <1>1, <2>1, FS_Subset
<1>5. Cardinality(Counted(s, k) \cup {f}) = Cardinality(Counted(s, k)) + 1
      /\ Cardinality(Counted(s, k)) \in Nat
  BY <1>4, FS_AddElement, FS_CardinalityType
<1> QED
  BY <1>1, <1>3, <1>5 DEF OnDisk, Counted

LEMMA FramesThereKept ==
  ASSUME TypeOK, TaskIsSound, FramesAreNumbered, FoldersAreOwned, FramesAreThere,
         TypeOK', TaskIsSound', FramesAreNumbered', StepKind
  PROVE  FramesAreThere'
<1>1. SUFFICES ASSUME ~Shared, ~torn'
               PROVE  TaskCounts' /\ CountedIsOnDisk'
  BY DEF FramesAreThere
<1>2. ~torn
  <2>1. CASE \/ UNCHANGED vars \/ Submitted \/ Begun \/ Prepared \/ Arrived \/ Written
            \/ Over \/ StrayLands \/ Crashed \/ CrashedInRedo
    BY <1>1, <2>1 DEF vars, Submitted, Begun, Prepared, Arrived, Written, Over, StrayLands,
                      Crashed, CrashedInRedo
  <2>2. CASE \/ \E s \in Sessions, d \in SessionType :
                 Created(s, d) \/ RenamedTo(s, d) \/ Changed(s, d)
            \/ \E s \in Sessions : Open(s) \/ Delete(s)
    BY <1>1, <2>2 DEF Created, RenamedTo, Changed, Open, Delete
  <2>3. CASE \E s \in Sessions, k \in Kinds : \E redo, d : RedoneFrom(s, k, redo, d)
    BY <1>1, <2>3 DEF RedoneFrom, Redoes
  <2> QED
    BY <2>1, <2>2, <2>3 DEF StepKind
<1>3. TaskCounts /\ CountedIsOnDisk
  BY <1>1, <1>2 DEF FramesAreThere
<1>4. IsFiniteSet(files) /\ IsFiniteSet(files')
  BY DEF FramesAreNumbered
<1>5. ASSUME Busy, ~task.library, Exists(task.session),
             NEW s, NEW k, s = task.session, k = task.kind
      PROVE  /\ task.pc \in Early => task.done <= OnDisk(s, k)
             /\ task.pc \notin Early => task.base + task.index <= OnDisk(s, k) + 1
  BY <1>3, <1>5 DEF TaskCounts, OnDisk
<1>6. CountedIsOnDisk'
  <2>1. SUFFICES ASSUME NEW s \in Sessions, NEW k \in Kinds, Exists(s)'
                 PROVE  saved'[s].groups[k].captured <= OnDisk(s, k)'
    BY DEF CountedIsOnDisk, OnDisk
  <2>2. CASE CountsNoMore(s, k)
    BY <1>2, <1>3, <1>4, <2>1, <2>2, CountedKept
  <2>3. CASE Written /\ ~task.library /\ task.session = s /\ task.kind = k /\ Exists(s)
             /\ FiledRight /\ saved' = [saved EXCEPT ![s] = Filed]
    <3>1. saved'[s].groups[k].captured = task.base + task.index
      BY <2>3 DEF TypeOK, FiledRight
    <3>2. Busy /\ task.pc \notin Early
      BY <2>3 DEF Written, Early
    <3>3. task.base + task.index <= OnDisk(s, k) + 1
      BY <1>5, <2>3, <3>2
    <3>4. OnDisk(s, k)' = OnDisk(s, k) + 1
      BY <2>3, WrittenAdds
    <3> QED
      BY <3>1, <3>3, <3>4
  <2> QED
    BY <1>1, <2>1, <2>2, <2>3, NoneCountsMore
<1>7. SUFFICES ASSUME Busy', ~task'.library, Exists(task.session)',
                      NEW s, NEW k, s = task'.session, k = task'.kind
               PROVE  /\ task'.pc \in Early => task'.done <= OnDisk(s, k)'
                      /\ task'.pc \notin Early => task'.base + task'.index <= OnDisk(s, k)' + 1
  BY <1>6 DEF TaskCounts, OnDisk, Counted
<1>8. task' \in TaskType /\ s \in Sessions /\ k \in Kinds /\ Exists(s)'
  BY <1>7 DEF TypeOK, Busy, TaskIsSound, TaskAgrees, TaskType, Exists
<1>9. ASSUME Busy, s = task.session, k = task.kind, ~task.library,
             files \subseteq files', take' = take
      PROVE  /\ task \in TaskType
             /\ OnDisk(s, k) \in Nat /\ OnDisk(s, k)' \in Nat /\ OnDisk(s, k) <= OnDisk(s, k)'
             /\ task.pc \in Early => task.done <= OnDisk(s, k)
             /\ task.pc \notin Early => task.base + task.index <= OnDisk(s, k) + 1
  <2>1. saved[s] # None
    BY <1>8, <1>9, NoneAssumption DEF TaskIsSound, TaskAgrees
  <2>2. saved[s] # Gone
    BY <1>8, GoneKept DEF Exists
  <2>3. Exists(s)
    BY <2>1, <2>2 DEF Exists
  <2>4. Counted(s, k) \subseteq files'
    BY <1>9 DEF Counted
  <2>5. OnDisk(s, k) \in Nat /\ OnDisk(s, k)' \in Nat /\ OnDisk(s, k) <= OnDisk(s, k)'
    BY <1>4, <1>9, <2>4, OnDiskGrows
  <2>6. task \in TaskType
    BY <1>9 DEF TypeOK, Busy
  <2> QED
    BY <1>5, <1>9, <2>3, <2>5, <2>6
<1>10. CASE Elsewhere \/ StrayLands
  <2>1. task' = task /\ files \subseteq files' /\ take' = take
    BY <1>10, ElsewhereKeeps DEF StrayLands
  <2>2. Busy
    BY <1>7, <2>1 DEF Busy
  <2> QED
    BY <1>7, <1>9, <2>1, <2>2 DEF TaskType
<1>11. CASE Submitted
  <2>1. task'.pc \in Early /\ task'.done = saved[s].groups[k].captured
        /\ saved' = saved /\ files' = files /\ take' = take
    BY <1>7, <1>8, <1>11, NoneAssumption DEF Submitted, Made, Early
  <2>2. saved'[s].groups[k].captured <= OnDisk(s, k)'
    BY <1>1, <1>6, <1>8, <1>11 DEF CountedIsOnDisk, OnDisk, Submitted
  <2> QED
    BY <2>1, <2>2
<1>12. ASSUME NEW o \in Sessions, NEW q \in Kinds, NEW redo, NEW d, RedoneFrom(o, q, redo, d)
       PROVE  /\ task'.pc \in Early => task'.done <= OnDisk(s, k)'
              /\ task'.pc \notin Early => task'.base + task'.index <= OnDisk(s, k)' + 1
  <2>1. task'.pc \in Early /\ task'.done = 0
    BY <1>12 DEF RedoneFrom, Made, Early
  <2>2. Counted(s, k)' \subseteq files'
    BY DEF Counted
  <2>3. OnDisk(s, k)' \in Nat
    <3>1. IsFiniteSet(Counted(s, k)')
      BY <1>4, <2>2, FS_Subset
    <3> QED
      BY <3>1, FS_CardinalityType DEF OnDisk
  <2> QED
    BY <2>1, <2>3
<1>13. CASE Begun
  <2>1. Busy /\ files' = files /\ take' = take /\ task \in TaskType
    BY <1>13 DEF Begun, TypeOK, Busy
  <2>2. /\ task'.session = task.session /\ task'.kind = task.kind /\ task'.library = task.library
        /\ task'.done = task.done /\ task'.pc = "cooling" /\ task.pc \in Early
    BY <1>13, <2>1 DEF Begun, TaskType, Early
  <2> QED
    BY <1>7, <1>9, <2>1, <2>2 DEF TaskType, Early
<1>14. CASE Prepared
  <2>1. Busy /\ task.pc \in Early /\ files' = files /\ take' = take /\ Starts(task')
    BY <1>7, <1>14 DEF Prepared, Preparing, Busy, Early
  <2>2. /\ task \in TaskType /\ task.done <= OnDisk(s, k)
        /\ OnDisk(s, k) \in Nat /\ OnDisk(s, k)' \in Nat /\ OnDisk(s, k) <= OnDisk(s, k)'
    BY <1>7, <1>9, <2>1 DEF Starts
  <2>3. CASE task'.pc = "testing"
    BY <2>1, <2>2, <2>3 DEF Starts, TaskType, Early
  <2>4. CASE task'.pc = "exposing"
    BY <2>1, <2>2, <2>4 DEF Starts, TaskType, Early
  <2> QED
    BY <2>1, <2>3, <2>4 DEF Starts
<1>15. CASE Arrived
  <2>1. Busy /\ files' = files /\ take' = take /\ task \in TaskType /\ task.pc = "exposing"
    BY <1>15 DEF Arrived, TypeOK, Busy
  <2>2. /\ task'.session = task.session /\ task'.kind = task.kind /\ task'.library = task.library
        /\ task'.base = task.base /\ task'.index = task.index /\ task'.pc = "writing"
    BY <1>15, <2>1 DEF Arrived, TaskType
  <2> QED
    BY <1>7, <1>9, <2>1, <2>2 DEF TaskType, Early
<1>16. CASE Written
  <2>1. Busy /\ files \subseteq files' /\ take' = take /\ task \in TaskType /\ task.pc = "writing"
        /\ task' = NextFrame(task)
    BY <1>7, <1>16 DEF Written, Filing, TypeOK, Busy
  <2>2. /\ task'.session = task.session /\ task'.kind = task.kind /\ task'.library = task.library
        /\ task'.base = task.base /\ task'.index = task.index + 1 /\ task'.pc = "exposing"
    BY <2>1 DEF NextFrame, TaskType
  <2>3. task.base + task.index <= OnDisk(s, k) + 1
    BY <1>7, <1>9, <2>1, <2>2 DEF TaskType, Early
  <2>4. OnDisk(s, k) \in Nat /\ OnDisk(s, k)' = OnDisk(s, k) + 1
    BY <1>7, <1>16, <2>2, WrittenAdds
  <2> QED
    BY <2>1, <2>2, <2>3, <2>4 DEF TaskType, Early
<1>17. CASE Over \/ Crashed \/ CrashedInRedo
  BY <1>7, <1>17 DEF Over, Ends, Crashed, CrashedInRedo, Restarted, Busy
<1> QED
  BY <1>10, <1>11, <1>12, <1>13, <1>14, <1>15, <1>16, <1>17 DEF StepKind, Elsewhere

-----------------------------------------------------------------------------
(* Theorems                                                                *)

LEMMA InitInv == Init => ImagingInv
<1> SUFFICES ASSUME Init
             PROVE  ImagingInv
  OBVIOUS
<1>1. TypeOK
  BY DEF Init, TypeOK
<1>2. TaskIsSound /\ LinkedFollow /\ NothingDangles /\ FoldersAreOwned
  BY DEF Init, TaskIsSound, Busy, LinkedFollow, NothingDangles, FoldersAreOwned, Exists
<1>3. FramesAreNumbered
  BY FS_EmptySet DEF Init, FramesAreNumbered
<1>4. FramesAreThere
  BY DEF Init, FramesAreThere, TaskCounts, Busy, CountedIsOnDisk, Exists
<1> QED
  BY <1>1, <1>2, <1>3, <1>4 DEF ImagingInv

LEMMA StepInv == ImagingInv /\ [Next]_vars => ImagingInv'
<1> SUFFICES ASSUME ImagingInv, [Next]_vars
             PROVE  ImagingInv'
  OBVIOUS
<1>1. /\ TypeOK /\ TaskIsSound /\ FramesAreNumbered /\ FoldersAreOwned /\ FramesAreThere
      /\ LinkedFollow /\ NothingDangles
  BY DEF ImagingInv
<1>2. StepKind
  BY NextComesTo
<1>3. TypeOK' /\ TaskIsSound' /\ FramesAreNumbered'
  BY <1>1, <1>2, TypeKept, SoundKept, NumberedKept
<1>4. FoldersAreOwned' /\ LinkedFollow' /\ NothingDangles'
  BY <1>1, <1>2, OwnedKept, LinkedKept, DanglesKept
<1>5. FramesAreThere'
  BY <1>1, <1>2, <1>3, FramesThereKept
<1> QED
  BY <1>3, <1>4, <1>5 DEF ImagingInv

LEMMA InvAlways == Spec => []ImagingInv
BY InitInv, StepInv, PTL DEF Spec

\* Everything has its type, whatever is asked and whenever the process dies.
THEOREM TypeSafety == Spec => []TypeOK
<1>1. ImagingInv => TypeOK
  BY DEF ImagingInv
<1> QED
  BY <1>1, InvAlways, PTL

\* While no two sessions share a folder, a session never counts a frame that is
\* not in its folder from the take it is at (frames.py _update, redo_group).
THEOREM CountedFramesAreThere ==
  ASSUME ~Shared
  PROVE  Spec => []CountedIsOnDisk
<1>1. ImagingInv => CountedIsOnDisk
  BY DEF ImagingInv, FramesAreThere, CountedIsOnDisk
<1> QED
  BY <1>1, InvAlways, PTL

\* No row, no dark set and no night log names what is not there, shared folders
\* or not (record_frame, reject_frames, journal.py folder).
THEOREM NamesComeToSomething == Spec => []NothingDangles
<1>1. ImagingInv => NothingDangles
  BY DEF ImagingInv
<1> QED
  BY <1>1, InvAlways, PTL

\* The groups that follow another have its settings, after every change, every
\* flat search and every redo (relink).
THEOREM FollowersFollow == Spec => []LinkedFollow
<1>1. ImagingInv => LinkedFollow
  BY DEF ImagingInv
<1> QED
  BY <1>1, InvAlways, PTL

\* The task of a deleted session does not bring it back (frames.py _update).
THEOREM DeletedIsDeleted == Spec => DeletedStaysDeleted
<1>1. ImagingInv /\ [Next]_vars => [\A s \in Sessions : saved[s] = Gone => saved'[s] = Gone]_vars
  BY NextComesTo, GoneKept DEF ImagingInv
<1> QED
  BY <1>1, InvAlways, PTL DEF Spec, DeletedStaysDeleted

\* A run that ends well leaves its group counted in full, resumed or not
\* (frames.py _shoot).
THEOREM RunsComplete == Spec => CompletesInFull
<1> DEFINE Full == FrameWritten /\ ~task.library /\ Exists(task.session) /\ task' = None
                     => saved'[task.session].groups[task.kind].captured = Count
<1>1. ImagingInv /\ [Next]_vars => [Full]_vars
  <2> SUFFICES ASSUME ImagingInv, FrameWritten, ~task.library, Exists(task.session), task' = None
               PROVE  saved'[task.session].groups[task.kind].captured = Count
    OBVIOUS
  <2>1. Busy /\ task.pc = "writing" /\ task \in TaskType
        /\ TypeOK /\ TaskIsSound /\ FramesAreNumbered /\ LinkedFollow /\ CurrentIsSaved
    BY DEF ImagingInv, FrameWritten, TypeOK, Busy, NothingDangles, CurrentIsSaved
  <2>2. Filing
    BY <2>1, FrameWrittenComesTo
  <2>3. Last(task)
    <3>1. ASSUME ~Last(task)
          PROVE  NextFrame(task) # None
      <4>1. task.index + 1 \in 1..Count
        BY <2>1, <3>1, CountAssumption DEF Last, TaskIsSound, TaskAgrees, TaskType
      <4>2. NextFrame(task) \in TaskType
        BY <2>1, <4>1 DEF NextFrame, TaskType
      <4> QED
        BY <4>2, ValuesAssumption
    <3> QED
      BY <3>1 DEF FrameWritten
  <2>4. task.base + task.index = Count
    BY <2>1, <2>3 DEF Last, TaskIsSound, TaskAgrees
  <2>5. task.session \in Sessions /\ FiledRight /\ saved' = [saved EXCEPT ![task.session] = Filed]
    BY <2>2 DEF Filing
  <2> QED
    BY <2>1, <2>4, <2>5 DEF TypeOK, FiledRight
<1> QED
  BY <1>1, InvAlways, PTL DEF Spec, CompletesInFull
=============================================================================
