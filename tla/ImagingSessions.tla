-------------------------- MODULE ImagingSessions --------------------------
(***************************************************************************)
(* A night's frames: the session files of storage/imaging.py, the requests *)
(* of api/routes/imaging.py that load, change and save them, the task of   *)
(* sequencing/tasks/frames.py that shoots one group and counts each frame  *)
(* once it is on disk, the archive it is written to, and the table beside  *)
(* the frames.  The process may die at any moment; files outlive it.       *)
(*                                                                         *)
(* A request runs from its load to its save without an await, so it is one *)
(* action.  What a crash can leave of one is an action of its own.  Gain,  *)
(* offset, temperature and binning are copied together: one value, setup.  *)
(* A deleted session's id is never used again.  Library darks are filed    *)
(* under what a dark has to match, beside the nights.                      *)
(***************************************************************************)
EXTENDS Naturals, FiniteSets

CONSTANTS
  Sessions,  (* session ids, each of the same night                        *)
  Names,     (* target names: a session's folder is its night and name     *)
  Shared,    (* whether two sessions of a night may bear the same name     *)
  Started,   (* <<session, group>>: the groups the operator starts         *)
  Patches,   (* <<group, field, value>>: changes the operator makes        *)
  Exposures, (* exposures the flat search may come to                      *)
  Count,     (* frames in a group                                          *)
  MaxFrames, (* bound: frames ever shot                                    *)
  MaxTakes,  (* bound: times a group is redone                             *)
  None, Gone (* no value; what is left of a deleted session                *)

Kinds == {"light", "flat", "darkflat", "dark"}

ASSUME CountAssumption == Count \in Nat \ {0}
ASSUME BoundsAssumption == MaxFrames \in Nat /\ MaxTakes \in Nat
ASSUME ExposureAssumption == Exposures \subseteq Nat \ {0} /\ Exposures # {}
ASSUME StartedAssumption == Started \subseteq Sessions \X Kinds
ASSUME SharedAssumption == Shared \in BOOLEAN
ASSUME PatchesAssumption ==
  Patches \subseteq (Kinds \X {"exposure", "setup"} \X Nat) \cup (Kinds \X {"linked"} \X BOOLEAN)
ASSUME NoneAssumption == None \notin Sessions
\* A session's folder is not one of the dark library's.
ASSUME NamesAssumption == \A n \in Names : n \notin Nat \X Nat

VARIABLES
  saved,     (* the session files, None where there is none                *)
  current,   (* current_session: the copy in memory of the one being worked *)
  task,      (* the group task that runs, or None                          *)
  strays,    (* frames the archive's threads still write for nobody        *)
  files,     (* the frames on disk, each with what the table says of it    *)
  shelf,     (* the dark library's sets that carry their metadata          *)
  shot,      (* history: frames that ever reached the archive              *)
  take,      (* history: how often each group was redone                   *)
  torn       (* history: a crash cut a redo or a library run short         *)

vars == <<saved, current, task, strays, files, shelf, shot, take, torn>>

NoExposure == 0
NewGroup(k) ==
  [exposure |-> IF k \in {"flat", "darkflat"} THEN NoExposure ELSE 1,
   setup |-> 1, captured |-> 0, linked |-> k # "light", auto |-> k = "flat"]

\* What each following group copies its setup from: LINKS.
Source == [k \in {"dark", "flat", "darkflat"} |-> IF k = "darkflat" THEN "flat" ELSE "light"]

\* A bug: the dark flats are copied before the flats are.
MutantRelink(g) ==
  LET Followed(k) == IF g[k].linked THEN [g[k] EXCEPT !.setup = g[Source[k]].setup] ELSE g[k]
      dark == IF g["dark"].linked
              THEN [Followed("dark") EXCEPT !.exposure = g["light"].exposure] ELSE g["dark"]
  IN [g EXCEPT !["dark"] = dark, !["flat"] = Followed("flat"),
               !["darkflat"] = Followed("darkflat")]

\* Darks and flats follow the lights, then dark flats the fresh flats,
\* whose exposure they take once there is one.
Relink(g) ==
  LET light == g["light"]
      dark == IF g["dark"].linked
              THEN [g["dark"] EXCEPT !.setup = light.setup, !.exposure = light.exposure]
              ELSE g["dark"]
      flat == IF g["flat"].linked THEN [g["flat"] EXCEPT !.setup = light.setup] ELSE g["flat"]
      darkflat == IF g["darkflat"].linked
                  THEN [g["darkflat"] EXCEPT !.setup = flat.setup,
                          !.exposure = IF flat.exposure = NoExposure THEN @ ELSE flat.exposure]
                  ELSE g["darkflat"]
  IN [g EXCEPT !["dark"] = dark, !["flat"] = flat, !["darkflat"] = darkflat]

NewSession(n) == [name |-> n, groups |-> Relink([k \in Kinds |-> NewGroup(k)])]

Exists(s) == saved[s] \notin {None, Gone}
Busy == task # None

\* A name no other session and no other session's frames have taken.
Free(s, n) ==
  /\ \A o \in Sessions \ {s} : Exists(o) => saved[o].name # n
  /\ \A f \in files \cup strays : f.folder = n => f.session = s
  /\ Busy /\ task.frame # None /\ task.frame.folder = n => task.session = s

\* The frames a redo of a group would set aside: those of its folder.
InFolder(s, k) ==
  {f \in files : f.kept /\ f.kind = k /\ f.folder = saved[s].name}

Holds(s) == current # None /\ current.id = s
Copy(s, data) == [id |-> s, name |-> data.name]

-----------------------------------------------------------------------------
(* The operator's requests.                                                *)

Create(s, n) ==
  /\ saved[s] = None
  /\ Shared \/ Free(s, n)
  /\ saved' = [saved EXCEPT ![s] = NewSession(n)]
  /\ current' = Copy(s, NewSession(n))
  /\ UNCHANGED <<task, strays, files, shelf, shot, take, torn>>

Open(s) ==
  /\ Exists(s)
  /\ current' = Copy(s, saved[s])
  /\ UNCHANGED <<saved, task, strays, files, shelf, shot, take, torn>>

\* Its frames stay where they are.
Delete(s) ==
  /\ Exists(s)
  /\ saved' = [saved EXCEPT ![s] = Gone]
  /\ current' = IF Holds(s) THEN None ELSE current
  /\ UNCHANGED <<task, strays, files, shelf, shot, take, torn>>

\* Saves a request's or the task's changes, and the copy in memory with them.
Save(s, data) ==
  /\ saved' = [saved EXCEPT ![s] = data]
  /\ current' = IF Holds(s) THEN Copy(s, data) ELSE current

Rename(s, n) ==
  /\ Exists(s)
  /\ Shared \/ Free(s, n)
  /\ Save(s, [saved[s] EXCEPT !.name = n, !.groups = Relink(@)])
  /\ UNCHANGED <<task, strays, files, shelf, shot, take, torn>>

\* A value typed into a following group takes the group over; one typed into
\* the flats' exposure also stops them finding their own.
Patched(g, k, field, v) ==
  LET typed == CASE field = "exposure" -> [g[k] EXCEPT !.exposure = v]
                 [] field = "setup"    -> [g[k] EXCEPT !.setup = v]
                 [] field = "linked"   -> [g[k] EXCEPT !.linked = v]
      owned == IF k # "light" /\ field # "linked" THEN [typed EXCEPT !.linked = FALSE] ELSE typed
  IN [g EXCEPT ![k] = IF k = "flat" /\ field = "exposure"
                      THEN [owned EXCEPT !.auto = v = NoExposure] ELSE owned]

Patch(s, p) ==
  /\ Exists(s)
  /\ Save(s, [saved[s] EXCEPT !.groups = Relink(Patched(@, p[1], p[2], p[3]))])
  /\ UNCHANGED <<task, strays, files, shelf, shot, take, torn>>

-----------------------------------------------------------------------------
(* Starting a group.  The task keeps the settings it was made with; of its *)
(* setup only the folder of library darks is told apart.                   *)

GroupTask(s, k, group, library) ==
  [session |-> s, kind |-> k, library |-> library, exposure |-> group.exposure,
   setup |-> IF library THEN group.setup ELSE 0, auto |-> group.auto, done |-> group.captured,
   pc |-> "submitted", base |-> 0, total |-> Count, index |-> 1, frame |-> None]

Submit(t) ==
  /\ ~Busy
  /\ shot + Count <= MaxFrames
  /\ task' = t

StartGroup(s, k, library) ==
  /\ Exists(s)
  /\ library => k = "dark"
  /\ Submit(GroupTask(s, k, saved[s].groups[k], library))
  /\ UNCHANGED <<saved, current, strays, files, shelf, shot, take, torn>>

ShootLibrary ==
  /\ Submit(GroupTask(None, "dark", NewGroup("dark"), TRUE))
  /\ UNCHANGED <<saved, current, strays, files, shelf, shot, take, torn>>

\* A bug: the rows keep saying where the files were.
MutantAside(moved) ==
  {IF f \notin moved THEN f ELSE [f EXCEPT !.kept = FALSE] : f \in files}

\* Moved aside, never deleted; the table's rows follow the files.
Aside(moved) ==
  {IF f \notin moved THEN f
   ELSE [f EXCEPT !.kept = FALSE, !.listed = IF @ = "no" THEN @ ELSE "aside"] : f \in files}

Redone(k, also) == {k} \cup IF k = "flat" /\ also THEN {"darkflat"} ELSE {}

\* A bug: only the frames are set aside, not their count.
MutantRedo(s, k, also) ==
  /\ Exists(s)
  /\ \A r \in Redone(k, also) : take[s][r] < MaxTakes
  /\ Submit(GroupTask(s, k, saved[s].groups[k], FALSE))
  /\ files' = Aside(UNION {InFolder(s, r) : r \in Redone(k, also)})
  /\ take' = [take EXCEPT ![s] = [r \in Kinds |-> @[r] + IF r \in Redone(k, also) THEN 1 ELSE 0]]
  /\ UNCHANGED <<saved, current, strays, shelf, shot, torn>>

Redo(s, k, also) ==
  LET redo == Redone(k, also)
      groups == [r \in Kinds |->
                   [saved[s].groups[r] EXCEPT !.captured = IF r \in redo THEN 0 ELSE @,
                                              !.auto = IF r = "flat" /\ k = "flat" THEN TRUE ELSE @]]
  IN /\ Exists(s)
     /\ \A r \in redo : take[s][r] < MaxTakes
     /\ Submit(GroupTask(s, k, groups[k], FALSE))
     /\ files' = Aside(UNION {InFolder(s, r) : r \in redo})
     /\ saved' = [saved EXCEPT ![s].groups = groups]
     /\ take' = [take EXCEPT ![s] = [r \in Kinds |-> @[r] + IF r \in redo THEN 1 ELSE 0]]
     /\ UNCHANGED <<current, strays, shelf, shot, torn>>

-----------------------------------------------------------------------------
(* The task.                                                               *)

Label(t) == <<t.exposure, t.setup>>

\* The session a task works for is still there; library darks may have none.
Known(t) == t.session \in {None} \cup {s \in Sessions : Exists(s)}

\* The task's end, however it ends: a library run describes its set if it
\* has a folder.
Ends(present) ==
  /\ task' = None
  /\ shelf' = shelf \cup
       {l \in {Label(task)} : /\ task.library
                              /\ task.pc \in {"exposing", "writing"}
                              /\ \E f \in present : f.folder = l}

\* The run's first steps make its session the current one.
Begin ==
  /\ Busy /\ task.pc = "submitted"
  /\ \/ /\ Known(task)
        /\ task' = [task EXCEPT !.pc = "cooling"]
        /\ current' = IF task.session = None THEN current ELSE Copy(task.session, saved[task.session])
        /\ UNCHANGED shelf
     \/ /\ ~Known(task)
        /\ Ends(files)
        /\ UNCHANGED current
  /\ UNCHANGED <<saved, strays, files, shot, take, torn>>

\* A bug: the frames shot before are left out of the count.
MutantResumed(t) == [t EXCEPT !.pc = "exposing", !.total = Count - t.done]
\* Only what is missing is shot, and counted on from what is there.
Resumed(t) == [t EXCEPT !.pc = "exposing", !.base = t.done, !.total = Count - t.done]

\* What is left before the first frame, no await in it: a group without an
\* exposure fails, a stopped one goes on where it left off, any other starts
\* over.
Prepare(t, data) ==
  \/ /\ t.exposure = NoExposure
     /\ Ends(files)
     /\ saved' = IF t.session = None THEN saved ELSE [saved EXCEPT ![t.session] = data]
     /\ UNCHANGED current
  \/ /\ t.exposure # NoExposure
     /\ t.library
     /\ task' = [t EXCEPT !.pc = "exposing"]
     /\ UNCHANGED <<saved, current, shelf>>
  \/ /\ t.exposure # NoExposure
     /\ ~t.library
     /\ 0 < t.done /\ t.done < Count
     /\ task' = Resumed(t)
     /\ saved' = [saved EXCEPT ![t.session] = data]
     /\ UNCHANGED <<current, shelf>>
  \/ /\ t.exposure # NoExposure
     /\ ~t.library
     /\ t.done = 0 \/ t.done = Count
     /\ data # Gone
     /\ task' = [t EXCEPT !.pc = "exposing"]
     /\ Save(t.session, [data EXCEPT !.groups[t.kind].captured = 0])
     /\ UNCHANGED shelf
  \/ /\ t.exposure # NoExposure
     /\ ~t.library
     /\ t.done = 0 \/ t.done = Count
     /\ data = Gone
     /\ Ends(files)
     /\ UNCHANGED <<saved, current>>

FindsExposure == task.kind = "flat" /\ (task.auto \/ task.exposure = NoExposure)

CoolingEnds ==
  /\ Busy /\ task.pc = "cooling"
  /\ IF FindsExposure
     THEN task' = [task EXCEPT !.pc = "testing"] /\ UNCHANGED <<saved, current, shelf>>
     ELSE Prepare(task, IF task.session = None THEN None ELSE saved[task.session])
  /\ UNCHANGED <<strays, files, shot, take, torn>>

\* Remembered on the session, and passed on to dark flats that follow.
ExposureFound ==
  /\ Busy /\ task.pc = "testing"
  /\ \E e \in Exposures :
       IF Exists(task.session)
       THEN Prepare([task EXCEPT !.exposure = e],
                    [saved[task.session] EXCEPT
                       !.groups = Relink([@ EXCEPT !["flat"].exposure = e])])
       ELSE Ends(files) /\ UNCHANGED <<saved, current>>
  /\ UNCHANGED <<strays, files, shot, take, torn>>

Frame(t) ==
  [number |-> shot + 1, session |-> t.session,
   kind |-> t.kind, exposure |-> t.exposure,
   folder |-> IF t.library THEN Label(t) ELSE saved[t.session].name,
   take |-> IF t.library THEN 0 ELSE take[t.session][t.kind],
   stray |-> FALSE, kept |-> TRUE, listed |-> "no"]

\* The exposure is over; without a session to file it under the frame is lost.
FrameArrives ==
  /\ Busy /\ task.pc = "exposing"
  /\ \/ /\ Known(task)
        /\ task' = [task EXCEPT !.pc = "writing", !.frame = Frame(task)]
        /\ shot' = shot + 1
        /\ UNCHANGED shelf
     \/ /\ ~Known(task)
        /\ Ends(files)
        /\ UNCHANGED shot
  /\ UNCHANGED <<saved, current, strays, files, take, torn>>

NextFrame(t) == [t EXCEPT !.pc = "exposing", !.index = @ + 1, !.frame = None]
Last(t) == t.index = t.total
Listed(f) == [f EXCEPT !.listed = "kept"]

\* A bug: the frame is counted in the settings the task was made with, and
\* the session is written without being read again.
MutantFrameWritten ==
  /\ Busy /\ task.pc = "writing" /\ ~task.library
  /\ files' = files \cup {Listed(task.frame)}
  /\ LET data == IF Exists(task.session) THEN saved[task.session]
                 ELSE NewSession(task.frame.folder)
     IN Save(task.session, [data EXCEPT !.groups[task.kind].captured = task.base + task.index])
  /\ IF Last(task) THEN Ends(files') ELSE task' = NextFrame(task) /\ UNCHANGED shelf
  /\ UNCHANGED <<strays, shot, take, torn>>

\* The archive's thread is done: the row and the count, and the next frame.
FrameWritten ==
  /\ Busy /\ task.pc = "writing"
  /\ files' = files \cup {Listed(task.frame)}
  /\ \/ /\ task.library
        /\ IF Last(task) THEN Ends(files') ELSE task' = NextFrame(task) /\ UNCHANGED shelf
        /\ UNCHANGED <<saved, current>>
     \/ /\ ~task.library /\ Exists(task.session)
        /\ Save(task.session,
                [saved[task.session] EXCEPT !.groups[task.kind].captured = task.base + task.index])
        /\ IF Last(task) THEN Ends(files') ELSE task' = NextFrame(task) /\ UNCHANGED shelf
     \/ /\ ~task.library /\ ~Exists(task.session)
        /\ Ends(files')
        /\ UNCHANGED <<saved, current>>
  /\ UNCHANGED <<strays, shot, take, torn>>

\* The cooler, the camera, the mount or the drive fails the task.
Fails ==
  /\ Busy /\ task.pc # "submitted"
  /\ Ends(files)
  /\ UNCHANGED <<saved, current, strays, files, shot, take, torn>>

\* A thread of the archive cannot be stopped: a cancelled write may go on.
Cancel ==
  /\ Busy /\ task.pc # "submitted"
  /\ \/ UNCHANGED strays
     \/ task.pc = "writing" /\ strays' = strays \cup {[task.frame EXCEPT !.stray = TRUE]}
  /\ Ends(files)
  /\ UNCHANGED <<saved, current, files, shot, take, torn>>

StrayLands ==
  /\ \E f \in strays : strays' = strays \ {f} /\ files' = files \cup {f}
  /\ UNCHANGED <<saved, current, task, shelf, shot, take, torn>>

-----------------------------------------------------------------------------
(* The process dies.  What a request or the task had done of a step stays. *)

Restarted == task' = None /\ current' = None /\ strays' = {}

\* Before a frame is on disk, after it, or after its row but before its count.
Crash ==
  /\ Restarted
  /\ \/ UNCHANGED files
     \/ /\ Busy /\ task.pc = "writing"
        /\ files' = files \cup {task.frame}
     \/ /\ Busy /\ task.pc = "writing"
        /\ files' = files \cup {Listed(task.frame)}
  /\ torn' = (torn \/ (Busy /\ task.library))
  /\ UNCHANGED <<saved, shelf, shot, take>>

\* Some frames moved, their rows not yet; or all of both, the count not yet.
CrashInRedo(s, k) ==
  /\ ~Busy /\ Exists(s)
  /\ InFolder(s, k) # {}
  /\ \/ files' = Aside(InFolder(s, k))
     \/ \E moved \in SUBSET InFolder(s, k) :
          files' = {IF f \in moved THEN [f EXCEPT !.kept = FALSE] ELSE f : f \in files}
  /\ Restarted
  /\ torn' = TRUE
  /\ UNCHANGED <<saved, shelf, shot, take>>

-----------------------------------------------------------------------------
Init ==
  /\ saved = [s \in Sessions |-> None]
  /\ current = None
  /\ task = None
  /\ strays = {}
  /\ files = {}
  /\ shelf = {}
  /\ shot = 0
  /\ take = [s \in Sessions |-> [k \in Kinds |-> 0]]
  /\ torn = FALSE

Request ==
  \/ \E s \in Sessions, n \in Names : Create(s, n) \/ Rename(s, n)
  \/ \E s \in Sessions : Open(s) \/ Delete(s)
  \/ \E s \in Sessions, p \in Patches : Patch(s, p)
  \/ \E g \in Started, library \in BOOLEAN : StartGroup(g[1], g[2], library)
  \/ \E g \in Started, also \in BOOLEAN : Redo(g[1], g[2], also)
  \/ ShootLibrary

TaskStep == Begin \/ CoolingEnds \/ ExposureFound \/ FrameArrives \/ FrameWritten

Next ==
  \/ Request
  \/ TaskStep
  \/ Fails \/ Cancel \/ StrayLands
  \/ Crash
  \/ \E s \in Sessions, k \in Kinds : CrashInRedo(s, k)

Spec == Init /\ [][Next]_vars

-----------------------------------------------------------------------------
Exposed == Exposures \cup {NoExposure, 1}
GroupType ==
  [exposure : Nat, setup : Nat, captured : 0..Count, linked : BOOLEAN, auto : BOOLEAN]
SessionType == [name : Names, groups : [Kinds -> GroupType]]
Folders == Names \cup (Nat \X Nat)
FrameType ==
  [number : Nat, session : Sessions \cup {None}, kind : Kinds, exposure : Nat,
   folder : Folders, take : Nat, stray : BOOLEAN, kept : BOOLEAN,
   listed : {"no", "kept", "aside"}]
TaskType ==
  [session : Sessions \cup {None}, kind : Kinds, library : BOOLEAN, exposure : Nat,
   setup : Nat, auto : BOOLEAN, done : 0..Count,
   pc : {"submitted", "cooling", "testing", "exposing", "writing"},
   base : 0..Count, total : 1..Count, index : 1..Count, frame : FrameType \cup {None}]

\* "No value" is not a value.
ASSUME ValuesAssumption ==
  /\ Gone # None /\ {None, Gone} \cap SessionType = {}
  /\ None \notin TaskType /\ None \notin FrameType
  /\ None \notin [id : Sessions, name : Names]

\* The sessions, the task, the frames and the library have their types.
TypeOK ==
  /\ saved \in [Sessions -> SessionType \cup {None, Gone}]
  /\ current \in [id : Sessions, name : Names] \cup {None}
  /\ task \in TaskType \cup {None}
  /\ \A f \in files \cup strays : f \in FrameType
  /\ shelf \subseteq Nat \X Nat
  /\ shot \in Nat
  /\ take \in [Sessions -> [Kinds -> Nat]]
  /\ torn \in BOOLEAN

\* A session never counts a frame that is not in its folder from this take:
\* a resumed run shoots only what is missing (frames.py _update, redo_group).
Counted(s, k) ==
  {f \in files : /\ f.session = s /\ f.kind = k /\ f.folder \in Names
                 /\ f.kept /\ f.take = take[s][k]}
CountedIsOnDisk ==
  ~torn => \A s \in Sessions, k \in Kinds :
             Exists(s) => saved[s].groups[k].captured <= Cardinality(Counted(s, k))

\* Nothing names what is not there.  A row of the frames table says where its
\* frame is, in the group's folder or set aside (record_frame, reject_frames);
\* library darks are in a set with its metadata once the run that shot them is
\* over, however it ended, unless a thread outlived it; the night log goes to
\* the folder of a session that exists, under the name it has now (journal.py
\* folder).
NothingDangles ==
  /\ ~torn => \A f \in files :
       /\ f.listed # "no" => (f.listed = "kept") = f.kept
       /\ \/ f.folder \in Names \cup shelf \/ f.stray
          \/ Busy /\ task.library /\ task.pc \in {"exposing", "writing"} /\ Label(task) = f.folder
  /\ current # None => Exists(current.id) /\ saved[current.id].name = current.name

\* The groups that follow another have its setup, and darks and dark flats its
\* exposure once there is one, after every change and every flat search.
LinkedFollow ==
  \A s \in Sessions : Exists(s) =>
    LET g == saved[s].groups IN
    /\ \A k \in DOMAIN Source : g[k].linked => g[k].setup = g[Source[k]].setup
    /\ g["dark"].linked => g["dark"].exposure = g["light"].exposure
    /\ g["darkflat"].linked /\ g["flat"].exposure # NoExposure
         => g["darkflat"].exposure = g["flat"].exposure

\* A session deleted under the task that counts into it stays deleted.
DeletedStaysDeleted ==
  [][\A s \in Sessions : saved[s] = Gone => saved'[s] = Gone]_vars

\* A group that ends well, resumed or not, stands counted in full.
CompletesInFull ==
  [][FrameWritten /\ ~task.library /\ Exists(task.session) /\ task' = None
       => saved'[task.session].groups[task.kind].captured = Count]_vars
=============================================================================
