---------------------------- MODULE PolarAlignment ----------------------------
(***************************************************************************)
(* Polar alignment.  By hand (routes/polar.py, services/twopointpolar.py): *)
(* frames are captured, looked at and kept; from the second on they fit an *)
(* axis; then live frames follow the knobs.  By a sweep (tasks/polar.py,   *)
(* services/polaralign.py): a task slews to each of its points, and refine *)
(* solves one more frame against what they gave.                           *)
(*                                                                         *)
(* Each shot awaits its exposure and its solve; reset, accept, drop and    *)
(* repin come in between.  A frame is known by where the mount stood and   *)
(* by how the knobs had been turned: those are what the axis depends on.   *)
(***************************************************************************)
EXTENDS Integers, Sequences, SequencesExt, FiniteSetsExt

CONSTANTS
  Places,       (* readings of the RA axis, in degrees                     *)
  Side,         (* the pier side at each, "unknown" for a mount that does not say *)
  MinRotation,  (* MIN_ROTATION_DEG                                        *)
  KeptShots,    (* how many shots are kept to choose from: 4               *)
  Points,       (* points of a sweep                                       *)
  Requesters,   (* handlers of requests that await                         *)
  MaxShots,     (* bound: shots by hand and sweeps, together               *)
  MaxTurns,     (* bound: turns of the knobs                               *)
  MaxResets,    (* bound: resets, and changes of the site                  *)
  Nothing       (* None                                                     *)

ASSUME PlacesAssumption == Places \subseteq Int /\ MinRotation \in Nat \ {0}
ASSUME PointsAssumption == Points \in Nat /\ Points >= 3
ASSUME KeptShotsAssumption == KeptShots \in Nat \ {0}
ASSUME PolarBoundsAssumption == {MaxShots, MaxTurns, MaxResets} \subseteq Nat

VARIABLES
  frames,    (* the kept frames                                            *)
  shots,     (* the frames of the latest few shots, Nothing if it did not solve *)
  fit,       (* the frames it was made of, and for which site              *)
  knobs,     (* the frame they were read off last, of the fit or live      *)
  adjusting, (* a live frame has been asked for                            *)
  pinned,    (* the markers: the fit and the shot they were made of        *)
  last_solve,(* the shot that solved last                                  *)
  lock,      (* who exposes                                                *)
  request,   (* what each requester is doing                               *)
  service,   (* for each site there was, the sweep's service: the points   *)
             (* recorded, the axis they gave, whether an error is known    *)
  task,      (* the service of the sweep under way                         *)
  turn,      (* of the knobs                                               *)
  taken, resets, sweeps,   (* counts                                       *)
  overtaken  (* history: the last reset came while a shot was under way    *)

session == <<frames, shots, fit, knobs, adjusting, pinned, last_solve>>
sweep == <<service, task, sweeps>>
polarVars == <<session, lock, request, sweep, turn, taken, resets, overtaken>>

ByHand == {"capture", "live"}
InFlight == \E p \in Requesters : request[p] # Nothing
\* The site in force: services are replaced with it.
Site == Len(service)

\* fit_frames: two frames or more, one side of the meridian, a long enough arc.
Span(fs) == LET turned == {fs[i].at : i \in DOMAIN fs} IN Max(turned) - Min(turned)
Fits(fs) ==
  /\ Len(fs) >= 2
  /\ Cardinality({Side[fs[i].at] : i \in DOMAIN fs} \ {"unknown"}) <= 1
  /\ Span(fs) >= MinRotation

-----------------------------------------------------------------------------
(* Shots by hand.                                                          *)

\* capture and live; live is refused before a fit, and from then on the knobs
\* may have turned.
Ask(p, kind) ==
  /\ request[p] = Nothing /\ taken + sweeps < MaxShots
  /\ kind = "live" => fit # Nothing
  /\ adjusting' = (adjusting \/ kind = "live")
  /\ request' = [request EXCEPT ![p] = [kind |-> kind, pc |-> "queued", shot |-> Nothing]]
  /\ UNCHANGED <<frames, shots, fit, knobs, pinned, last_solve, lock, sweep, turn, taken, resets, overtaken>>

\* A bug: the exposure does not take the lock.
MutantExposes(p) ==
  /\ request[p] # Nothing /\ request[p].pc = "queued"
  /\ task = Nothing
  /\ request' = [request EXCEPT ![p].pc = "exposing"]
  /\ UNCHANGED <<session, lock, sweep, turn, taken, resets, overtaken>>

\* _shoot under the lock, while no task runs.
Exposes(p) ==
  /\ request[p] # Nothing /\ request[p].pc = "queued"
  /\ lock = Nothing /\ task = Nothing
  /\ lock' = p
  /\ request' = [request EXCEPT ![p].pc = "exposing"]
  /\ UNCHANGED <<session, sweep, turn, taken, resets, overtaken>>

\* The shutter closes, and the mount is read, wherever it was moved to by now.
Exposed(p, place) ==
  /\ request[p] # Nothing /\ request[p].pc = "exposing"
  /\ taken + sweeps < MaxShots /\ taken' = taken + 1
  /\ request' = [request EXCEPT ![p].pc = "solving",
                                ![p].shot = [id |-> taken + 1, turn |-> turn, at |-> place, of |-> resets]]
  /\ UNCHANGED <<session, lock, sweep, turn, resets, overtaken>>

\* A task has the camera, or the exposure fails: the request does.
Refused(p) ==
  /\ request[p] # Nothing /\ request[p].kind \in ByHand
  /\ \/ request[p].pc = "queued" /\ lock = Nothing /\ task # Nothing
     \/ request[p].pc = "exposing"
  /\ lock' = IF lock = p THEN Nothing ELSE lock
  /\ request' = [request EXCEPT ![p] = Nothing]
  /\ UNCHANGED <<session, sweep, turn, taken, resets, overtaken>>

\* The latest few are kept to choose from.
WithShot(shot) ==
  Append(IF Len(shots) >= KeptShots THEN SubSeq(shots, Len(shots) - KeptShots + 2, Len(shots)) ELSE shots, shot)

\* The frame did not solve: it can be looked at, no more.
Unsolved(p) ==
  /\ request[p] # Nothing /\ request[p].pc = "solving"
  /\ shots' = WithShot(Nothing)
  /\ lock' = IF lock = p THEN Nothing ELSE lock
  /\ request' = [request EXCEPT ![p] = Nothing]
  /\ UNCHANGED <<frames, fit, knobs, adjusting, pinned, last_solve, sweep, turn, taken, resets, overtaken>>

\* It solved.  A live frame then moves the knobs' reading and pins the markers, if
\* they are on the frame and not pinned; without a fit it ends in an error.
Solved(p) ==
  /\ request[p] # Nothing /\ request[p].pc = "solving"
  /\ LET shot == request[p].shot IN
     /\ shots' = WithShot(shot)
     /\ last_solve' = shot
     /\ IF request[p].kind = "live" /\ fit # Nothing
        THEN /\ knobs' = shot
             /\ pinned' \in {pinned, IF pinned = Nothing THEN [fit |-> fit, shot |-> shot] ELSE pinned}
        ELSE UNCHANGED <<knobs, pinned>>
  /\ lock' = IF lock = p THEN Nothing ELSE lock
  /\ request' = [request EXCEPT ![p] = Nothing]
  /\ UNCHANGED <<frames, fit, adjusting, sweep, turn, taken, resets, overtaken>>

-----------------------------------------------------------------------------
(* What the operator does with them.                                       *)

\* A bug: a frame may be kept twice.
MutantAccept(i) ==
  /\ shots[i] # Nothing /\ ~adjusting
  /\ LET kept == Append(frames, shots[i]) IN
     /\ Len(kept) >= 2 => Fits(kept)
     /\ frames' = kept
     /\ fit' = IF Len(kept) >= 2 THEN [frames |-> kept, site |-> Site] ELSE fit
     /\ knobs' = IF Len(kept) >= 2 THEN Last(kept) ELSE knobs
  /\ UNCHANGED <<shots, adjusting, pinned, last_solve, lock, request, sweep, turn, taken, resets, overtaken>>

\* accept: refit from the second on; a frame that does not fit is not kept.
Accept(i) ==
  /\ shots[i] # Nothing /\ ~adjusting
  /\ \A k \in DOMAIN frames : frames[k].id # shots[i].id
  /\ LET kept == Append(frames, shots[i]) IN
     /\ Len(kept) >= 2 => Fits(kept)
     /\ frames' = kept
     /\ fit' = IF Len(kept) >= 2 THEN [frames |-> kept, site |-> Site] ELSE fit
     /\ knobs' = IF Len(kept) >= 2 THEN Last(kept) ELSE knobs
  /\ UNCHANGED <<shots, adjusting, pinned, last_solve, lock, request, sweep, turn, taken, resets, overtaken>>

\* A bug: the fit stays that of the frames there were.
MutantDropLast ==
  /\ ~adjusting /\ frames # <<>>
  /\ frames' = Front(frames)
  /\ UNCHANGED <<shots, fit, knobs, adjusting, pinned, last_solve, lock, request, sweep, turn, taken, resets, overtaken>>

\* drop_last.  For the site of the fit the shorter list fitted when it was kept; for
\* another it may not, and then the frame is gone and the fit is not remade.
DropLast ==
  /\ ~adjusting /\ frames # <<>>
  /\ frames' = Front(frames)
  /\ LET remade == IF Len(frames') >= 2 THEN [frames |-> frames', site |-> Site] ELSE Nothing IN
     \/ fit' = remade /\ knobs' = IF remade # Nothing THEN Last(frames') ELSE Nothing
     \/ fit # Nothing /\ remade # Nothing /\ fit.site # Site /\ UNCHANGED <<fit, knobs>>
  /\ UNCHANGED <<shots, adjusting, pinned, last_solve, lock, request, sweep, turn, taken, resets, overtaken>>

Repin ==
  /\ pinned # Nothing /\ pinned' = Nothing
  /\ UNCHANGED <<frames, shots, fit, knobs, adjusting, last_solve, lock, request, sweep, turn, taken, resets, overtaken>>

\* reset does not take the lock.
Reset ==
  /\ resets < MaxResets /\ resets' = resets + 1
  /\ frames' = <<>> /\ shots' = <<>> /\ fit' = Nothing /\ knobs' = Nothing
  /\ adjusting' = FALSE /\ pinned' = Nothing /\ last_solve' = Nothing
  /\ overtaken' = InFlight
  /\ UNCHANGED <<lock, request, sweep, turn, taken>>

-----------------------------------------------------------------------------
(* The sweep.                                                              *)

NewService == [points |-> <<>>, axis |-> Nothing, error |-> FALSE]

\* The task takes the service of the site in force, and resets it.
SweepBegins ==
  /\ task = Nothing /\ taken + sweeps < MaxShots /\ sweeps' = sweeps + 1
  /\ task' = Site
  /\ service' = [service EXCEPT ![Site] = NewService]
  /\ UNCHANGED <<session, lock, request, turn, taken, resets, overtaken>>

\* Slewed, settled, exposed and solved: record, and compute at the last.
PointSolved ==
  /\ task # Nothing
  /\ LET kept == Append(service[task].points, sweeps)
         last == Len(kept) = Points
     IN /\ service' = [service EXCEPT ![task] =
                         [points |-> kept, axis |-> IF last THEN kept ELSE @.axis, error |-> @.error \/ last]]
        /\ task' = IF last THEN Nothing ELSE task
  /\ UNCHANGED <<session, lock, request, sweeps, turn, taken, resets, overtaken>>

\* Cancelled, or a slew, an exposure or a solve failed: the points so far stay, as
\* do all of them when they turn out to be on a line.
SweepFails ==
  /\ task # Nothing
  /\ task' = Nothing
  /\ \/ UNCHANGED service
     \/ /\ Len(service[task].points) = Points - 1
        /\ service' = [service EXCEPT ![task].points = Append(@, sweeps)]
  /\ UNCHANGED <<session, lock, request, sweeps, turn, taken, resets, overtaken>>

\* refine, when its frame has solved: a plain request, which takes no lock and asks
\* no task; with no axis by then there is nothing to refine.
Refined ==
  /\ service[Site].axis # Nothing
  /\ service' = [service EXCEPT ![Site].error = TRUE]
  /\ UNCHANGED <<session, lock, request, task, sweeps, turn, taken, resets, overtaken>>

\* set_site, of the observatory.
SetSite ==
  /\ Len(service) <= MaxResets
  /\ service' = Append(service, NewService)
  /\ UNCHANGED <<session, lock, request, task, sweeps, turn, taken, resets, overtaken>>

-----------------------------------------------------------------------------
(* The rig.                                                                *)

\* The operator turns the knobs when a screen says so: adjusting, or after a sweep
\* with nothing measured by hand.
Turn ==
  /\ turn < MaxTurns /\ turn' = turn + 1
  /\ \/ adjusting
     \/ service[Site].error /\ task = Nothing /\ frames = <<>> /\ shots = <<>> /\ ~InFlight
  /\ UNCHANGED <<session, lock, request, sweep, taken, resets, overtaken>>

PolarInit ==
  /\ frames = <<>> /\ shots = <<>> /\ fit = Nothing /\ knobs = Nothing
  /\ adjusting = FALSE /\ pinned = Nothing /\ last_solve = Nothing
  /\ lock = Nothing /\ request = [p \in Requesters |-> Nothing]
  /\ service = <<NewService>> /\ task = Nothing
  /\ turn = 0
  /\ taken = 0 /\ resets = 0 /\ sweeps = 0 /\ overtaken = FALSE

PolarNext ==
  \/ \E p \in Requesters :
        \/ \E kind \in ByHand : Ask(p, kind)
        \/ Exposes(p) \/ Refused(p) \/ Unsolved(p) \/ Solved(p)
        \/ \E place \in Places : Exposed(p, place)
  \/ \E i \in DOMAIN shots : Accept(i)
  \/ DropLast \/ Repin \/ Reset
  \/ SweepBegins \/ PointSolved \/ SweepFails \/ Refined
  \/ SetSite \/ Turn

PolarSpec == PolarInit /\ [][PolarNext]_polarVars

-----------------------------------------------------------------------------
(* Properties.                                                             *)

Frame == [id : Nat, turn : Nat, at : Places, of : Nat]
Fit == [frames : Seq(Frame), site : Nat \ {0}]
Pin == [fit : Fit, shot : Frame]
Shooting == [kind : ByHand, pc : {"queued", "exposing", "solving"}, shot : Frame \cup {Nothing}]
Service == [points : Seq(Nat), axis : Seq(Nat) \cup {Nothing}, error : BOOLEAN]

\* "No value" is not a value.
ASSUME NothingAssumption ==
  Nothing \notin Frame \cup Fit \cup Pin \cup Shooting \cup Seq(Nat) \cup Nat \cup Requesters

\* What is kept, shown and pending is frames; at most KeptShots shots are shown; a
\* sweep is of a service there is.
PolarTypeOK ==
  /\ frames \in Seq(Frame)
  /\ shots \in Seq(Frame \cup {Nothing}) /\ Len(shots) <= KeptShots
  /\ fit \in Fit \cup {Nothing} /\ pinned \in Pin \cup {Nothing}
  /\ knobs \in Frame \cup {Nothing} /\ last_solve \in Frame \cup {Nothing}
  /\ adjusting \in BOOLEAN /\ overtaken \in BOOLEAN
  /\ lock \in Requesters \cup {Nothing}
  /\ request \in [Requesters -> Shooting \cup {Nothing}]
  /\ service \in Seq(Service) /\ service # <<>>
  /\ task \in DOMAIN service \cup {Nothing}
  /\ turn \in 0..MaxTurns /\ resets \in 0..MaxResets
  /\ taken \in Nat /\ sweeps \in Nat

\* By hand, the fit is that of the frames kept, all of them, and the knobs' reading
\* comes and goes with it, whatever is dropped, refused or reset in between (as long
\* as the site the fit was made for is in force).  A sweep's axis is computed of one
\* sweep, all its points, and a remaining error is only reported of such an axis,
\* whatever was cancelled, failed or refined meanwhile.
FitIsOfItsFrames ==
  /\ fit # Nothing <=> knobs # Nothing
  /\ fit # Nothing => Len(fit.frames) >= 2 /\ Fits(fit.frames)
  /\ fit # Nothing /\ fit.site = Site => fit.frames = frames
  /\ fit = Nothing => Len(frames) < 2
  /\ \A s \in DOMAIN service :
       /\ service[s].axis # Nothing =>
            /\ service[s].axis = service[s].points /\ Len(service[s].points) = Points
            /\ \A i \in 1..Points : service[s].points[i] = service[s].points[1]
       /\ service[s].error => service[s].axis # Nothing

\* What is kept belongs to one measurement, unless a reset overtook a shot: the
\* frames are different ones, taken with the knobs as they are at the first ("the
\* knobs may have turned since - start over to measure again", routes/polar.py);
\* they and the shots were asked for since the last reset, and the markers are those
\* of the fit in force, pinned while adjusting.
OneMeasurement ==
  /\ \A i, j \in DOMAIN frames : i # j => frames[i].id # frames[j].id
  /\ ~overtaken =>
    /\ \A i, j \in DOMAIN frames : frames[i].turn = frames[j].turn
    /\ \A i \in DOMAIN frames : frames[i].of = resets
    /\ \A i \in DOMAIN shots : shots[i] # Nothing => shots[i].of = resets
    /\ last_solve # Nothing => last_solve.of = resets
    /\ pinned # Nothing => adjusting /\ pinned.fit = fit

\* The knobs are read off the latest live frame: as long as the fit stands, no older
\* frame's reading follows a newer one's.
KnobsGoForward ==
  [][fit # Nothing /\ fit' = fit /\ knobs # Nothing /\ knobs' # Nothing => knobs'.id >= knobs.id]_polarVars

=============================================================================
