---------------------------- MODULE DriftGuiding ----------------------------
(***************************************************************************)
(* What the guide loop of services/guiding.py knows and does about one of  *)
(* the mount's axes: the star's offset from the lock point, frame by frame *)
(* (services/guidemodel.py keeps the last of them with the corrections     *)
(* sent in between), the drift fitted to them, and the corrections that    *)
(* cancel it and bring the star back.                                      *)
(*                                                                         *)
(* Offsets are whole pixels, a unit of correction moves the star by one,   *)
(* and a frame takes one tick.  The sky drifts steadily and there is no    *)
(* seeing, so a least-squares fit of frames that agree is exact; of frames *)
(* that do not, it is anything.  The awaits are kept: while a frame is     *)
(* exposed or a command is on its way, the lock point may be moved.        *)
(***************************************************************************)
EXTENDS Integers, Sequences, FiniteSetsExt

CONSTANTS
  Axes,       (* how the axis is corrected, of AllAxes                      *)
  Drifts,     (* pixels the sky may take the star in a tick                 *)
  Shifts,     (* pixels a dither moves the lock point by                    *)
  Nothing,    (* None                                                       *)
  MinFrames,  (* frames the fit needs                                       *)
  Window,     (* ticks of frames it spans: model_window_s                   *)
  MaxUnits,   (* max_ra_offset, max_dec_steps, max_pulse_ms                 *)
  Radius,     (* search_radius_px                                           *)
  LongGap,    (* ticks between frames that are counted at most: 30 s        *)
  MeasureMin, (* frames the drift is measured for, at least and at most     *)
  MeasureMax,
  Hold,       (* ticks a dither waits for the error to stay small           *)
  Reach,      (* a bound: the edge of the sensor                            *)
  MaxTroubles (* a bound: dithers, picks of a star and frames lost          *)

\* Right ascension by a tracking-rate offset or by pulses, declination by steps
\* or pulses of which none goes with the drift.
AllAxes == {"ra offset", "ra pulse", "dec auto"}

ASSUME AxesAssumption == Axes \subseteq AllAxes
ASSUME DriftAssumption == Drifts \subseteq Int /\ Shifts \subseteq Int
ASSUME BoundAssumption ==
  /\ {MinFrames, Window, MaxUnits, Radius, LongGap, MeasureMin, MeasureMax, Hold, Reach, MaxTroubles}
       \subseteq Nat \ {0}
  /\ MinFrames > 1
\* "No value" is not a value.
ASSUME NothingAssumption ==
  Nothing \notin Int \cup [at : Int, drift : Drifts] \cup [to : Int, at : Int, steady : BOOLEAN]

VARIABLES
  axis,     (* the axis, and how it is corrected                            *)
  drift,    (* what the sky does to the star in a tick                      *)
  error,    (* where the star is from the lock point                        *)
  phase,    (* "exposing", or "commanding": the mount has not answered yet  *)
  stale,    (* how far the lock has moved since the frame under way read it *)
  mode,     (* _mode                                                        *)
  measured, (* frames of _measure_drift                                     *)
  rows,     (* PixelModel._rows: when, and totals, counted from the newest  *)
  fit,      (* _fit                                                         *)
  raOffset, (* the tracking-rate offset: _ra_offset, and the mount's        *)
  pending,  (* _pending_ra, _pending_dec                                    *)
  gap,      (* ticks since a frame showed the star: _last_frame_at          *)
  order,    (* the correction on its way to the mount                       *)
  sample,   (* the error of the newest sample                               *)
  held,     (* ticks a dither has seen that error small                     *)
  muddled,  (* history: the window may hold a frame that does not belong    *)
  troubles, (* dithers, picks of a star and frames lost so far              *)
  steady,   (* history: the newest frame was answered, and nothing else has *)
            (* happened since                                               *)
  blind     (* history: the star was lost, or picked, while a dither waited *)

guideLoop == <<phase, stale, mode, measured>>
model == <<rows, fit, pending, gap>>
wait == <<sample, held, blind>>
driftVars == <<axis, drift, error, guideLoop, model, raOffset, order, wait, troubles, muddled, steady>>

Row == [ago : Nat, at : Int, sent : Int]

Abs(x) == IF x < 0 THEN -x ELSE x
Sign(x) == IF x < 0 THEN -1 ELSE IF x > 0 THEN 1 ELSE 0
Least(x, y) == IF x < y THEN x ELSE y
Limited(x) == Sign(x) * Least(Abs(x), MaxUnits)

-----------------------------------------------------------------------------
(* The model: PixelModel                                                   *)

\* sent and observe: what was delivered since the last frame, and the star
\* where the frame shows it.  `since` is the time that passed; the oldest rows
\* are dropped while they are older than the window.
Observed(at, delivered, since) ==
  LET earlier == [i \in DOMAIN rows |->
                    [ago |-> rows[i].ago + since, at |-> rows[i].at,
                     sent |-> rows[i].sent - delivered]]
      all == Append(earlier, [ago |-> 0, at |-> at, sent |-> 0])
  IN  SubSeq(all, Min({i \in DOMAIN all : all[i].ago <= Window}), Len(all))

\* The rows lie on a line of this slope once what was sent is taken out.
Explains(d, rs) ==
  LET now == rs[Len(rs)]
  IN  \A i \in DOMAIN rs : now.at = rs[i].at + d * rs[i].ago - rs[i].sent

\* fit: position and drift, from enough frames.  The newest frames decide the
\* position; frames that lie on no line may give any drift.
Fits(rs) ==
  IF Len(rs) < MinFrames THEN {Nothing}
  ELSE LET exact == {d \in Drifts : Explains(d, rs)}
       IN  {[at |-> rs[Len(rs)].at, drift |-> d] : d \in IF exact # {} THEN exact ELSE Drifts}

-----------------------------------------------------------------------------
(* Corrections: _correct                                                   *)

\* The share of an offset taken back in one frame: any, but an offset of one
\* unit may round to none.
Shares(at) == IF Abs(at) <= 1 THEN 0..Abs(at) ELSE 1..Abs(at)

\* Bugs: the drift is added to instead of cancelled; the star is kept from
\* drifting and never brought back.
MutantUnits(f, interval) == {f.drift * interval - Sign(f.at) * share : share \in Shares(f.at)}
MutantRates(f, interval) == {-f.drift}

\* The units wanted before the next frame: the drift expected over it, and a
\* share of the offset back.
Units(f, interval) == {-f.drift * interval - Sign(f.at) * share : share \in Shares(f.at)}
Rates(f, interval) == {-f.drift - Sign(f.at) * (share \div interval) : share \in Shares(f.at)}

\* Past the lock against the drift: left for the drift to bring back.
Withheld(units, f) == axis = "dec auto" /\ units * f.drift > 0

\* What may be sent, Nothing when nothing is.
Orders(f, interval) ==
  IF mode = "measure" \/ f = Nothing
  THEN {IF axis = "ra offset" /\ raOffset # 0 THEN 0 ELSE Nothing}
  ELSE IF axis = "ra offset"
  THEN {IF Limited(r) = raOffset THEN Nothing ELSE Limited(r) : r \in Rates(f, interval)}
  ELSE {IF u = 0 \/ Withheld(u, f) THEN Nothing ELSE Limited(u) : u \in Units(f, interval)}

-----------------------------------------------------------------------------
(* The loop: _guide_once, _measure_drift, _run                             *)

OffsetRunning == IF axis = "ra offset" THEN raOffset ELSE 0
\* Where the star is at the end of the frame; far off, it stays off.
Here == IF Abs(error) > Reach THEN error ELSE error + drift + OffsetRunning
Elapsed == IF gap = Nothing THEN 0 ELSE Least(gap + 1, LongGap)
\* A bug: the offset held since the last frame is not counted.
MutantDelivered == pending
Delivered == pending + OffsetRunning * Elapsed

\* The end of a turn of the loop, with this fit in hand.
TurnsOver(f) ==
  /\ phase' = "exposing"
  /\ stale' = 0
  /\ mode' = CASE /\ mode = "measure"
                  /\ \/ measured' >= MeasureMax
                     \/ measured' >= MeasureMin /\ f # Nothing -> "recentre"
               [] mode = "recentre" /\ f # Nothing /\ Abs(f.at) <= 1 -> "hold"
               [] OTHER -> mode

Measures == measured' = IF mode = "measure" THEN measured + 1 ELSE measured

\* A dither, asleep between its looks at the newest sample.
Ticks == IF held \in {Nothing, -1} THEN held ELSE Least(held + 1, Hold)
\* A bug: a large error does not start the wait again.
MutantLooked(seen, ticks) == IF ticks = -1 /\ Abs(seen) <= 1 THEN 0 ELSE ticks
Looked(seen, ticks) == IF ticks = Nothing THEN Nothing
                       ELSE IF Abs(seen) > 1 THEN -1
                       ELSE IF ticks = -1 THEN 0 ELSE ticks

\* The frame is one tick from the one before, and is answered.
Steers(f) == Elapsed = 1 /\ mode # "measure" /\ f # Nothing

\* In "hold" the star is looked for about the lock point.
InView == Abs(Here) <= Reach /\ (mode = "hold" => Abs(Here + stale) <= Radius)

\* A frame shows the star.
Frame ==
  /\ phase = "exposing"
  /\ InView
  /\ error' = Here
  /\ Measures
  /\ gap' = 0
  /\ pending' = 0
  /\ rows' = Observed(Here + stale, Delivered, IF gap = Nothing THEN 0 ELSE gap + 1)
  /\ muddled' = (stale # 0 \/ (Len(rows') > 1 /\
                  (muddled \/ (gap >= LongGap /\ OffsetRunning # 0))))
  /\ \E f \in Fits(rows') :
       /\ fit' = f
       /\ \E to \in Orders(f, IF Elapsed > 0 THEN Elapsed ELSE 1) :
            IF to = Nothing
            THEN /\ TurnsOver(f)
                 /\ sample' = Here + stale
                 /\ held' = Looked(Here + stale, Ticks)
                 /\ steady' = Steers(f)
                 /\ UNCHANGED order
            ELSE /\ phase' = "commanding"
                 /\ order' = [to |-> to, at |-> Here + stale, steady |-> Steers(f)]
                 /\ held' = Ticks
                 /\ UNCHANGED <<stale, mode, sample, steady>>
  /\ UNCHANGED <<axis, drift, raOffset, blind, troubles>>

\* The mount has done as it was told: a rate that is held until the next
\* frame, or a move.
Commanded ==
  /\ phase = "commanding"
  /\ IF axis = "ra offset"
     THEN raOffset' = order.to /\ UNCHANGED <<error, pending>>
     ELSE /\ error' = error + order.to
          /\ pending' = pending + order.to
          /\ UNCHANGED raOffset
  /\ sample' = order.at
  /\ steady' = order.steady
  /\ held' = Looked(order.at, held)
  /\ order' = Nothing
  /\ UNCHANGED measured
  /\ TurnsOver(fit)
  /\ UNCHANGED <<axis, drift, rows, fit, gap, blind, troubles, muddled>>

Trouble == troubles < MaxTroubles /\ troubles' = troubles + 1

\* A frame shows no star: cloud, or it has left the search radius.  Nothing
\* is sent, and a rate offset goes on.
StarLost ==
  /\ phase = "exposing"
  /\ Trouble \/ (~InView /\ UNCHANGED troubles)
  /\ error' = Here
  /\ gap' = IF gap = Nothing THEN Nothing ELSE Least(gap + 1, Window)
  /\ Measures
  /\ TurnsOver(fit)
  /\ held' = Ticks
  /\ blind' = (held # Nothing)
  /\ steady' = FALSE
  /\ UNCHANGED <<axis, drift, rows, fit, pending, raOffset, order, sample, muddled>>

-----------------------------------------------------------------------------
(* What moves the lock point: dither, select_star                          *)

\* The lock moves: a frame under way is still measured from where it was.
LockMoves(by) ==
  /\ error' = error - by
  /\ stale' = IF phase = "exposing" THEN stale + by ELSE stale
  /\ steady' = FALSE
  /\ order' = IF order = Nothing THEN Nothing ELSE [order EXCEPT !.steady = FALSE]

\* move_reference: the offsets in the window are taken from the new lock.
DitherBegins ==
  /\ held = Nothing
  /\ Trouble
  /\ \E by \in Shifts :
       /\ Abs(error) <= Reach /\ Abs(error - by) <= Reach /\ Abs(stale + by) <= Reach
       /\ LockMoves(by)
       /\ rows' = [i \in DOMAIN rows |-> [rows[i] EXCEPT !.at = @ - by]]
  /\ held' = IF sample # Nothing /\ Abs(sample) <= 1 THEN 0 ELSE -1
  /\ blind' = FALSE
  /\ UNCHANGED <<axis, drift, phase, mode, measured, fit, raOffset, pending, gap, sample, muddled>>

DitherSettles ==
  /\ held = Hold /\ sample # Nothing
  /\ held' = Nothing
  /\ UNCHANGED <<axis, drift, error, guideLoop, model, raOffset, order, sample, blind, troubles, muddled, steady>>

DitherTimesOut ==
  /\ held # Nothing
  /\ held' = Nothing
  /\ UNCHANGED <<axis, drift, error, guideLoop, model, raOffset, order, sample, blind, troubles, muddled, steady>>

\* The operator picks the star in the latest frame, or another like it.
SelectStar ==
  /\ gap = 0
  /\ Trouble
  /\ Abs(error) <= Reach /\ Abs(stale + error) <= Reach
  /\ LockMoves(error)
  /\ rows' = <<>>
  /\ fit' = Nothing
  /\ sample' = Nothing
  /\ muddled' = FALSE
  /\ blind' = (held # Nothing)
  /\ UNCHANGED <<axis, drift, phase, mode, measured, raOffset, pending, gap, held>>

-----------------------------------------------------------------------------

DriftInit ==
  /\ axis \in Axes
  /\ drift \in Drifts
  /\ error = 0
  /\ phase = "exposing"
  /\ stale = 0
  /\ mode = "measure"
  /\ measured = 0
  /\ rows = <<>>
  /\ fit = Nothing
  /\ raOffset = 0
  /\ pending = 0
  /\ gap = Nothing
  /\ order = Nothing
  /\ sample = Nothing
  /\ held = Nothing
  /\ muddled = FALSE
  /\ steady = FALSE
  /\ blind = FALSE
  /\ troubles = 0

DriftNext ==
  \/ Frame \/ Commanded \/ StarLost
  \/ DitherBegins \/ DitherSettles \/ DitherTimesOut \/ SelectStar

DriftSpec == DriftInit /\ [][DriftNext]_driftVars

\* The guide loop is a task of its own that no other waits for.
DriftFairness == WF_driftVars(Frame \/ Commanded \/ StarLost)
DriftFairSpec == DriftSpec /\ DriftFairness

-----------------------------------------------------------------------------
(* Properties                                                              *)

DriftTypeOK ==
  /\ axis \in Axes /\ drift \in Drifts
  /\ error \in Int
  /\ phase \in {"exposing", "commanding"}
  /\ stale \in -Reach..Reach
  /\ mode \in {"measure", "recentre", "hold"}
  /\ measured \in 0..MeasureMax
  /\ rows \in Seq(Row)
  /\ Len(rows) <= Window + 1
  /\ fit = Nothing \/ fit \in [at : Int, drift : Drifts]
  /\ raOffset \in -MaxUnits..MaxUnits
  /\ pending \in -MaxUnits..MaxUnits
  /\ gap = Nothing \/ gap \in 0..Window
  /\ order = Nothing \/ order \in [to : -MaxUnits..MaxUnits, at : Int, steady : BOOLEAN]
  /\ (phase = "commanding") <=> (order # Nothing)
  /\ sample = Nothing \/ sample \in Int
  /\ held = Nothing \/ held \in -1..Hold
  /\ muddled \in BOOLEAN /\ steady \in BOOLEAN /\ blind \in BOOLEAN
  /\ troubles \in 0..MaxTroubles

\* guidemodel.py: "the same fit separates what the sky did from what the
\* corrections did".  It can only if every frame in the window is measured
\* from the same lock point and every correction is counted once, in the
\* frames that show it.
WindowIsOneTrack == ~muddled /\ rows # <<>> => Explains(drift, rows)

\* "a loop steering by that corrected every correction again": from one
\* frame to the next, with nothing but the loop at work, a star that is being
\* corrected is never further from the lock point.  And "guiding only against
\* that way never reverses and so never pays the backlash": while a drift is
\* cancelled in declination no step goes with it.
NeverOvercorrects ==
  [][ /\ /\ steady /\ steady' /\ ~muddled /\ ~muddled'
         /\ sample' # Nothing /\ sample' # sample
         => Abs(sample') <= Abs(sample)
      /\ order = Nothing /\ order' # Nothing /\ axis = "dec auto" /\ ~muddled'
         => order'.to * drift <= 0 ]_driftVars

\* dither: "then wait for guiding to recover".  One that ends as settled has
\* the star at the new lock point, within a pixel and the drift of a tick,
\* if the same star was seen all the while.
SettledIsThere ==
  [][ DitherSettles /\ ~muddled /\ ~blind
      => Abs(error) <= 1 + Abs(drift) ]_driftVars

\* "the sky did ... what the corrections did": left alone, the loop brings the
\* star to the lock point and keeps it there, within a pixel and the drift of
\* a tick - whatever the window held when the troubles ended, unless the star
\* has left the search radius by then.
Away == Abs(error) > Radius
ComesBack == <>Away \/ <>[](Abs(error) <= 1 + Abs(drift))

=============================================================================
