---------------------------- MODULE MountGeometry ----------------------------
(***************************************************************************)
(* The geometry of devices/backends/synta/mount.py: which axis angles point *)
(* at which place in the sky on a German equatorial mount, what a sync     *)
(* changes in it, and where a slew and a nudge send the axes.  Angles are  *)
(* whole arc seconds here, floating-point degrees in the code; an axis     *)
(* angle is measured from home.                                            *)
(***************************************************************************)
EXTENDS Integers

CONSTANTS
  Margin,   (* meridian_margin_deg: how far past the meridian a side is kept *)
  Limit     (* max_axis_deg: what no move may go beyond                      *)

Turn == 1296000
Half == 648000
Quarter == 324000

Angle == {a \in Int : -Half <= a /\ a < Half}
RightAscension == {r \in Int : 0 <= r /\ r < Turn}
Declination == {d \in Int : -Quarter <= d /\ d <= Quarter}
Size(a) == IF a < 0 THEN -a ELSE a

\* _wrap180, and hour_angle_deg with it
Wrap180(a) == ((a + Half) % Turn) - Half
HourAngle(ra, lst) == Wrap180(lst - ra)

\* _fold: a declination that may have run past a pole, seen properly.
Fold(ha, dec) ==
  LET d == Wrap180(dec) IN
  IF d > Quarter THEN [ha |-> Wrap180(ha + Half), dec |-> Half - d]
  ELSE IF d < -Quarter THEN [ha |-> Wrap180(ha + Half), dec |-> -Half - d]
  ELSE [ha |-> Wrap180(ha), dec |-> d]

\* The side of the pier the telescope is on follows from the Dec axis alone.
SideOf(decAxis) == IF decAxis > 0 THEN "east" ELSE "west"

\* gem_sky: where the motors point, before any sync.
GemSky(raAxis, decAxis) ==
  IF SideOf(decAxis) = "east" THEN Fold(raAxis + Quarter, Quarter - decAxis)
                              ELSE Fold(raAxis - Quarter, Quarter + decAxis)

\* gem_axes, and gem_side_for: counterweight down.
GemAxes(ha, dec, side) ==
  IF side = "east" THEN [ra |-> Wrap180(ha - Quarter), dec |-> Quarter - dec]
                   ELSE [ra |-> Wrap180(ha + Quarter), dec |-> dec - Quarter]
GemSideFor(ha) == IF Wrap180(ha) < 0 THEN "west" ELSE "east"

\* _sky_from_axes, with the offsets that a sync leaves.
SkyFromAxes(axes, offset, lst) ==
  LET model == GemSky(axes.ra, axes.dec)
      seen == Fold(model.ha + offset.ha, model.dec + offset.dec)
  IN [ra |-> (lst - seen.ha) % Turn, dec |-> seen.dec]

\* The place in the model that a synced coordinate is.
Unsynced(target, offset, lst) ==
  Fold(HourAngle(target.ra, lst) - offset.ha, target.dec - offset.dec)

\* The side a target is reached from: the one the telescope is on, while that
\* is within the margin; at home it is on neither.
SideChosen(place, decNow) ==
  IF decNow # 0 /\ Size(GemAxes(place.ha, place.dec, SideOf(decNow)).ra) <= Quarter + Margin
  THEN SideOf(decNow)
  ELSE GemSideFor(place.ha)

\* _axes_from_sky
AxesFromSky(target, offset, lst, decNow) ==
  LET place == Unsynced(target, offset, lst)
  IN GemAxes(place.ha, place.dec, SideChosen(place, decNow))

\* sync_to: "the axes stay exactly where they are".
SyncTo(actual, axes, lst) ==
  LET model == GemSky(axes.ra, axes.dec)
  IN [ha |-> Wrap180(HourAngle(actual.ra, lst) - model.ha), dec |-> actual.dec - model.dec]

\* _check_reachable, but for the altitude: asked from home, before the lock.
CheckReachable(target, offset, lst) == Size(AxesFromSky(target, offset, lst, 0).dec) <= Limit

\* slew_to, once the counters are read: refused beyond the limit.
Allowed(axes) == Size(axes.ra) <= Limit /\ Size(axes.dec) <= Limit
Moves(from, to) == [ra |-> to.ra - from.ra, dec |-> to.dec - from.dec]

\* _north_sign, and move_by with it
NorthSign(decAxis) == IF decAxis < 0 THEN 1 ELSE -1
MoveBy(axes, direction, travel) ==
  CASE direction = "west" -> [axes EXCEPT !.ra = @ + travel]
    [] direction = "east" -> [axes EXCEPT !.ra = @ - travel]
    [] direction = "north" -> [axes EXCEPT !.dec = @ + NorthSign(axes.dec) * travel]
    [] direction = "south" -> [axes EXCEPT !.dec = @ - NorthSign(axes.dec) * travel]
=============================================================================
