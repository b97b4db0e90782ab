--------------------------- MODULE MCPolarAlignment ---------------------------
(* Three readings of the RA axis, the last across the meridian.             *)
EXTENDS PolarAlignment, TLC

MCPlaces == {0, 3, 9}
MCSide == 0 :> "unknown" @@ 3 :> "east" @@ 9 :> "west"
Symmetry == Permutations(Requesters)
=============================================================================
