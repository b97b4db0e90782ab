------------------------- MODULE MCImagingSessions -------------------------
(* Requests worth making: one that others follow, one that takes over.      *)
EXTENDS ImagingSessions

MCPatches == {<<"light", "setup", 2>>}
MCStarted == {<<CHOOSE s \in Sessions : TRUE, k>> : k \in {"flat", "darkflat"}}
=============================================================================
