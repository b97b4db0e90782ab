--------------------------- MODULE MCDriftGuiding ---------------------------
(* Small numbers for the guide loop: a pixel is half a second of drift.    *)
EXTENDS DriftGuiding

MCDrifts == {-1, 0, 1}
MCShifts == {3}

=============================================================================
