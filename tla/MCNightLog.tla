----------------------------- MODULE MCNightLog -----------------------------
(* TLC instances of NightLog. *)
EXTENDS NightLog, TLC
Interchangeable == Permutations(Clients)
=============================================================================
