---------------------------- MODULE MCObservatory ----------------------------
(* The observatory with two requests under way at a time.                  *)
EXTENDS Observatory, TLC

Symmetry == Permutations(Requesters) \cup Permutations(Rates)
=============================================================================
