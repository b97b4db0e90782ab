---------------------------- MODULE MCTaskEngine ----------------------------
(* TLC instances of TaskEngine. *)
EXTENDS TaskEngine, TLC
Interchangeable == Permutations(Callers)
=============================================================================
