---------------------------- MODULE MCGuidingLoop ----------------------------
(* TLC instances of GuidingLoop. *)
EXTENDS GuidingLoop, TLC
=============================================================================
