----------------------------- MODULE MCNightRun -----------------------------
(* A night of two blocks: one that centres, one that focuses where it is.   *)
EXTENDS NightRun

CONSTANTS t1, t2

MCPlan == <<[target |-> t1, centre |-> TRUE, focus |-> FALSE, frames |-> 2],
            [target |-> t2, centre |-> TRUE, focus |-> TRUE, frames |-> 1]>>
=============================================================================
