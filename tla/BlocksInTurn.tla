---------------------------- MODULE BlocksInTurn ----------------------------
(***************************************************************************)
(* What a session plan promises: its blocks run one after another, each is *)
(* done or failed, and a block that fails does not end the run.  Only a    *)
(* cancellation ends it before its last block.                             *)
(***************************************************************************)
EXTENDS Naturals, Sequences

CONSTANT Blocks     (* how many blocks the plan has *)

VARIABLES outcomes, running

\* A session, or a task of another kind: the outcome of the last is gone.
Starts ==
  /\ ~running
  /\ outcomes' = <<>>
  /\ running' \in BOOLEAN

BlockEnds ==
  /\ running
  /\ Len(outcomes) < Blocks
  /\ \E how \in {"done", "failed"} : outcomes' = Append(outcomes, how)
  /\ running' = (Len(outcomes') < Blocks)

Cancelled ==
  /\ running
  /\ outcomes' = Append(outcomes, "cancelled")
  /\ running' = FALSE

Init == outcomes = <<>> /\ running = FALSE
Next == Starts \/ BlockEnds \/ Cancelled

\* And no run goes on for ever.
Spec == Init /\ [][Next]_<<outcomes, running>> /\ []<>~running
=============================================================================
