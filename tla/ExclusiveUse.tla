---------------------------- MODULE ExclusiveUse ----------------------------
(***************************************************************************)
(* What a shared thing promises those who use it: one at a time, from the  *)
(* moment it is taken to the moment it is given back.  sequencing/task.py  *)
(* promises it of the rig: it "enforces one at a time".                    *)
(***************************************************************************)
CONSTANTS Users, Nobody

VARIABLE user

Take(u) == user = Nobody /\ user' = u
Leave == user # Nobody /\ user' = Nobody

Init == user = Nobody
Next == Leave \/ \E u \in Users : Take(u)
Spec == Init /\ [][Next]_user
=============================================================================
