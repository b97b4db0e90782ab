----------------------------- MODULE ForwardFeed -----------------------------
(***************************************************************************)
(* What a feed of a state's successive values, numbered as they come,      *)
(* promises those who watch it.  Values may be passed over; but nothing is *)
(* shown that the state has not yet been, and nobody who stays is taken    *)
(* back.  api/ws.py: "a stale event replayed from the buffer cannot        *)
(* overwrite it".                                                          *)
(***************************************************************************)
EXTENDS Naturals

CONSTANT Watchers

VARIABLES
  said,     (* the state's current value                                    *)
  watching, (* who is connected                                             *)
  shown     (* what each of the watchers shows, 0 for nothing yet           *)

Say == said' = said + 1 /\ UNCHANGED <<watching, shown>>

Arrives(w) ==
  /\ w \notin watching
  /\ watching' = watching \cup {w}
  /\ shown' = [shown EXCEPT ![w] = 0]
  /\ UNCHANGED said

Shows(w) ==
  /\ w \in watching
  /\ \E value \in shown[w]..said : shown' = [shown EXCEPT ![w] = value]
  /\ UNCHANGED <<said, watching>>

Leaves(w) ==
  /\ w \in watching
  /\ watching' = watching \ {w}
  /\ UNCHANGED <<said, shown>>

Init == said = 0 /\ watching = {} /\ shown = [w \in Watchers |-> 0]
Next == Say \/ \E w \in Watchers : Arrives(w) \/ Shows(w) \/ Leaves(w)
Spec == Init /\ [][Next]_<<said, watching, shown>>
=============================================================================
