--------------------------- MODULE DeliveryPromise ---------------------------
(***************************************************************************)
(* What a delivery table promises, whichever it is: an item that has been  *)
(* accepted stays known, only accepted items reach the other side, an item *)
(* counts as done only after it has reached it at least once, and an item  *)
(* is given up only by a step that says so.  Nothing promises that it      *)
(* reaches the other side only once.                                       *)
(***************************************************************************)
EXTENDS Naturals

CONSTANT Items
VARIABLES state, arrivals

Init ==
  /\ state = [i \in Items |-> "none"]
  /\ arrivals = [i \in Items |-> 0]

\* What may become of one item in a step, and how often it arrives meanwhile.
Moves(i) ==
  \/ state[i] = "none" /\ state'[i] \in {"none", "waiting", "done", "given_up"}
  \/ state[i] # "none" /\ state'[i] \in {"waiting", "done", "given_up"}

Next ==
  /\ \A i \in Items :
       /\ Moves(i)
       /\ arrivals'[i] \in {arrivals[i], arrivals[i] + 1}
       /\ arrivals'[i] > arrivals[i] => state'[i] # "none"
       /\ state'[i] = "done" => arrivals'[i] > 0
  /\ DOMAIN state' = Items /\ DOMAIN arrivals' = Items

Spec == Init /\ [][Next]_<<state, arrivals>>

=============================================================================
