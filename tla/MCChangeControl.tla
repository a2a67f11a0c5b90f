--------------------------- MODULE MCChangeControl ---------------------------
(* Two changes that share two assets, and one meeting.  Only the changes of *)
(* c2 come with a window planned, which overlaps one of those asked for.    *)
EXTENDS ChangeControl, TLC

Plan(k, g, s, a, h) == [kind |-> k, grave |-> g, service |-> s, assets |-> a, hours |-> h]

MCBy == [c \in Changes |-> IF c = "c1" THEN "ann" ELSE "bob"]
MCPlans == [c \in Changes |->
  IF c = "c1" THEN {Plan("NORMAL", FALSE, None, {1, 2}, {}), Plan("STANDARD", FALSE, "mail", {2}, {})}
  ELSE {Plan("STANDARD", FALSE, "mail", {1, 2}, {2}), Plan("STANDARD", TRUE, None, {}, {})}]
MCWindows == {{1, 2}, {3}}

Symmetry == Permutations(Bookers)
=============================================================================
