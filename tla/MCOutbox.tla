------------------------------ MODULE MCOutbox ------------------------------
(* Instances of Outbox for TLC.                                            *)
EXTENDS Outbox, TLC

MCRoom == [c \in Channels |-> IF c = "email" THEN 1 ELSE 2]
\* The mark of a tested webhook is overtaken in three: two rotations and an activation.
MCMaxUpsets == [c \in Channels |-> CASE c \in {"receipt", "teams"} -> 1
                                     [] c \in {"email", "scim"} -> 2
                                     [] c = "webhook" -> 3]
Symmetry == Permutations(Items) \cup Permutations(Workers)

=============================================================================
