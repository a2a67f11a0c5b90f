--------------------------- MODULE MCJobEventBus ----------------------------
(* Instances of JobEventBus for TLC.                                       *)
EXTENDS JobEventBus, TLC

Symmetry == Permutations(Workers)

=============================================================================
