----------------------------- MODULE MCJobQueue -----------------------------
(* Instances of JobQueue for TLC.                                          *)
EXTENDS JobQueue, TLC

CONSTANTS j1, j2

\* Job j1 has a task the workers know and two attempts.
OneJobAttempts == (j1 :> 2)

\* Job j2 has a task they do not know and one attempt.
TwoJobAttempts == (j1 :> 2) @@ (j2 :> 1)

TwoAttempts == [j \in Jobs |-> 2]

Symmetry == Permutations(Workers)

=============================================================================
