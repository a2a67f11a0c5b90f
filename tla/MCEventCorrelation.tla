-------------------------- MODULE MCEventCorrelation --------------------------
(* Two sources that fire into one group; the third alert of s1 comes late. *)
EXTENDS EventCorrelation, TLC

Alert(s, f, t) == [source |-> s, firing |-> f, at |-> t]

MCKind == [e \in Events |->
  CASE e = "f1" -> Alert("s1", TRUE, 1)
    [] e = "f2" -> Alert("s2", TRUE, 2)
    [] e = "f3" -> Alert("s1", TRUE, 9)
    [] e = "r1" -> Alert("s1", FALSE, 3)]

Policy(m, n, r, p, f) ==
  [mode |-> m, min |-> n, window |-> 5, onRecovery |-> r, primary |-> p, fallback |-> f]

MCPolicies == {Policy("CREATE_UPDATE", 2, "RESOLVED", FALSE, TRUE),
               Policy("CREATE_UPDATE", 1, "CLOSED", TRUE, FALSE),
               Policy("CORRELATE_ONLY", 1, "NONE", TRUE, TRUE),
               Policy("IGNORE", 1, "NONE", FALSE, FALSE)}

Symmetry == Permutations(Workers)
=============================================================================
