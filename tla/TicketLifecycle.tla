--------------------------- MODULE TicketLifecycle ---------------------------
(***************************************************************************)
(* The contract of services/ticket_lifecycle.py: the statuses of a ticket, *)
(* the table of the transitions between them, the path that an automatic   *)
(* change takes through the table, and what one governed change does to a  *)
(* ticket.  There is no state here: who changes tickets, and when, is in   *)
(* the modules that extend this one.                                       *)
(***************************************************************************)
EXTENDS Naturals, Sequences

\* In alphabetical order, the order in which a path is searched for.
InOrder == <<"ASSIGNED", "CANCELLED", "CLOSED", "IN_PROGRESS", "NEW", "REOPENED",
             "RESOLVED", "TRIAGE", "WAITING_USER", "WAITING_VENDOR">>

Statuses == {InOrder[i] : i \in DOMAIN InOrder}

Transitions == [s \in Statuses |->
  CASE s = "NEW" -> {"TRIAGE", "ASSIGNED", "CANCELLED"}
    [] s = "TRIAGE" -> {"ASSIGNED", "WAITING_USER", "CANCELLED"}
    [] s = "ASSIGNED" -> {"IN_PROGRESS", "WAITING_USER", "WAITING_VENDOR"}
    [] s = "IN_PROGRESS" -> {"RESOLVED", "WAITING_USER", "WAITING_VENDOR"}
    [] s = "WAITING_USER" -> {"IN_PROGRESS", "CANCELLED"}
    [] s = "WAITING_VENDOR" -> {"IN_PROGRESS"}
    [] s = "RESOLVED" -> {"CLOSED", "REOPENED"}
    [] s = "CLOSED" -> {"REOPENED"}
    [] s = "REOPENED" -> {"TRIAGE", "ASSIGNED"}
    [] s = "CANCELLED" -> {}]

Before(s, t) == \E i, j \in DOMAIN InOrder : i < j /\ InOrder[i] = s /\ InOrder[j] = t

\* Of two paths of one length, the one that the search meets first.
MetFirst(p, q) ==
  \E k \in DOMAIN p : Before(p[k], q[k]) /\ \A j \in 1..(k - 1) : p[j] = q[j]

(***************************************************************************)
(* The breadth-first search: Found(s)[n] holds, for every status that n    *)
(* steps can reach from s, the path by which it is reached first.          *)
(***************************************************************************)
Found(s) ==
  LET Search[n \in Nat] ==
        IF n = 0 THEN [t \in {s} |-> <<>>]
        ELSE LET known == Search[n - 1]
                 Ways(t) == {Append(known[u], t) : u \in {v \in DOMAIN known : t \in Transitions[v]}}
                 new == {t \in Statuses \ DOMAIN known : Ways(t) # {}}
             IN  [t \in DOMAIN known \cup new |->
                    IF t \in DOMAIN known THEN known[t]
                    ELSE CHOOSE p \in Ways(t) : \A q \in Ways(t) : p = q \/ MetFirst(p, q)]
  IN  Search[Len(InOrder)]

\* The path from every status to every other; none where the search fails.
Paths == [s \in Statuses |-> Found(s)]

HasPath(s, t) == s # t /\ t \in DOMAIN Paths[s]

\* (Mutation of Accepts: the row read before the lock is trusted.)
AcceptsUnread(ticket, path) == path # <<>>

(***************************************************************************)
(* transition_ticket_status locks the ticket and reads it again before it  *)
(* compares: a path that was found for an older status is followed only if *)
(* the table allows its first step from the present one.                   *)
(***************************************************************************)
Accepts(ticket, path) == path[1] \in Transitions[ticket.status]

\* The whole path is followed under that lock; each step counts in the version.
Moved(ticket, path) ==
  [ticket EXCEPT !.status = path[Len(path)], !.version = @ + Len(path)]

\* The statuses that at most n allowed transitions lead to, from every status.
Within ==
  LET Reach[n \in Nat] ==
        IF n = 0 THEN [s \in Statuses |-> {s}]
        ELSE [s \in Statuses |->
                Reach[n - 1][s] \cup UNION {Transitions[u] : u \in Reach[n - 1][s]}]
  IN  [n \in 0..Len(InOrder) |-> Reach[n]]

(***************************************************************************)
(* What the search and the table come to.  The tables are constants, so    *)
(* TLC settles this by evaluating it; the search is recursive, and out of  *)
(* the provers' reach.                                                     *)
(***************************************************************************)
ASSUME TablesAssumption ==
  /\ \A s, t \in Statuses : HasPath(s, t) =>
       LET path == Paths[s][t]
       IN  /\ path \in Seq(Statuses) \ {<<>>} /\ path[1] \in Transitions[s]
           /\ \A u \in Statuses : path[1] \in Transitions[u] => path[Len(path)] \in Within[Len(path)][u]
  /\ \A s \in Statuses \ {"RESOLVED", "CLOSED", "CANCELLED"} : HasPath(s, "CANCELLED")
  /\ \A s \in Statuses : {s} \cup Transitions[s] \subseteq Within[1][s]

=============================================================================
