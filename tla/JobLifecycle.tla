---------------------------- MODULE JobLifecycle ----------------------------
(***************************************************************************)
(* What the job queue promises about a job, as if it had one worker and no *)
(* Redis: every attempt is a single step that reads the row, counts the    *)
(* attempt and leaves the job settled or waiting for the next attempt, and *)
(* the lifecycle events say what happened in that order.  JobQueue is      *)
(* shown to implement this module.                                         *)
(***************************************************************************)
EXTENDS Integers, Sequences

CONSTANTS Jobs, MaxAttempts, Registered

VARIABLES job, log

vars == <<job, log>>

Init ==
  /\ job = [j \in Jobs |-> [status |-> "absent", attempts |-> 0]]
  /\ log = [j \in Jobs |-> <<>>]

Set(j, status, attempts, events) ==
  /\ job' = [job EXCEPT ![j] = [status |-> status, attempts |-> attempts]]
  /\ log' = [log EXCEPT ![j] = @ \o events]

Enqueue(j) == job[j].status = "absent" /\ Set(j, "queued", 0, <<"queued">>)

\* An attempt on a task the workers know.
Succeed(j) ==
  /\ job[j].status = "queued"
  /\ j \in Registered
  /\ Set(j, "success", job[j].attempts + 1, <<"running", "success">>)

Fail(j) ==
  /\ job[j].status = "queued"
  /\ j \in Registered
  /\ LET n == job[j].attempts + 1 IN
       IF n < MaxAttempts[j]
         THEN Set(j, "queued", n, <<"running", "failed", "retry_scheduled">>)
         ELSE n = MaxAttempts[j]
                /\ Set(j, "dead_letter", n, <<"running", "failed", "dead_letter">>)

\* An attempt on a task they do not know counts once, however often it is made.
FailUnregistered(j) ==
  /\ job[j].status = "queued"
  /\ j \notin Registered
  /\ IF MaxAttempts[j] > 1
       THEN Set(j, "queued", 1, <<"failed", "retry_scheduled">>)
       ELSE Set(j, "dead_letter", 1, <<"failed", "dead_letter">>)

Replay(j) == job[j].status = "dead_letter" /\ Set(j, "queued", 0, <<"replayed">>)

\* Retention looks at the status when it selects and not when it deletes, so
\* what it removes may have been replayed in between.
Purge(S) ==
  /\ \A j \in S : job[j].status \in {"queued", "success", "dead_letter", "purged"}
  /\ job' = [j \in Jobs |-> IF j \in S THEN [status |-> "purged", attempts |-> 0] ELSE job[j]]
  /\ log' = [j \in Jobs |-> IF j \in S THEN <<>> ELSE log[j]]

Next ==
  \/ \E j \in Jobs : Enqueue(j) \/ Succeed(j) \/ Fail(j) \/ FailUnregistered(j) \/ Replay(j)
  \/ \E S \in SUBSET Jobs : Purge(S)

Spec == Init /\ [][Next]_vars

=============================================================================
