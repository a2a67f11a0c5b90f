--------------------------- MODULE SchedulerLease ---------------------------
(***************************************************************************)
(* Leader election of the periodic scheduler (workers/scheduler_worker.py).*)
(* A scheduler that sets, or renews, the Redis lease runs all periodic     *)
(* cycles while a thread of its own renews the lease; it looks at the      *)
(* lease again only when the cycles have ended.                            *)
(*                                                                         *)
(* Time passes in ticks.  A process that keeps up acts before its timer    *)
(* passes zero; one that is stalled (a pause, a partition) does not.       *)
(***************************************************************************)
EXTENDS Integers, FiniteSets

CONSTANTS
  Schedulers,
  Lease,      \* scheduler_lease_seconds, in ticks
  Poll,       \* scheduler_poll_interval_seconds
  Refresh,    \* seconds between two renewals by the thread
  None,       \* no owner
  Gone,       \* an owner that no longer exists: every process has a new id
  MaxFaults   \* bound: Redis errors, stalls and kills

\* The settings validator: the lease is at least three poll intervals, and the
\* refresh interval is at most a third of it.
ASSUME TimingAssumption ==
  /\ Poll \in Nat \ {0} /\ Refresh \in Nat \ {0} /\ Lease \in Nat
  /\ Lease >= 3 * Poll /\ Lease >= 3 * Refresh /\ Refresh <= Poll
ASSUME OwnerAssumption == None \notin Schedulers /\ Gone \notin Schedulers /\ None # Gone
ASSUME FaultsAssumption == MaxFaults \in Nat

VARIABLES
  owner,    \* value of sbs:jobs:scheduler:lease
  ttl,      \* ticks until Redis expires it
  state,    \* what the main loop does
  wake,     \* ticks until the main loop looks at the lease again
  renew,    \* ticks until the renewal thread renews
  lost,     \* lease_lost is set: the renewal thread has ended
  stalled,  \* the process makes no progress
  faults

vars == <<owner, ttl, state, wake, renew, lost, stalled, faults>>

TypeOK ==
  /\ owner \in Schedulers \cup {None, Gone}
  /\ ttl \in 0 .. Lease
  /\ state \in [Schedulers -> {"waiting", "running", "stopped"}]
  /\ wake \in [Schedulers -> 0 .. Poll]
  /\ renew \in [Schedulers -> 0 .. Refresh]
  /\ lost \in [Schedulers -> BOOLEAN]
  /\ stalled \in [Schedulers -> BOOLEAN]
  /\ faults \in 0 .. MaxFaults

Init ==
  /\ owner = None /\ ttl = 0
  /\ state = [s \in Schedulers |-> "waiting"]
  /\ wake = [s \in Schedulers |-> 0]
  /\ renew = [s \in Schedulers |-> 0]
  /\ lost = [s \in Schedulers |-> FALSE]
  /\ stalled = [s \in Schedulers |-> FALSE]
  /\ faults = 0

Fault == faults < MaxFaults /\ faults' = faults + 1

Renewing(s) == state[s] = "running" /\ ~lost[s]

Wait(s) == wake' = [wake EXCEPT ![s] = Poll]

\* (Mutations of Lead: SET without NX; a poll interval more than the thread
\* waits; lease_lost of an earlier round not cleared.)
LeadAnyway(s) ==
  /\ state[s] = "waiting" /\ wake[s] = 0 /\ ~stalled[s]
  /\ owner' = s /\ ttl' = Lease
  /\ state' = [state EXCEPT ![s] = "running"]
  /\ renew' = [renew EXCEPT ![s] = Refresh]
  /\ lost' = [lost EXCEPT ![s] = FALSE]
  /\ UNCHANGED <<wake, stalled, faults>>

LeadLateRenewal(s) ==
  /\ state[s] = "waiting" /\ wake[s] = 0 /\ ~stalled[s]
  /\ owner \in {s, None}
  /\ owner' = s /\ ttl' = Lease
  /\ state' = [state EXCEPT ![s] = "running"]
  /\ renew' = [renew EXCEPT ![s] = Refresh + Poll]
  /\ lost' = [lost EXCEPT ![s] = FALSE]
  /\ UNCHANGED <<wake, stalled, faults>>

LeadUnlessLost(s) ==
  /\ state[s] = "waiting" /\ wake[s] = 0 /\ ~stalled[s] /\ ~lost[s]
  /\ owner \in {s, None}
  /\ owner' = s /\ ttl' = Lease
  /\ state' = [state EXCEPT ![s] = "running"]
  /\ renew' = [renew EXCEPT ![s] = Refresh]
  /\ UNCHANGED <<wake, lost, stalled, faults>>

\* SET NX takes a free lease, the renewal script extends an own one; both give
\* it the full time.  The cycles start with a renewal thread beside them.
Lead(s) ==
  /\ state[s] = "waiting" /\ wake[s] = 0 /\ ~stalled[s]
  /\ owner \in {s, None}
  /\ owner' = s /\ ttl' = Lease
  /\ state' = [state EXCEPT ![s] = "running"]
  /\ renew' = [renew EXCEPT ![s] = Refresh]
  /\ lost' = [lost EXCEPT ![s] = FALSE]
  /\ UNCHANGED <<wake, stalled, faults>>

\* Another scheduler leads, or Redis raises, with or without having given this
\* one the lease: try again after Poll.
Follow(s) ==
  /\ state[s] = "waiting" /\ wake[s] = 0 /\ ~stalled[s]
  /\ \/ owner \notin {s, None} /\ UNCHANGED <<owner, ttl, faults>>
     \/ Fault /\ UNCHANGED <<owner, ttl>>
     \/ Fault /\ owner \in {s, None} /\ owner' = s /\ ttl' = Lease
  /\ Wait(s)
  /\ UNCHANGED <<state, renew, lost, stalled>>

\* _keep_lease_alive: the script extends the lease if it is still this
\* scheduler's; otherwise, and on a Redis error before or after that, lease_lost
\* is set and the thread ends.
RenewLease(s) ==
  /\ Renewing(s) /\ renew[s] = 0 /\ ~stalled[s]
  /\ \/ /\ owner = s
        /\ ttl' = Lease
        /\ renew' = [renew EXCEPT ![s] = Refresh]
        /\ UNCHANGED <<lost, faults>>
     \/ /\ owner # s
        /\ lost' = [lost EXCEPT ![s] = TRUE]
        /\ UNCHANGED <<ttl, renew, faults>>
     \/ /\ Fault
        /\ lost' = [lost EXCEPT ![s] = TRUE]
        /\ ttl' \in {ttl, IF owner = s THEN Lease ELSE ttl}
        /\ UNCHANGED renew
  /\ UNCHANGED <<owner, state, wake, stalled>>

\* run_periodic_cycles returns; the thread is stopped and the loop waits.
EndCycles(s) ==
  /\ state[s] = "running" /\ ~stalled[s]
  /\ state' = [state EXCEPT ![s] = "waiting"]
  /\ Wait(s)
  /\ UNCHANGED <<owner, ttl, renew, lost, stalled, faults>>

\* The scheduler's own lease is deleted or, when the script fails, left behind.
Abandon(s, left) == IF owner = s THEN owner' = left /\ ttl' = IF left = None THEN 0 ELSE ttl
                    ELSE UNCHANGED <<owner, ttl>>

\* SIGTERM, or a Redis error outside the handlers, ends the process between
\* two rounds of cycles; the release script deletes the lease if it is its own.
Shutdown(s) ==
  /\ state[s] = "waiting" /\ ~stalled[s]
  /\ Fault
  /\ state' = [state EXCEPT ![s] = "stopped"]
  /\ \E left \in {None, Gone} : Abandon(s, left)
  /\ UNCHANGED <<wake, renew, lost, stalled>>

\* The process is killed: it releases nothing.
Kill(s) ==
  /\ state[s] # "stopped"
  /\ Fault
  /\ state' = [state EXCEPT ![s] = "stopped"]
  /\ Abandon(s, Gone)
  /\ UNCHANGED <<wake, renew, lost, stalled>>

\* The container is started again.
Restart(s) ==
  /\ state[s] = "stopped"
  /\ state' = [state EXCEPT ![s] = "waiting"]
  /\ wake' = [wake EXCEPT ![s] = 0]
  /\ lost' = [lost EXCEPT ![s] = FALSE]
  /\ stalled' = [stalled EXCEPT ![s] = FALSE]
  /\ UNCHANGED <<owner, ttl, renew, faults>>

Stall(s) ==
  /\ state[s] # "stopped" /\ ~stalled[s] /\ Fault
  /\ stalled' = [stalled EXCEPT ![s] = TRUE]
  /\ UNCHANGED <<owner, ttl, state, wake, renew, lost>>

Resume(s) ==
  /\ stalled[s]
  /\ stalled' = [stalled EXCEPT ![s] = FALSE]
  /\ UNCHANGED <<owner, ttl, state, wake, renew, lost, faults>>

\* A process that keeps up has nothing overdue.
OnTime(s) ==
  \/ stalled[s]
  \/ state[s] = "stopped"
  \/ state[s] = "waiting" /\ wake[s] > 0
  \/ state[s] = "running" /\ (lost[s] \/ renew[s] > 0)

Less(n) == IF n = 0 THEN 0 ELSE n - 1

\* Time passes: timers run down and Redis expires the lease.
Tick ==
  /\ \A s \in Schedulers : OnTime(s)
  /\ ttl' = Less(ttl)
  /\ owner' = IF ttl' = 0 THEN None ELSE owner
  /\ wake' = [s \in Schedulers |-> Less(wake[s])]
  /\ renew' = [s \in Schedulers |-> Less(renew[s])]
  /\ UNCHANGED <<state, lost, stalled, faults>>

Act(s) == Lead(s) \/ Follow(s) \/ RenewLease(s) \/ EndCycles(s) \/ Restart(s) \/ Resume(s)

Next ==
  \/ \E s \in Schedulers : Act(s) \/ Shutdown(s) \/ Kill(s) \/ Stall(s)
  \/ Tick

Spec == Init /\ [][Next]_vars

\* Time passes, a process that is neither stopped nor stalled gets on with its
\* work (each periodic cycle returns), stalls end and containers are restarted.
Fairness ==
  /\ WF_vars(Tick)
  /\ \A s \in Schedulers : WF_vars(Lead(s) \/ Follow(s)) /\ WF_vars(RenewLease(s))
                             /\ WF_vars(EndCycles(s)) /\ WF_vars(Restart(s)) /\ WF_vars(Resume(s))

FairSpec == Spec /\ Fairness

-----------------------------------------------------------------------------
(* Properties.                                                             *)

\* A scheduler whose renewal thread is on time owns the lease, with at least
\* the time left that its timers leave it, whatever stalls, kills and Redis
\* errors the others had.
LeaderOwns ==
  \A s \in Schedulers : Renewing(s) /\ renew[s] > 0 =>
    owner = s /\ ttl >= Lease - Refresh + renew[s]

\* Two schedulers run the periodic cycles at the same time only when one of
\* them has been told that its lease is lost or is late with its renewal: the
\* loop does not interrupt the cycles then.
OverlapOnlyAfterLoss ==
  \A s, t \in Schedulers :
    s # t /\ state[s] = "running" /\ state[t] = "running"
      => \E u \in {s, t} : lost[u] \/ renew[u] = 0

\* The periodic cycles are run again and again, also after the leader was
\* killed with the lease in its hands.
RunsAgain == []<>(\E s \in Schedulers : state[s] = "running")

=============================================================================
