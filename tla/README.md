# TLA+ models of the SBS AI ITSM backend

The backend of SBS AI ITSM is a FastAPI application over PostgreSQL with Redis
beside it, worker processes that run jobs, and a scheduler that runs periodic
cycles. This directory holds TLA+ modules of its asynchronous core, the TLC
runs that check them on small instances and the proofs that TLAPS checks for
every instance. Paths below are relative to `src/backend/app`, those that begin
with `docs/` to `src`.

## 1. Inventory

| Component | State it keeps | Operations | What is hard | Modelled |
|---|---|---|---|---|
| Job queue, Redis mode (`services/jobs/__init__.py`, `workers/jobs_worker.py`, `api/v1/routes/jobs.py`) | `job_runs`, `job_lifecycle_events`, `job_queue_outbox`; Redis list, scheduled set, dead-letter list, dedup keys, missing-row counters | enqueue, publish, drain, pop, execute, retry, dead-letter, replay, acknowledge | two stores without a common transaction, several workers, crashes between steps, unlocked reads | `JobQueue`, `JobLifecycle` |
| Job event bus (`workers/jobs_worker.py`, recovery in `services/jobs/__init__.py`) | relay columns of events, Redis stream, consumer offset, delivery rows, effects of the handlers | relay, consume, retry failed, operator recovery, auto-remediation | overlapping batches, duplicated stream entries, stale session copies, rollbacks | `JobEventBus` |
| Periodic scheduler (`workers/scheduler_worker.py`, `core/config.py`) | Redis lease, renewal thread, `lease_lost` | elect, renew, release, run cycles | expiry under a stalled leader, renewal racing expiry, restart | `SchedulerLease` |
| Data retention (`services/data_governance.py`) | retention runs | select, delete by id | rows selected earlier change before the delete | inside `JobQueue` and `JobEventBus` |
| Workflow engine (`services/workflow_engine.py`, `api/v1/routes/workflow_engine.py`) | executions, steps, approvals, event log | start, replay, claim, move on, wait, approve, call a subflow, retry, compensate, cancel, purge | requests and overlapping cycles on one execution, a pass that is rolled back, a parent and its child, serial flows | `WorkflowExecution` |
| Webhooks, e-mail, Teams, monitoring receipts, SCIM events (`services/integration_platform.py`, `email_operations.py`, `teams_collaboration.py`, `monitoring_connectors.py`, `scim_provisioning.py`) | five tables of things to deliver, their targets | queue, select, send, settle, retry by hand, bounce, change the target | the same life with five different lockings and commits | `Outbox`, `DeliveryPromise` |
| Event correlation and escalation (`services/event_operations.py`) | normalized events, groups, tickets | ingest, correlate, create or update an incident, recover, escalate, acknowledge | unlocked reads before the advisory lock, two sources on one key, cycle against operator | `EventCorrelation` |
| Ticket lifecycle (`services/ticket_lifecycle.py`, `api/v1/routes/tickets.py`) | status, version | transition, follow a path, merge | a path computed from a status that has changed since | `TicketLifecycle`, used by `EventCorrelation` and `SlaClock` |
| Enterprise SLA (`services/enterprise_sla.py`, `api/v1/routes/sla.py`) | instances, targets, pauses | start, pause, resume, complete, recalculate, evaluate | ticket changes under a lock against managers and evaluators without one; business time | `SlaClock`, `BusinessTime` |
| Job runtime configuration, policy state, rollouts | versioned documents | update, promote, roll back | version checks, gates | planned |
| Change control (`api/v1/routes/changes.py`, `api/v1/routes/change_governance.py`, `services/change_governance.py`) | changes and their asset links, approvals, CAB meetings and agendas | create, instantiate a model, edit, submit, decide, book a window, start, complete, fail, roll back, cancel, convene, rule | bookings that do not see each other, several advisory locks, rulings from old copies | `ChangeControl` |
| Request fulfilment, release and problem governance | status machines, approvals | transitions | version checks, approval chains | planned |
| Inline job executor (`run_task`) | the caller's transaction | run | nothing asynchronous | no |
| Audit, automation, notifications | hash chain; rules; notifications | append; handle | chain order | as effects of the above |
| AI, authentication, CMDB and discovery, configuration packages, custom fields, analytics, search, frontend, migrations | various | mostly request-local | little that interleaves | no |

How they meet: an API request or a worker that changes a job appends a
lifecycle event in the same transaction (`JobQueue`); the bus relays that event
to a stream and runs the automation and notification handlers on it
(`JobEventBus`, whose `Emit` is that commit). The scheduler, under its lease,
runs the periodic cycles: retention, which deletes settled jobs and, by cascade,
their events and deliveries (`PurgeSelect`, `PurgeDelete`, `Purge`); the
workflow cycle (`WorkflowExecution`); the delivery cycles (`Outbox`); escalation
(`EventCorrelation`) and the SLA evaluation (`SlaClock`). Because
`OverlapOnlyAfterLoss` admits a second leader after a loss, these modules have
several workers in a cycle. A receipt that `Outbox` processes is ingested by
`EventCorrelation`, which creates and moves tickets through `TicketLifecycle`;
every change of a ticket brings its clock up to date (`SlaClock`). Changes are
governed by requests alone (`ChangeControl`): no cycle and no event moves them.

What makes each correct:

* a job is handed on and never doubled or lost, its attempts and events tell
  one story, and it settles;
* an event of the bus is handled, its delivery row decides who handles it, and
  an effect is committed with the row that records it;
* cycles run again and again and, as long as leaders are punctual, one
  scheduler at a time runs them;
* the effects of an execution are committed once with their steps, undone in
  reverse, and an execution ends;
* what was accepted for delivery is kept, counts as done only after it has
  arrived, and is tried within its budget;
* an event counts once, a key has one open group and one incident, and nobody
  is escalated to about a group that has been answered;
* nothing that needs the CAB goes ahead without the consent of somebody else,
  given since its contents last changed, and no asset has two changes at once;
* a deadline grants its duration of working time, however often the clock was
  stopped, and a verdict agrees with its times.

## 2. The modules

**`JobQueue`.** One worker variable `pc` follows `run_worker_forever`: publish
the outbox, drain the scheduled set, pop, load, execute, and after the commit
`ZADD` or the push on the dead-letter list. Every Redis command and every
database statement that other processes can see is a step of its own; no step
changes both stores. A transaction shows only at its commit, so its flushed
writes are in worker variables (`claimed`, `done`, `snap`) and its row locks in
`JobLocked` and `RowsLocked`. `snap` is the copy of the row the session loaded:
the outcome of an attempt is computed from it, and `CommitRun` writes only the
columns the session changed, as the ORM does. Outbox rows are identified by
what their deduplication key is made of (job and publication operation, 0 for
the enqueue, n for the n-th replay). Faults are actions: a Redis error before
or after the command took effect, a failed commit, a crash anywhere, a request
that dies between its steps. Where an operation of the code ends in a state
change, the action includes it (`CommitRun` writes row and events together).

**`JobLifecycle`.** The abstract specification: one store, each attempt one
step. `JobQueue!LifecycleSpec` is its specification over the variables `job`
and `log`; nothing else of the queue is visible to it.

**`JobEventBus`.** The same worker loop, the part that relays
(`_relay_job_events_batch`), consumes (`_consume_event_stream_batch`) and
retries (`_retry_failed_event_consumers_batch`). A session keeps for every
delivery the row as loaded, as changed, and how often its transaction ran the
handler (`held`); `Flushed` is the ORM's flush of the changed columns and
`Stale` the error it raises for a deleted row. The unique key on (consumer,
event) makes `Insert` wait for, and lose against, another transaction. The two
consumers of the code share only the stream, so one stands for both. The gates
around the remediation cycle (cooldown, rates, suppression, error brake) decide
when it runs, which the model leaves free.

**`SchedulerLease`.** `owner` and `ttl` are the Redis lease; `wake` and `renew`
the timers of the main loop and of `_keep_lease_alive`; `lost` is `lease_lost`.
Time passes in ticks, and a process that keeps up acts before a timer of its
passes zero; `Stall` takes that away from it. `TimingAssumption` is what the
settings validator enforces and how the refresh interval is computed from it.

**`WorkflowExecution`.** `run` holds the committed executions with everything
that is only written under their row lock (steps, approval, event log); `tx` is
the pass a worker has under way, with the execution as the transaction sees it;
`req` is a request between its reads and its commit. `ClaimStep` is
`run_workflow_cycle` taking a due row (`SKIP LOCKED`) and what
`process_workflow_execution` does first: a deferral behind an earlier serial
execution, a fresh start, or the resumption of a timer, an approval or a
subflow. `NodeStep` has one action per node type and outcome, `EndStep` the
compensations, the commit, and the second transaction that records a failed
pass. `RollBack` and `Crash` may happen at any point of a pass. Every step of an
APPROVAL node has an approval of its own. `Decide` uses the one it read before
the lock. A cancellation of a waiting parent goes down to its child, the child's
child and so on, with one step for each statement that reads: the row
(`ReadRow`), its pending approvals, its last event number, all without a lock,
and a flush that waits for the row and keeps it (`FlushCancel`). `CommitCancel`
writes what was read over whatever is there by then. Only a commit after the
number was read makes the numbers collide (a unique constraint) and rolls the
request back; an earlier one goes unnoticed, and `overtaken` records it.
Cancellations of nested executions may wait for each other (`Deadlocked`).
Timers are booleans: `BecomeDue` and `Lapse` say that the time has come.
`GraphAssumption` is what `validate_workflow_definition` accepts: edges for
every outcome, and no cycle.

**`Outbox`** and **`DeliveryPromise`.** A behaviour is about one of the five
tables (`channel`), with the locks, commits and conditions of that table:
`Select` is the cycle's query, `Begin` the step before the call (with the
receipts' early commit), `Arrive` the call reaching the other side, `Settle`
what the answer makes of the row, `Commit`, `Finish` and `Abort` the ends of a
cycle. `Open`, `Reopen`, `Reapply` and `ReplayDelivery` are the retries by hand,
with the locks each has or lacks; `Change`, `SetStatus` and `Rotate` are the
subscription's routes. `Found` is what the session takes for the target: e-mail,
Teams and provisioning keep theirs, and the subscription of a webhook, locked by
the select, is the present one unless a call of this cycle has failed, whose
exception (`error = exc`) may keep the object read before alive (`seen`,
`failed`). A subscription's target and secret are one `version`, and `tested` the
one marked as tested. `sent` and `passed` are history. `KeepsPromise` maps rows to
`DeliveryPromise`, an abstract specification of what any of these tables
promises (`Promise == INSTANCE DeliveryPromise WITH ...`).

**`TicketLifecycle`.** The transition table and the search for a path between
two statuses, as constant definitions, with the locked transition (`Accepts`)
and the chain of transitions (`Moved`).

**`EventCorrelation`.** The events of one correlation key. An ingestion is
`Ingest` (up to the wait for the key's advisory lock; a recovery has then read
its group without a lock), then `OpenGroup` to the ticket it reads without a
lock, then one of `JoinGroup`, `CreateIncident`, `UpdateIncident`,
`IgnoreRecovery`, `Recover` or `Fail`. `SelectOverdue` and `Escalate` are the
cycle, `Look` and `Acknowledge` the operator, `WorkOnTicket` and `MergeTicket`
people.

**`BusinessTime`.** The arithmetic of working hours, in ticks of which a minute
has several, because the code measures with seconds and rounds down per
interval. `IntervalsValid` and `Regular` say which calendars are accepted.
`WorkingTicks` is the reference that counts tick by tick; `Grants` and `Measures`
relate to it what the two functions of the code compute.

**`SlaClock`.** The service functions are operators on a copy of an instance
(`Fresh`, `Superseded`, `Pause`, `Resume`, `Complete`, `Evaluate`, and `Synced`,
which is `sync_ticket_sla`). A session reads the instance, then the time, the
targets and the open pause (`Look`), and then commits; it writes the columns in
which its copy has changed (`Written`). `lost` is history: some commit has
overwritten a deadline, or a sum of pauses, that had changed since it was read
(`Overwrites`). The desk holds the lock from its first
read, a recalculation from its second, managers and evaluators none. A change
that raises (`Refuse`) takes the ticket's change with it.

**`ChangeControl`.** What locks the row of a change is one step (`Draft` to
`Cancel`, with one action for each transition); a `SCHEDULE` is the steps
`Lock`, `TakeKey` for each asset, `FindClear` and `Book`, because it waits for
advisory locks and sees only what has been committed. `Ask` is the unlocked
reads and checks of a request about a meeting, `CommitMove`, `CommitAdd` and
`CommitDecision` what it writes later. `consent` are the approvals of a change
since its last edit, which the code has as `change_approvals` beside the history.

The **`MC...`** modules give TLC its instances and symmetries.
**`JobQueueProofs`**, **`JobEventBusProofs`**, **`SchedulerLeaseProofs`**,
**`WorkflowExecutionProofs`**, **`OutboxProofs`**, **`EventCorrelationProofs`**,
**`SlaClockProofs`** and **`ChangeControlProofs`** hold theorems and proofs.
Operators marked "Mutation of" are deliberate errors, one for each property;
no specification uses them.

Every definition that stands for code is listed in `PROJECT.json` ("map") with
the lines it translates.

## 3. The runs

| Run | Instance | Shows |
|---|---|---|
| `queue_safety` | 2 jobs (one with 2 attempts whose task is registered, one with 1 whose task is not), 2 workers, 1 operator, 1 replay, 1 fault anywhere | a queued job has at most one copy (`OneCopy`), the retry budget holds (`RetryBudget`), the queue implements `JobLifecycle`, which also fixes the order of a job's events and that attempts count its runs (`LifecycleSpec`) |
| `queue_liveness` | 1 job with 2 attempts, 2 workers, 2 overlapping replays, 1 retention run, no faults | every queued job settles (`Settles`); dead letters are listed (`DeadLettersListed`) |
| `bus_safety` | 2 events, one with a handler that may raise, 2 workers, 1 recovery, 1 fault | the offset skips nothing (`NoEntrySkipped`), an event that never failed has one effect (`CleanEventsOnce`), a delivered row had its effect (`DeliveredHadEffect`) and stays delivered (`DeliveredStays`) |
| `bus_liveness` | 1 event, 2 workers, 2 recoveries, 1 purge, no faults | every event is handled (`Handles`) |
| `scheduler_lease` | 3 schedulers, lease 6, poll 2, refresh 2, 3 faults | a punctual leader owns the lease (`LeaderOwns`), the cycles run for ever (`RunsAgain`) |
| `workflow_safety` | 9 flows of 14 nodes, up to 3 executions, 2 workers, 2 requests at a time, 1 rollback or crash; 404,893 states | effects committed once with their step (`DoneOnce`), compensation in reverse (`CompensationReverses`), serial order but for subflows (`SerialOrder`), one child per subflow (`OneChild`), approvals that can be decided are awaited (`PendingIsAwaited`), cancelling reaches the child (`CancelCascades`) |
| `workflow_liveness` | five of the flows, 2 executions, 1 worker, 1 request at a time, 1 fault | every execution ends (`Ends`) |
| `outbox` | each of the 5 tables, 2 items (1 e-mail), 2 cycles, 1 clerk, 2 attempts, 1 to 3 upsets; 1,919,919 states | every table keeps its promise (`KeepsPromise`), locked tables their budget (`AttemptBudget`), webhooks call what has passed a test, and what is present unless a call of the cycle has failed (`CallsAreCurrent`) |
| `event_correlation` | 3 alerts and a recovery of 2 sources, 4 policies, 2 ingestions at a time, 1 repeat or failure, 3 moves by people; 1,149,127 states | an event counts once (`CountedOnce`), one open group and one incident (`OneIncident`), no escalation after an answer (`QuietOnceAnswered`), tickets follow the table (`LawfulTickets`) |
| `sla_clock` | 1 ticket, desk, 1 manager, 1 evaluator, a day off, 2 ticks to a minute, 3 moves, 1 order, 3 ticks; 2,482,342 states | deadlines grant their time (`TimeIsGranted`), a paused clock can be resumed (`PausedCanResume`), verdicts agree with times (`VerdictsHold`) |
| `change_control` | 2 changes that share 2 assets, 2 bookings at a time, 1 request about the meeting at a time, windows that overlap and one that does not; 2,343,535 states | an asset is not booked twice (`NoDoubleBooking`), consent is somebody else's and later than the last edit (`ConsentGiven`), bookings do not wait in a circle (`NoLockCycle`) |
| `queue_lost_publish` | 1 job, 1 Redis error | counterexample: `PublishedWasPushed` |

**Bounds.** `MaxReplays`, `MaxRecoveries`, `MaxPurges`, `MaxRepeats`,
`MaxMoves`, `MaxOrders`, `MaxUpsets` and `MaxFaults` bound requests, retention
runs and faults, by table where they are functions; `MaxExecs`, `Room` and
`Demands` what is created, `Aims` the statuses people move a ticket to, `Horizon`
and `MaxStart` the time. Attempts are bounded by the code. `MissingLimit` is 5
in the code and 1 or 2 here: the counter only separates "put back" from
"dropped"; likewise `MaxAttempts` of an execution is 5 in the code and 3 here,
which still separates a first, a middle and a last one. Two workers are enough
for every race in the code, which are all between a step of one and a step of
another on one row, key or list; two attempts distinguish the first, the retry
and the last one. One fault at every step finds each two-store gap and each
rollback; the scheduler has three so that a stall, a lost renewal and a kill
can follow each other, and three processes so that a third can lead while two
are late. The flows have every node type, a compensated action before
and one after an approval, two approvals in turn, a subflow that fails, one that
waits for an approval, one within another, a wait, and a serial flow, and
`Demands` puts two executions of one flow beside each other. The child that
waits for an approval and the subflow within a subflow let a child move on
between the reads of a cancellation. A webhook has three upsets: two rotations
and an activation overtake the mark of a tested version. In `sla_clock` a
new priority counts as an order; three moves take a ticket into a pause status,
out of it and on; the horizon of three ticks ends inside the second minute, so
deadlines pass and pauses end in the middle of a minute, and deadlines reach
over the night and the exception of day 1. Instances with
24x7 calendars beside these (5.5 million states) and with two managers (11.7
million) were checked once and are too slow to keep. `MCSlaClock` also evaluates
the arithmetic of business time for spans of up to six minutes on three
calendars (`ArithmeticGrants`), which is proved for all. In
`change_control` each change has one plan that needs the CAB and one that does
not, `Plans` and `Windows` bound the contents and the windows asked for, and two
shared assets let one booking hold what the other wants. Its one seat lets a
ruling meet everything that bookings and people do in between, but not another
request about a meeting; the theorems cover any number.

**Fairness.** `queue_liveness`: each worker loop goes on, time passes
(`BecomeDue`), a replay request once begun is completed (an HTTP request runs to
its commit). `bus_liveness`: each worker loop goes on. `workflow_liveness`: time
passes, a pass once begun goes on, each cycle visits the due executions oldest
first, so that one that is due again and again is claimed (strong fairness of
`ClaimStep` for each execution). Time also passes for a subflow's wait, which is
finite (`workflow_engine.py:452-468`), and for a due time, however often a lock is
taken in between: both are strong, `SubflowTimesOut` for its poll. A cancellation
once begun is completed, which is strong because row locks are given in the order
of their queue.
Starting, enqueueing, replaying, deciding, recovering, purging and faults are
never fair. `scheduler_lease`: time passes, the loops go on, `EndCycles` (each
periodic cycle returns: they work on bounded batches), stalls end, and a stopped
container is restarted (the `restart` policy of the compose file). `RunsAgain`
and `Ends` hold with faults because they are bounded; without a bound a
scheduler may be killed, or a pass rolled back, for ever.

**Deadlock** is checked except where the instance really stops: its bounded
requests are used up and every execution, item, event or clock is at rest.

## 4. Where code and documents disagree

One is a run of its own that checks one property, stated by a document of the
repository, and ends in a counterexample; `PROJECT.json` ("findings") quotes the
sentence.

* `PublishedWasPushed`: an `LPUSH` that raises leaves the dedup key behind; the
  next batch takes the row for published and the job is never pushed.

The others were met while modelling. Every one is a behaviour of the models;
the properties say what holds in spite of it.

Jobs and bus:

* Of two replays that both saw a dead letter, the second resets a job the first
  has already brought to success, and its task runs again
  (`docs/operations/OBSERVABILITY-RUNBOOK.md:221`, "replay must keep idempotency
  controls").
* An unregistered task sets `attempts` to `max(attempts, 1)`, so with
  `max_attempts > 1` it is retried for ever
  (`docs/reports/PLATFORM-CORE-ASYNC-RETRY-DLQ-003-REPORT.md:15`).
* Failed deliveries are selected without a lock; two workers retry one delivery
  and both commit the handler's effect
  (`docs/reports/PLATFORM-CORE-ASYNC-CONSUMERS-010-REPORT.md:19`).
* A handler of the bus that raises after it has written some rows has them
  committed with the failed status: there is no savepoint around it.
* A replayed job keeps its dead-letter entry, whose acknowledgement is refused
  until the job is a dead letter again; an acknowledgement whose commit fails
  has removed the entry without a record.

Workflows (`docs/operations/WORKFLOW-ENGINE-RUNBOOK.md`):

* Two decisions that both read the approval PENDING are both carried out, the
  second over the outcome of the first, although line 32 speaks of an
  "optimistic version" (`DecidedTwice` in the properties).
* A decision after the expiry marks the approval EXPIRED and leaves the
  execution in WAITING_APPROVAL, which only a cancellation can end, and which
  blocks the serial executions behind it (`Stranded`).
* A parent in RETRY that is cancelled leaves its child active; the cascade looks
  only at WAITING_SUBFLOW (`CancelCascades` says so).
* A cancellation reads a child's status, approvals and last event number in
  statements of their own, without a lock, and writes over a child that has moved
  on before the last of them. One that was read QUEUED and waits for a child of
  its own by then is cancelled without that child (line 202: "parent cancellation
  cascades to its owned non-terminal child";
  `docs/reports/WF-002-VISUAL-WORKFLOW-DESIGNER-PENDING-GATE.md:62`: "cascades
  through owned non-terminal descendants"). One that waits for an approval by then
  is cancelled with the approval PENDING, and deciding this brings it back to
  QUEUED, because a decision does not look at the status. `PendingIsAwaited` and
  `CancelCascades` leave out an execution that was overtaken in this way, which
  the execution of the request never is. Nested cancellations may deadlock, and
  PostgreSQL rolls one back.
* A pass that fails again and again in WAITING_APPROVAL ends in DEAD_LETTER with
  the approval still PENDING; such a dead letter has no event and runs no
  compensation.
* A serial execution that a SUBFLOW node creates is inserted by its parent's pass
  and shows only when that pass commits: one created later may begin before it,
  and both are under way (line 213: "`SERIALIZE` defers a workflow while another
  non-terminal execution is active"). `SerialOrder` leaves these out.
* The limit of active executions is counted without a lock when a trigger
  enqueues; a request may exceed it likewise.

Deliveries:

* The e-mail cycle takes no lock and commits once at its end: overlapping
  cycles, or a crash, send mail again; a retry that has read the row before
  re-queues accepted mail
  (`docs/operations/PRODUCTION-EMAIL-CHANNEL-RUNBOOK.md:188`, "cannot be
  retried").
* A receipt whose cycle dies after PROCESSING is committed stays there; no cycle
  and no route takes it up. The same commit gives back the locks of the rest of
  the batch. A disabled source has its receipts retried without counting the
  attempts, and `_mark_failed` overwrites whatever status the receipt has got.
* A webhook is posted inside the transaction: a crash sends it again and the
  attempt is not counted, hence `faults` in `AttemptBudget`.
* After a failed call the exception may keep the subscription in the session,
  whose next select gets the row's lock but returns this object unchanged: the
  rest of the cycle may go on calling a subscription that was paused or revoked
  meanwhile, with its old target and secret, and a test that passes with these
  may overwrite the mark of the version tested last. `CallsAreCurrent` claims for
  such a cycle only that what it calls had passed a test.
* `DeliveryPromise` lets what is done wait and arrive again, as the overwrites and
  repetitions above require; it promises that what was accepted is kept and that
  only what has arrived is said to be done.
* The route that retries a provisioning event reads it without a lock and may
  apply it beside the cycle.

Events (`docs/operations/EVENT-TO-INCIDENT-RUNBOOK.md`):

* A recovery that has read the group before another source's firing event
  creates the incident ends the group and leaves the new ticket open (lines
  99-103 promise its resolution).
* A recovery that arrives before its firing event is ignored for good.
* Firing events go on updating a group's ticket that was cancelled or merged.
* One group whose escalation meets a conflict rolls the whole cycle back.

SLA (`docs/operations/SLA-OLA-OPERATIONS-RUNBOOK.md`):

* Evaluations and managers write over ticket changes committed since their
  reads: PAUSED becomes BREACHED (the pause is never closed and the deadlines
  not extended), MET becomes BREACHED or WARNING, CANCELLED becomes WARNING, and
  a met target can keep a breach on record. `TimeIsGranted` is therefore about
  targets without a verdict.
* Two parties may resume one pause, each from its own copy of deadlines and sum
  of pauses; the later commit overwrites what the earlier one has given, so a
  deadline may come back to before the pause that is on record (line 64:
  "extends open deadlines by the business minutes consumed during the pause"),
  and what was met in time by the longer deadline is late by the shorter one.
  `TimeIsGranted` and `VerdictsHold` claim no more than the code keeps once such
  an overwriting has happened (`lost`): a deadline never falls short of the
  duration itself.
* Two evaluations (the cycle, its endpoint, a ticket change) may advance one
  target's escalation level together and notify twice.
* `pause_instance` raises for a COMPLETED instance, or one whose policy does not
  allow the reason, and takes the ticket's move to WAITING_USER with it, where
  the runbook says that the policy decides only whether the clock is paused.
* A BREACHED target is completed again each time (`met_at` moves); a target
  completed while paused is judged by the deadline before its extension; every
  edit of a REOPENED ticket restarts its clock; recalculating a PAUSED instance
  leaves its pause open; `breach_count` counts again after every pause of a
  breached clock.
* A ticket change locks the ticket's row before the advisory lock, a
  recalculation after it; PostgreSQL aborts one of the two when they meet.

Changes (`docs/operations/CHANGE-MANAGEMENT-RUNBOOK.md`,
`docs/operations/ADVANCED-CHANGE-GOVERNANCE-RUNBOOK.md`):

* A ruling of the CAB takes no lock and no `expected_version` (the first, line
  97: "All updates, decisions and transitions must send `expected_version`").
  One that was read while the change was pending makes a change APPROVED again
  that has been cancelled, booked or started meanwhile, or approves contents it
  has not seen; a second one of the same agenda item overwrites the "immutable"
  first. `ConsentGiven` and `NoDoubleBooking` hold in spite of it.
* Two bookings without common assets are not serialised, so two changes of one
  service and environment may be booked together, which the second, line 47,
  says is blocked. `NoDoubleBooking` is about assets.
* Saving the draft of a review turns `pir_status` from REQUIRED into DRAFT, and
  CLOSE asks for an approved one only when it is REQUIRED (the second, line
  112); a rollback after a failure makes it REQUIRED again although the review
  may be approved, and immutable.
* The outcome of a standard model can be counted twice, with the review and with
  the end; a change made from a model can be edited like any other.
* A blackout that is declared after the booking is not looked at by START.
* The merge of two configuration items (`services/cmdb_reconciliation.py:1152`)
  moves the links of booked changes to the surviving item without looking at
  their windows; links are otherwise fixed while a change is APPROVED or active, which
  `NoDoubleBooking` relies on.

`OneCopy` is claimed for one replay at a time, because of overlapping replays.
`DeadLettersListed` and `Settles` are claimed without faults: between a commit
and the Redis command after it the code keeps nothing from which a lost job or
a lost list entry could be repaired.

## 5. What is proved

Every safety property that a run checks is a theorem for every value of the
constants. The named assumptions of the modules are all that is assumed of the
constants; one group of theorems has a hypothesis besides, which is in their
statements: `OneReplayAtATime`.

**Job queue** (`JobQueueProofs`), for every set of jobs, workers and operators,
every attempt table and every bound (`AttemptsAssumption`,
`RegisteredAssumption`, `BoundsAssumption`, `NoJobAssumption`):

* `TypeCorrect`: `TypeOK` says more than shapes: what is published has its
  outbox row, what was pushed its key, and whatever a worker holds refers to an
  existing row.
* `RetriesWithinBudget`: the worker decides between retry and dead letter on an
  unlocked copy of the row, which a replay may overtake. `RetryBudget` is not
  inductive: the step to a dead letter must know that the copy had exactly one
  attempt left. `IInv` adds `LoadedInBudget` (a loaded copy has an attempt
  left), `UnknownCountsOnce` (a task that is not registered never counts beyond
  one) and `Located` (what each program location holds).
* `JobHasOneCopy` (`OneCopy`) and `QueueIsLifecycle` (`LifecycleSpec`), as long
  as no two replays of one job overlap. Without that they are false: the route
  checks the status without a lock, and two replays that both pass the check
  leave two copies. A run with one operator satisfies the hypothesis in every
  state, and so does any deployment in which one person at a time replays a job.
  A copy is in one of four places (an unspent outbox row, a slot of the list,
  the scheduled set, a worker's hands); `Single` says that each place has at most
  one and that they exclude each other, `ReplaysWait` that a replay's dead
  letter has none, `LoadedIsCurrent` that a copy of a row which a worker alone
  may change is as stored. The refinement takes one lemma per step that writes
  the database (`DatabaseStep`); all others stutter.
* `DeadLettersInList`: before the first fault every dead letter is listed,
  however many replays overlap.

**Event bus** (`JobEventBusProofs`), for every set of events and workers
(`EventsAssumption`, `BoundsAssumption`): `TypeCorrect`, `EntriesCovered`,
`EffectsCommitted`, `CleanOnce`, `DeliveredKept`. A worker's transaction has its own view
of the deliveries, so the invariant says for each worker what of it can be
trusted: the batch follows the position (`Batch`), a delivery in the session was
inserted by it or had failed, and counts as delivered only if the handler ran
(`Session`), an entry behind the position is dealt with or will be when the
session commits (`Covers`); and for the tables that a row, its effects and its
event agree (`Rows`) and that an insertion has one owner (`Inserts`).

**Scheduler** (`SchedulerLeaseProofs`), for every number of schedulers and every
timing the validator accepts (`TimingAssumption`, `OwnerAssumption`,
`FaultsAssumption`): `TypeCorrect`, `LeaderOwnsLease` and `NoUnnoticedOverlap`.
The invariant is `TypeOK` with `LeaderOwns`: a renewing scheduler's `renew` ticks
bound from below what is left of the lease, which a tick preserves because it
runs both down together, and which keeps the lease from expiring before the
renewal because a lease is at least three refresh intervals long.
`OverlapOnlyAfterLoss` follows and has no run: two punctual leaders would both
own the one lease.

**Workflow engine** (`WorkflowExecutionProofs`), for every set of flows that
validation accepts (`GraphAssumption`, `LimitsAssumption`, `NoneAssumption`):

* `TypeCorrect`, `PendingAwaited`, `SerialKept`, `ChildIsOne`, `CancelsCascade`.
  `IInv` has `Locks` (two passes or cancellations never hold one row),
  `Siblings` and `OneKey` (keys and identities of children), and says of every
  execution how status, node, step and approval agree (`Settles`), of a pass what
  its row has to do with the stored one (`Carries`), and of a request what it
  has read (`Asked`, `Holds`). A cancellation `Tracks` what has become of the rows
  it has read (`Since`): as long as a row's log has not grown, no approval has
  been asked for in it and it has not come to wait for a child, so that what was
  read suffices; one whose log has grown will be marked overtaken. Each step is
  either `Lawful` and ends something (`EndStepKeeps`) or lets a pass begin or go
  on (`EnterStep`).
* `EffectsOnce` (`DoneOnce`): `Works` counts the effects of a node against
  whether it is still ahead. That a node done is never met again needs the graph
  to have no cycle (`NoReturn`, from the assumption that every set of nodes has
  a last one).
* `Reversal` (`CompensationReverses`), for executions that were not taken up
  again after their end and in which no approval was decided twice. The property
  compares positions of events in the log. `Ranked` says that a node has one
  step, the current node the last one, and that effects were committed in the
  order of the steps; `Told` that an execution that neither fails nor has ended
  has undone nothing. A pass that fails fixes the number of its last step and
  undoes downwards from it: `Unwinds` says that the steps it is done with, and no
  others, are undone, each after all effects and the later step before the
  earlier (`UndoUnwinds`). When no step is left, this is the property
  (`UnwoundReverses`).

**Deliveries** (`OutboxProofs`), for every set of channels, items, cycles and
clerks (`OutboxAssumption`, `NoneAssumption`):

* `TypeCorrect`, and `PromiseKept`: each of the five tables implements
  `DeliveryPromise`, step by step. `Known` says that a copy is of a row, `Earned` that
  a row, or a result not yet committed, says done only of an item that has
  arrived.
* `CallsCurrent`: `Tested` says that the present subscription, and whatever a
  cycle has seen of it, has passed a test if it is active, and that a call under
  way holds the lock with a subscription whose status, target and secret are as
  in the table, unless a call of the cycle has failed. That a test writes only
  the mark (`WriteMarked`) keeps the rest as it is.
* `BudgetKept`: `Held` says that what a cycle has not committed is locked by it
  alone and is as it was read, `Charged` that every arrival is paid for by a
  committed attempt, the attempt under way, a retry by hand or a fault.

**Event correlation** (`EventCorrelationProofs`), for every set of events,
sources, policies and processes (`CorrelationAssumption`, `NoneAssumption`,
`TablesAssumption`): `TypeCorrect`, `QuietAfterAnswer`, `TicketsMoveLawfully`,
`EventsCountedOnce`, `IncidentIsOne`. One ingestion holds the key
(`OneKeyHolder`) and one a source (`OneBySource`); `Copies` says that a locked
group is as it was read, and that one read without a lock has a deadline only
if the copy has one. The counts add that stored events and counts agree
(`Counts`), that a ticket has one group (`Owned`) and that enough events have a
ticket (`Reported`). Paths may be stale, but each transition is tested against
the table under the lock.

**SLA clock** (`SlaClockProofs`), for every set of managers and evaluators and
every policy and bound (`ClockAssumption`, `NoneAssumption`, `TimeAssumption`):

* `ClockResumes` (`PausedCanResume`), for any calendars. `IInv` says that
  instances and pauses are sequences of one length in which every PAUSED
  instance has an open pause (`Clocks`), and that a session holds rows it has
  read (`Working`). It says nothing of how old a copy is, and need not: each
  service function is `Fair`: it closes the open pause only while it takes the
  status away from PAUSED, and reaches PAUSED only with a pause of its own. A
  save writes only the columns that have changed against the copy, so the
  status and the pause it depends on are written together or not at all.
* `BusinessTimeIsTrue`: the arithmetic against its reference, for every calendar
  of valid intervals with some working weekday, holidays and exceptions included
  (`Regular`, from `enterprise_sla.py:71`), and for none. `AddBusinessMinutes`
  grants at least the minutes asked for of working time, exactly those from a
  whole minute on (`Grants`); `BusinessMinutesBetween` is never more than the
  working time, and exact between whole minutes (`Measures`). That these
  recursive functions are defined at all is proved from their definitions:
  `Iteration` builds functions by recursion on numbers, `TailRecursion` a search
  that only goes on or ends, `SumsExist` the library's sum over a set. The
  search keeps the working time behind it and the minutes left in balance
  (`OnTrack`, over the interval in `OnwardInDay` and over the night in
  `OnwardToMorrow`). It ends because of all places from which it would not, one
  with the fewest minutes left would come, interval by interval and day by day,
  to the next working day (`WorkingDay`: the exceptions are finitely many) and
  find some there (`NoneAstray`). A sum measures what its terms measure when
  they are disjoint (`SumMeasures`), which intervals of a day are, and days.
  Least counterexamples take the place of induction throughout.
* `TypeCorrect`, `TimeGranted`, `VerdictsStand`, for policies whose calendars are
  regular or that have none (`CalendarAssumption`). The invariant `DInv` says of
  every stored target what the properties need
  (`Recorded`) and of every copy in a session only what stays true while others
  commit (`Copied`): it is `Solid`, its verdicts are on record in the table, and
  as long as nothing is `lost` the stored deadline is no earlier. What a service
  function makes of a copy is `Served`: minutes added to deadlines and to the
  sum alike, then judgement; `WriteRecorded` shows that writing the changed
  columns over whatever is stored by then leaves it `Recorded`. One session at a
  time holds the ticket's lock (`OneHolder`), which is why there is one
  current instance.

**Change control** (`ChangeControlProofs`), for every set of changes, users,
meetings, services, bookings and seats, any number of assets, any plans and
windows (`ChangeAssumption`):

* `TypeCorrect`.
* `NeverDoubleBooked`: a booking's search is right only if nothing commits
  behind it. `BookingInv` says that a booking holds the row of an APPROVED
  change alone, that its keys are those of its assets, that no key is held
  twice, and that once `clear` it has all of them and no active change that
  shares an asset overlaps its window. Another booking that would break this
  needs a common asset's key (`AssetTaken`); every other step leaves the assets,
  windows and active statuses alone (`Quiet`) or writes a row that no booking
  holds.
* `NeverWithoutConsent`: `SeatInv` says that a ruling under way is not the
  requester's; each step that reaches a status of `Consented` then has its
  approval (`Granted`), and an edit is possible only before.
* `NeverDeadlocked`, for circles of any size. `KeyOrder` says that a booking
  holds only keys that are smaller than those it still wants. In a circle some
  member holds the greatest key that any of them holds (`LeastNumber`), but
  waits for a greater one that another member holds.

The proofs changed what the models say, where a property turned out to hold by
accident of the instance: `SerialOrder` was false for a serial execution created
by a SUBFLOW node, `PendingIsAwaited` after a double decision of a flow with two
approvals, a cancellation has to reach a child's child, the identities of
executions must not be reused while a pass has one in hand (`Fresh`), and two
resumptions of one pause take a deadline back (`lost`). Others held only of steps
that were too large: a cancellation may be overtaken between its reads, and a
webhook's subscription may be the one of an earlier call. Modules and properties
are stated accordingly.

Only model-checked:

* `Settles`, `Handles`, `Ends`, `RunsAgain`: liveness under fairness, like
  anything about `ENABLED`, is out of the prover's reach.
* The paths that `TicketLifecycle` finds, a recursive function of its table.

## 6. What the models leave out

* Batch limits (100 outbox rows, 50 due jobs, 50 to 100 events, the batches of
  the cycles): the instances have fewer rows than a batch holds, so starvation
  behind a batch of failing rows is not covered.
* The 7-day expiry of dedup keys and the 60-second expiry of the missing-row
  counter.
* The task's own effects and the handler's partial writes before it raises.
* A client-side timeout of `BRPOP` after the server has popped: it loses the
  job as a crash right after `Pop` does.
* A renewal thread that outlives the two seconds the scheduler waits for it.
* Which jobs are old enough for retention: it may pick any settled ones.
* Workflows: drafts, reviews, publishing and rolling back versions (an
  execution keeps the graph it started with), automatic starts by triggers, the
  limit of 100 nodes per pass, and payloads.
* Deliveries: FAILED, DEAD_LETTER, CANCELLED and BOUNCED are one status
  GIVEN_UP; mock providers, order within a batch, counters and clean-up; inbound
  mail; what a provisioning event does to users and groups (its application is
  its arrival).
* Events: severity, the matching of policies and keys, notifications, SLA and
  assignment of the ticket; the deadline of an escalation is a flag, and time
  may always have passed.
* SLA: the selection of a policy (one always matches and allows the reasons),
  escalation levels and notifications, timeline, versions (the expected version
  only narrows what a request may do), `paused_at` (it is set and cleared with
  PAUSED), the ticket's copies of the deadlines, time zones and their clock
  changes; an evaluation that would change nothing ends when it has looked. The
  reads of targets, open pause and time are one step (`Look`), although a change
  may be committed between them; a ticket change takes its time before it waits
  for the advisory lock, which may be earlier than what a recalculation, the
  only other holder, has written when it gets it.
  Calendars without a working weekday and deadlines over twenty years away,
  which the code refuses with an error, are left out.
* Changes: versions (clients that send them are refused more often), blackouts,
  tasks, reviews, comments and incomplete assessments, all of which only refuse
  a transition; maintenance windows, which only inform; the history. A service
  stands for a service in an environment, and distinct assets have distinct
  locks (the code hashes their ids to 64 bits). The merge of configuration items.
* Tenancy, permissions, metrics, heartbeats and logging.

## 7. Plan

1. Done: the job queue, the event bus and the scheduler; the
   workflow engine; the delivery tables and their abstract specification;
   event correlation; the ticket's table of transitions; the SLA clock; change
   control; and the proofs of section 5.
2. Modules still to write: the versions of a workflow (draft, review, publish,
   roll back) and the SLA's escalation levels, as extensions of the modules
   here; tasks, reviews and blackouts of changes; approval chains of request
   fulfilment and of release and problem records; policy rollouts of the job
   runtime.
3. Proofs still to write: theorems of the modules of item 2.
