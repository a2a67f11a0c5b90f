------------------------------ MODULE JobQueue ------------------------------
(***************************************************************************)
(* The asynchronous job queue of the backend in Redis mode                 *)
(* (services/jobs/__init__.py, workers/jobs_worker.py, routes/jobs.py).    *)
(*                                                                         *)
(* A job is a row of job_runs.  Enqueueing it writes, in one transaction,  *)
(* the row and a row of job_queue_outbox.  Worker processes move outbox    *)
(* rows to a Redis list, pop the list, execute the task and commit the     *)
(* outcome; a failed job waits for its next attempt in a Redis sorted set  *)
(* and a job without attempts left goes to a Redis dead-letter list, from  *)
(* which an operator replays or acknowledges it.                           *)
(*                                                                         *)
(* PostgreSQL and Redis are two stores: no step below changes both.  A     *)
(* transaction is invisible until it commits, so a step that only writes   *)
(* inside one changes the worker's own variables; the row locks it takes   *)
(* are what JobLocked and RowsLocked say.                                  *)
(***************************************************************************)
EXTENDS Integers, Sequences, FiniteSets

CONSTANTS
  Jobs,          \* the ids of job_runs
  Workers,       \* the processes in run_worker_forever
  Operators,     \* the API requests that can be in progress at once
  MaxAttempts,   \* max_attempts of every job
  Registered,    \* the jobs whose task the worker process has registered
  MissingLimit,  \* requeues of an id without a row (5 in the code)
  MaxReplays,    \* bound: replay requests in a behaviour
  MaxPurges,     \* bound: retention runs in a behaviour
  MaxFaults,     \* bound: crashes, Redis errors and rollbacks in a behaviour
  NoJob          \* "no job in hand"

ASSUME AttemptsAssumption == MaxAttempts \in [Jobs -> Nat \ {0}]
ASSUME RegisteredAssumption == Registered \subseteq Jobs
ASSUME BoundsAssumption == /\ MissingLimit \in Nat
                           /\ MaxReplays \in Nat
                           /\ MaxPurges \in Nat
                           /\ MaxFaults \in Nat
ASSUME NoJobAssumption == NoJob \notin Jobs

VARIABLES
  job,        \* committed job_runs row: status and attempts
  log,        \* committed job_lifecycle_events of every job, by sequence
  outbox,     \* committed job_queue_outbox rows, by <<job, operation>>
  published,  \* the outbox rows with published_at set
  dedup,      \* Redis keys jobs:publish-dedup:<row>
  pushed,     \* history: the outbox rows whose LPUSH took effect
  queue,      \* Redis list, next BRPOP first
  scheduled,  \* Redis sorted set <queue>:scheduled
  ripe,       \* the members of scheduled whose score has passed
  dlq,        \* occurrences of every job in the Redis dead-letter list
  missing,    \* Redis counters jobs:missing-retry:<job>
  pc,         \* where each worker is in its loop
  todo,       \* outbox rows the worker read and has still to publish
  claimed,    \* outbox rows the worker's open transaction has updated
  done,       \* rows the open transaction marks as published
  row,        \* the row between SET NX and LPUSH
  due,        \* what ZRANGEBYSCORE returned and ZREM has still to visit
  cur,        \* the job in the worker's hands
  snap,       \* the job row as the worker's session loaded it
  request,    \* what each API request is about to do
  doomed,     \* ids the retention run selected and will delete
  acked,      \* history: dead letters acknowledged with an audit record
  replays,    \* replay requests so far
  purges,     \* retention runs so far
  faults      \* faults so far

dbVars == <<job, log, outbox, published>>
redisVars == <<dedup, pushed, queue, scheduled, ripe, dlq, missing>>
workerVars == <<pc, todo, claimed, done, row, due, cur, snap>>
apiVars == <<request, doomed, acked, replays, purges>>
vars == <<dbVars, redisVars, workerVars, apiVars, faults>>

-----------------------------------------------------------------------------

\* "absent" and "purged" stand for "no row": not created yet, deleted by
\* retention.  "running" and "failed" exist only inside a transaction.
Statuses == {"absent", "queued", "success", "dead_letter", "purged"}

EventTypes == {"queued", "running", "success", "failed", "retry_scheduled",
               "dead_letter", "replayed"}

\* An outbox row is identified by what its dedup_key is made of: the job and
\* the publication operation, 0 for the enqueue and n for the n-th replay.
Rows == Jobs \X Nat

NoRow == <<NoJob, 0>>

JobRow == [status : Statuses, attempts : Nat]

Idle == [op |-> "idle", job |-> NoJob, no |-> 0]

PcValues == {"select", "claim", "publish", "push", "drain", "zrem", "rpush",
             "pop", "load", "start", "exec", "zadd", "dlq"}

\* The worker's execute_job has flushed an UPDATE of the row and not ended
\* its transaction.
Executing(w, j) == pc[w] = "exec" /\ cur[w] = j

JobLocked(j) == \E w \in Workers : Executing(w, j)

RowsLocked(w, rows) == \E v \in Workers \ {w} : claimed[v] \cap rows # {}

Pending == outbox \ published

DatabaseOK ==
  /\ job \in [Jobs -> JobRow]
  /\ log \in [Jobs -> Seq(EventTypes)]
  /\ outbox \subseteq Rows
  /\ published \subseteq outbox

RedisOK ==
  /\ dedup \subseteq outbox
  /\ pushed \subseteq dedup
  /\ queue \in Seq(Jobs)
  /\ scheduled \subseteq Jobs
  /\ ripe \subseteq scheduled
  /\ dlq \in [Jobs -> Nat]
  /\ missing \in [Jobs -> Nat]

WorkersOK ==
  /\ pc \in [Workers -> PcValues]
  /\ todo \in [Workers -> SUBSET outbox]
  /\ claimed \in [Workers -> SUBSET outbox]
  /\ done \in [Workers -> SUBSET outbox]
  /\ row \in [Workers -> outbox \cup {NoRow}]
  /\ due \in [Workers -> SUBSET Jobs]
  /\ cur \in [Workers -> Jobs \cup {NoJob}]
  /\ snap \in [Workers -> JobRow]

RequestsOK ==
  /\ request \in [Operators -> [op : {"idle", "replay", "ack", "audit"},
                                job : Jobs \cup {NoJob}, no : Nat]]
  /\ doomed \subseteq Jobs
  /\ acked \subseteq Jobs
  /\ replays \in 0 .. MaxReplays
  /\ purges \in 0 .. MaxPurges
  /\ faults \in 0 .. MaxFaults

TypeOK == DatabaseOK /\ RedisOK /\ WorkersOK /\ RequestsOK

Unread == [status |-> "absent", attempts |-> 0]

Init ==
  /\ job = [j \in Jobs |-> Unread]
  /\ log = [j \in Jobs |-> <<>>]
  /\ outbox = {} /\ published = {} /\ dedup = {} /\ pushed = {}
  /\ queue = <<>>
  /\ scheduled = {} /\ ripe = {}
  /\ dlq = [j \in Jobs |-> 0]
  /\ missing = [j \in Jobs |-> 0]
  /\ pc = [w \in Workers |-> "select"]
  /\ todo = [w \in Workers |-> {}]
  /\ claimed = [w \in Workers |-> {}]
  /\ done = [w \in Workers |-> {}]
  /\ row = [w \in Workers |-> NoRow]
  /\ due = [w \in Workers |-> {}]
  /\ cur = [w \in Workers |-> NoJob]
  /\ snap = [w \in Workers |-> Unread]
  /\ request = [o \in Operators |-> Idle]
  /\ doomed = {} /\ acked = {}
  /\ replays = 0 /\ purges = 0 /\ faults = 0

Goto(w, label) == pc' = [pc EXCEPT ![w] = label]

\* One more fault happens: a crash, a Redis error or a failed commit.
Fault == faults < MaxFaults /\ faults' = faults + 1

LPush(j) == queue' = Append(queue, j)
RPush(j) == queue' = <<j>> \o queue

-----------------------------------------------------------------------------
(* The API: enqueue, dead-letter replay and acknowledgement.               *)

\* POST /jobs/enqueue: row, "queued" event and outbox row in one commit.
Enqueue(j) ==
  /\ job[j].status = "absent"
  /\ job' = [job EXCEPT ![j] = [status |-> "queued", attempts |-> 0]]
  /\ log' = [log EXCEPT ![j] = <<"queued">>]
  /\ outbox' = outbox \cup {<<j, 0>>}
  /\ UNCHANGED <<published, redisVars, workerVars, apiVars, faults>>

\* POST /jobs/{id}/replay reads the row without a lock and checks its status.
ReplayRequest(o, j) ==
  /\ request[o] = Idle
  /\ job[j].status = "dead_letter"
  /\ replays < MaxReplays
  /\ replays' = replays + 1
  /\ request' = [request EXCEPT ![o] = [op |-> "replay", job |-> j, no |-> replays + 1]]
  /\ UNCHANGED <<dbVars, redisVars, workerVars, doomed, acked, purges, faults>>

\* ... then resets it, appends "replayed" and a new outbox row, and commits.
\* The UPDATE waits for the row lock and does not look at the status again;
\* it finds no row, and the request fails, when retention has deleted it.
ReplayCommit(o) ==
  LET j == request[o].job IN
  /\ request[o].op = "replay"
  /\ ~JobLocked(j)
  /\ request' = [request EXCEPT ![o] = Idle]
  /\ IF job[j].status = "purged"
       THEN UNCHANGED <<job, log, outbox>>
       ELSE /\ job' = [job EXCEPT ![j] = [status |-> "queued", attempts |-> 0]]
            /\ log' = [log EXCEPT ![j] = Append(@, "replayed")]
            /\ outbox' = outbox \cup {<<j, request[o].no>>}
  /\ UNCHANGED <<published, redisVars, workerVars, doomed, acked, replays, purges, faults>>

\* POST /jobs/{id}/dead-letter/acknowledge: the status check,
AckRequest(o, j) ==
  /\ request[o] = Idle
  /\ job[j].status = "dead_letter"
  /\ request' = [request EXCEPT ![o] = [op |-> "ack", job |-> j, no |-> 0]]
  /\ UNCHANGED <<dbVars, redisVars, workerVars, doomed, acked, replays, purges, faults>>

\* the LREM of every occurrence,
AckRemove(o) ==
  /\ request[o].op = "ack"
  /\ dlq' = [dlq EXCEPT ![request[o].job] = 0]
  /\ request' = [request EXCEPT ![o].op = "audit"]
  /\ UNCHANGED <<dbVars, dedup, pushed, queue, scheduled, ripe, missing, workerVars,
                 doomed, acked, replays, purges, faults>>

\* and the commit of the audit record.
AckCommit(o) ==
  /\ request[o].op = "audit"
  /\ acked' = acked \cup {request[o].job}
  /\ request' = [request EXCEPT ![o] = Idle]
  /\ UNCHANGED <<dbVars, redisVars, workerVars, doomed, replays, purges, faults>>

\* A request dies, or its commit or its LREM fails: nothing more of it happens.
RequestFails(o) ==
  /\ request[o] # Idle
  /\ Fault
  /\ request' = [request EXCEPT ![o] = Idle]
  /\ UNCHANGED <<dbVars, redisVars, workerVars, doomed, acked, replays, purges>>

-----------------------------------------------------------------------------
(* Retention (data_governance.py): select the old settled jobs of a        *)
(* category, then delete by id.                                            *)

PurgeSelect ==
  /\ doomed = {}
  /\ purges < MaxPurges
  /\ purges' = purges + 1
  /\ \E category \in {"success", "dead_letter"} :
       \E S \in SUBSET {j \in Jobs : job[j].status = category} \ {{}} : doomed' = S
  /\ UNCHANGED <<dbVars, redisVars, workerVars, request, acked, replays, faults>>

\* The DELETE waits for row locks; lifecycle events go with the job (ON DELETE
\* CASCADE), outbox rows stay.
PurgeDelete ==
  /\ doomed # {}
  /\ \A j \in doomed : ~JobLocked(j)
  /\ job' = [j \in Jobs |-> IF j \in doomed THEN [status |-> "purged", attempts |-> 0]
                                            ELSE job[j]]
  /\ log' = [j \in Jobs |-> IF j \in doomed THEN <<>> ELSE log[j]]
  /\ doomed' = {}
  /\ UNCHANGED <<outbox, published, redisVars, workerVars, request, acked, replays, purges, faults>>

-----------------------------------------------------------------------------
(* _publish_outbox_batch: one transaction over all pending rows.           *)

\* Unpublished rows are read without FOR UPDATE.  The lock columns are set
\* and cleared in the same transaction, so no other worker ever sees them.
SelectOutbox(w) ==
  /\ pc[w] = "select"
  /\ todo' = [todo EXCEPT ![w] = Pending]
  /\ Goto(w, IF Pending = {} THEN "drain" ELSE "claim")
  /\ UNCHANGED <<dbVars, redisVars, claimed, done, row, due, cur, snap, apiVars, faults>>

\* The flush of the lock columns takes the row locks.
ClaimRows(w) ==
  /\ pc[w] = "claim"
  /\ ~RowsLocked(w, todo[w])
  /\ claimed' = [claimed EXCEPT ![w] = todo[w]]
  /\ Goto(w, "publish")
  /\ UNCHANGED <<dbVars, redisVars, todo, done, row, due, cur, snap, apiVars, faults>>

\* Operators marked as a mutation are deliberate errors that the properties
\* must notice when they replace the operator named; no specification uses them.

\* (Mutation of SetDedup: SET without NX.)
SetDedupAlways(w) ==
  /\ pc[w] = "publish"
  /\ \E k \in todo[w] :
       /\ todo' = [todo EXCEPT ![w] = @ \ {k}]
       /\ dedup' = dedup \cup {k}
       /\ row' = [row EXCEPT ![w] = k]
  /\ Goto(w, "push")
  /\ UNCHANGED <<dbVars, pushed, queue, scheduled, ripe, dlq, missing,
                 claimed, done, due, cur, snap, apiVars, faults>>

\* SET NX of the row's key: the first publisher goes on to LPUSH, a later one
\* marks the row published ("dedup_skip_already_published").
SetDedup(w) ==
  /\ pc[w] = "publish"
  /\ \E k \in todo[w] :
       /\ todo' = [todo EXCEPT ![w] = @ \ {k}]
       /\ IF k \in dedup
            THEN done' = [done EXCEPT ![w] = @ \cup {k}] /\ UNCHANGED <<dedup, pc, row>>
            ELSE /\ dedup' = dedup \cup {k}
                 /\ row' = [row EXCEPT ![w] = k]
                 /\ Goto(w, "push")
                 /\ UNCHANGED done
  /\ UNCHANGED <<dbVars, pushed, queue, scheduled, ripe, dlq, missing,
                 claimed, due, cur, snap, apiVars, faults>>

\* The SET raises, with or without having reached Redis; the row keeps
\* published_at = NULL and the loop goes on with the next one.
SetDedupFails(w) ==
  /\ pc[w] = "publish"
  /\ Fault
  /\ \E k \in todo[w] :
       /\ todo' = [todo EXCEPT ![w] = @ \ {k}]
       /\ dedup' \in {dedup, dedup \cup {k}}
  /\ UNCHANGED <<dbVars, pushed, queue, scheduled, ripe, dlq, missing,
                 pc, claimed, done, row, due, cur, snap, apiVars>>

PushRow(w) ==
  /\ pc[w] = "push"
  /\ LPush(row[w][1])
  /\ pushed' = pushed \cup {row[w]}
  /\ done' = [done EXCEPT ![w] = @ \cup {row[w]}]
  /\ row' = [row EXCEPT ![w] = NoRow]
  /\ Goto(w, "publish")
  /\ UNCHANGED <<dbVars, dedup, scheduled, ripe, dlq, missing,
                 todo, claimed, due, cur, snap, apiVars, faults>>

\* (Mutation of PushRowFails: the key is released, as the event relay does.)
PushRowFailsReleasingKey(w) ==
  /\ pc[w] = "push"
  /\ Fault
  /\ \/ UNCHANGED <<queue, pushed>>
     \/ LPush(row[w][1]) /\ pushed' = pushed \cup {row[w]}
  /\ dedup' = dedup \ {row[w]}
  /\ row' = [row EXCEPT ![w] = NoRow]
  /\ Goto(w, "publish")
  /\ UNCHANGED <<dbVars, scheduled, ripe, dlq, missing,
                 todo, claimed, done, due, cur, snap, apiVars>>

\* The LPUSH raises, with or without having reached Redis.  The key set just
\* before stays.
PushRowFails(w) ==
  /\ pc[w] = "push"
  /\ Fault
  /\ \/ UNCHANGED <<queue, pushed>>
     \/ LPush(row[w][1]) /\ pushed' = pushed \cup {row[w]}
  /\ row' = [row EXCEPT ![w] = NoRow]
  /\ Goto(w, "publish")
  /\ UNCHANGED <<dbVars, dedup, scheduled, ripe, dlq, missing,
                 todo, claimed, done, due, cur, snap, apiVars>>

EndPublish(w) ==
  /\ pc[w] = "publish"
  /\ todo[w] = {}
  /\ claimed' = [claimed EXCEPT ![w] = {}]
  /\ done' = [done EXCEPT ![w] = {}]
  /\ Goto(w, "drain")
  /\ UNCHANGED <<job, log, outbox, redisVars, todo, row, due, cur, snap, apiVars>>

CommitPublish(w) ==
  /\ EndPublish(w)
  /\ published' = published \cup done[w]
  /\ UNCHANGED faults

\* The commit fails: the transaction is rolled back, Redis keeps what it got.
RollbackPublish(w) ==
  /\ EndPublish(w)
  /\ Fault
  /\ UNCHANGED published

-----------------------------------------------------------------------------
(* _drain_scheduled_jobs: scheduled jobs whose time has come go back to    *)
(* the head of the queue, each by a ZREM and an RPUSH.                     *)

\* The clock passes the score of a scheduled job.
BecomeDue(j) ==
  /\ j \in scheduled \ ripe
  /\ ripe' = ripe \cup {j}
  /\ UNCHANGED <<dbVars, dedup, pushed, queue, scheduled, dlq, missing,
                 workerVars, apiVars, faults>>

AfterDue(rest) == IF rest = {} THEN "pop" ELSE "zrem"

\* (Mutation of ReadDue: the score range the wrong way round.)
ReadNotDue(w) ==
  LET early == scheduled \ ripe IN
  /\ pc[w] = "drain"
  /\ due' = [due EXCEPT ![w] = early]
  /\ Goto(w, AfterDue(early))
  /\ UNCHANGED <<dbVars, redisVars, todo, claimed, done, row, cur, snap, apiVars, faults>>

ReadDue(w) ==
  /\ pc[w] = "drain"
  /\ due' = [due EXCEPT ![w] = ripe]
  /\ Goto(w, AfterDue(ripe))
  /\ UNCHANGED <<dbVars, redisVars, todo, claimed, done, row, cur, snap, apiVars, faults>>

\* ZREM says whether this worker is the one that removed the member.
RemoveDue(w) ==
  /\ pc[w] = "zrem"
  /\ \E j \in due[w] :
       /\ due' = [due EXCEPT ![w] = @ \ {j}]
       /\ scheduled' = scheduled \ {j}
       /\ ripe' = ripe \ {j}
       /\ IF j \in scheduled
            THEN cur' = [cur EXCEPT ![w] = j] /\ Goto(w, "rpush")
            ELSE UNCHANGED cur /\ Goto(w, AfterDue(due[w] \ {j}))
  /\ UNCHANGED <<dbVars, dedup, pushed, queue, dlq, missing,
                 todo, claimed, done, row, snap, apiVars, faults>>

RequeueDue(w) ==
  /\ pc[w] = "rpush"
  /\ RPush(cur[w])
  /\ cur' = [cur EXCEPT ![w] = NoJob]
  /\ Goto(w, AfterDue(due[w]))
  /\ UNCHANGED <<dbVars, dedup, pushed, scheduled, ripe, dlq, missing,
                 todo, claimed, done, row, due, snap, apiVars, faults>>

-----------------------------------------------------------------------------
(* BRPOP and _run_single_job.                                              *)

Pop(w) ==
  /\ pc[w] = "pop"
  /\ queue # <<>>
  /\ cur' = [cur EXCEPT ![w] = Head(queue)]
  /\ queue' = Tail(queue)
  /\ Goto(w, "load")
  /\ UNCHANGED <<dbVars, dedup, pushed, scheduled, ripe, dlq, missing,
                 todo, claimed, done, row, due, snap, apiVars, faults>>

PopTimeout(w) ==
  /\ pc[w] = "pop"
  /\ queue = <<>>
  /\ Goto(w, "select")
  /\ UNCHANGED <<dbVars, redisVars, todo, claimed, done, row, due, cur, snap, apiVars, faults>>

\* The worker is finished with the job and returns to the top of its loop.
Release(w) ==
  /\ cur' = [cur EXCEPT ![w] = NoJob]
  /\ snap' = [snap EXCEPT ![w] = Unread]
  /\ Goto(w, "select")

\* The row is read without a lock.
LoadQueued(w) ==
  /\ pc[w] = "load"
  /\ job[cur[w]].status = "queued"
  /\ snap' = [snap EXCEPT ![w] = job[cur[w]]]
  /\ Goto(w, "start")
  /\ UNCHANGED <<dbVars, redisVars, todo, claimed, done, row, due, cur, apiVars, faults>>

SkipNonQueued(w) ==
  /\ pc[w] = "load"
  /\ job[cur[w]].status \in {"success", "dead_letter"}
  /\ Release(w)
  /\ UNCHANGED <<dbVars, redisVars, todo, claimed, done, row, due, apiVars, faults>>

\* An id without a row is put back a bounded number of times.
RequeueMissing(w) ==
  LET j == cur[w] IN
  /\ pc[w] = "load"
  /\ job[j].status \in {"absent", "purged"}
  /\ missing' = [missing EXCEPT ![j] = @ + 1]
  /\ IF missing'[j] <= MissingLimit THEN RPush(j) ELSE UNCHANGED queue
  /\ Release(w)
  /\ UNCHANGED <<dbVars, dedup, pushed, scheduled, ripe, dlq,
                 todo, claimed, done, row, due, apiVars, faults>>

\* The first flush of execute_job: UPDATE job_runs ... WHERE id, which waits
\* for the row lock and checks nothing but the id.
StartExecution(w) ==
  /\ pc[w] = "start"
  /\ ~JobLocked(cur[w])
  /\ IF job[cur[w]].status = "purged"
       THEN Release(w)                       \* StaleDataError: rolled back
       ELSE Goto(w, "exec") /\ UNCHANGED <<cur, snap>>
  /\ UNCHANGED <<dbVars, redisVars, todo, claimed, done, row, due, apiVars, faults>>

\* job.attempts in the worker's session once execute_job has started.
Attempt(w) == IF cur[w] \in Registered THEN snap[w].attempts + 1
              ELSE IF snap[w].attempts = 0 THEN 1 ELSE snap[w].attempts

StartEvents(w) == IF cur[w] \in Registered THEN <<"running">> ELSE <<>>

\* The commit of an execution.  The session writes attempts only if it changed
\* it since it loaded the row.
CommitRun(w, status, events) ==
  LET j == cur[w] IN
  /\ job' = [job EXCEPT ![j] =
               [status |-> status,
                attempts |-> IF Attempt(w) = snap[w].attempts THEN @.attempts ELSE Attempt(w)]]
  /\ log' = [log EXCEPT ![j] = @ \o StartEvents(w) \o events]
  /\ UNCHANGED <<outbox, published>>

Succeed(w) ==
  /\ pc[w] = "exec"
  /\ cur[w] \in Registered
  /\ CommitRun(w, "success", <<"success">>)
  /\ Release(w)
  /\ UNCHANGED <<redisVars, todo, claimed, done, row, due, apiVars, faults>>

\* (Mutation of Retry: one attempt too many.)
RetryOnceMore(w) ==
  /\ pc[w] = "exec"
  /\ Attempt(w) <= MaxAttempts[cur[w]]
  /\ CommitRun(w, "queued", <<"failed", "retry_scheduled">>)
  /\ Goto(w, "zadd")
  /\ UNCHANGED <<redisVars, todo, claimed, done, row, due, cur, snap, apiVars, faults>>

\* (Mutation of DeadLetter: the DLQ push is forgotten.)
DeadLetterUnlisted(w) ==
  /\ pc[w] = "exec"
  /\ Attempt(w) >= MaxAttempts[cur[w]]
  /\ CommitRun(w, "dead_letter", <<"failed", "dead_letter">>)
  /\ acked' = acked \ {cur[w]}
  /\ Release(w)
  /\ UNCHANGED <<redisVars, todo, claimed, done, row, due, request, doomed, replays, purges, faults>>

\* The task raised, or is not registered, and attempts are left.
Retry(w) ==
  /\ pc[w] = "exec"
  /\ Attempt(w) < MaxAttempts[cur[w]]
  /\ CommitRun(w, "queued", <<"failed", "retry_scheduled">>)
  /\ Goto(w, "zadd")
  /\ UNCHANGED <<redisVars, todo, claimed, done, row, due, cur, snap, apiVars, faults>>

DeadLetter(w) ==
  /\ pc[w] = "exec"
  /\ Attempt(w) >= MaxAttempts[cur[w]]
  /\ CommitRun(w, "dead_letter", <<"failed", "dead_letter">>)
  /\ acked' = acked \ {cur[w]}
  /\ Goto(w, "dlq")
  /\ UNCHANGED <<redisVars, todo, claimed, done, row, due, cur, snap,
                 request, doomed, replays, purges, faults>>

\* Anything else raises inside the transaction: it is rolled back and the job,
\* which BRPOP has removed from the queue, is dropped.
RollbackRun(w) ==
  /\ pc[w] = "exec"
  /\ Fault
  /\ Release(w)
  /\ UNCHANGED <<dbVars, redisVars, todo, claimed, done, row, due, apiVars>>

\* ZADD gives the member its new score, also if it was there already.
ScheduleRetry(w) ==
  /\ pc[w] = "zadd"
  /\ scheduled' = scheduled \cup {cur[w]}
  /\ ripe' = ripe \ {cur[w]}
  /\ Release(w)
  /\ UNCHANGED <<dbVars, dedup, pushed, queue, dlq, missing,
                 todo, claimed, done, row, due, apiVars, faults>>

PushDeadLetter(w) ==
  /\ pc[w] = "dlq"
  /\ dlq' = [dlq EXCEPT ![cur[w]] = @ + 1]
  /\ Release(w)
  /\ UNCHANGED <<dbVars, dedup, pushed, queue, scheduled, ripe, missing,
                 todo, claimed, done, row, due, apiVars, faults>>

\* Redis raises after the commit: logged, and nothing is undone.
AfterCommitFails(w) ==
  /\ pc[w] \in {"zadd", "dlq"}
  /\ Fault
  /\ Release(w)
  /\ UNCHANGED <<dbVars, redisVars, todo, claimed, done, row, due, apiVars>>

\* The process dies anywhere (a Redis error outside the handlers above ends
\* run_worker_forever too) and is started again: its transaction is rolled
\* back and what it held is gone.
Crash(w) ==
  /\ pc[w] # "select"
  /\ Fault
  /\ todo' = [todo EXCEPT ![w] = {}]
  /\ claimed' = [claimed EXCEPT ![w] = {}]
  /\ done' = [done EXCEPT ![w] = {}]
  /\ row' = [row EXCEPT ![w] = NoRow]
  /\ due' = [due EXCEPT ![w] = {}]
  /\ Release(w)
  /\ UNCHANGED <<dbVars, redisVars, apiVars>>

-----------------------------------------------------------------------------

Publish(w) == SelectOutbox(w) \/ ClaimRows(w) \/ SetDedup(w) \/ PushRow(w) \/ CommitPublish(w)
Drain(w) == ReadDue(w) \/ RemoveDue(w) \/ RequeueDue(w)
Take(w) == Pop(w) \/ PopTimeout(w) \/ LoadQueued(w) \/ SkipNonQueued(w) \/ RequeueMissing(w)
Run(w) == StartExecution(w) \/ Succeed(w) \/ Retry(w) \/ DeadLetter(w)
            \/ ScheduleRetry(w) \/ PushDeadLetter(w)

\* An iteration of run_worker_forever.
WorkerStep(w) == Publish(w) \/ Drain(w) \/ Take(w) \/ Run(w)

WorkerFault(w) == SetDedupFails(w) \/ PushRowFails(w) \/ RollbackPublish(w) \/ RollbackRun(w)
                    \/ AfterCommitFails(w) \/ Crash(w)

Operate(o) == \/ \E j \in Jobs : ReplayRequest(o, j) \/ AckRequest(o, j)
              \/ ReplayCommit(o) \/ AckRemove(o) \/ AckCommit(o) \/ RequestFails(o)

Next ==
  \/ \E j \in Jobs : Enqueue(j) \/ BecomeDue(j)
  \/ \E w \in Workers : WorkerStep(w) \/ WorkerFault(w)
  \/ \E o \in Operators : Operate(o)
  \/ PurgeSelect \/ PurgeDelete

Spec == Init /\ [][Next]_vars

\* Workers keep running, time passes and a request once begun is completed;
\* nobody has to enqueue, replay, acknowledge or purge, and faults need not
\* happen.
Fairness ==
  /\ \A w \in Workers : WF_vars(WorkerStep(w))
  /\ \A j \in Jobs : WF_vars(BecomeDue(j))
  /\ \A o \in Operators : WF_vars(ReplayCommit(o))

FairSpec == Spec /\ Fairness

-----------------------------------------------------------------------------
(* Properties.                                                             *)

\* The copies of a job that can still make a worker run it: outbox rows whose
\* dedup key is not yet taken, queue slots, a scheduled retry, and the worker
\* that carries the job from one of these to the next.
Unspent(j) == {k \in outbox \ dedup : k[1] = j}

Slots(j) == {i \in DOMAIN queue : queue[i] = j}

Carries(w, j) ==
  \/ pc[w] = "push" /\ row[w][1] = j
  \/ pc[w] \in {"rpush", "load", "start", "exec", "zadd"} /\ cur[w] = j

Copies(j) == Cardinality(Unspent(j)) + Cardinality(Slots(j))
               + Cardinality(scheduled \cap {j})
               + Cardinality({w \in Workers : Carries(w, j)})

\* While replays are made one at a time, a queued job has at most one copy and
\* a settled job has none, whatever workers, crashes and Redis errors do: the
\* outbox keys, ZREM and BRPOP hand a job on, they never double it, so no
\* worker runs a job that another worker has settled.
OneCopy ==
  \A j \in Jobs : Copies(j) <= IF job[j].status \in {"queued", "purged"} THEN 1 ELSE 0

\* A job waits for another attempt only while attempts are left and is dead
\* only when exactly max_attempts are used up, for any number of concurrent
\* workers and replays: the retry decision is taken on a stale copy of the row.
RetryBudget ==
  \A j \in Jobs : /\ job[j].status = "queued" => job[j].attempts < MaxAttempts[j]
                  /\ job[j].status = "dead_letter" => job[j].attempts = MaxAttempts[j]

\* Without faults every dead letter that nobody acknowledged is in the Redis
\* list operators triage, once the worker that buried it has finished.
DeadLettersListed ==
  \A j \in Jobs :
    /\ job[j].status = "dead_letter"
    /\ \A w \in Workers : ~(pc[w] = "dlq" /\ cur[w] = j)
    /\ \A o \in Operators : ~(request[o].op = "audit" /\ request[o].job = j)
    => dlq[j] > 0 \/ j \in acked

\* Every queued job is settled in the end: it succeeds, is dead-lettered or is
\* removed by retention.
Settles ==
  \A j \in Jobs : job[j].status = "queued" ~> job[j].status \in {"success", "dead_letter", "purged"}

\* An outbox row that is marked published was pushed to the queue.
PublishedWasPushed == published \subseteq pushed

\* Job rows and lifecycle events change as in JobLifecycle.
Lifecycle == INSTANCE JobLifecycle
               WITH Jobs <- Jobs, MaxAttempts <- MaxAttempts, Registered <- Registered, job <- job, log <- log
LifecycleSpec == Lifecycle!Spec

=============================================================================
