--------------------------- MODULE JobQueueProofs ---------------------------
(***************************************************************************)
(* Proofs about the job queue, for any set of jobs, workers and operators, *)
(* any attempt budgets and any number of replays, retention runs and       *)
(* faults.  IInv is the invariant of the types and of the attempt budget.  *)
(* CInv adds the places of a job's copies and what has been read and is    *)
(* still so; it holds while the replays of one job do not overlap, and     *)
(* from it follow that a job has one copy and that the queue implements    *)
(* JobLifecycle.  The dead-letter list needs IInv alone.                   *)
(***************************************************************************)
EXTENDS JobQueue, SequenceTheorems, FiniteSetTheorems, TLAPS

\* A worker that is past a hand-over holds what it was handed, and so does a
\* request in progress.
Located ==
  /\ \A w \in Workers : pc[w] = "push" => row[w] \in dedup
  /\ \A w \in Workers : pc[w] \in {"rpush", "load", "start", "exec", "zadd", "dlq"}
                          => cur[w] \in Jobs
  /\ \A o \in Operators : request[o].op # "idle" => request[o].job \in Jobs

\* The row a worker loaded was queued, so it had an attempt left, and no other
\* worker can make that copy wrong in the way that matters: what it commits is
\* computed from the copy alone.
LoadedInBudget ==
  \A w \in Workers : pc[w] \in {"start", "exec"} =>
    /\ snap[w].attempts < MaxAttempts[cur[w]]
    /\ cur[w] \notin Registered => snap[w].attempts <= 1

\* A task the workers do not know never counts more than one attempt.
UnknownCountsOnce == \A j \in Jobs \ Registered : job[j].attempts <= 1

IInv == TypeOK /\ Located /\ LoadedInBudget /\ UnknownCountsOnce /\ RetryBudget

LEMMA InitIInv == Init => IInv
<1> SUFFICES ASSUME Init PROVE IInv
    OBVIOUS
<1>1. DatabaseOK
      BY DEF Init, DatabaseOK, JobRow, Statuses, Unread
<1>2. RedisOK
      BY DEF Init, RedisOK
<1>3. WorkersOK
      BY DEF Init, WorkersOK, JobRow, Statuses, Unread, PcValues
<1>4. RequestsOK
      BY BoundsAssumption DEF Init, RequestsOK, Idle
<1>5. Located /\ LoadedInBudget
      BY DEF Init, Located, LoadedInBudget, Idle
<1>6. UnknownCountsOnce /\ RetryBudget
      BY DEF Init, UnknownCountsOnce, RetryBudget, Unread
<1> QED BY <1>1, <1>2, <1>3, <1>4, <1>5, <1>6 DEF IInv, TypeOK

-----------------------------------------------------------------------------
(* Which steps write to the database.                                      *)

DatabaseStep ==
  \/ \E j \in Jobs : Enqueue(j)
  \/ \E o \in Operators : ReplayCommit(o)
  \/ PurgeDelete
  \/ \E w \in Workers : CommitPublish(w) \/ Succeed(w) \/ Retry(w) \/ DeadLetter(w)

LEMMA OthersLeaveDatabase == [Next]_vars => DatabaseStep \/ UNCHANGED dbVars
<1> SUFFICES ASSUME [Next]_vars PROVE DatabaseStep \/ UNCHANGED dbVars
    OBVIOUS
<1>1. ASSUME NEW j \in Jobs, Enqueue(j) \/ BecomeDue(j)
      PROVE  DatabaseStep \/ UNCHANGED dbVars
      BY <1>1 DEF DatabaseStep, BecomeDue
<1>2. ASSUME NEW w \in Workers, WorkerStep(w) \/ WorkerFault(w)
      PROVE  DatabaseStep \/ UNCHANGED dbVars
  <2>1. CASE Publish(w)
        BY <2>1 DEF DatabaseStep, Publish, SelectOutbox, ClaimRows, SetDedup, PushRow
  <2>2. CASE Drain(w)
        BY <2>2 DEF Drain, ReadDue, RemoveDue, RequeueDue
  <2>3. CASE Take(w)
        BY <2>3 DEF Take, Pop, PopTimeout, LoadQueued, SkipNonQueued, RequeueMissing
  <2>4. CASE Run(w)
        BY <2>4 DEF DatabaseStep, Run, StartExecution, ScheduleRetry, PushDeadLetter
  <2>5. CASE WorkerFault(w)
        BY <2>5 DEF WorkerFault, SetDedupFails, PushRowFails, RollbackPublish, EndPublish,
                    RollbackRun, AfterCommitFails, Crash, dbVars
  <2> QED BY <1>2, <2>1, <2>2, <2>3, <2>4, <2>5 DEF WorkerStep
<1>3. ASSUME NEW o \in Operators, Operate(o)
      PROVE  DatabaseStep \/ UNCHANGED dbVars
      BY <1>3 DEF DatabaseStep, Operate, ReplayRequest, AckRequest, AckRemove, AckCommit,
                  RequestFails
<1>4. CASE PurgeSelect
      BY <1>4 DEF PurgeSelect
<1>5. CASE UNCHANGED vars
      BY <1>5 DEF vars
<1> QED BY <1>1, <1>2, <1>3, <1>4, <1>5 DEF Next, DatabaseStep

\* What a run can end in, and what it appends to the lifecycle events.
LEMMA RunOutcomes ==
  /\ {"success", "queued", "dead_letter"} \subseteq Statuses
  /\ <<>> \in Seq(EventTypes)
  /\ <<"running">> \in Seq(EventTypes)
  /\ <<"success">> \in Seq(EventTypes)
  /\ <<"failed", "retry_scheduled">> \in Seq(EventTypes)
  /\ <<"failed", "dead_letter">> \in Seq(EventTypes)
BY DEF Statuses, EventTypes

\* What the commit of a run writes.
LEMMA CommitRunWrites ==
  ASSUME DatabaseOK, WorkersOK, Located, NEW w \in Workers, pc[w] = "exec",
         NEW status \in Statuses, NEW events \in Seq(EventTypes),
         CommitRun(w, status, events)
  PROVE  /\ DatabaseOK'
         /\ UNCHANGED <<outbox, published>>
         /\ \A j \in Jobs \ {cur[w]} : job'[j] = job[j]
         /\ cur[w] \in Jobs
         /\ job'[cur[w]].status = status
         /\ job'[cur[w]].attempts = IF Attempt(w) = snap[w].attempts
                                      THEN job[cur[w]].attempts ELSE Attempt(w)
<1>1. cur[w] \in Jobs
      BY DEF Located
<1>2. snap[w].attempts \in Nat /\ Attempt(w) \in Nat
      BY DEF WorkersOK, JobRow, Attempt
<1>3. job[cur[w]].attempts \in Nat
      BY <1>1 DEF DatabaseOK, JobRow
<1>4. job' \in [Jobs -> JobRow]
      BY <1>1, <1>2, <1>3 DEF CommitRun, DatabaseOK, JobRow
<1>5. log' \in [Jobs -> Seq(EventTypes)]
  <2>1. StartEvents(w) \in Seq(EventTypes)
        BY RunOutcomes DEF StartEvents
  <2>2. log[cur[w]] \in Seq(EventTypes)
        BY <1>1 DEF DatabaseOK
  <2>3. (log[cur[w]] \o StartEvents(w)) \o events \in Seq(EventTypes)
        BY <2>1, <2>2, ConcatProperties
  <2> QED BY <1>1, <2>3 DEF CommitRun, DatabaseOK
<1> QED BY <1>1, <1>4, <1>5 DEF CommitRun, DatabaseOK

LEMMA DatabaseTypes == IInv /\ [Next]_vars => DatabaseOK' /\ outbox \subseteq outbox'
<1> SUFFICES ASSUME IInv, [Next]_vars PROVE DatabaseOK' /\ outbox \subseteq outbox'
    OBVIOUS
<1> USE DEF IInv, TypeOK
<1>1. ASSUME NEW j \in Jobs, Enqueue(j) PROVE DatabaseOK' /\ outbox \subseteq outbox'
      BY <1>1 DEF Enqueue, DatabaseOK, JobRow, Statuses, EventTypes, Rows
<1>2. ASSUME NEW o \in Operators, ReplayCommit(o) PROVE DatabaseOK' /\ outbox \subseteq outbox'
  <2>1. request[o].job \in Jobs /\ request[o].no \in Nat
        BY <1>2 DEF ReplayCommit, Located, RequestsOK
  <2>2. Append(log[request[o].job], "replayed") \in Seq(EventTypes)
        BY <2>1, AppendProperties DEF DatabaseOK, EventTypes
  <2>3. <<request[o].job, request[o].no>> \in Rows
        BY <2>1 DEF Rows
  <2>4. job' \in [Jobs -> JobRow]
    <3>1. [status |-> "queued", attempts |-> 0] \in JobRow
          BY DEF JobRow, Statuses
    <3> QED BY <1>2, <2>1, <3>1 DEF ReplayCommit, DatabaseOK
  <2>5. log' \in [Jobs -> Seq(EventTypes)]
        BY <1>2, <2>2 DEF ReplayCommit, DatabaseOK
  <2> QED BY <1>2, <2>3, <2>4, <2>5 DEF ReplayCommit, DatabaseOK
<1>3. CASE PurgeDelete
      BY <1>3 DEF PurgeDelete, DatabaseOK, JobRow, Statuses
<1>4. ASSUME NEW w \in Workers, CommitPublish(w) PROVE DatabaseOK' /\ outbox \subseteq outbox'
      BY <1>4 DEF CommitPublish, EndPublish, DatabaseOK, WorkersOK
<1>5. ASSUME NEW w \in Workers, Succeed(w) \/ Retry(w) \/ DeadLetter(w)
      PROVE  DatabaseOK' /\ outbox \subseteq outbox'
  <2>1. \E status \in Statuses, events \in Seq(EventTypes) :
          pc[w] = "exec" /\ CommitRun(w, status, events)
    <3>1. CASE Succeed(w)
          BY <3>1, RunOutcomes DEF Succeed
    <3>2. CASE Retry(w)
          BY <3>2, RunOutcomes DEF Retry
    <3>3. CASE DeadLetter(w)
          BY <3>3, RunOutcomes DEF DeadLetter
    <3> QED BY <1>5, <3>1, <3>2, <3>3
  <2> QED BY <2>1, CommitRunWrites
<1>6. CASE UNCHANGED dbVars
      BY <1>6 DEF dbVars, DatabaseOK
<1> QED BY <1>1, <1>2, <1>3, <1>4, <1>5, <1>6, OthersLeaveDatabase DEF DatabaseStep

-----------------------------------------------------------------------------
(* The Redis structures.                                                   *)

LEMMA RedisTypes == IInv /\ [Next]_vars => RedisOK'
<1> SUFFICES ASSUME IInv, [Next]_vars PROVE RedisOK'
    OBVIOUS
<1> USE DEF IInv, TypeOK
<1>0. outbox \subseteq outbox'
      BY DatabaseTypes
<1>1. CASE UNCHANGED redisVars
      BY <1>0, <1>1 DEF redisVars, RedisOK
<1>2. ASSUME NEW w \in Workers, SetDedup(w) \/ SetDedupFails(w) PROVE RedisOK'
  <2>1. UNCHANGED <<pushed, queue, scheduled, ripe, dlq, missing>>
        BY <1>2 DEF SetDedup, SetDedupFails
  <2>2. dedup \subseteq dedup' /\ dedup' \subseteq outbox
        BY <1>2 DEF SetDedup, SetDedupFails, WorkersOK, RedisOK
  <2> QED BY <1>0, <2>1, <2>2 DEF RedisOK
<1>3. ASSUME NEW w \in Workers, PushRow(w) \/ PushRowFails(w) PROVE RedisOK'
  <2>1. UNCHANGED <<dedup, scheduled, ripe, dlq, missing>> /\ row[w] \in dedup
        BY <1>3 DEF PushRow, PushRowFails, Located
  <2>2. row[w] \in Rows /\ row[w][1] \in Jobs
        BY <2>1 DEF RedisOK, DatabaseOK, Rows
  <2>3. queue' \in Seq(Jobs)
    <3>1. Append(queue, row[w][1]) \in Seq(Jobs)
          BY <2>2, AppendProperties DEF RedisOK
    <3> QED BY <1>3, <3>1 DEF PushRow, PushRowFails, LPush, RedisOK
  <2>4. pushed' \subseteq dedup
        BY <1>3, <2>1 DEF PushRow, PushRowFails, RedisOK
  <2> QED BY <1>0, <2>1, <2>3, <2>4 DEF RedisOK
<1>4. ASSUME NEW j \in Jobs, BecomeDue(j) PROVE RedisOK'
      BY <1>0, <1>4 DEF BecomeDue, RedisOK
<1>5. ASSUME NEW w \in Workers, RemoveDue(w) PROVE RedisOK'
      BY <1>0, <1>5 DEF RemoveDue, RedisOK
<1>6. ASSUME NEW w \in Workers, RequeueDue(w) \/ RequeueMissing(w) PROVE RedisOK'
  <2>1. cur[w] \in Jobs /\ UNCHANGED <<dedup, pushed, scheduled, ripe, dlq>>
        BY <1>6 DEF RequeueDue, RequeueMissing, Located
  <2>2. missing' \in [Jobs -> Nat]
        BY <1>6 DEF RequeueDue, RequeueMissing, RedisOK
  <2>3. <<cur[w]>> \o queue \in Seq(Jobs)
        BY <2>1, ConcatProperties DEF RedisOK
  <2>4. queue' \in Seq(Jobs)
        BY <1>6, <2>3 DEF RequeueDue, RequeueMissing, RPush, RedisOK
  <2> QED BY <1>0, <2>1, <2>2, <2>4 DEF RedisOK
<1>7. ASSUME NEW w \in Workers, Pop(w) PROVE RedisOK'
  <2>1. Tail(queue) \in Seq(Jobs)
        BY <1>7, HeadTailProperties DEF Pop, RedisOK
  <2>2. queue' \in Seq(Jobs) /\ UNCHANGED <<dedup, pushed, scheduled, ripe, dlq, missing>>
        BY <1>7, <2>1 DEF Pop
  <2> QED BY <1>0, <2>2 DEF RedisOK
<1>8. ASSUME NEW w \in Workers, ScheduleRetry(w) \/ PushDeadLetter(w) PROVE RedisOK'
  <2>1. cur[w] \in Jobs
        BY <1>8 DEF ScheduleRetry, PushDeadLetter, Located
  <2>2. CASE ScheduleRetry(w)
        BY <1>0, <2>1, <2>2 DEF ScheduleRetry, RedisOK
  <2>3. CASE PushDeadLetter(w)
        BY <1>0, <2>1, <2>3 DEF PushDeadLetter, RedisOK
  <2> QED BY <1>8, <2>2, <2>3
<1>9. ASSUME NEW o \in Operators, AckRemove(o) PROVE RedisOK'
      BY <1>0, <1>9 DEF AckRemove, RedisOK
<1>10. ASSUME NEW w \in Workers, WorkerStep(w) \/ WorkerFault(w) PROVE RedisOK'
  <2>1. CASE Publish(w)
        BY <1>1, <1>2, <1>3, <2>1 DEF Publish, SelectOutbox, ClaimRows, CommitPublish, EndPublish
  <2>2. CASE Drain(w)
        BY <1>1, <1>5, <1>6, <2>2 DEF Drain, ReadDue
  <2>3. CASE Take(w)
        BY <1>1, <1>6, <1>7, <2>3 DEF Take, PopTimeout, LoadQueued, SkipNonQueued
  <2>4. CASE Run(w)
        BY <1>1, <1>8, <2>4 DEF Run, StartExecution, Succeed, Retry, DeadLetter
  <2>5. CASE WorkerFault(w)
        BY <1>1, <1>2, <1>3, <2>5 DEF WorkerFault, RollbackPublish, EndPublish, RollbackRun,
                                       AfterCommitFails, Crash
  <2> QED BY <1>10, <2>1, <2>2, <2>3, <2>4, <2>5 DEF WorkerStep
<1>11. ASSUME NEW o \in Operators, Operate(o) PROVE RedisOK'
      BY <1>1, <1>9, <1>11 DEF Operate, ReplayRequest, ReplayCommit, AckRequest, AckCommit,
                                RequestFails
<1>12. CASE PurgeSelect \/ PurgeDelete \/ UNCHANGED vars
      BY <1>1, <1>12 DEF PurgeSelect, PurgeDelete, vars
<1>13. ASSUME NEW j \in Jobs, Enqueue(j) PROVE RedisOK'
      BY <1>1, <1>13 DEF Enqueue
<1> QED BY <1>4, <1>10, <1>11, <1>12, <1>13 DEF Next

-----------------------------------------------------------------------------
(* The workers and the requests.                                           *)

LEMMA WorkerTypes == IInv /\ [Next]_vars => WorkersOK'
<1> SUFFICES ASSUME IInv, [Next]_vars PROVE WorkersOK'
    OBVIOUS
<1> USE DEF IInv, TypeOK
<1>0. outbox \subseteq outbox'
      BY DatabaseTypes
<1>a. /\ todo \in [Workers -> SUBSET outbox']   \* what a worker holds stays a row
      /\ claimed \in [Workers -> SUBSET outbox']
      /\ done \in [Workers -> SUBSET outbox']
      /\ row \in [Workers -> outbox' \cup {NoRow}]
      BY <1>0 DEF WorkersOK
<1>1. CASE UNCHANGED workerVars
      BY <1>a, <1>1 DEF workerVars, WorkersOK
<1>2. ASSUME NEW w \in Workers, Publish(w) PROVE WorkersOK'
  <2>1. UNCHANGED <<due, cur, snap>>
        BY <1>2 DEF Publish, SelectOutbox, ClaimRows, SetDedup, PushRow, CommitPublish, EndPublish
  <2>2. pc' \in [Workers -> PcValues]
        BY <1>2 DEF Publish, SelectOutbox, ClaimRows, SetDedup, PushRow, CommitPublish, EndPublish,
                    Goto, PcValues, WorkersOK
  <2>3. CASE SelectOutbox(w) \/ ClaimRows(w)
        BY <1>0, <1>a, <2>1, <2>2, <2>3 DEF SelectOutbox, ClaimRows, Pending, WorkersOK
  <2>4. CASE SetDedup(w)
    <3>1. PICK k \in todo[w] : SetDedup(w)!2!(k)
          BY <2>4 DEF SetDedup
    <3>2. k \in outbox'
          BY <1>a, <3>1
    <3>3. todo' \in [Workers -> SUBSET outbox'] /\ UNCHANGED claimed
          BY <1>a, <2>4, <3>1 DEF SetDedup
    <3>4. done' \in [Workers -> SUBSET outbox']
          BY <1>a, <3>1, <3>2
    <3>5. row' \in [Workers -> outbox' \cup {NoRow}]
          BY <1>a, <3>1, <3>2
    <3> QED BY <1>a, <2>1, <2>2, <3>3, <3>4, <3>5 DEF WorkersOK
  <2>5. CASE PushRow(w)
    <3>1. row[w] \in outbox'
          BY <1>0, <2>5 DEF PushRow, Located, RedisOK
    <3> QED BY <1>a, <2>1, <2>2, <2>5, <3>1 DEF PushRow, WorkersOK
  <2>6. CASE CommitPublish(w)
        BY <1>a, <2>1, <2>2, <2>6 DEF CommitPublish, EndPublish, WorkersOK
  <2> QED BY <1>2, <2>3, <2>4, <2>5, <2>6 DEF Publish
<1>3. ASSUME NEW w \in Workers, Drain(w) PROVE WorkersOK'
  <2>1. UNCHANGED <<todo, claimed, done, row, snap>>
        BY <1>3 DEF Drain, ReadDue, RemoveDue, RequeueDue
  <2>2. pc' \in [Workers -> PcValues]
        BY <1>3 DEF Drain, ReadDue, RemoveDue, RequeueDue, AfterDue, Goto, PcValues, WorkersOK
  <2>3. due' \in [Workers -> SUBSET Jobs]
    <3>1. ripe \subseteq Jobs
          BY DEF RedisOK
    <3>2. CASE ReadDue(w)
          BY <3>1, <3>2 DEF ReadDue, WorkersOK
    <3>3. CASE RemoveDue(w)
          BY <3>3 DEF RemoveDue, WorkersOK
    <3>4. CASE RequeueDue(w)
          BY <3>4 DEF RequeueDue, WorkersOK
    <3> QED BY <1>3, <3>2, <3>3, <3>4 DEF Drain
  <2>4. cur' \in [Workers -> Jobs \cup {NoJob}]
        BY <1>3 DEF Drain, ReadDue, RemoveDue, RequeueDue, WorkersOK, RedisOK
  <2> QED BY <1>a, <2>1, <2>2, <2>3, <2>4 DEF WorkersOK
<1>4. ASSUME NEW w \in Workers, Take(w) \/ Run(w) PROVE WorkersOK'
  <2>1. UNCHANGED <<todo, claimed, done, row, due>>
        BY <1>4 DEF Take, Pop, PopTimeout, LoadQueued, SkipNonQueued, RequeueMissing,
                    Run, StartExecution, Succeed, Retry, DeadLetter, ScheduleRetry, PushDeadLetter
  <2>2. pc' \in [Workers -> PcValues]
        BY <1>4 DEF Take, Pop, PopTimeout, LoadQueued, SkipNonQueued, RequeueMissing,
                    Run, StartExecution, Succeed, Retry, DeadLetter, ScheduleRetry, PushDeadLetter,
                    Release, Goto, PcValues, WorkersOK
  <2>3. cur' \in [Workers -> Jobs \cup {NoJob}]
    <3>1. CASE Pop(w)
      <4>1. Head(queue) \in Jobs
            BY <3>1, HeadTailProperties DEF Pop, RedisOK
      <4> QED BY <3>1, <4>1 DEF Pop, WorkersOK
    <3>2. CASE ~Pop(w)
          BY <1>4, <3>2 DEF Take, PopTimeout, LoadQueued, SkipNonQueued, RequeueMissing,
                    Run, StartExecution, Succeed, Retry, DeadLetter, ScheduleRetry, PushDeadLetter,
                    Release, WorkersOK
    <3> QED BY <3>1, <3>2
  <2>4. snap' \in [Workers -> JobRow]
    <3>1. CASE LoadQueued(w)
      <4>1. job[cur[w]] \in JobRow
            BY <3>1 DEF LoadQueued, Located, DatabaseOK
      <4> QED BY <3>1, <4>1 DEF LoadQueued, WorkersOK
    <3>2. CASE ~LoadQueued(w)
      <4>1. Unread \in JobRow
            BY DEF Unread, JobRow, Statuses
      <4> QED BY <1>4, <3>2, <4>1
                 DEF Take, Pop, PopTimeout, SkipNonQueued, RequeueMissing,
                     Run, StartExecution, Succeed, Retry, DeadLetter, ScheduleRetry, PushDeadLetter,
                     Release, WorkersOK
    <3> QED BY <3>1, <3>2
  <2> QED BY <1>a, <2>1, <2>2, <2>3, <2>4 DEF WorkersOK
<1>5. ASSUME NEW w \in Workers, WorkerFault(w) PROVE WorkersOK'
  <2> USE DEF WorkerFault, SetDedupFails, PushRowFails, RollbackPublish, EndPublish, RollbackRun,
              AfterCommitFails, Crash, Release
  <2>1. pc' \in [Workers -> PcValues]
        BY <1>5 DEF Goto, PcValues, WorkersOK
  <2>2. /\ todo' \in [Workers -> SUBSET outbox']
        /\ claimed' \in [Workers -> SUBSET outbox']
        /\ done' \in [Workers -> SUBSET outbox']
        BY <1>a, <1>5
  <2>3. row' \in [Workers -> outbox' \cup {NoRow}]
        BY <1>a, <1>5
  <2>4. due' \in [Workers -> SUBSET Jobs] /\ cur' \in [Workers -> Jobs \cup {NoJob}]
        BY <1>5 DEF WorkersOK
  <2>5. snap' \in [Workers -> JobRow]
    <3>1. Unread \in JobRow
          BY DEF Unread, JobRow, Statuses
    <3> QED BY <1>5, <3>1 DEF WorkersOK
  <2> QED BY <2>1, <2>2, <2>3, <2>4, <2>5 DEF WorkersOK
<1>6. ASSUME NEW o \in Operators, Operate(o) PROVE WorkersOK'
      BY <1>1, <1>6 DEF Operate, ReplayRequest, ReplayCommit, AckRequest, AckRemove, AckCommit,
                        RequestFails
<1>7. CASE PurgeSelect \/ PurgeDelete \/ UNCHANGED vars
      BY <1>1, <1>7 DEF PurgeSelect, PurgeDelete, vars
<1>8. ASSUME NEW j \in Jobs, Enqueue(j) \/ BecomeDue(j) PROVE WorkersOK'
      BY <1>1, <1>8 DEF Enqueue, BecomeDue
<1> QED BY <1>2, <1>3, <1>4, <1>5, <1>6, <1>7, <1>8 DEF Next, WorkerStep

LEMMA RequestTypes == IInv /\ [Next]_vars => RequestsOK'
<1> SUFFICES ASSUME IInv, [Next]_vars PROVE RequestsOK'
    OBVIOUS
<1> USE BoundsAssumption DEF IInv, TypeOK
<1>1. CASE UNCHANGED <<apiVars, faults>>
      BY <1>1 DEF apiVars, RequestsOK
<1>2. ASSUME NEW o \in Operators, Operate(o) PROVE RequestsOK'
  <2>1. ASSUME NEW j \in Jobs, ReplayRequest(o, j) \/ AckRequest(o, j) PROVE RequestsOK'
        BY <2>1 DEF ReplayRequest, AckRequest, RequestsOK
  <2>2. CASE ReplayCommit(o)
        BY <2>2 DEF ReplayCommit, RequestsOK, Idle
  <2>3. CASE AckRemove(o)
        BY <2>3 DEF AckRemove, RequestsOK
  <2>4. CASE AckCommit(o)
        BY <2>4 DEF AckCommit, RequestsOK, Idle, Located
  <2>5. CASE RequestFails(o)
        BY <2>5 DEF RequestFails, RequestsOK, Idle, Fault
  <2> QED BY <1>2, <2>1, <2>2, <2>3, <2>4, <2>5 DEF Operate
<1>3. CASE PurgeSelect
      BY <1>3 DEF PurgeSelect, RequestsOK
<1>4. CASE PurgeDelete
      BY <1>4 DEF PurgeDelete, RequestsOK
<1>5. ASSUME NEW w \in Workers, DeadLetter(w) PROVE RequestsOK'
      BY <1>5 DEF DeadLetter, RequestsOK
<1>6. ASSUME NEW w \in Workers, WorkerStep(w) PROVE RequestsOK'
      BY <1>1, <1>5, <1>6
         DEF WorkerStep, Publish, SelectOutbox, ClaimRows, SetDedup, PushRow, CommitPublish,
             EndPublish, Drain, ReadDue, RemoveDue, RequeueDue, Take, Pop, PopTimeout, LoadQueued,
             SkipNonQueued, RequeueMissing, Run, StartExecution, Succeed, Retry, ScheduleRetry,
             PushDeadLetter
<1>7. ASSUME NEW w \in Workers, WorkerFault(w) PROVE RequestsOK'
  <2>1. UNCHANGED apiVars /\ Fault
        BY <1>7 DEF WorkerFault, SetDedupFails, PushRowFails, RollbackPublish, EndPublish,
                    RollbackRun, AfterCommitFails, Crash
  <2> QED BY <2>1 DEF Fault, apiVars, RequestsOK
<1>8. ASSUME NEW j \in Jobs, Enqueue(j) \/ BecomeDue(j) PROVE RequestsOK'
      BY <1>1, <1>8 DEF Enqueue, BecomeDue
<1>9. CASE UNCHANGED vars
      BY <1>1, <1>9 DEF vars
<1> QED BY <1>2, <1>3, <1>4, <1>6, <1>7, <1>8, <1>9 DEF Next

LEMMA LocatedPreserved == IInv /\ [Next]_vars => Located'
<1> SUFFICES ASSUME IInv, [Next]_vars PROVE Located'
    OBVIOUS
<1> USE DEF IInv, TypeOK
<1>1. CASE UNCHANGED <<pc, row, dedup, cur, request>>
      BY <1>1 DEF Located
<1>2. ASSUME NEW w \in Workers, Publish(w) PROVE Located'
  <2>1. UNCHANGED <<cur, request>> /\ dedup \subseteq dedup'
        BY <1>2 DEF Publish, SelectOutbox, ClaimRows, SetDedup, PushRow, CommitPublish, EndPublish,
                    apiVars, redisVars
  <2>2. \A v \in Workers \ {w} : pc'[v] = pc[v] /\ row'[v] = row[v]
        BY <1>2 DEF Publish, SelectOutbox, ClaimRows, SetDedup, PushRow, CommitPublish, EndPublish,
                    Goto, WorkersOK
  <2>3. pc'[w] \in {"claim", "publish", "push", "drain"}
        BY <1>2 DEF Publish, SelectOutbox, ClaimRows, SetDedup, PushRow, CommitPublish, EndPublish,
                    Goto, WorkersOK
  <2>4. pc'[w] = "push" => row'[w] \in dedup'
        BY <1>2 DEF Publish, SelectOutbox, ClaimRows, SetDedup, PushRow, CommitPublish, EndPublish,
                    Goto, WorkersOK
  <2> QED BY <2>1, <2>2, <2>3, <2>4 DEF Located
<1>3. ASSUME NEW w \in Workers, Drain(w) \/ Take(w) \/ Run(w) PROVE Located'
  <2>1. UNCHANGED <<row, dedup, request>>
        BY <1>3 DEF Drain, ReadDue, RemoveDue, RequeueDue, Take, Pop, PopTimeout, LoadQueued,
                    SkipNonQueued, RequeueMissing, Run, StartExecution, Succeed, Retry, DeadLetter,
                    ScheduleRetry, PushDeadLetter, redisVars, apiVars
  <2>2. pc'[w] # "push" /\ \A v \in Workers \ {w} : pc'[v] = pc[v] /\ cur'[v] = cur[v]
        BY <1>3 DEF Drain, ReadDue, RemoveDue, RequeueDue, AfterDue, Take, Pop, PopTimeout,
                    LoadQueued, SkipNonQueued, RequeueMissing, Run, StartExecution, Succeed, Retry,
                    DeadLetter, ScheduleRetry, PushDeadLetter, Release, Goto, WorkersOK
  <2>3. pc'[w] \in {"rpush", "load", "start", "exec", "zadd", "dlq"} => cur'[w] \in Jobs
    <3>1. CASE Drain(w)
          BY <3>1 DEF Drain, ReadDue, RemoveDue, RequeueDue, AfterDue, Goto, WorkersOK, RedisOK
    <3>2. CASE Pop(w)
      <4>1. Head(queue) \in Jobs
            BY <3>2, HeadTailProperties DEF Pop, RedisOK
      <4> QED BY <3>2, <4>1 DEF Pop, WorkersOK
    <3>3. CASE PopTimeout(w) \/ LoadQueued(w) \/ SkipNonQueued(w) \/ RequeueMissing(w)
          BY <3>3 DEF PopTimeout, LoadQueued, SkipNonQueued, RequeueMissing, Release, Goto,
                      Located, WorkersOK
    <3>4. CASE Run(w)
          BY <3>4 DEF Run, StartExecution, Succeed, Retry, DeadLetter, ScheduleRetry,
                      PushDeadLetter, Release, Goto, Located, WorkersOK
    <3> QED BY <1>3, <3>1, <3>2, <3>3, <3>4 DEF Take
  <2> QED BY <2>1, <2>2, <2>3 DEF Located
<1>4. ASSUME NEW w \in Workers, WorkerFault(w) PROVE Located'
  <2> USE DEF WorkerFault, SetDedupFails, PushRowFails, RollbackPublish, EndPublish, RollbackRun,
              AfterCommitFails, Crash, Release
  <2>1. UNCHANGED request /\ dedup \subseteq dedup'
        BY <1>4 DEF apiVars, redisVars
  <2>2. pc'[w] \in {"select", "publish", "drain"}
        BY <1>4 DEF Goto, WorkersOK
  <2>3. \A v \in Workers \ {w} : pc'[v] = pc[v] /\ row'[v] = row[v] /\ cur'[v] = cur[v]
        BY <1>4 DEF Goto, WorkersOK
  <2> QED BY <2>1, <2>2, <2>3 DEF Located
<1>5. ASSUME NEW o \in Operators, Operate(o) PROVE Located'
  <2>1. UNCHANGED <<pc, row, dedup, cur>>
        BY <1>5 DEF Operate, ReplayRequest, ReplayCommit, AckRequest, AckRemove, AckCommit,
                    RequestFails, workerVars, redisVars
  <2>2. \A p \in Operators : request'[p].op # "idle" => request'[p].job \in Jobs
        BY <1>5 DEF Operate, ReplayRequest, ReplayCommit, AckRequest, AckRemove, AckCommit,
                    RequestFails, Idle, Located, RequestsOK
  <2> QED BY <2>1, <2>2 DEF Located
<1>6. CASE PurgeSelect \/ PurgeDelete \/ UNCHANGED vars
      BY <1>1, <1>6 DEF PurgeSelect, PurgeDelete, vars, workerVars, redisVars, apiVars
<1>7. ASSUME NEW j \in Jobs, Enqueue(j) \/ BecomeDue(j) PROVE Located'
      BY <1>1, <1>7 DEF Enqueue, BecomeDue, workerVars, redisVars, apiVars
<1> QED BY <1>2, <1>3, <1>4, <1>5, <1>6, <1>7 DEF Next, WorkerStep

-----------------------------------------------------------------------------
(* The attempt budget.                                                     *)

\* A worker that is about to execute a job, or does so, loaded it in this or
\* an earlier step; what it loaded was within the budget.
LEMMA LoadedPreserved == IInv /\ [Next]_vars => LoadedInBudget'
<1> SUFFICES ASSUME IInv, [Next]_vars, NEW v \in Workers, pc'[v] \in {"start", "exec"}
             PROVE  /\ snap'[v].attempts < MaxAttempts[cur'[v]]
                    /\ cur'[v] \notin Registered => snap'[v].attempts <= 1
    BY DEF LoadedInBudget
<1> USE DEF IInv, TypeOK
<1>1. CASE LoadQueued(v)
  <2>1. cur[v] \in Jobs /\ job[cur[v]].status = "queued"
        BY <1>1 DEF LoadQueued, Located
  <2>2. snap'[v] = job[cur[v]] /\ cur' = cur
        BY <1>1 DEF LoadQueued, WorkersOK
  <2> QED BY <2>1, <2>2 DEF RetryBudget, UnknownCountsOnce
<1>2. CASE pc[v] \in {"start", "exec"} /\ snap'[v] = snap[v] /\ cur'[v] = cur[v]
      BY <1>2 DEF LoadedInBudget
<1>3. ASSUME NEW w \in Workers, WorkerStep(w)
      PROVE  \/ LoadQueued(v)
             \/ pc[v] \in {"start", "exec"} /\ snap'[v] = snap[v] /\ cur'[v] = cur[v]
  <2>1. CASE Publish(w)
        BY <2>1 DEF Publish, SelectOutbox, ClaimRows, SetDedup, PushRow, CommitPublish,
                    EndPublish, Goto, WorkersOK
  <2>2. CASE Drain(w)
        BY <2>2 DEF Drain, ReadDue, RemoveDue, RequeueDue, AfterDue, Goto, WorkersOK
  <2>3. CASE Take(w)
        BY <2>3 DEF Take, Pop, PopTimeout, LoadQueued, SkipNonQueued, RequeueMissing, Release,
                    Goto, WorkersOK
  <2>4. CASE Run(w)
        BY <2>4 DEF Run, StartExecution, Succeed, Retry, DeadLetter, ScheduleRetry,
                    PushDeadLetter, Release, Goto, WorkersOK
  <2> QED BY <1>3, <2>1, <2>2, <2>3, <2>4 DEF WorkerStep
<1>4. ASSUME NEW w \in Workers, WorkerFault(w)
      PROVE  pc[v] \in {"start", "exec"} /\ snap'[v] = snap[v] /\ cur'[v] = cur[v]
      BY <1>4 DEF WorkerFault, SetDedupFails, PushRowFails, RollbackPublish, EndPublish,
                  RollbackRun, AfterCommitFails, Crash, Release, Goto, WorkersOK
<1>5. CASE UNCHANGED workerVars
      BY <1>2, <1>5 DEF workerVars
<1>6. ASSUME NEW o \in Operators, Operate(o) PROVE UNCHANGED workerVars
      BY <1>6 DEF Operate, ReplayRequest, ReplayCommit, AckRequest, AckRemove, AckCommit,
                  RequestFails
<1>7. CASE PurgeSelect \/ PurgeDelete \/ UNCHANGED vars
      BY <1>5, <1>7 DEF PurgeSelect, PurgeDelete, vars
<1>8. ASSUME NEW j \in Jobs, Enqueue(j) \/ BecomeDue(j) PROVE UNCHANGED workerVars
      BY <1>8 DEF Enqueue, BecomeDue
<1> QED BY <1>1, <1>2, <1>3, <1>4, <1>5, <1>6, <1>7, <1>8 DEF Next

\* The outcome of a run decides on the attempts it writes, although the row may
\* have changed since the worker loaded it.
LEMMA BudgetPreserved == IInv /\ [Next]_vars => UnknownCountsOnce' /\ RetryBudget'
<1> SUFFICES ASSUME IInv, [Next]_vars PROVE UnknownCountsOnce' /\ RetryBudget'
    OBVIOUS
<1> USE AttemptsAssumption DEF IInv, TypeOK
<1>1. CASE UNCHANGED job
      BY <1>1 DEF UnknownCountsOnce, RetryBudget
<1>2. ASSUME NEW j \in Jobs, Enqueue(j) PROVE UnknownCountsOnce' /\ RetryBudget'
      BY <1>2 DEF Enqueue, UnknownCountsOnce, RetryBudget, DatabaseOK
<1>3. ASSUME NEW o \in Operators, ReplayCommit(o) PROVE UnknownCountsOnce' /\ RetryBudget'
  <2>1. CASE job' = [job EXCEPT ![request[o].job] = [status |-> "queued", attempts |-> 0]]
        BY <2>1 DEF UnknownCountsOnce, RetryBudget, DatabaseOK
  <2> QED BY <1>1, <1>3, <2>1 DEF ReplayCommit
<1>4. CASE PurgeDelete
      BY <1>4 DEF PurgeDelete, UnknownCountsOnce, RetryBudget
<1>5. ASSUME NEW w \in Workers, Succeed(w) \/ Retry(w) \/ DeadLetter(w)
      PROVE  UnknownCountsOnce' /\ RetryBudget'
  <2> DEFINE j == cur[w]
             n == job'[j].attempts
  <2>1. /\ pc[w] = "exec" /\ j \in Jobs /\ MaxAttempts[j] \in Nat \ {0}
        /\ snap[w].attempts \in Nat /\ snap[w].attempts < MaxAttempts[j]
        /\ j \notin Registered => snap[w].attempts <= 1 /\ job[j].attempts <= 1
        /\ job[j].attempts \in Nat
        BY <1>5 DEF Succeed, Retry, DeadLetter, Located, LoadedInBudget, UnknownCountsOnce,
                    WorkersOK, DatabaseOK, JobRow
  <2>2. /\ j \in Registered => Attempt(w) = snap[w].attempts + 1
        /\ j \notin Registered => Attempt(w) = 1
        BY <2>1 DEF Attempt
  <2>3. ASSUME NEW status \in Statuses, NEW events \in Seq(EventTypes),
               CommitRun(w, status, events)
        PROVE  /\ \A i \in Jobs \ {j} : job'[i] = job[i]
               /\ job'[j].status = status
               /\ j \in Registered => n = Attempt(w)
               /\ j \notin Registered => n <= 1
               /\ Attempt(w) # snap[w].attempts => n = Attempt(w)
    <3>1. /\ \A i \in Jobs \ {j} : job'[i] = job[i]
          /\ job'[j].status = status
          /\ n = IF Attempt(w) = snap[w].attempts THEN job[j].attempts ELSE Attempt(w)
          BY <2>1, <2>3, CommitRunWrites
    <3> QED BY <2>1, <2>2, <3>1
  <2>4. CASE Succeed(w)   \* only a registered task succeeds
        BY <2>1, <2>3, <2>4, RunOutcomes DEF Succeed, UnknownCountsOnce, RetryBudget
  <2>5. CASE Retry(w)
    <3>1. Attempt(w) < MaxAttempts[j] /\ CommitRun(w, "queued", <<"failed", "retry_scheduled">>)
          BY <2>5 DEF Retry
    <3>2. n < MaxAttempts[j]
      <4>1. /\ Attempt(w) # snap[w].attempts => n = Attempt(w)
            /\ j \in Registered => n = Attempt(w)
            /\ j \notin Registered => n <= 1
            BY <2>3, <3>1, RunOutcomes
      <4>2. n \in Nat
            BY <2>1, DatabaseTypes DEF DatabaseOK, JobRow
      <4> QED BY <2>1, <2>2, <3>1, <4>1, <4>2
    <3> QED BY <2>1, <2>3, <3>1, <3>2, RunOutcomes DEF UnknownCountsOnce, RetryBudget
  <2>6. CASE DeadLetter(w)
    <3>1. /\ Attempt(w) >= MaxAttempts[j]
          /\ CommitRun(w, "dead_letter", <<"failed", "dead_letter">>)
          BY <2>6 DEF DeadLetter
    <3>2. Attempt(w) = MaxAttempts[j] /\ Attempt(w) # snap[w].attempts
          BY <2>1, <2>2, <3>1
    <3>3. n = MaxAttempts[j]
          BY <2>3, <3>1, <3>2, RunOutcomes
    <3> QED BY <2>1, <2>3, <3>1, <3>3, RunOutcomes DEF UnknownCountsOnce, RetryBudget
  <2> QED BY <1>5, <2>4, <2>5, <2>6
<1>6. ASSUME NEW w \in Workers, CommitPublish(w) PROVE UnknownCountsOnce' /\ RetryBudget'
      BY <1>1, <1>6 DEF CommitPublish, EndPublish
<1>7. CASE UNCHANGED dbVars
      BY <1>1, <1>7 DEF dbVars
<1> QED BY <1>2, <1>3, <1>4, <1>5, <1>6, <1>7, OthersLeaveDatabase DEF DatabaseStep

-----------------------------------------------------------------------------

LEMMA Inductive == Spec => []IInv
<1>1. IInv /\ [Next]_vars => IInv'
      BY DatabaseTypes, RedisTypes, WorkerTypes, RequestTypes, LocatedPreserved,
         LoadedPreserved, BudgetPreserved DEF IInv, TypeOK
<1> QED BY InitIInv, <1>1, PTL DEF Spec

\* Every variable keeps its type: rows, keys and sets refer to rows and jobs
\* that exist, what is published or pushed had its outbox row and its key.
THEOREM TypeCorrect == Spec => []TypeOK
<1>1. IInv => TypeOK
      BY DEF IInv
<1> QED BY Inductive, <1>1, PTL

\* However many workers run a job and operators replay it at once, from copies
\* of the row of any age: it waits for a retry only with attempts left and is
\* dead only with max_attempts used up.
THEOREM RetriesWithinBudget == Spec => []RetryBudget
<1>1. IInv => RetryBudget
      BY DEF IInv
<1> QED BY Inductive, <1>1, PTL

-----------------------------------------------------------------------------
(* One copy of a job.                                                      *)
(*                                                                         *)
(* A copy of a job is in one of four places: an outbox row whose key is    *)
(* free, a slot of the queue, the scheduled set, or a worker's hands.      *)
(* OneCopy counts them; the proof speaks of the places, and the count is   *)
(* taken once, at its end.                                                 *)

\* The hypothesis of what follows: two replays of one job never overlap.  The
\* route reads the status without a lock, so nothing in the code excludes it.
OneReplayAtATime ==
  \A o, p \in Operators :
    /\ request[o].op = "replay" /\ request[p].op = "replay"
    /\ request[o].job = request[p].job
    => o = p

Queued(j) == \E i \in DOMAIN queue : queue[i] = j

Carried(j) == \E w \in Workers : Carries(w, j)

\* Each place holds the job at most once,
OneRow(j) == \A k, l \in Unspent(j) : k = l
OneSlot(j) == \A a, b \in Slots(j) : a = b
OneCarrier(j) == \A v, w \in Workers : Carries(v, j) /\ Carries(w, j) => v = w

\* and at most one of them holds it.
Alone(j) ==
  /\ OneRow(j) /\ OneSlot(j) /\ OneCarrier(j)
  /\ Unspent(j) # {} => ~Queued(j) /\ j \notin scheduled /\ ~Carried(j)
  /\ Queued(j) => j \notin scheduled /\ ~Carried(j)
  /\ j \in scheduled => ~Carried(j)

Nowhere(j) == Unspent(j) = {} /\ ~Queued(j) /\ j \notin scheduled /\ ~Carried(j)

Live == {"queued", "purged"}

Single == \A j \in Jobs : /\ Alone(j)
                          /\ job[j].status \notin Live => Nowhere(j)

\* A replay that has read "dead_letter" finds the row as it was, or deleted.
ReplaysWait ==
  \A o \in Operators : request[o].op = "replay" =>
    job[request[o].job].status \in {"dead_letter", "purged"}

\* So does a worker that is to execute a job, and one that executes it has the
\* row itself.
LoadedIsCurrent ==
  \A w \in Workers : pc[w] \in {"start", "exec"} =>
    /\ snap[w].status = "queued"
    /\ \/ job[cur[w]] = snap[w]
       \/ pc[w] = "start" /\ job[cur[w]].status = "purged"

CInv == IInv /\ Single /\ ReplaysWait /\ LoadedIsCurrent

\* The queue after a push at either end and after a pop, as the places see it.
LEMMA PushedSlots ==
  ASSUME queue \in Seq(Jobs), NEW j \in Jobs, LPush(j) \/ RPush(j)
  PROVE  /\ \A i \in Jobs \ {j} : (Queued(i)' => Queued(i)) /\ (OneSlot(i) => OneSlot(i)')
         /\ ~Queued(j) => OneSlot(j)'
<1>1. CASE LPush(j)
  <2>1. /\ DOMAIN queue' = 1 .. Len(queue) + 1 /\ Len(queue) \in Nat
        /\ \A a \in 1 .. Len(queue) : queue'[a] = queue[a]
        /\ queue'[Len(queue) + 1] = j /\ DOMAIN queue = 1 .. Len(queue)
        BY <1>1 DEF LPush
  <2> QED BY <2>1 DEF Queued, OneSlot, Slots
<1>2. CASE RPush(j)
  <2>1. /\ queue' \in Seq(Jobs) /\ Len(queue') = Len(queue) + 1 /\ Len(queue) \in Nat
        /\ \A a \in 1 .. Len(queue') : queue'[a] = IF a = 1 THEN j ELSE queue[a - 1]
        BY <1>2, ConcatProperties DEF RPush
  <2>2. DOMAIN queue' = 1 .. Len(queue) + 1 /\ DOMAIN queue = 1 .. Len(queue)
        BY <2>1
  <2>3. \A a \in DOMAIN queue' : a = 1 \/ (a - 1 \in DOMAIN queue /\ queue'[a] = queue[a - 1])
        BY <2>1, <2>2
  <2>4. queue'[1] = j /\ DOMAIN queue' \subseteq Nat
        BY <2>1, <2>2
  <2> QED BY <2>3, <2>4 DEF Queued, OneSlot, Slots
<1> QED BY <1>1, <1>2

LEMMA PoppedSlots ==
  ASSUME queue \in Seq(Jobs), queue # <<>>, queue' = Tail(queue)
  PROVE  /\ \A i \in Jobs : (Queued(i)' => Queued(i)) /\ (OneSlot(i) => OneSlot(i)')
         /\ Queued(Head(queue))
         /\ \A j \in Jobs : j = Head(queue) /\ OneSlot(j) => ~Queued(j)'
<1>1. /\ Len(queue) \in Nat /\ Len(queue) > 0
      /\ DOMAIN queue = 1 .. Len(queue) /\ DOMAIN queue' = 1 .. Len(queue) - 1
      /\ \A a \in 1 .. Len(queue) - 1 : queue'[a] = queue[a + 1]
      /\ Head(queue) = queue[1]
      OBVIOUS
<1>2. \A a \in DOMAIN queue' : /\ a + 1 \in DOMAIN queue /\ queue'[a] = queue[a + 1]
                               /\ a \in Nat /\ a # 0
      BY <1>1
<1>3. 1 \in DOMAIN queue /\ queue[1] = Head(queue)
      BY <1>1
<1>4. ASSUME NEW i \in Jobs PROVE (Queued(i)' => Queued(i)) /\ (OneSlot(i) => OneSlot(i)')
  <2>1. Queued(i)' => Queued(i)
        BY <1>2 DEF Queued
  <2>2. ASSUME OneSlot(i), NEW a \in Slots(i)', NEW b \in Slots(i)' PROVE a = b
    <3>1. a + 1 \in Slots(i) /\ b + 1 \in Slots(i) /\ a \in Nat /\ b \in Nat
          BY <1>2, <2>2 DEF Slots
    <3>2. a + 1 = b + 1
          BY <2>2, <3>1 DEF OneSlot
    <3> QED BY <3>1, <3>2
  <2>3. OneSlot(i) => OneSlot(i)'
        BY <2>2 DEF OneSlot
  <2> QED BY <2>1, <2>3
<1>5. Queued(Head(queue))
      BY <1>3 DEF Queued
<1>6. ASSUME NEW j \in Jobs, j = Head(queue), OneSlot(j) PROVE ~Queued(j)'
  <2> SUFFICES ASSUME NEW a \in DOMAIN queue', queue'[a] = j PROVE FALSE
      BY DEF Queued
  <2>1. a + 1 \in Slots(j) /\ 1 \in Slots(j) /\ a \in Nat /\ a # 0
        BY <1>2, <1>3, <1>6 DEF Slots
  <2>2. a + 1 = 1
        BY <1>6, <2>1 DEF OneSlot
  <2> QED BY <2>1, <2>2
<1> QED BY <1>4, <1>5, <1>6

\* A step that leaves job j no copy it did not have,
Fewer(j) ==
  /\ Unspent(j)' \subseteq Unspent(j)
  /\ Queued(j)' => Queued(j)
  /\ OneSlot(j) => OneSlot(j)'
  /\ j \in scheduled' => j \in scheduled
  /\ \A w \in Workers : Carries(w, j)' => Carries(w, j)

\* and what every step has to show for it.
Kept(j) == /\ Alone(j)'
           /\ job'[j].status \notin Live => Nowhere(j)'

LEMMA FewerKept ==
  ASSUME Single, NEW j \in Jobs, Fewer(j), job'[j].status \notin Live => job[j].status \notin Live
  PROVE  Kept(j)
<1>1. Alone(j) /\ (job[j].status \notin Live => Nowhere(j))
      BY DEF Single
<1>2. Carried(j)' => Carried(j)
      BY DEF Fewer, Carried
<1>3. OneRow(j)' /\ OneCarrier(j)' /\ OneSlot(j)'
      BY <1>1 DEF Alone, Fewer, OneRow, OneCarrier
<1>4. Nowhere(j) => Nowhere(j)'
      BY <1>2 DEF Fewer, Nowhere
<1> QED BY <1>1, <1>2, <1>3, <1>4 DEF Kept, Alone, Fewer

\* The worker that carries a job has the only copy,
LEMMA OnlyCarrier ==
  ASSUME Single, NEW j \in Jobs, NEW w \in Workers, Carries(w, j)
  PROVE  /\ Unspent(j) = {} /\ ~Queued(j) /\ j \notin scheduled
         /\ \A v \in Workers \ {w} : ~Carries(v, j)
         /\ job[j].status \in Live
<1>1. Alone(j) /\ (job[j].status \notin Live => Nowhere(j)) /\ Carried(j)
      BY DEF Single, Carried
<1> QED BY <1>1 DEF Alone, Nowhere, OneCarrier

\* and after a hand-over one place has it.
LEMMA HandedToCarrier ==
  ASSUME NEW j \in Jobs, NEW w \in Workers, Unspent(j)' = {}, ~Queued(j)', j \notin scheduled',
         \A v \in Workers \ {w} : ~Carries(v, j)', job'[j].status \in Live
  PROVE  Kept(j)
<1>1. OneSlot(j)'
      BY DEF Queued, OneSlot, Slots
<1> QED BY <1>1 DEF Kept, Alone, OneRow, OneCarrier

LEMMA HandedToQueue ==
  ASSUME NEW j \in Jobs, Unspent(j)' = {}, OneSlot(j)', j \notin scheduled',
         \A v \in Workers : ~Carries(v, j)', job'[j].status \in Live
  PROVE  Kept(j)
BY DEF Kept, Alone, OneRow, OneCarrier, Carried

LEMMA HandedToSet ==
  ASSUME NEW j \in Jobs, Unspent(j)' = {}, ~Queued(j)',
         \A v \in Workers : ~Carries(v, j)', job'[j].status \in Live
  PROVE  Kept(j)
<1>1. OneSlot(j)'
      BY DEF Queued, OneSlot, Slots
<1> QED BY <1>1 DEF Kept, Alone, OneRow, OneCarrier, Carried

LEMMA HandedToOutbox ==
  ASSUME NEW j \in Jobs, NEW k, Nowhere(j), Unspent(j)' \subseteq Unspent(j) \cup {k},
         UNCHANGED <<queue, scheduled, pc, row, cur>>, job'[j].status \in Live
  PROVE  Kept(j)
<1>1. ~Queued(j)' /\ OneSlot(j)' /\ j \notin scheduled'
      BY DEF Nowhere, Queued, OneSlot, Slots
<1>2. ~Carried(j)' /\ OneCarrier(j)'
      BY DEF Nowhere, Carried, OneCarrier, Carries
<1>3. OneRow(j)'
      BY DEF Nowhere, OneRow
<1> QED BY <1>1, <1>2, <1>3 DEF Kept, Alone


\* A step of worker w changes what w carries and nothing that another carries.
Busy(w) == \A v \in Workers \ {w} : /\ pc'[v] = pc[v] /\ row'[v] = row[v]
                                    /\ cur'[v] = cur[v] /\ snap'[v] = snap[v]

LEMMA BusyCarries ==
  ASSUME NEW w \in Workers, Busy(w), NEW v \in Workers \ {w}, NEW j \in Jobs
  PROVE  Carries(v, j)' = Carries(v, j)
BY DEF Busy, Carries

LEMMA WorkerBusy ==
  ASSUME WorkersOK, NEW w \in Workers, WorkerStep(w) \/ WorkerFault(w)
  PROVE  Busy(w)
<1> USE DEF WorkersOK, Goto, Busy, Release
<1>1. CASE Publish(w)
      BY <1>1 DEF Publish, SelectOutbox, ClaimRows, SetDedup, PushRow, CommitPublish, EndPublish
<1>2. CASE Drain(w)
      BY <1>2 DEF Drain, ReadDue, RemoveDue, RequeueDue
<1>3. CASE Take(w)
      BY <1>3 DEF Take, Pop, PopTimeout, LoadQueued, SkipNonQueued, RequeueMissing
<1>4. CASE Run(w)
      BY <1>4 DEF Run, StartExecution, Succeed, Retry, DeadLetter, ScheduleRetry, PushDeadLetter
<1>5. CASE WorkerFault(w)
      BY <1>5 DEF WorkerFault, SetDedupFails, PushRowFails, RollbackPublish, EndPublish,
                  RollbackRun, AfterCommitFails, Crash
<1> QED BY <1>1, <1>2, <1>3, <1>4, <1>5 DEF WorkerStep

\* A worker that changes no store and does not begin to carry the job.
LEMMA IdleFewer ==
  ASSUME NEW w \in Workers, Busy(w), NEW j \in Jobs,
         outbox' = outbox, dedup \subseteq dedup', UNCHANGED <<queue, scheduled>>,
         Carries(w, j)' => Carries(w, j)
  PROVE  Fewer(j)
<1>1. Unspent(j)' \subseteq Unspent(j)
      BY DEF Unspent
<1>2. (Queued(j)' => Queued(j)) /\ (OneSlot(j) => OneSlot(j)')
      BY DEF Queued, OneSlot, Slots
<1>3. \A v \in Workers : Carries(v, j)' => Carries(v, j)
      BY BusyCarries
<1> QED BY <1>1, <1>2, <1>3 DEF Fewer

\* _publish_outbox_batch: from the row, through the worker, to the queue.
LEMMA PublishSingle ==
  ASSUME CInv, NEW w \in Workers,
         Publish(w) \/ SetDedupFails(w) \/ PushRowFails(w) \/ RollbackPublish(w), NEW j \in Jobs
  PROVE  Kept(j)
<1> USE DEF CInv, IInv, TypeOK
<1>1. Busy(w)
      BY WorkerBusy DEF WorkerStep, WorkerFault
<1>2. UNCHANGED <<job, outbox, scheduled>>
      BY DEF Publish, SelectOutbox, ClaimRows, SetDedup, PushRow, CommitPublish, EndPublish,
             SetDedupFails, PushRowFails, RollbackPublish, redisVars, dbVars
<1>3. CASE SelectOutbox(w) \/ ClaimRows(w) \/ SetDedupFails(w) \/ EndPublish(w)
  <2>1. dedup \subseteq dedup' /\ queue' = queue /\ ~Carries(w, j)'
        BY <1>3 DEF SelectOutbox, ClaimRows, SetDedupFails, EndPublish, Goto, WorkersOK, Carries,
                    redisVars
  <2> QED BY <1>1, <1>2, <2>1, IdleFewer, FewerKept
<1>4. CASE SetDedup(w)
  <2>1. PICK k \in todo[w] : SetDedup(w)!2!(k)
        BY <1>4 DEF SetDedup
  <2>2. k \in outbox /\ queue' = queue /\ pc[w] = "publish"
        BY <1>4 DEF SetDedup, WorkersOK
  <2>3. CASE k \in dedup
    <3>1. dedup' = dedup /\ ~Carries(w, j)'
          BY <1>4, <2>1, <2>2, <2>3 DEF Carries
    <3> QED BY <1>1, <1>2, <2>2, <3>1, IdleFewer, FewerKept
  <2>4. CASE k \notin dedup
    <3>1. dedup' = dedup \cup {k} /\ row'[w] = k /\ pc'[w] = "push"
          BY <2>1, <2>4 DEF Goto, WorkersOK
    <3>2. CASE k[1] = j
      <4>1. k \in Unspent(j)
            BY <2>2, <2>4, <3>2 DEF Unspent
      <4>2. /\ ~Queued(j) /\ j \notin scheduled /\ ~Carried(j) /\ job[j].status \in Live
            /\ \A l \in Unspent(j) : l = k
            BY <4>1 DEF Single, Alone, Nowhere, OneRow
      <4>3. Unspent(j)' = {}
            BY <1>2, <3>1, <4>2 DEF Unspent
      <4>4. ~Queued(j)' /\ \A v \in Workers \ {w} : ~Carries(v, j)'
            BY <1>1, <2>2, <4>2, BusyCarries DEF Queued, Carried
      <4> QED BY <1>2, <4>2, <4>3, <4>4, HandedToCarrier
    <3>3. CASE k[1] # j
      <4>1. ~Carries(w, j)'
            BY <3>1, <3>3 DEF Carries
      <4> QED BY <1>1, <1>2, <2>2, <3>1, <4>1, IdleFewer, FewerKept
    <3> QED BY <3>2, <3>3
  <2> QED BY <2>3, <2>4
<1>5. ASSUME pc[w] = "push", pc'[w] = "publish", dedup' = dedup, queue' = queue PROVE Kept(j)
  <2>1. ~Carries(w, j)'
        BY <1>5 DEF Carries
  <2> QED BY <1>1, <1>2, <1>5, <2>1, IdleFewer, FewerKept
<1>6. ASSUME pc[w] = "push", pc'[w] = "publish", dedup' = dedup, LPush(row[w][1]) PROVE Kept(j)
  <2>1. row[w][1] \in Jobs /\ queue \in Seq(Jobs)
        BY <1>6 DEF Located, RedisOK, DatabaseOK, Rows
  <2>2. ~Carries(w, j)'
        BY <1>6 DEF Carries
  <2>3. \A v \in Workers : Carries(v, j)' => Carries(v, j)
        BY <1>1, <2>2, BusyCarries
  <2>4. Unspent(j)' = Unspent(j)
        BY <1>2, <1>6 DEF Unspent
  <2>5. CASE row[w][1] = j
    <3>1. Carries(w, j)
          BY <1>6, <2>5 DEF Carries
    <3>2. OneSlot(j)'
          BY <1>6, <2>1, <2>5, <3>1, OnlyCarrier, PushedSlots
    <3>3. \A v \in Workers : ~Carries(v, j)'
          BY <2>2, <2>3, <3>1, OnlyCarrier
    <3> QED BY <1>2, <2>4, <3>1, <3>2, <3>3, OnlyCarrier, HandedToQueue
  <2>6. CASE row[w][1] # j
    <3>1. (Queued(j)' => Queued(j)) /\ (OneSlot(j) => OneSlot(j)')
          BY <1>6, <2>1, <2>6, PushedSlots
    <3>2. Fewer(j)
          BY <1>2, <2>3, <2>4, <3>1 DEF Fewer
    <3> QED BY <1>2, <3>2, FewerKept
  <2> QED BY <2>5, <2>6
<1>7. CASE PushRow(w) \/ PushRowFails(w)
  <2>1. pc[w] = "push" /\ pc'[w] = "publish" /\ dedup' = dedup
        BY <1>7 DEF PushRow, PushRowFails, Goto, WorkersOK
  <2>2. queue' = queue \/ LPush(row[w][1])
        BY <1>7 DEF PushRow, PushRowFails
  <2> QED BY <1>5, <1>6, <2>1, <2>2
<1> QED BY <1>3, <1>4, <1>7 DEF Publish, CommitPublish, RollbackPublish


\* A worker that lets go of everything, or goes on with what it carries.
LEMMA SameStoresKept ==
  ASSUME CInv, NEW w \in Workers, Busy(w), NEW j \in Jobs,
         UNCHANGED <<job, outbox, dedup, queue, scheduled>>, Carries(w, j)' => Carries(w, j)
  PROVE  Kept(j)
<1>1. Fewer(j)
      BY IdleFewer
<1> QED BY <1>1, FewerKept DEF CInv

\* The job in a worker's hands goes back to the queue.
LEMMA BackToQueue ==
  ASSUME CInv, NEW w \in Workers, Busy(w), NEW j \in Jobs, NEW i \in Jobs,
         Carries(w, i), RPush(i), UNCHANGED <<job, outbox, dedup, scheduled>>,
         ~Carries(w, j)'
  PROVE  Kept(j)
<1>1. queue \in Seq(Jobs) /\ Unspent(j)' = Unspent(j)
      BY DEF CInv, IInv, TypeOK, RedisOK, Unspent
<1>2. \A v \in Workers : Carries(v, j)' => Carries(v, j)
      BY BusyCarries
<1>3. CASE i = j
  <2>1. OneSlot(j)'
        BY <1>1, <1>3, OnlyCarrier, PushedSlots DEF CInv
  <2>2. \A v \in Workers : ~Carries(v, j)'
        BY <1>2, <1>3, OnlyCarrier DEF CInv
  <2> QED BY <1>1, <1>3, <2>1, <2>2, OnlyCarrier, HandedToQueue DEF CInv
<1>4. CASE i # j
  <2>1. (Queued(j)' => Queued(j)) /\ (OneSlot(j) => OneSlot(j)')
        BY <1>1, <1>4, PushedSlots
  <2>2. Fewer(j)
        BY <1>1, <1>2, <2>1 DEF Fewer
  <2> QED BY <2>2, FewerKept DEF CInv
<1> QED BY <1>3, <1>4

\* _drain_scheduled_jobs: from the set, through the worker, to the queue.
LEMMA DrainSingle ==
  ASSUME CInv, NEW w \in Workers, Drain(w), NEW j \in Jobs
  PROVE  Kept(j)
<1> USE DEF CInv, IInv, TypeOK
<1>1. Busy(w)
      BY WorkerBusy DEF WorkerStep
<1>2. UNCHANGED <<job, outbox, dedup>>
      BY DEF Drain, ReadDue, RemoveDue, RequeueDue, redisVars, dbVars
<1>3. CASE ReadDue(w)
  <2>1. UNCHANGED <<queue, scheduled>> /\ ~Carries(w, j)'
        BY <1>3 DEF ReadDue, AfterDue, Goto, WorkersOK, Carries, redisVars
  <2> QED BY <1>1, <1>2, <2>1, SameStoresKept
<1>4. CASE RemoveDue(w)
  <2>1. PICK i \in due[w] : RemoveDue(w)!2!(i)
        BY <1>4 DEF RemoveDue
  <2>2. queue' = queue /\ scheduled' = scheduled \ {i} /\ pc[w] = "zrem"
        BY <1>4, <2>1 DEF RemoveDue
  <2>3. Unspent(j)' = Unspent(j) /\ Queued(j)' = Queued(j) /\ OneSlot(j)' = OneSlot(j)
        BY <1>2, <2>2 DEF Unspent, Queued, OneSlot, Slots
  <2>4. CASE i \in scheduled /\ i = j
    <3>1. ~Queued(j) /\ Unspent(j) = {} /\ ~Carried(j) /\ job[j].status \in Live
          BY <2>4 DEF Single, Alone, Nowhere
    <3>2. \A v \in Workers \ {w} : ~Carries(v, j)'
          BY <1>1, <3>1, BusyCarries DEF Carried
    <3> QED BY <1>2, <2>2, <2>3, <2>4, <3>1, <3>2, HandedToCarrier
  <2>5. CASE i \notin scheduled \/ i # j
    <3>1. ~Carries(w, j)'
          BY <2>1, <2>2, <2>5 DEF AfterDue, Goto, WorkersOK, Carries
    <3>2. \A v \in Workers : Carries(v, j)' => Carries(v, j)
          BY <1>1, <3>1, BusyCarries
    <3>3. Fewer(j)
          BY <2>2, <2>3, <3>2 DEF Fewer
    <3> QED BY <1>2, <3>3, FewerKept
  <2> QED BY <2>4, <2>5
<1>5. CASE RequeueDue(w)
  <2>1. cur[w] \in Jobs /\ Carries(w, cur[w]) /\ scheduled' = scheduled
        BY <1>5 DEF RequeueDue, Located, Carries
  <2>2. ~Carries(w, j)' /\ RPush(cur[w])
        BY <1>5 DEF RequeueDue, AfterDue, Goto, WorkersOK, Carries
  <2> QED BY <1>1, <1>2, <2>1, <2>2, BackToQueue
<1> QED BY <1>3, <1>4, <1>5 DEF Drain

\* BRPOP and what _run_single_job does before it executes.
LEMMA TakeSingle ==
  ASSUME CInv, NEW w \in Workers, Take(w) \/ StartExecution(w), NEW j \in Jobs
  PROVE  Kept(j)
<1> USE DEF CInv, IInv, TypeOK
<1>1. Busy(w)
      BY WorkerBusy DEF WorkerStep, Run
<1>2. UNCHANGED <<job, outbox, dedup, scheduled>>
      BY DEF Take, Pop, PopTimeout, LoadQueued, SkipNonQueued, RequeueMissing, StartExecution,
             redisVars, dbVars
<1>3. CASE Pop(w)
  <2>1. /\ queue \in Seq(Jobs) /\ queue # <<>> /\ queue' = Tail(queue) /\ pc[w] = "pop"
        /\ pc'[w] = "load" /\ cur'[w] = Head(queue)
        BY <1>3 DEF Pop, Goto, WorkersOK, RedisOK
  <2>2. Unspent(j)' = Unspent(j)
        BY <1>2 DEF Unspent
  <2>3. CASE j = Head(queue)
    <3>1. Queued(j)
          BY <2>1, <2>3, PoppedSlots
    <3>2. Unspent(j) = {} /\ j \notin scheduled /\ ~Carried(j) /\ job[j].status \in Live /\ OneSlot(j)
          BY <3>1 DEF Single, Alone, Nowhere
    <3>3. ~Queued(j)'
          BY <2>1, <2>3, <3>2, PoppedSlots
    <3>4. \A v \in Workers \ {w} : ~Carries(v, j)'
          BY <1>1, <3>2, BusyCarries DEF Carried
    <3> QED BY <1>2, <2>2, <3>2, <3>3, <3>4, HandedToCarrier
  <2>4. CASE j # Head(queue)
    <3>1. ~Carries(w, j)'
          BY <2>1, <2>4 DEF Carries
    <3>2. \A v \in Workers : Carries(v, j)' => Carries(v, j)
          BY <1>1, <3>1, BusyCarries
    <3>3. (Queued(j)' => Queued(j)) /\ (OneSlot(j) => OneSlot(j)')
          BY <2>1, PoppedSlots
    <3>4. Fewer(j)
          BY <1>2, <2>2, <3>2, <3>3 DEF Fewer
    <3> QED BY <1>2, <3>4, FewerKept
  <2> QED BY <2>3, <2>4
<1>4. CASE RequeueMissing(w)
  <2>1. cur[w] \in Jobs /\ Carries(w, cur[w]) /\ ~Carries(w, j)'
        BY <1>4 DEF RequeueMissing, Release, Goto, Located, Carries, WorkersOK
  <2>2. queue' = queue \/ RPush(cur[w])
        BY <1>4 DEF RequeueMissing
  <2>3. CASE queue' = queue
        BY <1>1, <1>2, <2>1, <2>3, SameStoresKept
  <2>4. CASE RPush(cur[w])
        BY <1>1, <1>2, <2>1, <2>4, BackToQueue
  <2> QED BY <2>2, <2>3, <2>4
<1>5. CASE PopTimeout(w) \/ LoadQueued(w) \/ SkipNonQueued(w) \/ StartExecution(w)
  <2>1. queue' = queue
        BY <1>5 DEF PopTimeout, LoadQueued, SkipNonQueued, StartExecution, redisVars
  <2>2. Carries(w, j)' => Carries(w, j)
        BY <1>5 DEF PopTimeout, LoadQueued, SkipNonQueued, StartExecution, Release, Goto, Carries,
                    WorkersOK
  <2> QED BY <1>1, <1>2, <2>1, <2>2, SameStoresKept
<1> QED BY <1>3, <1>4, <1>5 DEF Take

\* The commit of a run leaves the job with its worker, queued, or nowhere.
LEMMA RunSingle ==
  ASSUME CInv, NEW w \in Workers, Succeed(w) \/ Retry(w) \/ DeadLetter(w), NEW j \in Jobs
  PROVE  Kept(j)
<1> USE DEF CInv, IInv, TypeOK
<1>1. Busy(w) /\ pc[w] = "exec" /\ cur[w] \in Jobs /\ Carries(w, cur[w])
  <2>1. WorkerStep(w) /\ pc[w] = "exec"
        BY DEF WorkerStep, Run, Succeed, Retry, DeadLetter
  <2> QED BY <2>1, WorkerBusy DEF Located, Carries
<1>2. UNCHANGED <<outbox, dedup, queue, scheduled>>
      BY DEF Succeed, Retry, DeadLetter, CommitRun, redisVars
<1>3. \E status \in Statuses, events \in Seq(EventTypes) :
         /\ CommitRun(w, status, events)
         /\ \/ status = "queued" /\ pc'[w] = "zadd" /\ cur'[w] = cur[w]
            \/ pc'[w] \in {"select", "dlq"}
  <2>1. CASE Succeed(w)
        BY <2>1, RunOutcomes DEF Succeed, Release, Goto, WorkersOK
  <2>2. CASE Retry(w)
        BY <2>2, RunOutcomes DEF Retry, Goto, WorkersOK
  <2>3. CASE DeadLetter(w)
        BY <2>3, RunOutcomes DEF DeadLetter, Goto, WorkersOK
  <2> QED BY <2>1, <2>2, <2>3
<1>4. /\ \A i \in Jobs \ {cur[w]} : job'[i] = job[i]
      /\ \/ job'[cur[w]].status = "queued" /\ pc'[w] = "zadd" /\ cur'[w] = cur[w]
         \/ pc'[w] \in {"select", "dlq"}
      BY <1>1, <1>3, CommitRunWrites
<1>5. Carries(w, j)' => Carries(w, j) /\ job'[cur[w]].status = "queued"
      BY <1>1, <1>4 DEF Carries
<1>6. Fewer(j)
      BY <1>1, <1>2, <1>5, IdleFewer
<1>7. CASE j # cur[w]
      BY <1>4, <1>6, <1>7, FewerKept
<1>8. CASE j = cur[w]
  <2>1. /\ Unspent(j) = {} /\ ~Queued(j) /\ j \notin scheduled
        /\ \A v \in Workers \ {w} : ~Carries(v, j)
        BY <1>1, <1>8, OnlyCarrier
  <2>2. /\ Unspent(j)' = {} /\ ~Queued(j)' /\ j \notin scheduled'
        /\ \A v \in Workers \ {w} : ~Carries(v, j)'
        BY <1>6, <2>1 DEF Fewer
  <2>3. CASE job'[j].status \in Live
        BY <2>2, <2>3, HandedToCarrier
  <2>4. CASE job'[j].status \notin Live
    <3>1. ~Carried(j)'
          BY <1>5, <1>8, <2>2, <2>4 DEF Carried, Live
    <3>2. Nowhere(j)' /\ OneRow(j)' /\ OneSlot(j)' /\ OneCarrier(j)'
          BY <2>2, <3>1 DEF Nowhere, OneRow, OneSlot, Slots, Queued, OneCarrier, Carried
    <3> QED BY <3>2 DEF Kept, Alone, Nowhere
  <2> QED BY <2>3, <2>4
<1> QED BY <1>7, <1>8

\* What follows the commit, and the faults of an execution.
LEMMA AfterRunSingle ==
  ASSUME CInv, NEW w \in Workers, NEW j \in Jobs,
         \/ ScheduleRetry(w) \/ PushDeadLetter(w)
         \/ RollbackRun(w) \/ AfterCommitFails(w) \/ Crash(w)
  PROVE  Kept(j)
<1> USE DEF CInv, IInv, TypeOK
<1>1. Busy(w)
      BY WorkerBusy DEF WorkerStep, Run, WorkerFault
<1>2. UNCHANGED <<job, outbox, dedup, queue>> /\ ~Carries(w, j)'
      BY DEF ScheduleRetry, PushDeadLetter, RollbackRun, AfterCommitFails, Crash, Release, Goto,
             Carries, WorkersOK, redisVars, dbVars
<1>3. CASE ScheduleRetry(w)
  <2>1. scheduled' = scheduled \cup {cur[w]} /\ pc[w] = "zadd" /\ cur[w] \in Jobs
        BY <1>3 DEF ScheduleRetry, Located
  <2>2. Unspent(j)' = Unspent(j) /\ Queued(j)' = Queued(j) /\ OneSlot(j)' = OneSlot(j)
        BY <1>2 DEF Unspent, Queued, OneSlot, Slots
  <2>3. \A v \in Workers : Carries(v, j)' => Carries(v, j)
        BY <1>1, <1>2, BusyCarries
  <2>4. CASE cur[w] = j
    <3>1. Carries(w, j)
          BY <2>1, <2>4 DEF Carries
    <3>2. \A v \in Workers : ~Carries(v, j)'
          BY <1>2, <2>3, <3>1, OnlyCarrier
    <3> QED BY <1>2, <2>2, <3>1, <3>2, OnlyCarrier, HandedToSet
  <2>5. CASE cur[w] # j
    <3>1. Fewer(j)
          BY <2>1, <2>2, <2>3, <2>5 DEF Fewer
    <3> QED BY <1>2, <3>1, FewerKept
  <2> QED BY <2>4, <2>5
<1>4. CASE PushDeadLetter(w) \/ RollbackRun(w) \/ AfterCommitFails(w) \/ Crash(w)
  <2>1. scheduled' = scheduled
        BY <1>4 DEF PushDeadLetter, RollbackRun, AfterCommitFails, Crash, redisVars
  <2> QED BY <1>1, <1>2, <2>1, SameStoresKept
<1> QED BY <1>3, <1>4


\* The API and retention: a replay is the only new copy of a job that exists,
\* and it is made of a job that has none.
LEMMA RequestSingle ==
  ASSUME CInv, NEW j \in Jobs,
         \/ \E i \in Jobs : Enqueue(i) \/ BecomeDue(i)
         \/ \E o \in Operators : Operate(o)
         \/ PurgeSelect \/ PurgeDelete \/ UNCHANGED vars
  PROVE  Kept(j)
<1> USE DEF CInv, IInv, TypeOK
<1>1. UNCHANGED <<dedup, queue, scheduled, pc, row, cur>>
      BY DEF Enqueue, BecomeDue, Operate, ReplayRequest, ReplayCommit, AckRequest, AckRemove,
             AckCommit, RequestFails, PurgeSelect, PurgeDelete, vars, redisVars, workerVars
<1>2. (Queued(j)' => Queued(j)) /\ (OneSlot(j) => OneSlot(j)')
      BY <1>1 DEF Queued, OneSlot, Slots
<1>3. \A w \in Workers : Carries(w, j)' => Carries(w, j)
      BY <1>1 DEF Carries
<1>4. ASSUME Unspent(j)' = Unspent(j), job'[j] = job[j] \/ job'[j].status = "purged" PROVE Kept(j)
  <2>1. Fewer(j)
        BY <1>1, <1>2, <1>3, <1>4 DEF Fewer
  <2> QED BY <1>4, <2>1, FewerKept DEF Live
<1>5. ASSUME NEW k, k[1] \in Jobs, outbox' = outbox \cup {k}, job[k[1]].status \notin Live,
             job'[k[1]].status \in Live, \A i \in Jobs \ {k[1]} : job'[i] = job[i]
      PROVE  Kept(j)
  <2>1. CASE k[1] = j
    <3>1. Nowhere(j) /\ Unspent(j)' \subseteq Unspent(j) \cup {k}
          BY <1>1, <1>5, <2>1 DEF Single, Unspent
    <3> QED BY <1>1, <1>5, <2>1, <3>1, HandedToOutbox
  <2>2. CASE k[1] # j
    <3>1. Unspent(j)' = Unspent(j)
          BY <1>1, <1>5, <2>2 DEF Unspent
    <3> QED BY <1>4, <1>5, <2>2, <3>1
  <2> QED BY <2>1, <2>2
<1>6. ASSUME outbox' = outbox, job' = job PROVE Kept(j)
      BY <1>1, <1>4, <1>6 DEF Unspent
<1>7. ASSUME NEW i \in Jobs, Enqueue(i) PROVE Kept(j)
  <2>1. job[i].status \notin Live /\ job'[i].status \in Live /\ outbox' = outbox \cup {<<i, 0>>}
        BY <1>7 DEF Enqueue, Live, DatabaseOK
  <2>2. \A m \in Jobs \ {i} : job'[m] = job[m]
        BY <1>7 DEF Enqueue, DatabaseOK
  <2>3. PICK k : k = <<i, 0>>
        OBVIOUS
  <2> QED BY <1>5, <2>1, <2>2, <2>3
<1>8. ASSUME NEW o \in Operators, ReplayCommit(o) PROVE Kept(j)
  <2>1. PICK k : k = <<request[o].job, request[o].no>>
        OBVIOUS
  <2>2. /\ request[o].job \in Jobs /\ k[1] = request[o].job
        /\ job[k[1]].status \in {"dead_letter", "purged"}
        BY <1>8, <2>1 DEF ReplayCommit, Located, ReplaysWait
  <2>3. CASE job[k[1]].status = "purged"
        BY <1>6, <1>8, <2>2, <2>3 DEF ReplayCommit
  <2>4. CASE job[k[1]].status = "dead_letter"
    <3>1. /\ outbox' = outbox \cup {k}
          /\ job' = [job EXCEPT ![k[1]] = [status |-> "queued", attempts |-> 0]]
          BY <1>8, <2>1, <2>2, <2>4 DEF ReplayCommit
    <3>2. job'[k[1]].status \in Live /\ \A i \in Jobs \ {k[1]} : job'[i] = job[i]
          BY <2>2, <3>1 DEF DatabaseOK, Live
    <3> QED BY <1>5, <2>2, <2>4, <3>1, <3>2 DEF Live
  <2> QED BY <2>2, <2>3, <2>4
<1>9. CASE PurgeDelete
  <2>1. outbox' = outbox /\ (job'[j] = job[j] \/ job'[j].status = "purged")
        BY <1>9 DEF PurgeDelete
  <2> QED BY <1>1, <1>4, <2>1 DEF Unspent
<1>10. CASE PurgeSelect \/ UNCHANGED vars \/ \E i \in Jobs : BecomeDue(i)
       BY <1>6, <1>10 DEF PurgeSelect, vars, dbVars, BecomeDue
<1>11. ASSUME NEW o \in Operators, Operate(o) PROVE Kept(j)
       BY <1>6, <1>8, <1>11 DEF Operate, ReplayRequest, AckRequest, AckRemove, AckCommit,
                                 RequestFails, dbVars
<1> QED BY <1>7, <1>9, <1>10, <1>11

LEMMA SinglePreserved == CInv /\ [Next]_vars => Single'
<1> SUFFICES ASSUME CInv, [Next]_vars, NEW j \in Jobs PROVE Kept(j)
    BY DEF Single, Kept
<1>1. ASSUME NEW w \in Workers, WorkerStep(w) \/ WorkerFault(w) PROVE Kept(j)
      BY <1>1, PublishSingle, DrainSingle, TakeSingle, RunSingle, AfterRunSingle
         DEF WorkerStep, Run, WorkerFault
<1> QED BY <1>1, RequestSingle DEF Next

-----------------------------------------------------------------------------
(* What a worker or an operator has read is still so.                      *)

\* How a row may change, whoever changes it.
LEMMA RowSteps ==
  ASSUME CInv, [Next]_vars, NEW j \in Jobs
  PROVE  \/ job'[j] = job[j]
         \/ job[j].status = "absent"
         \/ \E o \in Operators : ReplayCommit(o) /\ request[o].job = j /\ job[j].status = "dead_letter"
         \/ job'[j].status = "purged" /\ ~JobLocked(j)
         \/ \E w \in Workers : Executing(w, j) /\ (Succeed(w) \/ Retry(w) \/ DeadLetter(w))
<1> USE DEF CInv, IInv, TypeOK
<1>1. ASSUME NEW i \in Jobs, Enqueue(i) PROVE job'[j] = job[j] \/ job[j].status = "absent"
      BY <1>1 DEF Enqueue, DatabaseOK
<1>2. ASSUME NEW o \in Operators, ReplayCommit(o)
      PROVE  job'[j] = job[j] \/ (request[o].job = j /\ job[j].status = "dead_letter")
  <2>1. request[o].job \in Jobs /\ job[request[o].job].status \in {"dead_letter", "purged"}
        BY <1>2 DEF ReplayCommit, Located, ReplaysWait
  <2> QED BY <1>2, <2>1 DEF ReplayCommit, DatabaseOK
<1>3. CASE PurgeDelete
      BY <1>3 DEF PurgeDelete
<1>4. ASSUME NEW w \in Workers, Succeed(w) \/ Retry(w) \/ DeadLetter(w)
      PROVE  job'[j] = job[j] \/ Executing(w, j)
      BY <1>4 DEF Succeed, Retry, DeadLetter, CommitRun, Executing, DatabaseOK, Located
<1>5. CASE UNCHANGED dbVars
      BY <1>5 DEF dbVars
<1>6. ASSUME NEW w \in Workers, CommitPublish(w) PROVE job' = job
      BY <1>6 DEF CommitPublish, EndPublish
<1> QED BY <1>1, <1>2, <1>3, <1>4, <1>5, <1>6, OthersLeaveDatabase DEF DatabaseStep

\* A job that is executed is queued.
LEMMA ExecutesQueued ==
  ASSUME CInv, NEW w \in Workers, pc[w] = "exec"
  PROVE  job[cur[w]] = snap[w] /\ job[cur[w]].status = "queued" /\ cur[w] \in Jobs
BY DEF CInv, LoadedIsCurrent, IInv, Located

LEMMA LoadedStays == CInv /\ [Next]_vars => LoadedIsCurrent'
<1> SUFFICES ASSUME CInv, [Next]_vars, NEW v \in Workers, pc'[v] \in {"start", "exec"}
             PROVE  /\ snap'[v].status = "queued"
                    /\ \/ job'[cur'[v]] = snap'[v]
                       \/ pc'[v] = "start" /\ job'[cur'[v]].status = "purged"
    BY DEF LoadedIsCurrent
<1> USE DEF CInv, IInv, TypeOK
<1>1. CASE LoadQueued(v)
  <2>1. cur'[v] = cur[v] /\ snap'[v] = job[cur[v]] /\ job' = job /\ job[cur[v]].status = "queued"
        BY <1>1 DEF LoadQueued, WorkersOK, dbVars
  <2> QED BY <2>1
<1>2. CASE StartExecution(v)
  <2>1. cur'[v] = cur[v] /\ snap'[v] = snap[v] /\ job' = job /\ pc[v] = "start"
        BY <1>2 DEF StartExecution, Release, Goto, WorkersOK, dbVars
  <2>2. job[cur[v]].status # "purged"
        BY <1>2 DEF StartExecution, Release, Goto, WorkersOK
  <2> QED BY <2>1, <2>2 DEF LoadedIsCurrent
<1>3. ASSUME pc'[v] = pc[v], cur'[v] = cur[v], snap'[v] = snap[v]
      PROVE  /\ snap'[v].status = "queued"
             /\ \/ job'[cur'[v]] = snap'[v]
                \/ pc'[v] = "start" /\ job'[cur'[v]].status = "purged"
  <2>1. PICK j \in Jobs : j = cur[v]
        BY <1>3 DEF Located
  <2>2. /\ snap[v].status = "queued"
        /\ job[j] = snap[v] \/ (pc[v] = "start" /\ job[j].status = "purged")
        BY <1>3, <2>1 DEF LoadedIsCurrent
  <2>3. Carries(v, j)
        BY <1>3, <2>1 DEF Carries
  <2>4. CASE job'[j] = job[j]
        BY <1>3, <2>1, <2>2, <2>4
  <2>5. CASE job[j].status = "absent" \/ job[j].status = "dead_letter"
        BY <2>2, <2>5
  <2>6. CASE job'[j].status = "purged" /\ ~JobLocked(j)
    <3>1. pc[v] # "exec"
          BY <2>1, <2>6 DEF JobLocked, Executing
    <3> QED BY <1>3, <2>1, <2>2, <2>6, <3>1
  <2>7. ASSUME NEW w \in Workers, Executing(w, j), Succeed(w) \/ Retry(w) \/ DeadLetter(w)
        PROVE  FALSE
    <3>1. Carries(w, j)
          BY <2>7 DEF Executing, Carries
    <3>2. w = v
          BY <2>3, <3>1, OnlyCarrier
    <3>3. pc'[w] \notin {"start", "exec"}
          BY <2>7 DEF Succeed, Retry, DeadLetter, Release, Goto, WorkersOK
    <3> QED BY <3>2, <3>3
  <2> QED BY <2>4, <2>5, <2>6, <2>7, RowSteps
<1>4. ASSUME NEW w \in Workers, WorkerStep(w) \/ WorkerFault(w)
      PROVE  \/ LoadQueued(v) \/ StartExecution(v)
             \/ pc'[v] = pc[v] /\ cur'[v] = cur[v] /\ snap'[v] = snap[v]
  <2>1. CASE w # v
        BY <1>4, <2>1, WorkerBusy DEF Busy
  <2>2. CASE w = v
    <3> USE <1>4, <2>2 DEF Goto, WorkersOK, Release
    <3>1. CASE Publish(w)
          BY <3>1 DEF Publish, SelectOutbox, ClaimRows, SetDedup, PushRow, CommitPublish, EndPublish
    <3>2. CASE Drain(w)
          BY <3>2 DEF Drain, ReadDue, RemoveDue, RequeueDue, AfterDue
    <3>3. CASE Take(w)
          BY <3>3 DEF Take, Pop, PopTimeout, SkipNonQueued, RequeueMissing
    <3>4. CASE Run(w)
          BY <3>4 DEF Run, Succeed, Retry, DeadLetter, ScheduleRetry, PushDeadLetter
    <3>5. CASE WorkerFault(w)
          BY <3>5 DEF WorkerFault, SetDedupFails, PushRowFails, RollbackPublish, EndPublish,
                      RollbackRun, AfterCommitFails, Crash
    <3> QED BY <3>1, <3>2, <3>3, <3>4, <3>5 DEF WorkerStep
  <2> QED BY <2>1, <2>2
<1>5. CASE UNCHANGED workerVars
      BY <1>3, <1>5 DEF workerVars
<1>6. ASSUME NEW o \in Operators, Operate(o) PROVE UNCHANGED workerVars
      BY <1>6 DEF Operate, ReplayRequest, ReplayCommit, AckRequest, AckRemove, AckCommit,
                  RequestFails
<1>7. CASE PurgeSelect \/ PurgeDelete \/ UNCHANGED vars
      BY <1>5, <1>7 DEF PurgeSelect, PurgeDelete, vars
<1>8. ASSUME NEW j \in Jobs, Enqueue(j) \/ BecomeDue(j) PROVE UNCHANGED workerVars
      BY <1>8 DEF Enqueue, BecomeDue
<1> QED BY <1>1, <1>2, <1>3, <1>4, <1>5, <1>6, <1>7, <1>8 DEF Next

LEMMA ReplaysStay == CInv /\ OneReplayAtATime /\ [Next]_vars => ReplaysWait'
<1> SUFFICES ASSUME CInv, OneReplayAtATime, [Next]_vars,
                    NEW p \in Operators, request'[p].op = "replay"
             PROVE  job'[request'[p].job].status \in {"dead_letter", "purged"}
    BY DEF ReplaysWait
<1> USE DEF CInv, IInv, TypeOK
<1>1. ASSUME NEW j \in Jobs, ReplayRequest(p, j)
      PROVE  job'[request'[p].job].status \in {"dead_letter", "purged"}
      BY <1>1 DEF ReplayRequest, RequestsOK, dbVars
<1>2. CASE request'[p] = request[p]
  <2>1. PICK j \in Jobs : j = request[p].job
        BY <1>2 DEF Located
  <2>2. job[j].status \in {"dead_letter", "purged"}
        BY <1>2, <2>1 DEF ReplaysWait
  <2>3. ASSUME NEW o \in Operators, ReplayCommit(o), request[o].job = j PROVE FALSE
    <3>1. o = p
          BY <1>2, <2>1, <2>3 DEF OneReplayAtATime, ReplayCommit
    <3> QED BY <2>3, <3>1 DEF ReplayCommit, RequestsOK, Idle
  <2>4. ASSUME NEW w \in Workers, Executing(w, j) PROVE FALSE
        BY <2>2, <2>4, ExecutesQueued DEF Executing
  <2> QED BY <1>2, <2>1, <2>2, <2>3, <2>4, RowSteps
<1>3. ASSUME NEW o \in Operators, Operate(o)
      PROVE  request'[p] = request[p] \/ \E j \in Jobs : ReplayRequest(p, j)
      BY <1>3 DEF Operate, ReplayRequest, ReplayCommit, AckRequest, AckRemove, AckCommit,
                  RequestFails, RequestsOK, Idle
<1>4. ASSUME NEW w \in Workers, WorkerStep(w) \/ WorkerFault(w) PROVE request' = request
  <2>1. CASE Publish(w)
        BY <2>1 DEF Publish, SelectOutbox, ClaimRows, SetDedup, PushRow, CommitPublish, EndPublish,
                    apiVars
  <2>2. CASE Drain(w)
        BY <2>2 DEF Drain, ReadDue, RemoveDue, RequeueDue, apiVars
  <2>3. CASE Take(w)
        BY <2>3 DEF Take, Pop, PopTimeout, LoadQueued, SkipNonQueued, RequeueMissing, apiVars
  <2>4. CASE Run(w)
        BY <2>4 DEF Run, StartExecution, Succeed, Retry, DeadLetter, ScheduleRetry, PushDeadLetter,
                    apiVars
  <2>5. CASE WorkerFault(w)
        BY <2>5 DEF WorkerFault, SetDedupFails, PushRowFails, RollbackPublish, EndPublish,
                    RollbackRun, AfterCommitFails, Crash, apiVars
  <2> QED BY <1>4, <2>1, <2>2, <2>3, <2>4, <2>5 DEF WorkerStep
<1>5. CASE PurgeSelect \/ PurgeDelete \/ UNCHANGED vars
      BY <1>2, <1>5 DEF PurgeSelect, PurgeDelete, vars, apiVars
<1>6. ASSUME NEW j \in Jobs, Enqueue(j) \/ BecomeDue(j) PROVE request' = request
      BY <1>6 DEF Enqueue, BecomeDue, apiVars
<1> QED BY <1>1, <1>2, <1>3, <1>4, <1>5, <1>6 DEF Next


\* The four places, counted.
LEMMA CountAlone ==
  ASSUME NEW j \in Jobs, Alone(j)
  PROVE  /\ Copies(j) \in {0, 1}
         /\ Nowhere(j) => Copies(j) = 0
<1> DEFINE R == Unspent(j)
           Q == Slots(j)
           S == scheduled \cap {j}
           W == {w \in Workers : Carries(w, j)}
<1>1. /\ Cardinality(R) \in {0, 1} /\ (R = {} => Cardinality(R) = 0)
      /\ Cardinality(Q) \in {0, 1} /\ (Q = {} => Cardinality(Q) = 0)
      /\ Cardinality(S) \in {0, 1} /\ (S = {} => Cardinality(S) = 0)
      /\ Cardinality(W) \in {0, 1} /\ (W = {} => Cardinality(W) = 0)
  <2>1. ASSUME NEW X, \A x, y \in X : x = y
        PROVE  Cardinality(X) \in {0, 1} /\ (X = {} => Cardinality(X) = 0)
    <3>1. CASE X = {}
          BY <3>1, FS_EmptySet
    <3>2. CASE X # {}
      <4>1. PICK x : x \in X
            BY <3>2
      <4>2. X = {x}
            BY <2>1, <4>1
      <4> QED BY <3>2, <4>2, FS_Singleton
    <3> QED BY <3>1, <3>2
  <2>2. \A x, y \in R : x = y
        BY DEF Alone, OneRow
  <2>3. \A x, y \in Q : x = y
        BY DEF Alone, OneSlot
  <2>4. \A x, y \in S : x = y
        OBVIOUS
  <2>5. \A x, y \in W : x = y
        BY DEF Alone, OneCarrier
  <2> HIDE DEF R, Q, S, W
  <2> QED BY <2>1, <2>2, <2>3, <2>4, <2>5
<1>2. /\ R # {} => Q = {} /\ S = {} /\ W = {}
      /\ Q # {} => S = {} /\ W = {}
      /\ S # {} => W = {}
      BY DEF Alone, Queued, Slots, Carried
<1>3. Nowhere(j) => R = {} /\ Q = {} /\ S = {} /\ W = {}
      BY DEF Nowhere, Queued, Slots, Carried
<1>4. Copies(j) = Cardinality(R) + Cardinality(Q) + Cardinality(S) + Cardinality(W)
      BY DEF Copies
<1> HIDE DEF R, Q, S, W
<1> QED BY <1>1, <1>2, <1>3, <1>4

LEMMA InitCInv == Init => CInv
<1> SUFFICES ASSUME Init PROVE CInv
    OBVIOUS
<1>1. IInv
      BY InitIInv
<1>2. ASSUME NEW j \in Jobs PROVE Alone(j) /\ Nowhere(j)
  <2>1. \A w \in Workers : ~Carries(w, j)
        BY DEF Init, Carries
  <2>2. Unspent(j) = {} /\ DOMAIN queue = {} /\ scheduled = {}
        BY DEF Init, Unspent
  <2> QED BY <2>1, <2>2 DEF Alone, Nowhere, OneRow, OneSlot, OneCarrier, Queued, Slots, Carried
<1>3. ReplaysWait /\ LoadedIsCurrent
      BY DEF Init, ReplaysWait, LoadedIsCurrent, Idle
<1> QED BY <1>1, <1>2, <1>3 DEF CInv, Single

LEMMA IInvSteps == IInv /\ [Next]_vars => IInv'
BY DatabaseTypes, RedisTypes, WorkerTypes, RequestTypes, LocatedPreserved,
   LoadedPreserved, BudgetPreserved DEF IInv, TypeOK

LEMMA CInvSteps == CInv /\ OneReplayAtATime /\ [Next]_vars => CInv'
BY IInvSteps, SinglePreserved, ReplaysStay, LoadedStays DEF CInv

LEMMA InductiveAlone == Spec /\ []OneReplayAtATime => []CInv
BY InitCInv, CInvSteps, PTL DEF Spec

\* As long as no two replays of one job overlap, a queued job has at most one
\* copy among outbox, queue, scheduled set and workers, and a settled job none,
\* whatever the workers, the crashes, the Redis errors and the retention runs do.
THEOREM JobHasOneCopy == Spec /\ []OneReplayAtATime => []OneCopy
<1>1. ASSUME CInv, NEW j \in Jobs
      PROVE  Copies(j) <= IF job[j].status \in {"queued", "purged"} THEN 1 ELSE 0
  <2>1. Alone(j) /\ (job[j].status \notin Live => Nowhere(j))
        BY <1>1 DEF CInv, Single
  <2> QED BY <2>1, CountAlone DEF Live
<1>2. CInv => OneCopy
      BY <1>1 DEF OneCopy
<1> QED BY InductiveAlone, <1>2, PTL

-----------------------------------------------------------------------------
(* The queue implements JobLifecycle.                                      *)

\* What the mapping needs beyond CInv: a job that does not exist has no events,
\* and retention selects no such job.
Absent == \A j \in Jobs : job[j].status = "absent" => log[j] = <<>> /\ j \notin doomed

LEMMA AbsentStays == CInv /\ Absent /\ [Next]_vars => Absent'
<1> SUFFICES ASSUME CInv, Absent, [Next]_vars, NEW j \in Jobs, job'[j].status = "absent"
             PROVE  log'[j] = <<>> /\ j \notin doomed'
    BY DEF Absent
<1> USE DEF CInv, IInv, TypeOK
<1>1. job[j].status = "absent"
  <2>1. job'[j] = job[j] \/ job'[j].status # "absent"
    <3>1. ASSUME NEW o \in Operators, ReplayCommit(o), job[j].status = "dead_letter"
          PROVE  job'[j] = job[j] \/ job'[j].status # "absent"
          BY <3>1 DEF ReplayCommit, DatabaseOK, Located
    <3>2. ASSUME NEW w \in Workers, Succeed(w) \/ Retry(w) \/ DeadLetter(w)
          PROVE  job'[j] = job[j] \/ job'[j].status # "absent"
          BY <3>2 DEF Succeed, Retry, DeadLetter, CommitRun, DatabaseOK, Located
    <3>3. CASE job[j].status = "absent"
      <4>1. ASSUME NEW i \in Jobs, Enqueue(i) PROVE job'[j] = job[j] \/ job'[j].status # "absent"
            BY <4>1 DEF Enqueue, DatabaseOK
      <4>2. ASSUME NEW o \in Operators, ReplayCommit(o)
            PROVE  job'[j] = job[j] \/ job'[j].status # "absent"
            BY <4>2 DEF ReplayCommit, DatabaseOK, Located
      <4>3. CASE PurgeDelete
            BY <4>3 DEF PurgeDelete
      <4>4. ASSUME NEW w \in Workers, CommitPublish(w) PROVE job' = job
            BY <4>4 DEF CommitPublish, EndPublish
      <4>5. CASE UNCHANGED dbVars
            BY <4>5 DEF dbVars
      <4> QED BY <3>2, <4>1, <4>2, <4>3, <4>4, <4>5, OthersLeaveDatabase DEF DatabaseStep
    <3> QED BY <3>1, <3>2, <3>3, RowSteps
  <2> QED BY <2>1
<1>2. log[j] = <<>> /\ j \notin doomed
      BY <1>1 DEF Absent
<1>3. log'[j] = <<>>
  <2>1. ASSUME NEW i \in Jobs, Enqueue(i) PROVE log'[j] = log[j]
        BY <2>1 DEF Enqueue, DatabaseOK
  <2>2. ASSUME NEW o \in Operators, ReplayCommit(o) PROVE log'[j] = log[j]
    <3>1. request[o].job \in Jobs /\ job[request[o].job].status \in {"dead_letter", "purged"}
          BY <2>2 DEF ReplayCommit, Located, ReplaysWait
    <3> QED BY <1>1, <2>2, <3>1 DEF ReplayCommit, DatabaseOK
  <2>3. CASE PurgeDelete
        BY <1>2, <2>3 DEF PurgeDelete
  <2>4. ASSUME NEW w \in Workers, Succeed(w) \/ Retry(w) \/ DeadLetter(w) PROVE log'[j] = log[j]
    <3>1. job[cur[w]].status = "queued" /\ cur[w] \in Jobs
          BY <2>4, ExecutesQueued DEF Succeed, Retry, DeadLetter
    <3> QED BY <1>1, <2>4, <3>1 DEF Succeed, Retry, DeadLetter, CommitRun, DatabaseOK
  <2>5. ASSUME NEW w \in Workers, CommitPublish(w) PROVE log' = log
        BY <2>5 DEF CommitPublish, EndPublish
  <2>6. CASE UNCHANGED dbVars
        BY <1>2, <2>6 DEF dbVars
  <2> QED BY <1>2, <2>1, <2>2, <2>3, <2>4, <2>5, <2>6, OthersLeaveDatabase DEF DatabaseStep
<1>4. j \notin doomed'
  <2>1. CASE PurgeSelect
        BY <1>1, <2>1 DEF PurgeSelect
  <2>2. doomed' \subseteq doomed \/ PurgeSelect
    <3>1. ASSUME NEW w \in Workers, WorkerStep(w) \/ WorkerFault(w) PROVE doomed' = doomed
      <4>1. CASE Publish(w)
            BY <4>1 DEF Publish, SelectOutbox, ClaimRows, SetDedup, PushRow, CommitPublish,
                        EndPublish, apiVars
      <4>2. CASE Drain(w)
            BY <4>2 DEF Drain, ReadDue, RemoveDue, RequeueDue, apiVars
      <4>3. CASE Take(w)
            BY <4>3 DEF Take, Pop, PopTimeout, LoadQueued, SkipNonQueued, RequeueMissing, apiVars
      <4>4. CASE Run(w)
            BY <4>4 DEF Run, StartExecution, Succeed, Retry, DeadLetter, ScheduleRetry,
                        PushDeadLetter, apiVars
      <4>5. CASE WorkerFault(w)
            BY <4>5 DEF WorkerFault, SetDedupFails, PushRowFails, RollbackPublish, EndPublish,
                        RollbackRun, AfterCommitFails, Crash, apiVars
      <4> QED BY <3>1, <4>1, <4>2, <4>3, <4>4, <4>5 DEF WorkerStep
    <3>2. ASSUME NEW o \in Operators, Operate(o) PROVE doomed' = doomed
          BY <3>2 DEF Operate, ReplayRequest, ReplayCommit, AckRequest, AckRemove, AckCommit,
                      RequestFails
    <3>3. CASE PurgeDelete \/ UNCHANGED vars
          BY <3>3 DEF PurgeDelete, vars, apiVars
    <3>4. ASSUME NEW i \in Jobs, Enqueue(i) \/ BecomeDue(i) PROVE doomed' = doomed
          BY <3>4 DEF Enqueue, BecomeDue, apiVars
    <3> QED BY <3>1, <3>2, <3>3, <3>4 DEF Next
  <2> QED BY <1>2, <2>1, <2>2
<1> QED BY <1>3, <1>4


LInv == CInv /\ Absent

\* The events of a run follow those of the job in one piece.
LEMMA EventsInOnePiece ==
  ASSUME NEW s \in Seq(EventTypes), NEW events \in Seq(EventTypes)
  PROVE  /\ s \o <<>> \o events = s \o events
         /\ <<>> \o events = events
         /\ s \o <<"running">> \o events = s \o (<<"running">> \o events)
<1>1. <<>> \in Seq(EventTypes) /\ <<"running">> \in Seq(EventTypes)
      BY RunOutcomes
<1> QED BY <1>1, ConcatEmptySeq, ConcatAssociative

LEMMA EventsOfRun ==
  /\ <<"running">> \o <<"success">> = <<"running", "success">>
  /\ <<"running">> \o <<"failed", "retry_scheduled">> = <<"running", "failed", "retry_scheduled">>
  /\ <<"running">> \o <<"failed", "dead_letter">> = <<"running", "failed", "dead_letter">>
<1>1. ASSUME NEW a \in EventTypes, NEW b \in EventTypes
      PROVE  <<a>> \o <<b>> = <<a, b>>
  <2>1. <<a>> \in Seq(EventTypes) /\ <<b>> \in Seq(EventTypes) /\ <<a, b>> \in Seq(EventTypes)
        OBVIOUS
  <2>2. Len(<<a>> \o <<b>>) = 2 /\ <<a>> \o <<b>> \in Seq(EventTypes)
        BY <2>1, ConcatProperties
  <2>3. \A i \in 1 .. 2 : (<<a>> \o <<b>>)[i] = <<a, b>>[i]
        BY <2>1, ConcatProperties
  <2> QED BY <2>1, <2>2, <2>3, SeqEqual
<1>2. ASSUME NEW a \in EventTypes, NEW b \in EventTypes, NEW c \in EventTypes
      PROVE  <<a>> \o <<b, c>> = <<a, b, c>>
  <2>1. /\ <<a>> \in Seq(EventTypes) /\ <<b, c>> \in Seq(EventTypes)
        /\ <<a, b, c>> \in Seq(EventTypes)
        OBVIOUS
  <2>2. Len(<<a>> \o <<b, c>>) = 3 /\ <<a>> \o <<b, c>> \in Seq(EventTypes)
        BY <2>1, ConcatProperties
  <2>3. \A i \in 1 .. 3 : (<<a>> \o <<b, c>>)[i] = <<a, b, c>>[i]
        BY <2>1, ConcatProperties
  <2> QED BY <2>1, <2>2, <2>3, SeqEqual
<1>3. {"running", "success", "failed", "retry_scheduled", "dead_letter"} \subseteq EventTypes
      BY DEF EventTypes
<1> QED BY <1>1, <1>2, <1>3

\* A run is one step of the lifecycle: it writes what it would have written, had
\* it read the row in the step that commits.
LEMMA RunIsAttempt ==
  ASSUME CInv, NEW w \in Workers, pc[w] = "exec", NEW status \in Statuses,
         NEW events \in Seq(EventTypes), CommitRun(w, status, events)
  PROVE  /\ job[cur[w]].status = "queued" /\ cur[w] \in Jobs
         /\ job[cur[w]].attempts \in Nat
         /\ cur[w] \in Registered =>
              /\ Attempt(w) = job[cur[w]].attempts + 1
              /\ Lifecycle!Set(cur[w], status, Attempt(w), <<"running">> \o events)
         /\ cur[w] \notin Registered =>
              /\ Attempt(w) = 1
              /\ Lifecycle!Set(cur[w], status, 1, events)
<1> USE DEF CInv, IInv, TypeOK
<1>1. /\ job[cur[w]] = snap[w] /\ job[cur[w]].status = "queued" /\ cur[w] \in Jobs
      BY ExecutesQueued
<1>2. job[cur[w]].attempts \in Nat /\ log[cur[w]] \in Seq(EventTypes)
      BY <1>1 DEF DatabaseOK, JobRow
<1>3. cur[w] \notin Registered => snap[w].attempts <= 1
      BY DEF LoadedInBudget
<1>4. /\ cur[w] \in Registered => Attempt(w) = job[cur[w]].attempts + 1
      /\ cur[w] \notin Registered => Attempt(w) = 1
      BY <1>1, <1>2, <1>3 DEF Attempt
<1>5. job' = [job EXCEPT ![cur[w]] = [status |-> status, attempts |-> Attempt(w)]]
      BY <1>1 DEF CommitRun
<1>6. log' = [log EXCEPT ![cur[w]] = log[cur[w]] \o StartEvents(w) \o events]
      BY DEF CommitRun
<1>7. CASE cur[w] \in Registered
  <2>1. log[cur[w]] \o StartEvents(w) \o events = log[cur[w]] \o (<<"running">> \o events)
        BY <1>2, <1>7, EventsInOnePiece DEF StartEvents
  <2>2. Lifecycle!Set(cur[w], status, Attempt(w), <<"running">> \o events)
        BY <1>5, <1>6, <2>1 DEF Lifecycle!Set
  <2> QED BY <1>1, <1>2, <1>4, <1>7, <2>2
<1>8. CASE cur[w] \notin Registered
  <2>1. log[cur[w]] \o StartEvents(w) \o events = log[cur[w]] \o events
        BY <1>2, <1>8, EventsInOnePiece DEF StartEvents
  <2>2. Lifecycle!Set(cur[w], status, 1, events)
        BY <1>4, <1>5, <1>6, <1>8, <2>1 DEF Lifecycle!Set
  <2> QED BY <1>1, <1>2, <1>4, <1>8, <2>2
<1> QED BY <1>7, <1>8

LEMMA StepIsLifecycle == LInv /\ [Next]_vars => [Lifecycle!Next]_<<job, log>>
<1> SUFFICES ASSUME LInv, [Next]_vars PROVE Lifecycle!Next \/ UNCHANGED <<job, log>>
    OBVIOUS
<1> USE DEF LInv, CInv, IInv, TypeOK
<1>1. ASSUME NEW j \in Jobs, Enqueue(j) PROVE Lifecycle!Next
  <2>1. log[j] = <<>> /\ job[j].status = "absent"
        BY <1>1 DEF Enqueue, Absent
  <2>2. log[j] \o <<"queued">> = <<"queued">>
    <3>1. <<"queued">> \in Seq(EventTypes)
          BY DEF EventTypes
    <3> QED BY <2>1, <3>1, EventsInOnePiece
  <2>3. Lifecycle!Set(j, "queued", 0, <<"queued">>)
        BY <1>1, <2>2 DEF Enqueue, Lifecycle!Set
  <2> QED BY <2>1, <2>3 DEF Lifecycle!Next, Lifecycle!Enqueue
<1>2. ASSUME NEW o \in Operators, ReplayCommit(o) PROVE Lifecycle!Next \/ UNCHANGED <<job, log>>
  <2>1. PICK j \in Jobs : j = request[o].job
        BY <1>2 DEF ReplayCommit, Located
  <2>2. job[j].status \in {"dead_letter", "purged"}
        BY <1>2, <2>1 DEF ReplayCommit, ReplaysWait
  <2>3. CASE job[j].status = "dead_letter"
    <3>1. /\ job' = [job EXCEPT ![j] = [status |-> "queued", attempts |-> 0]]
          /\ log' = [log EXCEPT ![j] = Append(log[j], "replayed")]
          BY <1>2, <2>1, <2>3 DEF ReplayCommit
    <3>2. Append(log[j], "replayed") = log[j] \o <<"replayed">>
      <4>1. log[j] \in Seq(EventTypes) /\ "replayed" \in EventTypes
            BY DEF DatabaseOK, EventTypes
      <4> QED BY <4>1, AppendIsConcat
    <3>3. Lifecycle!Set(j, "queued", 0, <<"replayed">>)
          BY <3>1, <3>2 DEF Lifecycle!Set
    <3> QED BY <2>3, <3>3 DEF Lifecycle!Next, Lifecycle!Replay
  <2>4. CASE job[j].status = "purged"
        BY <1>2, <2>1, <2>4 DEF ReplayCommit
  <2> QED BY <2>2, <2>3, <2>4
<1>3. CASE PurgeDelete
  <2>1. doomed \in SUBSET Jobs
        BY DEF RequestsOK
  <2>2. \A j \in doomed : job[j].status \in {"queued", "success", "dead_letter", "purged"}
        BY <2>1 DEF DatabaseOK, JobRow, Statuses, Absent
  <2>3. Lifecycle!Purge(doomed)
        BY <1>3, <2>2 DEF PurgeDelete, Lifecycle!Purge
  <2> QED BY <2>1, <2>3 DEF Lifecycle!Next
<1>4. ASSUME NEW w \in Workers, Succeed(w) PROVE Lifecycle!Next
  <2>1. /\ pc[w] = "exec" /\ cur[w] \in Registered
        /\ CommitRun(w, "success", <<"success">>)
        BY <1>4 DEF Succeed
  <2>2. <<"running">> \o <<"success">> = <<"running", "success">>
        BY EventsOfRun
  <2>3. /\ job[cur[w]].status = "queued" /\ cur[w] \in Jobs
        /\ Lifecycle!Set(cur[w], "success", job[cur[w]].attempts + 1, <<"running", "success">>)
        BY <2>1, <2>2, RunOutcomes, RunIsAttempt
  <2>4. Lifecycle!Succeed(cur[w])
        BY <2>1, <2>3 DEF Lifecycle!Succeed
  <2> QED BY <2>3, <2>4 DEF Lifecycle!Next
<1>5. ASSUME NEW w \in Workers, Retry(w) PROVE Lifecycle!Next
  <2>1. /\ pc[w] = "exec" /\ Attempt(w) < MaxAttempts[cur[w]]
        /\ CommitRun(w, "queued", <<"failed", "retry_scheduled">>)
        BY <1>5 DEF Retry
  <2>2. <<"running">> \o <<"failed", "retry_scheduled">> = <<"running", "failed", "retry_scheduled">>
        BY EventsOfRun
  <2>3. PICK j \in Jobs : j = cur[w]
        BY <2>1, ExecutesQueued
  <2>4. /\ job[j].status = "queued"
        /\ j \in Registered =>
             /\ Attempt(w) = job[j].attempts + 1
             /\ Lifecycle!Set(j, "queued", Attempt(w), <<"running", "failed", "retry_scheduled">>)
        /\ j \notin Registered =>
             /\ Attempt(w) = 1
             /\ Lifecycle!Set(j, "queued", 1, <<"failed", "retry_scheduled">>)
        BY <2>1, <2>2, <2>3, RunOutcomes, RunIsAttempt
  <2>5. CASE j \in Registered
    <3>1. Lifecycle!Fail(j)
          BY <2>1, <2>3, <2>4, <2>5 DEF Lifecycle!Fail
    <3> QED BY <3>1 DEF Lifecycle!Next
  <2>6. CASE j \notin Registered
    <3>1. Lifecycle!FailUnregistered(j)
          BY <2>1, <2>3, <2>4, <2>6 DEF Lifecycle!FailUnregistered
    <3> QED BY <3>1 DEF Lifecycle!Next
  <2> QED BY <2>5, <2>6
<1>6. ASSUME NEW w \in Workers, DeadLetter(w) PROVE Lifecycle!Next
  <2>1. /\ pc[w] = "exec" /\ Attempt(w) >= MaxAttempts[cur[w]]
        /\ CommitRun(w, "dead_letter", <<"failed", "dead_letter">>)
        BY <1>6 DEF DeadLetter
  <2>2. <<"running">> \o <<"failed", "dead_letter">> = <<"running", "failed", "dead_letter">>
        BY EventsOfRun
  <2>3. PICK j \in Jobs : j = cur[w]
        BY <2>1, ExecutesQueued
  <2>4. /\ job[j].status = "queued" /\ job[j].attempts \in Nat
        /\ j \in Registered =>
             /\ Attempt(w) = job[j].attempts + 1
             /\ Lifecycle!Set(j, "dead_letter", Attempt(w), <<"running", "failed", "dead_letter">>)
        /\ j \notin Registered =>
             /\ Attempt(w) = 1
             /\ Lifecycle!Set(j, "dead_letter", 1, <<"failed", "dead_letter">>)
        BY <2>1, <2>2, <2>3, RunOutcomes, RunIsAttempt
  <2>5. MaxAttempts[j] \in Nat \ {0} /\ job[j].attempts < MaxAttempts[j]
        BY <2>4, AttemptsAssumption DEF RetryBudget
  <2>6. CASE j \in Registered
    <3>1. Attempt(w) = MaxAttempts[j] /\ ~(job[j].attempts + 1 < MaxAttempts[j])
          BY <2>1, <2>3, <2>4, <2>5, <2>6
    <3>2. Lifecycle!Fail(j)
          BY <2>4, <2>6, <3>1 DEF Lifecycle!Fail
    <3> QED BY <3>2 DEF Lifecycle!Next
  <2>7. CASE j \notin Registered
    <3>1. ~(MaxAttempts[j] > 1)
          BY <2>1, <2>3, <2>4, <2>5, <2>7
    <3>2. Lifecycle!FailUnregistered(j)
          BY <2>4, <2>7, <3>1 DEF Lifecycle!FailUnregistered
    <3> QED BY <3>2 DEF Lifecycle!Next
  <2> QED BY <2>6, <2>7
<1>7. ASSUME NEW w \in Workers, CommitPublish(w) PROVE UNCHANGED <<job, log>>
      BY <1>7 DEF CommitPublish, EndPublish
<1>8. CASE UNCHANGED dbVars
      BY <1>8 DEF dbVars
<1> QED BY <1>1, <1>2, <1>3, <1>4, <1>5, <1>6, <1>7, <1>8, OthersLeaveDatabase DEF DatabaseStep

\* With the same hypothesis the queue implements JobLifecycle: crashes, stale
\* reads and several workers leave no trace in a job's row and events that one
\* worker, alone and without Redis, would not have left.
THEOREM QueueIsLifecycle == Spec /\ []OneReplayAtATime => LifecycleSpec
<1>1. Init => LInv
  <2>1. Init => Absent
        BY DEF Init, Absent
  <2> QED BY <2>1, InitCInv DEF LInv
<1>2. LInv /\ OneReplayAtATime /\ [Next]_vars => LInv'
      BY CInvSteps, AbsentStays DEF LInv
<1>3. Init => Lifecycle!Init
      BY DEF Init, Unread, Lifecycle!Init
<1>4. LInv /\ [Next]_vars => [Lifecycle!Next]_(Lifecycle!vars)
      BY StepIsLifecycle DEF Lifecycle!vars
<1> QED BY <1>1, <1>2, <1>3, <1>4, PTL DEF Spec, LifecycleSpec, Lifecycle!Spec

-----------------------------------------------------------------------------
(* Dead letters.                                                           *)


\* What a step without a fault may take from the reasons why a dead letter needs
\* no list: the worker that carries it, a request that removes it, the list, and
\* the acknowledgement.
LEMMA ListedStays ==
  ASSUME IInv, DeadLettersListed, [Next]_vars, faults' = 0, faults = 0
  PROVE  DeadLettersListed'
<1> SUFFICES ASSUME NEW j \in Jobs, job'[j].status = "dead_letter",
                    \A w \in Workers : ~(pc'[w] = "dlq" /\ cur'[w] = j),
                    \A o \in Operators : ~(request'[o].op = "audit" /\ request'[o].job = j)
             PROVE  dlq'[j] > 0 \/ j \in acked'
    BY DEF DeadLettersListed
<1> USE DEF IInv, TypeOK
<1>0. dlq[j] \in Nat
      BY DEF RedisOK
<1>1. ASSUME job'[j] = job[j], dlq'[j] = dlq[j], acked' = acked,
             \A w \in Workers : pc[w] = "dlq" /\ cur[w] = j => pc'[w] = "dlq" /\ cur'[w] = j,
             \A o \in Operators : request[o].op = "audit" /\ request[o].job = j
                                    => request'[o].op = "audit" /\ request'[o].job = j
      PROVE  dlq'[j] > 0 \/ j \in acked'
      BY <1>1 DEF DeadLettersListed
<1>2. ASSUME NEW i \in Jobs, Enqueue(i) \/ BecomeDue(i) PROVE dlq'[j] > 0 \/ j \in acked'
  <2>1. job'[j] = job[j]
        BY <1>2 DEF Enqueue, BecomeDue, dbVars, DatabaseOK
  <2>2. UNCHANGED <<dlq, acked, pc, cur, request>>
        BY <1>2 DEF Enqueue, BecomeDue, redisVars, apiVars, workerVars
  <2> QED BY <1>1, <2>1, <2>2
<1>3. CASE PurgeSelect \/ PurgeDelete \/ UNCHANGED vars
  <2>1. job'[j] = job[j]
        BY <1>3 DEF PurgeSelect, PurgeDelete, vars, dbVars
  <2>2. UNCHANGED <<dlq, acked, pc, cur, request>>
        BY <1>3 DEF PurgeSelect, PurgeDelete, vars, redisVars, apiVars, workerVars
  <2> QED BY <1>1, <2>1, <2>2
<1>4. ASSUME NEW o \in Operators, Operate(o) PROVE dlq'[j] > 0 \/ j \in acked'
  <2>1. UNCHANGED <<pc, cur>>
        BY <1>4 DEF Operate, ReplayRequest, ReplayCommit, AckRequest, AckRemove, AckCommit,
                    RequestFails, workerVars
  <2>2. ASSUME NEW i \in Jobs, ReplayRequest(o, i) \/ AckRequest(o, i)
        PROVE  dlq'[j] > 0 \/ j \in acked'
    <3>1. UNCHANGED <<job, dlq, acked>> /\ request[o] = Idle
          BY <2>2 DEF ReplayRequest, AckRequest, dbVars, redisVars
    <3>2. \A p \in Operators \ {o} : request'[p] = request[p]
          BY <2>2 DEF ReplayRequest, AckRequest, RequestsOK
    <3> QED BY <1>1, <2>1, <3>1, <3>2 DEF Idle
  <2>3. CASE ReplayCommit(o)
    <3>1. job'[j] = job[j] /\ UNCHANGED <<dlq, acked>> /\ request[o].op # "audit"
          BY <2>3 DEF ReplayCommit, redisVars, DatabaseOK, Located
    <3>2. \A p \in Operators \ {o} : request'[p] = request[p]
          BY <2>3 DEF ReplayCommit, RequestsOK
    <3> QED BY <1>1, <2>1, <3>1, <3>2
  <2>4. CASE AckRemove(o)
    <3>1. request[o].job \in Jobs /\ request'[o].op = "audit" /\ request'[o].job = request[o].job
          BY <2>4 DEF AckRemove, RequestsOK, Located
    <3>2. request[o].job # j
          BY <3>1
    <3>3. dlq'[j] = dlq[j] /\ UNCHANGED <<job, acked>>
          BY <2>4, <3>1, <3>2 DEF AckRemove, RedisOK, dbVars
    <3>4. \A p \in Operators \ {o} : request'[p] = request[p]
          BY <2>4 DEF AckRemove, RequestsOK
    <3> QED BY <1>1, <2>1, <3>2, <3>3, <3>4
  <2>5. CASE AckCommit(o)
    <3>1. UNCHANGED <<job, dlq>> /\ acked' = acked \cup {request[o].job}
          BY <2>5 DEF AckCommit, dbVars, redisVars
    <3>2. \A p \in Operators \ {o} : request'[p] = request[p]
          BY <2>5 DEF AckCommit, RequestsOK
    <3>3. CASE request[o].job = j
          BY <3>1, <3>3
    <3>4. CASE request[o].job # j
      <4>1. \A p \in Operators : request[p].op = "audit" => request[p].job # j
            BY <3>2, <3>4
      <4>2. \A w \in Workers : ~(pc[w] = "dlq" /\ cur[w] = j)
            BY <2>1
      <4> QED BY <3>1, <4>1, <4>2 DEF DeadLettersListed
    <3> QED BY <3>3, <3>4
  <2>6. CASE RequestFails(o)
        BY <2>6 DEF RequestFails, Fault
  <2> QED BY <1>4, <2>2, <2>3, <2>4, <2>5, <2>6 DEF Operate
<1>5. ASSUME NEW w \in Workers, WorkerFault(w) PROVE FALSE
      BY <1>5 DEF WorkerFault, SetDedupFails, PushRowFails, RollbackPublish, RollbackRun,
                  AfterCommitFails, Crash, Fault
<1>6. ASSUME NEW w \in Workers, WorkerStep(w) PROVE dlq'[j] > 0 \/ j \in acked'
  <2>1. request' = request
        BY <1>6 DEF WorkerStep, Publish, SelectOutbox, ClaimRows, SetDedup, PushRow, CommitPublish,
                    EndPublish, Drain, ReadDue, RemoveDue, RequeueDue, Take, Pop, PopTimeout,
                    LoadQueued, SkipNonQueued, RequeueMissing, Run, StartExecution, Succeed, Retry,
                    DeadLetter, ScheduleRetry, PushDeadLetter, apiVars
  <2>2. \A v \in Workers \ {w} : pc'[v] = pc[v] /\ cur'[v] = cur[v]
        BY <1>6, WorkerBusy DEF Busy
  <2>3. CASE pc[w] = "dlq"
    <3>1. PushDeadLetter(w)
          BY <1>6, <2>3 DEF WorkerStep, Publish, SelectOutbox, ClaimRows, SetDedup, PushRow,
                    CommitPublish, EndPublish, Drain, ReadDue, RemoveDue, RequeueDue, Take, Pop,
                    PopTimeout, LoadQueued, SkipNonQueued, RequeueMissing, Run, StartExecution,
                    Succeed, Retry, DeadLetter, ScheduleRetry
    <3>2. UNCHANGED <<job, acked>> /\ cur[w] \in Jobs /\ dlq' = [dlq EXCEPT ![cur[w]] = @ + 1]
          BY <3>1 DEF PushDeadLetter, dbVars, apiVars, Located
    <3>3. CASE cur[w] = j
      <4>1. dlq'[j] = dlq[j] + 1
            BY <3>2, <3>3 DEF RedisOK
      <4> QED BY <1>0, <4>1
    <3>4. CASE cur[w] # j
      <4>1. dlq'[j] = dlq[j]
            BY <3>2, <3>4 DEF RedisOK
      <4> QED BY <1>1, <2>1, <2>2, <3>2, <3>4, <4>1
    <3> QED BY <3>3, <3>4
  <2>4. CASE pc[w] # "dlq"
    <3>1. CASE DeadLetter(w) \/ Succeed(w) \/ Retry(w)
      <4>1. cur[w] \in Jobs /\ dlq' = dlq
            BY <3>1 DEF DeadLetter, Succeed, Retry, Located, redisVars
      <4>2. CASE cur[w] = j
        <5>1. DeadLetter(w)
          <6>1. ASSUME NEW status \in Statuses, NEW events, CommitRun(w, status, events)
                PROVE  job'[j].status = status
                BY <4>1, <4>2, <6>1 DEF CommitRun, DatabaseOK
          <6> QED BY <3>1, <6>1, RunOutcomes DEF Succeed, Retry
        <5> QED BY <4>2, <5>1 DEF DeadLetter, Goto, WorkersOK
      <4>3. CASE cur[w] # j
        <5>1. job'[j] = job[j]
              BY <3>1, <4>1, <4>3 DEF DeadLetter, Succeed, Retry, CommitRun, DatabaseOK
        <5>2. j \in acked' <=> j \in acked
              BY <3>1, <4>3 DEF DeadLetter, Succeed, Retry, apiVars
        <5>3. /\ \A v \in Workers : ~(pc[v] = "dlq" /\ cur[v] = j)
              /\ \A o \in Operators : ~(request[o].op = "audit" /\ request[o].job = j)
              BY <2>1, <2>2, <4>3
        <5> QED BY <4>1, <5>1, <5>2, <5>3 DEF DeadLettersListed
      <4> QED BY <4>2, <4>3
    <3>2. CASE ~(DeadLetter(w) \/ Succeed(w) \/ Retry(w))
      <4>1. UNCHANGED <<job, dlq, acked>>
            BY <1>6, <2>4, <3>2 DEF WorkerStep, Publish, SelectOutbox, ClaimRows, SetDedup, PushRow,
                    CommitPublish, EndPublish, Drain, ReadDue, RemoveDue, RequeueDue, Take, Pop,
                    PopTimeout, LoadQueued, SkipNonQueued, RequeueMissing, Run, StartExecution,
                    ScheduleRetry, PushDeadLetter, dbVars, redisVars, apiVars
      <4> QED BY <1>1, <2>1, <2>2, <2>4, <4>1
    <3> QED BY <3>1, <3>2
  <2> QED BY <2>3, <2>4
<1> QED BY <1>2, <1>3, <1>4, <1>5, <1>6 DEF Next

\* Until the first fault every dead letter that nobody acknowledged is in the
\* Redis list that operators triage, for any number of overlapping replays,
\* acknowledgements and retention runs.
THEOREM DeadLettersInList == Spec => [](faults = 0 => DeadLettersListed)
<1> DEFINE Inv == IInv /\ (faults = 0 => DeadLettersListed)
<1>1. Init => Inv
  <2>1. Init => DeadLettersListed
        BY DEF Init, Unread, DeadLettersListed
  <2> QED BY <2>1, InitIInv
<1>2. Inv /\ [Next]_vars => Inv'
  <2> SUFFICES ASSUME Inv, [Next]_vars PROVE Inv'
      OBVIOUS
  <2>1. IInv'
        BY IInvSteps
  <2>2. faults' = 0 => faults = 0
    <3>1. faults' = faults \/ faults' = faults + 1
      <4>1. ASSUME NEW w \in Workers, WorkerFault(w) PROVE faults' = faults + 1
            BY <4>1 DEF WorkerFault, SetDedupFails, PushRowFails, RollbackPublish, RollbackRun,
                        AfterCommitFails, Crash, Fault
      <4>2. ASSUME NEW w \in Workers, WorkerStep(w) PROVE faults' = faults
            BY <4>2 DEF WorkerStep, Publish, SelectOutbox, ClaimRows, SetDedup, PushRow,
                    CommitPublish, Drain, ReadDue, RemoveDue, RequeueDue, Take, Pop, PopTimeout,
                    LoadQueued, SkipNonQueued, RequeueMissing, Run, StartExecution, Succeed, Retry,
                    DeadLetter, ScheduleRetry, PushDeadLetter
      <4>3. ASSUME NEW o \in Operators, Operate(o) PROVE faults' = faults \/ faults' = faults + 1
            BY <4>3 DEF Operate, ReplayRequest, ReplayCommit, AckRequest, AckRemove, AckCommit,
                        RequestFails, Fault
      <4>4. CASE PurgeSelect \/ PurgeDelete \/ UNCHANGED vars
            BY <4>4 DEF PurgeSelect, PurgeDelete, vars
      <4>5. ASSUME NEW i \in Jobs, Enqueue(i) \/ BecomeDue(i) PROVE faults' = faults
            BY <4>5 DEF Enqueue, BecomeDue
      <4> QED BY <4>1, <4>2, <4>3, <4>4, <4>5 DEF Next
    <3>2. faults \in Nat
          BY BoundsAssumption DEF IInv, TypeOK, RequestsOK
    <3> QED BY <3>1, <3>2
  <2> QED BY <2>1, <2>2, ListedStays
<1>3. Inv => (faults = 0 => DeadLettersListed)
      OBVIOUS
<1> HIDE DEF Inv
<1> QED BY <1>1, <1>2, <1>3, PTL DEF Spec

=============================================================================
