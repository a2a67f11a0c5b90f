-------------------------- MODULE WorkflowExecution --------------------------
(***************************************************************************)
(* Executions of the workflow engine (services/workflow_engine.py), moved  *)
(* on by the periodic cycle and by requests that decide approvals, cancel  *)
(* and replay.                                                             *)
(*                                                                         *)
(* A pass of the cycle is one transaction that holds the row lock of its   *)
(* execution: what it writes is in tx until it commits.  Requests lock the *)
(* same row, but what they have read before the lock they keep: a decision *)
(* uses its first copy of the approval, a cancellation what each of its    *)
(* statements has read of the executions below.  Everything else of an     *)
(* execution (steps, approval, event log) is only written under its lock   *)
(* and is part of its record.                                              *)
(***************************************************************************)
EXTENDS Integers, Sequences, FiniteSets

CONSTANTS
  Workers,      \* processes that run the cycle
  Operators,    \* requests in flight
  MaxExecs,     \* bound: executions ever created
  Flows,        \* workflow definitions
  Demands,      \* bound: how often requests start, or replay, each flow
  Nodes,        \* nodes of their graphs
  Entry,        \* the entry node of a flow
  Kind,         \* the type of a node
  Succ,         \* the node that follows, by outcome
  Target,       \* the flow that a SUBFLOW node calls
  Tries,        \* max_attempts of an ACTION node
  Undoable,     \* ACTION nodes with a compensation
  Compensating, \* flows with on_failure COMPENSATE
  Tolerant,     \* SUBFLOW nodes with failure_policy CONTINUE
  Serial,       \* flows with concurrency_policy SERIALIZE
  MaxActive,    \* max_active_executions of a flow
  MaxAttempts,  \* max_attempts of an execution: five in the code
  MaxFaults,    \* bound: exceptions and crashes of a pass
  None, Purged

\* The outcomes by which a node of each kind can be left.
Outcomes == [ACTION |-> {"next"}, APPROVAL |-> {"approved", "rejected", "timeout"},
             CONDITION |-> {"true", "false"}, END |-> {}, SUBFLOW |-> {"next"}, WAIT |-> {"next"}]

After(n) == {Succ[n][o] : o \in Outcomes[Kind[n]]}

\* What validate_workflow_definition accepts: edges for every outcome, no cycle.
ASSUME GraphAssumption ==
  /\ Entry \in [Flows -> Nodes]
  /\ Kind \in [Nodes -> {"ACTION", "APPROVAL", "CONDITION", "END", "SUBFLOW", "WAIT"}]
  /\ \A n \in Nodes : After(n) \subseteq Nodes
  /\ \A S \in SUBSET Nodes \ {{}} : \E n \in S : After(n) \cap S = {}
  /\ \A n \in Nodes : Kind[n] = "SUBFLOW" => Target[n] \in Flows
  /\ Undoable \subseteq {n \in Nodes : Kind[n] = "ACTION"}
  /\ Serial \subseteq Flows /\ Compensating \subseteq Flows
ASSUME LimitsAssumption ==
  /\ MaxExecs \in Nat /\ MaxFaults \in Nat /\ MaxAttempts \in Nat \ {0}
  /\ Tries \in [Nodes -> Nat \ {0}] /\ MaxActive \in [Flows -> Nat \ {0}]
  /\ Demands \subseteq [Flows -> Nat]

VARIABLES
  run,     \* the executions, in the order of their creation
  tx,      \* the transaction of each worker
  req,     \* the request of each operator
  demand,  \* what is left of the demand chosen at the start
  faults

vars == <<run, tx, req, demand, faults>>

Execs == 1 .. MaxExecs

Terminal == {"SUCCEEDED", "FAILED", "CANCELLED", "DEAD_LETTER", "DROPPED"}
Claimable == {"QUEUED", "RETRY", "WAITING_TIMER", "WAITING_APPROVAL", "WAITING_SUBFLOW"}

Events == {"queued", "dropped", "moved", "retry", "waiting", "decided", "expired", "done",
           "compensating", "undone", "undo_failed", "failed", "succeeded", "cancelled"}

Steps == [node : Nodes,
          status : {"PENDING", "WAITING", "SUCCEEDED", "FAILED"},
          tries : Nat,
          child : 0 .. MaxExecs,   \* of a SUBFLOW node
          \* of an APPROVAL node:
          approval : {"none", "PENDING", "APPROVED", "REJECTED", "EXPIRED", "CANCELLED"},
          lapsed : BOOLEAN]        \* expires_at of the approval has passed

Rows == [flow : Flows,
         key : (Execs \X Nodes) \cup {<<>>},  \* idempotency key of a subflow
         status : Terminal \cup Claimable \cup {"RUNNING", "COMPENSATING"},
         node : Nodes,
         tries : Nat,
         due : BOOLEAN,       \* next_run_at has passed
         steps : Seq(Steps),  \* in the order of sequence_number
         log : Seq(Events \X Nodes),
         revived : BOOLEAN,   \* history: has left a terminal status
         overtaken : BOOLEAN] \* history: had moved on since its cancellation read it

\* What a cancellation has read of an execution, and when: at which length of the log.
Copies == [node : Nodes, seen : Nat, pending : SUBSET Nodes]

Cancellations == [cancel : Execs,
                  copy : [Execs -> Copies \cup {None}],
                  open : SUBSET Execs,   \* read, and still to be written
                  at : Execs,            \* the call it is in, and how far this has come
                  stage : {"row", "approvals", "number", "flush"},
                  number : Nat]          \* of the last event, as read

ASSUME NoneAssumption == None \notin Rows \cup Copies /\ Purged \notin Rows

Passes == [e : Execs, row : Rows,
           verdict : {"none", "FAILED", "DEAD_LETTER"},
           cursor : Nat,                       \* compensation goes on below it
           child : 0 .. MaxExecs, born : Rows \cup {None}]

TypeOK ==
  /\ run \in [Execs -> Rows \cup {None, Purged}]
  /\ tx \in [Workers -> Passes \cup [failed : Execs] \cup {None}]
  /\ req \in [Operators -> [decide : Execs, node : Nodes]
                             \cup Cancellations \cup {None}]
  /\ demand \in [Flows -> Nat]
  /\ faults \in 0 .. MaxFaults

Init ==
  /\ run = [e \in Execs |-> None]
  /\ tx = [w \in Workers |-> None]
  /\ req = [o \in Operators |-> None]
  /\ demand \in Demands
  /\ faults = 0

-----------------------------------------------------------------------------
(* Rows.                                                                   *)

Exists(e) == run[e] \notin {None, Purged}
Ended(e) == run[e].status \in Terminal
Active(f) == {e \in Execs : Exists(e) /\ run[e].flow = f /\ ~Ended(e)}

Passing(w) == tx[w] # None /\ "row" \in DOMAIN tx[w]
Cancelling(o) == req[o] # None /\ "cancel" \in DOMAIN req[o]
Deciding(o) == req[o] # None /\ "decide" \in DOMAIN req[o]

\* The executions that a cancellation has read, and those it has locked: its own
\* and those it has flushed.
Reached(q) == {e \in Execs : q.copy[e] # None}
Held(q) == {q.cancel} \cup (Reached(q) \ q.open)

\* Nobody holds the row lock of e.
Free(e) ==
  /\ \A w \in Workers : Passing(w) => tx[w].e # e
  /\ \A o \in Operators : Cancelling(o) => e \notin Held(req[o])

\* The next identity: rows that a pass has inserted but not committed count.
Taken(d) == run[d] # None \/ \E w \in Workers : Passing(w) /\ tx[w].child = d

Fresh(e) == \A d \in Execs : (d >= e => ~Taken(d)) /\ (d + 1 = e => Taken(d))

Note(r, what) == [r EXCEPT !.log = Append(@, <<what, r.node>>)]

StepIndex(r, n) == {i \in 1 .. Len(r.steps) : r.steps[i].node = n}

\* _get_or_create_step: the step of a node, and its new contents.
StepOf(r, n) ==
  IF StepIndex(r, n) = {}
  THEN [node |-> n, status |-> "PENDING", tries |-> 0, child |-> 0, approval |-> "none", lapsed |-> FALSE]
  ELSE r.steps[CHOOSE i \in StepIndex(r, n) : TRUE]

PutStep(r, s) ==
  IF StepIndex(r, s.node) = {} THEN [r EXCEPT !.steps = Append(@, s)]
  ELSE [r EXCEPT !.steps = [i \in DOMAIN @ |-> IF @[i].node = s.node THEN s ELSE @[i]]]

Approval(r, n) == StepOf(r, n).approval
SetApproval(r, n, status) == PutStep(r, [StepOf(r, n) EXCEPT !.approval = status])

\* The step of the current node is done and the execution moves along outcome.
MoveOn(r, outcome, what) ==
  LET s == [StepOf(r, r.node) EXCEPT !.status = "SUCCEEDED"]
  IN [Note(PutStep(r, s), what) EXCEPT !.node = Succ[r.node][outcome], !.status = "RUNNING"]

\* The step waits; the execution is looked at again when it becomes due.
Park(r, status, child) ==
  LET s == [StepOf(r, r.node) EXCEPT !.status = "WAITING", !.child = child]
  IN [Note(PutStep(r, s), "waiting") EXCEPT !.status = status, !.due = FALSE]

\* enqueue_workflow_execution without a previous execution of the same key.
NewRow(f, key) ==
  LET full == Cardinality(Active(f)) >= MaxActive[f]
  IN [flow |-> f, key |-> key,
      status |-> IF full THEN "DROPPED" ELSE "QUEUED",
      node |-> Entry[f], tries |-> 0, due |-> TRUE, steps |-> <<>>,
      log |-> <<<<IF full THEN "dropped" ELSE "queued", Entry[f]>>>>,
      revived |-> FALSE, overtaken |-> FALSE]

-----------------------------------------------------------------------------
(* Requests that create executions, and time.                              *)

\* A manual start locks the workflow row and enqueues.
Start(f) ==
  /\ demand[f] > 0 /\ demand' = [demand EXCEPT ![f] = @ - 1]
  /\ \E e \in Execs : Fresh(e) /\ run' = [run EXCEPT ![e] = NewRow(f, <<>>)]
  /\ UNCHANGED <<tx, req, faults>>

\* replay_workflow_execution: a new execution, under a fresh key, of a run that
\* did not succeed.
Replay(e) ==
  /\ Exists(e) /\ run[e].status \in Terminal \ {"SUCCEEDED"} /\ Free(e)
  /\ Start(run[e].flow)

Lapsed(r, n) == PutStep(r, [StepOf(r, n) EXCEPT !.lapsed = TRUE])

\* next_run_at passes; for a pending approval it is expires_at.
BecomeDue(e) ==
  /\ Exists(e) /\ ~Ended(e) /\ ~run[e].due /\ Free(e)
  /\ LET r == [run[e] EXCEPT !.due = TRUE]
     IN run' = [run EXCEPT ![e] = IF r.status = "WAITING_APPROVAL" THEN Lapsed(r, r.node) ELSE r]
  /\ UNCHANGED <<tx, req, demand, faults>>

\* expires_at passes while the execution is elsewhere: only a request that
\* still has the approval before it can tell.
Lapse(o) ==
  /\ Deciding(o)
  /\ LET e == req[o].decide
         n == req[o].node
     IN /\ Exists(e) /\ Free(e) /\ ~StepOf(run[e], n).lapsed
        /\ run[e].status # "WAITING_APPROVAL" \/ run[e].node # n
        /\ run' = [run EXCEPT ![e] = Lapsed(@, n)]
  /\ UNCHANGED <<tx, req, demand, faults>>

-----------------------------------------------------------------------------
(* A pass of the cycle over one execution.                                 *)

\* (Mutation of Behind: only executions that have begun are seen.)
BehindBegun(e) ==
  run[e].flow \in Serial /\ \E d \in Active(run[e].flow) : d < e /\ run[d].status # "QUEUED"
                                                           /\ run[d].status # "RETRY"

\* SERIALIZE: an execution created earlier has not ended.
Behind(e) ==
  run[e].flow \in Serial /\ \E d \in Active(run[e].flow) : d < e

\* (Mutation of Claimed: the select forgets the executions that wait for a timer.)
ClaimedUntimed(w, e) ==
  /\ tx[w] = None /\ Exists(e) /\ Free(e)
  /\ run[e].status \in Claimable \ {"WAITING_TIMER"} /\ run[e].due

\* The select that skips locked rows, and filters them by status and time.
Claimed(w, e) ==
  /\ tx[w] = None /\ Exists(e) /\ Free(e)
  /\ run[e].status \in Claimable /\ run[e].due

Pass(w, e, row, verdict) ==
  /\ tx' = [tx EXCEPT ![w] = [e |-> e, row |-> row, verdict |-> verdict,
                              cursor |-> Len(row.steps), child |-> 0, born |-> None]]
  /\ UNCHANGED <<run, req, demand, faults>>

Running(r) == [r EXCEPT !.status = "RUNNING", !.tries = @ + 1]

\* Nothing to do yet: an earlier execution is active, or the approval is not
\* pending any more, which leaves the execution as it is.
Defer(w, e) ==
  /\ Claimed(w, e)
  /\ \/ Behind(e) /\ Pass(w, e, [run[e] EXCEPT !.due = FALSE], "none")
     \/ /\ ~Behind(e)
        /\ run[e].status = "WAITING_APPROVAL" /\ Approval(run[e], run[e].node) # "PENDING"
        /\ Pass(w, e, run[e], "none")

Begin(w, e) ==
  /\ Claimed(w, e) /\ ~Behind(e)
  /\ run[e].status \in {"QUEUED", "RETRY"}
  /\ Pass(w, e, Running(run[e]), "none")

\* _resume_timer.
ResumeTimer(w, e) ==
  /\ Claimed(w, e) /\ ~Behind(e)
  /\ run[e].status = "WAITING_TIMER"
  /\ Pass(w, e, Running(MoveOn(run[e], "next", "moved")), "none")

\* _resume_approval_timeout.
ResumeApprovalTimeout(w, e) ==
  /\ Claimed(w, e) /\ ~Behind(e)
  /\ run[e].status = "WAITING_APPROVAL" /\ Approval(run[e], run[e].node) = "PENDING"
  /\ Pass(w, e, Running(MoveOn(SetApproval(run[e], run[e].node, "EXPIRED"), "timeout", "expired")),
          "none")

ChildOf(e) == StepOf(run[e], run[e].node).child

WaitsForChild(w, e) ==
  Claimed(w, e) /\ ~Behind(e) /\ run[e].status = "WAITING_SUBFLOW"

\* _resume_subflow: the child is still at work and there is time left; the
\* child has ended; it has failed, is gone, or took longer than allowed.
PollSubflow(w, e) ==
  /\ WaitsForChild(w, e) /\ Exists(ChildOf(e)) /\ ~Ended(ChildOf(e))
  /\ Pass(w, e, [run[e] EXCEPT !.due = FALSE], "none")

ResumeSubflow(w, e) ==
  /\ WaitsForChild(w, e) /\ Exists(ChildOf(e))
  /\ run[ChildOf(e)].status = "SUCCEEDED" \/ (Ended(ChildOf(e)) /\ run[e].node \in Tolerant)
  /\ Pass(w, e, Running(MoveOn(run[e], "next", "moved")), "none")

Failing(r) == IF r.flow \in Compensating THEN [Note(r, "compensating") EXCEPT !.status = "COMPENSATING"]
              ELSE r

SubflowFails(w, e) ==
  /\ WaitsForChild(w, e) /\ Exists(ChildOf(e))
  /\ Ended(ChildOf(e)) /\ run[ChildOf(e)].status # "SUCCEEDED" /\ run[e].node \notin Tolerant
  /\ Pass(w, e, Failing(run[e]), "FAILED")

SubflowTimesOut(w, e) ==
  /\ WaitsForChild(w, e) /\ Exists(ChildOf(e)) /\ ~Ended(ChildOf(e))
  /\ Pass(w, e, Failing(run[e]), "FAILED")

-----------------------------------------------------------------------------
(* The loop over the nodes, inside the pass.                               *)

AtNode(w, kind) ==
  Passing(w) /\ tx[w].verdict = "none" /\ tx[w].row.status = "RUNNING"
    /\ Kind[tx[w].row.node] = kind

Becomes(w, row) == tx' = [tx EXCEPT ![w].row = row] /\ UNCHANGED <<run, req, demand, faults>>

\* _finish_execution_failure begins: what it compensates is fixed now.
Fails(w, row, verdict) ==
  /\ tx' = [tx EXCEPT ![w].row = Failing(row), ![w].verdict = verdict,
                      ![w].cursor = Len(row.steps)]
  /\ UNCHANGED <<run, req, demand, faults>>

Complete(w) ==
  /\ AtNode(w, "END")
  /\ LET r == tx[w].row
         s == [StepOf(r, r.node) EXCEPT !.status = "SUCCEEDED"]
     IN Becomes(w, [Note(PutStep(r, s), "succeeded") EXCEPT !.status = "SUCCEEDED"])

EvaluateCondition(w) ==
  /\ AtNode(w, "CONDITION")
  /\ \E outcome \in {"true", "false"} : Becomes(w, MoveOn(tx[w].row, outcome, "moved"))

Attempted(r) == [StepOf(r, r.node) EXCEPT !.tries = @ + 1]

\* _handle_action_node: the action's writes are in the transaction of the pass.
ActionSucceeds(w) ==
  /\ AtNode(w, "ACTION")
  /\ LET r == tx[w].row IN Becomes(w, MoveOn(PutStep(r, Attempted(r)), "next", "done"))

\* (Mutation of ActionFails: no savepoint, so a failed attempt leaves its writes.)
ActionFailsDirty(w, retryable) ==
  /\ AtNode(w, "ACTION")
  /\ LET r == Note(tx[w].row, "done")
         s == Attempted(r)
         last == s.tries >= Tries[r.node]
     IN IF retryable /\ ~last
        THEN Becomes(w, [Note(PutStep(r, s), "retry") EXCEPT !.status = "RETRY", !.due = FALSE])
        ELSE Fails(w, PutStep(r, [s EXCEPT !.status = "FAILED"]),
                   IF retryable THEN "DEAD_LETTER" ELSE "FAILED")

\* Its writes are undone by the savepoint, and it is tried again or fails.
ActionFails(w, retryable) ==
  /\ AtNode(w, "ACTION")
  /\ LET r == tx[w].row
         s == Attempted(r)
         last == s.tries >= Tries[r.node]
     IN IF retryable /\ ~last
        THEN Becomes(w, [Note(PutStep(r, s), "retry") EXCEPT !.status = "RETRY", !.due = FALSE])
        ELSE Fails(w, PutStep(r, [s EXCEPT !.status = "FAILED"]),
                   IF retryable THEN "DEAD_LETTER" ELSE "FAILED")

StartTimer(w) == AtNode(w, "WAIT") /\ Becomes(w, Park(tx[w].row, "WAITING_TIMER", 0))

\* (Mutation of StartSubflow: the key is not looked up.)
StartSubflowAgain(w) ==
  /\ AtNode(w, "SUBFLOW")
  /\ \E c \in Execs :
       LET r == tx[w].row
       IN /\ Fresh(c)
          /\ tx' = [tx EXCEPT ![w].row = Park(r, "WAITING_SUBFLOW", c), ![w].child = c,
                              ![w].born = NewRow(Target[r.node], <<tx[w].e, r.node>>)]
          /\ UNCHANGED <<run, req, demand, faults>>

\* The child is enqueued under a key made of the parent and the node: when the
\* node is passed again its child is found again.
StartSubflow(w) ==
  /\ AtNode(w, "SUBFLOW")
  /\ LET r == tx[w].row
         key == <<tx[w].e, r.node>>
         known == {c \in Execs : Exists(c) /\ run[c].key = key}
     IN IF known # {}
        THEN Becomes(w, Park(r, "WAITING_SUBFLOW", CHOOSE c \in known : TRUE))
        ELSE \E c \in Execs :
               /\ Fresh(c)
               /\ tx' = [tx EXCEPT ![w].row = Park(r, "WAITING_SUBFLOW", c), ![w].child = c,
                                   ![w].born = NewRow(Target[r.node], key)]
               /\ UNCHANGED <<run, req, demand, faults>>

\* The called flow is not active, too deep, or its context is invalid.
SubflowUnavailable(w) == AtNode(w, "SUBFLOW") /\ Fails(w, tx[w].row, "FAILED")

RequestApproval(w) ==
  /\ AtNode(w, "APPROVAL") /\ Approval(tx[w].row, tx[w].row.node) = "none"
  /\ LET r == Park(tx[w].row, "WAITING_APPROVAL", 0)
     IN Becomes(w, SetApproval(r, r.node, "PENDING"))

-----------------------------------------------------------------------------
(* Compensation and the end of a pass.                                     *)

\* Completed actions with a compensation that are still to be undone.
ToUndo(t) ==
  {i \in 1 .. t.cursor : t.row.flow \in Compensating /\ t.row.steps[i].status = "SUCCEEDED"
                           /\ t.row.steps[i].node \in Undoable}

\* (Mutation of Undo: first things first, and the last one is the end.)
UndoFirst(w) ==
  /\ Passing(w) /\ tx[w].verdict # "none"
  /\ \E i \in ToUndo(tx[w]), what \in {"undone", "undo_failed"} :
       /\ \A j \in ToUndo(tx[w]) : i <= j
       /\ tx' = [tx EXCEPT ![w].row.log = Append(@, <<what, tx[w].row.steps[i].node>>),
                           ![w].cursor = i - 1]
  /\ UNCHANGED <<run, req, demand, faults>>

\* The next compensation, in a savepoint of its own, by descending sequence.
Undo(w) ==
  /\ Passing(w) /\ tx[w].verdict # "none"
  /\ \E i \in ToUndo(tx[w]), what \in {"undone", "undo_failed"} :
       /\ \A j \in ToUndo(tx[w]) : j <= i
       /\ tx' = [tx EXCEPT ![w].row.log = Append(@, <<what, tx[w].row.steps[i].node>>),
                           ![w].cursor = i - 1]
  /\ UNCHANGED <<run, req, demand, faults>>

\* A pass that may commit: it waits, is to be retried, or has ended.
Settled(t) == t.verdict = "none" /\ t.row.status \notin {"RUNNING", "COMPENSATING"}

\* (Mutation of FinishFailure: the verdict is reset before it is used.)
FinishFailureReset(w) ==
  /\ Passing(w) /\ tx[w].verdict # "none" /\ ToUndo(tx[w]) = {}
  /\ tx' = [tx EXCEPT ![w].verdict = "none",
                      ![w].row = [Note(@, "failed") EXCEPT !.status = "none"]]
  /\ UNCHANGED <<run, req, demand, faults>>

FinishFailure(w) ==
  /\ Passing(w) /\ tx[w].verdict # "none" /\ ToUndo(tx[w]) = {}
  /\ tx' = [tx EXCEPT ![w].row = [Note(@, "failed") EXCEPT !.status = tx[w].verdict],
                      ![w].verdict = "none"]
  /\ UNCHANGED <<run, req, demand, faults>>

Commit(w) ==
  /\ Passing(w) /\ Settled(tx[w])
  /\ run' = [e \in Execs |-> CASE e = tx[w].e -> tx[w].row
                               [] e = tx[w].child -> tx[w].born
                               [] OTHER -> run[e]]
  /\ tx' = [tx EXCEPT ![w] = None]
  /\ UNCHANGED <<req, demand, faults>>

Fault == faults < MaxFaults /\ faults' = faults + 1

\* An exception rolls everything back, and with it the lock.
RollBack(w) ==
  /\ Passing(w) /\ Fault
  /\ tx' = [tx EXCEPT ![w] = [failed |-> tx[w].e]]
  /\ UNCHANGED <<run, req, demand>>

\* A second approval for the same step breaks a unique key.
RequestTwice(w) ==
  /\ AtNode(w, "APPROVAL") /\ Approval(tx[w].row, tx[w].row.node) # "none"
  /\ tx' = [tx EXCEPT ![w] = [failed |-> tx[w].e]]
  /\ UNCHANGED <<run, req, demand, faults>>

RollingBack(w) == tx[w] # None /\ "failed" \in DOMAIN tx[w]

\* The failure is recorded in a transaction of its own, on whatever status the
\* execution has by then, or not at all when the row is gone.
RecordFailure(w) ==
  /\ RollingBack(w) /\ Free(tx[w].failed)
  /\ LET e == tx[w].failed
         dead == run[e].tries + 1 >= MaxAttempts
     IN run' = IF ~Exists(e) THEN run
               ELSE [run EXCEPT ![e].tries = @ + 1, ![e].due = FALSE,
                                ![e].status = IF dead THEN "DEAD_LETTER" ELSE "RETRY",
                                ![e].revived = @ \/ (Ended(e) /\ ~dead)]
  /\ tx' = [tx EXCEPT ![w] = None]
  /\ UNCHANGED <<req, demand, faults>>

\* The process dies: PostgreSQL rolls the transaction back.
Crash(w) ==
  /\ tx[w] # None /\ Fault
  /\ tx' = [tx EXCEPT ![w] = None]
  /\ UNCHANGED <<run, req, demand>>

-----------------------------------------------------------------------------
(* Requests on an execution.                                               *)

\* decide_approval reads the approval first, without a lock.
OpenApproval(o, e, n) ==
  /\ req[o] = None /\ Exists(e) /\ Approval(run[e], n) = "PENDING"
  /\ req' = [req EXCEPT ![o] = [decide |-> e, node |-> n]]
  /\ UNCHANGED <<run, tx, demand, faults>>

\* Then it locks the execution and selects the approval again, which leaves the
\* copy of the session as it was: pending, in its first version.  The status of
\* the execution is not looked at.
Decide(o, decision) ==
  /\ Deciding(o)
  /\ LET e == req[o].decide
         n == req[o].node
         outcome == IF decision = "APPROVED" THEN "approved" ELSE "rejected"
         r == [SetApproval(run[e], n, decision) EXCEPT !.node = n]
     IN /\ Exists(e) /\ Free(e) /\ ~StepOf(run[e], n).lapsed
        /\ run' = [run EXCEPT ![e] =
                     [MoveOn(r, outcome, "decided")
                        EXCEPT !.status = "QUEUED", !.due = TRUE, !.revived = @ \/ Ended(e)]]
  /\ req' = [req EXCEPT ![o] = None]
  /\ UNCHANGED <<tx, demand, faults>>

\* A decision that comes too late marks the approval as expired and is refused;
\* the execution is not moved.
DecideLate(o) ==
  /\ Deciding(o)
  /\ LET e == req[o].decide
         n == req[o].node
     IN /\ Exists(e) /\ Free(e) /\ StepOf(run[e], n).lapsed
        /\ run' = [run EXCEPT ![e] = SetApproval(@, n, "EXPIRED")]
  /\ req' = [req EXCEPT ![o] = None]
  /\ UNCHANGED <<tx, demand, faults>>

Pending(r) == {n \in Nodes : Approval(r, n) = "PENDING"}
CopyOf(r) == [node |-> r.node, seen |-> Len(r.log), pending |-> Pending(r)]

\* (Mutation of Cancelled: the approval is left pending.)
CancelledAlone(r, read) ==
  [r EXCEPT !.log = Append(@, <<"cancelled", read.node>>), !.status = "CANCELLED",
            !.overtaken = Len(r.log) # read.seen]

\* What the UPDATEs of a cancellation make of a row, whatever has become of it
\* since it was read: only what was read as pending is withdrawn.
Cancelled(r, read) ==
  LET Withdrawn(s) == IF s.node \in read.pending THEN [s EXCEPT !.approval = "CANCELLED"] ELSE s
  IN [r EXCEPT !.log = Append(@, <<"cancelled", read.node>>), !.status = "CANCELLED",
               !.steps = [i \in DOMAIN @ |-> Withdrawn(@[i])],
               !.overtaken = Len(r.log) # read.seen]

\* An execution that waits for no child is cancelled under its lock.
Cancel(e) ==
  /\ Exists(e) /\ ~Ended(e) /\ Free(e) /\ run[e].status # "WAITING_SUBFLOW"
  /\ run' = [run EXCEPT ![e] = Cancelled(@, CopyOf(@))]
  /\ UNCHANGED <<tx, req, demand, faults>>

\* Otherwise its child is read, without a lock; an open one is cancelled by a
\* call of its own first, which looks for a child in turn.
ReadRow(q, c) ==
  IF c \in Execs /\ Exists(c) /\ ~Ended(c)
  THEN [q EXCEPT !.copy[c] = CopyOf(run[c]), !.open = @ \cup {c}, !.at = c,
                 !.stage = IF run[c].status = "WAITING_SUBFLOW" THEN "row" ELSE "approvals"]
  ELSE [q EXCEPT !.stage = "approvals"]

\* The execution of the request is locked to the end.
CancelTree(o, e) ==
  /\ req[o] = None /\ Exists(e) /\ Free(e) /\ run[e].status = "WAITING_SUBFLOW"
  /\ LET q == [cancel |-> e, copy |-> [c \in Execs |-> None], open |-> {}, at |-> e,
               stage |-> "row", number |-> 0]
     IN req' = [req EXCEPT ![o] = ReadRow(q, ChildOf(e))]
  /\ UNCHANGED <<run, tx, demand, faults>>

AtStage(o, stage) == Cancelling(o) /\ req[o].stage = stage

\* (Mutation of ReadChild: the child's own child is not looked up.)
ReadNoChild(o) ==
  /\ AtStage(o, "row")
  /\ req' = [req EXCEPT ![o].stage = "approvals"]
  /\ UNCHANGED <<run, tx, demand, faults>>

\* The child of a child, by the step of the node at which this was read.
ReadChild(o) ==
  /\ AtStage(o, "row")
  /\ LET q == req[o]
     IN req' = [req EXCEPT ![o] = ReadRow(q, StepOf(run[q.at], q.copy[q.at].node).child)]
  /\ UNCHANGED <<run, tx, demand, faults>>

ReadApprovals(o) ==
  /\ AtStage(o, "approvals") /\ req[o].at \in req[o].open
  /\ req' = [req EXCEPT ![o].copy[req[o].at].pending = Pending(run[req[o].at]), ![o].stage = "number"]
  /\ UNCHANGED <<run, tx, demand, faults>>

ReadNumber(o) ==
  /\ AtStage(o, "number")
  /\ req' = [req EXCEPT ![o].number = Len(run[req[o].at].log), ![o].stage = "flush"]
  /\ UNCHANGED <<run, tx, demand, faults>>

\* The flush waits for the row lock, and keeps it.  Events are numbered per
\* execution: a number that has been taken meanwhile rolls the request back.
\* Then the call of the parent goes on.
FlushCancel(o) ==
  /\ AtStage(o, "flush") /\ Free(req[o].at)
  /\ LET q == req[o]
     IN IF Len(run[q.at].log) = q.number
        THEN \E e \in Execs, n \in Nodes :
               /\ run[q.at].key = <<e, n>>
               /\ req' = [req EXCEPT ![o] = [q EXCEPT !.open = @ \ {q.at}, !.at = e,
                                                      !.stage = "approvals", !.number = 0]]
        ELSE req' = [req EXCEPT ![o] = None]
  /\ UNCHANGED <<run, tx, demand, faults>>

\* All below is written: so is the execution of the request, and all is committed.
CommitCancel(o) ==
  /\ AtStage(o, "approvals") /\ req[o].open = {}
  /\ LET q == req[o]
     IN run' = [e \in Execs |-> CASE e = q.cancel -> Cancelled(run[e], CopyOf(run[e]))
                                  [] e \in Reached(q) \ {q.cancel} -> Cancelled(run[e], q.copy[e])
                                  [] OTHER -> run[e]]
  /\ req' = [req EXCEPT ![o] = None]
  /\ UNCHANGED <<tx, demand, faults>>

Awaits(o, p) == AtStage(o, "flush") /\ Cancelling(p) /\ req[o].at \in Held(req[p])

\* Cancellations of nested executions that wait for each other's locks.
Deadlocked(o) ==
  \E S \in SUBSET Operators : o \in S /\ \A x \in S : \E y \in S : Awaits(x, y)

\* A request that dies, or that PostgreSQL picks to end a deadlock, is rolled back.
AbandonCancel(o) ==
  /\ Cancelling(o)
  /\ Fault \/ (Deadlocked(o) /\ UNCHANGED faults)
  /\ req' = [req EXCEPT ![o] = None]
  /\ UNCHANGED <<run, tx, demand>>

\* cleanup_workflow_executions, months after the end: nobody is at work on it.
Purge(e) ==
  /\ Exists(e) /\ Ended(e) /\ Free(e)
  /\ \A w \in Workers : RollingBack(w) => tx[w].failed # e
  /\ \A o \in Operators : (Deciding(o) => req[o].decide # e)
                           /\ (Cancelling(o) => e \notin Reached(req[o]))
  /\ \A d \in Execs : Exists(d) /\ ~Ended(d) => run[e].key \notin {d} \X Nodes
  /\ run' = [run EXCEPT ![e] = Purged]
  /\ UNCHANGED <<tx, req, demand, faults>>

-----------------------------------------------------------------------------

ClaimStep(w, e) ==
  \/ Defer(w, e) \/ Begin(w, e) \/ ResumeTimer(w, e) \/ ResumeApprovalTimeout(w, e)
  \/ PollSubflow(w, e) \/ ResumeSubflow(w, e) \/ SubflowFails(w, e) \/ SubflowTimesOut(w, e)

NodeStep(w) ==
  \/ Complete(w) \/ EvaluateCondition(w)
  \/ ActionSucceeds(w) \/ \E retryable \in BOOLEAN : ActionFails(w, retryable)
  \/ StartTimer(w) \/ StartSubflow(w) \/ SubflowUnavailable(w)
  \/ RequestApproval(w) \/ RequestTwice(w)

EndStep(w) == Undo(w) \/ FinishFailure(w) \/ Commit(w) \/ RecordFailure(w)

CancelStep(o) ==
  \/ ReadChild(o) \/ ReadApprovals(o) \/ ReadNumber(o) \/ FlushCancel(o)
  \/ CommitCancel(o) \/ AbandonCancel(o)

Request(o) ==
  \/ \E e \in Execs : CancelTree(o, e) \/ \E n \in Nodes : OpenApproval(o, e, n)
  \/ \E decision \in {"APPROVED", "REJECTED"} : Decide(o, decision)
  \/ Lapse(o) \/ DecideLate(o) \/ CancelStep(o)

Next ==
  \/ \E f \in Flows : Start(f)
  \/ \E e \in Execs : Replay(e) \/ BecomeDue(e) \/ Cancel(e) \/ Purge(e)
  \/ \E w \in Workers : (\E e \in Execs : ClaimStep(w, e)) \/ NodeStep(w) \/ EndStep(w)
                          \/ RollBack(w) \/ Crash(w)
  \/ \E o \in Operators : Request(o)

Spec == Init /\ [][Next]_vars

\* Time passes, whoever holds a lock now and then, also the time that a subflow
\* may take; a pass once begun goes on; each cycle visits the due executions
\* oldest first, so none is left out for ever; a cancellation once begun gets the
\* row locks it queues for.
Fairness ==
  /\ \A e \in Execs :
       /\ SF_vars(BecomeDue(e)) /\ SF_vars(\E w \in Workers : ClaimStep(w, e))
       /\ SF_vars(\E w \in Workers : SubflowTimesOut(w, e))
  /\ \A w \in Workers : WF_vars(NodeStep(w) \/ EndStep(w))
  /\ \A o \in Operators : SF_vars(CancelStep(o))

FairSpec == Spec /\ Fairness

-----------------------------------------------------------------------------
(* Properties.                                                             *)

Times(r, what, n) == Cardinality({i \in DOMAIN r.log : r.log[i] = <<what, n>>})
Decisions(r) == Cardinality({i \in DOMAIN r.log : r.log[i][1] = "decided"})

\* An approval was decided more than once: two sessions have overruled each other.
DecidedTwice(r) ==
  \E i \in DOMAIN r.log :
    r.log[i][1] = "decided" /\ \E j \in DOMAIN r.log : i < j /\ r.log[i] = r.log[j]

\* Whatever passes roll back or die, an action's effect is committed exactly when
\* its step has succeeded, and repeated only when an approval was decided twice.
DoneOnce ==
  \A e \in Execs : Exists(e) =>
    LET twice == DecidedTwice(run[e])
    IN \A n \in {m \in Nodes : Kind[m] = "ACTION"} :
         LET done == Times(run[e], "done", n)
             succeeded == StepOf(run[e], n).status = "SUCCEEDED"
         IN IF ~twice THEN done = IF succeeded THEN 1 ELSE 0
            ELSE done <= Decisions(run[e]) /\ (succeeded => done > 0)

\* The compensations in a log reverse its completed actions: one for each and
\* no other, after it, and last things first.
Reversed(log) ==
  LET Done == {i \in DOMAIN log : log[i][1] = "done" /\ log[i][2] \in Undoable}
      Undone == {k \in DOMAIN log : log[k][1] \in {"undone", "undo_failed"}}
      Undoes(k, i) == log[k][2] = log[i][2]
  IN /\ \A i \in Done : \E k \in Undone : i < k /\ Undoes(k, i)
     /\ \A k \in Undone : \E i \in Done : Undoes(k, i)
     /\ \A i, j \in Done, k, l \in Undone : Undoes(k, i) /\ Undoes(l, j) => (i < j <=> l < k)

\* When an execution of a compensating flow has failed, its completed actions
\* have been compensated (or tried to), each once and last things first.
CompensationReverses ==
  \A e \in Execs :
    /\ Exists(e) /\ ~run[e].revived /\ ~DecidedTwice(run[e]) /\ run[e].flow \in Compensating
    /\ run[e].log[Len(run[e].log)][1] = "failed"
    => Reversed(run[e].log)

\* An approval that can still be decided belongs to an execution that waits for
\* it, or that lost its place by failed passes, or whose cancellation through its
\* parent was overtaken, and stands at its node, unless an approval was decided
\* twice: the second decision moves the execution back.
PendingIsAwaited ==
  \A e \in Execs, n \in Nodes :
    Exists(e) /\ Approval(run[e], n) = "PENDING" /\ ~DecidedTwice(run[e]) =>
    /\ \/ run[e].status \in {"WAITING_APPROVAL", "RETRY", "DEAD_LETTER"}
       \/ run[e].status = "CANCELLED" /\ run[e].overtaken
    /\ run[e].node = n /\ Kind[n] = "APPROVAL"

\* Of a SERIALIZE flow a later execution is under way together with an earlier
\* one only when the earlier one had ended and was brought back, or was created
\* by a SUBFLOW node: its pass commits it after its created_at.
SerialOrder ==
  \A d, e \in Execs :
    /\ Exists(d) /\ Exists(e) /\ d < e
    /\ run[d].flow = run[e].flow /\ run[d].flow \in Serial /\ run[d].key = <<>>
    /\ ~Ended(d) /\ run[e].steps # <<>>
    => run[d].revived

\* A subflow node has one child execution, however often a failed pass makes it
\* be entered again, and the step of a waiting parent names it.
OneChild ==
  \A e \in Execs, n \in Nodes :
    LET kids == {c \in Execs : Exists(c) /\ run[c].key = <<e, n>>}
    IN /\ Cardinality(kids) <= 1
       /\ Exists(e) /\ run[e].status = "WAITING_SUBFLOW" /\ run[e].node = n => kids = {ChildOf(e)}

\* Cancelling an execution that waits for a child leaves no child at work, also
\* when the child moves between the unlocked reads and the commit, but for one
\* that had ended and was brought back.  Of an execution further down that moved
\* on to wait for a child after it was read, that child stays at work.
CancelCascades ==
  [][\A e \in Execs :
       /\ Exists(e) /\ run[e].status = "WAITING_SUBFLOW"
       /\ run'[e] # Purged /\ run'[e].status = "CANCELLED" /\ Exists(ChildOf(e))
       => \/ run'[ChildOf(e)].status \in Terminal \/ run[ChildOf(e)].revived
          \/ run'[e].overtaken]_vars

\* An approval that a late decision has expired: its execution waits for ever,
\* and so does what is serialized behind it.
Stranded(e) ==
  Exists(e) /\ run[e].status = "WAITING_APPROVAL" /\ Approval(run[e], run[e].node) # "PENDING"

\* Every execution ends: timers, approvals that nobody decides, children and
\* retries included, unless a late decision has stranded it.
Ends ==
  \A e \in Execs :
    Exists(e) ~> ~Exists(e) \/ Ended(e)
                 \/ \E d \in 1 .. e : Stranded(d) /\ run[d].flow = run[e].flow

=============================================================================
