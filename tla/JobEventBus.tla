---------------------------- MODULE JobEventBus -----------------------------
(***************************************************************************)
(* The lifecycle event bus (workers/jobs_worker.py and the recovery        *)
(* functions of services/jobs/__init__.py).  Workers relay committed       *)
(* job_lifecycle_events to a Redis stream; every worker also reads the     *)
(* stream for each consumer from the consumer's committed offset, keeps    *)
(* one job_event_consumer_deliveries row per event and runs the consumer's *)
(* handler in the transaction that records the outcome; failed deliveries  *)
(* are retried, and given new attempts by an operator or the remediation   *)
(* cycle.  The two consumers of the code share the stream and nothing      *)
(* else, so the module has one.                                            *)
(***************************************************************************)
EXTENDS Integers, Sequences, FiniteSets

CONSTANTS
  Events,        \* lifecycle events
  Flaky,         \* the events whose handler may raise
  Workers,
  NoEvent,       \* "no event in hand"
  MaxAttempts,   \* jobs_event_consumer_max_attempts
  MaxRecoveries, \* bound: operator recoveries and remediation cycles
  MaxPurges,     \* bound: jobs removed by retention, with their events
  MaxFaults      \* bound: crashes, Redis errors, rollbacks

ASSUME EventsAssumption == Flaky \subseteq Events /\ NoEvent \notin Events
ASSUME BoundsAssumption == /\ MaxAttempts \in Nat \ {0}
                           /\ MaxRecoveries \in Nat
                           /\ MaxPurges \in Nat
                           /\ MaxFaults \in Nat

VARIABLES
  event,      \* committed job_lifecycle_events rows: absent, present, purged
  relayed,    \* the events with relay_published_at set
  relayKey,   \* Redis keys jobs:event-relay:<event>
  stream,     \* Redis stream
  offset,     \* committed consumer offset: the entries up to it are consumed
  delivery,   \* committed delivery row of every event
  effects,    \* committed effects of the handler, by event
  pc,         \* where each worker is in its loop
  todo,       \* events its relay, or deliveries its retry, has still to visit
  claimed,    \* events its relay transaction has updated
  done,       \* events its relay transaction marks as relayed
  adding,     \* the event between SET NX and XADD
  entries,    \* what the worker read from the stream and has still to visit
  position,   \* the offset its transaction will write
  inserted,   \* delivery rows its transaction has inserted
  held,       \* delivery rows its session has loaded, with what it changed
  ops,        \* the same for the recovery in progress
  stumbled,   \* history: events whose handler raised
  recovered,  \* history: events an operator or remediation gave new attempts
  recoveries, purges, faults

busVars == <<event, relayed, relayKey, stream>>
consumerVars == <<offset, delivery, effects>>
relayVars == <<todo, claimed, done, adding>>
sessionVars == <<entries, position, inserted, held>>
history == <<stumbled, recovered>>
bounds == <<recoveries, purges, faults>>
vars == <<busVars, consumerVars, pc, relayVars, sessionVars, ops, history, bounds>>

-----------------------------------------------------------------------------

NoDelivery == [status |-> "none", attempts |-> 0]

Deliveries == [status : {"none", "pending", "failed", "delivered"}, attempts : Nat]

\* A delivery in a session: the row as loaded, the row as changed, and how
\* often the session's transaction ran the handler to its end.
Sessions == [was : Deliveries, now : Deliveries, ran : Nat]

NotHeld == [was |-> NoDelivery, now |-> NoDelivery, ran |-> 0]

Nothing == [e \in Events |-> NotHeld]

Holding(h) == {e \in Events : h[e] # NotHeld}

TypeOK ==
  /\ event \in [Events -> {"absent", "present", "purged"}]
  /\ relayed \subseteq Events /\ relayKey \subseteq Events
  /\ stream \in Seq(Events)
  /\ offset \in 0 .. Len(stream)
  /\ delivery \in [Events -> Deliveries]
  /\ effects \in [Events -> Nat]
  /\ pc \in [Workers -> {"relay", "claim", "publish", "add", "read", "look", "insert",
                         "handle", "retry", "again"}]
  /\ todo \in [Workers -> SUBSET Events]
  /\ claimed \in [Workers -> SUBSET Events]
  /\ done \in [Workers -> SUBSET Events]
  /\ adding \in [Workers -> Events \cup {NoEvent}]
  /\ entries \in [Workers -> Seq(Events)]
  /\ position \in [Workers -> 0 .. Len(stream)]
  /\ inserted \in [Workers -> SUBSET Events]
  /\ held \in [Workers -> [Events -> Sessions]]
  /\ ops \in [Events -> Sessions]
  /\ stumbled \subseteq Flaky /\ recovered \subseteq Events
  /\ recoveries \in 0 .. MaxRecoveries
  /\ purges \in 0 .. MaxPurges
  /\ faults \in 0 .. MaxFaults

Init ==
  /\ event = [e \in Events |-> "absent"]
  /\ relayed = {} /\ relayKey = {}
  /\ stream = <<>>
  /\ offset = 0
  /\ delivery = [e \in Events |-> NoDelivery]
  /\ effects = [e \in Events |-> 0]
  /\ pc = [w \in Workers |-> "relay"]
  /\ todo = [w \in Workers |-> {}]
  /\ claimed = [w \in Workers |-> {}]
  /\ done = [w \in Workers |-> {}]
  /\ adding = [w \in Workers |-> NoEvent]
  /\ entries = [w \in Workers |-> <<>>]
  /\ position = [w \in Workers |-> 0]
  /\ inserted = [w \in Workers |-> {}]
  /\ held = [w \in Workers |-> Nothing]
  /\ ops = Nothing
  /\ stumbled = {} /\ recovered = {}
  /\ recoveries = 0 /\ purges = 0 /\ faults = 0

Goto(w, label) == pc' = [pc EXCEPT ![w] = label]

Fault == faults < MaxFaults /\ faults' = faults + 1 /\ UNCHANGED <<recoveries, purges>>

\* A job's transaction commits one of its events (see JobQueue).
Emit(e) ==
  /\ event[e] = "absent"
  /\ event' = [event EXCEPT ![e] = "present"]
  /\ UNCHANGED <<relayed, relayKey, stream, consumerVars, pc, relayVars, sessionVars,
                 ops, history, bounds>>

\* Retention deletes the job; events and deliveries go with it (ON DELETE CASCADE).
Purge(e) ==
  /\ event[e] = "present"
  /\ purges < MaxPurges
  /\ purges' = purges + 1
  /\ \A w \in Workers : e \notin claimed[w] \cup inserted[w]
  /\ event' = [event EXCEPT ![e] = "purged"]
  /\ delivery' = [delivery EXCEPT ![e] = NoDelivery]
  /\ relayed' = relayed \ {e}
  /\ UNCHANGED <<relayKey, stream, offset, effects, pc, relayVars, sessionVars,
                 ops, history, recoveries, faults>>

-----------------------------------------------------------------------------
(* _relay_job_events_batch.                                                *)
(* (Operators marked as a mutation are deliberate errors that the          *)
(* properties must notice when they replace the operator named.)           *)

Unrelayed == {e \in Events : event[e] = "present" /\ e \notin relayed}

SelectEvents(w) ==
  /\ pc[w] = "relay"
  /\ todo' = [todo EXCEPT ![w] = Unrelayed]
  /\ Goto(w, IF Unrelayed = {} THEN "read" ELSE "claim")
  /\ UNCHANGED <<busVars, consumerVars, claimed, done, adding, sessionVars, ops, history, bounds>>

\* The flush of the lock columns waits for the other relays' row locks; a row
\* that is gone makes the batch fail (StaleDataError).
ClaimEvents(w) ==
  /\ pc[w] = "claim"
  /\ \A v \in Workers \ {w} : claimed[v] \cap todo[w] = {}
  /\ IF \A e \in todo[w] : event[e] = "present"
       THEN claimed' = [claimed EXCEPT ![w] = todo[w]] /\ Goto(w, "publish") /\ UNCHANGED todo
       ELSE todo' = [todo EXCEPT ![w] = {}] /\ Goto(w, "read") /\ UNCHANGED claimed
  /\ UNCHANGED <<busVars, consumerVars, done, adding, sessionVars, ops, history, bounds>>


\* SET NX of the event's key: the first relay goes on to XADD, a later one
\* marks the event relayed.
SetKey(w) ==
  /\ pc[w] = "publish"
  /\ \E e \in todo[w] :
       /\ todo' = [todo EXCEPT ![w] = @ \ {e}]
       /\ IF e \in relayKey
            THEN done' = [done EXCEPT ![w] = @ \cup {e}] /\ UNCHANGED <<relayKey, pc, adding>>
            ELSE /\ relayKey' = relayKey \cup {e}
                 /\ adding' = [adding EXCEPT ![w] = e]
                 /\ Goto(w, "add")
                 /\ UNCHANGED done
  /\ UNCHANGED <<event, relayed, stream, consumerVars, claimed, sessionVars, ops, history, bounds>>

\* The SET raises, with or without having reached Redis.
SetKeyFails(w) ==
  /\ pc[w] = "publish"
  /\ Fault
  /\ \E e \in todo[w] :
       /\ todo' = [todo EXCEPT ![w] = @ \ {e}]
       /\ relayKey' \in {relayKey, relayKey \cup {e}}
  /\ UNCHANGED <<event, relayed, stream, consumerVars, pc, claimed, done, adding,
                 sessionVars, ops, history>>

AddEntry(w) ==
  /\ pc[w] = "add"
  /\ stream' = Append(stream, adding[w])
  /\ done' = [done EXCEPT ![w] = @ \cup {adding[w]}]
  /\ adding' = [adding EXCEPT ![w] = NoEvent]
  /\ Goto(w, "publish")
  /\ UNCHANGED <<event, relayed, relayKey, consumerVars, todo, claimed, sessionVars,
                 ops, history, bounds>>

\* The XADD raises, with or without having reached Redis, and the key is
\* released; releasing it may fail as well.
AddEntryFails(w) ==
  /\ pc[w] = "add"
  /\ Fault
  /\ stream' \in {stream, Append(stream, adding[w])}
  /\ relayKey' \in {relayKey, relayKey \ {adding[w]}}
  /\ adding' = [adding EXCEPT ![w] = NoEvent]
  /\ Goto(w, "publish")
  /\ UNCHANGED <<event, relayed, consumerVars, todo, claimed, done, sessionVars, ops, history>>

EndRelay(w) ==
  /\ pc[w] = "publish"
  /\ todo[w] = {}
  /\ claimed' = [claimed EXCEPT ![w] = {}]
  /\ done' = [done EXCEPT ![w] = {}]
  /\ Goto(w, "read")
  /\ UNCHANGED <<event, relayKey, stream, consumerVars, todo, adding, sessionVars, ops, history>>

CommitRelay(w) ==
  /\ EndRelay(w)
  /\ relayed' = relayed \cup done[w]
  /\ UNCHANGED bounds

RollbackRelay(w) == EndRelay(w) /\ Fault /\ UNCHANGED relayed

-----------------------------------------------------------------------------
(* Sessions: what consume, retry and recovery do to delivery rows.         *)

Load(e) == [was |-> delivery[e], now |-> delivery[e], ran |-> 0]

\* The handler ran to its end, or raised.
Handled(s) == [s EXCEPT !.now = [status |-> "delivered", attempts |-> @.attempts + 1],
                        !.ran = @ + 1]
\* (Mutation of Raised: the exception is swallowed.)
Swallowed(s) == [s EXCEPT !.now = [status |-> "delivered", attempts |-> @.attempts + 1]]

Raised(s) == [s EXCEPT !.now = [status |-> "failed", attempts |-> @.attempts + 1]]

\* The outcomes of running the handler for e on session s.
Outcomes(e, s) == {Handled(s)} \cup IF e \in Flaky THEN {Raised(s)} ELSE {}

\* A row that was loaded and changed must still be there when it is flushed.
Stale(h) == \E e \in Holding(h) : h[e].was.status # "none" /\ delivery[e].status = "none"

\* (Mutation of Flushed: whole rows are written.)
FlushedRows(h) == [e \in Events |-> IF e \in Holding(h) THEN h[e].now ELSE delivery[e]]

\* The flush writes the columns that the session changed and no others.
Flushed(h) ==
  [e \in Events |->
     [status |-> IF h[e].now.status = h[e].was.status THEN delivery[e].status ELSE h[e].now.status,
      attempts |-> IF h[e].now.attempts = h[e].was.attempts THEN delivery[e].attempts
                                                            ELSE h[e].now.attempts]]

CommitSession(h) ==
  /\ delivery' = Flushed(h)
  /\ effects' = [e \in Events |-> effects[e] + h[e].ran]

Close(w) ==
  /\ entries' = [entries EXCEPT ![w] = <<>>]
  /\ position' = [position EXCEPT ![w] = 0]
  /\ inserted' = [inserted EXCEPT ![w] = {}]
  /\ held' = [held EXCEPT ![w] = Nothing]

-----------------------------------------------------------------------------
(* _consume_event_stream_batch.                                            *)

\* (Mutation of ReadStream: the entry at the offset is read again and counted.)
ReadInclusive(w) ==
  LET first == IF offset = 0 THEN 1 ELSE offset IN
  /\ pc[w] = "read"
  /\ entries' = [entries EXCEPT ![w] = SubSeq(stream, first, Len(stream))]
  /\ position' = [position EXCEPT ![w] = offset]
  /\ Goto(w, IF stream = <<>> THEN "retry" ELSE "look")
  /\ UNCHANGED <<busVars, consumerVars, relayVars, inserted, held, ops, history, bounds>>

ReadStream(w) ==
  /\ pc[w] = "read"
  /\ entries' = [entries EXCEPT ![w] = SubSeq(stream, offset + 1, Len(stream))]
  /\ position' = [position EXCEPT ![w] = offset]
  /\ Goto(w, IF offset = Len(stream) THEN "retry" ELSE "look")
  /\ UNCHANGED <<busVars, consumerVars, relayVars, inserted, held, ops, history, bounds>>

Advance(w) ==
  /\ entries' = [entries EXCEPT ![w] = Tail(@)]
  /\ position' = [position EXCEPT ![w] = @ + 1]

\* The event and its delivery are read; neither is locked.
Look(w) ==
  LET e == Head(entries[w])
      s == IF held[w][e] # NotHeld THEN held[w][e] ELSE Load(e) IN
  /\ pc[w] = "look"
  /\ entries[w] # <<>>
  /\ CASE event[e] # "present" \/ s.now.status = "delivered" ->
            Advance(w) /\ UNCHANGED <<pc, held>>
       [] event[e] = "present" /\ s.now.status = "none" ->
            Goto(w, "insert") /\ UNCHANGED <<entries, position, held>>
       [] event[e] = "present" /\ s.now.status = "failed" ->
            /\ held' = [held EXCEPT ![w][e] = s]
            /\ Goto(w, "handle")
            /\ UNCHANGED <<entries, position>>
  /\ UNCHANGED <<busVars, consumerVars, relayVars, inserted, ops, history, bounds>>

\* (Mutation of Insert: no unique constraint.)
InsertUnchecked(w) ==
  LET e == Head(entries[w]) IN
  /\ pc[w] = "insert"
  /\ held' = [held EXCEPT ![w][e] = [NotHeld EXCEPT !.now = [status |-> "pending", attempts |-> 0]]]
  /\ Goto(w, "handle")
  /\ UNCHANGED <<busVars, consumerVars, relayVars, inserted, entries, position, ops, history, bounds>>

\* INSERT of the delivery: it waits while another transaction holds the unique
\* (consumer, event) entry and fails if that one commits, or if the event is
\* gone; the whole batch is rolled back then.
Insert(w) ==
  LET e == Head(entries[w]) IN
  /\ pc[w] = "insert"
  /\ \A v \in Workers \ {w} : e \notin inserted[v]
  /\ IF delivery[e].status = "none" /\ event[e] = "present"
       THEN /\ inserted' = [inserted EXCEPT ![w] = @ \cup {e}]
            /\ held' = [held EXCEPT ![w][e] =
                          [NotHeld EXCEPT !.now = [status |-> "pending", attempts |-> 0]]]
            /\ Goto(w, "handle")
            /\ UNCHANGED <<entries, position>>
       ELSE Close(w) /\ Goto(w, "retry")
  /\ UNCHANGED <<busVars, consumerVars, relayVars, ops, history, bounds>>

Note(e, s) == stumbled' = stumbled \cup IF s.now.status = "failed" THEN {e} ELSE {}

RunHandler(w) ==
  LET e == Head(entries[w]) IN
  /\ pc[w] = "handle"
  /\ \E s \in Outcomes(e, held[w][e]) : held' = [held EXCEPT ![w][e] = s] /\ Note(e, s)
  /\ Advance(w)
  /\ Goto(w, "look")
  /\ UNCHANGED <<busVars, consumerVars, relayVars, inserted, ops, recovered, bounds>>

EndConsume(w) ==
  /\ pc[w] = "look"
  /\ entries[w] = <<>>
  /\ Close(w)
  /\ Goto(w, "retry")
  /\ UNCHANGED <<busVars, relayVars, ops, history>>

\* (Mutation of CommitConsume: the offset jumps to the end of the stream.)
CommitConsumeToEnd(w) ==
  /\ EndConsume(w)
  /\ IF Stale(held[w]) THEN UNCHANGED consumerVars
                       ELSE CommitSession(held[w]) /\ offset' = Len(stream)
  /\ UNCHANGED bounds

CommitConsume(w) ==
  /\ EndConsume(w)
  /\ IF Stale(held[w]) THEN UNCHANGED consumerVars
                       ELSE CommitSession(held[w]) /\ offset' = position[w]
  /\ UNCHANGED bounds

RollbackConsume(w) == EndConsume(w) /\ Fault /\ UNCHANGED consumerVars

-----------------------------------------------------------------------------
(* _retry_failed_event_consumers_batch.                                    *)

\* (Mutation of SelectFailed: the last attempt is never made.)
SelectFailedEarly(w) ==
  LET failed == {e \in Events : delivery[e].status = "failed" /\ delivery[e].attempts < MaxAttempts - 1} IN
  /\ pc[w] = "retry"
  /\ todo' = [todo EXCEPT ![w] = failed]
  /\ held' = [held EXCEPT ![w] = [e \in Events |-> IF e \in failed THEN Load(e) ELSE NotHeld]]
  /\ Goto(w, IF failed = {} THEN "relay" ELSE "again")
  /\ UNCHANGED <<busVars, consumerVars, claimed, done, adding, entries, position, inserted,
                 ops, history, bounds>>

SelectFailed(w) ==
  LET failed == {e \in Events : delivery[e].status = "failed" /\ delivery[e].attempts < MaxAttempts} IN
  /\ pc[w] = "retry"
  /\ todo' = [todo EXCEPT ![w] = failed]
  /\ held' = [held EXCEPT ![w] = [e \in Events |-> IF e \in failed THEN Load(e) ELSE NotHeld]]
  /\ Goto(w, IF failed = {} THEN "relay" ELSE "again")
  /\ UNCHANGED <<busVars, consumerVars, claimed, done, adding, entries, position, inserted,
                 ops, history, bounds>>

\* A delivery whose event is gone is marked delivered without running anything.
RetryHandler(w) ==
  /\ pc[w] = "again"
  /\ \E e \in todo[w] :
       /\ todo' = [todo EXCEPT ![w] = @ \ {e}]
       /\ \E s \in IF event[e] = "present" THEN Outcomes(e, held[w][e])
                   ELSE {[held[w][e] EXCEPT !.now.status = "delivered"]} :
            held' = [held EXCEPT ![w][e] = s] /\ Note(e, s)
  /\ UNCHANGED <<busVars, consumerVars, pc, claimed, done, adding, entries, position, inserted,
                 ops, recovered, bounds>>

EndRetry(w) ==
  /\ pc[w] = "again"
  /\ todo[w] = {}
  /\ Close(w)
  /\ Goto(w, "relay")
  /\ UNCHANGED <<busVars, offset, relayVars, ops, history>>

CommitRetry(w) ==
  /\ EndRetry(w)
  /\ IF Stale(held[w]) THEN UNCHANGED <<delivery, effects>> ELSE CommitSession(held[w])
  /\ UNCHANGED bounds

RollbackRetry(w) == EndRetry(w) /\ Fault /\ UNCHANGED <<delivery, effects>>

-----------------------------------------------------------------------------
(* recover_job_event_consumer_deliveries and job_event_consumer_autoremediate. *)

Requeued(e) == [Load(e) EXCEPT !.now = [status |-> "failed", attempts |-> 0]]

BeginRecovery(candidates) ==
  /\ ops = Nothing
  /\ recoveries < MaxRecoveries
  /\ recoveries' = recoveries + 1
  /\ \E S \in SUBSET candidates \ {{}} :
       ops' = [e \in Events |-> IF e \in S THEN Requeued(e) ELSE NotHeld]
  /\ UNCHANGED <<busVars, consumerVars, pc, relayVars, sessionVars, history, purges, faults>>

\* An operator picks failed or delivered deliveries,
Recover == BeginRecovery({e \in Events : delivery[e].status \in {"failed", "delivered"}})

\* the remediation cycle exhausted ones.
Remediate == BeginRecovery({e \in Events : /\ delivery[e].status = "failed"
                                           /\ delivery[e].attempts >= MaxAttempts})

CommitRecovery ==
  /\ ops # Nothing
  /\ ops' = Nothing
  /\ IF Stale(ops) THEN UNCHANGED <<delivery, recovered>>
     ELSE delivery' = Flushed(ops) /\ recovered' = recovered \cup Holding(ops)
  /\ UNCHANGED <<busVars, offset, effects, pc, relayVars, sessionVars, stumbled, bounds>>

\* A worker dies anywhere and is started again.
Crash(w) ==
  /\ pc[w] # "relay"
  /\ Fault
  /\ todo' = [todo EXCEPT ![w] = {}]
  /\ claimed' = [claimed EXCEPT ![w] = {}]
  /\ done' = [done EXCEPT ![w] = {}]
  /\ adding' = [adding EXCEPT ![w] = NoEvent]
  /\ Close(w)
  /\ Goto(w, "relay")
  /\ UNCHANGED <<busVars, consumerVars, ops, history>>

-----------------------------------------------------------------------------

Relay(w) == SelectEvents(w) \/ ClaimEvents(w) \/ SetKey(w) \/ AddEntry(w) \/ CommitRelay(w)
Consume(w) == ReadStream(w) \/ Look(w) \/ Insert(w) \/ RunHandler(w) \/ CommitConsume(w)
RetryFailed(w) == SelectFailed(w) \/ RetryHandler(w) \/ CommitRetry(w)

WorkerStep(w) == Relay(w) \/ Consume(w) \/ RetryFailed(w)

WorkerFault(w) == SetKeyFails(w) \/ AddEntryFails(w) \/ RollbackRelay(w) \/ RollbackConsume(w)
                    \/ RollbackRetry(w) \/ Crash(w)

Next ==
  \/ \E e \in Events : Emit(e) \/ Purge(e)
  \/ \E w \in Workers : WorkerStep(w) \/ WorkerFault(w)
  \/ Recover \/ Remediate \/ CommitRecovery

Spec == Init /\ [][Next]_vars

\* The worker loop keeps running; nothing else has to happen.
FairSpec == Spec /\ \A w \in Workers : WF_vars(WorkerStep(w))

-----------------------------------------------------------------------------
(* Properties.                                                             *)

\* The committed offset never runs ahead of the deliveries: every entry behind
\* it has a delivery row unless retention removed the event, although batches
\* of several workers overlap, roll back and write the offset in any order.
NoEntrySkipped ==
  \A i \in 1 .. offset : delivery[stream[i]].status # "none" \/ event[stream[i]] # "present"

\* An event whose handler never raised and that nobody requeued has had at most
\* one effect, although its stream entry may be doubled (an XADD that raised
\* after reaching Redis), read by two workers at once and read again after a
\* crash: the unique delivery row decides.
CleanEventsOnce ==
  \A e \in Events \ (stumbled \cup recovered) : effects[e] <= 1

\* A delivery marked delivered had its effect committed with it.
DeliveredHadEffect ==
  \A e \in Events : delivery[e].status = "delivered" => effects[e] >= 1

\* A worker never takes a delivered event back, even when it handled an older
\* copy of the row and failed: the failed status is not written because that
\* session had not changed it.  Only a requeue or retention does.
DeliveredStays ==
  [][\A e \in Events : delivery[e].status = "delivered" =>
        delivery'[e].status = "delivered" \/ ops # Nothing \/ event'[e] = "purged"]_vars

\* Without faults every event is handled in the end: delivered, or failed with
\* no attempts left, or removed by retention.
Handles ==
  \A e \in Events : event[e] = "present" ~>
    \/ delivery[e].status = "delivered"
    \/ delivery[e].status = "failed" /\ delivery[e].attempts >= MaxAttempts
    \/ event[e] = "purged"

=============================================================================
