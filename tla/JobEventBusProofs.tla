-------------------------- MODULE JobEventBusProofs --------------------------
(***************************************************************************)
(* Proofs about JobEventBus, for every set of events and workers and every *)
(* number of attempts, recoveries, purges and faults.                      *)
(*                                                                         *)
(* A worker's transaction has its own view of the deliveries; the          *)
(* invariant says what of it can be trusted, whatever the others commit:   *)
(*                                                                         *)
(*   Batch(w)    the entries in hand are those that follow the position,   *)
(*               and an idle worker holds no delivery                      *)
(*   Carries(w)  what a relay or a retry has in hand was an event once     *)
(*   Known       what the stream carries was an event once                 *)
(*   Rows        a committed delivery, its effects and its event agree     *)
(*   Inserts     a delivery row in insertion has one owner and no rival    *)
(*   Session(w)  a delivery in a session was inserted by it or had failed, *)
(*               and is delivered only if its handler ran                  *)
(*   Covers(w)   an entry behind the position is dealt with, or will be    *)
(*               when the session commits                                  *)
(***************************************************************************)
EXTENDS JobEventBus, SequenceTheorems, TLAPS

\* The events whose handler has raised, or that were given new attempts.
Marked == stumbled \cup recovered

\* The labels at which a worker has no consumption or retry in progress.
Idle == {"relay", "claim", "publish", "add", "read", "retry"}

Batch(w) ==
  /\ pc[w] \in Idle => held[w] = Nothing
  /\ pc[w] = "add" => adding[w] \in Events
  /\ pc[w] \in {"insert", "handle"} => entries[w] # <<>>
  /\ pc[w] = "handle" =>
       /\ held[w][Head(entries[w])] # NotHeld
       /\ held[w][Head(entries[w])].now.status \in {"pending", "failed"}
  /\ position[w] + Len(entries[w]) <= Len(stream)
  /\ \A j \in 1 .. Len(entries[w]) : entries[w][j] = stream[position[w] + j]

Carries(w) ==
  /\ adding[w] # NoEvent => event[adding[w]] # "absent"
  /\ \A e \in todo[w] : event[e] # "absent"
  /\ pc[w] = "again" => \A e \in todo[w] : held[w][e] # NotHeld /\ held[w][e].was.status = "failed"

Known == \A i \in 1 .. Len(stream) : event[stream[i]] # "absent"

Row(e) ==
  /\ delivery[e].status # "pending"
  /\ delivery[e].status = "failed" => e \in Marked
  /\ delivery[e].status = "delivered" => effects[e] >= 1
  /\ delivery[e].status # "none" => event[e] = "present"
  /\ e \notin Marked => effects[e] <= 1
  /\ e \notin Marked /\ event[e] # "purged" /\ delivery[e].status = "none" => effects[e] = 0

Rows == \A e \in Events : Row(e)

Inserts ==
  \A w \in Workers : \A e \in inserted[w] :
    /\ event[e] = "present" /\ delivery[e].status = "none"
    /\ \A v \in Workers : e \in inserted[v] => v = w

\* What a session holds of e; own: it has inserted the row itself.
Holds(e, s, own, marked) ==
  /\ s.was.status \in {"none", "failed"}
  /\ s.was.status = "none" => own
  /\ s.was.status = "failed" => e \in marked /\ event[e] # "absent"
  /\ s.now.status # "none"
  /\ s.now.status = "failed" => e \in marked
  /\ s.now.status = "delivered" => s.ran >= 1 \/ event[e] = "purged"
  /\ e \notin marked => s.ran <= 1
  /\ e \notin marked /\ s.now.status # "delivered" => s.ran = 0

Session(w) ==
  \A e \in Events : held[w][e] # NotHeld =>
    /\ Holds(e, held[w][e], e \in inserted[w], Marked)
    /\ held[w][e].now.status = "pending" => pc[w] = "handle" /\ e = Head(entries[w])

Requeues ==
  \A e \in Events : ops[e] # NotHeld =>
    ops[e].was.status \in {"failed", "delivered"} /\ ops[e].now.status = "failed"

Covers(w) ==
  \A i \in 1 .. position[w] :
    \/ delivery[stream[i]].status # "none"
    \/ event[stream[i]] # "present"
    \/ held[w][stream[i]] # NotHeld

Worker(w) == Batch(w) /\ Carries(w) /\ Session(w) /\ Covers(w)

IInv ==
  /\ TypeOK /\ Known /\ Rows /\ Inserts /\ Requeues /\ NoEntrySkipped
  /\ \A w \in Workers : Worker(w)

-----------------------------------------------------------------------------
(* Sessions.                                                               *)

LEMMA LoadIs ==
  ASSUME NEW e \in Events, delivery[e] \in Deliveries
  PROVE  /\ Load(e) \in Sessions /\ Load(e).was = delivery[e] /\ Load(e).now = delivery[e] /\ Load(e).ran = 0
         /\ delivery[e].status # "none" => Load(e) # NotHeld
BY DEF Load, Sessions, NotHeld, NoDelivery

LEMMA NothingIs == NotHeld \in Sessions /\ NotHeld.was = NoDelivery /\ NotHeld.now = NoDelivery /\ NotHeld.ran = 0
BY DEF NotHeld, Sessions, NoDelivery, Deliveries

LEMMA OutcomesAre ==
  ASSUME NEW e \in Events, NEW s \in Sessions, NEW r \in Outcomes(e, s)
  PROVE  /\ r \in Sessions /\ r.was = s.was
         /\ \/ r.now.status = "delivered" /\ r.ran = s.ran + 1
            \/ r.now.status = "failed" /\ r.ran = s.ran /\ e \in Flaky
<1> DEFINE n == s.now.attempts + 1
           m == s.ran + 1
<1>1. n \in Nat /\ m \in Nat
  BY DEF Sessions, Deliveries
<1> DEFINE good == [s EXCEPT !.now = [status |-> "delivered", attempts |-> n], !.ran = m]
           bad == [s EXCEPT !.now = [status |-> "failed", attempts |-> n]]
<1>2. r = good \/ (r = bad /\ e \in Flaky)
  BY DEF Outcomes, Handled, Raised
<1> HIDE DEF n, m
<1>3. good \in Sessions /\ good.was = s.was /\ good.now.status = "delivered" /\ good.ran = m
  BY <1>1 DEF Sessions, Deliveries
<1>4. bad \in Sessions /\ bad.was = s.was /\ bad.now.status = "failed" /\ bad.ran = s.ran
  BY <1>1 DEF Sessions, Deliveries
<1> QED  BY <1>2, <1>3, <1>4 DEF m

LEMMA FlushedIs ==
  ASSUME delivery \in [Events -> Deliveries], NEW h \in [Events -> Sessions]
  PROVE  /\ Flushed(h) \in [Events -> Deliveries]
         /\ \A e \in Events :
              /\ h[e] = NotHeld => Flushed(h)[e] = delivery[e]
              /\ Flushed(h)[e].status = IF h[e].now.status = h[e].was.status THEN delivery[e].status
                                        ELSE h[e].now.status
<1>1. \A e \in Events : Flushed(h)[e] =
        [status |-> IF h[e].now.status = h[e].was.status THEN delivery[e].status ELSE h[e].now.status,
         attempts |-> IF h[e].now.attempts = h[e].was.attempts THEN delivery[e].attempts
                                                               ELSE h[e].now.attempts]
  BY DEF Flushed
<1>2. \A e \in Events : delivery[e] \in Deliveries /\ h[e].now \in Deliveries /\ h[e].was \in Deliveries
  BY DEF Sessions
<1>3. ASSUME NEW e \in Events, h[e] = NotHeld PROVE Flushed(h)[e] = delivery[e]
  <2>1. Flushed(h)[e] = [status |-> delivery[e].status, attempts |-> delivery[e].attempts]
    BY <1>1, <1>3, NothingIs
  <2> QED BY <1>2, <2>1 DEF Deliveries
<1>4. \A e \in Events : Flushed(h)[e] \in Deliveries
  <2> SUFFICES ASSUME NEW e \in Events PROVE Flushed(h)[e] \in Deliveries
    OBVIOUS
  <2> DEFINE st == IF h[e].now.status = h[e].was.status THEN delivery[e].status ELSE h[e].now.status
             at == IF h[e].now.attempts = h[e].was.attempts THEN delivery[e].attempts
                                                            ELSE h[e].now.attempts
  <2>1. st \in {"none", "pending", "failed", "delivered"} /\ at \in Nat
    BY <1>2 DEF Deliveries
  <2>2. Flushed(h)[e] = [status |-> st, attempts |-> at]
    BY <1>1
  <2> HIDE DEF st, at
  <2> QED BY <2>1, <2>2 DEF Deliveries
<1>5. Flushed(h) \in [Events -> Deliveries]
  <2>1. Flushed(h) = [e \in Events |-> Flushed(h)[e]]
    BY DEF Flushed
  <2> QED BY <1>4, <2>1
<1> QED  BY <1>1, <1>3, <1>5

-----------------------------------------------------------------------------
(* What no step undoes.                                                    *)

Forward ==
  /\ stream' \in Seq(Events) /\ Len(stream) <= Len(stream')
  /\ \A i \in 1 .. Len(stream) : stream'[i] = stream[i]
  /\ stumbled \subseteq stumbled' /\ recovered \subseteq recovered'
  /\ \A e \in Events : /\ event[e] = "purged" => event'[e] = "purged"
                       /\ event[e] # "absent" => event'[e] # "absent"
                       /\ delivery[e].status # "none" => delivery'[e].status # "none" \/ event'[e] = "purged"

Same(w) ==
  /\ pc'[w] = pc[w] /\ entries'[w] = entries[w] /\ position'[w] = position[w]
  /\ inserted'[w] = inserted[w] /\ held'[w] = held[w]
  /\ adding'[w] = adding[w] /\ todo'[w] = todo[w]

LEMMA StreamIs ==
  ASSUME TypeOK
  PROVE  /\ stream \in Seq(Events) /\ Len(stream) \in Nat /\ \A i \in 1 .. Len(stream) : stream[i] \in Events
         /\ offset \in 0 .. Len(stream)
BY LenProperties, ElementOfSeq DEF TypeOK

LEMMA WorkerIs ==
  ASSUME TypeOK, NEW w \in Workers
  PROVE  /\ entries[w] \in Seq(Events) /\ Len(entries[w]) \in Nat
         /\ \A j \in 1 .. Len(entries[w]) : entries[w][j] \in Events
         /\ position[w] \in 0 .. Len(stream) /\ position[w] \in Nat
         /\ held[w] \in [Events -> Sessions] /\ \A e \in Events : held[w][e] \in Sessions
         /\ todo[w] \subseteq Events /\ inserted[w] \subseteq Events
<1>1. entries[w] \in Seq(Events)
  BY DEF TypeOK
<1>2. /\ Len(entries[w]) \in Nat /\ \A j \in 1 .. Len(entries[w]) : entries[w][j] \in Events
  BY <1>1, LenProperties, ElementOfSeq
<1>3. position[w] \in 0 .. Len(stream) /\ position[w] \in Nat
  BY StreamIs DEF TypeOK
<1>4. held[w] \in [Events -> Sessions] /\ todo[w] \subseteq Events /\ inserted[w] \subseteq Events
  BY DEF TypeOK
<1>5. \A e \in Events : held[w][e] \in Sessions
  BY <1>4
<1> QED  BY <1>1, <1>2, <1>3, <1>4, <1>5

\* A worker that does nothing loses nothing.
LEMMA SameKept ==
  ASSUME IInv, Forward, NEW w \in Workers, Same(w)
  PROVE  Worker(w)'
<1>1. /\ Batch(w) /\ Carries(w) /\ Session(w) /\ Covers(w) /\ TypeOK
  BY DEF IInv, Worker
<1>2. Batch(w)'
  <2>1. \A j \in 1 .. Len(entries[w]) : position[w] + j \in 1 .. Len(stream)
    BY <1>1, StreamIs, WorkerIs DEF Batch
  <2>2. Len(stream') \in Nat
    BY LenProperties DEF Forward
  <2>3. position'[w] + Len(entries'[w]) <= Len(stream')
    BY <1>1, <2>2, StreamIs, WorkerIs DEF Batch, Same, Forward
  <2>4. \A j \in 1 .. Len(entries'[w]) : entries'[w][j] = stream'[position'[w] + j]
    BY <1>1, <2>1 DEF Batch, Same, Forward
  <2> QED BY <1>1, <2>3, <2>4 DEF Batch, Same
<1>3. Carries(w)'
  <2>1. adding[w] \in Events \cup {NoEvent} /\ todo[w] \subseteq Events
    BY <1>1 DEF TypeOK
  <2> QED BY <1>1, <2>1 DEF Carries, Same, Forward
<1>4. Session(w)'
  <2> SUFFICES ASSUME NEW e \in Events, held'[w][e] # NotHeld
               PROVE  /\ Holds(e, held[w][e], e \in inserted[w], Marked)'
                      /\ held'[w][e].now.status = "pending" => pc'[w] = "handle" /\ e = Head(entries'[w])
    BY DEF Session
  <2>1. Holds(e, held[w][e], e \in inserted[w], Marked)
    BY <1>1 DEF Session, Same
  <2>2. Holds(e, held[w][e], e \in inserted[w], Marked)'
    BY <2>1 DEF Holds, Same, Forward, Marked
  <2>3. held'[w][e].now.status = "pending" => pc'[w] = "handle" /\ e = Head(entries'[w])
    BY <1>1 DEF Session, Same
  <2> QED BY <2>2, <2>3
<1>5. Covers(w)'
  <2> SUFFICES ASSUME NEW i \in 1 .. position[w]
               PROVE  \/ delivery'[stream'[i]].status # "none"
                      \/ event'[stream'[i]] # "present"
                      \/ held'[w][stream'[i]] # NotHeld
    BY DEF Covers, Same
  <2>1. i \in 1 .. Len(stream)
    BY <1>1, StreamIs, WorkerIs
  <2>2. stream'[i] = stream[i] /\ stream[i] \in Events /\ event[stream[i]] # "absent"
    BY <1>1, <2>1, StreamIs DEF Forward, IInv, Known
  <2>3. \/ delivery[stream[i]].status # "none"
        \/ event[stream[i]] # "present"
        \/ held[w][stream[i]] # NotHeld
    BY <1>1 DEF Covers
  <2>4. event[stream[i]] \in {"absent", "present", "purged"}
    BY <1>1, <2>2 DEF TypeOK
  <2> QED BY <2>2, <2>3, <2>4 DEF Forward, Same
<1> QED  BY <1>2, <1>3, <1>4, <1>5 DEF Worker

\* An entry behind the offset stays dealt with.
LEMMA OffsetKept ==
  ASSUME IInv, Forward, offset' = offset
  PROVE  NoEntrySkipped'
<1> SUFFICES ASSUME NEW i \in 1 .. offset
             PROVE  delivery'[stream'[i]].status # "none" \/ event'[stream'[i]] # "present"
  BY DEF NoEntrySkipped
<1>1. i \in 1 .. Len(stream)
  BY StreamIs DEF IInv
<1>2. stream'[i] = stream[i] /\ stream[i] \in Events /\ event[stream[i]] # "absent"
  BY <1>1, StreamIs DEF Forward, IInv, Known
<1>3. delivery[stream[i]].status # "none" \/ event[stream[i]] # "present"
  BY DEF IInv, NoEntrySkipped
<1>4. event[stream[i]] \in {"absent", "present", "purged"}
  BY <1>2 DEF IInv, TypeOK
<1> QED  BY <1>2, <1>3, <1>4 DEF Forward

\* The entries on the stream are known, and a new one is if its event is.
LEMMA KnownKept ==
  ASSUME IInv, Forward,
         \A i \in 1 .. Len(stream') : i \in 1 .. Len(stream) \/ event'[stream'[i]] # "absent"
  PROVE  Known'
BY StreamIs DEF IInv, Known, Forward

-----------------------------------------------------------------------------
(* The relay.                                                              *)

Labels == {"relay", "claim", "publish", "add", "read", "look", "insert", "handle", "retry", "again"}

\* What a relay's step may touch.
Relays(w, l, T, a) ==
  /\ UNCHANGED <<event, consumerVars, sessionVars, ops, history, recoveries, purges>>
  /\ relayed' \subseteq Events /\ relayKey' \subseteq Events /\ faults' \in 0 .. MaxFaults
  /\ claimed' \in [Workers -> SUBSET Events] /\ done' \in [Workers -> SUBSET Events]
  /\ l \in Idle /\ pc' = [pc EXCEPT ![w] = l]
  /\ T \subseteq Events /\ todo' = [todo EXCEPT ![w] = T] /\ \A e \in T : event[e] # "absent"
  /\ a \in Events \cup {NoEvent} /\ adding' = [adding EXCEPT ![w] = a]
  /\ a # NoEvent => event[a] # "absent"
  /\ l = "add" => a \in Events
  /\ pc[w] \in Idle
  /\ stream' = stream \/ \E e \in Events : event[e] # "absent" /\ stream' = Append(stream, e)

LEMMA RelaysKept ==
  ASSUME IInv, NEW w \in Workers, NEW l, NEW T, NEW a, Relays(w, l, T, a)
  PROVE  IInv'
<1>1. /\ UNCHANGED <<event, consumerVars, sessionVars, ops, history, recoveries, purges>>
      /\ pc[w] \in Idle
  BY DEF Relays
<1>2. l \in Idle /\ pc' = [pc EXCEPT ![w] = l] /\ (l = "add" => a \in Events)
  BY DEF Relays
<1>3. T \in SUBSET Events /\ todo' = [todo EXCEPT ![w] = T] /\ \A e \in T : event[e] # "absent"
  BY DEF Relays
<1>4. /\ a \in Events \cup {NoEvent} /\ adding' = [adding EXCEPT ![w] = a]
      /\ (a # NoEvent => event[a] # "absent")
  BY DEF Relays
<1>5. /\ stream' \in Seq(Events) /\ Len(stream) <= Len(stream') /\ Len(stream') \in Nat
      /\ \A i \in 1 .. Len(stream) : stream'[i] = stream[i]
      /\ \A i \in 1 .. Len(stream') : i \in 1 .. Len(stream) \/ event'[stream'[i]] # "absent"
  <2>1. CASE stream' = stream
    BY <2>1, StreamIs DEF IInv
  <2>2. ASSUME NEW e \in Events, event[e] # "absent", stream' = Append(stream, e)
        PROVE  <1>5
    <3>1. /\ stream' \in Seq(Events) /\ Len(stream') = Len(stream) + 1 /\ stream'[Len(stream) + 1] = e
          /\ \A i \in 1 .. Len(stream) : stream'[i] = stream[i]
      BY <2>2, StreamIs, AppendProperties DEF IInv
    <3>2. Len(stream) \in Nat
      BY StreamIs DEF IInv
    <3>3. \A i \in 1 .. Len(stream') : i \in 1 .. Len(stream) \/ i = Len(stream) + 1
      BY <3>1, <3>2
    <3> QED BY <1>1, <2>2, <3>1, <3>2, <3>3
  <2> QED BY <2>1, <2>2 DEF Relays
<1>6. Forward
  BY <1>1, <1>5 DEF Forward, consumerVars, history
<1>7. TypeOK'
  <2>1. 0 .. Len(stream) \subseteq 0 .. Len(stream')
    BY <1>5, StreamIs DEF IInv
  <2>2. offset' \in 0 .. Len(stream') /\ position' \in [Workers -> 0 .. Len(stream')]
    BY <1>1, <2>1 DEF IInv, TypeOK, consumerVars, sessionVars
  <2>3. /\ pc' \in [Workers -> Labels] /\ todo' \in [Workers -> SUBSET Events]
        /\ adding' \in [Workers -> Events \cup {NoEvent}]
    BY <1>2, <1>3, <1>4 DEF IInv, TypeOK, Labels, Idle
  <2> QED BY <1>1, <1>5, <2>2, <2>3
          DEF IInv, TypeOK, consumerVars, sessionVars, history, Relays, Labels
<1>8. \A v \in Workers \ {w} : pc'[v] = pc[v] /\ todo'[v] = todo[v] /\ adding'[v] = adding[v]
  BY <1>2, <1>3, <1>4 DEF IInv, TypeOK
<1>9. pc'[w] = l /\ todo'[w] = T /\ adding'[w] = a
  BY <1>2, <1>3, <1>4 DEF IInv, TypeOK
<1>10. \A v \in Workers : v # w => Worker(v)'
  BY <1>1, <1>6, <1>8, SameKept DEF Same, sessionVars
<1>11. Worker(w)'
  <2>1. Batch(w) /\ Session(w) /\ Covers(w) /\ TypeOK
    BY DEF IInv, Worker
  <2>2. Batch(w)'
    <3>1. \A j \in 1 .. Len(entries[w]) : position[w] + j \in 1 .. Len(stream)
      BY <2>1, StreamIs, WorkerIs DEF Batch
    <3>2. position'[w] + Len(entries'[w]) <= Len(stream')
      BY <1>1, <1>5, <2>1, StreamIs, WorkerIs DEF Batch, sessionVars
    <3>3. \A j \in 1 .. Len(entries'[w]) : entries'[w][j] = stream'[position'[w] + j]
      BY <1>1, <1>5, <2>1, <3>1 DEF Batch, sessionVars
    <3>4. held'[w] = Nothing /\ Nothing' = Nothing
      BY <1>1, <2>1 DEF Batch, sessionVars, Nothing
    <3> QED BY <1>2, <1>9, <3>2, <3>3, <3>4 DEF Batch, Idle
  <2>3. Carries(w)'
    BY <1>1, <1>2, <1>3, <1>4, <1>9 DEF Carries, Idle
  <2>4. Session(w)'
    <3>1. \A e \in Events : held'[w][e] = NotHeld
      BY <1>1, <2>1 DEF Batch, sessionVars, Nothing
    <3> QED BY <3>1 DEF Session
  <2>5. Covers(w)'
    <3> SUFFICES ASSUME NEW i \in 1 .. position[w]
                 PROVE  \/ delivery[stream'[i]].status # "none"
                        \/ event[stream'[i]] # "present"
                        \/ held[w][stream'[i]] # NotHeld
      BY <1>1 DEF Covers, sessionVars, consumerVars
    <3>1. i \in 1 .. Len(stream)
      BY <2>1, StreamIs, WorkerIs
    <3>2. stream'[i] = stream[i]
      BY <1>5, <3>1
    <3> QED BY <2>1, <3>2 DEF Covers
  <2> QED BY <2>2, <2>3, <2>4, <2>5 DEF Worker
<1>12. Known' /\ NoEntrySkipped'
  BY <1>1, <1>5, <1>6, KnownKept, OffsetKept DEF consumerVars
<1>13. Rows' /\ Inserts' /\ Requeues'
  BY <1>1 DEF IInv, Rows, Row, Marked, Inserts, Requeues, consumerVars, sessionVars, history
<1> QED  BY <1>7, <1>10, <1>11, <1>12, <1>13 DEF IInv

LEMMA RelayKeeps ==
  ASSUME IInv, NEW w \in Workers, Relay(w) \/ SetKeyFails(w) \/ AddEntryFails(w) \/ RollbackRelay(w)
  PROVE  IInv' /\ UNCHANGED delivery
<1> USE DEF busVars, consumerVars, relayVars, sessionVars, history, bounds
<1>1. TypeOK /\ Batch(w) /\ Carries(w)
  BY DEF IInv, Worker
<1>2. /\ pc \in [Workers -> Labels] /\ todo \in [Workers -> SUBSET Events]
      /\ adding \in [Workers -> Events \cup {NoEvent}] /\ claimed \in [Workers -> SUBSET Events]
      /\ done \in [Workers -> SUBSET Events] /\ relayed \subseteq Events /\ relayKey \subseteq Events
      /\ faults \in 0 .. MaxFaults
  BY <1>1 DEF TypeOK, Labels
<1>3. /\ pc = [pc EXCEPT ![w] = pc[w]] /\ todo = [todo EXCEPT ![w] = todo[w]] /\ todo[w] \in SUBSET Events
      /\ adding = [adding EXCEPT ![w] = adding[w]] /\ adding[w] \in Events \cup {NoEvent}
      /\ (adding[w] # NoEvent => event[adding[w]] # "absent") /\ \A e \in todo[w] : event[e] # "absent"
  BY <1>1, <1>2 DEF Carries
<1>4. CASE SelectEvents(w)
  <2> DEFINE l == IF Unrelayed = {} THEN "read" ELSE "claim"
  <2>1. Relays(w, l, Unrelayed, adding[w])
    <3>1. Unrelayed \subseteq Events /\ \A e \in Unrelayed : event[e] # "absent"
      BY DEF Unrelayed
    <3>2. /\ pc[w] = "relay" /\ todo' = [todo EXCEPT ![w] = Unrelayed] /\ pc' = [pc EXCEPT ![w] = l]
          /\ UNCHANGED <<busVars, consumerVars, claimed, done, adding, sessionVars, ops, history, bounds>>
      BY <1>4 DEF SelectEvents, Goto
    <3>3. l \in Idle /\ l # "add"
      BY DEF Idle
    <3> HIDE DEF l
    <3> QED BY <1>2, <1>3, <3>1, <3>2, <3>3 DEF Relays, Idle
  <2> QED BY <1>4, <2>1, RelaysKept DEF SelectEvents
<1>5. CASE ClaimEvents(w)
  <2> DEFINE whole == \A e \in todo[w] : event[e] = "present"
             l == IF whole THEN "publish" ELSE "read"
             T == IF whole THEN todo[w] ELSE {}
  <2>1. Relays(w, l, T, adding[w])
    <3>1. T \subseteq Events /\ \A e \in T : event[e] # "absent"
      BY <1>3
    <3>2. /\ pc[w] = "claim" /\ todo' = [todo EXCEPT ![w] = T] /\ pc' = [pc EXCEPT ![w] = l]
          /\ claimed' \in {claimed, [claimed EXCEPT ![w] = todo[w]]}
          /\ UNCHANGED <<busVars, consumerVars, done, adding, sessionVars, ops, history, bounds>>
      BY <1>3, <1>5 DEF ClaimEvents, Goto
    <3>3. l \in Idle /\ l # "add"
      BY DEF Idle
    <3>4. claimed' \in [Workers -> SUBSET Events]
      BY <1>2, <1>3, <3>2
    <3> HIDE DEF l, T
    <3> QED BY <1>2, <1>3, <3>1, <3>2, <3>3, <3>4 DEF Relays, Idle
  <2> QED BY <1>5, <2>1, RelaysKept DEF ClaimEvents
<1>6. CASE SetKey(w)
  <2>1. PICK e \in todo[w] :
          /\ todo' = [todo EXCEPT ![w] = @ \ {e}]
          /\ IF e \in relayKey
               THEN done' = [done EXCEPT ![w] = @ \cup {e}] /\ UNCHANGED <<relayKey, pc, adding>>
               ELSE /\ relayKey' = relayKey \cup {e}
                    /\ adding' = [adding EXCEPT ![w] = e]
                    /\ Goto(w, "add")
                    /\ UNCHANGED done
    BY <1>6 DEF SetKey
  <2>2. /\ pc[w] = "publish"
        /\ UNCHANGED <<event, relayed, stream, consumerVars, claimed, sessionVars, ops, history, bounds>>
    BY <1>6 DEF SetKey
  <2>3. e \in Events /\ event[e] # "absent"
    BY <1>1, <1>3 DEF Carries
  <2>4. /\ todo' = [todo EXCEPT ![w] = todo[w] \ {e}] /\ todo[w] \ {e} \subseteq Events
        /\ \A f \in todo[w] \ {e} : event[f] # "absent"
    BY <1>3, <2>1
  <2>5. CASE e \in relayKey
    <3>1. done' \in [Workers -> SUBSET Events]
      BY <1>2, <2>1, <2>3, <2>5
    <3>2. Relays(w, pc[w], todo[w] \ {e}, adding[w])
      BY <1>2, <1>3, <2>1, <2>2, <2>4, <2>5, <3>1 DEF Relays, Idle
    <3> QED BY <2>2, <3>2, RelaysKept
  <2>6. CASE e \notin relayKey
    <3>1. Relays(w, "add", todo[w] \ {e}, e)
      BY <1>2, <1>3, <2>1, <2>2, <2>3, <2>4, <2>6 DEF Relays, Idle, Goto
    <3> QED BY <2>2, <3>1, RelaysKept
  <2> QED BY <2>5, <2>6
<1>7. CASE SetKeyFails(w)
  <2>1. PICK e \in todo[w] : /\ todo' = [todo EXCEPT ![w] = @ \ {e}]
                             /\ relayKey' \in {relayKey, relayKey \cup {e}}
    BY <1>7 DEF SetKeyFails
  <2>2. /\ pc[w] = "publish" /\ faults' \in 0 .. MaxFaults
        /\ UNCHANGED <<event, relayed, stream, consumerVars, pc, claimed, done, adding, sessionVars,
                       ops, history, recoveries, purges>>
    BY <1>2, <1>7, BoundsAssumption DEF SetKeyFails, Fault
  <2>3. /\ todo' = [todo EXCEPT ![w] = todo[w] \ {e}] /\ todo[w] \ {e} \subseteq Events
        /\ \A f \in todo[w] \ {e} : event[f] # "absent"
    BY <1>3, <2>1
  <2>4. Relays(w, pc[w], todo[w] \ {e}, adding[w])
    BY <1>2, <1>3, <2>1, <2>2, <2>3 DEF Relays, Idle
  <2> QED BY <2>2, <2>4, RelaysKept
<1>8. CASE AddEntry(w)
  <2>1. /\ pc[w] = "add" /\ stream' = Append(stream, adding[w])
        /\ done' = [done EXCEPT ![w] = @ \cup {adding[w]}]
        /\ adding' = [adding EXCEPT ![w] = NoEvent] /\ pc' = [pc EXCEPT ![w] = "publish"]
        /\ UNCHANGED <<event, relayed, relayKey, consumerVars, todo, claimed, sessionVars,
                       ops, history, bounds>>
    BY <1>8 DEF AddEntry, Goto
  <2>2. adding[w] \in Events /\ event[adding[w]] # "absent"
    BY <1>1, <2>1, EventsAssumption DEF Batch, Carries
  <2>3. done' \in [Workers -> SUBSET Events]
    BY <1>2, <2>1, <2>2
  <2>4. Relays(w, "publish", todo[w], NoEvent)
    BY <1>2, <1>3, <2>1, <2>2, <2>3 DEF Relays, Idle
  <2> QED BY <2>1, <2>4, RelaysKept
<1>9. CASE AddEntryFails(w)
  <2>1. /\ pc[w] = "add" /\ stream' \in {stream, Append(stream, adding[w])}
        /\ relayKey' \in {relayKey, relayKey \ {adding[w]}}
        /\ adding' = [adding EXCEPT ![w] = NoEvent] /\ pc' = [pc EXCEPT ![w] = "publish"]
        /\ faults' \in 0 .. MaxFaults
        /\ UNCHANGED <<event, relayed, consumerVars, todo, claimed, done, sessionVars, ops, history,
                       recoveries, purges>>
    BY <1>2, <1>9, BoundsAssumption DEF AddEntryFails, Goto, Fault
  <2>2. adding[w] \in Events /\ event[adding[w]] # "absent"
    BY <1>1, <2>1, EventsAssumption DEF Batch, Carries
  <2>3. Relays(w, "publish", todo[w], NoEvent)
    BY <1>2, <1>3, <2>1, <2>2 DEF Relays, Idle
  <2> QED BY <2>1, <2>3, RelaysKept
<1>10. CASE CommitRelay(w) \/ RollbackRelay(w)
  <2>1. /\ pc[w] = "publish" /\ pc' = [pc EXCEPT ![w] = "read"]
        /\ claimed' = [claimed EXCEPT ![w] = {}] /\ done' = [done EXCEPT ![w] = {}]
        /\ UNCHANGED <<event, relayKey, stream, consumerVars, todo, adding, sessionVars, ops, history,
                       recoveries, purges>>
        /\ relayed' \in {relayed, relayed \cup done[w]} /\ faults' \in 0 .. MaxFaults
    BY <1>2, <1>10, BoundsAssumption DEF CommitRelay, RollbackRelay, EndRelay, Goto, Fault
  <2>2. /\ claimed' \in [Workers -> SUBSET Events] /\ done' \in [Workers -> SUBSET Events]
        /\ relayed' \subseteq Events
    BY <1>2, <2>1
  <2>3. Relays(w, "read", todo[w], adding[w])
    BY <1>2, <1>3, <2>1, <2>2 DEF Relays, Idle
  <2> QED BY <2>1, <2>3, RelaysKept
<1> QED  BY <1>4, <1>5, <1>6, <1>7, <1>8, <1>9, <1>10 DEF Relay

-----------------------------------------------------------------------------
(* Sessions.                                                               *)

\* What a step on a session makes of it: of the label, the entries in hand, the
\* position, the deliveries held, the rows inserted and those still to retry.
Touches(w, l, es, p, h, ins, T) ==
  /\ UNCHANGED <<busVars, consumerVars, claimed, done, adding, ops, recovered, bounds>>
  /\ stumbled \subseteq stumbled' /\ stumbled' \subseteq Flaky
  /\ l \in Labels \ {"add"} /\ pc' = [pc EXCEPT ![w] = l]
  /\ es \in Seq(Events) /\ entries' = [entries EXCEPT ![w] = es]
  /\ p \in 0 .. Len(stream) /\ position' = [position EXCEPT ![w] = p]
  /\ h \in [Events -> Sessions] /\ held' = [held EXCEPT ![w] = h]
  /\ ins \subseteq Events /\ inserted' = [inserted EXCEPT ![w] = ins]
  /\ T \subseteq Events /\ todo' = [todo EXCEPT ![w] = T]

Sound(w, l, es, p, h, ins, T) ==
  /\ l \in Idle => h = Nothing
  /\ l \in {"insert", "handle"} => es # <<>>
  /\ l = "handle" => h[Head(es)] # NotHeld /\ h[Head(es)].now.status \in {"pending", "failed"}
  /\ p + Len(es) <= Len(stream)
  /\ \A j \in 1 .. Len(es) : es[j] = stream[p + j]
  /\ \A e \in T : event[e] # "absent"
  /\ l = "again" => \A e \in T : h[e] # NotHeld /\ h[e].was.status = "failed"
  /\ \A e \in Events : h[e] # NotHeld =>
       /\ Holds(e, h[e], e \in ins, stumbled' \cup recovered')
       /\ h[e].now.status = "pending" => l = "handle" /\ e = Head(es)
  /\ \A i \in 1 .. p :
       delivery[stream[i]].status # "none" \/ event[stream[i]] # "present" \/ h[stream[i]] # NotHeld
  /\ \A e \in ins : /\ event[e] = "present" /\ delivery[e].status = "none"
                    /\ \A v \in Workers : e \in inserted[v] => v = w

LEMMA TouchesKept ==
  ASSUME IInv, NEW w \in Workers, NEW l, NEW es, NEW p, NEW h, NEW ins, NEW T,
         Touches(w, l, es, p, h, ins, T), Sound(w, l, es, p, h, ins, T)
  PROVE  IInv'
<1> USE DEF busVars, consumerVars, bounds
<1>1. /\ UNCHANGED <<event, relayed, relayKey, stream, offset, delivery, effects, claimed, done, adding, ops,
                    recovered, recoveries, purges, faults>>
      /\ stumbled \subseteq stumbled' /\ stumbled' \subseteq Flaky
  BY DEF Touches
<1>2. TypeOK /\ Batch(w) /\ Carries(w) /\ Inserts
  BY DEF IInv, Worker
<1>3. /\ pc' \in [Workers -> Labels] /\ entries' \in [Workers -> Seq(Events)]
      /\ position' \in [Workers -> 0 .. Len(stream)] /\ held' \in [Workers -> [Events -> Sessions]]
      /\ inserted' \in [Workers -> SUBSET Events] /\ todo' \in [Workers -> SUBSET Events]
  BY <1>2 DEF Touches, TypeOK, Labels
<1>4. /\ pc'[w] = l /\ entries'[w] = es /\ position'[w] = p /\ held'[w] = h /\ inserted'[w] = ins /\ todo'[w] = T
      /\ l \in Labels \ {"add"}
  BY <1>2 DEF Touches, TypeOK
<1>5. \A v \in Workers : v # w => Same(v)
  BY <1>1, <1>2 DEF Touches, TypeOK, Same
<1>6. TypeOK'
  BY <1>1, <1>2, <1>3 DEF TypeOK, Labels
<1>7. Forward
  BY <1>1, <1>2, StreamIs DEF Forward
<1>8. \A v \in Workers : v # w => Worker(v)'
  BY <1>5, <1>7, SameKept
<1>9. Worker(w)'
  <2>1. Batch(w)'
    <3>1. /\ l \in Idle => h = Nothing
          /\ l \in {"insert", "handle"} => es # <<>>
          /\ l = "handle" => h[Head(es)] # NotHeld /\ h[Head(es)].now.status \in {"pending", "failed"}
          /\ p + Len(es) <= Len(stream)
          /\ \A j \in 1 .. Len(es) : es[j] = stream[p + j]
      BY DEF Sound
    <3> QED BY <1>1, <1>4, <3>1 DEF Batch, Nothing
  <2>2. Carries(w)'
    BY <1>1, <1>2, <1>4 DEF Carries, Sound
  <2>3. Session(w)'
    <3> SUFFICES ASSUME NEW e \in Events, h[e] # NotHeld
                 PROVE  /\ Holds(e, held[w][e], e \in inserted[w], Marked)'
                        /\ h[e].now.status = "pending" => l = "handle" /\ e = Head(es)
      BY <1>4 DEF Session
    <3>1. /\ Holds(e, h[e], e \in ins, stumbled' \cup recovered')
          /\ h[e].now.status = "pending" => l = "handle" /\ e = Head(es)
      BY DEF Sound
    <3>2. Holds(e, held[w][e], e \in inserted[w], Marked)'
      BY <1>1, <1>4, <3>1 DEF Holds, Marked
    <3> QED BY <3>1, <3>2
  <2>4. Covers(w)'
    BY <1>1, <1>4 DEF Covers, Sound
  <2> QED BY <2>1, <2>2, <2>3, <2>4 DEF Worker
<1>10. Known' /\ NoEntrySkipped'
  BY <1>1, <1>7, OffsetKept DEF IInv, Known
<1>11. Rows' /\ Requeues'
  BY <1>1 DEF IInv, Rows, Row, Marked, Requeues
<1>12. Inserts'
  <2> SUFFICES ASSUME NEW v \in Workers, NEW e \in inserted'[v]
               PROVE  /\ event[e] = "present" /\ delivery[e].status = "none"
                      /\ \A u \in Workers : e \in inserted'[u] => u = v
    BY <1>1 DEF Inserts
  <2>1. \A e1 \in ins : /\ event[e1] = "present" /\ delivery[e1].status = "none"
                        /\ \A u \in Workers : e1 \in inserted[u] => u = w
    BY DEF Sound
  <2>2. CASE v = w
    BY <1>4, <1>5, <2>1, <2>2 DEF Same
  <2>3. CASE v # w
    BY <1>2, <1>4, <1>5, <2>1, <2>3 DEF Same, Inserts
  <2> QED BY <2>2, <2>3
<1> QED  BY <1>6, <1>8, <1>9, <1>10, <1>11, <1>12 DEF IInv

\* What a worker that is not handling an entry holds, it has dealt with.
LEMMA HeldIs ==
  ASSUME IInv, NEW w \in Workers, NEW e \in Events, held[w][e] # NotHeld
  PROVE  /\ Holds(e, held[w][e], e \in inserted[w], Marked)
         /\ held[w][e].now.status = "pending" => pc[w] = "handle" /\ e = Head(entries[w])
BY DEF IInv, Worker, Session

\* The parts of a session that a step leaves alone.
LEMMA OthersHeld ==
  ASSUME IInv, NEW w \in Workers, NEW e \in Events, held[w][e] # NotHeld,
         stumbled \subseteq stumbled', recovered' = recovered
  PROVE  Holds(e, held[w][e], e \in inserted[w], stumbled' \cup recovered')
BY HeldIs DEF Holds, Marked

LEMMA ReadKeeps ==
  ASSUME IInv, NEW w \in Workers, ReadStream(w)
  PROVE  IInv' /\ UNCHANGED delivery
<1> DEFINE l == IF offset = Len(stream) THEN "retry" ELSE "look"
           es == SubSeq(stream, offset + 1, Len(stream))
<1>1. /\ pc[w] = "read" /\ pc' = [pc EXCEPT ![w] = l]
      /\ entries' = [entries EXCEPT ![w] = es] /\ position' = [position EXCEPT ![w] = offset]
      /\ UNCHANGED <<busVars, consumerVars, relayVars, inserted, held, ops, history, bounds>>
  BY DEF ReadStream, Goto
<1>2. TypeOK /\ NoEntrySkipped /\ Carries(w) /\ Inserts /\ held[w] = Nothing
  BY <1>1 DEF IInv, Worker, Batch, Idle
<1>3. /\ stream \in Seq(Events) /\ Len(stream) \in Nat /\ offset \in 0 .. Len(stream) /\ offset \in Nat
      /\ \A i \in 1 .. Len(stream) : stream[i] \in Events
  BY <1>2, StreamIs
<1>4. /\ es \in Seq(Events) /\ Len(es) = Len(stream) - offset
      /\ \A j \in 1 .. Len(es) : es[j] = stream[offset + j]
  <2>1. \A i \in offset + 1 .. Len(stream) : stream[i] \in Events
    BY <1>3
  <2>2. /\ es \in Seq(Events)
        /\ Len(es) = IF offset + 1 <= Len(stream) THEN Len(stream) - (offset + 1) + 1 ELSE 0
        /\ \A i \in 1 .. Len(stream) - (offset + 1) + 1 : es[i] = stream[offset + 1 + i - 1]
    BY <1>3, <2>1, SubSeqProperties
  <2>3. Len(es) = Len(stream) - offset
    BY <1>3, <2>2
  <2>4. \A j \in 1 .. Len(es) : offset + 1 + j - 1 = offset + j /\ j \in 1 .. Len(stream) - (offset + 1) + 1
    BY <1>3, <2>3
  <2> QED BY <2>2, <2>3, <2>4
<1> HIDE DEF es
<1>5. l \in {"retry", "look"}
  OBVIOUS
<1> HIDE DEF l
<1>6. Touches(w, l, es, offset, held[w], inserted[w], todo[w])
  BY <1>1, <1>2, <1>3, <1>4, <1>5 DEF Touches, TypeOK, Labels, relayVars, history
<1>7. Sound(w, l, es, offset, held[w], inserted[w], todo[w])
  <2>1. offset + Len(es) <= Len(stream)
    BY <1>3, <1>4
  <2>2. \A e \in todo[w] : event[e] # "absent"
    BY <1>2 DEF Carries
  <2>3. \A e \in Events : held[w][e] # NotHeld =>
          /\ Holds(e, held[w][e], e \in inserted[w], stumbled' \cup recovered')
          /\ held[w][e].now.status # "pending"
    BY <1>1, HeldIs, OthersHeld DEF history
  <2>4. \A i \in 1 .. offset : delivery[stream[i]].status # "none" \/ event[stream[i]] # "present"
    BY <1>2 DEF NoEntrySkipped
  <2>5. \A e \in inserted[w] : /\ event[e] = "present" /\ delivery[e].status = "none"
                               /\ \A v \in Workers : e \in inserted[v] => v = w
    BY <1>2 DEF Inserts
  <2> QED BY <1>2, <1>4, <1>5, <2>1, <2>2, <2>3, <2>4, <2>5 DEF Sound, Idle
<1>8. IInv'
  BY <1>6, <1>7, TouchesKept
<1> QED  BY <1>1, <1>8 DEF consumerVars

\* The entry in hand.
LEMMA HeadIs ==
  ASSUME IInv, NEW w \in Workers, entries[w] # <<>>
  PROVE  LET e == Head(entries[w]) IN
         /\ e \in Events /\ event[e] # "absent"
         /\ e = stream[position[w] + 1] /\ position[w] + 1 \in 1 .. Len(stream)
         /\ Tail(entries[w]) \in Seq(Events) /\ position[w] + 1 + Len(Tail(entries[w])) <= Len(stream)
         /\ \A j \in 1 .. Len(Tail(entries[w])) : Tail(entries[w])[j] = stream[position[w] + 1 + j]
<1> DEFINE es == entries[w]
           n == Len(entries[w])
           p == position[w]
<1>1. TypeOK /\ Batch(w) /\ Known
  BY DEF IInv, Worker
<1>2. /\ es \in Seq(Events) /\ n \in Nat /\ p \in Nat /\ es # <<>> /\ Len(stream) \in Nat
      /\ \A j \in 1 .. n : es[j] \in Events
  BY <1>1, WorkerIs, StreamIs
<1>3. /\ Head(es) \in Events /\ Head(es) = es[1] /\ Tail(es) \in Seq(Events) /\ Len(Tail(es)) = n - 1
      /\ \A j \in 1 .. Len(Tail(es)) : Tail(es)[j] = es[j + 1]
      /\ n >= 1
  <2>1. /\ Head(es) \in Events /\ Tail(es) \in Seq(Events) /\ Len(Tail(es)) = n - 1
        /\ \A j \in 1 .. Len(Tail(es)) : Tail(es)[j] = es[j + 1]
    BY <1>2, HeadTailProperties
  <2>2. n >= 1
    BY <1>2, <2>1, LenProperties
  <2> QED BY <1>2, <2>1, <2>2
<1>4. p + n <= Len(stream) /\ \A j \in 1 .. n : es[j] = stream[p + j]
  BY <1>1 DEF Batch
<1>5. Head(es) = stream[p + 1] /\ p + 1 \in 1 .. Len(stream)
  BY <1>2, <1>3, <1>4
<1>6. event[Head(es)] # "absent"
  BY <1>1, <1>5 DEF Known
<1>7. p + 1 + Len(Tail(es)) <= Len(stream)
  BY <1>2, <1>3, <1>4
<1>8. \A j \in 1 .. Len(Tail(es)) : Tail(es)[j] = stream[p + 1 + j]
  <2> SUFFICES ASSUME NEW j \in 1 .. Len(Tail(es)) PROVE Tail(es)[j] = stream[p + 1 + j]
    OBVIOUS
  <2>1. j + 1 \in 1 .. n /\ p + (j + 1) = p + 1 + j
    BY <1>2, <1>3
  <2> QED BY <1>3, <1>4, <2>1
<1> QED  BY <1>3, <1>5, <1>6, <1>7, <1>8

\* A session takes hold of one delivery, h, and keeps the others.
Takes(w, e, s, ins, h) ==
  /\ e \in Events /\ s \in Sessions /\ h = [held[w] EXCEPT ![e] = s]
  /\ inserted[w] \subseteq ins /\ stumbled \subseteq stumbled' /\ recovered' = recovered
  /\ Holds(e, s, e \in ins, stumbled' \cup recovered')
  /\ pc[w] = "handle" => e = Head(entries[w])

LEMMA TakesIs ==
  ASSUME IInv, NEW w \in Workers, NEW e, NEW s, NEW ins, NEW h, Takes(w, e, s, ins, h)
  PROVE  /\ h \in [Events -> Sessions] /\ h[e] = s /\ s # NotHeld
         /\ \A f \in Events : held[w][f] # NotHeld => h[f] # NotHeld
         /\ \A f \in Events : h[f] # NotHeld =>
              /\ Holds(f, h[f], f \in ins, stumbled' \cup recovered')
              /\ h[f].now.status = "pending" => f = e
<1> USE DEF Takes
<1>1. held[w] \in [Events -> Sessions]
  BY WorkerIs DEF IInv
<1>2. h \in [Events -> Sessions] /\ h[e] = s /\ \A f \in Events : f # e => h[f] = held[w][f]
  BY <1>1
<1>3. s # NotHeld
  BY NothingIs DEF Holds, NoDelivery
<1>4. ASSUME NEW f \in Events, f # e, held[w][f] # NotHeld
      PROVE  /\ Holds(f, held[w][f], f \in ins, stumbled' \cup recovered')
             /\ held[w][f].now.status # "pending"
  <2>1. Holds(f, held[w][f], f \in inserted[w], stumbled' \cup recovered')
    BY <1>4, OthersHeld
  <2>2. held[w][f].now.status # "pending"
    BY <1>4, HeldIs
  <2> QED BY <2>1, <2>2 DEF Holds
<1>5. \A f \in Events : h[f] # NotHeld =>
        /\ Holds(f, h[f], f \in ins, stumbled' \cup recovered')
        /\ h[f].now.status = "pending" => f = e
  <2> SUFFICES ASSUME NEW f \in Events, h[f] # NotHeld
               PROVE  /\ Holds(f, h[f], f \in ins, stumbled' \cup recovered')
                      /\ h[f].now.status = "pending" => f = e
    OBVIOUS
  <2>1. CASE f = e
    BY <1>2, <2>1
  <2>2. CASE f # e
    BY <1>2, <1>4, <2>2
  <2> QED BY <2>1, <2>2
<1>6. \A f \in Events : held[w][f] # NotHeld => h[f] # NotHeld
  BY <1>2, <1>3
<1>7. h \in [Events -> Sessions] /\ h[e] = s /\ s # NotHeld
  BY <1>2, <1>3
<1> QED  BY <1>5, <1>6, <1>7

LEMMA LookKeeps ==
  ASSUME IInv, NEW w \in Workers, Look(w)
  PROVE  IInv' /\ UNCHANGED delivery
<1> DEFINE e == Head(entries[w])
           s == IF held[w][e] # NotHeld THEN held[w][e] ELSE Load(e)
<1>1. /\ pc[w] = "look" /\ entries[w] # <<>>
      /\ UNCHANGED <<busVars, consumerVars, relayVars, inserted, ops, history, bounds>>
  BY DEF Look
<1>2. /\ e \in Events /\ event[e] # "absent"
      /\ e = stream[position[w] + 1] /\ position[w] + 1 \in 1 .. Len(stream)
      /\ Tail(entries[w]) \in Seq(Events) /\ position[w] + 1 + Len(Tail(entries[w])) <= Len(stream)
      /\ \A j \in 1 .. Len(Tail(entries[w])) : Tail(entries[w])[j] = stream[position[w] + 1 + j]
  BY <1>1, HeadIs
<1>3. TypeOK /\ Batch(w) /\ Carries(w) /\ Session(w) /\ Covers(w) /\ Inserts /\ Row(e)
  BY <1>2 DEF IInv, Worker, Rows
<1>4. /\ entries[w] \in Seq(Events) /\ position[w] \in 0 .. Len(stream) /\ position[w] \in Nat
      /\ held[w] \in [Events -> Sessions] /\ todo[w] \subseteq Events /\ inserted[w] \subseteq Events
      /\ position[w] + 1 \in 0 .. Len(stream)
  BY <1>2, <1>3, WorkerIs, StreamIs
<1>5. delivery[e] \in Deliveries /\ event[e] \in {"absent", "present", "purged"}
  BY <1>2, <1>3 DEF TypeOK
<1>6. /\ s \in Sessions
      /\ s.now.status = "failed" => Holds(e, s, e \in inserted[w], stumbled' \cup recovered')
  <2>1. CASE held[w][e] # NotHeld
    BY <1>1, <1>2, <1>4, <2>1, OthersHeld DEF history
  <2>2. CASE held[w][e] = NotHeld
    <3>1. s \in Sessions /\ s.was = delivery[e] /\ s.now = delivery[e] /\ s.ran = 0
      BY <1>2, <1>5, <2>2, LoadIs
    <3> HIDE DEF s
    <3>2. ASSUME s.now.status = "failed" PROVE Holds(e, s, e \in inserted[w], stumbled' \cup recovered')
      <4>1. e \in stumbled' \cup recovered'
        BY <1>1, <1>3, <3>1, <3>2 DEF Row, Marked, history
      <4> QED BY <1>2, <3>1, <3>2, <4>1 DEF Holds
    <3> QED BY <3>1, <3>2
  <2> QED BY <2>1, <2>2
<1>7. \A f \in Events : held[w][f] # NotHeld =>
        /\ Holds(f, held[w][f], f \in inserted[w], stumbled' \cup recovered')
        /\ held[w][f].now.status # "pending"
  BY <1>1, HeldIs, OthersHeld DEF history
<1>8. /\ \A f \in todo[w] : event[f] # "absent"
      /\ \A f \in inserted[w] : /\ event[f] = "present" /\ delivery[f].status = "none"
                                /\ \A v \in Workers : f \in inserted[v] => v = w
      /\ \A i \in 1 .. position[w] :
           delivery[stream[i]].status # "none" \/ event[stream[i]] # "present" \/ held[w][stream[i]] # NotHeld
      /\ position[w] + Len(entries[w]) <= Len(stream)
      /\ \A j \in 1 .. Len(entries[w]) : entries[w][j] = stream[position[w] + j]
  BY <1>3 DEF Carries, Inserts, Covers, Batch
<1>9. \/ /\ event[e] # "present" \/ s.now.status = "delivered"
         /\ Advance(w) /\ UNCHANGED <<pc, held>>
      \/ Goto(w, "insert") /\ UNCHANGED <<entries, position, held>>
      \/ /\ s.now.status = "failed"
         /\ held' = [held EXCEPT ![w][e] = s]
         /\ Goto(w, "handle")
         /\ UNCHANGED <<entries, position>>
  <2> DEFINE a == event[e] # "present" \/ s.now.status = "delivered"
             b == event[e] = "present" /\ s.now.status = "none"
             c == event[e] = "present" /\ s.now.status = "failed"
  <2>1. a \/ b \/ c
    <3>1. s.now.status \in {"none", "failed", "delivered"}
      <4>1. CASE held[w][e] # NotHeld
        <5>1. held[w][e] \in Sessions /\ held[w][e].now.status # "pending"
          BY <1>2, <1>4, <1>7, <4>1
        <5> QED BY <4>1, <5>1 DEF Sessions, Deliveries
      <4>2. CASE held[w][e] = NotHeld
        <5>1. s.now = delivery[e]
          BY <1>2, <1>5, <4>2, LoadIs
        <5>2. delivery[e].status # "pending"
          BY <1>3 DEF Row
        <5> HIDE DEF s
        <5> QED BY <1>5, <5>1, <5>2 DEF Deliveries
      <4> QED BY <4>1, <4>2
    <3> HIDE DEF s
    <3> QED BY <3>1
  <2>2. (CASE a -> Advance(w) /\ UNCHANGED <<pc, held>>
           [] b -> Goto(w, "insert") /\ UNCHANGED <<entries, position, held>>
           [] c -> /\ held' = [held EXCEPT ![w][e] = s]
                   /\ Goto(w, "handle")
                   /\ UNCHANGED <<entries, position>>)
    BY DEF Look
  <2> QED BY <2>1, <2>2
<1>10. stumbled' = stumbled /\ stumbled \subseteq Flaky /\ recovered' = recovered /\ UNCHANGED todo
  BY <1>1, <1>3 DEF history, TypeOK, relayVars
<1> HIDE DEF e, s
<1>11. ASSUME event[e] # "present" \/ s.now.status = "delivered", Advance(w), UNCHANGED <<pc, held>>
       PROVE  IInv'
  <2>1. Touches(w, "look", Tail(entries[w]), position[w] + 1, held[w], inserted[w], todo[w])
    BY <1>1, <1>2, <1>3, <1>4, <1>10, <1>11 DEF Touches, TypeOK, Advance, Labels, relayVars
  <2>2. ASSUME NEW i \in 1 .. position[w] + 1
        PROVE  delivery[stream[i]].status # "none" \/ event[stream[i]] # "present" \/ held[w][stream[i]] # NotHeld
    <3>1. CASE i \in 1 .. position[w]
      BY <1>8, <3>1
    <3>2. CASE i = position[w] + 1
      <4>1. held[w][e] = NotHeld => s.now = delivery[e]
        BY <1>2, <1>5, LoadIs DEF s
      <4> QED BY <1>2, <1>11, <3>2, <4>1
    <3> QED BY <1>4, <3>1, <3>2
  <2>3. Sound(w, "look", Tail(entries[w]), position[w] + 1, held[w], inserted[w], todo[w])
    BY <1>2, <1>7, <1>8, <2>2 DEF Sound, Idle
  <2> QED BY <2>1, <2>3, TouchesKept
<1>12. ASSUME Goto(w, "insert"), UNCHANGED <<entries, position, held>>
       PROVE  IInv'
  <2>1. Touches(w, "insert", entries[w], position[w], held[w], inserted[w], todo[w])
    BY <1>1, <1>3, <1>4, <1>10, <1>12 DEF Touches, TypeOK, Goto, Labels, relayVars
  <2>2. Sound(w, "insert", entries[w], position[w], held[w], inserted[w], todo[w])
    BY <1>1, <1>7, <1>8 DEF Sound, Idle
  <2> QED BY <2>1, <2>2, TouchesKept
<1>13. ASSUME s.now.status = "failed", held' = [held EXCEPT ![w][e] = s], Goto(w, "handle"),
              UNCHANGED <<entries, position>>
       PROVE  IInv'
  <2> DEFINE h == [held[w] EXCEPT ![e] = s]
  <2>1. /\ h \in [Events -> Sessions] /\ h[e] = s /\ s # NotHeld
        /\ \A f \in Events : held[w][f] # NotHeld => h[f] # NotHeld
        /\ \A f \in Events : h[f] # NotHeld =>
             /\ Holds(f, h[f], f \in inserted[w], stumbled' \cup recovered')
             /\ h[f].now.status = "pending" => f = e
    <3>1. Holds(e, s, e \in inserted[w], stumbled' \cup recovered')
      BY <1>6, <1>13
    <3>2. /\ inserted[w] \subseteq inserted[w] /\ stumbled \subseteq stumbled' /\ recovered' = recovered
          /\ pc[w] = "handle" => e = Head(entries[w])
      BY <1>1, <1>10
    <3>3. e \in Events /\ s \in Sessions
      BY <1>2, <1>6
    <3> HIDE DEF h
    <3>4. h = [held[w] EXCEPT ![e] = s]
      BY DEF h
    <3>5. Takes(w, e, s, inserted[w], h)
      BY <3>1, <3>2, <3>3, <3>4 DEF Takes
    <3> QED BY <3>3, <3>5, TakesIs
  <2>2. held' = [held EXCEPT ![w] = h]
    BY <1>3, <1>13 DEF TypeOK
  <2> HIDE DEF h
  <2>3. Touches(w, "handle", entries[w], position[w], h, inserted[w], todo[w])
    BY <1>1, <1>3, <1>4, <1>10, <1>13, <2>1, <2>2 DEF Touches, TypeOK, Goto, Labels, relayVars
  <2>4. \A i \in 1 .. position[w] :
          delivery[stream[i]].status # "none" \/ event[stream[i]] # "present" \/ h[stream[i]] # NotHeld
    <3> SUFFICES ASSUME NEW i \in 1 .. position[w]
                 PROVE  \/ delivery[stream[i]].status # "none" \/ event[stream[i]] # "present"
                        \/ h[stream[i]] # NotHeld
      OBVIOUS
    <3>1. i \in 1 .. Len(stream)
      BY <1>4, <1>3, StreamIs
    <3>2. stream[i] \in Events
      BY <1>3, <3>1, StreamIs
    <3> QED BY <1>8, <2>1, <3>2
  <2>5. \A f \in Events : h[f] # NotHeld =>
          /\ Holds(f, h[f], f \in inserted[w], stumbled' \cup recovered')
          /\ h[f].now.status = "pending" => f = Head(entries[w])
    BY <2>1 DEF e
  <2>6. h[Head(entries[w])] # NotHeld /\ h[Head(entries[w])].now.status = "failed"
    BY <1>13, <2>1 DEF e
  <2>7. Sound(w, "handle", entries[w], position[w], h, inserted[w], todo[w])
    BY <1>1, <1>8, <2>4, <2>5, <2>6 DEF Sound, Idle
  <2> QED BY <2>3, <2>7, TouchesKept
<1>14. IInv'
  BY <1>9, <1>11, <1>12, <1>13
<1> QED  BY <1>1, <1>14 DEF consumerVars

\* A session that ends leaves nothing.
LEMMA Emptied ==
  ASSUME TypeOK, NEW w \in Workers
  PROVE  /\ Nothing \in [Events -> Sessions] /\ \A e \in Events : Nothing[e] = NotHeld
         /\ <<>> \in Seq(Events) /\ Len(<<>>) = 0 /\ 0 \in 0 .. Len(stream)
<1>1. Len(stream) \in Nat
  BY StreamIs
<1>2. <<>> \in Seq(Events) /\ Len(<<>>) = 0
  BY EmptySeq
<1> QED  BY <1>1, <1>2, NothingIs DEF Nothing

LEMMA InsertKeeps ==
  ASSUME IInv, NEW w \in Workers, Insert(w)
  PROVE  IInv' /\ UNCHANGED delivery
<1> DEFINE e == Head(entries[w])
           s == [NotHeld EXCEPT !.now = [status |-> "pending", attempts |-> 0]]
           h == [held[w] EXCEPT ![e] = s]
           ins == inserted[w] \cup {e}
<1>1. /\ pc[w] = "insert" /\ \A v \in Workers \ {w} : e \notin inserted[v]
      /\ UNCHANGED <<busVars, consumerVars, relayVars, ops, history, bounds>>
  BY DEF Insert
<1>2. TypeOK /\ Batch(w) /\ Carries(w) /\ Covers(w) /\ Inserts
  BY DEF IInv, Worker
<1>3. entries[w] # <<>> /\ e \in Events
  BY <1>1, <1>2, HeadIs DEF Batch
<1>4. /\ entries[w] \in Seq(Events) /\ position[w] \in 0 .. Len(stream) /\ position[w] \in Nat
      /\ todo[w] \subseteq Events /\ inserted[w] \subseteq Events
  BY <1>2, WorkerIs
<1>5. stumbled' = stumbled /\ stumbled \subseteq Flaky /\ recovered' = recovered /\ UNCHANGED todo
  BY <1>1, <1>2 DEF history, TypeOK, relayVars
<1>6. /\ \A f \in todo[w] : event[f] # "absent"
      /\ \A f \in inserted[w] : /\ event[f] = "present" /\ delivery[f].status = "none"
                                /\ \A v \in Workers : f \in inserted[v] => v = w
      /\ \A i \in 1 .. position[w] :
           delivery[stream[i]].status # "none" \/ event[stream[i]] # "present" \/ held[w][stream[i]] # NotHeld
      /\ position[w] + Len(entries[w]) <= Len(stream)
      /\ \A j \in 1 .. Len(entries[w]) : entries[w][j] = stream[position[w] + j]
  BY <1>2 DEF Carries, Inserts, Covers, Batch
<1>7. \/ /\ delivery[e].status = "none" /\ event[e] = "present"
         /\ inserted' = [inserted EXCEPT ![w] = ins] /\ held' = [held EXCEPT ![w] = h]
         /\ Goto(w, "handle") /\ UNCHANGED <<entries, position>>
      \/ Close(w) /\ Goto(w, "retry")
  BY <1>2 DEF Insert, TypeOK
<1>8. /\ s \in Sessions /\ s.was.status = "none" /\ s.now.status = "pending" /\ s.ran = 0
  BY DEF Sessions, Deliveries, NotHeld, NoDelivery
<1> HIDE DEF e, s, h, ins
<1>9. ASSUME delivery[e].status = "none", event[e] = "present",
             inserted' = [inserted EXCEPT ![w] = ins], held' = [held EXCEPT ![w] = h],
             Goto(w, "handle"), UNCHANGED <<entries, position>>
      PROVE  IInv'
  <2>1. Takes(w, e, s, ins, h)
    BY <1>1, <1>3, <1>5, <1>8 DEF Takes, Holds, h, ins
  <2>2. /\ h \in [Events -> Sessions] /\ h[e] = s /\ s # NotHeld
        /\ \A f \in Events : held[w][f] # NotHeld => h[f] # NotHeld
        /\ \A f \in Events : h[f] # NotHeld =>
             /\ Holds(f, h[f], f \in ins, stumbled' \cup recovered')
             /\ h[f].now.status = "pending" => f = e
    BY <2>1, TakesIs
  <2>3. ins \subseteq Events
    BY <1>3, <1>4 DEF ins
  <2>4. Touches(w, "handle", entries[w], position[w], h, ins, todo[w])
    BY <1>1, <1>2, <1>4, <1>5, <1>9, <2>2, <2>3 DEF Touches, TypeOK, Goto, Labels, relayVars
  <2>5. \A i \in 1 .. position[w] :
          delivery[stream[i]].status # "none" \/ event[stream[i]] # "present" \/ h[stream[i]] # NotHeld
    <3> SUFFICES ASSUME NEW i \in 1 .. position[w]
                 PROVE  \/ delivery[stream[i]].status # "none" \/ event[stream[i]] # "present"
                        \/ h[stream[i]] # NotHeld
      OBVIOUS
    <3>1. stream[i] \in Events
      BY <1>2, <1>4, StreamIs
    <3> QED BY <1>6, <2>2, <3>1
  <2>6. \A f \in Events : h[f] # NotHeld =>
          /\ Holds(f, h[f], f \in ins, stumbled' \cup recovered')
          /\ h[f].now.status = "pending" => f = Head(entries[w])
    BY <2>2 DEF e
  <2>7. h[Head(entries[w])] # NotHeld /\ h[Head(entries[w])].now.status = "pending"
    BY <1>8, <2>2 DEF e
  <2>8. \A f \in ins : /\ event[f] = "present" /\ delivery[f].status = "none"
                       /\ \A v \in Workers : f \in inserted[v] => v = w
    BY <1>1, <1>6, <1>9 DEF ins
  <2>9. Sound(w, "handle", entries[w], position[w], h, ins, todo[w])
    BY <1>3, <1>6, <2>5, <2>6, <2>7, <2>8 DEF Sound, Idle
  <2> QED BY <2>4, <2>9, TouchesKept
<1>10. ASSUME Close(w), Goto(w, "retry")
       PROVE  IInv'
  <2>1. Touches(w, "retry", <<>>, 0, Nothing, {}, todo[w])
    BY <1>1, <1>2, <1>4, <1>5, <1>10, Emptied DEF Touches, TypeOK, Goto, Close, Labels, relayVars
  <2>2. Sound(w, "retry", <<>>, 0, Nothing, {}, todo[w])
    BY <1>2, <1>6, Emptied, StreamIs DEF Sound, Idle
  <2> QED BY <2>1, <2>2, TouchesKept
<1>11. IInv'
  BY <1>7, <1>9, <1>10
<1> QED  BY <1>1, <1>11 DEF consumerVars

LEMMA RunHandlerKeeps ==
  ASSUME IInv, NEW w \in Workers, RunHandler(w)
  PROVE  IInv' /\ UNCHANGED delivery
<1> DEFINE e == Head(entries[w])
<1>1. /\ pc[w] = "handle" /\ Advance(w) /\ Goto(w, "look")
      /\ UNCHANGED <<busVars, consumerVars, relayVars, inserted, ops, recovered, bounds>>
  BY DEF RunHandler
<1>2. TypeOK /\ Batch(w) /\ Carries(w) /\ Session(w) /\ Covers(w) /\ Inserts
  BY DEF IInv, Worker
<1>3. /\ entries[w] # <<>> /\ held[w][e] # NotHeld /\ held[w][e].now.status \in {"pending", "failed"}
  BY <1>1, <1>2 DEF Batch
<1>4. /\ e \in Events /\ event[e] # "absent"
      /\ e = stream[position[w] + 1] /\ position[w] + 1 \in 1 .. Len(stream)
      /\ Tail(entries[w]) \in Seq(Events) /\ position[w] + 1 + Len(Tail(entries[w])) <= Len(stream)
      /\ \A j \in 1 .. Len(Tail(entries[w])) : Tail(entries[w])[j] = stream[position[w] + 1 + j]
  BY <1>3, HeadIs
<1>5. /\ position[w] \in Nat /\ held[w] \in [Events -> Sessions] /\ held[w][e] \in Sessions
      /\ todo[w] \subseteq Events /\ inserted[w] \subseteq Events /\ position[w] + 1 \in 0 .. Len(stream)
  BY <1>2, <1>4, WorkerIs, StreamIs
<1>6. /\ \A f \in todo[w] : event[f] # "absent"
      /\ \A f \in inserted[w] : /\ event[f] = "present" /\ delivery[f].status = "none"
                                /\ \A v \in Workers : f \in inserted[v] => v = w
      /\ \A i \in 1 .. position[w] :
           delivery[stream[i]].status # "none" \/ event[stream[i]] # "present" \/ held[w][stream[i]] # NotHeld
  BY <1>2 DEF Carries, Inserts, Covers
<1>7. PICK s \in Outcomes(e, held[w][e]) : held' = [held EXCEPT ![w][e] = s] /\ Note(e, s)
  BY DEF RunHandler
<1>8. /\ s \in Sessions /\ s.was = held[w][e].was
      /\ \/ s.now.status = "delivered" /\ s.ran = held[w][e].ran + 1
         \/ s.now.status = "failed" /\ s.ran = held[w][e].ran /\ e \in Flaky
  BY <1>4, <1>5, <1>7, OutcomesAre
<1> DEFINE h == [held[w] EXCEPT ![e] = s]
<1>9. /\ stumbled \subseteq stumbled' /\ stumbled' \subseteq Flaky /\ recovered' = recovered
      /\ s.now.status = "failed" => e \in stumbled'
  BY <1>1, <1>2, <1>7, <1>8 DEF Note, TypeOK
<1>10. held' = [held EXCEPT ![w] = h]
  BY <1>2, <1>7 DEF TypeOK
<1>11. Holds(e, held[w][e], e \in inserted[w], stumbled' \cup recovered')
  BY <1>3, <1>4, <1>9, OthersHeld
<1>12. held[w][e].ran \in Nat
  BY <1>5 DEF Sessions
<1> HIDE DEF e, h
<1>13. Holds(e, s, e \in inserted[w], stumbled' \cup recovered')
  BY <1>3, <1>8, <1>9, <1>11, <1>12 DEF Holds
<1>14. Takes(w, e, s, inserted[w], h)
  BY <1>4, <1>8, <1>9, <1>13 DEF Takes, h, e
<1>15. /\ h \in [Events -> Sessions] /\ h[e] = s /\ s # NotHeld
       /\ \A f \in Events : held[w][f] # NotHeld => h[f] # NotHeld
       /\ \A f \in Events : h[f] # NotHeld =>
            /\ Holds(f, h[f], f \in inserted[w], stumbled' \cup recovered')
            /\ h[f].now.status = "pending" => f = e
  BY <1>14, TakesIs
<1>16. Touches(w, "look", Tail(entries[w]), position[w] + 1, h, inserted[w], todo[w])
  BY <1>1, <1>2, <1>4, <1>5, <1>9, <1>10, <1>15 DEF Touches, TypeOK, Goto, Advance, Labels, relayVars
<1>17. ASSUME NEW i \in 1 .. position[w] + 1
       PROVE  delivery[stream[i]].status # "none" \/ event[stream[i]] # "present" \/ h[stream[i]] # NotHeld
  <2>1. CASE i \in 1 .. position[w]
    <3>1. i \in 1 .. Len(stream) /\ stream[i] \in Events
      BY <1>2, <1>4, <1>5, <2>1, StreamIs
    <3> QED BY <1>6, <1>15, <2>1, <3>1
  <2>2. CASE i = position[w] + 1
    BY <1>4, <1>15, <2>2
  <2> QED BY <1>5, <2>1, <2>2
<1>18. \A f \in Events : h[f] # NotHeld =>
         /\ Holds(f, h[f], f \in inserted[w], stumbled' \cup recovered')
         /\ h[f].now.status # "pending"
  BY <1>8, <1>15
<1>19. Sound(w, "look", Tail(entries[w]), position[w] + 1, h, inserted[w], todo[w])
  BY <1>4, <1>6, <1>17, <1>18 DEF Sound, Idle
<1>20. IInv'
  BY <1>16, <1>19, TouchesKept
<1> QED  BY <1>1, <1>20 DEF consumerVars

LEMMA SelectFailedKeeps ==
  ASSUME IInv, NEW w \in Workers, SelectFailed(w)
  PROVE  IInv' /\ UNCHANGED delivery
<1> DEFINE failed == {e \in Events : delivery[e].status = "failed" /\ delivery[e].attempts < MaxAttempts}
           h == [e \in Events |-> IF e \in failed THEN Load(e) ELSE NotHeld]
           l == IF failed = {} THEN "relay" ELSE "again"
<1>1. /\ pc[w] = "retry" /\ todo' = [todo EXCEPT ![w] = failed] /\ held' = [held EXCEPT ![w] = h]
      /\ pc' = [pc EXCEPT ![w] = l]
      /\ UNCHANGED <<busVars, consumerVars, claimed, done, adding, entries, position, inserted,
                     ops, history, bounds>>
  BY DEF SelectFailed, Goto
<1>2. TypeOK /\ Batch(w) /\ Covers(w) /\ Inserts /\ Rows
  BY DEF IInv, Worker
<1>3. entries[w] \in Seq(Events) /\ position[w] \in 0 .. Len(stream) /\ inserted[w] \subseteq Events
  BY <1>2, WorkerIs
<1>4. stumbled' = stumbled /\ stumbled \subseteq Flaky /\ recovered' = recovered
  BY <1>1, <1>2 DEF history, TypeOK
<1>5. ASSUME NEW e \in failed
      PROVE  /\ h[e] \in Sessions /\ h[e].was.status = "failed" /\ h[e] # NotHeld
             /\ h[e].now.status = "failed" /\ event[e] = "present"
             /\ Holds(e, h[e], e \in inserted[w], stumbled' \cup recovered')
  <2>1. delivery[e] \in Deliveries /\ e \in Events
    BY <1>2 DEF TypeOK
  <2>2. h[e] = Load(e) /\ delivery[e].status = "failed"
    BY <2>1
  <2>3. /\ h[e] \in Sessions /\ h[e].was = delivery[e] /\ h[e].now = delivery[e] /\ h[e].ran = 0
        /\ h[e] # NotHeld
    BY <2>1, <2>2, LoadIs
  <2>4. event[e] = "present" /\ e \in stumbled' \cup recovered'
    BY <1>2, <1>4, <2>1, <2>2 DEF Rows, Row, Marked
  <2> HIDE DEF h
  <2> QED BY <2>2, <2>3, <2>4 DEF Holds
<1>6. \A e \in Events \ failed : h[e] = NotHeld
  OBVIOUS
<1>7. h \in [Events -> Sessions]
  BY <1>5, <1>6, NothingIs
<1>8. l \in {"relay", "again"} /\ (l = "relay" => h = Nothing) /\ failed \subseteq Events
  BY DEF Nothing
<1> HIDE DEF failed, h, l
<1>9. Touches(w, l, entries[w], position[w], h, inserted[w], failed)
  BY <1>1, <1>2, <1>3, <1>4, <1>7, <1>8 DEF Touches, TypeOK, Labels
<1>10. \A i \in 1 .. position[w] : delivery[stream[i]].status # "none" \/ event[stream[i]] # "present"
  <2> SUFFICES ASSUME NEW i \in 1 .. position[w]
               PROVE  delivery[stream[i]].status # "none" \/ event[stream[i]] # "present"
    OBVIOUS
  <2>1. stream[i] \in Events
    BY <1>2, <1>3, StreamIs
  <2>2. held[w][stream[i]] = NotHeld
    BY <1>1, <1>2, <2>1 DEF Batch, Idle, Nothing
  <2> QED BY <1>2, <2>2 DEF Covers
<1>11. /\ position[w] + Len(entries[w]) <= Len(stream)
       /\ \A j \in 1 .. Len(entries[w]) : entries[w][j] = stream[position[w] + j]
       /\ \A f \in inserted[w] : /\ event[f] = "present" /\ delivery[f].status = "none"
                                 /\ \A v \in Workers : f \in inserted[v] => v = w
  BY <1>2 DEF Batch, Inserts
<1>12. \A e \in Events : h[e] # NotHeld =>
         /\ Holds(e, h[e], e \in inserted[w], stumbled' \cup recovered')
         /\ h[e].now.status # "pending"
  BY <1>5, <1>6
<1>13. Sound(w, l, entries[w], position[w], h, inserted[w], failed)
  BY <1>5, <1>8, <1>10, <1>11, <1>12 DEF Sound, Idle
<1>14. IInv'
  BY <1>9, <1>13, TouchesKept
<1> QED  BY <1>1, <1>14 DEF consumerVars

LEMMA RetryHandlerKeeps ==
  ASSUME IInv, NEW w \in Workers, RetryHandler(w)
  PROVE  IInv' /\ UNCHANGED delivery
<1>1. /\ pc[w] = "again"
      /\ UNCHANGED <<busVars, consumerVars, pc, claimed, done, adding, entries, position, inserted,
                     ops, recovered, bounds>>
  BY DEF RetryHandler
<1>2. TypeOK /\ Batch(w) /\ Carries(w) /\ Covers(w) /\ Inserts
  BY DEF IInv, Worker
<1>3. PICK e \in todo[w] :
        /\ todo' = [todo EXCEPT ![w] = @ \ {e}]
        /\ \E s \in IF event[e] = "present" THEN Outcomes(e, held[w][e])
                    ELSE {[held[w][e] EXCEPT !.now.status = "delivered"]} :
             held' = [held EXCEPT ![w][e] = s] /\ Note(e, s)
  BY DEF RetryHandler
<1>4. PICK s \in IF event[e] = "present" THEN Outcomes(e, held[w][e])
                 ELSE {[held[w][e] EXCEPT !.now.status = "delivered"]} :
        held' = [held EXCEPT ![w][e] = s] /\ Note(e, s)
  BY <1>3
<1>5. /\ entries[w] \in Seq(Events) /\ position[w] \in 0 .. Len(stream)
      /\ held[w] \in [Events -> Sessions] /\ held[w][e] \in Sessions /\ held[w][e].ran \in Nat
      /\ todo[w] \subseteq Events /\ inserted[w] \subseteq Events /\ e \in Events
  BY <1>2, <1>3, WorkerIs DEF Sessions
<1>6. held[w][e] # NotHeld /\ held[w][e].was.status = "failed" /\ event[e] # "absent"
  BY <1>1, <1>2, <1>3 DEF Carries
<1>7. /\ s \in Sessions /\ s.was = held[w][e].was
      /\ \/ s.now.status = "delivered" /\ s.ran = held[w][e].ran + 1
         \/ s.now.status = "failed" /\ s.ran = held[w][e].ran /\ e \in Flaky
         \/ s.now.status = "delivered" /\ event[e] = "purged"
  <2>1. CASE event[e] = "present"
    <3>1. s \in Outcomes(e, held[w][e])
      BY <1>4, <2>1
    <3> QED BY <1>5, <3>1, OutcomesAre
  <2>2. CASE event[e] # "present"
    <3>1. s = [held[w][e] EXCEPT !.now.status = "delivered"]
      BY <1>4, <2>2
    <3>2. event[e] = "purged"
      BY <1>2, <1>5, <1>6, <2>2 DEF TypeOK
    <3> QED BY <1>5, <3>1, <3>2 DEF Sessions, Deliveries
  <2> QED BY <2>1, <2>2
<1>8. /\ stumbled \subseteq stumbled' /\ stumbled' \subseteq Flaky /\ recovered' = recovered
      /\ s.now.status = "failed" => e \in stumbled'
  BY <1>1, <1>2, <1>4, <1>7 DEF Note, TypeOK
<1>9. Holds(e, held[w][e], e \in inserted[w], stumbled' \cup recovered')
  BY <1>5, <1>6, <1>8, OthersHeld
<1>10. Holds(e, s, e \in inserted[w], stumbled' \cup recovered')
  BY <1>5, <1>6, <1>7, <1>8, <1>9 DEF Holds
<1> DEFINE h == [held[w] EXCEPT ![e] = s]
<1>11. held' = [held EXCEPT ![w] = h]
  BY <1>2, <1>4 DEF TypeOK
<1> HIDE DEF h
<1>12. Takes(w, e, s, inserted[w], h)
  BY <1>1, <1>5, <1>7, <1>8, <1>10 DEF Takes, h
<1>13. /\ h \in [Events -> Sessions] /\ h[e] = s /\ s # NotHeld
       /\ \A f \in Events : held[w][f] # NotHeld => h[f] # NotHeld
       /\ \A f \in Events : h[f] # NotHeld =>
            /\ Holds(f, h[f], f \in inserted[w], stumbled' \cup recovered')
            /\ h[f].now.status = "pending" => f = e
  BY <1>12, TakesIs
<1>14. Touches(w, "again", entries[w], position[w], h, inserted[w], todo[w] \ {e})
  BY <1>1, <1>2, <1>3, <1>5, <1>8, <1>11, <1>13 DEF Touches, TypeOK, Labels
<1>15. \A f \in todo[w] \ {e} : /\ event[f] # "absent" /\ h[f] # NotHeld
                                /\ h[f].was.status = "failed"
  BY <1>1, <1>2, <1>5, <1>13 DEF Carries, h
<1>16. \A i \in 1 .. position[w] :
         delivery[stream[i]].status # "none" \/ event[stream[i]] # "present" \/ h[stream[i]] # NotHeld
  <2> SUFFICES ASSUME NEW i \in 1 .. position[w]
               PROVE  delivery[stream[i]].status # "none" \/ event[stream[i]] # "present" \/ h[stream[i]] # NotHeld
    OBVIOUS
  <2>1. stream[i] \in Events
    BY <1>2, <1>5, StreamIs
  <2> QED BY <1>2, <1>13, <2>1 DEF Covers
<1>17. /\ position[w] + Len(entries[w]) <= Len(stream)
       /\ \A j \in 1 .. Len(entries[w]) : entries[w][j] = stream[position[w] + j]
       /\ \A f \in inserted[w] : /\ event[f] = "present" /\ delivery[f].status = "none"
                                 /\ \A v \in Workers : f \in inserted[v] => v = w
  BY <1>2 DEF Batch, Inserts
<1>18. \A f \in Events : h[f] # NotHeld =>
         /\ Holds(f, h[f], f \in inserted[w], stumbled' \cup recovered')
         /\ h[f].now.status # "pending"
  BY <1>7, <1>13
<1>19. Sound(w, "again", entries[w], position[w], h, inserted[w], todo[w] \ {e})
  BY <1>15, <1>16, <1>17, <1>18 DEF Sound, Idle
<1>20. IInv'
  BY <1>14, <1>19, TouchesKept
<1> QED  BY <1>1, <1>20 DEF consumerVars

-----------------------------------------------------------------------------
(* The end of a session.                                                   *)

\* What a commit makes of the deliveries.
LEMMA CommitIs ==
  ASSUME IInv, NEW w \in Workers, ~Stale(held[w]), CommitSession(held[w]),
         UNCHANGED <<event, stumbled, recovered>>,
         \A e \in Events : held[w][e] # NotHeld => held[w][e].now.status # "pending"
  PROVE  /\ delivery' \in [Events -> Deliveries] /\ effects' \in [Events -> Nat]
         /\ \A e \in Events :
              /\ Row(e)'
              /\ delivery[e].status # "none" => delivery'[e].status # "none"
              /\ held[w][e] # NotHeld => delivery'[e].status # "none"
              /\ delivery[e].status = "delivered" => delivery'[e].status = "delivered"
              /\ delivery[e].status = "none" /\ delivery'[e].status # "none" => e \in inserted[w]
<1>1. TypeOK /\ Rows /\ Inserts
  BY DEF IInv
<1>2. held[w] \in [Events -> Sessions] /\ \A e \in Events : held[w][e] \in Sessions
  BY <1>1, WorkerIs
<1>3. delivery \in [Events -> Deliveries] /\ effects \in [Events -> Nat]
  BY <1>1 DEF TypeOK
<1>4. /\ delivery' = Flushed(held[w]) /\ delivery' \in [Events -> Deliveries]
      /\ \A e \in Events :
           /\ held[w][e] = NotHeld => delivery'[e] = delivery[e]
           /\ delivery'[e].status = IF held[w][e].now.status = held[w][e].was.status THEN delivery[e].status
                                    ELSE held[w][e].now.status
  BY <1>2, <1>3, FlushedIs DEF CommitSession
<1>5. /\ effects' = [e \in Events |-> effects[e] + held[w][e].ran]
      /\ \A e \in Events : held[w][e].ran \in Nat
  BY <1>2 DEF CommitSession, Sessions
<1>6. effects' \in [Events -> Nat] /\ \A e \in Events : effects'[e] = effects[e] + held[w][e].ran
  BY <1>3, <1>5
<1> SUFFICES ASSUME NEW e \in Events
             PROVE  /\ Row(e)'
                    /\ delivery[e].status # "none" => delivery'[e].status # "none"
                    /\ held[w][e] # NotHeld => delivery'[e].status # "none"
                    /\ delivery[e].status = "delivered" => delivery'[e].status = "delivered"
                    /\ delivery[e].status = "none" /\ delivery'[e].status # "none" => e \in inserted[w]
  BY <1>4, <1>6
<1>7. Row(e)
  BY <1>1 DEF Rows
<1>8. CASE held[w][e] = NotHeld
  <2>1. delivery'[e] = delivery[e] /\ effects'[e] = effects[e]
    BY <1>3, <1>4, <1>6, <1>8, NothingIs
  <2>2. Row(e)'
    BY <1>7, <2>1 DEF Row, Marked
  <2> QED BY <1>8, <2>1, <2>2
<1>9. CASE held[w][e] # NotHeld
  <2> DEFINE s == held[w][e]
  <2>1. Holds(e, s, e \in inserted[w], Marked) /\ s.now.status # "pending"
    BY <1>9, HeldIs
  <2>2. s.ran \in Nat /\ effects[e] \in Nat /\ effects'[e] = effects[e] + s.ran
    BY <1>3, <1>5, <1>6
  <2>3. s.now.status \in {"failed", "delivered"} /\ s.was.status \in {"none", "failed"}
    BY <1>2, <2>1 DEF Holds, Sessions, Deliveries
  <2>4. delivery'[e].status = IF s.now.status = s.was.status THEN delivery[e].status ELSE s.now.status
    BY <1>4
  <2>5. Marked' = Marked /\ event' = event
    BY DEF Marked
  <2> HIDE DEF s
  <2>6. CASE s.was.status = "none"
    <3>1. e \in inserted[w] /\ event[e] = "present" /\ delivery[e].status = "none"
      BY <1>1, <2>1, <2>6 DEF Holds, Inserts
    <3>2. delivery'[e].status = s.now.status
      BY <2>3, <2>4, <2>6
    <3>3. s.now.status = "delivered" => effects'[e] >= 1
      BY <2>1, <2>2, <3>1 DEF Holds
    <3>4. e \notin Marked => effects'[e] <= 1
      BY <1>7, <2>1, <2>2, <3>1 DEF Holds, Row
    <3>5. Row(e)'
      BY <2>1, <2>3, <2>5, <3>1, <3>2, <3>3, <3>4 DEF Row, Holds
    <3> QED BY <2>3, <3>1, <3>2, <3>5
  <2>7. CASE s.was.status = "failed"
    <3>1. e \in Marked
      BY <2>1, <2>7 DEF Holds
    <3>2. delivery[e].status # "none"
      BY <1>9, <2>7 DEF Stale, Holding, s
    <3>3. event[e] = "present"
      BY <1>7, <3>2 DEF Row
    <3>4. delivery'[e].status = IF s.now.status = "failed" THEN delivery[e].status ELSE "delivered"
      BY <2>3, <2>4, <2>7
    <3>5. s.now.status = "delivered" => effects'[e] >= 1
      BY <2>1, <2>2, <3>3 DEF Holds
    <3>6. delivery[e].status = "delivered" => effects'[e] >= 1
      BY <1>7, <2>2 DEF Row
    <3>7. Row(e)'
      BY <1>7, <2>3, <2>5, <3>1, <3>2, <3>3, <3>4, <3>5, <3>6 DEF Row
    <3> QED BY <2>3, <3>2, <3>4, <3>7
  <2> QED BY <2>3, <2>6, <2>7
<1> QED  BY <1>8, <1>9

\* A session ends: the worker goes to l with T still to visit.
Ends(w, l, T) ==
  /\ UNCHANGED <<event, relayed, relayKey, stream, ops, stumbled, recovered, recoveries, purges>>
  /\ faults' \in 0 .. MaxFaults
  /\ claimed' \in [Workers -> SUBSET Events] /\ done' \in [Workers -> SUBSET Events]
  /\ adding' \in [Workers -> Events \cup {NoEvent}]
  /\ adding'[w] = adding[w] \/ adding'[w] = NoEvent
  /\ \A v \in Workers \ {w} : adding'[v] = adding[v]
  /\ T \subseteq todo[w] /\ todo' = [todo EXCEPT ![w] = T]
  /\ l \in {"relay", "retry"} /\ pc' = [pc EXCEPT ![w] = l]
  /\ Close(w)
  /\ \/ UNCHANGED consumerVars
     \/ /\ ~Stale(held[w]) /\ CommitSession(held[w])
        /\ offset' = offset \/ offset' = position[w]
        /\ pc[w] # "handle"

LEMMA EndsKept ==
  ASSUME IInv, NEW w \in Workers, NEW l, NEW T, Ends(w, l, T)
  PROVE  /\ IInv'
         /\ \A e \in Events : delivery[e].status = "delivered" => delivery'[e].status = "delivered"
<1>1. /\ UNCHANGED <<event, relayed, relayKey, stream, ops, stumbled, recovered, recoveries, purges>>
      /\ faults' \in 0 .. MaxFaults
      /\ claimed' \in [Workers -> SUBSET Events] /\ done' \in [Workers -> SUBSET Events]
      /\ adding' \in [Workers -> Events \cup {NoEvent}]
  BY DEF Ends
<1>2. TypeOK /\ Batch(w) /\ Carries(w) /\ Session(w) /\ Covers(w) /\ Inserts /\ Rows /\ NoEntrySkipped
  BY DEF IInv, Worker
<1>3. /\ entries' = [entries EXCEPT ![w] = <<>>] /\ position' = [position EXCEPT ![w] = 0]
      /\ inserted' = [inserted EXCEPT ![w] = {}] /\ held' = [held EXCEPT ![w] = Nothing]
      /\ T \subseteq todo[w] /\ todo' = [todo EXCEPT ![w] = T]
      /\ l \in {"relay", "retry"} /\ pc' = [pc EXCEPT ![w] = l]
  BY DEF Ends, Close
<1>4. todo[w] \subseteq Events /\ position[w] \in 0 .. Len(stream)
  BY <1>2, WorkerIs
<1>5. /\ pc'[w] = l /\ entries'[w] = <<>> /\ position'[w] = 0 /\ held'[w] = Nothing
      /\ inserted'[w] = {} /\ todo'[w] = T
  BY <1>2, <1>3 DEF TypeOK
<1>6. \A v \in Workers : v # w => Same(v)
  BY <1>2, <1>3 DEF TypeOK, Same, Ends
<1>7. /\ delivery' \in [Events -> Deliveries] /\ effects' \in [Events -> Nat] /\ offset' \in 0 .. Len(stream)
      /\ \A e \in Events :
           /\ Row(e)'
           /\ delivery[e].status # "none" => delivery'[e].status # "none"
           /\ delivery[e].status = "delivered" => delivery'[e].status = "delivered"
           /\ delivery[e].status = "none" /\ delivery'[e].status # "none" => e \in inserted[w]
      /\ \/ offset' = offset
         \/ offset' = position[w] /\ \A e \in Events : held[w][e] # NotHeld => delivery'[e].status # "none"
  <2>1. CASE UNCHANGED consumerVars
    BY <1>1, <1>2, <2>1 DEF consumerVars, TypeOK, Rows, Row, Marked
  <2>2. CASE /\ ~Stale(held[w]) /\ CommitSession(held[w])
             /\ offset' = offset \/ offset' = position[w]
             /\ pc[w] # "handle"
    <3>1. \A e \in Events : held[w][e] # NotHeld => held[w][e].now.status # "pending"
      BY <2>2, HeldIs
    <3>2. UNCHANGED <<event, stumbled, recovered>>
      BY <1>1
    <3>3. offset' \in 0 .. Len(stream)
      BY <1>2, <1>4, <2>2 DEF TypeOK
    <3> QED BY <2>2, <3>1, <3>2, <3>3, CommitIs
  <2> QED BY <2>1, <2>2 DEF Ends
<1>8. TypeOK'
  <2>1. /\ pc' \in [Workers -> Labels] /\ todo' \in [Workers -> SUBSET Events]
        /\ entries' \in [Workers -> Seq(Events)] /\ position' \in [Workers -> 0 .. Len(stream)]
        /\ inserted' \in [Workers -> SUBSET Events] /\ held' \in [Workers -> [Events -> Sessions]]
    BY <1>2, <1>3, <1>4, Emptied DEF TypeOK, Labels
  <2> QED BY <1>1, <1>2, <1>7, <2>1 DEF TypeOK, Labels
<1>9. Forward
  BY <1>1, <1>2, <1>7, StreamIs DEF Forward
<1>10. \A v \in Workers : v # w => Worker(v)'
  BY <1>6, <1>9, SameKept
<1>11. Worker(w)'
  <2>1. \A e \in Events : held'[w][e] = NotHeld
    BY <1>5, Emptied, <1>2
  <2>2. Batch(w)'
    <3>1. Len(stream') \in Nat /\ Nothing' = Nothing
      BY <1>1, <1>2, StreamIs DEF Nothing
    <3> QED BY <1>2, <1>3, <1>5, <3>1, Emptied DEF Batch
  <2>3. Carries(w)'
    BY <1>1, <1>2, <1>3, <1>5 DEF Carries, Ends
  <2>4. Session(w)' /\ Covers(w)'
    BY <1>5, <2>1 DEF Session, Covers
  <2> QED BY <2>2, <2>3, <2>4 DEF Worker
<1>12. NoEntrySkipped'
  <2>1. CASE offset' = offset
    BY <1>9, <2>1, OffsetKept
  <2>2. CASE offset' = position[w] /\ \A e \in Events : held[w][e] # NotHeld => delivery'[e].status # "none"
    <3> SUFFICES ASSUME NEW i \in 1 .. position[w]
                 PROVE  delivery'[stream[i]].status # "none" \/ event[stream[i]] # "present"
      BY <1>1, <2>2 DEF NoEntrySkipped
    <3>1. stream[i] \in Events
      BY <1>2, <1>4, StreamIs
    <3> QED BY <1>2, <1>7, <2>2, <3>1 DEF Covers
  <2> QED BY <1>7, <2>1, <2>2
<1>13. Known' /\ Rows' /\ Requeues'
  BY <1>1, <1>7 DEF IInv, Known, Rows, Requeues
<1>14. Inserts'
  <2> SUFFICES ASSUME NEW v \in Workers, NEW e \in inserted'[v]
               PROVE  /\ event[e] = "present" /\ delivery'[e].status = "none"
                      /\ \A u \in Workers : e \in inserted'[u] => u = v
    BY <1>1 DEF Inserts
  <2>1. v # w /\ e \in inserted[v]
    BY <1>5, <1>6 DEF Same
  <2>2. event[e] = "present" /\ delivery[e].status = "none" /\ \A u \in Workers : e \in inserted[u] => u = v
    BY <1>2, <2>1 DEF Inserts
  <2>3. e \in Events
    BY <1>2, <2>1 DEF TypeOK
  <2> QED BY <1>5, <1>6, <1>7, <2>1, <2>2, <2>3 DEF Same
<1> QED  BY <1>7, <1>8, <1>10, <1>11, <1>12, <1>13, <1>14 DEF IInv

LEMMA EndKeeps ==
  ASSUME IInv, NEW w \in Workers,
         CommitConsume(w) \/ RollbackConsume(w) \/ CommitRetry(w) \/ RollbackRetry(w) \/ Crash(w)
  PROVE  /\ IInv'
         /\ \A e \in Events : delivery[e].status = "delivered" => delivery'[e].status = "delivered"
<1> USE DEF busVars, consumerVars, relayVars, history, bounds, Goto
<1>1. TypeOK
  BY DEF IInv
<1>2. /\ todo[w] \subseteq Events /\ todo = [todo EXCEPT ![w] = todo[w]] /\ faults \in 0 .. MaxFaults
      /\ claimed \in [Workers -> SUBSET Events] /\ done \in [Workers -> SUBSET Events]
      /\ adding \in [Workers -> Events \cup {NoEvent}]
  BY <1>1 DEF TypeOK
<1>3. Fault => faults' \in 0 .. MaxFaults /\ UNCHANGED <<recoveries, purges>>
  BY <1>2, BoundsAssumption DEF Fault
<1>4. CASE CommitConsume(w) \/ RollbackConsume(w)
  <2>1. Ends(w, "retry", todo[w])
    BY <1>2, <1>3, <1>4 DEF Ends, CommitConsume, RollbackConsume, EndConsume
  <2> QED BY <2>1, EndsKept
<1>5. CASE CommitRetry(w) \/ RollbackRetry(w)
  <2>1. Ends(w, "relay", todo[w])
    BY <1>2, <1>3, <1>5 DEF Ends, CommitRetry, RollbackRetry, EndRetry
  <2> QED BY <2>1, EndsKept
<1>6. CASE Crash(w)
  <2>1. Ends(w, "relay", {})
    BY <1>2, <1>3, <1>6 DEF Ends, Crash
  <2> QED BY <2>1, EndsKept
<1> QED  BY <1>4, <1>5, <1>6

-----------------------------------------------------------------------------
(* Jobs, retention and recovery.                                           *)

LEMMA EmitKeeps ==
  ASSUME IInv, NEW e \in Events, Emit(e)
  PROVE  IInv' /\ UNCHANGED delivery
<1> USE DEF consumerVars, relayVars, sessionVars, history, bounds
<1>1. /\ event[e] = "absent" /\ event' = [event EXCEPT ![e] = "present"]
      /\ UNCHANGED <<relayed, relayKey, stream, consumerVars, pc, relayVars, sessionVars,
                     ops, history, bounds>>
  BY DEF Emit
<1>2. TypeOK /\ Rows /\ Inserts
  BY DEF IInv
<1>3. /\ event' \in [Events -> {"absent", "present", "purged"}] /\ event'[e] = "present"
      /\ \A f \in Events : f # e => event'[f] = event[f]
  BY <1>1, <1>2 DEF TypeOK
<1>4. TypeOK'
  BY <1>1, <1>2, <1>3 DEF TypeOK
<1>5. Forward
  BY <1>1, <1>2, <1>3, StreamIs DEF Forward
<1>6. \A w \in Workers : Worker(w)'
  BY <1>1, <1>5, SameKept DEF Same
<1>7. Known' /\ NoEntrySkipped'
  BY <1>1, <1>5, KnownKept, OffsetKept
<1>8. Rows'
  <2> SUFFICES ASSUME NEW f \in Events PROVE Row(f)'
    BY DEF Rows
  <2>1. Row(f)
    BY <1>2 DEF Rows
  <2>2. CASE f = e
    BY <1>1, <1>3, <2>1, <2>2 DEF Row, Marked
  <2>3. CASE f # e
    BY <1>1, <1>3, <2>1, <2>3 DEF Row, Marked
  <2> QED BY <2>2, <2>3
<1>9. Inserts' /\ Requeues'
  BY <1>1, <1>2, <1>3 DEF IInv, Inserts, Requeues, TypeOK
<1> QED  BY <1>1, <1>4, <1>6, <1>7, <1>8, <1>9 DEF IInv

LEMMA PurgeKeeps ==
  ASSUME IInv, NEW e \in Events, Purge(e)
  PROVE  IInv' /\ event'[e] = "purged" /\ \A f \in Events \ {e} : delivery'[f] = delivery[f]
<1> USE DEF history
<1>1. /\ event[e] = "present" /\ event' = [event EXCEPT ![e] = "purged"]
      /\ delivery' = [delivery EXCEPT ![e] = NoDelivery] /\ relayed' = relayed \ {e}
      /\ \A w \in Workers : e \notin inserted[w]
      /\ purges < MaxPurges /\ purges' = purges + 1
      /\ UNCHANGED <<relayKey, stream, offset, effects, pc, relayVars, sessionVars,
                     ops, history, recoveries, faults>>
  BY DEF Purge
<1>2. TypeOK /\ Rows /\ Inserts
  BY DEF IInv
<1>3. /\ event' \in [Events -> {"absent", "present", "purged"}] /\ event'[e] = "purged"
      /\ \A f \in Events : f # e => event'[f] = event[f]
      /\ delivery' \in [Events -> Deliveries] /\ delivery'[e].status = "none"
      /\ \A f \in Events : f # e => delivery'[f] = delivery[f]
  BY <1>1, <1>2 DEF TypeOK, NoDelivery, Deliveries
<1>4. purges' \in 0 .. MaxPurges
  BY <1>1, <1>2, BoundsAssumption DEF TypeOK
<1>5. TypeOK'
  BY <1>1, <1>2, <1>3, <1>4 DEF TypeOK, relayVars, sessionVars
<1>6. Forward
  BY <1>1, <1>2, <1>3, StreamIs DEF Forward
<1>7. \A w \in Workers : Worker(w)'
  BY <1>1, <1>6, SameKept DEF Same, relayVars, sessionVars
<1>8. Known' /\ NoEntrySkipped'
  BY <1>1, <1>6, KnownKept, OffsetKept
<1>9. Rows'
  <2> SUFFICES ASSUME NEW f \in Events PROVE Row(f)'
    BY DEF Rows
  <2>1. Row(f)
    BY <1>2 DEF Rows
  <2>2. CASE f = e
    BY <1>1, <1>3, <2>1, <2>2 DEF Row, Marked
  <2>3. CASE f # e
    BY <1>1, <1>3, <2>1, <2>3 DEF Row, Marked
  <2> QED BY <2>2, <2>3
<1>10. Inserts'
  BY <1>1, <1>2, <1>3 DEF Inserts, TypeOK, sessionVars
<1>11. Requeues'
  BY <1>1 DEF IInv, Requeues
<1> QED  BY <1>3, <1>5, <1>7, <1>8, <1>9, <1>10, <1>11 DEF IInv

LEMMA BeginRecoveryKeeps ==
  ASSUME IInv, Recover \/ Remediate
  PROVE  IInv' /\ UNCHANGED delivery
<1> USE DEF busVars, consumerVars, history
<1> DEFINE open == {e \in Events : delivery[e].status \in {"failed", "delivered"}}
<1>1. PICK S \in SUBSET open : ops' = [e \in Events |-> IF e \in S THEN Requeued(e) ELSE NotHeld]
  <2>1. CASE Recover
    BY <2>1 DEF Recover, BeginRecovery
  <2>2. CASE Remediate
    BY <2>2 DEF Remediate, BeginRecovery
  <2> QED BY <2>1, <2>2
<1>2. /\ recoveries < MaxRecoveries /\ recoveries' = recoveries + 1
      /\ UNCHANGED <<busVars, consumerVars, pc, relayVars, sessionVars, history, purges, faults>>
  BY DEF Recover, Remediate, BeginRecovery
<1>3. TypeOK
  BY DEF IInv
<1>4. ASSUME NEW e \in open
      PROVE  /\ Requeued(e) \in Sessions /\ Requeued(e).was.status \in {"failed", "delivered"}
             /\ Requeued(e).now.status = "failed"
  <2>1. delivery[e] \in Deliveries /\ delivery[e].status \in {"failed", "delivered"} /\ e \in Events
    BY <1>3 DEF TypeOK
  <2>2. Load(e) \in Sessions /\ Load(e).was = delivery[e]
    BY <2>1, LoadIs
  <2> QED BY <2>1, <2>2 DEF Requeued, Sessions, Deliveries
<1>5. /\ ops' \in [Events -> Sessions]
      /\ \A e \in Events : ops'[e] # NotHeld =>
           ops'[e].was.status \in {"failed", "delivered"} /\ ops'[e].now.status = "failed"
  <2> HIDE DEF open
  <2> QED BY <1>1, <1>4, NothingIs
<1>6. recoveries' \in 0 .. MaxRecoveries
  BY <1>2, <1>3, BoundsAssumption DEF TypeOK
<1>7. TypeOK'
  BY <1>2, <1>3, <1>5, <1>6 DEF TypeOK, relayVars, sessionVars
<1>8. Forward
  BY <1>2, <1>3, StreamIs DEF Forward
<1>9. \A w \in Workers : Worker(w)'
  BY <1>2, <1>8, SameKept DEF Same, relayVars, sessionVars
<1>10. Known' /\ NoEntrySkipped'
  BY <1>2, <1>8, KnownKept, OffsetKept
<1>11. Rows' /\ Inserts' /\ Requeues'
  BY <1>2, <1>5 DEF IInv, Rows, Row, Marked, Inserts, Requeues, sessionVars
<1> QED  BY <1>2, <1>7, <1>9, <1>10, <1>11 DEF IInv

LEMMA CommitRecoveryKeeps ==
  ASSUME IInv, CommitRecovery
  PROVE  IInv'
<1>1. /\ ops' = Nothing
      /\ IF Stale(ops) THEN UNCHANGED <<delivery, recovered>>
         ELSE delivery' = Flushed(ops) /\ recovered' = recovered \cup Holding(ops)
      /\ UNCHANGED <<busVars, offset, effects, pc, relayVars, sessionVars, stumbled, bounds>>
  BY DEF CommitRecovery
<1>2. TypeOK /\ Rows /\ Inserts /\ Requeues
  BY DEF IInv
<1>3. ops \in [Events -> Sessions] /\ delivery \in [Events -> Deliveries]
  BY <1>2 DEF TypeOK
<1>4. /\ delivery' \in [Events -> Deliveries] /\ recovered' \subseteq Events /\ recovered \subseteq recovered'
      /\ \A e \in Events :
           \/ delivery'[e] = delivery[e]
           \/ delivery[e].status # "none" /\ delivery'[e].status = "failed" /\ e \in recovered'
           \/ delivery[e].status # "none" /\ delivery'[e].status = delivery[e].status /\ e \in recovered'
  <2>1. CASE Stale(ops)
    BY <1>1, <1>2, <2>1 DEF TypeOK
  <2>2. CASE ~Stale(ops)
    <3>1. /\ delivery' = Flushed(ops) /\ recovered' = recovered \cup Holding(ops)
      BY <1>1, <2>2
    <3>2. /\ delivery' \in [Events -> Deliveries]
          /\ \A e \in Events :
               /\ ops[e] = NotHeld => delivery'[e] = delivery[e]
               /\ delivery'[e].status = IF ops[e].now.status = ops[e].was.status THEN delivery[e].status
                                        ELSE ops[e].now.status
      BY <1>3, <3>1, FlushedIs
    <3>3. recovered' \subseteq Events /\ recovered \subseteq recovered'
      BY <1>2, <3>1 DEF TypeOK, Holding
    <3>4. ASSUME NEW e \in Events, ops[e] # NotHeld
          PROVE  /\ delivery[e].status # "none" /\ e \in recovered'
                 /\ delivery'[e].status = "failed" \/ delivery'[e].status = delivery[e].status
      <4>1. ops[e].was.status \in {"failed", "delivered"} /\ ops[e].now.status = "failed"
        BY <1>2, <3>4 DEF Requeues
      <4>2. e \in Holding(ops)
        BY <3>4 DEF Holding
      <4>3. delivery[e].status # "none"
        BY <2>2, <4>1, <4>2 DEF Stale
      <4> QED BY <3>1, <3>2, <4>1, <4>2, <4>3
    <3> QED BY <3>2, <3>3, <3>4
  <2> QED BY <2>1, <2>2
<1>5. TypeOK'
  BY <1>1, <1>2, <1>4, Emptied, NothingIs DEF TypeOK, Nothing, busVars, relayVars, sessionVars, bounds
<1>6. Forward
  BY <1>1, <1>2, <1>4, StreamIs DEF Forward, busVars
<1>7. \A w \in Workers : Worker(w)'
  BY <1>1, <1>6, SameKept DEF Same, relayVars, sessionVars
<1>8. Known' /\ NoEntrySkipped'
  BY <1>1, <1>6, KnownKept, OffsetKept DEF busVars
<1>9. Rows'
  <2> SUFFICES ASSUME NEW e \in Events PROVE Row(e)'
    BY DEF Rows
  <2>1. Row(e)
    BY <1>2 DEF Rows
  <2>2. event' = event /\ effects' = effects /\ (e \in Marked => e \in Marked') /\ (e \in recovered' => e \in Marked')
    BY <1>1, <1>4 DEF Marked, busVars
  <2>3. CASE delivery'[e] = delivery[e]
    BY <2>1, <2>2, <2>3 DEF Row
  <2>4. CASE delivery[e].status # "none" /\ delivery'[e].status = "failed" /\ e \in recovered'
    BY <2>1, <2>2, <2>4 DEF Row
  <2>5. CASE delivery[e].status # "none" /\ delivery'[e].status = delivery[e].status /\ e \in recovered'
    BY <2>1, <2>2, <2>5 DEF Row
  <2> QED BY <1>4, <2>3, <2>4, <2>5
<1>10. Inserts'
  <2>1. \A w \in Workers : inserted[w] \subseteq Events
    BY <1>2 DEF TypeOK
  <2>2. event' = event /\ inserted' = inserted
    BY <1>1 DEF busVars, sessionVars
  <2>3. \A e \in Events : delivery[e].status = "none" => delivery'[e].status = "none"
    BY <1>4
  <2> QED BY <1>2, <2>1, <2>2, <2>3 DEF Inserts
<1>11. Requeues'
  BY <1>1 DEF Requeues, Nothing
<1> QED  BY <1>5, <1>7, <1>8, <1>9, <1>10, <1>11 DEF IInv

-----------------------------------------------------------------------------
(* The invariant.                                                          *)

LEMMA InitIInv == Init => IInv
<1> SUFFICES ASSUME Init PROVE IInv
  OBVIOUS
<1>1. <<>> \in Seq(Events) /\ Len(<<>>) = 0
  BY EmptySeq
<1>2. Nothing \in [Events -> Sessions] /\ \A e \in Events : Nothing[e] = NotHeld
  BY NothingIs DEF Nothing
<1>3. TypeOK
  BY <1>1, <1>2, BoundsAssumption DEF Init, TypeOK, Deliveries, NoDelivery
<1>4. Known /\ NoEntrySkipped
  BY <1>1 DEF Init, Known, NoEntrySkipped
<1>5. Rows /\ Inserts
  BY DEF Init, Rows, Row, NoDelivery, Inserts
<1>6. Requeues
  BY <1>2 DEF Init, Requeues
<1>7. ASSUME NEW w \in Workers PROVE Worker(w)
  <2>1. Batch(w)
    BY <1>1, <1>2 DEF Init, Batch
  <2>2. Carries(w)
    BY DEF Init, Carries
  <2>3. Session(w) /\ Covers(w)
    BY <1>2 DEF Init, Session, Covers
  <2> QED BY <2>1, <2>2, <2>3 DEF Worker
<1> QED  BY <1>3, <1>4, <1>5, <1>6, <1>7 DEF IInv

LEMMA WorkerKeeps ==
  ASSUME IInv, NEW w \in Workers, WorkerStep(w) \/ WorkerFault(w)
  PROVE  /\ IInv'
         /\ \A e \in Events : delivery[e].status = "delivered" => delivery'[e].status = "delivered"
<1>1. CASE Relay(w) \/ SetKeyFails(w) \/ AddEntryFails(w) \/ RollbackRelay(w)
  BY <1>1, RelayKeeps
<1>2. CASE ReadStream(w)
  BY <1>2, ReadKeeps
<1>3. CASE Look(w)
  BY <1>3, LookKeeps
<1>4. CASE Insert(w)
  BY <1>4, InsertKeeps
<1>5. CASE RunHandler(w)
  BY <1>5, RunHandlerKeeps
<1>6. CASE SelectFailed(w)
  BY <1>6, SelectFailedKeeps
<1>7. CASE RetryHandler(w)
  BY <1>7, RetryHandlerKeeps
<1>8. CASE CommitConsume(w) \/ RollbackConsume(w) \/ CommitRetry(w) \/ RollbackRetry(w) \/ Crash(w)
  BY <1>8, EndKeeps
<1> QED  BY <1>1, <1>2, <1>3, <1>4, <1>5, <1>6, <1>7, <1>8
         DEF WorkerStep, WorkerFault, Consume, RetryFailed

LEMMA NextKeeps == IInv /\ [Next]_vars => IInv'
<1> SUFFICES ASSUME IInv, [Next]_vars PROVE IInv'
  OBVIOUS
<1>1. CASE \E e \in Events : Emit(e)
  BY <1>1, EmitKeeps
<1>2. CASE \E e \in Events : Purge(e)
  BY <1>2, PurgeKeeps
<1>3. CASE \E w \in Workers : WorkerStep(w) \/ WorkerFault(w)
  BY <1>3, WorkerKeeps
<1>4. CASE Recover \/ Remediate
  BY <1>4, BeginRecoveryKeeps
<1>5. CASE CommitRecovery
  BY <1>5, CommitRecoveryKeeps
<1>6. CASE UNCHANGED vars
  <2>1. TypeOK'
    BY <1>6 DEF vars, busVars, consumerVars, relayVars, sessionVars, history, bounds, IInv, TypeOK
  <2>2. Forward /\ \A w \in Workers : Same(w)
    BY <1>6, StreamIs DEF vars, busVars, consumerVars, relayVars, sessionVars, history, IInv, Forward, Same
  <2>3. \A w \in Workers : Worker(w)'
    BY <2>2, SameKept
  <2>4. Known' /\ Rows' /\ Inserts' /\ Requeues' /\ NoEntrySkipped'
    BY <1>6 DEF vars, busVars, consumerVars, sessionVars, history, IInv, Known, Rows, Row, Marked,
                Inserts, Requeues, NoEntrySkipped
  <2> QED BY <2>1, <2>3, <2>4 DEF IInv
<1> QED  BY <1>1, <1>2, <1>3, <1>4, <1>5, <1>6 DEF Next

LEMMA SpecIInv == Spec => []IInv
<1> QED  BY InitIInv, NextKeeps, PTL DEF Spec

\* TypeOK: every variable of the bus keeps its shape, and the committed offset
\* and the positions never run past the stream.
THEOREM TypeCorrect == Spec => []TypeOK
<1>1. IInv => TypeOK
  BY DEF IInv
<1> QED  BY <1>1, SpecIInv, PTL

\* The committed offset of _consume_event_stream_batch never passes an entry
\* whose event is still there and has no delivery row, whatever batches of
\* other workers overlap, fail or commit late.
THEOREM EntriesCovered == Spec => []NoEntrySkipped
<1>1. IInv => NoEntrySkipped
  BY DEF IInv
<1> QED  BY <1>1, SpecIInv, PTL

\* The handler runs in the transaction that writes the status: no delivery is
\* delivered without its effect.
THEOREM EffectsCommitted == Spec => []DeliveredHadEffect
<1>1. IInv => DeliveredHadEffect
  BY DEF IInv, Rows, Row, DeliveredHadEffect
<1> QED  BY <1>1, SpecIInv, PTL

\* The unique delivery row makes the handler of an event that never raised and
\* was never requeued take effect at most once.
THEOREM CleanOnce == Spec => []CleanEventsOnce
<1>1. IInv => CleanEventsOnce
  BY DEF IInv, Rows, Row, Marked, CleanEventsOnce
<1> QED  BY <1>1, SpecIInv, PTL

\* Consumption and retry never take a delivered event back; only a requeue or
\* the removal of the event does.
THEOREM DeliveredKept == Spec => DeliveredStays
<1> DEFINE stays == \A e \in Events : delivery[e].status = "delivered" =>
              delivery'[e].status = "delivered" \/ ops # Nothing \/ event'[e] = "purged"
<1>1. IInv /\ [Next]_vars => [stays]_vars
  <2> SUFFICES ASSUME IInv, Next PROVE stays
    OBVIOUS
  <2>1. CASE \E e \in Events : Emit(e)
    BY <2>1, EmitKeeps
  <2>2. CASE \E e \in Events : Purge(e)
    <3>1. PICK e \in Events : Purge(e)
      BY <2>2
    <3>2. event'[e] = "purged" /\ \A f \in Events \ {e} : delivery'[f] = delivery[f]
      BY <3>1, PurgeKeeps
    <3> QED BY <3>2
  <2>3. CASE \E w \in Workers : WorkerStep(w) \/ WorkerFault(w)
    BY <2>3, WorkerKeeps
  <2>4. CASE Recover \/ Remediate
    BY <2>4, BeginRecoveryKeeps
  <2>5. CASE CommitRecovery
    BY <2>5 DEF CommitRecovery
  <2> QED BY <2>1, <2>2, <2>3, <2>4, <2>5 DEF Next
<1> QED  BY <1>1, SpecIInv, PTL DEF Spec, DeliveredStays

=============================================================================
