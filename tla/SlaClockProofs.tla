--------------------------- MODULE SlaClockProofs ---------------------------
(***************************************************************************)
(* Proofs about SlaClock for every set of managers and evaluators, every   *)
(* policy and bound.  A paused clock can be resumed, whatever the calendar *)
(* (invariant IInv).  The arithmetic of business time grants what it       *)
(* should on every regular calendar (TimeContractHolds), and so deadlines  *)
(* grant their time and verdicts hold (invariant DInv).                    *)
(***************************************************************************)
EXTENDS SlaClock, SequenceTheorems, FiniteSetTheorems, NaturalsInduction, WellFoundedInduction, TLAPS

\* What a service function may have done to a copy c, as r: whoever closes the
\* open pause has left PAUSED, and whoever comes to PAUSED opens one.
Fair(c, r) ==
  /\ r.ended # None => c.row.status = "PAUSED" /\ r.row.status # "PAUSED"
  /\ r.row.status = "PAUSED" => c.row.status = "PAUSED" \/ r.began # None

\* The fields that matter here.
Shaped(c) ==
  /\ {"row", "held", "gap", "began", "ended"} \subseteq DOMAIN c
  /\ "status" \in DOMAIN c.row

Plain(c) == Shaped(c) /\ c.began = None /\ c.ended = None

LEMMA PauseFair ==
  ASSUME NEW c, Plain(c), NEW at, at # None
  PROVE  Shaped(Pause(c, at)) /\ Fair(c, Pause(c, at))
BY DEF Plain, Shaped, Fair, Pause

LEMMA ResumeFair ==
  ASSUME NEW c, Plain(c), NEW at
  PROVE  Shaped(Resume(c, at)) /\ Fair(c, Resume(c, at))
BY DEF Plain, Shaped, Fair, Resume, Resumed

LEMMA CompleteFair ==
  ASSUME NEW c, NEW d, Shaped(d), Fair(c, d), NEW t, NEW at
  PROVE  Shaped(Complete(d, t, at)) /\ Fair(c, Complete(d, t, at))
BY DEF Shaped, Fair, Complete

LEMMA EvaluateFair ==
  ASSUME NEW c, NEW d, Shaped(d), Fair(c, d), NEW at
  PROVE  Shaped(Evaluate(d, at)) /\ Fair(c, Evaluate(d, at))
BY DEF Shaped, Fair, Evaluate

LEMMA SupersededFair ==
  ASSUME NEW c, Plain(c)
  PROVE  Shaped(Superseded(c)) /\ Fair(c, Superseded(c))
BY DEF Plain, Shaped, Fair, Superseded

LEMMA SyncedFair ==
  ASSUME NEW c, Plain(c), NEW to, NEW old, NEW at, at # None
  PROVE  Shaped(Synced(c, to, old, at)) /\ Fair(c, Synced(c, to, old, at))
<1> DEFINE stopped == IF Pauses(c, to) THEN Pause(c, at)
                      ELSE IF Resumes(to, old) THEN Resume(c, at) ELSE c
           answered == IF to \in Responds /\ to # old THEN Complete(stopped, "RESPONSE", at)
                       ELSE stopped
           resolved == IF to \in Resolves THEN Complete(answered, "RESOLUTION", at)
                       ELSE answered
           cancelled == [c EXCEPT !.row.status = "CANCELLED", !.held = CancelTargets(@)]
<1>1. Shaped(stopped) /\ Fair(c, stopped)
  <2>1. Shaped(c) /\ Fair(c, c)
        BY DEF Plain, Fair
  <2> QED BY <2>1, PauseFair, ResumeFair
<1> HIDE DEF stopped
<1>2. Shaped(answered) /\ Fair(c, answered)
      BY <1>1, CompleteFair
<1> HIDE DEF answered
<1>3. Shaped(resolved) /\ Fair(c, resolved)
      BY <1>2, CompleteFair
<1> HIDE DEF resolved
<1>4. Shaped(Evaluate(resolved, at)) /\ Fair(c, Evaluate(resolved, at))
      BY <1>3, EvaluateFair
<1>5. Shaped(cancelled) /\ Fair(c, cancelled)
      BY DEF Plain, Shaped, Fair
<1>6. Synced(c, to, old, at) = IF to = "CANCELLED" THEN cancelled ELSE Evaluate(resolved, at)
      BY DEF Synced, stopped, answered, resolved
<1> HIDE DEF cancelled
<1> QED BY <1>4, <1>5, <1>6

-----------------------------------------------------------------------------
(* Sequences of anything.                                                  *)

IsSeq(q) == Len(q) \in Nat /\ q = [i \in 1 .. Len(q) |-> q[i]]

LEMMA SeqOfItsValues ==
  ASSUME NEW q, IsSeq(q), NEW e
  PROVE  q \in Seq({q[i] : i \in 1 .. Len(q)} \cup {e})
<1> DEFINE S == {q[i] : i \in 1 .. Len(q)} \cup {e}
<1>1. q \in [1 .. Len(q) -> S]
      BY DEF IsSeq
<1> QED BY <1>1 DEF IsSeq

LEMMA AnySeq ==
  ASSUME NEW S, NEW q \in Seq(S)
  PROVE  IsSeq(q)
BY DEF IsSeq

LEMMA AppendAny ==
  ASSUME NEW q, IsSeq(q), NEW e
  PROVE  /\ IsSeq(Append(q, e))
         /\ Len(Append(q, e)) = Len(q) + 1
         /\ \A i \in 1 .. Len(q) : Append(q, e)[i] = q[i]
         /\ Append(q, e)[Len(q) + 1] = e
<1> DEFINE S == {q[i] : i \in 1 .. Len(q)} \cup {e}
<1>1. q \in Seq(S) /\ e \in S
      BY SeqOfItsValues
<1> HIDE DEF S
<1>2. Append(q, e) \in Seq(S)
      BY <1>1, AppendProperties
<1>3. IsSeq(Append(q, e))
      BY <1>2, AnySeq
<1>4. /\ Len(Append(q, e)) = Len(q) + 1
      /\ \A i \in 1 .. Len(q) : Append(q, e)[i] = q[i]
      /\ Append(q, e)[Len(q) + 1] = e
      BY <1>1
<1> QED BY <1>3, <1>4

LEMMA SameDomain ==
  ASSUME NEW q, IsSeq(q), NEW r, r = [j \in DOMAIN q |-> r[j]]
  PROVE  IsSeq(r) /\ Len(r) = Len(q)
<1> DEFINE S == {r[j] : j \in 1 .. Len(q)}
<1>1. DOMAIN q = 1 .. Len(q) /\ Len(q) \in Nat
      BY DEF IsSeq
<1>2. r \in [1 .. Len(q) -> S]
      BY <1>1
<1>3. r \in Seq(S) /\ Len(r) = Len(q)
      BY <1>1, <1>2
<1> QED BY <1>3, AnySeq

-----------------------------------------------------------------------------
(* The instances of a ticket with the pauses of each.                      *)

OpenIn(q) == \E k \in 1 .. Len(q) : q[k].end = None

Clocks(rows, stops) ==
  /\ IsSeq(rows) /\ IsSeq(stops) /\ Len(stops) = Len(rows)
  /\ \A i \in 1 .. Len(rows) :
       /\ "status" \in DOMAIN rows[i] /\ IsSeq(stops[i])
       /\ rows[i].status = "PAUSED" => OpenIn(stops[i])

\* The pause that a copy began is open, behind those that there were.
LEMMA InsertedAny ==
  ASSUME NEW q, IsSeq(q), NEW c
  PROVE  /\ IsSeq(q \o Inserted(c)) /\ IsSeq(Inserted(c))
         /\ c.began # None => OpenIn(q \o Inserted(c)) /\ OpenIn(Inserted(c))
         /\ OpenIn(q) => OpenIn(q \o Inserted(c))
<1> DEFINE gap == [start |-> c.began, end |-> None]
           S == {q[i] : i \in 1 .. Len(q)} \cup {gap}
<1>1. q \in Seq(S) /\ gap \in S /\ gap.end = None
      BY SeqOfItsValues
<1>2. Inserted(c) = IF c.began = None THEN <<>> ELSE <<gap>>
      BY DEF Inserted
<1> HIDE DEF S, gap
<1>3. CASE c.began = None
  <2>1. Inserted(c) = <<>> /\ <<>> \in Seq(S)
        BY <1>2, <1>3
  <2>2. q \o Inserted(c) = q
        BY <1>1, <2>1, ConcatEmptySeq
  <2> QED BY <1>3, <2>1, <2>2, AnySeq
<1>4. CASE c.began # None
  <2>1. Inserted(c) = <<gap>> /\ <<gap>> \in Seq(S) /\ Len(<<gap>>) = 1 /\ <<gap>>[1] = gap
        BY <1>1, <1>2, <1>4
  <2>2. q \o Inserted(c) = Append(q, gap)
        BY <1>1, <2>1, AppendIsConcat
  <2>3. /\ IsSeq(Append(q, gap)) /\ Len(Append(q, gap)) = Len(q) + 1
        /\ \A i \in 1 .. Len(q) : Append(q, gap)[i] = q[i]
        /\ Append(q, gap)[Len(q) + 1] = gap /\ Len(q) \in Nat
        BY AppendAny DEF IsSeq
  <2>4. OpenIn(Append(q, gap)) /\ (OpenIn(q) => OpenIn(Append(q, gap)))
        BY <1>1, <2>3 DEF OpenIn
  <2>5. IsSeq(Inserted(c))
        BY <2>1, AnySeq
  <2>6. Len(Inserted(c)) = 1 /\ Inserted(c)[1].end = None
        BY <1>1, <2>1
  <2>7. OpenIn(Inserted(c))
        BY <2>6 DEF OpenIn
  <2> QED BY <1>4, <2>2, <2>3, <2>4, <2>5, <2>7
<1> QED BY <1>3, <1>4

\* A new instance starts with the pause it needs.
LEMMA AppendClock ==
  ASSUME NEW rows, NEW stops, Clocks(rows, stops), NEW new, Shaped(new),
         new.row.status = "PAUSED" => new.began # None
  PROVE  Clocks(Append(rows, new.row), Append(stops, Inserted(new)))
<1>1. IsSeq(<<>>)
      BY DEF IsSeq
<1>2. IsSeq(Inserted(new)) /\ (new.began # None => OpenIn(Inserted(new)))
      BY <1>1, InsertedAny
<1>3. "status" \in DOMAIN new.row
      BY DEF Shaped
<1> DEFINE r == Append(rows, new.row)
           p == Append(stops, Inserted(new))
<1>4. IsSeq(rows) /\ IsSeq(stops) /\ Len(stops) = Len(rows) /\ Len(rows) \in Nat
      BY DEF Clocks, IsSeq
<1>5. /\ IsSeq(r) /\ Len(r) = Len(rows) + 1
      /\ \A i \in 1 .. Len(rows) : r[i] = rows[i]
      /\ r[Len(rows) + 1] = new.row
      BY <1>4, AppendAny
<1>6. /\ IsSeq(p) /\ Len(p) = Len(rows) + 1
      /\ \A i \in 1 .. Len(rows) : p[i] = stops[i]
      /\ p[Len(rows) + 1] = Inserted(new)
      BY <1>4, AppendAny
<1> HIDE DEF r, p
<1>7. ASSUME NEW i \in 1 .. Len(r)
      PROVE  /\ "status" \in DOMAIN r[i] /\ IsSeq(p[i])
             /\ r[i].status = "PAUSED" => OpenIn(p[i])
  <2>1. CASE i \in 1 .. Len(rows)
        BY <1>5, <1>6, <2>1 DEF Clocks
  <2>2. CASE i = Len(rows) + 1
        BY <1>2, <1>3, <1>5, <1>6, <2>2
  <2> QED BY <1>4, <1>5, <2>1, <2>2
<1> QED BY <1>4, <1>5, <1>6, <1>7 DEF Clocks, r, p

\* A session that writes from an old copy keeps every clock resumable.
LEMMA StoredClocks ==
  ASSUME Clocks(instances, pauses), NEW s, "status" \in DOMAIN s.row,
         NEW c, Shaped(c), Fair(CopyOf(s), c)
  PROVE  Clocks(Stored(s, c).instances, Stored(s, c).pauses)
<1> DEFINE id == s.id
           row == Written(s.row, c.row, instances[id])
           kept == IF c.ended = None THEN pauses[id] ELSE [pauses[id] EXCEPT ![s.gap].end = c.ended]
           stops == kept \o Inserted(c)
           r == [instances EXCEPT ![id] = row]
           p == [pauses EXCEPT ![id] = stops]
<1>1. Stored(s, c).instances = r /\ Stored(s, c).pauses = p
      BY DEF Stored
<1>2. IsSeq(instances) /\ IsSeq(pauses) /\ Len(pauses) = Len(instances)
      BY DEF Clocks
<1>3. CopyOf(s).row = s.row
      BY DEF CopyOf, Copy
<1> HIDE DEF row, stops, id
<1>4. /\ IsSeq(r) /\ Len(r) = Len(instances)
      /\ \A j \in 1 .. Len(instances) : r[j] = IF j = id THEN row ELSE instances[j]
  <2>1. DOMAIN instances = 1 .. Len(instances) /\ r = [j \in DOMAIN instances |-> r[j]]
        BY <1>2 DEF IsSeq
  <2>2. IsSeq(r) /\ Len(r) = Len(instances)
        BY <1>2, <2>1, SameDomain
  <2> QED BY <2>1, <2>2
<1>5. /\ IsSeq(p) /\ Len(p) = Len(instances)
      /\ \A j \in 1 .. Len(instances) : p[j] = IF j = id THEN stops ELSE pauses[j]
  <2>1. DOMAIN pauses = 1 .. Len(instances) /\ p = [j \in DOMAIN pauses |-> p[j]]
        BY <1>2 DEF IsSeq
  <2>2. IsSeq(p) /\ Len(p) = Len(instances)
        BY <1>2, <2>1, SameDomain
  <2> QED BY <2>1, <2>2
<1>6. ASSUME id \in 1 .. Len(instances)
      PROVE  "status" \in DOMAIN row /\ IsSeq(stops) /\ (row.status = "PAUSED" => OpenIn(stops))
  <2>1. "status" \in DOMAIN instances[id] /\ IsSeq(pauses[id])
        BY <1>6 DEF Clocks
  <2>2. /\ DOMAIN row = DOMAIN instances[id]
        /\ row.status = IF c.row.status = s.row.status THEN instances[id].status ELSE c.row.status
        BY <2>1 DEF Written, row
  <2>3. IsSeq(kept)
    <3>1. kept = [j \in DOMAIN pauses[id] |-> kept[j]]
          BY <2>1 DEF kept, IsSeq
    <3> QED BY <2>1, <3>1, SameDomain
  <2> HIDE DEF kept
  <2>4. IsSeq(stops) /\ (c.began # None => OpenIn(stops)) /\ (OpenIn(kept) => OpenIn(stops))
        BY <2>3, InsertedAny DEF stops
  <2>5. ASSUME row.status = "PAUSED" PROVE OpenIn(stops)
    <3>1. CASE c.row.status = s.row.status
      <4>1. c.ended = None
            BY <1>3, <3>1 DEF Fair
      <4>2. kept = pauses[id] /\ instances[id].status = "PAUSED"
            BY <2>2, <2>5, <3>1, <4>1 DEF kept
      <4> QED BY <1>6, <2>4, <4>2 DEF Clocks
    <3>2. CASE c.row.status # s.row.status
          BY <1>3, <2>2, <2>4, <2>5, <3>2 DEF Fair
    <3> QED BY <3>1, <3>2
  <2> QED BY <2>1, <2>2, <2>4, <2>5
<1> HIDE DEF r, p
<1>7. ASSUME NEW i \in 1 .. Len(r)
      PROVE  /\ "status" \in DOMAIN r[i] /\ IsSeq(p[i])
             /\ r[i].status = "PAUSED" => OpenIn(p[i])
  <2>1. CASE i = id
        BY <1>4, <1>5, <1>6, <2>1
  <2>2. CASE i # id
        BY <1>4, <1>5, <2>2 DEF Clocks
  <2> QED BY <2>1, <2>2
<1> QED BY <1>1, <1>4, <1>5, <1>7 DEF Clocks

-----------------------------------------------------------------------------
(* The inductive invariant.                                                *)

\* A session has read a row, and its time before it writes.
Reads(s) ==
  /\ {"kind", "pc", "id", "row", "held", "gap", "at"} \subseteq DOMAIN s
  /\ "status" \in DOMAIN s.row
  /\ s.at \in Times
  /\ s.pc = "WRITE" => s.at # None

Working ==
  /\ DOMAIN session = Parties /\ session = [p \in Parties |-> session[p]]
  /\ \A p \in Parties : session[p] # None => Reads(session[p])

IInv == now \in Nat /\ Clocks(instances, pauses) /\ Working

LEMMA InitIInv == Init => IInv
<1>1. IsSeq(<<>>) /\ Len(<<>>) = 0
      BY DEF IsSeq
<1> QED BY <1>1 DEF Init, IInv, Clocks, Working

\* A session begins, goes on or ends.
LEMMA BeginWorking ==
  ASSUME Working, NEW p \in Parties, NEW s, s # None => Reads(s), Begin(p, s)
  PROVE  Working'
BY DEF Working, Begin, Reads, Times

\* A new instance that sync_ticket_sla has brought up to date is paused only
\* with an open pause.
LEMMA FreshSynced ==
  ASSUME NEW calendar, NEW to, NEW old, NEW at, at # None
  PROVE  LET new == Synced(Fresh(calendar, at), to, old, at)
         IN  Shaped(new) /\ (new.row.status = "PAUSED" => new.began # None)
<1> DEFINE f == Fresh(calendar, at)
<1>1. Plain(f) /\ f.row.status = "ACTIVE"
      BY DEF Fresh, Copy, Plain, Shaped
<1> HIDE DEF f
<1>2. Shaped(Synced(f, to, old, at)) /\ Fair(f, Synced(f, to, old, at))
      BY <1>1, SyncedFair
<1> QED BY <1>1, <1>2 DEF Fair, f

LEMMA CopyPlain ==
  ASSUME NEW s, Reads(s)
  PROVE  Plain(CopyOf(s)) /\ CopyOf(s).row = s.row
BY DEF CopyOf, Copy, Plain, Shaped, Reads

\* What a session saves, alone or with a new instance.
LEMMA SaveClocks ==
  ASSUME Clocks(instances, pauses), NEW s, Reads(s), NEW c, Shaped(c), Fair(CopyOf(s), c),
         Save(s, c)
  PROVE  Clocks(instances, pauses)'
<1>1. Clocks(Stored(s, c).instances, Stored(s, c).pauses)
      BY StoredClocks DEF Reads
<1> QED BY <1>1 DEF Save, Clocks

LEMMA SaveWithClocks ==
  ASSUME Clocks(instances, pauses), NEW s, Reads(s), NEW c, Shaped(c), Fair(CopyOf(s), c),
         NEW new, Shaped(new), new.row.status = "PAUSED" => new.began # None,
         SaveWith(s, c, new)
  PROVE  Clocks(instances, pauses)'
<1>1. Clocks(Stored(s, c).instances, Stored(s, c).pauses)
      BY StoredClocks DEF Reads
<1>2. Clocks(Append(Stored(s, c).instances, new.row), Append(Stored(s, c).pauses, Inserted(new)))
      BY <1>1, AppendClock
<1> QED BY <1>2 DEF SaveWith, Clocks

LEMMA IInvPreserved == IInv /\ [Next]_vars => IInv'
<1> SUFFICES ASSUME IInv, [Next]_vars PROVE IInv'
    OBVIOUS
<1> USE NoneAssumption DEF IInv
<1>1. DOMAIN instances = 1 .. Len(instances)
      BY DEF Clocks, IsSeq
<1>2. CASE Tick
      BY <1>2 DEF Tick, Clocks, Working, Reads
<1>3. CASE Create
  <2>1. PICK to \in {"NEW", "ASSIGNED"}, calendar \in Calendars :
           LET new == Synced(Fresh(calendar, now), to, None, now)
           IN  instances' = <<new.row>> /\ pauses' = <<Inserted(new)>>
        BY <1>3, Zenon DEF Create
  <2> DEFINE new == Synced(Fresh(calendar, now), to, None, now)
  <2>2. Shaped(new) /\ (new.row.status = "PAUSED" => new.began # None)
        BY FreshSynced
  <2>3. instances' = <<new.row>> /\ pauses' = <<Inserted(new)>>
        BY <2>1
  <2> HIDE DEF new
  <2>4. Clocks(<<>>, <<>>)
        BY DEF Clocks, IsSeq
  <2>5. Clocks(Append(<<>>, new.row), Append(<<>>, Inserted(new)))
        BY <2>2, <2>4, AppendClock
  <2>6. Clocks(<<new.row>>, <<Inserted(new)>>)
        BY <2>5
  <2>7. Clocks(instances, pauses)'
        BY <2>3, <2>6 DEF Clocks
  <2> QED BY <1>3, <2>7 DEF Create, Working, Reads
<1>4. CASE DeskRead
  <2>1. PICK to \in (Transitions[ticket] \cap Aims) \cup {ticket}, priority \in BOOLEAN, i \in Current :
           Begin("desk", [Blank EXCEPT !.kind = "sync", !.to = to, !.old = ticket, !.at = now,
                                       !.force = priority \/ to = "REOPENED", !.id = i,
                                       !.row = instances[i]])
        BY <1>4, Zenon DEF DeskRead
  <2>2. "status" \in DOMAIN instances[i]
        BY <1>1 DEF Current, Clocks
  <2>3. Reads([Blank EXCEPT !.kind = "sync", !.to = to, !.old = ticket, !.at = now,
                            !.force = priority \/ to = "REOPENED", !.id = i, !.row = instances[i]])
        BY <2>2 DEF Blank, Reads, Times
  <2>4. Working'
        BY <2>1, <2>3, BeginWorking DEF Parties
  <2> QED BY <1>4, <2>4 DEF DeskRead, Clocks
<1>5. ASSUME NEW m \in Managers, ManagerRead(m) PROVE IInv'
  <2>1. m \in Parties
        BY DEF Parties
  <2>2. \A i \in DOMAIN instances : "status" \in DOMAIN instances[i]
        BY <1>1 DEF Clocks
  <2>3. CASE \E kind \in {"pause", "resume"}, i \in DOMAIN instances :
               Begin(m, [Blank EXCEPT !.kind = kind, !.id = i, !.row = instances[i]])
    <3>1. PICK kind \in {"pause", "resume"}, i \in DOMAIN instances :
                 Begin(m, [Blank EXCEPT !.kind = kind, !.id = i, !.row = instances[i]])
          BY <2>3, Zenon
    <3>2. Reads([Blank EXCEPT !.kind = kind, !.id = i, !.row = instances[i]])
          BY <2>2 DEF Blank, Reads, Times
    <3>3. Working'
          BY <2>1, <3>1, <3>2, BeginWorking
    <3> QED BY <1>5, <3>3 DEF ManagerRead, Clocks
  <2>4. CASE \E t \in Targets, i \in DOMAIN instances :
               Begin(m, [Blank EXCEPT !.kind = "complete", !.target = t, !.id = i,
                                      !.row = instances[i]])
    <3>1. PICK t \in Targets, i \in DOMAIN instances :
                 Begin(m, [Blank EXCEPT !.kind = "complete", !.target = t, !.id = i,
                                        !.row = instances[i]])
          BY <2>4, Zenon
    <3>2. Reads([Blank EXCEPT !.kind = "complete", !.target = t, !.id = i, !.row = instances[i]])
          BY <2>2 DEF Blank, Reads, Times
    <3>3. Working'
          BY <2>1, <3>1, <3>2, BeginWorking
    <3> QED BY <1>5, <3>3 DEF ManagerRead, Clocks
  <2>5. CASE \E i \in Current :
               Begin(m, [Blank EXCEPT !.kind = "recalculate", !.id = i, !.row = instances[i]])
    <3>1. PICK i \in Current :
                 Begin(m, [Blank EXCEPT !.kind = "recalculate", !.id = i, !.row = instances[i]])
          BY <2>5, Zenon
    <3>2. Reads([Blank EXCEPT !.kind = "recalculate", !.id = i, !.row = instances[i]])
          BY <2>2 DEF Current, Blank, Reads, Times
    <3>3. Working'
          BY <2>1, <3>1, <3>2, BeginWorking
    <3> QED BY <1>5, <3>3 DEF ManagerRead, Clocks
  <2> QED BY <1>5, <2>3, <2>4, <2>5, Zenon DEF ManagerRead
<1>6. ASSUME NEW m \in Managers, ManagerLock(m) PROVE IInv'
  <2>1. PICK i \in Current :
           Begin(m, [session[m] EXCEPT !.pc = "LOCKED", !.at = now, !.id = i,
                                       !.row = IF i = session[m].id THEN @ ELSE instances[i]])
        BY <1>6 DEF ManagerLock
  <2>2. "status" \in DOMAIN instances[i] /\ Reads(session[m])
        BY <1>1, <1>6 DEF Current, Clocks, ManagerLock, Working, Parties
  <2>3. Reads([session[m] EXCEPT !.pc = "LOCKED", !.at = now, !.id = i,
                                 !.row = IF i = session[m].id THEN @ ELSE instances[i]])
        BY <2>2 DEF Reads, Times
  <2>4. Working'
        BY <2>1, <2>3, BeginWorking DEF Parties
  <2> QED BY <1>6, <2>4 DEF ManagerLock, Clocks
<1>7. ASSUME NEW e \in Evaluators, EvaluatorRead(e) PROVE IInv'
  <2>1. PICK i \in Current : Begin(e, [Blank EXCEPT !.id = i, !.row = instances[i]])
        BY <1>7 DEF EvaluatorRead
  <2>2. "status" \in DOMAIN instances[i]
        BY <1>1 DEF Current, Clocks
  <2>3. Reads([Blank EXCEPT !.id = i, !.row = instances[i]])
        BY <2>2 DEF Blank, Reads, Times
  <2>4. Working'
        BY <2>1, <2>3, BeginWorking DEF Parties
  <2> QED BY <1>7, <2>4 DEF EvaluatorRead, Clocks
<1>8. ASSUME NEW p \in Parties, Look(p) PROVE IInv'
  <2> DEFINE s == session[p]
             Seen(k) == [s EXCEPT !.pc = "WRITE", !.held = targets[s.id], !.gap = k,
                                  !.at = IF @ = None THEN now ELSE @]
  <2>1. PICK k : Begin(p, IF Idle(Seen(k)) THEN None ELSE Seen(k))
        BY <1>8 DEF Look
  <2>2. Reads(s)
        BY <1>8 DEF Look, Working
  <2>3. Reads(Seen(k))
        BY <2>2 DEF Reads, Times
  <2>4. Working'
        BY <2>1, <2>3, BeginWorking
  <2> QED BY <1>8, <2>4 DEF Look, Clocks
<1>9. CASE DeskCommit
  <2> DEFINE s == session["desk"]
  <2>1. "desk" \in Parties /\ Reads(s) /\ s.at # None
        BY <1>9 DEF DeskCommit, Writes, Working, Parties, Reads
  <2>2. Plain(CopyOf(s)) /\ CopyOf(s).row = s.row
        BY <2>1, CopyPlain
  <2>3. CASE s.force
    <3>1. PICK calendar \in Calendars :
             SaveWith(s, Superseded(CopyOf(s)), Synced(Fresh(calendar, s.at), s.to, s.old, s.at))
          BY <1>9, <2>3 DEF DeskCommit
    <3>2. Clocks(instances, pauses)'
          BY <2>1, <2>2, <3>1, SupersededFair, FreshSynced, SaveWithClocks
    <3> QED BY <1>9, <2>1, <3>2, BeginWorking DEF DeskCommit, End
  <2>4. CASE ~s.force
    <3>1. Save(s, Synced(CopyOf(s), s.to, s.old, s.at))
          BY <1>9, <2>4 DEF DeskCommit
    <3>2. Clocks(instances, pauses)'
          BY <2>1, <2>2, <3>1, SyncedFair, SaveClocks
    <3> QED BY <1>9, <2>1, <3>2, BeginWorking DEF DeskCommit, End
  <2> QED BY <2>3, <2>4
<1>10. ASSUME NEW m \in Managers, ManagerCommit(m) PROVE IInv'
  <2> DEFINE s == session[m]
             c == CopyOf(s)
  <2>1. m \in Parties /\ Reads(s) /\ s.at # None
        BY <1>10 DEF ManagerCommit, Writes, Working, Parties, Reads
  <2>2. Plain(c) /\ c.row = s.row
        BY <2>1, CopyPlain
  <2>3. Shaped(c) /\ Fair(c, c)
        BY <2>2 DEF Plain, Fair
  <2>4. Clocks(instances, pauses)'
    <3>1. CASE Save(s, Pause(c, s.at))
          BY <2>1, <2>2, <3>1, PauseFair, SaveClocks
    <3>2. CASE Save(s, Resume(c, s.at))
          BY <2>1, <2>2, <3>2, ResumeFair, SaveClocks
    <3>3. CASE Save(s, Complete(c, s.target, s.at))
          BY <2>1, <2>3, <3>3, CompleteFair, SaveClocks
    <3>4. CASE \E calendar \in Calendars : SaveWith(s, Superseded(c), Fresh(calendar, s.at))
      <4>1. PICK calendar \in Calendars : SaveWith(s, Superseded(c), Fresh(calendar, s.at))
            BY <3>4
      <4>2. Shaped(Fresh(calendar, s.at)) /\ Fresh(calendar, s.at).row.status # "PAUSED"
            BY DEF Fresh, Copy, Shaped
      <4> QED BY <2>1, <2>2, <4>1, <4>2, SupersededFair, SaveWithClocks
    <3> QED BY <1>10, <3>1, <3>2, <3>3, <3>4 DEF ManagerCommit
  <2> QED BY <1>10, <2>1, <2>4, BeginWorking DEF ManagerCommit, End
<1>11. ASSUME NEW e \in Evaluators, EvaluatorCommit(e) PROVE IInv'
  <2> DEFINE s == session[e]
             c == CopyOf(s)
  <2>1. e \in Parties /\ Reads(s) /\ s.at # None
        BY <1>11 DEF EvaluatorCommit, Writes, Working, Parties, Reads
  <2>2. Plain(c) /\ c.row = s.row
        BY <2>1, CopyPlain
  <2>3. Shaped(c) /\ Fair(c, c)
        BY <2>2 DEF Plain, Fair
  <2>4. Clocks(instances, pauses)'
        BY <1>11, <2>1, <2>3, EvaluateFair, SaveClocks DEF EvaluatorCommit
  <2> QED BY <1>11, <2>1, <2>4, BeginWorking DEF EvaluatorCommit, End
<1>12. ASSUME NEW p \in Parties, Refuse(p) PROVE IInv'
       BY <1>12, BeginWorking DEF Refuse, End, Clocks
<1>13. CASE UNCHANGED vars
       BY <1>13 DEF vars, Clocks, Working, Reads
<1> QED BY <1>2, <1>3, <1>4, <1>5, <1>6, <1>7, <1>8, <1>9, <1>10, <1>11, <1>12, <1>13 DEF Next

\* Whatever pauses, resumes, recalculates and evaluates at once, from however old
\* a copy, a clock that is paused has an open pause (pause_instance and
\* resume_instance of enterprise_sla.py), so that the ticket can go on.
THEOREM ClockResumes == Spec => []PausedCanResume
<1>1. IInv => PausedCanResume
      BY DEF IInv, Clocks, IsSeq, OpenIn, PausedCanResume, OpenPauses
<1> QED BY <1>1, InitIInv, IInvPreserved, PTL DEF Spec
-----------------------------------------------------------------------------
(* The arithmetic of business time.  Its functions are recursive, and what  *)
(* follows proves of them what TLC evaluates on small calendars: that they  *)
(* are defined, that the search for a deadline ends on every regular        *)
(* calendar, and that it grants the minutes that it is asked for.  First,   *)
(* recursion on numbers and a search that only goes on or ends.             *)

\* A set of numbers that is not empty has a least one.
LEMMA Least ==
  ASSUME NEW T \in SUBSET Nat, T # {}
  PROVE  \E x \in T : \A y \in T : x <= y
<1> DEFINE Below == {p \in Nat \X Nat : p[1] < p[2]}
<1>1. IsWellFoundedOn(Below, Nat)
      BY NatLessThanWellFounded, Zenon DEF OpToRel
<1>2. PICK x \in T : \A y \in T : <<y, x>> \notin Below
      BY <1>1, WFMin, Zenon
<1>3. ASSUME NEW y \in T PROVE x <= y
  <2>1. y < x => <<y, x>> \in Below
        OBVIOUS
  <2> QED BY <1>2, <2>1
<1> QED BY <1>3

\* g(n) is what comes of n applications of F to a.
Iterates(g, S, a, F) == g \in [Nat -> S] /\ g[0] = a /\ \A n \in Nat : g[n + 1] = F[g[n]]

LEMMA Iteration ==
  ASSUME NEW S, NEW a \in S, NEW F \in [S -> S]
  PROVE  \E g : Iterates(g, S, a, F)
<1> DEFINE Approx(k) == {h \in [0..k -> S] : h[0] = a /\ \A n \in 0..(k - 1) : h[n + 1] = F[h[n]]}
<1>1. ASSUME NEW k \in Nat, NEW h \in Approx(k) PROVE Approx(k + 1) # {}
  <2> DEFINE l == [n \in 0..(k + 1) |-> IF n <= k THEN h[n] ELSE F[h[k]]]
  <2>1. h \in [0..k -> S] /\ h[0] = a /\ \A n \in 0..(k - 1) : h[n + 1] = F[h[n]]
        OBVIOUS
  <2>2. l \in [0..(k + 1) -> S] /\ l[0] = a
        BY <2>1
  <2>3. ASSUME NEW n \in 0..k PROVE l[n + 1] = F[l[n]]
    <3>1. CASE n = k
          BY <2>1, <3>1
    <3>2. CASE n # k
          BY <2>1, <3>2
    <3> QED BY <3>1, <3>2
  <2>4. (k + 1) - 1 = k
        OBVIOUS
  <2> HIDE DEF l
  <2> QED BY <2>2, <2>3, <2>4
<1>2. ASSUME NEW k \in Nat PROVE Approx(k) # {}
  <2> DEFINE T == {n \in Nat : Approx(n) = {}}
  <2>1. 0 \notin T
    <3>1. [n \in 0..0 |-> a] \in Approx(0)
          OBVIOUS
    <3> QED BY <3>1
  <2>2. ASSUME NEW n \in Nat, n + 1 \in T PROVE n \in T
        BY <1>1, <2>2
  <2> HIDE DEF T
  <2>3. T = {}
    <3> SUFFICES ASSUME T # {} PROVE FALSE
        OBVIOUS
    <3>1. T \in SUBSET Nat
          BY DEF T
    <3>2. PICK n \in T : \A m \in T : n <= m
          BY <3>1, Least
    <3>3. n \in Nat /\ n # 0
          BY <2>1, <3>1, <3>2
    <3>4. n - 1 \in Nat /\ (n - 1) + 1 = n
          BY <3>3
    <3>5. n - 1 \in T
          BY <2>2, <3>2, <3>4
    <3> QED BY <3>2, <3>3, <3>5
  <2> QED BY <2>3 DEF T
\* Approximations agree.
<1>3. ASSUME NEW k \in Nat, NEW m \in Nat, k <= m, NEW h \in Approx(k), NEW l \in Approx(m),
             NEW n \in 0..k
      PROVE  h[n] = l[n]
  <2> DEFINE T == {i \in 0..k : h[i] # l[i]}
  <2>1. h[0] = a /\ l[0] = a /\ \A i \in 0..(k - 1) : h[i + 1] = F[h[i]] /\ l[i + 1] = F[l[i]]
        BY <1>3
  <2> HIDE DEF Approx
  <2>2. T = {}
    <3> SUFFICES ASSUME T # {} PROVE FALSE
        OBVIOUS
    <3>1. T \in SUBSET Nat
          OBVIOUS
    <3>2. PICK i \in T : \A j \in T : i <= j
          BY <3>1, Least, Zenon
    <3>3. i \in 0..k /\ i # 0
          BY <2>1, <3>2
    <3>4. i - 1 \in 0..(k - 1) /\ (i - 1) + 1 = i /\ i - 1 \in 0..k
          BY <3>3
    <3>5. h[i - 1] = l[i - 1]
          BY <3>2, <3>3, <3>4
    <3> QED BY <2>1, <3>2, <3>4, <3>5
  <2> QED BY <2>2
<1> DEFINE ap(k) == CHOOSE h \in Approx(k) : TRUE
           g == [n \in Nat |-> ap(n)[n]]
<1>4. \A k \in Nat : ap(k) \in Approx(k)
      BY <1>2
<1>5. \A k \in Nat : ap(k) \in [0..k -> S] /\ ap(k)[0] = a /\ \A n \in 0..(k - 1) : ap(k)[n + 1] = F[ap(k)[n]]
  <2> HIDE DEF ap
  <2> QED BY <1>4
<1> HIDE DEF ap
<1>6. g \in [Nat -> S] /\ g[0] = a
      BY <1>5
<1>7. ASSUME NEW n \in Nat PROVE g[n + 1] = F[g[n]]
  <2> HIDE DEF Approx
  <2>1. n + 1 \in Nat /\ n <= n + 1 /\ n \in 0..n /\ n \in 0..((n + 1) - 1)
        OBVIOUS
  <2>2. ap(n)[n] = ap(n + 1)[n]
        BY <1>3, <1>4, <2>1
  <2>3. ap(n + 1)[n + 1] = F[ap(n + 1)[n]]
        BY <1>5, <2>1
  <2> QED BY <2>1, <2>2, <2>3
<1> QED BY <1>6, <1>7 DEF Iterates

\* g(n) goes n steps on from each place.
Travels(g, Q, N) ==
  \A q \in Q :
    /\ g[0][q] = q
    /\ \A n \in Nat : g[n][q] \in Q /\ g[n + 1][q] = N[g[n][q]] /\ g[n + 1][q] = g[n][N[q]]

LEMMA Travel ==
  ASSUME NEW Q, NEW N \in [Q -> Q]
  PROVE  \E g : Travels(g, Q, N)
<1> DEFINE a == [q \in Q |-> q]
           F == [h \in [Q -> Q] |-> [q \in Q |-> N[h[q]]]]
<1>1. a \in [Q -> Q] /\ F \in [[Q -> Q] -> [Q -> Q]]
      OBVIOUS
<1>2. \A h \in [Q -> Q], q \in Q : F[h][q] = N[h[q]] /\ a[q] = q
      OBVIOUS
<1> HIDE DEF a, F
<1>3. PICK g : Iterates(g, [Q -> Q], a, F)
      BY <1>1, Iteration
<1>4. \A n \in Nat : g[n] \in [Q -> Q] /\ g[0] = a /\ g[n + 1] = F[g[n]]
      BY <1>3 DEF Iterates
<1>40. \A q \in Q : g[0][q] = q /\ \A n \in Nat : g[n][q] \in Q /\ g[n + 1][q] = N[g[n][q]]
  <2> SUFFICES ASSUME NEW q \in Q PROVE g[0][q] = q /\ \A n \in Nat : g[n][q] \in Q /\ g[n + 1][q] = N[g[n][q]]
      OBVIOUS
  <2>1. g[0][q] = q
        BY <1>2, <1>4
  <2>2. ASSUME NEW n \in Nat PROVE g[n][q] \in Q /\ g[n + 1][q] = N[g[n][q]]
    <3>1. g[n] \in [Q -> Q] /\ g[n + 1] = F[g[n]]
          BY <1>4
    <3>2. F[g[n]][q] = N[g[n][q]]
          BY <1>2, <3>1
    <3> QED BY <3>1, <3>2
  <2> QED BY <2>1, <2>2
<1>5. ASSUME NEW q \in Q, NEW n \in Nat PROVE g[n + 1][q] = g[n][N[q]]
  <2> DEFINE T == {m \in Nat : g[m + 1][q] # g[m][N[q]]}
  <2>1. N[q] \in Q
        OBVIOUS
  <2>2. 0 \notin T
    <3>1. g[0 + 1][q] = N[g[0][q]]
          BY <1>40
    <3> QED BY <1>40, <2>1, <3>1
  <2>3. ASSUME NEW m \in Nat, m + 1 \in T PROVE m \in T
    <3>1. g[(m + 1) + 1][q] = N[g[m + 1][q]] /\ g[m + 1][N[q]] = N[g[m][N[q]]]
          BY <1>40, <2>1
    <3> QED BY <2>3, <3>1
  <2>4. T \in SUBSET Nat /\ \A m \in Nat : m \notin T => g[m + 1][q] = g[m][N[q]]
        OBVIOUS
  <2> HIDE DEF T
  <2>5. T = {}
    <3> SUFFICES ASSUME T # {} PROVE FALSE
        OBVIOUS
    <3>1. PICK m \in T : \A k \in T : m <= k
          BY <2>4, Least
    <3>2. m \in Nat /\ m # 0
          BY <2>2, <2>4, <3>1
    <3>3. m - 1 \in Nat /\ (m - 1) + 1 = m
          BY <3>2
    <3>4. m - 1 \in T
          BY <2>3, <3>1, <3>3
    <3> QED BY <3>1, <3>2, <3>4
  <2> QED BY <2>4, <2>5
<1> QED BY <1>40, <1>5 DEF Travels

\* A recursion that only goes on or ends defines a function, whether or not it
\* ends everywhere.
Recurs(f, Q, N, E, V) == f = [q \in Q |-> IF q \in E THEN V[q] ELSE f[N[q]]]

LEMMA TailRecursion ==
  ASSUME NEW Q, NEW N \in [Q -> Q], NEW E \in SUBSET Q, NEW V
  PROVE  \E f : Recurs(f, Q, N, E, V)
<1>0. PICK g : Travels(g, Q, N)
      BY Travel
<1>1. \A q \in Q :
        /\ g[0][q] = q
        /\ \A n \in Nat : g[n][q] \in Q /\ g[n + 1][q] = N[g[n][q]] /\ g[n + 1][q] = g[n][N[q]]
      BY <1>0 DEF Travels
<1> DEFINE Ends(q) == {n \in Nat : g[n][q] \in E}
           First(q, n) == n \in Ends(q) /\ \A m \in Ends(q) : n <= m
           Value(q) == IF Ends(q) = {} THEN 0 ELSE V[g[CHOOSE n \in Nat : First(q, n)][q]]
           f == [q \in Q |-> Value(q)]
<1>2. ASSUME NEW q \in Q, NEW n \in Nat, First(q, n) PROVE Value(q) = V[g[n][q]]
  <2> DEFINE k == CHOOSE m \in Nat : First(q, m)
  <2>1. k \in Nat /\ First(q, k)
        BY <1>2
  <2>2. k = n
        BY <1>2, <2>1
  <2> QED BY <1>2, <2>2
<1>3. ASSUME NEW q \in Q, Ends(q) # {} PROVE \E n \in Nat : First(q, n)
  <2>1. Ends(q) \in SUBSET Nat
        OBVIOUS
  <2>2. PICK n \in Ends(q) : \A m \in Ends(q) : n <= m
        BY <1>3, <2>1, Least, Zenon
  <2> QED BY <2>1, <2>2
<1>4. ASSUME NEW q \in E PROVE Value(q) = V[q]
  <2>1. First(q, 0) /\ g[0][q] = q
        BY <1>1
  <2> QED BY <1>2, <2>1
<1>5. ASSUME NEW q \in Q \ E PROVE Value(q) = Value(N[q])
  <2>1. N[q] \in Q
        OBVIOUS
  <2>2. 0 \notin Ends(q)
        BY <1>1
  <2>3. \A n \in Nat : (n + 1 \in Ends(q) => n \in Ends(N[q])) /\ (n \in Ends(N[q]) => n + 1 \in Ends(q))
        BY <1>1
  <2>4. CASE Ends(N[q]) = {}
    <3>1. Ends(q) = {}
      <4> SUFFICES ASSUME NEW m \in Ends(q) PROVE FALSE
          OBVIOUS
      <4>1. m \in Nat /\ m # 0
            BY <2>2
      <4>2. m - 1 \in Nat /\ (m - 1) + 1 = m
            BY <4>1
      <4>3. m - 1 \in Ends(N[q])
            BY <2>3, <4>2
      <4> QED BY <2>4, <4>3
    <3> QED BY <2>4, <3>1
  <2>5. CASE Ends(N[q]) # {}
    <3>1. PICK n \in Nat : First(N[q], n)
          BY <1>3, <2>1, <2>5
    <3>2. First(q, n + 1)
      <4>1. n + 1 \in Ends(q)
            BY <2>3, <3>1
      <4>2. ASSUME NEW m \in Ends(q) PROVE n + 1 <= m
        <5>1. m \in Nat /\ m # 0
              BY <2>2
        <5>2. m - 1 \in Nat /\ (m - 1) + 1 = m
              BY <5>1
        <5>3. m - 1 \in Ends(N[q])
              BY <2>3, <5>2
        <5>4. n <= m - 1
              BY <3>1, <5>3
        <5> QED BY <5>1, <5>4
      <4> QED BY <4>1, <4>2
    <3>3. Value(q) = V[g[n + 1][q]] /\ Value(N[q]) = V[g[n][N[q]]]
      <4> HIDE DEF First, Value
      <4> QED BY <1>2, <2>1, <3>1, <3>2
    <3> QED BY <1>1, <3>3
  <2> QED BY <2>4, <2>5
<1>6. f = [q \in Q |-> IF q \in E THEN V[q] ELSE f[N[q]]]
  <2> HIDE DEF Value
  <2>1. \A q \in Q : f[q] = IF q \in E THEN V[q] ELSE f[N[q]]
        BY <1>4, <1>5
  <2> QED BY <2>1
<1> QED BY <1>6 DEF Recurs

-----------------------------------------------------------------------------
(* Numbers.                                                                *)

\* The library's Max and Min of two numbers.
LEMMA MaxIs ==
  ASSUME NEW a \in Int, NEW b \in Int
  PROVE  Max({a, b}) = (IF a >= b THEN a ELSE b) /\ Min({a, b}) = (IF a <= b THEN a ELSE b)
<1>1. ASSUME NEW x \in {a, b}, \A y \in {a, b} : x >= y PROVE x = IF a >= b THEN a ELSE b
      BY <1>1
<1>2. ASSUME NEW x \in {a, b}, \A y \in {a, b} : x <= y PROVE x = IF a <= b THEN a ELSE b
      BY <1>2
<1>3. (\E x \in {a, b} : \A y \in {a, b} : x >= y) /\ \E x \in {a, b} : \A y \in {a, b} : x <= y
      OBVIOUS
<1> QED BY <1>1, <1>2, <1>3 DEF Max, Min

\* Products grow with their factors.
LEMMA Product ==
  ASSUME NEW a \in Nat, NEW b \in Nat, NEW k \in Nat, a <= b
  PROVE  a * k <= b * k /\ a * k \in Nat /\ k * a = a * k /\ (a + 1) * k = a * k + k
OBVIOUS

\* Quotient and remainder.
LEMMA Division ==
  ASSUME NEW x \in Nat, NEW k \in Nat \ {0}
  PROVE  /\ x \div k \in Nat /\ x % k \in 0..(k - 1)
         /\ x = (x \div k) * k + (x % k)
OBVIOUS

\* The quotient is the number q of which x is q times k and less than k more.
LEMMA Quotient ==
  ASSUME NEW x \in Nat, NEW k \in Nat \ {0}, NEW q \in Nat, q * k <= x, x < (q + 1) * k
  PROVE  x \div k = q
<1> DEFINE d == x \div k
<1>1. d \in Nat /\ d * k <= x /\ x < d * k + k
      BY Division
<1> HIDE DEF d
<1>2. ~ (d < q)
  <2> SUFFICES ASSUME d + 1 <= q PROVE FALSE
      BY <1>1
  <2>1. (d + 1) * k <= q * k /\ (d + 1) * k = d * k + k
        BY <1>1, Product
  <2> QED BY <1>1, <2>1
<1>3. ~ (q < d)
  <2> SUFFICES ASSUME q + 1 <= d PROVE FALSE
      BY <1>1
  <2>1. (q + 1) * k <= d * k
        BY <1>1, Product
  <2> QED BY <1>1, <2>1
<1> QED BY <1>1, <1>2, <1>3 DEF d

\* Whole numbers of k.
LEMMA Multiples ==
  ASSUME NEW x \in Nat, NEW k \in Nat \ {0}
  PROVE  /\ x % k = 0 => x = (x \div k) * k
         /\ \A q \in Nat : (q * k) % k = 0
<1>1. x % k = 0 => x = (x \div k) * k
      BY Division
<1>2. ASSUME NEW q \in Nat PROVE (q * k) % k = 0
  <2> DEFINE y == q * k
  <2>1. y \in Nat /\ y < (q + 1) * k
        BY Product
  <2>2. y \div k = q
        BY <2>1, Quotient
  <2> HIDE DEF y
  <2>3. y = (y \div k) * k + (y % k) /\ (y % k) \in Nat
        BY <2>1, Division
  <2>4. y = q * k
        BY DEF y
  <2>5. y % k = 0
        BY <2>1, <2>2, <2>3, <2>4
  <2> QED BY <2>5 DEF y
<1> QED BY <1>1, <1>2

\* Sums, products and differences of whole numbers of k are whole.
LEMMA Whole ==
  ASSUME NEW x \in Nat, NEW y \in Nat, NEW k \in Nat \ {0}, x % k = 0, y % k = 0
  PROVE  /\ (x + y) % k = 0 /\ (x * y) % k = 0
         /\ x <= y => (y - x) % k = 0
<1> DEFINE a == x \div k
           b == y \div k
<1>1. a \in Nat /\ b \in Nat /\ x = a * k /\ y = b * k
      BY Division, Multiples
<1> HIDE DEF a, b
<1>2. x + y = (a + b) * k /\ a + b \in Nat
      BY <1>1
<1>3. x * y = (a * y) * k /\ a * y \in Nat
      BY <1>1
<1>4. x <= y => y - x = (b - a) * k /\ b - a \in Nat
  <2> SUFFICES ASSUME x <= y PROVE y - x = (b - a) * k /\ b - a \in Nat
      OBVIOUS
  <2>1. ~ (b < a)
    <3> SUFFICES ASSUME b + 1 <= a PROVE FALSE
        BY <1>1
    <3>1. (b + 1) * k <= a * k /\ (b + 1) * k = b * k + k
          BY <1>1, Product
    <3> QED BY <1>1, <3>1
  <2> QED BY <1>1, <2>1
<1>5. \A q \in Nat : (q * k) % k = 0
      BY Multiples
<1>6. (x + y) % k = 0
      BY <1>2, <1>5
<1>7. (x * y) % k = 0
      BY <1>3, <1>5
<1>8. x <= y => (y - x) % k = 0
      BY <1>4, <1>5
<1> QED BY <1>6, <1>7, <1>8

-----------------------------------------------------------------------------
(* A sum over a finite set, and the business minutes of a day.             *)

\* h sums the weights of the elements of the subsets of S, one by one.
Sums(h, S, w) ==
  h = [s \in SUBSET S |-> IF s = {} THEN 0
                          ELSE w[CHOOSE x \in s : TRUE] + h[s \ {CHOOSE x \in s : TRUE}]]

\* Taking an element away from a subset leaves a smaller one.
LEMMA Picked ==
  ASSUME NEW S, IsFiniteSet(S), NEW s \in SUBSET S, s # {}
  PROVE  /\ (CHOOSE x \in s : TRUE) \in S
         /\ s \ {CHOOSE x \in s : TRUE} \in SUBSET S
         /\ Cardinality(s) \in Nat /\ Cardinality(s) # 0
         /\ Cardinality(s \ {CHOOSE x \in s : TRUE}) = Cardinality(s) - 1
<1> DEFINE c == CHOOSE x \in s : TRUE
<1>1. c \in s
      OBVIOUS
<1>2. IsFiniteSet(s)
      BY FS_Subset
<1>3. Cardinality(s) \in Nat /\ Cardinality(s) # 0
      BY <1>2, FS_CardinalityType, FS_EmptySet
<1>4. Cardinality(s \ {c}) = Cardinality(s) - 1
      BY <1>1, <1>2, FS_RemoveElement
<1> HIDE DEF c
<1>5. c \in S /\ s \ {c} \in SUBSET S
      BY <1>1
<1> QED BY <1>3, <1>4, <1>5 DEF c

\* The recursion by which the library sums defines a function.
LEMMA SumsExist ==
  ASSUME NEW S, IsFiniteSet(S), NEW w \in [S -> Nat]
  PROVE  \E h : Sums(h, S, w)
<1> DEFINE c(s) == CHOOSE x \in s : TRUE
           R == [SUBSET S -> Nat]
           a == [s \in SUBSET S |-> 0]
           F == [h \in R |-> [s \in SUBSET S |-> IF s = {} THEN 0 ELSE w[c(s)] + h[s \ {c(s)}]]]
<1>1. \A s \in SUBSET S : s # {} =>
        c(s) \in S /\ s \ {c(s)} \in SUBSET S /\ Cardinality(s) \in Nat /\ Cardinality(s) # 0
        /\ Cardinality(s \ {c(s)}) = Cardinality(s) - 1
      BY Picked
<1> HIDE DEF c
<1>20. ASSUME NEW h \in R, NEW s \in SUBSET S
       PROVE  (IF s = {} THEN 0 ELSE w[c(s)] + h[s \ {c(s)}]) \in Nat
  <2>1. CASE s # {}
    <3>1. w[c(s)] \in Nat /\ h[s \ {c(s)}] \in Nat
          BY <1>1, <2>1
    <3> QED BY <2>1, <3>1
  <2> QED BY <2>1
<1>2. a \in R /\ F \in [R -> R]
      BY <1>20
<1>3. \A h \in R, s \in SUBSET S : F[h][s] = IF s = {} THEN 0 ELSE w[c(s)] + h[s \ {c(s)}]
      OBVIOUS
<1>4. \A s \in SUBSET S : a[s] = 0
      OBVIOUS
<1> HIDE DEF a, F
<1>5. PICK g : Iterates(g, R, a, F)
      BY <1>2, Iteration
<1>6. \A n \in Nat : g[n] \in R /\ g[0] = a /\ g[n + 1] = F[g[n]]
      BY <1>5 DEF Iterates
<1> HIDE DEF R
<1> DEFINE h == [s \in SUBSET S |-> g[Cardinality(s)][s]]
<1>7. ASSUME NEW s \in SUBSET S
      PROVE  h[s] = IF s = {} THEN 0 ELSE w[c(s)] + h[s \ {c(s)}]
  <2>1. CASE s = {}
        BY <1>4, <1>6, <2>1, FS_EmptySet
  <2>2. CASE s # {}
    <3> DEFINE n == Cardinality(s) - 1
               r == s \ {c(s)}
    <3>0. /\ r \in SUBSET S /\ Cardinality(s) \in Nat /\ Cardinality(s) # 0
          /\ Cardinality(r) = Cardinality(s) - 1
          BY <1>1, <2>2
    <3>1. n \in Nat /\ n + 1 = Cardinality(s) /\ r \in SUBSET S /\ Cardinality(r) = n
      <4> HIDE DEF r
      <4> QED BY <3>0
    <3> HIDE DEF n, r
    <3>2. g[n + 1] = F[g[n]] /\ g[n] \in R
          BY <1>6, <3>1
    <3>3. F[g[n]][s] = w[c(s)] + g[n][r]
          BY <1>3, <2>2, <3>2 DEF r
    <3>4. h[s] = g[n + 1][s] /\ h[r] = g[n][r]
          BY <3>1
    <3> HIDE DEF h
    <3> QED BY <2>2, <3>2, <3>3, <3>4 DEF r
  <2> QED BY <2>1, <2>2
<1>8. h = [s \in SUBSET S |-> IF s = {} THEN 0 ELSE w[c(s)] + h[s \ {c(s)}]]
      BY <1>7
<1> QED BY <1>8 DEF Sums, c

-----------------------------------------------------------------------------
(* Calendars: the intervals of a day.                                      *)

\* Every day of a regular calendar has valid intervals.
LEMMA HoursValid ==
  ASSUME NEW calendar, Regular(calendar), NEW day \in Nat
  PROVE  IntervalsValid(Hours(calendar, day))
<1>1. day % 7 \in 0..6
      OBVIOUS
<1> QED BY <1>1 DEF Regular, Hours

\* The intervals of a day lie within it, one after the other, on whole minutes.
LEMMA SlotFacts ==
  ASSUME NEW calendar, Regular(calendar), NEW day \in Nat, NEW i \in 1 .. Len(Hours(calendar, day))
  PROVE  /\ Opens(calendar, day, i) \in Nat /\ Closes(calendar, day, i) \in Nat
         /\ day * Day <= Opens(calendar, day, i)
         /\ Opens(calendar, day, i) < Closes(calendar, day, i)
         /\ Closes(calendar, day, i) <= (day + 1) * Day
         /\ Opens(calendar, day, i) % Minute = 0 /\ Closes(calendar, day, i) % Minute = 0
         /\ \A j \in 1 .. Len(Hours(calendar, day)) :
              i < j => Closes(calendar, day, i) <= Opens(calendar, day, j)
<1> DEFINE hours == Hours(calendar, day)
           d == day * Day
<1>1. IntervalsValid(hours)
      BY HoursValid
<1>2. DOMAIN hours = 1 .. Len(hours)
      BY <1>1 DEF IntervalsValid
<1>3. d \in Nat /\ d % Minute = 0 /\ (day + 1) * Day = d + Day /\ Day \in Nat /\ Minute \in Nat \ {0}
  <2>0. day % 1 = 0 /\ Day \in Nat /\ Minute \in Nat \ {0} /\ Day % Minute = 0
        BY TimeAssumption
  <2>1. d \in Nat /\ (day + 1) * Day = d + Day
        BY <2>0, Product
  <2>2. Day = (Day \div Minute) * Minute /\ Day \div Minute \in Nat
        BY <2>0, Division, Multiples
  <2> DEFINE q == Day \div Minute
  <2> HIDE DEF q
  <2>3. Day = q * Minute /\ q \in Nat
        BY <2>2 DEF q
  <2>4. d = (day * q) * Minute /\ day * q \in Nat
        BY <2>0, <2>3
  <2>5. d % Minute = 0
        BY <2>0, <2>4, Multiples
  <2> QED BY <2>0, <2>1, <2>5
<1>4. ASSUME NEW j \in 1 .. Len(hours)
      PROVE  /\ hours[j][1] \in Nat /\ hours[j][2] \in Nat
             /\ hours[j][1] < hours[j][2] /\ hours[j][2] <= Day
             /\ hours[j][1] % Minute = 0 /\ hours[j][2] % Minute = 0
  <2>1. j \in DOMAIN hours /\ hours \in Seq(Nat \X Nat)
        BY <1>1, <1>2 DEF IntervalsValid
  <2>2. hours[j] \in Nat \X Nat
        BY <2>1
  <2> HIDE DEF hours
  <2>3. hours[j][1] < hours[j][2] /\ hours[j][2] <= Day
        /\ hours[j][1] % Minute = 0 /\ hours[j][2] % Minute = 0
        BY <1>1, <2>1 DEF IntervalsValid
  <2> QED BY <2>2, <2>3
<1>5. ASSUME NEW j \in 1 .. Len(hours), i < j PROVE hours[i][2] <= hours[j][1]
  <2> HIDE DEF hours
  <2> QED BY <1>1, <1>2, <1>5 DEF IntervalsValid, hours
<1>6. \A j \in 1 .. Len(hours) :
        Opens(calendar, day, j) = d + hours[j][1] /\ Closes(calendar, day, j) = d + hours[j][2]
      BY DEF Opens, Closes
<1>7. i \in 1 .. Len(hours)
      OBVIOUS
<1> DEFINE e == (day + 1) * Day
<1>71. d \in Nat /\ Day \in Nat /\ e = d + Day
      BY <1>3
<1> HIDE DEF hours, d, e
<1>72. /\ Opens(calendar, day, i) = d + hours[i][1] /\ Closes(calendar, day, i) = d + hours[i][2]
       /\ hours[i][1] \in Nat /\ hours[i][2] \in Nat
       /\ hours[i][1] < hours[i][2] /\ hours[i][2] <= Day
      BY <1>4, <1>6, <1>7
<1>8. /\ Opens(calendar, day, i) \in Nat /\ Closes(calendar, day, i) \in Nat
      /\ d <= Opens(calendar, day, i)
      /\ Opens(calendar, day, i) < Closes(calendar, day, i)
      /\ Closes(calendar, day, i) <= e
  <2> DEFINE a == hours[i][1]
             b == hours[i][2]
  <2>1. /\ Opens(calendar, day, i) = d + a /\ Closes(calendar, day, i) = d + b
        /\ a \in Nat /\ b \in Nat /\ a < b /\ b <= Day
        BY <1>72
  <2> HIDE DEF a, b
  <2> QED BY <1>71, <2>1
<1>9. (d + hours[i][1]) % Minute = 0 /\ (d + hours[i][2]) % Minute = 0
      BY <1>3, <1>4, <1>7, Whole
<1>10. Opens(calendar, day, i) % Minute = 0 /\ Closes(calendar, day, i) % Minute = 0
      BY <1>6, <1>7, <1>9
<1>11. ASSUME NEW j \in 1 .. Len(hours), i < j PROVE Closes(calendar, day, i) <= Opens(calendar, day, j)
  <2>1. hours[j][1] \in Nat /\ Opens(calendar, day, j) = d + hours[j][1]
        BY <1>4, <1>6
  <2>2. hours[i][2] <= hours[j][1]
        BY <1>5, <1>11
  <2> QED BY <1>71, <1>72, <2>1, <2>2
<1> QED BY <1>8, <1>10, <1>11 DEF d, e, hours

\* Where the search stands at an interval: after the one before it, if any.
PlaceTime(calendar, day, slot) == IF slot = 1 THEN day * Day ELSE Closes(calendar, day, slot - 1)

\* The next working time of the day, or its end.
NextOpen(calendar, day, slot) ==
  IF slot <= Len(Hours(calendar, day)) THEN Opens(calendar, day, slot) ELSE (day + 1) * Day

Slots(calendar, day) == 1 .. Len(Hours(calendar, day)) + 1

\* A day has a number of intervals.
LEMMA LenIsNat ==
  ASSUME NEW calendar, Regular(calendar), NEW day \in Nat
  PROVE  Len(Hours(calendar, day)) \in Nat /\ DOMAIN Hours(calendar, day) = 1 .. Len(Hours(calendar, day))
BY HoursValid DEF IntervalsValid

\* The search stands within the day, before the next working time.
LEMMA PlaceTimeFacts ==
  ASSUME NEW calendar, Regular(calendar), NEW day \in Nat, NEW s \in Slots(calendar, day)
  PROVE  /\ PlaceTime(calendar, day, s) \in Nat /\ NextOpen(calendar, day, s) \in Nat
         /\ day * Day <= PlaceTime(calendar, day, s)
         /\ PlaceTime(calendar, day, s) <= NextOpen(calendar, day, s)
         /\ NextOpen(calendar, day, s) <= (day + 1) * Day
<1> DEFINE len == Len(Hours(calendar, day))
           d == day * Day
           e == (day + 1) * Day
<1>1. len \in Nat
      BY LenIsNat
<1>2. d \in Nat /\ e \in Nat /\ d <= e
      BY TimeAssumption, Product
<1>3. \A i \in 1 .. len :
        /\ Opens(calendar, day, i) \in Nat /\ Closes(calendar, day, i) \in Nat
        /\ d <= Opens(calendar, day, i) /\ Opens(calendar, day, i) < Closes(calendar, day, i)
        /\ Closes(calendar, day, i) <= e
        /\ \A j \in 1 .. len : i < j => Closes(calendar, day, i) <= Opens(calendar, day, j)
      BY SlotFacts
<1>4. s \in 1 .. len + 1
      BY DEF Slots
<1>5. PlaceTime(calendar, day, s) = IF s = 1 THEN d ELSE Closes(calendar, day, s - 1)
      BY DEF PlaceTime
<1>6. NextOpen(calendar, day, s) = IF s <= len THEN Opens(calendar, day, s) ELSE e
      BY DEF NextOpen
<1> HIDE DEF len, d, e
<1>7. CASE s = 1
      BY <1>1, <1>2, <1>3, <1>4, <1>5, <1>6, <1>7 DEF d, e
<1>8. CASE s # 1
  <2>1. s - 1 \in 1 .. len /\ s - 1 < s
        BY <1>1, <1>4, <1>8
  <2>2. PlaceTime(calendar, day, s) \in Nat /\ d <= PlaceTime(calendar, day, s) /\ PlaceTime(calendar, day, s) <= e
        BY <1>2, <1>3, <1>5, <1>8, <2>1
  <2>3. CASE s <= len
    <3>1. s \in 1 .. len
          BY <1>1, <1>4, <2>3
    <3>2. Closes(calendar, day, s - 1) <= Opens(calendar, day, s)
          BY <1>3, <2>1, <3>1
    <3> QED BY <1>2, <1>3, <1>5, <1>6, <1>8, <2>2, <2>3, <3>1, <3>2 DEF d, e
  <2>4. CASE ~(s <= len)
        BY <1>2, <1>6, <2>2, <2>4 DEF d, e
  <2> QED BY <2>3, <2>4
<1> QED BY <1>7, <1>8

\* The day of an instant.
LEMMA DayOf ==
  ASSUME NEW day \in Nat, NEW t \in Nat, day * Day <= t, t < (day + 1) * Day
  PROVE  t \div Day = day
BY TimeAssumption, Quotient

\* Nothing works between there and the next working time.
LEMMA Rests ==
  ASSUME NEW calendar, Regular(calendar), calendar # AllHours,
         NEW day \in Nat, NEW s \in Slots(calendar, day), NEW t \in Nat,
         PlaceTime(calendar, day, s) <= t, t < NextOpen(calendar, day, s)
  PROVE  ~Works(calendar, t)
<1> DEFINE len == Len(Hours(calendar, day))
<1>0. /\ PlaceTime(calendar, day, s) \in Nat /\ NextOpen(calendar, day, s) \in Nat
      /\ day * Day <= PlaceTime(calendar, day, s) /\ NextOpen(calendar, day, s) <= (day + 1) * Day
      BY PlaceTimeFacts
<1>1. t \div Day = day
  <2> DEFINE d == day * Day
             e == (day + 1) * Day
  <2>1. d \in Nat /\ e \in Nat /\ d <= t /\ t < e
    <3>1. d \in Nat /\ e \in Nat
          BY TimeAssumption, Product
    <3> HIDE DEF d, e
    <3>2. d <= PlaceTime(calendar, day, s) /\ NextOpen(calendar, day, s) <= e
          BY <1>0 DEF d, e
    <3> QED BY <1>0, <3>1, <3>2
  <2> QED BY <2>1, DayOf
<1>2. len \in Nat /\ DOMAIN Hours(calendar, day) = 1 .. len /\ s \in 1 .. len + 1
      BY LenIsNat DEF Slots
<1>3. \A i \in 1 .. len :
        /\ Opens(calendar, day, i) \in Nat /\ Closes(calendar, day, i) \in Nat
        /\ Opens(calendar, day, i) < Closes(calendar, day, i)
        /\ \A j \in 1 .. len : i < j => Closes(calendar, day, i) <= Opens(calendar, day, j)
      BY SlotFacts
<1> HIDE DEF len
<1>4. ASSUME NEW i \in 1 .. len, Opens(calendar, day, i) <= t, t < Closes(calendar, day, i)
      PROVE  FALSE
  <2>1. CASE i < s
    <3>1. s # 1 /\ s - 1 \in 1 .. len /\ PlaceTime(calendar, day, s) = Closes(calendar, day, s - 1)
          BY <1>2, <2>1 DEF PlaceTime
    <3>2. CASE i = s - 1
          BY <1>0, <1>3, <1>4, <3>1, <3>2
    <3>3. CASE i # s - 1
      <4>1. i < s - 1
            BY <1>2, <2>1, <3>3
      <4>2. Closes(calendar, day, i) <= Opens(calendar, day, s - 1)
            BY <1>3, <3>1, <4>1
      <4> QED BY <1>0, <1>3, <1>4, <3>1, <4>2
    <3> QED BY <3>2, <3>3
  <2>2. CASE ~(i < s)
    <3>1. s \in 1 .. len /\ NextOpen(calendar, day, s) = Opens(calendar, day, s)
          BY <1>2, <2>2 DEF NextOpen, len
    <3>2. Opens(calendar, day, s) <= Opens(calendar, day, i)
      <4>1. CASE i = s
            BY <1>3, <4>1
      <4>2. CASE i # s
        <5>1. s < i
              BY <1>2, <2>2, <4>2
        <5>2. Closes(calendar, day, s) <= Opens(calendar, day, i)
              BY <1>3, <3>1, <5>1
        <5> QED BY <1>3, <3>1, <5>2
      <4> QED BY <4>1, <4>2
    <3> QED BY <1>3, <1>4, <3>1, <3>2
  <2> QED BY <2>1, <2>2
<1> QED BY <1>1, <1>2, <1>4 DEF Works

\* All of an interval works.
LEMMA SlotWorks ==
  ASSUME NEW calendar, Regular(calendar), NEW day \in Nat,
         NEW i \in 1 .. Len(Hours(calendar, day)), NEW t \in Nat,
         Opens(calendar, day, i) <= t, t < Closes(calendar, day, i)
  PROVE  Works(calendar, t)
<1> DEFINE d == day * Day
           e == (day + 1) * Day
<1>1. d \in Nat /\ e \in Nat
      BY TimeAssumption, Product
<1>2. /\ Opens(calendar, day, i) \in Nat /\ Closes(calendar, day, i) \in Nat
      /\ d <= Opens(calendar, day, i) /\ Closes(calendar, day, i) <= e
      BY SlotFacts
<1>3. t \div Day = day
  <2>1. d <= t /\ t < e
    <3> HIDE DEF d, e
    <3> QED BY <1>1, <1>2
  <2> QED BY <2>1, DayOf
<1>4. i \in DOMAIN Hours(calendar, day)
      BY LenIsNat
<1> QED BY <1>3, <1>4 DEF Works

-----------------------------------------------------------------------------
(* Working time.                                                           *)

\* Of two intervals that follow each other, the working times add up to that of
\* the whole.
LEMMA WorkAddsUp ==
  ASSUME NEW calendar, NEW start \in Nat, NEW middle \in Nat, NEW end \in Nat,
         start <= middle, middle <= end
  PROVE  /\ WorkingTicks(calendar, start, middle) \in Nat
         /\ WorkingTicks(calendar, middle, end) \in Nat
         /\ WorkingTicks(calendar, start, end) \in Nat
         /\ WorkingTicks(calendar, start, end) =
              WorkingTicks(calendar, start, middle) + WorkingTicks(calendar, middle, end)
<1> DEFINE A == {tick \in start .. middle - 1 : Works(calendar, tick)}
           B == {tick \in middle .. end - 1 : Works(calendar, tick)}
           C == {tick \in start .. end - 1 : Works(calendar, tick)}
<1>1. IsFiniteSet(start .. middle - 1) /\ IsFiniteSet(middle .. end - 1) /\ IsFiniteSet(start .. end - 1)
      BY FS_Interval
<1>2. IsFiniteSet(A) /\ IsFiniteSet(B) /\ IsFiniteSet(C)
  <2>1. A \in SUBSET (start .. middle - 1) /\ B \in SUBSET (middle .. end - 1) /\ C \in SUBSET (start .. end - 1)
        OBVIOUS
  <2> QED BY <1>1, <2>1, FS_Subset
<1>3. A \cup B = C /\ A \cap B = {}
      OBVIOUS
<1>4. WorkingTicks(calendar, start, middle) = Cardinality(A) /\ WorkingTicks(calendar, middle, end) = Cardinality(B)
      /\ WorkingTicks(calendar, start, end) = Cardinality(C)
      BY DEF WorkingTicks
<1> HIDE DEF A, B, C
<1>5. Cardinality(A) \in Nat /\ Cardinality(B) \in Nat /\ Cardinality(C) \in Nat
      BY <1>2, FS_CardinalityType
<1>6. Cardinality(A \cup B) = Cardinality(A) + Cardinality(B) - Cardinality({})
      BY <1>2, <1>3, FS_Union
<1>7. Cardinality({}) = 0
      BY FS_EmptySet
<1>8. Cardinality(C) = Cardinality(A) + Cardinality(B)
  <2>1. Cardinality(C) = Cardinality(A) + Cardinality(B) - Cardinality({})
        BY <1>3, <1>6
  <2> QED BY <1>5, <1>7, <2>1
<1> QED BY <1>4, <1>5, <1>8

\* All of a span works.
LEMMA AllWork ==
  ASSUME NEW calendar, NEW from \in Nat, NEW to \in Nat, from <= to,
         \A t \in Nat : from <= t /\ t < to => Works(calendar, t)
  PROVE  WorkingTicks(calendar, from, to) = to - from
<1> DEFINE last == to - 1
<1>1. {tick \in from .. to - 1 : Works(calendar, tick)} = from .. to - 1
  <2>1. \A tick \in from .. to - 1 : tick \in Nat /\ from <= tick /\ tick < to
        OBVIOUS
  <2> QED BY <2>1
<1>2. from \in Int /\ last \in Int
      OBVIOUS
<1>3. WorkingTicks(calendar, from, to) = Cardinality(from .. last)
      BY <1>1, Zenon DEF WorkingTicks
<1>4. last - from + 1 = to - from /\ (from > last => to - from = 0)
      OBVIOUS
<1> HIDE DEF last
<1>5. Cardinality(from .. last) = IF from > last THEN 0 ELSE last - from + 1
      BY <1>2, FS_Interval
<1> QED BY <1>3, <1>4, <1>5

\* Nothing of it works.
LEMMA NoWork ==
  ASSUME NEW calendar, NEW from \in Nat, NEW to \in Nat,
         \A t \in Nat : from <= t /\ t < to => ~Works(calendar, t)
  PROVE  WorkingTicks(calendar, from, to) = 0
<1>1. {tick \in from .. to - 1 : Works(calendar, tick)} = {}
  <2>1. \A tick \in from .. to - 1 : tick \in Nat /\ from <= tick /\ tick < to
        OBVIOUS
  <2> QED BY <2>1
<1> QED BY <1>1, FS_EmptySet DEF WorkingTicks

\* What the whole minutes of an interval come to.
LEMMA MinutesIn ==
  ASSUME NEW from \in Nat, NEW to \in Nat
  PROVE  LET w == WholeMinutes(from, to)
         IN  /\ w \in Nat
             /\ from < to => w * Minute <= to - from
             /\ \A n \in Nat : from < to /\ n <= w => n * Minute <= to - from
             /\ ~(from < to) => w = 0
             /\ from < to /\ from % Minute = 0 /\ to % Minute = 0 => w * Minute = to - from
<1> DEFINE w == WholeMinutes(from, to)
<1>1. Minute \in Nat \ {0}
      BY TimeAssumption
<1>2. CASE from < to
  <2> DEFINE x == to - from
  <2>1. x \in Nat /\ x = to - from
        BY <1>2
  <2>2. w = x \div Minute
        BY <1>2 DEF WholeMinutes
  <2>3. from % Minute = 0 /\ to % Minute = 0 => x % Minute = 0
    <3>1. ASSUME from % Minute = 0, to % Minute = 0 PROVE (to - from) % Minute = 0
      <4>1. from <= to
            BY <1>2
      <4> QED BY <1>1, <3>1, <4>1, Whole
    <3> QED BY <3>1
  <2> HIDE DEF x, w
  <2>4. /\ x \div Minute \in Nat /\ x % Minute \in 0..(Minute - 1)
        /\ x = (x \div Minute) * Minute + (x % Minute)
        BY <1>1, <2>1, Division
  <2>5. w \in Nat /\ w * Minute <= x
    <3> DEFINE y == (x \div Minute) * Minute
               z == x % Minute
    <3>1. x = y + z /\ z \in Nat
          BY <1>1, <2>4
    <3>2. y \in Nat /\ y = w * Minute
          BY <1>1, <2>2, <2>4
    <3> HIDE DEF y, z
    <3>3. y <= x
          BY <3>1, <3>2
    <3> QED BY <2>2, <2>4, <3>2, <3>3
  <2>6. x % Minute = 0 => x = w * Minute
        BY <1>1, <2>1, <2>2, Multiples
  <2>7. ASSUME NEW n \in Nat, n <= w PROVE n * Minute <= x
    <3>1. n * Minute <= w * Minute /\ n * Minute \in Nat /\ w * Minute \in Nat
          BY <1>1, <2>5, <2>7, Product
    <3> QED BY <2>1, <2>5, <3>1
  <2> QED BY <1>2, <2>1, <2>3, <2>5, <2>6, <2>7 DEF w
<1>3. CASE ~(from < to)
      BY <1>3 DEF WholeMinutes
<1> QED BY <1>2, <1>3

-----------------------------------------------------------------------------
(* The search for a deadline.                                              *)

LaterOf(a, b) == IF a >= b THEN a ELSE b

\* How far the search has come.
Reached(calendar, start, p) == LaterOf(start, PlaceTime(calendar, p.day, p.slot))

\* An end v of minutes that have begun at start, and what it takes on the way: with
\* w working ticks behind it, left minutes remain.
OwedLeft(start, minutes, w, left) ==
  /\ w \in Nat
  /\ w + Minute * left >= Minute * minutes
  /\ start % Minute = 0 => w + Minute * left = Minute * minutes

OnTrack(calendar, start, minutes, p) ==
  /\ p \in Places /\ p.slot \in Slots(calendar, p.day) /\ p.left \in 1 .. minutes
  /\ OwedLeft(start, minutes, WorkingTicks(calendar, start, Reached(calendar, start, p)), p.left)

GoodEnd(calendar, start, minutes, v) ==
  /\ v \in Nat /\ v >= start
  /\ OwedLeft(start, minutes, WorkingTicks(calendar, start, v), 0)

\* The working time up to where the search takes up an interval is the same.
LEMMA TakenUp ==
  ASSUME NEW calendar, Regular(calendar), calendar # AllHours, NEW start \in Nat,
         NEW p \in Places, p.slot \in 1 .. Len(Hours(calendar, p.day))
  PROVE  LET e == EffectiveStart(calendar, start, p)
             o == Opens(calendar, p.day, p.slot)
         IN  /\ e = LaterOf(start, o) /\ e \in Nat /\ start <= e /\ o <= e /\ (e = start \/ e = o)
             /\ WorkingTicks(calendar, start, e) \in Nat
             /\ WorkingTicks(calendar, start, e) = WorkingTicks(calendar, start, Reached(calendar, start, p))
<1> DEFINE e == EffectiveStart(calendar, start, p)
           o == Opens(calendar, p.day, p.slot)
           r == Reached(calendar, start, p)
           x == PlaceTime(calendar, p.day, p.slot)
<1>1. p.day \in Nat /\ Len(Hours(calendar, p.day)) \in Nat
      BY LenIsNat DEF Places
<1>2. p.slot \in Slots(calendar, p.day)
      BY <1>1 DEF Slots
<1>3. x \in Nat /\ o \in Nat /\ x <= o
  <2>1. NextOpen(calendar, p.day, p.slot) = o
        BY DEF NextOpen
  <2>2. x \in Nat /\ NextOpen(calendar, p.day, p.slot) \in Nat /\ x <= NextOpen(calendar, p.day, p.slot)
        BY <1>1, <1>2, PlaceTimeFacts
  <2> QED BY <2>1, <2>2
<1>4. e = LaterOf(start, o)
  <2>1. start \in Int /\ o \in Int
        BY <1>3
  <2> HIDE DEF o
  <2>2. Max({start, o}) = IF start >= o THEN start ELSE o
        BY <2>1, MaxIs
  <2>3. LaterOf(start, o) = IF start >= o THEN start ELSE o
        BY DEF LaterOf
  <2>4. e = Max({start, o})
        BY Zenon DEF EffectiveStart, o
  <2> QED BY <2>2, <2>3, <2>4
<1>5. r = LaterOf(start, x)
      BY DEF Reached
<1>6. \A t \in Nat : x <= t /\ t < o => ~Works(calendar, t)
  <2>1. NextOpen(calendar, p.day, p.slot) = o
        BY DEF NextOpen
  <2> QED BY <1>1, <1>2, <2>1, Rests
<1> HIDE DEF e, o, r, x
<1>7. e \in Nat /\ start <= e /\ o <= e /\ (e = start \/ e = o) /\ r \in Nat /\ start <= r /\ r <= e
      BY <1>3, <1>4, <1>5 DEF LaterOf
<1>8. WorkingTicks(calendar, r, e) = 0
  <2>1. \A t \in Nat : r <= t /\ t < e => ~Works(calendar, t)
        BY <1>3, <1>4, <1>5, <1>6, <1>7 DEF LaterOf
  <2> QED BY <1>7, <2>1, NoWork
<1>9. WorkingTicks(calendar, start, e) = WorkingTicks(calendar, start, r) /\ WorkingTicks(calendar, start, e) \in Nat
  <2>1. /\ WorkingTicks(calendar, start, r) \in Nat /\ WorkingTicks(calendar, start, e) \in Nat
        /\ WorkingTicks(calendar, start, e) = WorkingTicks(calendar, start, r) + WorkingTicks(calendar, r, e)
        BY <1>7, WorkAddsUp
  <2> QED BY <1>8, <2>1
<1> QED BY <1>4, <1>7, <1>9 DEF e, o, r

\* Minutes found are minutes worked.
LEMMA OwedOn ==
  ASSUME NEW start \in Nat, NEW minutes \in Nat, NEW w, NEW left \in Nat, OwedLeft(start, minutes, w, left),
         NEW gain \in Nat, NEW found \in Nat, found <= left, found * Minute <= gain,
         start % Minute = 0 => gain = found * Minute
  PROVE  OwedLeft(start, minutes, w + gain, left - found)
<1> DEFINE a == found * Minute
           b == (left - found) * Minute
           m == Minute * minutes
           l == Minute * left
<1>1. a \in Nat /\ b \in Nat /\ a + b = l /\ l \in Nat /\ m \in Nat /\ Minute * (left - found) = b
      BY TimeAssumption
<1>2. w \in Nat /\ w + l >= m /\ (start % Minute = 0 => w + l = m)
      BY DEF OwedLeft
<1>3. a <= gain /\ (start % Minute = 0 => gain = a)
      OBVIOUS
<1> HIDE DEF a, b, m, l
<1>4. (w + gain) + b >= m /\ (start % Minute = 0 => (w + gain) + b = m) /\ w + gain \in Nat
      BY <1>1, <1>2, <1>3
<1> QED BY <1>1, <1>4 DEF OwedLeft, m

\* Where the search ends, the deadline is good.
LEMMA Ends ==
  ASSUME NEW calendar, Regular(calendar), calendar # AllHours, NEW start \in Nat, NEW minutes \in Nat,
         NEW p, OnTrack(calendar, start, minutes, p), EndsHere(calendar, start, p)
  PROVE  GoodEnd(calendar, start, minutes, EffectiveStart(calendar, start, p) + p.left * Minute)
<1> DEFINE e == EffectiveStart(calendar, start, p)
           o == Opens(calendar, p.day, p.slot)
           c == Closes(calendar, p.day, p.slot)
           w == WorkingTicks(calendar, start, e)
           gain == p.left * Minute
           v == e + gain
<1>1. p \in Places /\ p.day \in Nat /\ Len(Hours(calendar, p.day)) \in Nat /\ p.slot \in 1 .. Len(Hours(calendar, p.day))
      /\ p.left \in 1 .. minutes
  <2>1. p \in Places /\ p.slot <= Len(Hours(calendar, p.day)) /\ p.left \in 1 .. minutes
        BY DEF OnTrack, EndsHere
  <2>2. p.day \in Nat /\ p.slot \in Nat \ {0}
        BY <2>1 DEF Places
  <2>3. Len(Hours(calendar, p.day)) \in Nat
        BY <2>2, LenIsNat
  <2> QED BY <2>1, <2>2, <2>3
<1>2. e \in Nat /\ start <= e /\ o <= e /\ w \in Nat /\ w = WorkingTicks(calendar, start, Reached(calendar, start, p))
      BY <1>1, TakenUp
<1>3. o \in Nat /\ c \in Nat /\ o < c
      BY <1>1, SlotFacts
<1>4. gain \in Nat /\ (e < c => v <= c) /\ e < c
  <2>1. WholeMinutes(e, c) >= p.left
        BY DEF EndsHere, Available
  <2> HIDE DEF e, c
  <2>2. WholeMinutes(e, c) \in Nat /\ (~(e < c) => WholeMinutes(e, c) = 0)
        BY <1>2, <1>3, MinutesIn
  <2>3. e < c
        BY <1>1, <2>1, <2>2
  <2>4. p.left \in Nat /\ p.left <= WholeMinutes(e, c)
        BY <1>1, <2>1, <2>2
  <2>5. gain <= c - e
        BY <1>2, <1>3, <2>3, <2>4, MinutesIn
  <2>6. gain \in Nat
        BY <2>4, TimeAssumption, Product
  <2> HIDE DEF gain
  <2> QED BY <1>2, <1>3, <2>3, <2>5, <2>6
<1>5. \A t \in Nat : o <= t /\ t < c => Works(calendar, t)
      BY <1>1, SlotWorks
<1>6. OwedLeft(start, minutes, w, p.left)
      BY <1>2 DEF OnTrack
<1>7. OwedLeft(start, minutes, w + gain, 0)
  <2>1. p.left \in Nat /\ p.left <= p.left /\ gain <= gain
        BY <1>1, <1>4
  <2>2. OwedLeft(start, minutes, w + gain, p.left - p.left)
    <3> HIDE DEF w, gain
    <3> QED BY <1>4, <1>6, <2>1, OwedOn DEF gain
  <2>3. p.left - p.left = 0
        BY <2>1
  <2> QED BY <2>2, <2>3
<1> HIDE DEF e, o, c, gain
<1>8. v \in Nat /\ v >= start /\ e <= v /\ v - e = gain /\ v <= c
      BY <1>2, <1>3, <1>4
<1>9. WorkingTicks(calendar, e, v) = gain
  <2>1. \A t \in Nat : e <= t /\ t < v => Works(calendar, t)
        BY <1>2, <1>3, <1>5, <1>8
  <2>2. WorkingTicks(calendar, e, v) = v - e
    <3> HIDE DEF v
    <3> QED BY <1>2, <1>8, <2>1, AllWork
  <2> QED BY <1>8, <2>2
<1>10. WorkingTicks(calendar, start, v) = w + gain
  <2> HIDE DEF v
  <2>1. WorkingTicks(calendar, start, v) = WorkingTicks(calendar, start, e) + WorkingTicks(calendar, e, v)
        BY <1>2, <1>8, WorkAddsUp
  <2> QED BY <1>9, <2>1
<1>11. GoodEnd(calendar, start, minutes, v)
      BY <1>7, <1>8, <1>10 DEF GoodEnd
<1> QED BY <1>11 DEF e, gain

\* It stays on track from one interval to the next, with fewer minutes left if it
\* has found some.
LEMMA OnwardInDay ==
  ASSUME NEW calendar, Regular(calendar), calendar # AllHours, NEW start \in Nat, NEW minutes \in Nat,
         NEW p, OnTrack(calendar, start, minutes, p), ~EndsHere(calendar, start, p),
         p.slot <= Len(Hours(calendar, p.day))
  PROVE  LET q == Onward(calendar, start, p)
         IN  /\ OnTrack(calendar, start, minutes, q)
             /\ q.day = p.day /\ q.slot = p.slot + 1 /\ q.left <= p.left
             /\ start < Opens(calendar, p.day, p.slot) => q.left < p.left
<1> DEFINE e == EffectiveStart(calendar, start, p)
           o == Opens(calendar, p.day, p.slot)
           c == Closes(calendar, p.day, p.slot)
           w == WorkingTicks(calendar, start, e)
           a == Available(calendar, start, p)
           q == Onward(calendar, start, p)
           len == Len(Hours(calendar, p.day))
           gain == IF e < c THEN c - e ELSE 0
<1>1. p \in Places /\ p.day \in Nat /\ len \in Nat /\ p.slot \in 1 .. len /\ p.left \in 1 .. minutes
  <2>1. p \in Places /\ p.left \in 1 .. minutes
        BY DEF OnTrack
  <2>2. p.day \in Nat /\ p.slot \in Nat \ {0}
        BY <2>1 DEF Places
  <2>3. len \in Nat
        BY <2>2, LenIsNat
  <2> QED BY <2>1, <2>2, <2>3
<1>2. /\ e \in Nat /\ start <= e /\ o <= e /\ (e = start \/ e = o) /\ e = LaterOf(start, o)
      /\ w \in Nat /\ w = WorkingTicks(calendar, start, Reached(calendar, start, p))
      BY <1>1, TakenUp
<1>3. o \in Nat /\ c \in Nat /\ o < c /\ o % Minute = 0 /\ c % Minute = 0
      BY <1>1, SlotFacts
<1>4. /\ a \in Nat /\ (e < c => a * Minute <= c - e) /\ (~(e < c) => a = 0)
      /\ e < c /\ e % Minute = 0 => a * Minute = c - e
  <2>1. a = WholeMinutes(e, c)
        BY DEF Available
  <2> HIDE DEF a, e, c
  <2> QED BY <1>2, <1>3, <2>1, MinutesIn
<1>5. a < p.left
  <2>1. ~(a >= p.left)
        BY DEF EndsHere
  <2> QED BY <1>1, <1>4, <2>1
<1>6. q = [p EXCEPT !.slot = p.slot + 1, !.left = p.left - a]
      BY DEF Onward
<1>7. \A t \in Nat : o <= t /\ t < c => Works(calendar, t)
      BY <1>1, SlotWorks
<1>8. OwedLeft(start, minutes, w, p.left)
      BY <1>2 DEF OnTrack
<1>9. Reached(calendar, start, q) = LaterOf(start, c)
  <2>1. q.day = p.day /\ q.slot = p.slot + 1
        BY <1>1, <1>6 DEF Places
  <2>2. p.slot + 1 # 1 /\ (p.slot + 1) - 1 = p.slot
        BY <1>1
  <2>3. PlaceTime(calendar, p.day, p.slot + 1) = c
        BY <2>2 DEF PlaceTime
  <2> HIDE DEF q, c
  <2> QED BY <2>1, <2>3 DEF Reached
<1>10. Minute \in Nat \ {0}
      BY TimeAssumption
<1> HIDE DEF e, o, c, w, a, q, len
<1>11. q \in Places /\ q.day = p.day /\ q.slot = p.slot + 1 /\ q.left = p.left - a /\ q.left \in 1 .. minutes
  <2> DEFINE n == p.slot + 1
             m == p.left - a
  <2>1. n \in Nat \ {0} /\ m \in 1 .. minutes /\ m \in Nat
        BY <1>1, <1>4, <1>5
  <2>2. q = [p EXCEPT !.slot = n, !.left = m]
        BY <1>6
  <2> HIDE DEF n, m
  <2> DEFINE u == [p EXCEPT !.slot = n]
  <2>3. u \in Places /\ u.day = p.day /\ u.slot = n /\ u.left = p.left
        BY <1>1, <2>1 DEF Places
  <2>4. q = [u EXCEPT !.left = m]
        BY <2>2 DEF u
  <2> HIDE DEF u
  <2>5. q \in Places /\ q.day = u.day /\ q.slot = u.slot /\ q.left = m
        BY <2>1, <2>3, <2>4 DEF Places
  <2> QED BY <2>1, <2>3, <2>5 DEF n, m
<1>12. gain \in Nat /\ a * Minute <= gain /\ (start % Minute = 0 => gain = a * Minute)
  <2>1. start % Minute = 0 => e % Minute = 0
        BY <1>2, <1>3
  <2>2. a = 0 => a * Minute = 0
        BY <1>10
  <2> QED BY <1>2, <1>3, <1>4, <2>1, <2>2
<1>13. WorkingTicks(calendar, start, LaterOf(start, c)) = w + gain
  <2>1. CASE e < c
    <3>1. LaterOf(start, c) = c /\ e <= c /\ gain = c - e
          BY <1>2, <1>3, <2>1 DEF LaterOf
    <3>2. WorkingTicks(calendar, e, c) = c - e
      <4>1. \A t \in Nat : e <= t /\ t < c => Works(calendar, t)
            BY <1>2, <1>3, <1>7
      <4> QED BY <1>2, <1>3, <3>1, <4>1, AllWork
    <3>3. WorkingTicks(calendar, start, c) = WorkingTicks(calendar, start, e) + WorkingTicks(calendar, e, c)
          BY <1>2, <1>3, <3>1, WorkAddsUp
    <3> QED BY <3>1, <3>2, <3>3 DEF w
  <2>2. CASE ~(e < c)
    <3>1. e = start /\ LaterOf(start, c) = start /\ gain = 0
          BY <1>2, <1>3, <2>2 DEF LaterOf
    <3>2. w + gain = w
          BY <1>2, <3>1
    <3> QED BY <3>1, <3>2 DEF w
  <2> QED BY <2>1, <2>2
<1>14. OwedLeft(start, minutes, w + gain, p.left - a)
  <2> HIDE DEF gain
  <2>1. p.left \in Nat /\ a <= p.left
        BY <1>1, <1>4, <1>5
  <2> QED BY <1>4, <1>8, <1>12, <2>1, OwedOn
<1>15. q.slot \in Slots(calendar, q.day)
      BY <1>1, <1>11 DEF Slots, len
<1>16. OnTrack(calendar, start, minutes, q)
      BY <1>9, <1>11, <1>13, <1>14, <1>15 DEF OnTrack
<1>17. ASSUME start < o PROVE a > 0
  <2>1. e = o /\ e < c /\ e % Minute = 0
        BY <1>2, <1>3, <1>17
  <2>2. a * Minute = c - e /\ c - e > 0
        BY <1>2, <1>3, <1>4, <2>1
  <2>3. a # 0
    <3> SUFFICES ASSUME a = 0 PROVE FALSE
        OBVIOUS
    <3>1. a * Minute = 0
          BY <1>10
    <3> QED BY <2>2, <3>1
  <2> QED BY <1>4, <2>3
<1>18. q.left <= p.left /\ (start < o => q.left < p.left)
      BY <1>1, <1>4, <1>11, <1>17
<1> QED BY <1>11, <1>16, <1>18 DEF q, o

\* It stays on track from one day to the next.
LEMMA OnwardToMorrow ==
  ASSUME NEW calendar, Regular(calendar), calendar # AllHours, NEW start \in Nat, NEW minutes \in Nat,
         NEW p, OnTrack(calendar, start, minutes, p), ~EndsHere(calendar, start, p),
         ~(p.slot <= Len(Hours(calendar, p.day)))
  PROVE  LET q == Onward(calendar, start, p)
         IN  /\ OnTrack(calendar, start, minutes, q)
             /\ q.day = p.day + 1 /\ q.slot = 1 /\ q.left = p.left
<1> DEFINE x == PlaceTime(calendar, p.day, p.slot)
           d == (p.day + 1) * Day
           r == LaterOf(start, x)
           s == LaterOf(start, d)
           q == Onward(calendar, start, p)
           w == WorkingTicks(calendar, start, r)
<1>1. p \in Places /\ p.day \in Nat /\ p.slot \in Slots(calendar, p.day) /\ p.left \in 1 .. minutes
      BY DEF OnTrack, Places
<1>2. x \in Nat /\ d \in Nat /\ x <= d /\ \A t \in Nat : x <= t /\ t < d => ~Works(calendar, t)
  <2>1. NextOpen(calendar, p.day, p.slot) = d
        BY DEF NextOpen
  <2>2. x \in Nat /\ NextOpen(calendar, p.day, p.slot) \in Nat /\ x <= NextOpen(calendar, p.day, p.slot)
        BY <1>1, PlaceTimeFacts
  <2>3. \A t \in Nat : x <= t /\ t < d => ~Works(calendar, t)
        BY <1>1, <2>1, Rests
  <2> QED BY <2>1, <2>2, <2>3
<1>3. q = [p EXCEPT !.slot = 1, !.day = p.day + 1]
      BY DEF Onward
<1>4. q \in Places /\ q.day = p.day + 1 /\ q.slot = 1 /\ q.left = p.left
  <2> DEFINE m == p.day + 1
             n == 1
  <2>1. n \in Nat \ {0} /\ m \in Nat
        BY <1>1
  <2>2. q = [p EXCEPT !.slot = n, !.day = m]
        BY <1>3
  <2> HIDE DEF n, m, q
  <2> DEFINE u == [p EXCEPT !.slot = n]
  <2>3. u \in Places /\ u.day = p.day /\ u.slot = n /\ u.left = p.left
        BY <1>1, <2>1 DEF Places
  <2>4. q = [u EXCEPT !.day = m]
        BY <2>2 DEF u
  <2> HIDE DEF u
  <2>5. q \in Places /\ q.left = u.left /\ q.slot = u.slot /\ q.day = m
        BY <2>1, <2>3, <2>4 DEF Places
  <2> QED BY <2>3, <2>5 DEF n, m
<1>5. q.slot \in Slots(calendar, q.day)
  <2>1. Len(Hours(calendar, q.day)) \in Nat
        BY <1>1, <1>4, LenIsNat
  <2> QED BY <1>4, <2>1 DEF Slots
<1>6. Reached(calendar, start, q) = s /\ Reached(calendar, start, p) = r
  <2>1. PlaceTime(calendar, q.day, q.slot) = d
        BY <1>4 DEF PlaceTime
  <2> HIDE DEF d
  <2> QED BY <2>1 DEF Reached
<1> HIDE DEF q, d, x
<1>7. r \in Nat /\ s \in Nat /\ start <= r /\ r <= s /\ \A t \in Nat : r <= t /\ t < s => ~Works(calendar, t)
      BY <1>2 DEF LaterOf
<1> HIDE DEF r, s
<1>8. WorkingTicks(calendar, start, s) = w
  <2>1. WorkingTicks(calendar, r, s) = 0
        BY <1>7, NoWork
  <2>2. /\ w \in Nat
        /\ WorkingTicks(calendar, start, s) = w + WorkingTicks(calendar, r, s)
        BY <1>7, WorkAddsUp
  <2> QED BY <2>1, <2>2
<1>9. OwedLeft(start, minutes, w, p.left)
      BY <1>6 DEF OnTrack
<1>10. OnTrack(calendar, start, minutes, q)
      BY <1>1, <1>4, <1>5, <1>6, <1>8, <1>9 DEF OnTrack
<1> QED BY <1>4, <1>10 DEF q

\* On a regular calendar a working day follows every day.
LEMMA WorkingDay ==
  ASSUME NEW calendar, Regular(calendar), NEW day \in Nat
  PROVE  \E t \in Nat : day < t /\ Len(Hours(calendar, t)) # 0
<1>1. PICK k \in 0..6 : calendar.weekly[k] # <<>>
      BY DEF Regular
<1> DEFINE S == DOMAIN calendar.exceptions
           at(n) == 7 * (n + day + 1) + k
<1>2. IsFiniteSet(S)
      BY DEF Regular
<1>3. \A n \in Nat : at(n) \in Nat /\ day < at(n) /\ at(n) % 7 = k
      OBVIOUS
<1>4. Cardinality(S) \in Nat
      BY <1>2, FS_CardinalityType
<1>5. \E n \in Nat : at(n) \notin S
  <2> SUFFICES ASSUME \A n \in Nat : at(n) \in S PROVE FALSE
      OBVIOUS
  <2> DEFINE c == Cardinality(S)
             f == [n \in 0..c |-> at(n)]
  <2>1. f \in [0..c -> S] /\ c \in Nat
        BY <1>4
  <2>2. IsFiniteSet(0..c) /\ Cardinality(0..c) = c + 1
    <3> HIDE DEF c
    <3>1. 0 \in Int /\ c \in Int /\ ~(0 > c) /\ c - 0 + 1 = c + 1
          BY <2>1
    <3>2. IsFiniteSet(0..c) /\ Cardinality(0..c) = IF 0 > c THEN 0 ELSE c - 0 + 1
          BY <3>1, FS_Interval
    <3> QED BY <3>1, <3>2
  <2>3. c < Cardinality(0..c)
        BY <2>1, <2>2
  <2>4. \E i, j \in 0..c : i # j /\ f[i] = f[j]
    <3> HIDE DEF f, S
    <3> QED BY <1>2, <2>1, <2>2, <2>3, FS_PigeonHole
  <2> QED BY <2>1, <2>4
<1>6. PICK n \in Nat : at(n) \notin S
      BY <1>5
<1> DEFINE t == at(n)
<1>7. t \in Nat /\ day < t /\ t % 7 = k /\ t \notin S
      BY <1>3, <1>6
<1> HIDE DEF at, S, t
<1>8. Hours(calendar, t) = calendar.weekly[k]
      BY <1>7 DEF Hours, S
<1>9. Len(Hours(calendar, t)) # 0
  <2>1. Hours(calendar, t) \in Seq(Nat \X Nat)
        BY <1>7, HoursValid DEF IntervalsValid
  <2> QED BY <1>1, <1>8, <2>1, EmptySeq, LenProperties
<1> QED BY <1>7, <1>9

\* f is the search for an end, as AddBusinessMinutes defines it.
Searches(calendar, start, f) ==
  f = [p \in Places |->
         IF EndsHere(calendar, start, p) THEN EffectiveStart(calendar, start, p) + p.left * Minute
         ELSE f[Onward(calendar, start, p)]]

\* A place that is reached by the search and from which it does not lead to an end.
Astray(calendar, start, minutes, f) ==
  {p \in Places : /\ OnTrack(calendar, start, minutes, p) /\ start \div Day <= p.day
                  /\ ~GoodEnd(calendar, start, minutes, f[p])}

\* From a place from which no end is reached the search goes on to another.
LEMMA AstrayOn ==
  ASSUME NEW calendar, Regular(calendar), calendar # AllHours, NEW start \in Nat, NEW minutes \in Nat,
         NEW f, Searches(calendar, start, f), NEW p \in Astray(calendar, start, minutes, f)
  PROVE  LET q == Onward(calendar, start, p)
             len == Len(Hours(calendar, p.day))
         IN  /\ q \in Astray(calendar, start, minutes, f)
             /\ p.day \in Nat /\ p.slot \in 1 .. len + 1 /\ len \in Nat /\ p.left \in Nat
             /\ p.slot <= len => /\ q.day = p.day /\ q.slot = p.slot + 1 /\ q.left <= p.left
                                 /\ start < Opens(calendar, p.day, p.slot) => q.left < p.left
             /\ ~(p.slot <= len) => q.day = p.day + 1 /\ q.slot = 1 /\ q.left = p.left
<1> DEFINE q == Onward(calendar, start, p)
           len == Len(Hours(calendar, p.day))
           g(r) == IF EndsHere(calendar, start, r) THEN EffectiveStart(calendar, start, r) + r.left * Minute
                   ELSE f[Onward(calendar, start, r)]
<1>1. /\ p \in Places /\ OnTrack(calendar, start, minutes, p) /\ start \div Day <= p.day
      /\ ~GoodEnd(calendar, start, minutes, f[p])
      BY DEF Astray
<1>2. p.day \in Nat /\ p.slot \in 1 .. len + 1 /\ len \in Nat /\ p.left \in Nat
  <2>1. p.day \in Nat /\ p.left \in Nat
        BY <1>1 DEF Places
  <2>2. p.slot \in 1 .. len + 1
        BY <1>1 DEF OnTrack, Slots
  <2>3. len \in Nat
        BY <2>1, LenIsNat
  <2> QED BY <2>1, <2>2, <2>3
<1>3. f[p] = g(p)
  <2>1. f = [r \in Places |-> g(r)]
        BY DEF Searches
  <2> HIDE DEF g
  <2> QED BY <1>1, <2>1
<1>4. ~EndsHere(calendar, start, p)
      BY <1>1, <1>3, Ends
<1>5. f[p] = f[q]
      BY <1>3, <1>4
<1>6. /\ OnTrack(calendar, start, minutes, q) /\ p.day <= q.day
      /\ p.slot <= len => /\ q.day = p.day /\ q.slot = p.slot + 1 /\ q.left <= p.left
                          /\ start < Opens(calendar, p.day, p.slot) => q.left < p.left
      /\ ~(p.slot <= len) => q.day = p.day + 1 /\ q.slot = 1 /\ q.left = p.left
  <2>1. CASE p.slot <= len
    <3>1. /\ OnTrack(calendar, start, minutes, q) /\ q.day = p.day /\ q.slot = p.slot + 1 /\ q.left <= p.left
          /\ start < Opens(calendar, p.day, p.slot) => q.left < p.left
          BY <1>1, <1>4, <2>1, OnwardInDay
    <3> HIDE DEF q, len
    <3> QED BY <1>2, <2>1, <3>1
  <2>2. CASE ~(p.slot <= len)
    <3>1. OnTrack(calendar, start, minutes, q) /\ q.day = p.day + 1 /\ q.slot = 1 /\ q.left = p.left
          BY <1>1, <1>4, <2>2, OnwardToMorrow
    <3> HIDE DEF q, len
    <3> QED BY <1>2, <2>2, <3>1
  <2> QED BY <2>1, <2>2
<1> HIDE DEF q
<1>7. q \in Astray(calendar, start, minutes, f)
  <2>1. q \in Places /\ q.day \in Nat
        BY <1>6 DEF OnTrack, Places
  <2>2. start \div Day \in Nat
        BY TimeAssumption, Division
  <2> DEFINE b == start \div Day
  <2>3. b \in Nat /\ b <= p.day
        BY <1>1, <2>2
  <2> HIDE DEF b
  <2>4. b <= q.day
        BY <1>2, <1>6, <2>1, <2>3
  <2> QED BY <1>1, <1>5, <1>6, <2>1, <2>4 DEF Astray, b
<1> QED BY <1>2, <1>6, <1>7 DEF q

\* No search goes astray: it would come to the first interval of a working day with
\* the same minutes left, and find some there.
LEMMA NoneAstray ==
  ASSUME NEW calendar, Regular(calendar), calendar # AllHours, NEW start \in Nat, NEW minutes \in Nat,
         NEW f, Searches(calendar, start, f)
  PROVE  Astray(calendar, start, minutes, f) = {}
<1> DEFINE B == Astray(calendar, start, minutes, f)
           on(p) == Onward(calendar, start, p)
           len(p) == Len(Hours(calendar, p.day))
           o(p) == Opens(calendar, p.day, p.slot)
           Lefts == {n \in Nat : \E p \in B : p.left = n}
<1>1. \A p \in B : /\ on(p) \in B
                   /\ p.day \in Nat /\ p.slot \in 1 .. len(p) + 1 /\ len(p) \in Nat /\ p.left \in Nat
                   /\ p.slot <= len(p) => /\ on(p).day = p.day /\ on(p).slot = p.slot + 1 /\ on(p).left <= p.left
                                          /\ start < o(p) => on(p).left < p.left
                   /\ ~(p.slot <= len(p)) => on(p).day = p.day + 1 /\ on(p).slot = 1 /\ on(p).left = p.left
  <2> SUFFICES ASSUME NEW p \in B
               PROVE  /\ on(p) \in B
                      /\ p.day \in Nat /\ p.slot \in 1 .. len(p) + 1 /\ len(p) \in Nat /\ p.left \in Nat
                      /\ p.slot <= len(p) => /\ on(p).day = p.day /\ on(p).slot = p.slot + 1 /\ on(p).left <= p.left
                                             /\ start < o(p) => on(p).left < p.left
                      /\ ~(p.slot <= len(p)) => on(p).day = p.day + 1 /\ on(p).slot = 1 /\ on(p).left = p.left
      OBVIOUS
  <2> QED BY AstrayOn
<1>2. \A p \in B : start \div Day <= p.day
      BY DEF Astray
<1>3. \A p, q \in B : p.day = q.day => len(p) = len(q)
      OBVIOUS
<1> SUFFICES ASSUME B # {} PROVE FALSE
    OBVIOUS
<1> HIDE DEF B, on, len, o
<1>4. PICK least \in Lefts : \A n \in Lefts : least <= n
  <2>1. Lefts \in SUBSET Nat /\ Lefts # {}
        BY <1>1
  <2> QED BY <2>1, Least
<1> DEFINE C == {p \in B : p.left = least}
<1>5. C # {} /\ least \in Nat
      BY <1>4
<1>6. \A p \in C : /\ on(p) \in C
                   /\ p.slot <= len(p) => ~(start < o(p))
  <2> SUFFICES ASSUME NEW p \in C PROVE on(p) \in C /\ (p.slot <= len(p) => ~(start < o(p)))
      OBVIOUS
  <2>1. p \in B /\ on(p) \in B /\ p.left = least /\ p.slot \in Int /\ len(p) \in Int
        BY <1>1
  <2>2. on(p).left \in Nat /\ on(p).left \in Lefts
        BY <1>1, <2>1
  <2>3. least <= on(p).left
        BY <1>4, <2>2
  <2>4. CASE p.slot <= len(p)
    <3>1. on(p).left <= p.left /\ (start < o(p) => on(p).left < p.left)
          BY <1>1, <2>1, <2>4
    <3>2. on(p).left = least
          BY <1>5, <2>1, <2>2, <2>3, <3>1
    <3>3. ~(start < o(p))
          BY <1>5, <2>1, <2>2, <2>3, <3>1
    <3> QED BY <2>1, <3>2, <3>3
  <2>5. CASE ~(p.slot <= len(p))
        BY <1>1, <2>1, <2>5
  <2> QED BY <2>4, <2>5
<1>7. \A p \in C : p \in B
      OBVIOUS
<1> HIDE DEF C
\* It comes to the end of the day, and on to the next day.
<1>8. ASSUME NEW p \in C PROVE \E q \in C : q.day = p.day + 1 /\ q.slot = 1
  <2> DEFINE Rest == {n \in Nat : \E q \in C : q.day = p.day /\ len(p) + 1 - q.slot = n}
  <2>1. Rest # {}
    <3>1. len(p) \in Nat /\ p.slot \in 1 .. len(p) + 1
          BY <1>1, <1>7
    <3>2. len(p) + 1 - p.slot \in Nat
          BY <3>1
    <3> QED BY <3>2
  <2>2. Rest \in SUBSET Nat
        OBVIOUS
  <2>3. PICK n \in Rest : \A m \in Rest : n <= m
        BY <2>1, <2>2, Least
  <2>4. PICK q \in C : q.day = p.day /\ len(p) + 1 - q.slot = n
        BY <2>3
  <2>5. len(q) = len(p) /\ len(p) \in Nat /\ q.slot \in 1 .. len(p) + 1
        BY <1>1, <1>3, <1>7, <2>4
  <2>6. ~(q.slot <= len(q))
    <3> SUFFICES ASSUME q.slot <= len(q) PROVE FALSE
        OBVIOUS
    <3>1. on(q) \in C /\ on(q).day = p.day /\ on(q).slot = q.slot + 1
          BY <1>1, <1>6, <1>7, <2>4
    <3>2. len(p) + 1 - on(q).slot = n - 1 /\ n - 1 \in Nat
          BY <2>4, <2>5, <3>1
    <3>3. n - 1 \in Rest
          BY <3>1, <3>2
    <3> QED BY <2>2, <2>3, <3>3
  <2>7. on(q) \in C /\ on(q).day = p.day + 1 /\ on(q).slot = 1
        BY <1>1, <1>6, <1>7, <2>4, <2>6
  <2> QED BY <2>7
<1>9. PICK p0 \in C : TRUE
      BY <1>5
<1>10. p0.day \in Nat
      BY <1>1, <1>7
<1>11. PICK t \in Nat : p0.day < t /\ Len(Hours(calendar, t)) # 0
      BY <1>10, WorkingDay
\* Day by day it comes to the day before t.
<1>12. \E q \in C : q.day = t - 1
  <2> DEFINE Rest == {n \in Nat : \E q \in C : q.day < t /\ t - 1 - q.day = n}
  <2>1. Rest # {}
    <3>1. t - 1 - p0.day \in Nat
          BY <1>10, <1>11
    <3> QED BY <1>11, <3>1
  <2>2. Rest \in SUBSET Nat
        OBVIOUS
  <2>3. PICK n \in Rest : \A m \in Rest : n <= m
        BY <2>1, <2>2, Least
  <2>4. PICK q \in C : q.day < t /\ t - 1 - q.day = n
        BY <2>3
  <2>5. q.day \in Nat
        BY <1>1, <1>7
  <2>6. n = 0
    <3> SUFFICES ASSUME n # 0 PROVE FALSE
        OBVIOUS
    <3>1. PICK r \in C : r.day = q.day + 1
          BY <1>8
    <3>2. r.day < t /\ t - 1 - r.day = n - 1 /\ n - 1 \in Nat
          BY <2>2, <2>3, <2>4, <2>5, <3>1
    <3>3. n - 1 \in Rest
          BY <3>2
    <3> QED BY <2>2, <2>3, <3>3
  <2> QED BY <2>4, <2>5, <2>6
<1>13. PICK p1 \in C : p1.day = t - 1
      BY <1>12
<1>14. PICK q \in C : q.day = t /\ q.slot = 1
  <2>1. (t - 1) + 1 = t
        OBVIOUS
  <2> QED BY <1>8, <1>13, <2>1
<1>15. len(q) \in Nat /\ len(q) # 0
  <2>1. len(q) = Len(Hours(calendar, t))
        BY <1>14 DEF len
  <2> QED BY <1>1, <1>7, <1>11, <2>1
<1>16. start < o(q)
  <2> DEFINE b == start \div Day
             e == (b + 1) * Day
             d == t * Day
  <2>1. b \in Nat /\ b <= p0.day
        BY <1>2, <1>7, TimeAssumption, Division
  <2>2. start < e
    <3> DEFINE a == b * Day
               z == start % Day
    <3>1. a \in Nat /\ e = a + Day
          BY <2>1, TimeAssumption, Product
    <3>2. start = a + z /\ z \in 0..(Day - 1)
          BY TimeAssumption, Division
    <3> HIDE DEF a, z, e
    <3> QED BY <3>1, <3>2, TimeAssumption
  <2> HIDE DEF b
  <2>3. b + 1 <= t
        BY <1>10, <1>11, <2>1
  <2>4. e <= d /\ e \in Nat /\ d \in Nat
        BY <2>1, <2>3, TimeAssumption, Product
  <2>5. d <= o(q) /\ o(q) \in Nat
    <3>1. 1 \in 1 .. Len(Hours(calendar, t))
          BY <1>14, <1>15 DEF len
    <3> QED BY <1>14, <3>1, SlotFacts DEF o
  <2> HIDE DEF e, d
  <2> QED BY <2>2, <2>4, <2>5
<1>17. q.slot <= len(q)
      BY <1>14, <1>15
<1> QED BY <1>6, <1>14, <1>16, <1>17

\* The search goes from place to place.
LEMMA OnwardIsPlace ==
  ASSUME NEW calendar, Regular(calendar), calendar # AllHours, NEW start \in Nat, NEW p \in Places,
         ~EndsHere(calendar, start, p)
  PROVE  Onward(calendar, start, p) \in Places
<1> DEFINE a == Available(calendar, start, p)
           len == Len(Hours(calendar, p.day))
<1>1. p.day \in Nat /\ p.slot \in Nat \ {0} /\ p.left \in Nat
      BY DEF Places
<1>2. CASE p.slot <= len
  <2>1. len \in Nat /\ p.slot \in 1 .. len
    <3>1. len \in Nat
          BY <1>1, LenIsNat
    <3> HIDE DEF len
    <3> QED BY <1>1, <1>2, <3>1
  <2>2. EffectiveStart(calendar, start, p) \in Nat
        BY <2>1, TakenUp
  <2>3. Closes(calendar, p.day, p.slot) \in Nat
        BY <1>1, <2>1, SlotFacts
  <2>4. a \in Nat
        BY <2>2, <2>3, MinutesIn DEF Available
  <2>5. ~(a >= p.left)
        BY <1>2 DEF EndsHere
  <2> DEFINE n == p.slot + 1
             m == p.left - a
  <2>6. Onward(calendar, start, p) = [p EXCEPT !.slot = n, !.left = m]
        BY <1>2 DEF Onward
  <2> HIDE DEF a
  <2>7. n \in Nat \ {0} /\ m \in Nat
        BY <1>1, <2>4, <2>5
  <2> HIDE DEF n, m
  <2> QED BY <2>6, <2>7 DEF Places
<1>3. CASE ~(p.slot <= len)
  <2> DEFINE m == p.day + 1
  <2>1. Onward(calendar, start, p) = [p EXCEPT !.slot = 1, !.day = m]
        BY <1>3 DEF Onward
  <2>2. m \in Nat /\ 1 \in Nat \ {0}
        BY <1>1
  <2> HIDE DEF m
  <2> QED BY <2>1, <2>2 DEF Places
<1> QED BY <1>2, <1>3

\* The recursion of AddBusinessMinutes defines a function.
LEMMA SearchExists ==
  ASSUME NEW calendar, Regular(calendar), calendar # AllHours, NEW start \in Nat
  PROVE  \E f : Searches(calendar, start, f)
<1> DEFINE ends(p) == EndsHere(calendar, start, p)
           on(p) == Onward(calendar, start, p)
           value(p) == EffectiveStart(calendar, start, p) + p.left * Minute
           E == {p \in Places : ends(p)}
           N == [p \in Places |-> IF ends(p) THEN p ELSE on(p)]
           V == [p \in Places |-> value(p)]
<1>1. \A p \in Places : ~ends(p) => on(p) \in Places
      BY OnwardIsPlace
<1> HIDE DEF ends, on, value
<1>2. N \in [Places -> Places] /\ E \in SUBSET Places
  <2> HIDE DEF Places
  <2> QED BY <1>1
<1>3. \A p \in Places : /\ p \in E => ends(p)
                        /\ ends(p) => p \in E
                        /\ V[p] = value(p)
                        /\ ~ends(p) => N[p] = on(p)
      OBVIOUS
<1> HIDE DEF E, N, V, Places
<1>4. PICK f : Recurs(f, Places, N, E, V)
      BY <1>2, TailRecursion
<1> DEFINE a(p) == IF p \in E THEN V[p] ELSE f[N[p]]
           b(p) == IF ends(p) THEN value(p) ELSE f[on(p)]
<1>5. \A p \in Places : a(p) = b(p)
      BY <1>3
<1>6. f = [p \in Places |-> b(p)]
  <2>1. f = [p \in Places |-> a(p)]
        BY <1>4 DEF Recurs
  <2> HIDE DEF a, b
  <2> QED BY <1>5, <2>1
<1> QED BY <1>6 DEF Searches, ends, on, value

\* The deadline grants the minutes.
LEMMA GrantsRegular ==
  ASSUME NEW calendar, Regular(calendar), calendar # AllHours, NEW start \in Nat, NEW minutes \in Nat
  PROVE  Grants(calendar, start, minutes)
<1> DEFINE end == AddBusinessMinutes(calendar, start, minutes)
           p == [day |-> start \div Day, slot |-> 1, left |-> minutes]
           f == CHOOSE g : Searches(calendar, start, g)
<1>1. Minute \in Nat \ {0} /\ Day \in Nat \ {0} /\ Minute * 0 = 0 /\ Minute * minutes \in Nat
      BY TimeAssumption
<1>2. WorkingTicks(calendar, start, start) = 0
      BY NoWork
<1>3. GoodEnd(calendar, start, minutes, end)
  <2>1. CASE minutes = 0
    <3>1. end = start
          BY <2>1 DEF AddBusinessMinutes
    <3> HIDE DEF end
    <3>2. OwedLeft(start, minutes, 0, 0)
          BY <1>1, <2>1 DEF OwedLeft
    <3> QED BY <1>2, <3>1, <3>2 DEF GoodEnd
  <2>2. CASE minutes # 0
    <3>1. Searches(calendar, start, f)
          BY SearchExists
    <3>2. end = f[p]
          BY <2>2 DEF AddBusinessMinutes, Searches
    <3>3. start \div Day \in Nat /\ (start \div Day) * Day <= start /\ (start \div Day) * Day \in Nat
      <4> DEFINE b == start \div Day
                 y == b * Day
                 z == start % Day
      <4>1. b \in Nat /\ y \in Nat /\ start = y + z /\ z \in Nat
        <5>1. b \in Nat /\ z \in 0..(Day - 1) /\ start = b * Day + z
              BY <1>1, Division
        <5> HIDE DEF b, z
        <5>2. y \in Nat
              BY <1>1, <5>1, Product
        <5> QED BY <1>1, <5>1, <5>2
      <4> HIDE DEF y, z
      <4>2. y <= start
            BY <4>1
      <4> QED BY <4>1, <4>2 DEF y
    <3>4. p \in Places /\ p.day = start \div Day /\ p.slot = 1 /\ p.left = minutes
          BY <2>2, <3>3 DEF Places
    <3> HIDE DEF p, f, end
    <3>5. p.slot \in Slots(calendar, p.day)
      <4>1. Len(Hours(calendar, p.day)) \in Nat
            BY <3>3, <3>4, LenIsNat
      <4> QED BY <3>4, <4>1 DEF Slots
    <3>6. Reached(calendar, start, p) = start
      <4>1. PlaceTime(calendar, p.day, p.slot) = (start \div Day) * Day
            BY <3>4 DEF PlaceTime
      <4> DEFINE y == (start \div Day) * Day
      <4>2. y \in Nat /\ y <= start
            BY <3>3
      <4>3. Reached(calendar, start, p) = LaterOf(start, y)
            BY <4>1 DEF Reached
      <4> HIDE DEF y
      <4> QED BY <4>2, <4>3 DEF LaterOf
    <3>7. OwedLeft(start, minutes, 0, minutes)
          BY <1>1 DEF OwedLeft
    <3>8. OnTrack(calendar, start, minutes, p)
          BY <1>2, <2>2, <3>4, <3>5, <3>6, <3>7 DEF OnTrack
    <3>9. start \div Day <= p.day
      <4> DEFINE b == start \div Day
      <4>1. b \in Nat /\ p.day = b
            BY <3>3, <3>4
      <4> HIDE DEF b
      <4>2. b <= p.day
            BY <4>1
      <4> QED BY <4>2 DEF b
    <3>10. p \notin Astray(calendar, start, minutes, f)
          BY <3>1, NoneAstray
    <3> QED BY <3>2, <3>4, <3>8, <3>9, <3>10 DEF Astray
  <2> QED BY <2>1, <2>2
<1> DEFINE w == WorkingTicks(calendar, start, end)
<1>4. end \in Nat /\ end >= start /\ OwedLeft(start, minutes, w, 0)
      BY <1>3 DEF GoodEnd
<1> HIDE DEF end, w
<1>5. w >= Minute * minutes /\ (start % Minute = 0 => w = Minute * minutes)
  <2> DEFINE m == Minute * minutes
  <2>1. w \in Nat /\ w + Minute * 0 >= m /\ (start % Minute = 0 => w + Minute * 0 = m) /\ m \in Nat
        BY <1>1, <1>4 DEF OwedLeft
  <2> HIDE DEF m
  <2>2. w >= m /\ (start % Minute = 0 => w = m)
        BY <1>1, <2>1
  <2> QED BY <2>2 DEF m
<1> QED BY <1>4, <1>5 DEF Grants, end, w

-----------------------------------------------------------------------------
(* What is measured between two instants.                                  *)

\* If the elements of S measure disjoint sets T, their sum measures the union.
LEMMA SumMeasures ==
  ASSUME NEW S, IsFiniteSet(S), NEW w \in [S -> Nat], NEW h, Sums(h, S, w), NEW T, NEW exact \in BOOLEAN,
         \A x \in S : /\ IsFiniteSet(T[x]) /\ Minute * w[x] <= Cardinality(T[x])
                      /\ exact => Minute * w[x] = Cardinality(T[x]),
         \A x, y \in S : x # y => T[x] \cap T[y] = {}
  PROVE  LET U == UNION {T[x] : x \in S}
         IN  /\ h[S] \in Nat /\ IsFiniteSet(U) /\ Minute * h[S] <= Cardinality(U)
             /\ exact => Minute * h[S] = Cardinality(U)
<1> DEFINE c(s) == CHOOSE x \in s : TRUE
           U(s) == UNION {T[x] : x \in s}
           Fits(n, k) == n \in Nat /\ k \in Nat /\ Minute * n <= k /\ (exact => Minute * n = k)
           Ok(s) == IsFiniteSet(U(s)) /\ Fits(h[s], Cardinality(U(s)))
           Bad == {s \in SUBSET S : ~Ok(s)}
           Sizes == {n \in Nat : \E s \in Bad : Cardinality(s) = n}
<1>1. \A s \in SUBSET S : s # {} =>
        c(s) \in S /\ c(s) \in s /\ s \ {c(s)} \in SUBSET S /\ Cardinality(s) \in Nat /\ Cardinality(s) # 0
        /\ Cardinality(s \ {c(s)}) = Cardinality(s) - 1
      BY Picked
<1>2. \A s \in SUBSET S : h[s] = IF s = {} THEN 0 ELSE w[c(s)] + h[s \ {c(s)}]
  <2>1. h = [s \in SUBSET S |-> IF s = {} THEN 0 ELSE w[c(s)] + h[s \ {c(s)}]]
        BY DEF Sums
  <2> HIDE DEF c
  <2> DEFINE b(s) == IF s = {} THEN 0 ELSE w[c(s)] + h[s \ {c(s)}]
  <2>2. h = [s \in SUBSET S |-> b(s)]
        BY <2>1
  <2> HIDE DEF b
  <2>3. \A s \in SUBSET S : h[s] = b(s)
        BY <2>2
  <2> QED BY <2>3 DEF b
<1>20. \A x \in S : IsFiniteSet(T[x]) /\ Fits(w[x], Cardinality(T[x]))
  <2> SUFFICES ASSUME NEW x \in S PROVE IsFiniteSet(T[x]) /\ Fits(w[x], Cardinality(T[x]))
      OBVIOUS
  <2>1. IsFiniteSet(T[x])
        OBVIOUS
  <2>2. Cardinality(T[x]) \in Nat
        BY <2>1, FS_CardinalityType
  <2>3. w[x] \in Nat
        OBVIOUS
  <2> QED BY <2>1, <2>2, <2>3
<1> HIDE DEF c
<1>3. Ok({})
  <2>1. U({}) = {}
        OBVIOUS
  <2>2. h[{}] = 0
        BY <1>2
  <2>3. Minute * 0 = 0
        BY TimeAssumption
  <2>4. IsFiniteSet({}) /\ Cardinality({}) = 0
        BY FS_EmptySet
  <2> HIDE DEF U
  <2> QED BY <2>1, <2>2, <2>3, <2>4
<1>4. ASSUME NEW s \in SUBSET S, s # {}, Ok(s \ {c(s)}) PROVE Ok(s)
  <2> DEFINE x == c(s)
             r == s \ {x}
             n == h[r]
             k == Cardinality(U(r))
             m == w[x]
             l == Cardinality(T[x])
  <2>1. x \in S /\ x \in s /\ r \in SUBSET S
        BY <1>1, <1>4
  <2>2. h[s] = m + n
        BY <1>2, <1>4
  <2>3. U(s) = T[x] \cup U(r) /\ T[x] \cap U(r) = {}
    <3> HIDE DEF x
    <3> QED BY <2>1
  <2>4. IsFiniteSet(U(r)) /\ Fits(n, k) /\ IsFiniteSet(T[x]) /\ Fits(m, l)
        BY <1>4, <1>20, <2>1
  <2> HIDE DEF x, r, U, Fits
  <2>5. IsFiniteSet(U(s)) /\ Cardinality(U(s)) = l + k - Cardinality({})
    <3>1. IsFiniteSet(T[x] \cup U(r)) /\ Cardinality(T[x] \cup U(r)) = l + k - Cardinality(T[x] \cap U(r))
          BY <2>4, FS_Union
    <3> QED BY <2>3, <3>1
  <2> HIDE DEF n, k, m, l
  <2>6. n \in Nat /\ k \in Nat /\ m \in Nat /\ l \in Nat
        BY <2>4 DEF Fits
  <2>7. Cardinality(U(s)) = l + k
        BY <2>5, <2>6, FS_EmptySet
  <2>8. Fits(m + n, l + k)
    <3> DEFINE a == Minute * m
               b == Minute * n
    <3>1. a \in Nat /\ b \in Nat /\ Minute * (m + n) = a + b
          BY <2>6, TimeAssumption
    <3>2. a <= l /\ b <= k /\ (exact => a = l /\ b = k)
          BY <2>4 DEF Fits
    <3> HIDE DEF a, b
    <3>3. a + b <= l + k /\ (exact => a + b = l + k) /\ m + n \in Nat /\ l + k \in Nat
          BY <2>6, <3>1, <3>2
    <3> QED BY <3>1, <3>3 DEF Fits
  <2> QED BY <2>2, <2>5, <2>7, <2>8
<1> HIDE DEF Ok
<1>5. Bad = {}
  <2> SUFFICES ASSUME Bad # {} PROVE FALSE
      OBVIOUS
  <2>1. ASSUME NEW s \in Bad PROVE s # {} /\ s \ {c(s)} \in Bad
    <3>1. s \in SUBSET S /\ s # {}
          BY <1>3
    <3>2. s \ {c(s)} \in SUBSET S
          BY <1>1, <3>1
    <3> QED BY <1>4, <3>1, <3>2
  <2>2. \A s \in Bad : s \in SUBSET S
        OBVIOUS
  <2> HIDE DEF Bad
  <2>3. Sizes # {} /\ Sizes \in SUBSET Nat
        BY <1>1, <2>1, <2>2
  <2>4. PICK n \in Sizes : \A m \in Sizes : n <= m
        BY <2>3, Least
  <2>5. PICK s \in Bad : Cardinality(s) = n
        BY <2>4
  <2>6. n - 1 \in Sizes
    <3> DEFINE r == s \ {c(s)}
    <3>1. r \in Bad /\ Cardinality(s) \in Nat /\ Cardinality(s) # 0 /\ Cardinality(r) = Cardinality(s) - 1
          BY <1>1, <2>1, <2>2
    <3> HIDE DEF r
    <3>2. n - 1 \in Nat /\ Cardinality(r) = n - 1
          BY <2>5, <3>1
    <3> QED BY <3>1, <3>2
  <2> QED BY <2>3, <2>4, <2>6
<1>6. Ok(S)
      BY <1>5
<1> QED BY <1>6 DEF Ok

\* The ticks of an interval of a day, and of all of them, that lie in a span.
SlotTicks(calendar, start, end, day, i) ==
  {t \in start .. end - 1 : Opens(calendar, day, i) <= t /\ t < Closes(calendar, day, i)}

DayTicks(calendar, start, end, day) ==
  UNION {SlotTicks(calendar, start, end, day, i) : i \in DOMAIN Hours(calendar, day)}

\* n minutes measure the set T.
Fit(n, T, exact) ==
  /\ n \in Nat /\ IsFiniteSet(T) /\ Minute * n <= Cardinality(T)
  /\ exact => Minute * n = Cardinality(T)

Exact(start, end) == start % Minute = 0 /\ end % Minute = 0

\* The minutes of an interval measure its ticks.
LEMMA SlotMeasured ==
  ASSUME NEW calendar, Regular(calendar), NEW start \in Nat, NEW end \in Nat, NEW day \in Nat,
         NEW i \in 1 .. Len(Hours(calendar, day))
  PROVE  Fit(SlotMinutes(calendar, start, end, day, i), SlotTicks(calendar, start, end, day, i),
             Exact(start, end))
<1> DEFINE o == Opens(calendar, day, i)
           c == Closes(calendar, day, i)
           from == IF start >= o THEN start ELSE o
           to == IF end <= c THEN end ELSE c
           last == to - 1
           n == SlotMinutes(calendar, start, end, day, i)
           T == SlotTicks(calendar, start, end, day, i)
<1>1. o \in Nat /\ c \in Nat /\ o % Minute = 0 /\ c % Minute = 0
      BY SlotFacts
<1>2. n = WholeMinutes(from, to)
  <2>1. n = WholeMinutes(Max({start, o}), Min({end, c}))
        BY Zenon DEF SlotMinutes
  <2> HIDE DEF o, c
  <2>2. start \in Int /\ end \in Int /\ o \in Int /\ c \in Int
        BY <1>1
  <2>3. Max({start, o}) = from
        BY <2>2, MaxIs
  <2>4. Min({end, c}) = to
        BY <2>2, MaxIs
  <2> QED BY <2>1, <2>3, <2>4
<1>3. T = {t \in start .. end - 1 : o <= t /\ t < c}
      BY DEF SlotTicks
<1> HIDE DEF o, c, n, T
<1>4. T = from .. last
      BY <1>1, <1>3
<1>5. from \in Nat /\ to \in Nat /\ (Exact(start, end) => from % Minute = 0 /\ to % Minute = 0)
      BY <1>1 DEF Exact
<1> HIDE DEF from, to
<1>6. IsFiniteSet(T) /\ Cardinality(T) = IF from < to THEN to - from ELSE 0
  <2>1. last \in Int /\ from \in Int /\ last - from + 1 = to - from /\ (from > last <=> ~(from < to))
        BY <1>5
  <2> HIDE DEF last
  <2>2. IsFiniteSet(from .. last) /\ Cardinality(from .. last) = IF from > last THEN 0 ELSE last - from + 1
        BY <2>1, FS_Interval
  <2> QED BY <1>4, <2>1, <2>2
<1>7. /\ n \in Nat
      /\ from < to => n * Minute <= to - from
      /\ ~(from < to) => n = 0
      /\ from < to /\ from % Minute = 0 /\ to % Minute = 0 => n * Minute = to - from
      BY <1>2, <1>5, MinutesIn
<1>8. Minute * n = n * Minute /\ (n = 0 => n * Minute = 0)
      BY <1>7, TimeAssumption
<1> DEFINE m == Minute * n
           k == Cardinality(T)
<1>9. m \in Nat /\ k \in Nat /\ m <= k /\ (Exact(start, end) => m = k)
  <2>1. CASE from < to
    <3>1. m <= to - from /\ k = to - from /\ k \in Nat /\ m \in Nat
      <4>1. k = to - from /\ to - from \in Nat
            BY <1>5, <1>6, <2>1
      <4>2. m \in Nat
            BY <1>7, TimeAssumption
      <4> HIDE DEF k
      <4> QED BY <1>7, <1>8, <2>1, <4>1, <4>2
    <3>2. Exact(start, end) => m = to - from
          BY <1>5, <1>7, <1>8, <2>1
    <3> HIDE DEF m, k
    <3> QED BY <3>1, <3>2
  <2>2. CASE ~(from < to)
        BY <1>6, <1>7, <1>8, <2>2
  <2> QED BY <2>1, <2>2
<1> HIDE DEF m, k
<1>10. Fit(n, T, Exact(start, end))
      BY <1>6, <1>7, <1>9 DEF Fit, m, k
<1> QED BY <1>10 DEF n, T

\* What a sum over a set comes to, when its terms w measure disjoint sets.
AllOf(S, T) == UNION {T[x] : x \in S}

Apart(S, w, T, exact) ==
  /\ \A x \in S : Fit(w[x], T[x], exact)
  /\ \A x, y \in S : x # y => T[x] \cap T[y] = {}

LEMMA SumFits ==
  ASSUME NEW S, IsFiniteSet(S), NEW w \in [S -> Nat], NEW T, NEW h, NEW exact \in BOOLEAN,
         Sums(h, S, w), Apart(S, w, T, exact)
  PROVE  Fit(h[S], AllOf(S, T), exact)
<1>1. \A x \in S : /\ IsFiniteSet(T[x]) /\ Minute * w[x] <= Cardinality(T[x])
                   /\ exact => Minute * w[x] = Cardinality(T[x])
      BY DEF Apart, Fit
<1>2. \A x, y \in S : x # y => T[x] \cap T[y] = {}
      BY DEF Apart
<1> QED BY <1>1, <1>2, SumMeasures DEF Fit, AllOf

\* The minutes of a day measure the ticks of its intervals.
LEMMA DayMeasured ==
  ASSUME NEW calendar, Regular(calendar), NEW start \in Nat, NEW end \in Nat, NEW day \in Nat
  PROVE  Fit(DayMinutes(calendar, start, end, day), DayTicks(calendar, start, end, day), Exact(start, end))
<1> DEFINE S == DOMAIN Hours(calendar, day)
           len == Len(Hours(calendar, day))
           w == [i \in S |-> SlotMinutes(calendar, start, end, day, i)]
           T == [i \in S |-> SlotTicks(calendar, start, end, day, i)]
<1>1. S = 1 .. len /\ len \in Nat
      BY LenIsNat
<1>2. \A i \in S : Fit(SlotMinutes(calendar, start, end, day, i), SlotTicks(calendar, start, end, day, i),
                       Exact(start, end))
      BY <1>1, SlotMeasured
<1>3. \A i, j \in S : i # j =>
        SlotTicks(calendar, start, end, day, i) \cap SlotTicks(calendar, start, end, day, j) = {}
  <2> DEFINE o(i) == Opens(calendar, day, i)
             c(i) == Closes(calendar, day, i)
  <2>1. \A i \in 1 .. len : o(i) \in Nat /\ c(i) \in Nat /\ \A j \in 1 .. len : i < j => c(i) <= o(j)
        BY SlotFacts
  <2> SUFFICES ASSUME NEW i \in S, NEW j \in S, i # j,
                      NEW t \in SlotTicks(calendar, start, end, day, i), t \in SlotTicks(calendar, start, end, day, j)
               PROVE  FALSE
      OBVIOUS
  <2>2. t \in Int /\ o(i) <= t /\ t < c(i) /\ o(j) <= t /\ t < c(j)
        BY DEF SlotTicks
  <2>3. i < j \/ j < i
        BY <1>1
  <2> HIDE DEF o, c, S
  <2>4. i \in 1 .. len /\ j \in 1 .. len
        BY <1>1
  <2>5. ~(i < j)
        BY <2>1, <2>2, <2>4
  <2>6. ~(j < i)
        BY <2>1, <2>2, <2>4
  <2> QED BY <2>3, <2>5, <2>6
<1>4. IsFiniteSet(S)
      BY <1>1, FS_Interval
<1> HIDE DEF S
<1>5. w \in [S -> Nat]
      BY <1>2 DEF Fit
<1>6. \A s \in SUBSET S : s # {} => (CHOOSE x \in s : TRUE) \in S
      OBVIOUS
<1> DEFINE Is(h) == h = [s \in SUBSET S |-> IF s = {} THEN 0
                         ELSE SlotMinutes(calendar, start, end, day, CHOOSE x \in s : TRUE)
                              + h[s \ {CHOOSE x \in s : TRUE}]]
<1>7. \A h : Is(h) <=> Sums(h, S, w)
  <2> SUFFICES ASSUME NEW h PROVE Is(h) <=> Sums(h, S, w)
      OBVIOUS
  <2> DEFINE a(s) == IF s = {} THEN 0
                     ELSE SlotMinutes(calendar, start, end, day, CHOOSE x \in s : TRUE)
                          + h[s \ {CHOOSE x \in s : TRUE}]
             b(s) == IF s = {} THEN 0
                     ELSE w[CHOOSE x \in s : TRUE] + h[s \ {CHOOSE x \in s : TRUE}]
  <2>1. \A s \in SUBSET S : a(s) = b(s)
        BY <1>6
  <2>2. [s \in SUBSET S |-> a(s)] = [s \in SUBSET S |-> b(s)]
    <3> HIDE DEF a, b
    <3> QED BY <2>1
  <2> QED BY <2>2 DEF Sums
<1>8. DayMinutes(calendar, start, end, day) = (CHOOSE h : Is(h))[S]
      BY Zenon DEF DayMinutes, MapThenSumSet, MapThenFoldSet, S
<1>9. \A i \in S : w[i] = SlotMinutes(calendar, start, end, day, i)
                   /\ T[i] = SlotTicks(calendar, start, end, day, i)
      OBVIOUS
<1> DEFINE exact == Exact(start, end)
           U == AllOf(S, T)
<1>10. DayTicks(calendar, start, end, day) = U
  <2>1. {T[i] : i \in S} = {SlotTicks(calendar, start, end, day, i) : i \in S}
        BY <1>9
  <2> QED BY <2>1 DEF DayTicks, AllOf, S
<1> HIDE DEF Is, w, T
<1>11. PICK g : Sums(g, S, w)
      BY <1>4, <1>5, SumsExist
<1> DEFINE f == CHOOSE h : Is(h)
<1>12. Sums(f, S, w)
      BY <1>7, <1>11
<1>13. exact \in BOOLEAN
      BY DEF Exact
<1>14. \A x \in S : Fit(w[x], T[x], exact)
      BY <1>2, <1>9
<1>15. \A x, y \in S : x # y => T[x] \cap T[y] = {}
      BY <1>3, <1>9
<1> HIDE DEF f, exact
<1>16. Apart(S, w, T, exact)
      BY <1>14, <1>15 DEF Apart
<1>17. Fit(f[S], U, exact)
      BY <1>4, <1>5, <1>12, <1>13, <1>16, SumFits
<1> QED BY <1>8, <1>10, <1>17 DEF f, exact

\* Later instants lie on later days.
LEMMA DaysInOrder ==
  ASSUME NEW a \in Nat, NEW b \in Nat, a <= b
  PROVE  a \div Day <= b \div Day /\ a \div Day \in Nat /\ b \div Day \in Nat
<1> DEFINE p == a \div Day
           q == b \div Day
           y == a % Day
           z == b % Day
<1>1. /\ p \in Nat /\ y \in 0..(Day - 1) /\ a = p * Day + y
      /\ q \in Nat /\ z \in 0..(Day - 1) /\ b = q * Day + z
      BY TimeAssumption, Division
<1> HIDE DEF p, q, y, z
<1>2. ~(q < p)
  <2> SUFFICES ASSUME q + 1 <= p PROVE FALSE
      BY <1>1
  <2> DEFINE d == q * Day
             e == p * Day
             f == (q + 1) * Day
  <2>1. d \in Nat /\ e \in Nat /\ f = d + Day /\ f <= e /\ Day \in Nat
        BY <1>1, TimeAssumption, Product
  <2>2. a = e + y /\ b = d + z
        BY <1>1
  <2> HIDE DEF d, e, f
  <2> QED BY <1>1, <2>1, <2>2
<1> QED BY <1>1, <1>2 DEF p, q

\* The minutes of a span measure its working ticks.
LEMMA SpanMeasured ==
  ASSUME NEW calendar, Regular(calendar), calendar # AllHours, NEW start \in Nat, NEW end \in Nat
  PROVE  Measures(calendar, start, end)
<1> DEFINE S == (start \div Day) .. (end \div Day)
           w == [day \in S |-> DayMinutes(calendar, start, end, day)]
           T == [day \in S |-> DayTicks(calendar, start, end, day)]
           W == {t \in start .. end - 1 : Works(calendar, t)}
           n == BusinessMinutesBetween(calendar, start, end)
<1>1. start \div Day \in Nat /\ end \div Day \in Nat
      BY TimeAssumption, Division
<1>2. IsFiniteSet(S) /\ S \in SUBSET Nat
  <2> DEFINE a == start \div Day
             b == end \div Day
  <2>1. a \in Nat /\ b \in Nat
        BY <1>1
  <2> HIDE DEF a, b
  <2>2. IsFiniteSet(a .. b) /\ a .. b \in SUBSET Nat
        BY <2>1, FS_Interval
  <2> QED BY <2>2 DEF a, b
<1>3. \A t \in start .. end - 1 : t \in Nat /\ t \div Day \in S
  <2> SUFFICES ASSUME NEW t \in start .. end - 1 PROVE t \in Nat /\ t \div Day \in S
      OBVIOUS
  <2>1. t \in Nat /\ start <= t /\ t <= end
        OBVIOUS
  <2>2. start \div Day <= t \div Day /\ t \div Day <= end \div Day /\ t \div Day \in Nat
        BY <2>1, DaysInOrder
  <2> DEFINE a == start \div Day
             b == end \div Day
             c == t \div Day
  <2>3. a \in Nat /\ b \in Nat /\ c \in Nat /\ a <= c /\ c <= b
        BY <1>1, <2>2
  <2> HIDE DEF a, b, c
  <2>4. c \in a .. b
        BY <2>3
  <2> QED BY <2>1, <2>4 DEF a, b, c
<1> HIDE DEF S
\* A tick of a day lies on that day, and works.
<1>4. ASSUME NEW day \in S, NEW t
      PROVE  t \in DayTicks(calendar, start, end, day)
             <=> t \in start .. end - 1 /\ t \div Day = day /\ Works(calendar, t)
  <2> DEFINE o(i) == Opens(calendar, day, i)
             c(i) == Closes(calendar, day, i)
             D == DOMAIN Hours(calendar, day)
  <2>1. t \in DayTicks(calendar, start, end, day)
        <=> t \in start .. end - 1 /\ \E i \in D : o(i) <= t /\ t < c(i)
        BY DEF DayTicks, SlotTicks
  <2>2. t \div Day = day => (Works(calendar, t) <=> \E i \in D : o(i) <= t /\ t < c(i))
        BY DEF Works
  <2>3. ASSUME t \in start .. end - 1, NEW i \in D, o(i) <= t, t < c(i) PROVE t \div Day = day
    <3> DEFINE d == day * Day
               e == (day + 1) * Day
    <3>1. day \in Nat /\ t \in Nat
          BY <1>2, <1>3, <2>3
    <3>2. i \in 1 .. Len(Hours(calendar, day))
          BY <3>1, LenIsNat
    <3>3. o(i) \in Nat /\ c(i) \in Nat /\ d <= o(i) /\ c(i) <= e
          BY <3>1, <3>2, SlotFacts
    <3>4. d \in Nat /\ e \in Nat
          BY <3>1, TimeAssumption, Product
    <3>5. d <= t /\ t < e
      <4> HIDE DEF d, e, o, c
      <4> QED BY <2>3, <3>1, <3>3, <3>4
    <3> QED BY <3>1, <3>5, DayOf
  <2> HIDE DEF o, c, D
  <2> QED BY <2>1, <2>2, <2>3
<1>5. \A x \in S : Fit(DayMinutes(calendar, start, end, x), DayTicks(calendar, start, end, x), Exact(start, end))
      BY <1>2, DayMeasured
<1>6. w \in [S -> Nat]
      BY <1>5 DEF Fit
<1>7. \A s \in SUBSET S : s # {} => (CHOOSE x \in s : TRUE) \in S
      OBVIOUS
<1> DEFINE Is(h) == h = [s \in SUBSET S |-> IF s = {} THEN 0
                         ELSE DayMinutes(calendar, start, end, CHOOSE x \in s : TRUE)
                              + h[s \ {CHOOSE x \in s : TRUE}]]
<1>8. \A h : Is(h) <=> Sums(h, S, w)
  <2> SUFFICES ASSUME NEW h PROVE Is(h) <=> Sums(h, S, w)
      OBVIOUS
  <2> DEFINE a(s) == IF s = {} THEN 0
                     ELSE DayMinutes(calendar, start, end, CHOOSE x \in s : TRUE)
                          + h[s \ {CHOOSE x \in s : TRUE}]
             b(s) == IF s = {} THEN 0
                     ELSE w[CHOOSE x \in s : TRUE] + h[s \ {CHOOSE x \in s : TRUE}]
  <2>1. \A s \in SUBSET S : a(s) = b(s)
        BY <1>7
  <2>2. [s \in SUBSET S |-> a(s)] = [s \in SUBSET S |-> b(s)]
    <3> HIDE DEF a, b
    <3> QED BY <2>1
  <2> QED BY <2>2 DEF Sums
<1>9. CASE end <= start
  <2>1. n = 0
        BY <1>9 DEF BusinessMinutesBetween
  <2>2. WorkingTicks(calendar, start, end) = 0
        BY <1>9, NoWork
  <2>3. Minute * 0 = 0
        BY TimeAssumption
  <2> HIDE DEF n
  <2> QED BY <2>1, <2>2, <2>3 DEF Measures, n
<1>10. CASE ~(end <= start)
  <2>1. n = (CHOOSE h : Is(h))[S]
        BY <1>10, Zenon DEF BusinessMinutesBetween, MapThenSumSet, MapThenFoldSet, S
  <2>2. \A x \in S : w[x] = DayMinutes(calendar, start, end, x) /\ T[x] = DayTicks(calendar, start, end, x)
        OBVIOUS
  <2> DEFINE exact == Exact(start, end)
             U == AllOf(S, T)
             f == CHOOSE h : Is(h)
  <2>3. U = W
    <3> HIDE DEF T
    <3>1. ASSUME NEW t \in U PROVE t \in W
          BY <1>4, <2>2 DEF AllOf
    <3>2. ASSUME NEW t \in W PROVE t \in U
      <4>1. t \in start .. end - 1 /\ t \div Day \in S /\ Works(calendar, t)
            BY <1>3
      <4>2. t \in T[t \div Day]
            BY <1>4, <2>2, <4>1
      <4> QED BY <4>1, <4>2 DEF AllOf
    <3> QED BY <3>1, <3>2
  <2> HIDE DEF Is, w, T
  <2>4. PICK g : Sums(g, S, w)
        BY <1>2, <1>6, SumsExist
  <2>5. Sums(f, S, w)
        BY <1>8, <2>4
  <2>6. exact \in BOOLEAN
        BY DEF Exact
  <2>7. \A x \in S : Fit(w[x], T[x], exact)
        BY <1>5, <2>2
  <2>8. \A x, y \in S : x # y => T[x] \cap T[y] = {}
        BY <1>4, <2>2
  <2> HIDE DEF f, exact
  <2>80. Apart(S, w, T, exact)
        BY <2>7, <2>8 DEF Apart
  <2>9. Fit(f[S], U, exact)
        BY <1>2, <1>6, <2>5, <2>6, <2>80, SumFits
  <2>10. Fit(n, W, exact)
        BY <2>1, <2>3, <2>9 DEF f
  <2>11. WorkingTicks(calendar, start, end) = Cardinality(W)
        BY DEF WorkingTicks
  <2> HIDE DEF n, W, U
  <2> QED BY <2>10, <2>11 DEF Measures, Fit, exact, Exact, n
<1> QED BY <1>9, <1>10

\* Where all time counts.
LEMMA AroundTheClock ==
  ASSUME NEW start \in Nat
  PROVE  /\ \A minutes \in Nat : Grants(AllHours, start, minutes)
         /\ \A end \in Nat : Measures(AllHours, start, end)
<1>0. \A t \in Nat : Works(AllHours, t)
      BY DEF Works
<1>1. ASSUME NEW minutes \in Nat PROVE Grants(AllHours, start, minutes)
  <2> DEFINE w == minutes * Minute
             end == start + w
  <2>1. w \in Nat /\ w = Minute * minutes /\ end \in Nat /\ end >= start /\ start <= end /\ end - start = w
        BY TimeAssumption
  <2>2. AddBusinessMinutes(AllHours, start, minutes) = end
    <3>1. CASE minutes = 0
      <4>1. w = 0
            BY <3>1, TimeAssumption
      <4> HIDE DEF w
      <4> QED BY <3>1, <4>1 DEF AddBusinessMinutes
    <3>2. CASE minutes # 0
          BY <3>2 DEF AddBusinessMinutes
    <3> QED BY <3>1, <3>2
  <2> HIDE DEF w, end
  <2>3. WorkingTicks(AllHours, start, end) = w
        BY <1>0, <2>1, AllWork
  <2> QED BY <2>1, <2>2, <2>3 DEF Grants
<1>2. ASSUME NEW end \in Nat PROVE Measures(AllHours, start, end)
  <2> DEFINE n == WholeMinutes(start, end)
             k == WorkingTicks(AllHours, start, end)
  <2>1. /\ n \in Nat
        /\ start < end => n * Minute <= end - start
        /\ ~(start < end) => n = 0
        /\ start < end /\ start % Minute = 0 /\ end % Minute = 0 => n * Minute = end - start
        BY MinutesIn
  <2>2. BusinessMinutesBetween(AllHours, start, end) = n
        BY DEF BusinessMinutesBetween, WholeMinutes
  <2>3. k = IF start < end THEN end - start ELSE 0
    <3>1. CASE start < end
      <4>1. start <= end
            BY <3>1
      <4> QED BY <1>0, <3>1, <4>1, AllWork
    <3>2. CASE ~(start < end)
      <4>1. \A t \in Nat : start <= t /\ t < end => ~Works(AllHours, t)
            BY <3>2
      <4> QED BY <3>2, <4>1, NoWork
    <3> QED BY <3>1, <3>2
  <2> HIDE DEF n, k
  <2> DEFINE m == Minute * n
  <2>4. m = n * Minute /\ m \in Nat /\ (n = 0 => m = 0)
        BY <2>1, TimeAssumption
  <2> HIDE DEF m
  <2>5. m <= k /\ (start % Minute = 0 /\ end % Minute = 0 => m = k)
        BY <2>1, <2>3, <2>4
  <2> QED BY <2>1, <2>2, <2>5 DEF Measures, m, k
<1> QED BY <1>1, <1>2

\* With a calendar or without.
LEMMA OnSchedule ==
  ASSUME NEW calendar, calendar = AllHours \/ Regular(calendar), NEW start \in Nat
  PROVE  /\ \A minutes \in Nat : Grants(calendar, start, minutes)
         /\ \A end \in Nat : Measures(calendar, start, end)
<1>1. CASE calendar = AllHours
      BY <1>1, AroundTheClock
<1>2. CASE calendar # AllHours
      BY <1>2, GrantsRegular, SpanMeasured
<1> QED BY <1>1, <1>2

-----------------------------------------------------------------------------
(* Deadlines and verdicts.                                                 *)

\* What they rely on: on the calendars of the policies, deadlines grant what they
\* should and durations are numbers.
TimeContract ==
  \A calendar \in Calendars : \A start \in Nat :
    /\ \A minutes \in Nat : Grants(calendar, start, minutes)
    /\ \A end \in Nat : BusinessMinutesBetween(calendar, start, end) \in Nat

\* It holds of every calendar that the code accepts.
LEMMA TimeContractHolds == TimeContract
<1>1. ASSUME NEW calendar \in Calendars, NEW start \in Nat
      PROVE  /\ \A minutes \in Nat : Grants(calendar, start, minutes)
             /\ \A end \in Nat : BusinessMinutesBetween(calendar, start, end) \in Nat
  <2>1. calendar = AllHours \/ Regular(calendar)
        BY CalendarAssumption
  <2>2. /\ \A minutes \in Nat : Grants(calendar, start, minutes)
        /\ \A end \in Nat : Measures(calendar, start, end)
        BY <2>1, OnSchedule
  <2> QED BY <2>2 DEF Measures
<1> QED BY <1>1 DEF TimeContract

\* The working time from the start of an instance's row to an instant.
Worked(row, instant) == WorkingTicks(row.calendar, row.started, instant)

\* What holds of a target whichever copy of it one looks at.
Solid(row, tg, t) ==
  /\ tg.due >= row.started /\ Worked(row, tg.due) >= Minute * Duration[t]
  /\ tg.status = "MET" => tg.metAt # None
  /\ tg.status = "BREACHED" => tg.breachedAt # None
  /\ tg.breachedAt # None => Worked(row, tg.breachedAt) >= Minute * Duration[t]

\* What is cancelled belongs to an instance or a ticket that is over.
Over(row, k) == ~row.current \/ k = "CANCELLED"

Unjudged(tg) == tg.status \in Open /\ tg.metAt = None /\ tg.breachedAt = None

\* What holds of a stored target, with the pauses of its instance, lost and the
\* ticket's status.
Recorded(row, tg, ps, l, k, t) ==
  /\ Solid(row, tg, t)
  /\ tg.status = "CANCELLED" => Over(row, k)
  /\ ~l /\ Unjudged(tg) /\ ~Over(row, k) =>
       Worked(row, tg.due) >= Minute * (Duration[t] + row.paused)
  /\ ps = <<>> /\ row.started % Minute = 0 => Worked(row, tg.due) = Minute * Duration[t]
  /\ ~l /\ tg.metAt # None /\ tg.breachedAt = None => tg.metAt <= tg.due

\* What the copy of a target in a session has to do with the stored one.
Copied(h, tg, row, l, k, t) ==
  /\ Solid(row, h, t)
  /\ h.status = "CANCELLED" => Over(row, k)
  /\ h.metAt # None => tg.metAt # None
  /\ h.breachedAt # None => tg.breachedAt # None
  /\ ~l => h.due <= tg.due

\* A session p has read an instance that exists, and carries copies of it.
Attends(p, s, rows, tgs, stops, l, k) ==
  /\ s \in Sessions /\ s.id \in DOMAIN rows
  /\ s.row \in InstanceRows
  /\ s.row.calendar = rows[s.id].calendar /\ s.row.started = rows[s.id].started
  /\ s.kind = "complete" => s.target \in Targets
  /\ s.kind = "recalculate" => p \in Managers
  /\ s.kind \in {"sync", "recalculate"} => s.row.current
  /\ p = "desk" <=> s.kind = "sync"
  /\ s.kind = "sync" => s.to \in Statuses /\ s.at \in Nat /\ (k = "CANCELLED" => s.to = "CANCELLED")
  /\ s.pc # "READ" => s.at \in Nat
  /\ s.pc = "WRITE" =>
       /\ s.held \in [Targets -> TargetRows]
       /\ s.gap \in 0 .. Len(stops[s.id])
       /\ \A t \in Targets : Copied(s.held[t], tgs[s.id][t], rows[s.id], l, k, t)

\* A session that holds the lock of the ticket's SLA.
Holding(s) == s.kind = "sync" \/ (s.kind = "recalculate" /\ s.pc # "READ")

\* It is alone, and the instance it has read is still the current one.
OneHolder ==
  \A p \in Parties : session[p] # None /\ Holding(session[p]) =>
    /\ instances[session[p].id].current
    /\ \A q \in Parties : session[q] # None /\ Holding(session[q]) => q = p

OneCurrent == \A i, j \in DOMAIN instances : instances[i].current /\ instances[j].current => i = j

Tables(rows, tgs, stops) ==
  /\ rows \in Seq(InstanceRows)
  /\ tgs \in Seq([Targets -> TargetRows]) /\ Len(tgs) = Len(rows)
  /\ stops \in Seq(Seq(PauseRows)) /\ Len(stops) = Len(rows)

Typed ==
  /\ now \in 0 .. Horizon /\ ticket \in Statuses \cup {None} /\ lost \in BOOLEAN
  /\ Tables(instances, targets, pauses)
  /\ DOMAIN session = Parties /\ session = [p \in Parties |-> session[p]]

Records(rows, tgs, stops, l, k) ==
  \A i \in DOMAIN rows : \A t \in Targets : Recorded(rows[i], tgs[i][t], stops[i], l, k, t)

DInv ==
  /\ Typed /\ OneHolder /\ OneCurrent
  /\ ticket = None => instances = <<>>
  /\ Records(instances, targets, pauses, lost, ticket)
  /\ \A p \in Parties : session[p] # None =>
       Attends(p, session[p], instances, targets, pauses, lost, ticket)
\* No minutes lead nowhere.
LEMMA NoMinutes ==
  ASSUME NEW calendar, NEW start PROVE AddBusinessMinutes(calendar, start, 0) = start
BY DEF AddBusinessMinutes

-----------------------------------------------------------------------------
(* What a service function makes of a target a with the deadline d at the  *)
(* time at.  A target can only be cancelled where the instance or the      *)
(* ticket ends (gone).                                                     *)

Judged(a, d, b, at, gone) ==
  /\ b.due = d
  /\ \/ b.metAt = a.metAt
     \/ b.metAt = at /\ (at <= d \/ b.breachedAt # None)
  /\ \/ b.breachedAt = a.breachedAt
     \/ a.breachedAt = None /\ b.breachedAt = at /\ at >= d
  /\ \/ b.status = a.status
     \/ /\ a.status \notin Final
        /\ \/ b.status = "MET" /\ b.metAt = at
           \/ b.status = "BREACHED" /\ b.breachedAt # None
           \/ b.status = "WARNING"
           \/ b.status = "CANCELLED" /\ gone

LEMMA JudgedTwice ==
  ASSUME NEW a, NEW d, NEW b, NEW c, NEW at \in Nat, NEW gone,
         Judged(a, d, b, at, gone), Judged(b, b.due, c, at, gone)
  PROVE  Judged(a, d, c, at, gone)
BY NoneAssumption DEF Judged, Final

\* The deadline of a target after a pause of that many business minutes.
Extended(row, tg, m) ==
  IF tg.status \in Open THEN AddBusinessMinutes(row.calendar, tg.due, m) ELSE tg.due

Copies == [row : InstanceRows, held : [Targets -> TargetRows], gap : Times, began : Times, ended : Times]

(***************************************************************************)
(* What a service function makes of a copy c: it adds the minutes m of the *)
(* open pause, if there is one, to the sum of pauses and to the deadlines  *)
(* of open targets, and passes judgement on the targets.                   *)
(***************************************************************************)
Served(c, r, at, gone) ==
  /\ r \in Copies /\ r.gap = c.gap
  /\ r.row.calendar = c.row.calendar /\ r.row.started = c.row.started
  /\ r.row.current = c.row.current \/ (gone /\ ~r.row.current)
  /\ r.ended # None => c.gap # None
  /\ \E m \in Nat :
       /\ r.row.paused = c.row.paused + m
       /\ m # 0 => c.gap # None
       /\ \A t \in Targets : Judged(c.held[t], Extended(c.row, c.held[t], m), r.held[t], at, gone)

\* Judgement passed on what was served before.
LEMMA ServedThenJudged ==
  ASSUME NEW c, NEW d, NEW r, NEW at \in Nat, NEW gone, Served(c, d, at, gone),
         r \in Copies, r.gap = d.gap, r.ended = d.ended,
         r.row.calendar = d.row.calendar, r.row.started = d.row.started,
         r.row.current = d.row.current \/ (gone /\ ~r.row.current), r.row.paused = d.row.paused,
         \A t \in Targets : Judged(d.held[t], d.held[t].due, r.held[t], at, gone)
  PROVE  Served(c, r, at, gone)
<1>1. PICK m \in Nat :
        /\ d.row.paused = c.row.paused + m
        /\ m # 0 => c.gap # None
        /\ \A t \in Targets : Judged(c.held[t], Extended(c.row, c.held[t], m), d.held[t], at, gone)
      BY DEF Served
<1>2. \A t \in Targets : Judged(c.held[t], Extended(c.row, c.held[t], m), r.held[t], at, gone)
      BY <1>1, JudgedTwice
<1>3. r.row.current = c.row.current \/ (gone /\ ~r.row.current)
      BY DEF Served, Copies, InstanceRows
<1> QED BY <1>1, <1>2, <1>3 DEF Served

LEMMA ServedNot ==
  ASSUME NEW c \in Copies, c.ended = None, NEW at, NEW gone
  PROVE  Served(c, c, at, gone)
<1>1. c.row.paused = c.row.paused + 0
      BY DEF Copies, InstanceRows
<1>2. \A t \in Targets : Judged(c.held[t], Extended(c.row, c.held[t], 0), c.held[t], at, gone)
      BY NoMinutes DEF Judged, Extended
<1> QED BY <1>1, <1>2 DEF Served

LEMMA ServedPause ==
  ASSUME NEW c \in Copies, c.ended = None, NEW at \in Nat, NEW gone
  PROVE  Served(c, Pause(c, at), at, gone)
<1>1. Served(c, c, at, gone)
      BY ServedNot
<1>2. Pause(c, at) \in Copies /\ Pause(c, at).held = c.held /\ Pause(c, at).gap = c.gap
      /\ Pause(c, at).ended = c.ended /\ Pause(c, at).row.calendar = c.row.calendar
      /\ Pause(c, at).row.started = c.row.started /\ Pause(c, at).row.current = c.row.current
      /\ Pause(c, at).row.paused = c.row.paused
      BY DEF Pause, Copies, InstanceRows, Times
<1> HIDE DEF Pause
<1>3. \A t \in Targets : Judged(c.held[t], c.held[t].due, c.held[t], at, gone)
      BY DEF Judged
<1> QED BY <1>1, <1>2, <1>3, ServedThenJudged

LEMMA PausedRow ==
  ASSUME NEW row \in InstanceRows, NEW m \in Nat
  PROVE  LET r == [row EXCEPT !.status = "ACTIVE", !.paused = @ + m]
         IN  /\ r \in InstanceRows /\ r.paused = row.paused + m /\ r.calendar = row.calendar
             /\ r.started = row.started /\ r.current = row.current
<1>1. row.paused + m \in Nat
      BY DEF InstanceRows
<1> DEFINE n == row.paused + m
           q == [row EXCEPT !.status = "ACTIVE"]
           r == [q EXCEPT !.paused = n]
<1>2. q \in InstanceRows /\ q.paused = row.paused /\ q.calendar = row.calendar
      /\ q.started = row.started /\ q.current = row.current
      BY DEF InstanceRows
<1>3. [row EXCEPT !.status = "ACTIVE", !.paused = @ + m] = r
      BY <1>2
<1> HIDE DEF n, q
<1>4. r \in InstanceRows /\ r.paused = n /\ r.calendar = q.calendar
      /\ r.started = q.started /\ r.current = q.current
      BY <1>1, <1>2 DEF InstanceRows, n
<1> QED BY <1>2, <1>3, <1>4 DEF n

LEMMA ServedResume ==
  ASSUME TimeContract, NEW c \in Copies, c.ended = None, CanResume(c), NEW at \in Nat, NEW gone
  PROVE  Served(c, Resume(c, at), at, gone)
<1>1. CASE c.row.status # "PAUSED"
      BY <1>1, ServedNot DEF Resume
<1>2. CASE c.row.status = "PAUSED"
  <2> DEFINE m == BusinessMinutesBetween(c.row.calendar, c.gap, at)
             Instant(x) == AddBusinessMinutes(c.row.calendar, x, m)
             Later(t) == IF c.held[t].status \in Open
                         THEN [c.held[t] EXCEPT !.due = Instant(@), !.warn = Instant(@)]
                         ELSE c.held[t]
             held == [t \in Targets |-> Later(t)]
             r == [c EXCEPT !.row.status = "ACTIVE", !.row.paused = @ + m, !.held = held, !.ended = at]
  <2>1. c.gap \in Nat /\ c.row \in InstanceRows /\ c.row.calendar \in Calendars /\ c.row.paused \in Nat
        /\ c.held \in [Targets -> TargetRows]
        BY <1>2 DEF CanResume, Copies, Times, InstanceRows
  <2>2. m \in Nat /\ \A x \in Nat : Instant(x) \in Nat
        BY <2>1 DEF TimeContract, Grants
  <2>3. Resume(c, at) = r
        BY <1>2 DEF Resume, Resumed
  <2>4. ASSUME NEW t \in Targets
        PROVE  /\ held[t] \in TargetRows
               /\ Judged(c.held[t], Extended(c.row, c.held[t], m), held[t], at, gone)
    <3>1. c.held[t] \in TargetRows
          BY <2>1
    <3>2. held[t] = Later(t)
          OBVIOUS
    <3> HIDE DEF m, held
    <3>3. Instant(c.held[t].due) \in Nat /\ Instant(c.held[t].warn) \in Nat
          BY <2>2, <3>1 DEF TargetRows
    <3>4. Extended(c.row, c.held[t], m) = IF c.held[t].status \in Open THEN Instant(c.held[t].due) ELSE c.held[t].due
          BY DEF Extended
    <3> HIDE DEF Instant
    <3> QED BY <3>1, <3>2, <3>3, <3>4 DEF Judged, TargetRows
  <2>5. held \in [Targets -> TargetRows]
        BY <2>4
  <2> HIDE DEF m, held
  <2>6. r \in Copies /\ r.gap = c.gap /\ r.ended = at /\ r.held = held
        /\ r.row.calendar = c.row.calendar /\ r.row.started = c.row.started
        /\ r.row.current = c.row.current /\ r.row.paused = c.row.paused + m
    <3> DEFINE row == [c.row EXCEPT !.status = "ACTIVE", !.paused = @ + m]
    <3>1. row \in InstanceRows /\ row.paused = c.row.paused + m /\ row.calendar = c.row.calendar
          /\ row.started = c.row.started /\ row.current = c.row.current
          BY <2>1, <2>2, PausedRow
    <3>2. r = [c EXCEPT !.row = row, !.held = held, !.ended = at]
          BY DEF Copies
    <3> HIDE DEF row, r
    <3> QED BY <2>5, <3>1, <3>2 DEF Copies, Times
  <2> HIDE DEF r
  <2>7. c.gap # None
        BY <2>1, NoneAssumption
  <2>8. \A t \in Targets : Judged(c.held[t], Extended(c.row, c.held[t], m), r.held[t], at, gone)
        BY <2>4, <2>6
  <2>9. Served(c, r, at, gone)
        BY <2>2, <2>6, <2>7, <2>8 DEF Served
  <2> QED BY <2>3, <2>9
<1> QED BY <1>1, <1>2

\* A target completed, evaluated, cancelled.
Completed(tg, at) ==
  IF tg.status \in Final THEN tg
  ELSE IF at <= tg.due THEN [tg EXCEPT !.status = "MET", !.metAt = at]
  ELSE [tg EXCEPT !.status = "BREACHED", !.metAt = at,
                  !.breachedAt = IF @ = None THEN at ELSE @]

LEMMA CompletedJudged ==
  ASSUME NEW tg \in TargetRows, NEW at \in Nat, NEW gone
  PROVE  Completed(tg, at) \in TargetRows /\ Judged(tg, tg.due, Completed(tg, at), at, gone)
<1>1. CASE tg.status \in Final
      BY <1>1 DEF Completed, Judged
<1>2. CASE tg.status \notin Final /\ at <= tg.due
      BY <1>2 DEF Completed, Judged, TargetRows, Times
<1>3. CASE tg.status \notin Final /\ ~(at <= tg.due)
  <2> DEFINE b == IF tg.breachedAt = None THEN at ELSE tg.breachedAt
             r == [tg EXCEPT !.status = "BREACHED", !.metAt = at, !.breachedAt = b]
  <2>1. Completed(tg, at) = r
        BY <1>3 DEF Completed
  <2>2. b \in Times /\ b # None /\ (b = tg.breachedAt \/ (tg.breachedAt = None /\ b = at)) /\ at >= tg.due
        BY <1>3, NoneAssumption DEF TargetRows, Times
  <2> HIDE DEF b
  <2>3. r \in TargetRows /\ r.status = "BREACHED" /\ r.metAt = at /\ r.breachedAt = b /\ r.due = tg.due
        BY <2>2 DEF TargetRows, Times
  <2> HIDE DEF r
  <2> QED BY <1>3, <2>1, <2>2, <2>3 DEF Judged
<1> QED BY <1>1, <1>2, <1>3

LEMMA EvaluatedJudged ==
  ASSUME NEW tg \in TargetRows, NEW at \in Nat, NEW gone
  PROVE  Evaluated(tg, at) \in TargetRows /\ Judged(tg, tg.due, Evaluated(tg, at), at, gone)
<1>1. CASE tg.status \in Final
      BY <1>1 DEF Evaluated, Judged
<1>2. CASE tg.status \notin Final /\ at >= tg.due
  <2> DEFINE b == IF tg.breachedAt = None THEN at ELSE tg.breachedAt
             r == [tg EXCEPT !.status = "BREACHED", !.breachedAt = b]
  <2>1. Evaluated(tg, at) = r
        BY <1>2 DEF Evaluated
  <2>2. b \in Times /\ b # None /\ (b = tg.breachedAt \/ (tg.breachedAt = None /\ b = at))
        BY <1>2, NoneAssumption DEF TargetRows, Times
  <2> HIDE DEF b
  <2>3. r \in TargetRows /\ r.status = "BREACHED" /\ r.metAt = tg.metAt /\ r.breachedAt = b /\ r.due = tg.due
        BY <2>2 DEF TargetRows, Times
  <2> HIDE DEF r
  <2> QED BY <1>2, <2>1, <2>2, <2>3 DEF Judged
<1>3. CASE tg.status \notin Final /\ ~(at >= tg.due)
      BY <1>3 DEF Evaluated, Judged, TargetRows
<1> QED BY <1>1, <1>2, <1>3

LEMMA CancelledJudged ==
  ASSUME NEW held \in [Targets -> TargetRows], NEW at, NEW t \in Targets
  PROVE  /\ CancelTargets(held) \in [Targets -> TargetRows]
         /\ Judged(held[t], held[t].due, CancelTargets(held)[t], at, TRUE)
BY DEF CancelTargets, Judged, TargetRows

LEMMA ServedComplete ==
  ASSUME NEW c, NEW d, NEW t \in Targets, NEW at \in Nat, NEW gone, Served(c, d, at, gone)
  PROVE  Served(c, Complete(d, t, at), at, gone)
<1> DEFINE r == [d EXCEPT !.held[t] = Completed(d.held[t], at)]
<1>1. d \in Copies /\ d.held \in [Targets -> TargetRows]
      BY DEF Served, Copies
<1>2. Complete(d, t, at) = r
      BY <1>1 DEF Complete, Completed, Copies, TargetRows
<1>3. Completed(d.held[t], at) \in TargetRows
      /\ Judged(d.held[t], d.held[t].due, Completed(d.held[t], at), at, gone)
      BY <1>1, CompletedJudged
<1>4. /\ r \in Copies /\ r.gap = d.gap /\ r.ended = d.ended /\ r.row = d.row
      /\ \A u \in Targets : r.held[u] = IF u = t THEN Completed(d.held[t], at) ELSE d.held[u]
      BY <1>1, <1>3 DEF Copies
<1>5. \A u \in Targets : Judged(d.held[u], d.held[u].due, r.held[u], at, gone)
      BY <1>3, <1>4 DEF Judged
<1> HIDE DEF r
<1>6. Served(c, r, at, gone)
      BY <1>4, <1>5, ServedThenJudged
<1> QED BY <1>2, <1>6

LEMMA ServedEvaluate ==
  ASSUME NEW c, NEW d, NEW at \in Nat, NEW gone, Served(c, d, at, gone)
  PROVE  Served(c, Evaluate(d, at), at, gone)
<1> DEFINE held == [t \in Targets |-> Evaluated(d.held[t], at)]
           status == IF \E t \in Targets : held[t].status = "BREACHED" THEN "BREACHED"
                     ELSE IF \A t \in Targets : held[t].status \in Final THEN "COMPLETED"
                     ELSE "ACTIVE"
           r == [d EXCEPT !.held = held, !.row.status = status]
<1>1. d \in Copies /\ d.held \in [Targets -> TargetRows]
      BY DEF Served, Copies
<1>2. Evaluate(d, at) = d \/ Evaluate(d, at) = r
      BY DEF Evaluate
<1>3. \A t \in Targets : /\ held[t] \in TargetRows
                         /\ Judged(d.held[t], d.held[t].due, held[t], at, gone)
      BY <1>1, EvaluatedJudged
<1>4. held \in [Targets -> TargetRows] /\ status \in {"BREACHED", "COMPLETED", "ACTIVE"}
      BY <1>3
<1> HIDE DEF held, status
<1>5. r \in Copies /\ r.gap = d.gap /\ r.ended = d.ended /\ r.held = held
      /\ r.row.calendar = d.row.calendar /\ r.row.started = d.row.started
      /\ r.row.current = d.row.current /\ r.row.paused = d.row.paused
      BY <1>1, <1>4 DEF Copies, InstanceRows
<1> HIDE DEF r
<1>6. Served(c, r, at, gone)
      BY <1>3, <1>5, ServedThenJudged
<1> QED BY <1>2, <1>6

LEMMA ServedCancel ==
  ASSUME NEW c \in Copies, c.ended = None, NEW at \in Nat
  PROVE  Served(c, [c EXCEPT !.row.status = "CANCELLED", !.held = CancelTargets(@)], at, TRUE)
<1> DEFINE r == [c EXCEPT !.row.status = "CANCELLED", !.held = CancelTargets(@)]
<1>1. c.held \in [Targets -> TargetRows]
      BY DEF Copies
<1>2. /\ CancelTargets(c.held) \in [Targets -> TargetRows]
      /\ \A t \in Targets : Judged(c.held[t], c.held[t].due, CancelTargets(c.held)[t], at, TRUE)
  <2>1. PICK t \in Targets : TRUE
        BY ClockAssumption
  <2> QED BY <1>1, <2>1, CancelledJudged
<1>3. r \in Copies /\ r.gap = c.gap /\ r.ended = c.ended /\ r.held = CancelTargets(c.held)
      /\ r.row.calendar = c.row.calendar /\ r.row.started = c.row.started
      /\ r.row.current = c.row.current /\ r.row.paused = c.row.paused
      BY <1>2 DEF Copies, InstanceRows
<1>4. Served(c, c, at, TRUE)
      BY ServedNot
<1> HIDE DEF r
<1>5. Served(c, r, at, TRUE)
      BY <1>2, <1>3, <1>4, ServedThenJudged
<1> QED BY <1>5 DEF r

LEMMA ServedSuperseded ==
  ASSUME NEW c \in Copies, c.ended = None, NEW at \in Nat
  PROVE  /\ Served(c, Superseded(c), at, TRUE)
         /\ ~Superseded(c).row.current
<1> DEFINE d == [c EXCEPT !.row.status = "CANCELLED", !.held = CancelTargets(@)]
           e == IF c.row.status \in {"ACTIVE", "PAUSED"} THEN d ELSE c
           r == [e EXCEPT !.row.current = FALSE]
<1>1. Superseded(c) = r
      BY DEF Superseded, Copies
<1>2. Served(c, e, at, TRUE)
      BY ServedCancel, ServedNot
<1> HIDE DEF e
<1>3. e \in Copies
      BY <1>2 DEF Served
<1>4. r \in Copies /\ r.gap = e.gap /\ r.ended = e.ended /\ r.held = e.held
      /\ r.row.calendar = e.row.calendar /\ r.row.started = e.row.started
      /\ r.row.current = FALSE /\ r.row.paused = e.row.paused
      BY <1>3 DEF Copies, InstanceRows
<1>5. \A t \in Targets : Judged(e.held[t], e.held[t].due, r.held[t], at, TRUE)
      BY <1>4 DEF Judged
<1> HIDE DEF r
<1> QED BY <1>1, <1>2, <1>4, <1>5, ServedThenJudged

\* sync_ticket_sla as a whole.
LEMMA ServedSync ==
  ASSUME TimeContract, NEW c \in Copies, c.ended = None, NEW to, NEW old, CanSync(c, to, old),
         NEW at \in Nat
  PROVE  Served(c, Synced(c, to, old, at), at, to = "CANCELLED")
<1> DEFINE stopped == IF Pauses(c, to) THEN Pause(c, at)
                      ELSE IF Resumes(to, old) THEN Resume(c, at) ELSE c
           answered == IF to \in Responds /\ to # old THEN Complete(stopped, "RESPONSE", at) ELSE stopped
           resolved == IF to \in Resolves THEN Complete(answered, "RESOLUTION", at) ELSE answered
           cancelled == [c EXCEPT !.row.status = "CANCELLED", !.held = CancelTargets(@)]
<1>1. Synced(c, to, old, at) = IF to = "CANCELLED" THEN cancelled ELSE Evaluate(resolved, at)
      BY DEF Synced
<1>2. CASE to = "CANCELLED"
  <2>1. Served(c, cancelled, at, TRUE)
        BY ServedCancel
  <2> HIDE DEF cancelled
  <2> QED BY <1>1, <1>2, <2>1
<1>3. CASE to # "CANCELLED"
  <2>1. Served(c, stopped, at, FALSE)
    <3>1. Resumes(to, old) => CanResume(c)
          BY <1>3 DEF CanSync
    <3> QED BY <3>1, ServedPause, ServedResume, ServedNot
  <2> HIDE DEF stopped
  <2>2. "RESPONSE" \in Targets /\ "RESOLUTION" \in Targets
        BY ClockAssumption
  <2>3. Served(c, answered, at, FALSE)
        BY <2>1, <2>2, ServedComplete
  <2> HIDE DEF answered
  <2>4. Served(c, resolved, at, FALSE)
        BY <2>2, <2>3, ServedComplete
  <2> HIDE DEF resolved
  <2>5. Served(c, Evaluate(resolved, at), at, FALSE)
        BY <2>4, ServedEvaluate
  <2> HIDE DEF cancelled
  <2> QED BY <1>1, <1>3, <2>5
<1> QED BY <1>2, <1>3

-----------------------------------------------------------------------------
(* What a transaction writes.                                              *)

LEMMA WrittenTarget ==
  ASSUME NEW read \in TargetRows, NEW copy \in TargetRows, NEW stored \in TargetRows
  PROVE  LET w == Written(read, copy, stored)
         IN  /\ w \in TargetRows
             /\ w.status = IF copy.status = read.status THEN stored.status ELSE copy.status
             /\ w.due = IF copy.due = read.due THEN stored.due ELSE copy.due
             /\ w.metAt = IF copy.metAt = read.metAt THEN stored.metAt ELSE copy.metAt
             /\ w.breachedAt = IF copy.breachedAt = read.breachedAt THEN stored.breachedAt ELSE copy.breachedAt
BY DEF Written, TargetRows

LEMMA WrittenRow ==
  ASSUME NEW read \in InstanceRows, NEW copy \in InstanceRows, NEW stored \in InstanceRows
  PROVE  LET w == Written(read, copy, stored)
         IN  /\ w \in InstanceRows
             /\ w.current = IF copy.current = read.current THEN stored.current ELSE copy.current
             /\ w.calendar = IF copy.calendar = read.calendar THEN stored.calendar ELSE copy.calendar
             /\ w.started = IF copy.started = read.started THEN stored.started ELSE copy.started
             /\ w.paused = IF copy.paused = read.paused THEN stored.paused ELSE copy.paused
BY DEF Written, InstanceRows

\* A deadline that a session has extended, and the working time it then grants.
LEMMA ExtendedWork ==
  ASSUME TimeContract, NEW row \in InstanceRows, NEW tg \in TargetRows, NEW m \in Nat, NEW t \in Targets,
         Solid(row, tg, t)
  PROVE  LET d == Extended(row, tg, m)
         IN  /\ d \in Nat /\ d >= tg.due /\ d >= row.started
             /\ Worked(row, d) \in Nat /\ Worked(row, tg.due) \in Nat
             /\ Worked(row, d) >= Worked(row, tg.due)
             /\ tg.status \in Open => Worked(row, d) >= Worked(row, tg.due) + Minute * m
             /\ m = 0 => d = tg.due
<1> DEFINE d == Extended(row, tg, m)
<1>1. row.calendar \in Calendars /\ row.started \in Nat /\ tg.due \in Nat /\ tg.due >= row.started
      BY DEF InstanceRows, TargetRows, Solid
<1>2. Grants(row.calendar, tg.due, m)
      BY <1>1 DEF TimeContract
<1>3. /\ d \in Nat /\ d >= tg.due
      /\ tg.status \in Open => WorkingTicks(row.calendar, tg.due, d) >= Minute * m
      /\ m = 0 => d = tg.due
      BY <1>1, <1>2, NoMinutes DEF Grants, Extended
<1> HIDE DEF d
<1>4. Minute * m \in Nat
      BY TimeAssumption
<1>5. /\ Worked(row, d) \in Nat /\ Worked(row, tg.due) \in Nat
      /\ WorkingTicks(row.calendar, tg.due, d) \in Nat
      /\ Worked(row, d) >= Worked(row, tg.due) + WorkingTicks(row.calendar, tg.due, d)
      BY <1>1, <1>3, WorkAddsUp DEF Worked
<1> QED BY <1>1, <1>3, <1>4, <1>5 DEF d

\* A later instant has no less working time behind it.
LEMMA WorkedLater ==
  ASSUME NEW row \in InstanceRows, NEW x \in Nat, NEW y \in Nat, row.started <= x, x <= y
  PROVE  Worked(row, x) \in Nat /\ Worked(row, y) \in Nat /\ Worked(row, x) <= Worked(row, y)
<1>1. row.started \in Nat
      BY DEF InstanceRows
<1>2. /\ WorkingTicks(row.calendar, row.started, x) \in Nat
      /\ WorkingTicks(row.calendar, x, y) \in Nat
      /\ WorkingTicks(row.calendar, row.started, y) \in Nat
      /\ WorkingTicks(row.calendar, row.started, y) >=
           WorkingTicks(row.calendar, row.started, x) + WorkingTicks(row.calendar, x, y)
      BY <1>1, WorkAddsUp
<1> QED BY <1>2 DEF Worked

\* What is solid depends on the calendar and the start of the instance alone.
LEMMA SolidAlike ==
  ASSUME NEW row, NEW other, row.calendar = other.calendar, row.started = other.started,
         NEW tg, NEW t, Solid(row, tg, t)
  PROVE  Solid(other, tg, t) /\ \A x : Worked(other, x) = Worked(row, x)
BY DEF Solid, Worked

\* What a session makes of a solid copy is solid.
LEMMA JudgedSolid ==
  ASSUME TimeContract, NEW row \in InstanceRows, NEW h \in TargetRows, NEW b \in TargetRows,
         NEW m \in Nat, NEW t \in Targets, NEW at \in Nat, NEW gone,
         Solid(row, h, t), Judged(h, Extended(row, h, m), b, at, gone)
  PROVE  Solid(row, b, t)
<1> DEFINE d == Extended(row, h, m)
<1>1. /\ d \in Nat /\ d >= row.started /\ Worked(row, d) \in Nat /\ Worked(row, h.due) \in Nat
      /\ Worked(row, d) >= Worked(row, h.due)
      BY ExtendedWork
<1>2. Minute * Duration[t] \in Nat /\ Worked(row, h.due) >= Minute * Duration[t]
      BY ClockAssumption, TimeAssumption DEF Solid
<1>3. Worked(row, d) >= Minute * Duration[t]
      BY <1>1, <1>2
<1>4. Judged(h, d, b, at, gone)
      OBVIOUS
<1> HIDE DEF d
<1>5. ASSUME b.breachedAt # None PROVE Worked(row, b.breachedAt) >= Minute * Duration[t]
  <2>1. CASE b.breachedAt = h.breachedAt
        BY <1>5, <2>1 DEF Solid
  <2>2. CASE b.breachedAt = at /\ at >= d
    <3>1. Worked(row, at) \in Nat /\ Worked(row, at) >= Worked(row, d)
      <4>1. row.started \in Nat /\ row.started <= d /\ d <= at
            BY <1>1, <2>2 DEF InstanceRows
      <4> QED BY <1>1, <4>1, WorkedLater
    <3> QED BY <1>1, <1>2, <1>3, <2>2, <3>1
  <2> QED BY <1>4, <2>1, <2>2 DEF Judged
<1>6. b.due >= row.started /\ Worked(row, b.due) >= Minute * Duration[t]
      BY <1>1, <1>3, <1>4 DEF Judged
<1>7. (b.status = "MET" => b.metAt # None) /\ (b.status = "BREACHED" => b.breachedAt # None)
      BY <1>4, NoneAssumption DEF Judged, Solid
<1> QED BY <1>5, <1>6, <1>7 DEF Solid

\* What a later stored target keeps of an earlier one: l and l2 are lost before
\* and after, k and k2 the ticket's status.
Follows(row, tg, l, k, row2, tg2, l2, k2) ==
  /\ row2.calendar = row.calendar /\ row2.started = row.started
  /\ row2.current => row.current
  /\ k = "CANCELLED" => k2 = "CANCELLED"
  /\ tg.metAt # None => tg2.metAt # None
  /\ tg.breachedAt # None => tg2.breachedAt # None
  /\ ~l2 => ~l /\ tg.due <= tg2.due

LEMMA CopiedFollows ==
  ASSUME NEW row, NEW tg \in TargetRows, NEW l, NEW k, NEW row2, NEW tg2 \in TargetRows, NEW l2, NEW k2,
         NEW h \in TargetRows, NEW t,
         Copied(h, tg, row, l, k, t), Follows(row, tg, l, k, row2, tg2, l2, k2)
  PROVE  Copied(h, tg2, row2, l2, k2, t)
<1>1. Solid(row2, h, t)
      BY SolidAlike DEF Copied, Follows
<1>2. h.due \in Nat /\ tg.due \in Nat /\ tg2.due \in Nat
      BY DEF TargetRows
<1> QED BY <1>1, <1>2 DEF Copied, Follows, Over

LEMMA MoreMinutes ==
  ASSUME NEW n \in Nat, NEW p \in Nat, NEW m \in Nat, m # 0
  PROVE  /\ Minute * m \in Nat /\ Minute * m > 0 /\ Minute * (n + p) \in Nat
         /\ Minute * (n + (p + m)) = Minute * (n + p) + Minute * m
<1>1. Minute \in Nat /\ Minute > 0
      BY TimeAssumption
<1>2. Minute * m \in Nat /\ Minute * (n + p) \in Nat
      BY <1>1
<1>3. Minute * m > 0
      BY <1>1
<1>4. Minute * ((n + p) + m) = Minute * (n + p) + Minute * m
  <2> DEFINE q == n + p
  <2>1. q \in Nat
        OBVIOUS
  <2> HIDE DEF q
  <2>2. Minute * (q + m) = Minute * q + Minute * m
        BY <1>1, <2>1
  <2> QED BY <2>2 DEF q
<1>5. n + (p + m) = (n + p) + m
      OBVIOUS
<1> QED BY <1>2, <1>3, <1>4, <1>5

(***************************************************************************)
(* The heart of it: a transaction that has made r of its copy c and writes *)
(* the columns that differ over the stored row and target, which may be    *)
(* others than the ones it has read.                                       *)
(***************************************************************************)
Writing(row, tg, ps, l, k, c, r, at, gone, t, ps2, l2, k2) ==
  /\ row \in InstanceRows /\ tg \in TargetRows /\ c \in Copies
  /\ at \in Nat /\ gone \in BOOLEAN /\ t \in Targets /\ l \in BOOLEAN /\ l2 \in BOOLEAN
  /\ Served(c, r, at, gone)
  /\ c.row.calendar = row.calendar /\ c.row.started = row.started
  /\ Recorded(row, tg, ps, l, k, t) /\ Copied(c.held[t], tg, row, l, k, t)
  /\ c.gap # None => ps # <<>>
  /\ ps2 = <<>> => ps = <<>>
  /\ k = "CANCELLED" => k2 = "CANCELLED"
  /\ gone => Over(Written(c.row, r.row, row), k2)
  /\ ~l2 => /\ ~l
            /\ c.row.paused \in {r.row.paused, row.paused}
            /\ c.held[t].due \in {r.held[t].due, tg.due}

LEMMA WriteRecorded ==
  ASSUME TimeContract,
         NEW row, NEW tg, NEW ps, NEW l, NEW k, NEW c, NEW r, NEW at, NEW gone, NEW t,
         NEW ps2, NEW l2, NEW k2,
         Writing(row, tg, ps, l, k, c, r, at, gone, t, ps2, l2, k2)
  PROVE  LET row2 == Written(c.row, r.row, row)
             tg2 == Written(c.held[t], r.held[t], tg)
         IN  /\ row2 \in InstanceRows /\ tg2 \in TargetRows
             /\ Recorded(row2, tg2, ps2, l2, k2, t)
             /\ Follows(row, tg, l, k, row2, tg2, l2, k2)
<1> DEFINE row2 == Written(c.row, r.row, row)
           tg2 == Written(c.held[t], r.held[t], tg)
           h == c.held[t]
           b == r.held[t]
<1> USE DEF Writing
<1>1. PICK m \in Nat : /\ r.row.paused = c.row.paused + m
                       /\ m # 0 => c.gap # None
                       /\ Judged(h, Extended(c.row, h, m), b, at, gone)
      BY DEF Served
<1> DEFINE d == Extended(c.row, h, m)
<1>2. /\ h \in TargetRows /\ b \in TargetRows /\ c.row \in InstanceRows /\ r.row \in InstanceRows
      /\ r.row.calendar = c.row.calendar /\ r.row.started = c.row.started
      /\ r.row.current = c.row.current \/ (gone /\ ~r.row.current)
      BY DEF Served, Copies
<1>3. /\ tg2 \in TargetRows
      /\ tg2.status = IF b.status = h.status THEN tg.status ELSE b.status
      /\ tg2.due = IF b.due = h.due THEN tg.due ELSE b.due
      /\ tg2.metAt = IF b.metAt = h.metAt THEN tg.metAt ELSE b.metAt
      /\ tg2.breachedAt = IF b.breachedAt = h.breachedAt THEN tg.breachedAt ELSE b.breachedAt
      BY <1>2, WrittenTarget
<1>4. /\ row2 \in InstanceRows
      /\ row2.calendar = row.calendar /\ row2.started = row.started
      /\ row2.current => row.current
      /\ row2.paused = IF r.row.paused = c.row.paused THEN row.paused ELSE r.row.paused
  <2>1. /\ row2 \in InstanceRows
        /\ row2.current = IF r.row.current = c.row.current THEN row.current ELSE r.row.current
        /\ row2.calendar = IF r.row.calendar = c.row.calendar THEN row.calendar ELSE r.row.calendar
        /\ row2.started = IF r.row.started = c.row.started THEN row.started ELSE r.row.started
        /\ row2.paused = IF r.row.paused = c.row.paused THEN row.paused ELSE r.row.paused
        BY <1>2, WrittenRow
  <2>2. row2.calendar = row.calendar /\ row2.started = row.started
        BY <1>2, <2>1
  <2>3. row2.current => row.current
        BY <1>2, <2>1
  <2> QED BY <2>1, <2>2, <2>3
<1> HIDE DEF row2, tg2
<1>5. Solid(c.row, h, t) /\ \A x : Worked(row, x) = Worked(c.row, x)
      BY SolidAlike DEF Copied
<1>6. /\ d \in Nat /\ d >= h.due
      /\ Worked(row, d) \in Nat /\ Worked(row, h.due) \in Nat
      /\ h.status \in Open => Worked(row, d) >= Worked(row, h.due) + Minute * m
      /\ m = 0 => d = h.due
      BY <1>2, <1>5, ExtendedWork
<1>7. Solid(row, b, t)
      BY <1>1, <1>2, <1>5, JudgedSolid, SolidAlike
<1>8. Judged(h, d, b, at, gone)
      BY <1>1
<1> HIDE DEF d, h, b
<1>9. /\ tg.metAt # None => tg2.metAt # None
      /\ b.metAt # None => tg2.metAt # None
      /\ tg.breachedAt # None => tg2.breachedAt # None
      /\ b.breachedAt # None => tg2.breachedAt # None
      BY <1>3, <1>8, NoneAssumption DEF Judged, Copied, h
<1>10. Solid(row2, tg2, t)
  <2>1. tg2.due >= row.started /\ Worked(row, tg2.due) >= Minute * Duration[t]
        BY <1>3, <1>7 DEF Recorded, Solid
  <2>2. tg2.breachedAt # None => Worked(row, tg2.breachedAt) >= Minute * Duration[t]
        BY <1>3, <1>7 DEF Recorded, Solid
  <2>3. tg2.status = "MET" => tg2.metAt # None
        BY <1>3, <1>7, <1>9 DEF Recorded, Solid
  <2>4. tg2.status = "BREACHED" => tg2.breachedAt # None
        BY <1>3, <1>7, <1>9 DEF Recorded, Solid
  <2>5. Solid(row, tg2, t)
        BY <2>1, <2>2, <2>3, <2>4 DEF Solid
  <2> QED BY <1>4, <2>5, SolidAlike
<1>11. ~l2 => tg.due <= tg2.due
  <2>1. tg.due \in Nat
        BY DEF TargetRows
  <2> QED BY <1>3, <1>6, <1>8, <2>1 DEF Judged, h, b
<1>12. Over(row, k) => Over(row2, k2)
       BY <1>4 DEF Over
<1>13. gone => Over(row2, k2)
       BY DEF row2
<1>14. tg2.status = "CANCELLED" => Over(row2, k2)
       BY <1>3, <1>8, <1>12, <1>13 DEF Recorded, Judged
<1>15. ASSUME ~l2, Unjudged(tg2), ~Over(row2, k2)
       PROVE  Worked(row2, tg2.due) >= Minute * (Duration[t] + row2.paused)
  <2>1. tg.metAt = None /\ tg.breachedAt = None /\ ~Over(row, k) /\ ~gone /\ ~l
        BY <1>9, <1>12, <1>13, <1>15 DEF Unjudged
  <2>2. h.metAt = None /\ h.breachedAt = None
        BY <2>1 DEF Copied, h
  <2>3. tg.status \in Open /\ h.status \in Open
    <3>1. tg.status \notin {"MET", "BREACHED", "CANCELLED"}
          BY <2>1 DEF Recorded, Solid
    <3>2. h.status \notin {"MET", "BREACHED", "CANCELLED"}
          BY <2>1, <2>2 DEF Copied, Solid, h
    <3> QED BY <1>2, <3>1, <3>2 DEF TargetRows, Open
  <2>4. Worked(row, tg.due) >= Minute * (Duration[t] + row.paused)
        BY <2>1, <2>3 DEF Recorded, Unjudged
  <2>5. Worked(row2, tg2.due) = Worked(row, tg2.due)
        BY <1>4 DEF Worked
  <2>6. c.row.paused \in Nat /\ row.paused \in Nat
        BY <1>2 DEF InstanceRows
  <2>7. CASE m = 0
    <3>1. tg2.due = tg.due /\ row2.paused = row.paused
          BY <1>1, <1>3, <1>4, <1>6, <1>8, <2>6, <2>7 DEF Judged
    <3> QED BY <2>4, <2>5, <3>1
  <2>8. CASE m # 0
    <3>1. c.row.paused = row.paused /\ row2.paused = row.paused + m
          BY <1>1, <1>4, <1>15, <2>6, <2>8
    <3>2. Minute * m \in Nat /\ Minute * m > 0 /\ Minute * (Duration[t] + row.paused) \in Nat
          /\ Minute * (Duration[t] + (row.paused + m)) = Minute * (Duration[t] + row.paused) + Minute * m
      <4>1. Duration[t] \in Nat
            BY ClockAssumption
      <4>2. row.paused \in Nat /\ m \in Nat /\ m # 0
            BY <2>6, <2>8
      <4> QED BY <4>1, <4>2, MoreMinutes
    <3>3. Worked(row, d) >= Worked(row, h.due) + Minute * m
          BY <1>6, <2>3
    <3>4. d # h.due
          BY <1>6, <3>2, <3>3
    <3>5. tg2.due = d /\ h.due = tg.due
          BY <1>3, <1>8, <1>15, <3>4 DEF Judged, h, b
    <3> QED BY <1>6, <2>4, <2>5, <3>1, <3>2, <3>3, <3>5
  <2> QED BY <2>7, <2>8
<1>16. ASSUME ps2 = <<>>, row2.started % Minute = 0
       PROVE  Worked(row2, tg2.due) = Minute * Duration[t]
  <2>1. ps = <<>> /\ c.gap = None /\ m = 0
        BY <1>1, <1>16
  <2>2. tg2.due = tg.due
        BY <1>3, <1>6, <1>8, <2>1 DEF Judged
  <2> QED BY <1>4, <1>16, <2>1, <2>2 DEF Recorded, Worked
<1>17. ASSUME ~l2, tg2.metAt # None, tg2.breachedAt = None PROVE tg2.metAt <= tg2.due
  <2>1. b.breachedAt = None /\ tg.breachedAt = None /\ ~l
        BY <1>9, <1>17
  <2>2. h.due \in Nat /\ tg.due \in Nat /\ tg2.due \in Nat /\ tg.metAt \in Times /\ tg2.metAt \in Times
        BY <1>2, <1>3 DEF TargetRows
  <2>3. CASE b.metAt = h.metAt
    <3>1. tg2.metAt = tg.metAt /\ tg.metAt <= tg.due
          BY <1>3, <1>17, <2>1, <2>3 DEF Recorded
    <3> QED BY <1>11, <1>17, <2>2, <3>1 DEF Times
  <2>4. CASE b.metAt # h.metAt
    <3>1. tg2.metAt = at /\ at <= d /\ b.due = d
          BY <1>3, <1>8, <2>1, <2>4 DEF Judged
    <3>2. d <= tg2.due
      <4>1. h.due <= tg.due
            BY <2>1 DEF Copied, h
      <4> QED BY <1>3, <1>6, <2>2, <3>1, <4>1
    <3> QED BY <1>6, <2>2, <3>1, <3>2
  <2> QED BY <2>3, <2>4
<1>18. Recorded(row2, tg2, ps2, l2, k2, t)
       BY <1>10, <1>14, <1>15, <1>16, <1>17 DEF Recorded
<1>19. Follows(row, tg, l, k, row2, tg2, l2, k2)
       BY <1>4, <1>9, <1>11 DEF Follows
<1> QED BY <1>3, <1>4, <1>18, <1>19 DEF row2, tg2, h, b

-----------------------------------------------------------------------------
(* A new instance.                                                         *)

LEMMA FreshRecorded ==
  ASSUME TimeContract, NEW calendar \in Calendars, NEW at \in Nat
  PROVE  LET f == Fresh(calendar, at)
         IN  /\ f \in Copies /\ f.gap = None /\ f.ended = None
             /\ \A t \in Targets : \A ps, l, k : /\ Recorded(f.row, f.held[t], ps, l, k, t)
                                             /\ Copied(f.held[t], f.held[t], f.row, l, k, t)
<1> DEFINE f == Fresh(calendar, at)
           row == [current |-> TRUE, status |-> "ACTIVE", calendar |-> calendar,
                   started |-> at, paused |-> 0]
           Tg(t) == [status |-> "PENDING",
                     due |-> AddBusinessMinutes(calendar, at, Duration[t]),
                     warn |-> AddBusinessMinutes(calendar, at, Warning[t]),
                     metAt |-> None, breachedAt |-> None]
<1>1. f = [row |-> row, held |-> [t \in Targets |-> Tg(t)], gap |-> None, began |-> None, ended |-> None]
      BY DEF Fresh, Copy
<1>2. row \in InstanceRows /\ row.calendar = calendar /\ row.started = at /\ row.paused = 0
      BY DEF InstanceRows
<1>3. ASSUME NEW t \in Targets
      PROVE  /\ Tg(t) \in TargetRows
             /\ \A ps, l, k : Recorded(row, Tg(t), ps, l, k, t) /\ Copied(Tg(t), Tg(t), row, l, k, t)
  <2>1. Duration[t] \in Nat /\ Warning[t] \in Nat
        BY ClockAssumption
  <2>2. Grants(calendar, at, Duration[t]) /\ Grants(calendar, at, Warning[t])
        BY <2>1 DEF TimeContract
  <2> DEFINE due == AddBusinessMinutes(calendar, at, Duration[t])
             warn == AddBusinessMinutes(calendar, at, Warning[t])
  <2>3. /\ due \in Nat /\ due >= at /\ warn \in Nat
        /\ WorkingTicks(calendar, at, due) >= Minute * Duration[t]
        /\ at % Minute = 0 => WorkingTicks(calendar, at, due) = Minute * Duration[t]
        BY <2>2 DEF Grants
  <2>4. Tg(t) = [status |-> "PENDING", due |-> due, warn |-> warn, metAt |-> None, breachedAt |-> None]
        OBVIOUS
  <2> HIDE DEF due, warn, Tg
  <2>5. /\ Tg(t) \in TargetRows /\ Tg(t).status = "PENDING" /\ Tg(t).due = due
        /\ Tg(t).metAt = None /\ Tg(t).breachedAt = None
        BY <2>3, <2>4 DEF TargetRows, Times
  <2> HIDE DEF row
  <2>6. Worked(row, due) = WorkingTicks(calendar, at, due)
        BY <1>2 DEF Worked
  <2>7. Solid(row, Tg(t), t)
        BY <1>2, <2>3, <2>5, <2>6 DEF Solid
  <2>8. Duration[t] + row.paused = Duration[t]
        BY <1>2, <2>1
  <2>9. \A ps, l, k : Recorded(row, Tg(t), ps, l, k, t)
        BY <1>2, <2>3, <2>5, <2>6, <2>7, <2>8 DEF Recorded
  <2>10. \A l, k : Copied(Tg(t), Tg(t), row, l, k, t)
         BY <2>3, <2>5, <2>7 DEF Copied
  <2> QED BY <2>5, <2>9, <2>10
<1>4. [t \in Targets |-> Tg(t)] \in [Targets -> TargetRows]
      BY <1>3
<1> HIDE DEF f, row, Tg
<1>5. f \in Copies /\ f.gap = None /\ f.ended = None /\ f.row = row /\ \A t \in Targets : f.held[t] = Tg(t)
      BY <1>1, <1>2, <1>4 DEF Copies, Times
<1> QED BY <1>3, <1>5 DEF f

LEMMA WrittenAll ==
  /\ \A read, copy \in TargetRows : Written(read, copy, read) = copy
  /\ \A read, copy \in InstanceRows : Written(read, copy, read) = copy
<1>1. ASSUME NEW read \in TargetRows, NEW copy \in TargetRows PROVE Written(read, copy, read) = copy
  <2>1. \A f \in DOMAIN read : (IF copy[f] = read[f] THEN read[f] ELSE copy[f]) = copy[f]
        OBVIOUS
  <2>2. DOMAIN read = DOMAIN copy /\ copy = [f \in DOMAIN copy |-> copy[f]]
        BY DEF TargetRows
  <2> QED BY <2>1, <2>2 DEF Written
<1>2. ASSUME NEW read \in InstanceRows, NEW copy \in InstanceRows PROVE Written(read, copy, read) = copy
  <2>1. \A f \in DOMAIN read : (IF copy[f] = read[f] THEN read[f] ELSE copy[f]) = copy[f]
        OBVIOUS
  <2>2. DOMAIN read = DOMAIN copy /\ copy = [f \in DOMAIN copy |-> copy[f]]
        BY DEF InstanceRows
  <2> QED BY <2>1, <2>2 DEF Written
<1> QED BY <1>1, <1>2

\* A new instance, after what a service function has made of it.
NewRecorded(new, l, k) ==
  /\ new \in Copies
  /\ \A t \in Targets : Recorded(new.row, new.held[t], Inserted(new), l, k, t)

LEMMA ServedRecorded ==
  ASSUME TimeContract, NEW calendar \in Calendars, NEW at \in Nat, NEW gone \in BOOLEAN,
         NEW new, Served(Fresh(calendar, at), new, at, gone),
         NEW l \in BOOLEAN, NEW k, gone => k = "CANCELLED"
  PROVE  NewRecorded(new, l, k)
<1> DEFINE f == Fresh(calendar, at)
<1>1. /\ f \in Copies /\ f.gap = None /\ f.ended = None
      /\ \A t \in Targets : \A ps, m, j : /\ Recorded(f.row, f.held[t], ps, m, j, t)
                                      /\ Copied(f.held[t], f.held[t], f.row, m, j, t)
      BY FreshRecorded
<1> HIDE DEF f
<1>2. new \in Copies
      BY DEF Served
<1>3. ASSUME NEW t \in Targets PROVE Recorded(new.row, new.held[t], Inserted(new), l, k, t)
  <2>1. f.row \in InstanceRows /\ new.row \in InstanceRows /\ f.held[t] \in TargetRows /\ new.held[t] \in TargetRows
        BY <1>1, <1>2 DEF Copies
  <2>2. Written(f.row, new.row, f.row) = new.row /\ Written(f.held[t], new.held[t], f.held[t]) = new.held[t]
        BY <2>1, WrittenAll
  <2>3. gone => Over(Written(f.row, new.row, f.row), k)
        BY DEF Over
  <2>4. Recorded(f.row, f.held[t], <<>>, l, k, t) /\ Copied(f.held[t], f.held[t], f.row, l, k, t)
        BY <1>1
  <2>5. Served(f, new, at, gone)
        BY DEF f
  <2>6. f.row.paused \in {new.row.paused, f.row.paused} /\ f.held[t].due \in {new.held[t].due, f.held[t].due}
        OBVIOUS
  <2>7. Writing(f.row, f.held[t], <<>>, l, k, f, new, at, gone, t, Inserted(new), l, k)
        BY <1>1, <2>1, <2>3, <2>4, <2>5, <2>6 DEF Writing
  <2>8. Recorded(Written(f.row, new.row, f.row), Written(f.held[t], new.held[t], f.held[t]), Inserted(new), l, k, t)
        BY <2>7, WriteRecorded
  <2> QED BY <2>2, <2>8
<1> QED BY <1>2, <1>3 DEF NewRecorded

-----------------------------------------------------------------------------
(* What a transaction leaves of the tables.                                *)

LEMMA CopyIs ==
  ASSUME Typed, NEW p, NEW s, Attends(p, s, instances, targets, pauses, lost, ticket), s.pc = "WRITE"
  PROVE  /\ CopyOf(s) \in Copies /\ CopyOf(s).ended = None
         /\ CopyOf(s).row = s.row /\ CopyOf(s).held = s.held
         /\ CopyOf(s).gap # None => s.gap \in 1 .. Len(pauses[s.id])
<1> DEFINE g == IF s.gap = 0 THEN None ELSE pauses[s.id][s.gap].start
<1>1. /\ s.row \in InstanceRows /\ s.held \in [Targets -> TargetRows]
      /\ s.id \in 1 .. Len(instances) /\ s.gap \in 0 .. Len(pauses[s.id])
      BY DEF Attends, Typed, Tables
<1>2. pauses[s.id] \in Seq(PauseRows)
      BY <1>1 DEF Typed, Tables
<1>3. g \in Times /\ (g # None => s.gap \in 1 .. Len(pauses[s.id]))
  <2>1. CASE s.gap = 0
        BY <2>1 DEF Times
  <2>2. CASE s.gap # 0
    <3>1. s.gap \in 1 .. Len(pauses[s.id])
          BY <1>1, <1>2, <2>2
    <3>2. pauses[s.id][s.gap] \in PauseRows
          BY <1>2, <3>1, ElementOfSeq
    <3> QED BY <2>2, <3>1, <3>2 DEF Times, PauseRows
  <2> QED BY <2>1, <2>2
<1> HIDE DEF g
<1>4. CopyOf(s) = [row |-> s.row, held |-> s.held, gap |-> g, began |-> None, ended |-> None]
      BY DEF CopyOf, Copy, g
<1> QED BY <1>1, <1>3, <1>4 DEF Copies, Times

LEMMA Exchanged ==
  ASSUME NEW S, NEW q \in Seq(S), NEW i \in 1 .. Len(q), NEW e \in S
  PROVE  /\ [q EXCEPT ![i] = e] \in Seq(S) /\ Len([q EXCEPT ![i] = e]) = Len(q)
         /\ \A j \in 1 .. Len(q) : [q EXCEPT ![i] = e][j] = IF j = i THEN e ELSE q[j]
BY ExceptSeq

LEMMA InsertedSeq ==
  ASSUME NEW c \in Copies
  PROVE  Inserted(c) \in Seq(PauseRows)
<1>1. c.began # None => [start |-> c.began, end |-> None] \in PauseRows
      BY DEF Copies, Times, PauseRows
<1> QED BY <1>1 DEF Inserted

\* The pauses of the instance that is written: there are no fewer.
LEMMA StoredPauses ==
  ASSUME NEW q \in Seq(PauseRows), NEW g, NEW c \in Copies, c.ended # None => g \in 1 .. Len(q)
  PROVE  LET r == (IF c.ended = None THEN q ELSE [q EXCEPT ![g].end = c.ended]) \o Inserted(c)
         IN  r \in Seq(PauseRows) /\ Len(q) <= Len(r) /\ (r = <<>> => q = <<>>)
<1> DEFINE k == IF c.ended = None THEN q ELSE [q EXCEPT ![g].end = c.ended]
           n == Inserted(c)
           r == k \o n
<1>1. k \in Seq(PauseRows) /\ Len(k) = Len(q)
  <2>1. CASE c.ended = None
        BY <2>1
  <2>2. CASE c.ended # None
    <3>1. q[g] \in PauseRows /\ c.ended \in Times /\ g \in 1 .. Len(q)
          BY <2>2 DEF Copies
    <3>2. [q[g] EXCEPT !.end = c.ended] \in PauseRows
          BY <3>1 DEF PauseRows
    <3>3. k = [q EXCEPT ![g] = [q[g] EXCEPT !.end = c.ended]]
          BY <2>2
    <3> HIDE DEF k
    <3> QED BY <3>1, <3>2, <3>3, Exchanged
  <2> QED BY <2>1, <2>2
<1>2. n \in Seq(PauseRows)
      BY InsertedSeq
<1> HIDE DEF k, n
<1>3. r \in Seq(PauseRows) /\ Len(r) = Len(k) + Len(n) /\ Len(k) \in Nat /\ Len(n) \in Nat
  <2>1. k \o n \in Seq(PauseRows) /\ Len(k \o n) = Len(k) + Len(n)
        BY <1>1, <1>2, ConcatProperties
  <2>2. Len(k) \in Nat /\ Len(n) \in Nat
        BY <1>1, <1>2, LenProperties
  <2> QED BY <2>1, <2>2
<1>4. r = <<>> => q = <<>>
      BY <1>1, <1>3, EmptySeq
<1> QED BY <1>1, <1>3, <1>4 DEF k, n

\* What the tables keep of an earlier state of them.
Kept(rows, tgs, stops, l, k, rows2, tgs2, stops2, l2, k2) ==
  /\ Len(rows) <= Len(rows2)
  /\ \A i \in 1 .. Len(rows) :
       /\ Len(stops[i]) <= Len(stops2[i])
       /\ \A t \in Targets : Follows(rows[i], tgs[i][t], l, k, rows2[i], tgs2[i][t], l2, k2)

LEMMA RecordedLater ==
  ASSUME NEW row, NEW tg, NEW ps, NEW l, NEW k, NEW l2, NEW k2, NEW t,
         Recorded(row, tg, ps, l, k, t), ~l2 => ~l, k = "CANCELLED" => k2 = "CANCELLED"
  PROVE  Recorded(row, tg, ps, l2, k2, t)
BY DEF Recorded, Over

\* Session p is about to write r, after which the ticket's status is k2.
Serves(p, s, r, gone, k2) ==
  /\ Attends(p, s, instances, targets, pauses, lost, ticket) /\ s.pc = "WRITE"
  /\ gone \in BOOLEAN /\ Served(CopyOf(s), r, s.at, gone)
  /\ ticket = "CANCELLED" => k2 = "CANCELLED"
  /\ gone => (s.row.current /\ ~r.row.current) \/ k2 = "CANCELLED"

\* What it stores, without a new instance.
Stores(s, r, gone, l2, k2) ==
  LET I == Stored(s, r).instances
      T == Stored(s, r).targets
      P == Stored(s, r).pauses
  IN  /\ Tables(I, T, P) /\ Len(I) = Len(instances)
      /\ Records(I, T, P, l2, k2)
      /\ Kept(instances, targets, pauses, lost, ticket, I, T, P, l2, k2)
      /\ ~gone => \A i \in 1 .. Len(I) : I[i].current = instances[i].current
      /\ s.row.current /\ ~r.row.current => ~I[s.id].current

LEMMA StoredKeeps ==
  ASSUME TimeContract, Typed, Records(instances, targets, pauses, lost, ticket),
         NEW p, NEW s, NEW r, NEW gone, NEW k2, Serves(p, s, r, gone, k2),
         NEW l2 \in BOOLEAN, ~l2 => ~lost /\ ~Overwrites(s, r)
  PROVE  Stores(s, r, gone, l2, k2)
<1> DEFINE c == CopyOf(s)
           id == s.id
           row2 == Written(s.row, r.row, instances[id])
           Tg2(t) == Written(s.held[t], r.held[t], targets[id][t])
           held2 == [t \in Targets |-> Tg2(t)]
           ps2 == (IF r.ended = None THEN pauses[id] ELSE [pauses[id] EXCEPT ![s.gap].end = r.ended]) \o Inserted(r)
           I == [instances EXCEPT ![id] = row2]
           T == [targets EXCEPT ![id] = held2]
           P == [pauses EXCEPT ![id] = ps2]
<1>1. Stored(s, r).instances = I /\ Stored(s, r).targets = T /\ Stored(s, r).pauses = P
      BY DEF Stored
<1>2. /\ id \in 1 .. Len(instances) /\ s.row \in InstanceRows /\ s.at \in Nat
      /\ Served(c, r, s.at, gone) /\ r \in Copies /\ gone \in BOOLEAN /\ lost \in BOOLEAN
      BY DEF Serves, Attends, Served, Typed, Tables
<1>3. /\ c \in Copies /\ c.ended = None /\ c.row = s.row /\ c.held = s.held
      /\ c.gap # None => s.gap \in 1 .. Len(pauses[id])
      BY CopyIs DEF Serves
<1>4. /\ instances \in Seq(InstanceRows) /\ targets \in Seq([Targets -> TargetRows])
      /\ pauses \in Seq(Seq(PauseRows)) /\ Len(targets) = Len(instances) /\ Len(pauses) = Len(instances)
      BY DEF Typed, Tables
<1>5. /\ instances[id] \in InstanceRows /\ targets[id] \in [Targets -> TargetRows]
      /\ pauses[id] \in Seq(PauseRows)
      BY <1>2, <1>4, ElementOfSeq
<1>6. ps2 \in Seq(PauseRows) /\ Len(pauses[id]) <= Len(ps2) /\ (ps2 = <<>> => pauses[id] = <<>>)
  <2>1. r.ended # None => s.gap \in 1 .. Len(pauses[id])
        BY <1>2, <1>3 DEF Served
  <2> QED BY <1>2, <1>5, <2>1, StoredPauses
<1>7. gone => Over(row2, k2)
  <2>1. row2.current = IF r.row.current = s.row.current THEN instances[id].current ELSE r.row.current
        BY <1>2, <1>5, WrittenRow DEF Copies
  <2> QED BY <2>1 DEF Serves, Over
<1>8. ASSUME NEW t \in Targets
      PROVE  /\ row2 \in InstanceRows /\ Tg2(t) \in TargetRows
             /\ Recorded(row2, Tg2(t), ps2, l2, k2, t)
             /\ Follows(instances[id], targets[id][t], lost, ticket, row2, Tg2(t), l2, k2)
  <2>1. targets[id][t] \in TargetRows
        BY <1>5
  <2>2. Recorded(instances[id], targets[id][t], pauses[id], lost, ticket, t)
        BY <1>2, <1>4 DEF Records
  <2>3. Copied(s.held[t], targets[id][t], instances[id], lost, ticket, t)
        /\ s.row.calendar = instances[id].calendar /\ s.row.started = instances[id].started
        BY DEF Serves, Attends
  <2>4. ~l2 => /\ ~lost
               /\ s.row.paused \in {r.row.paused, instances[id].paused}
               /\ s.held[t].due \in {r.held[t].due, targets[id][t].due}
        BY DEF Overwrites
  <2>5. c.gap # None => pauses[id] # <<>>
        BY <1>3, <1>5, EmptySeq
  <2>6. ticket = "CANCELLED" => k2 = "CANCELLED"
        BY DEF Serves
  <2> HIDE DEF row2, ps2, c
  <2>7. gone => Over(Written(c.row, r.row, instances[id]), k2)
        BY <1>3, <1>7 DEF row2
  <2>8. Writing(instances[id], targets[id][t], pauses[id], lost, ticket, c, r, s.at, gone, t, ps2, l2, k2)
        BY <1>2, <1>3, <1>5, <1>6, <2>1, <2>2, <2>3, <2>4, <2>5, <2>6, <2>7 DEF Writing
  <2>9. LET w == Written(c.row, r.row, instances[id])
            v == Written(c.held[t], r.held[t], targets[id][t])
        IN  /\ w \in InstanceRows /\ v \in TargetRows
            /\ Recorded(w, v, ps2, l2, k2, t)
            /\ Follows(instances[id], targets[id][t], lost, ticket, w, v, l2, k2)
        BY <2>8, WriteRecorded
  <2> QED BY <1>3, <2>9 DEF row2
<1>9. row2 \in InstanceRows /\ held2 \in [Targets -> TargetRows] /\ \A t \in Targets : held2[t] = Tg2(t)
  <2>1. PICK t \in Targets : TRUE
        BY ClockAssumption
  <2> QED BY <1>8, <2>1
<1>10. /\ ~gone => row2.current = instances[id].current
       /\ s.row.current /\ ~r.row.current => ~row2.current
  <2>1. row2.current = IF r.row.current = s.row.current THEN instances[id].current ELSE r.row.current
        BY <1>2, <1>5, WrittenRow DEF Copies
  <2> QED BY <1>2, <1>3, <2>1 DEF Served
<1> HIDE DEF c, row2, Tg2, held2, ps2
<1>11. /\ I \in Seq(InstanceRows) /\ Len(I) = Len(instances)
       /\ \A j \in 1 .. Len(instances) : I[j] = IF j = id THEN row2 ELSE instances[j]
       BY <1>2, <1>4, <1>9, Exchanged
<1>12. /\ T \in Seq([Targets -> TargetRows]) /\ Len(T) = Len(instances)
       /\ \A j \in 1 .. Len(instances) : T[j] = IF j = id THEN held2 ELSE targets[j]
       BY <1>2, <1>4, <1>9, Exchanged
<1>13. /\ P \in Seq(Seq(PauseRows)) /\ Len(P) = Len(instances)
       /\ \A j \in 1 .. Len(instances) : P[j] = IF j = id THEN ps2 ELSE pauses[j]
       BY <1>2, <1>4, <1>6, Exchanged
<1> HIDE DEF I, T, P
<1>14. Tables(I, T, P)
       BY <1>11, <1>12, <1>13 DEF Tables
<1>15. ASSUME NEW i \in 1 .. Len(instances)
       PROVE  /\ Len(pauses[i]) <= Len(P[i])
              /\ \A t \in Targets : /\ Recorded(I[i], T[i][t], P[i], l2, k2, t)
                                    /\ Follows(instances[i], targets[i][t], lost, ticket, I[i], T[i][t], l2, k2)
  <2>1. CASE i = id
        BY <1>6, <1>8, <1>9, <1>11, <1>12, <1>13, <2>1
  <2>2. CASE i # id
    <3>1. I[i] = instances[i] /\ T[i] = targets[i] /\ P[i] = pauses[i]
          BY <1>11, <1>12, <1>13, <2>2
    <3>2. Len(pauses[i]) \in Nat
          BY <1>4, ElementOfSeq, LenProperties
    <3>3. ASSUME NEW t \in Targets
          PROVE  /\ Recorded(instances[i], targets[i][t], pauses[i], l2, k2, t)
                 /\ Follows(instances[i], targets[i][t], lost, ticket, instances[i], targets[i][t], l2, k2)
      <4>1. Recorded(instances[i], targets[i][t], pauses[i], lost, ticket, t)
        <5>1. i \in DOMAIN instances
              BY <1>4
        <5> QED BY <5>1 DEF Records
      <4>2. (~l2 => ~lost) /\ (ticket = "CANCELLED" => k2 = "CANCELLED")
            BY DEF Serves
      <4>3. targets[i] \in [Targets -> TargetRows]
            BY <1>4, ElementOfSeq
      <4>4. targets[i][t].due \in Nat
            BY <4>3 DEF TargetRows
      <4> QED BY <4>1, <4>2, <4>4, RecordedLater DEF Follows
    <3> QED BY <3>1, <3>2, <3>3
  <2> QED BY <2>1, <2>2
<1>16. Records(I, T, P, l2, k2)
       BY <1>11, <1>15 DEF Records
<1>17. Kept(instances, targets, pauses, lost, ticket, I, T, P, l2, k2)
  <2>1. Len(instances) \in Nat
        BY <1>4, LenProperties
  <2> QED BY <1>11, <1>15, <2>1 DEF Kept
<1>18. /\ ~gone => \A i \in 1 .. Len(I) : I[i].current = instances[i].current
       /\ s.row.current /\ ~r.row.current => ~I[id].current
       BY <1>2, <1>10, <1>11
<1> QED BY <1>1, <1>11, <1>14, <1>16, <1>17, <1>18 DEF Stores

\* The same with a new instance behind the others.
StoresWith(s, r, new, l2, k2) ==
  LET I == Append(Stored(s, r).instances, new.row)
      T == Append(Stored(s, r).targets, new.held)
      P == Append(Stored(s, r).pauses, Inserted(new))
  IN  /\ Tables(I, T, P) /\ Len(I) = Len(instances) + 1
      /\ Records(I, T, P, l2, k2)
      /\ Kept(instances, targets, pauses, lost, ticket, I, T, P, l2, k2)
      /\ s.row.current /\ ~r.row.current => ~I[s.id].current

Appended(rows, tgs, stops, new, l, k) ==
  LET I == Append(rows, new.row)
      T == Append(tgs, new.held)
      P == Append(stops, Inserted(new))
  IN  /\ Tables(I, T, P) /\ Len(I) = Len(rows) + 1 /\ Records(I, T, P, l, k)
      /\ \A i \in 1 .. Len(rows) : I[i] = rows[i] /\ T[i] = tgs[i] /\ P[i] = stops[i]

LEMMA RecordsAppend ==
  ASSUME NEW rows, NEW tgs, NEW stops, Tables(rows, tgs, stops), NEW l, NEW k, Records(rows, tgs, stops, l, k),
         NEW new, NewRecorded(new, l, k)
  PROVE  Appended(rows, tgs, stops, new, l, k)
<1> DEFINE I == Append(rows, new.row)
           T == Append(tgs, new.held)
           n == Inserted(new)
           P == Append(stops, n)
<1>1. /\ new \in Copies /\ new.row \in InstanceRows /\ new.held \in [Targets -> TargetRows]
      /\ \A t \in Targets : Recorded(new.row, new.held[t], n, l, k, t)
      BY DEF NewRecorded, Copies
<1>2. n \in Seq(PauseRows)
      BY <1>1, InsertedSeq
<1> HIDE DEF n
<1>3. /\ I \in Seq(InstanceRows) /\ Len(I) = Len(rows) + 1
      /\ \A i \in 1 .. Len(rows) : I[i] = rows[i]
      /\ I[Len(rows) + 1] = new.row
      BY <1>1, AppendProperties DEF Tables
<1>4. /\ T \in Seq([Targets -> TargetRows]) /\ Len(T) = Len(rows) + 1
      /\ \A i \in 1 .. Len(rows) : T[i] = tgs[i]
      /\ T[Len(rows) + 1] = new.held
      BY <1>1, AppendProperties DEF Tables
<1>5. /\ P \in Seq(Seq(PauseRows)) /\ Len(P) = Len(rows) + 1
      /\ \A i \in 1 .. Len(rows) : P[i] = stops[i]
      /\ P[Len(rows) + 1] = n
      BY <1>2, AppendProperties DEF Tables
<1> HIDE DEF I, T, P
<1>6. Len(rows) \in Nat /\ DOMAIN I = 1 .. Len(rows) + 1 /\ DOMAIN rows = 1 .. Len(rows)
      BY <1>3 DEF Tables
<1>7. ASSUME NEW i \in DOMAIN I, NEW t \in Targets PROVE Recorded(I[i], T[i][t], P[i], l, k, t)
  <2>1. CASE i \in 1 .. Len(rows)
    <3>1. Recorded(rows[i], tgs[i][t], stops[i], l, k, t)
          BY <1>6, <2>1 DEF Records
    <3> QED BY <1>3, <1>4, <1>5, <2>1, <3>1
  <2>2. CASE i = Len(rows) + 1
        BY <1>1, <1>3, <1>4, <1>5, <2>2
  <2> QED BY <1>6, <2>1, <2>2
<1>8. Records(I, T, P, l, k) /\ Tables(I, T, P)
      BY <1>3, <1>4, <1>5, <1>7 DEF Records, Tables
<1> QED BY <1>3, <1>4, <1>5, <1>8 DEF Appended, I, T, P, n

LEMMA StoredKeepsWith ==
  ASSUME TimeContract, Typed, Records(instances, targets, pauses, lost, ticket),
         NEW p, NEW s, NEW r, NEW gone, NEW k2, Serves(p, s, r, gone, k2),
         NEW l2 \in BOOLEAN, ~l2 => ~lost /\ ~Overwrites(s, r),
         NEW new, NewRecorded(new, l2, k2)
  PROVE  StoresWith(s, r, new, l2, k2)
<1> DEFINE I == Stored(s, r).instances
           T == Stored(s, r).targets
           P == Stored(s, r).pauses
           I2 == Append(I, new.row)
           T2 == Append(T, new.held)
           P2 == Append(P, Inserted(new))
<1>1. /\ Tables(I, T, P) /\ Len(I) = Len(instances)
      /\ Records(I, T, P, l2, k2)
      /\ Kept(instances, targets, pauses, lost, ticket, I, T, P, l2, k2)
      /\ s.row.current /\ ~r.row.current => ~I[s.id].current
      BY StoredKeeps DEF Stores
<1>2. s.id \in 1 .. Len(instances) /\ Len(instances) \in Nat
      BY DEF Serves, Attends, Typed, Tables
<1> HIDE DEF I, T, P
<1>3. Appended(I, T, P, new, l2, k2)
      BY <1>1, RecordsAppend
<1>4. /\ Tables(I2, T2, P2) /\ Len(I2) = Len(I) + 1 /\ Records(I2, T2, P2, l2, k2)
      /\ \A i \in 1 .. Len(I) : I2[i] = I[i] /\ T2[i] = T[i] /\ P2[i] = P[i]
      BY <1>3 DEF Appended
<1> HIDE DEF I2, T2, P2
<1>5. Kept(instances, targets, pauses, lost, ticket, I2, T2, P2, l2, k2)
      BY <1>1, <1>2, <1>4 DEF Kept
<1> QED BY <1>1, <1>2, <1>4, <1>5 DEF StoresWith, I2, T2, P2, I, T, P

-----------------------------------------------------------------------------
(* What the steps of the sessions keep.                                    *)

LEMMA AttendsLater ==
  ASSUME NEW rows, NEW tgs, NEW stops, NEW l, NEW k, Tables(rows, tgs, stops),
         NEW rows2, NEW tgs2, NEW stops2, NEW l2, NEW k2, Tables(rows2, tgs2, stops2),
         Kept(rows, tgs, stops, l, k, rows2, tgs2, stops2, l2, k2),
         NEW p, NEW s, Attends(p, s, rows, tgs, stops, l, k), s.kind = "sync" => k2 = k
  PROVE  Attends(p, s, rows2, tgs2, stops2, l2, k2)
<1>1. /\ s.id \in 1 .. Len(rows) /\ s.id \in 1 .. Len(rows2)
      /\ rows \in Seq(InstanceRows) /\ rows2 \in Seq(InstanceRows)
  <2>1. s.id \in DOMAIN rows /\ rows \in Seq(InstanceRows) /\ rows2 \in Seq(InstanceRows)
        BY DEF Attends, Tables
  <2>2. Len(rows) \in Nat /\ Len(rows2) \in Nat /\ DOMAIN rows = 1 .. Len(rows)
        BY <2>1, LenProperties
  <2> QED BY <2>1, <2>2 DEF Kept
<1>2. /\ Len(stops[s.id]) <= Len(stops2[s.id])
      /\ \A t \in Targets : Follows(rows[s.id], tgs[s.id][t], l, k, rows2[s.id], tgs2[s.id][t], l2, k2)
      BY <1>1 DEF Kept
<1>3. /\ tgs[s.id] \in [Targets -> TargetRows] /\ tgs2[s.id] \in [Targets -> TargetRows]
      /\ stops[s.id] \in Seq(PauseRows) /\ stops2[s.id] \in Seq(PauseRows)
      BY <1>1, ElementOfSeq DEF Tables
<1>4. Len(stops[s.id]) \in Nat /\ Len(stops2[s.id]) \in Nat
      BY <1>3, LenProperties
<1>5. rows2[s.id].calendar = rows[s.id].calendar /\ rows2[s.id].started = rows[s.id].started
  <2>1. PICK t \in Targets : TRUE
        BY ClockAssumption
  <2> QED BY <1>2, <2>1 DEF Follows
<1>6. ASSUME s.pc = "WRITE", NEW t \in Targets
      PROVE  Copied(s.held[t], tgs2[s.id][t], rows2[s.id], l2, k2, t)
  <2>1. Copied(s.held[t], tgs[s.id][t], rows[s.id], l, k, t) /\ s.held \in [Targets -> TargetRows]
        BY <1>6 DEF Attends
  <2>2. tgs[s.id][t] \in TargetRows /\ tgs2[s.id][t] \in TargetRows /\ s.held[t] \in TargetRows
        BY <1>3, <2>1
  <2> QED BY <1>2, <2>1, <2>2, CopiedFollows
<1>7. s.pc = "WRITE" => s.held \in [Targets -> TargetRows] /\ s.gap \in 0 .. Len(stops2[s.id])
      BY <1>2, <1>4 DEF Attends
<1>8. s.id \in DOMAIN rows2
      BY <1>1
<1> QED BY <1>5, <1>6, <1>7, <1>8 DEF Attends

LEMMA NotLocked ==
  ASSUME DInv, ~Locked
  PROVE  \A q \in Parties : session[q] # None => ~Holding(session[q])
<1> SUFFICES ASSUME NEW q \in Parties, session[q] # None, Holding(session[q]) PROVE FALSE
    OBVIOUS
<1>1. Attends(q, session[q], instances, targets, pauses, lost, ticket)
      BY DEF DInv
<1> QED BY <1>1 DEF Attends, Holding, Locked

\* What party p may carry on with, or have done with (None).
Begins(p, s) ==
  s # None =>
    /\ Attends(p, s, instances, targets, pauses, lost, ticket)
    /\ Holding(s) => /\ instances[s.id].current
                     /\ \A q \in Parties \ {p} : session[q] # None => ~Holding(session[q])

LEMMA BeginKeeps ==
  ASSUME DInv, NEW p \in Parties, NEW s, Begins(p, s), Begin(p, s),
         UNCHANGED <<now, ticket, instances, targets, pauses, lost>>
  PROVE  DInv'
<1>1. /\ DOMAIN session = Parties /\ session = [q \in Parties |-> session[q]]
      /\ session' = [session EXCEPT ![p] = s]
      BY DEF DInv, Typed, Begin
<1>2. /\ DOMAIN session' = Parties /\ session' = [q \in Parties |-> session'[q]]
      /\ session'[p] = s /\ \A q \in Parties \ {p} : session'[q] = session[q]
      BY <1>1
<1>3. Typed'
      BY <1>2 DEF DInv, Typed
<1>4. OneCurrent' /\ (ticket = None => instances = <<>>)' /\ Records(instances, targets, pauses, lost, ticket)'
      BY DEF DInv, OneCurrent
<1>5. ASSUME NEW q \in Parties, session'[q] # None
      PROVE  Attends(q, session'[q], instances, targets, pauses, lost, ticket)
      BY <1>2, <1>5 DEF DInv, Begins
<1>6. ASSUME NEW q \in Parties, session'[q] # None, Holding(session'[q])
      PROVE  /\ instances[session'[q].id].current
             /\ \A o \in Parties : session'[o] # None /\ Holding(session'[o]) => o = q
  <2>1. CASE q = p
        BY <1>2, <1>6, <2>1 DEF Begins
  <2>2. CASE q # p
    <3>1. session'[q] = session[q]
          BY <1>2, <2>2
    <3>2. instances[session[q].id].current /\ \A o \in Parties : session[o] # None /\ Holding(session[o]) => o = q
          BY <1>6, <3>1 DEF DInv, OneHolder
    <3>3. ~(s # None /\ Holding(s))
          BY <1>6, <2>2, <3>1 DEF Begins
    <3> QED BY <1>2, <3>1, <3>2, <3>3
  <2> QED BY <2>1, <2>2
<1>7. OneHolder'
      BY <1>6 DEF OneHolder
<1> QED BY <1>3, <1>4, <1>5, <1>7 DEF DInv


\* What the transaction of party p leaves behind, besides what it keeps: one
\* that does not hold the lock leaves current what was current.
Commits(p, s, rows, tgs, stops, l, k) ==
  /\ Tables(rows, tgs, stops) /\ Records(rows, tgs, stops, l, k)
  /\ Kept(instances, targets, pauses, lost, ticket, rows, tgs, stops, l, k)
  /\ l \in BOOLEAN /\ k \in Statuses /\ (s.kind # "sync" => k = ticket)
  /\ ~Holding(s) => \A i \in 1 .. Len(instances) : rows[i].current = instances[i].current
  /\ \A i, j \in DOMAIN rows : rows[i].current /\ rows[j].current => i = j

LEMMA CommitKeeps ==
  ASSUME DInv, NEW p \in Parties, session[p] # None, End(p), now' = now,
         Commits(p, session[p], instances', targets', pauses', lost', ticket')
  PROVE  DInv'
<1>1. /\ DOMAIN session = Parties /\ session = [q \in Parties |-> session[q]]
      /\ session' = [session EXCEPT ![p] = None]
      BY DEF DInv, Typed, Begin, End
<1>2. /\ DOMAIN session' = Parties /\ session' = [q \in Parties |-> session'[q]]
      /\ session'[p] = None /\ \A q \in Parties \ {p} : session'[q] = session[q]
      BY <1>1
<1>3. Typed'
      BY <1>2 DEF DInv, Typed, Commits
<1>4. OneCurrent' /\ (ticket = None => instances = <<>>)'
      BY NoneAssumption DEF Commits, OneCurrent
<1>5. Records(instances', targets', pauses', lost', ticket')
      BY DEF Commits
<1>6. Attends(p, session[p], instances, targets, pauses, lost, ticket) /\ Tables(instances, targets, pauses)
      BY DEF DInv, Typed
<1>7. ASSUME NEW q \in Parties, session'[q] # None
      PROVE  Attends(q, session'[q], instances', targets', pauses', lost', ticket')
  <2>1. q # p /\ session'[q] = session[q]
        BY <1>2, <1>7
  <2>2. Attends(q, session[q], instances, targets, pauses, lost, ticket)
        BY <1>7, <2>1 DEF DInv
  <2>3. session[q].kind = "sync" => ticket' = ticket
        BY <1>6, <2>1, <2>2 DEF Attends, Commits
  <2>4. Attends(q, session[q], instances', targets', pauses', lost', ticket')
        BY <1>6, <2>2, <2>3, AttendsLater DEF Commits
  <2> QED BY <2>1, <2>4
<1>8. ASSUME NEW q \in Parties, session'[q] # None, Holding(session'[q])
      PROVE  /\ instances'[session'[q].id].current
             /\ \A o \in Parties : session'[o] # None /\ Holding(session'[o]) => o = q
  <2>1. q # p /\ session'[q] = session[q]
        BY <1>2, <1>8
  <2>2. instances[session[q].id].current /\ \A o \in Parties : session[o] # None /\ Holding(session[o]) => o = q
        BY <1>8, <2>1 DEF DInv, OneHolder
  <2>3. ~Holding(session[p])
        BY <2>1, <2>2
  <2>4. session[q].id \in 1 .. Len(instances)
    <3>1. session[q].id \in DOMAIN instances
          BY <1>8, <2>1 DEF DInv, Attends
    <3> QED BY <1>6, <3>1 DEF Tables
  <2>5. instances'[session[q].id].current
        BY <2>2, <2>3, <2>4 DEF Commits
  <2> QED BY <1>2, <2>1, <2>2, <2>5
<1>9. OneHolder'
      BY <1>8 DEF OneHolder
<1> QED BY <1>3, <1>4, <1>5, <1>7, <1>9 DEF DInv

\* Nobody else's transaction makes an instance current.
LEMMA CurrentKept ==
  ASSUME DInv, NEW rows, NEW tgs, NEW stops, NEW l, NEW k, Tables(rows, tgs, stops),
         Kept(instances, targets, pauses, lost, ticket, rows, tgs, stops, l, k)
  PROVE  /\ \A i \in 1 .. Len(instances) : rows[i].current => instances[i].current
         /\ \A i, j \in 1 .. Len(instances) : rows[i].current /\ rows[j].current => i = j
<1>1. PICK t \in Targets : TRUE
      BY ClockAssumption
<1>2. \A i \in 1 .. Len(instances) : rows[i].current => instances[i].current
      BY <1>1 DEF Kept, Follows
<1>3. DOMAIN instances = 1 .. Len(instances)
      BY DEF DInv, Typed, Tables
<1> QED BY <1>2, <1>3 DEF DInv, OneCurrent

LEMMA SaveCommits ==
  ASSUME TimeContract, DInv, NEW p \in Parties, session[p] # None, NEW r, NEW gone,
         Serves(p, session[p], r, gone, ticket'), Save(session[p], r),
         ticket' \in Statuses, session[p].kind # "sync" => ticket' = ticket,
         gone => Holding(session[p])
  PROVE  Commits(p, session[p], instances', targets', pauses', lost', ticket')
<1> DEFINE s == session[p]
<1>1. lost' \in BOOLEAN /\ (~lost' => ~lost /\ ~Overwrites(s, r))
      BY DEF Save
<1>2. Typed /\ Records(instances, targets, pauses, lost, ticket)
      BY DEF DInv
<1>3. Stores(s, r, gone, lost', ticket')
      BY <1>1, <1>2, StoredKeeps
<1>4. /\ instances' = Stored(s, r).instances /\ targets' = Stored(s, r).targets /\ pauses' = Stored(s, r).pauses
      BY DEF Save
<1>5. /\ Tables(instances', targets', pauses') /\ Len(instances') = Len(instances)
      /\ Records(instances', targets', pauses', lost', ticket')
      /\ Kept(instances, targets, pauses, lost, ticket, instances', targets', pauses', lost', ticket')
      /\ ~gone => \A i \in 1 .. Len(instances') : instances'[i].current = instances[i].current
      BY <1>3, <1>4 DEF Stores
<1>6. DOMAIN instances' = 1 .. Len(instances)
      BY <1>5 DEF Tables
<1>7. \A i, j \in DOMAIN instances' : instances'[i].current /\ instances'[j].current => i = j
      BY <1>5, <1>6, CurrentKept
<1> QED BY <1>1, <1>5, <1>7 DEF Commits

LEMMA SaveWithCommits ==
  ASSUME TimeContract, DInv, NEW p \in Parties, session[p] # None, NEW r, NEW new,
         Serves(p, session[p], r, TRUE, ticket'), SaveWith(session[p], r, new),
         NewRecorded(new, lost', ticket'),
         ticket' \in Statuses, session[p].kind # "sync" => ticket' = ticket,
         Holding(session[p]), session[p].row.current, ~r.row.current
  PROVE  Commits(p, session[p], instances', targets', pauses', lost', ticket')
<1> DEFINE s == session[p]
<1>1. lost' \in BOOLEAN /\ (~lost' => ~lost /\ ~Overwrites(s, r))
      BY DEF SaveWith
<1>2. Typed /\ Records(instances, targets, pauses, lost, ticket)
      BY DEF DInv
<1>3. StoresWith(s, r, new, lost', ticket')
      BY <1>1, <1>2, StoredKeepsWith
<1>4. /\ instances' = Append(Stored(s, r).instances, new.row)
      /\ targets' = Append(Stored(s, r).targets, new.held)
      /\ pauses' = Append(Stored(s, r).pauses, Inserted(new))
      BY DEF SaveWith
<1>5. /\ Tables(instances', targets', pauses') /\ Len(instances') = Len(instances) + 1
      /\ Records(instances', targets', pauses', lost', ticket')
      /\ Kept(instances, targets, pauses, lost, ticket, instances', targets', pauses', lost', ticket')
      /\ ~instances'[s.id].current
      BY <1>3, <1>4 DEF StoresWith
<1>6. /\ Len(instances) \in Nat
      /\ DOMAIN instances = 1 .. Len(instances) /\ DOMAIN instances' = 1 .. Len(instances) + 1
      BY <1>2, <1>5 DEF Typed, Tables
<1>7. s.id \in 1 .. Len(instances) /\ instances[s.id].current
      BY <1>6 DEF Serves, Attends, DInv, OneHolder
<1>8. \A i \in 1 .. Len(instances) : ~instances'[i].current
  <2>1. \A i \in 1 .. Len(instances) : instances'[i].current => instances[i].current
        BY <1>5, CurrentKept
  <2>2. \A i \in 1 .. Len(instances) : instances[i].current => i = s.id
        BY <1>6, <1>7 DEF DInv, OneCurrent
  <2> QED BY <1>5, <2>1, <2>2
<1>9. \A i, j \in DOMAIN instances' : instances'[i].current /\ instances'[j].current => i = j
      BY <1>6, <1>8
<1> QED BY <1>1, <1>5, <1>9 DEF Commits


-----------------------------------------------------------------------------
(* The actions.                                                            *)

LEMMA StatusesAre ==
  /\ Statuses = {"ASSIGNED", "CANCELLED", "CLOSED", "IN_PROGRESS", "NEW", "REOPENED",
                "RESOLVED", "TRIAGE", "WAITING_USER", "WAITING_VENDOR"}
  /\ \A s \in Statuses : Transitions[s] \subseteq Statuses
  /\ Transitions["CANCELLED"] = {}
<1>1. DOMAIN InOrder = 1 .. 10
      BY DEF InOrder
<1>2. \A i \in 1 .. 10 : i = 1 \/ i = 2 \/ i = 3 \/ i = 4 \/ i = 5 \/ i = 6 \/ i = 7 \/ i = 8 \/ i = 9 \/ i = 10
      OBVIOUS
<1>3. Statuses = {"ASSIGNED", "CANCELLED", "CLOSED", "IN_PROGRESS", "NEW", "REOPENED",
                  "RESOLVED", "TRIAGE", "WAITING_USER", "WAITING_VENDOR"}
      BY <1>1, <1>2 DEF Statuses, InOrder
<1> QED BY <1>3 DEF Transitions

LEMMA InitRecords == Init => DInv
<1> SUFFICES ASSUME Init PROVE DInv
    OBVIOUS
<1>1. Tables(<<>>, <<>>, <<>>)
      BY DEF Tables
<1>2. Typed
  <2>1. DOMAIN session = Parties /\ session = [p \in Parties |-> session[p]]
        BY DEF Init
  <2>2. Horizon \in Nat
        BY ClockAssumption
  <2>3. now \in 0 .. Horizon
        BY <2>2 DEF Init
  <2> QED BY <1>1, <2>1, <2>3 DEF Init, Typed
<1>3. OneHolder /\ OneCurrent /\ Records(instances, targets, pauses, lost, ticket)
      BY DEF Init, OneHolder, OneCurrent, Records
<1>4. \A p \in Parties : session[p] = None
      BY DEF Init
<1> QED BY <1>2, <1>3, <1>4 DEF DInv, Init

LEMMA TickKeeps == DInv /\ Tick => DInv'
<1> SUFFICES ASSUME DInv, Tick PROVE DInv'
    OBVIOUS
<1>1. Typed'
      BY ClockAssumption DEF DInv, Typed, Tick
<1>2. OneHolder' /\ OneCurrent' /\ Records(instances, targets, pauses, lost, ticket)'
      BY DEF DInv, Tick, OneHolder, OneCurrent
<1> QED BY <1>1, <1>2 DEF DInv, Tick

LEMMA CreateKeeps == TimeContract /\ DInv /\ Create => DInv'
<1> SUFFICES ASSUME TimeContract, DInv, Create PROVE DInv'
    OBVIOUS
<1>1. PICK to \in {"NEW", "ASSIGNED"}, calendar \in Calendars :
        LET new == Synced(Fresh(calendar, now), to, None, now)
        IN  /\ ticket' = to
            /\ instances' = <<new.row>> /\ targets' = <<new.held>> /\ pauses' = <<Inserted(new)>>
      BY Zenon DEF Create
<1> DEFINE f == Fresh(calendar, now)
           new == Synced(f, to, None, now)
<1>2. now \in Nat /\ lost \in BOOLEAN /\ lost' = lost
      BY ClockAssumption DEF DInv, Typed, Create
<1>3. f \in Copies /\ f.ended = None
      BY <1>2, FreshRecorded
<1>4. CanSync(f, to, None)
      BY DEF CanSync, CanPause, CanResume, Fresh, Copy
<1>5. Served(f, new, now, FALSE)
  <2>1. Served(f, new, now, to = "CANCELLED")
        BY <1>2, <1>3, <1>4, ServedSync
  <2>2. (to = "CANCELLED") = FALSE
        OBVIOUS
  <2> QED BY <2>1, <2>2
<1>6. NewRecorded(new, lost', ticket')
      BY <1>2, <1>5, ServedRecorded
<1>7. ticket' = to /\ instances' = <<new.row>> /\ targets' = <<new.held>> /\ pauses' = <<Inserted(new)>>
      BY <1>1
<1> HIDE DEF f, new
<1>8. /\ new \in Copies /\ new.row \in InstanceRows /\ new.held \in [Targets -> TargetRows]
      /\ Inserted(new) \in Seq(PauseRows)
      BY <1>6, InsertedSeq DEF NewRecorded, Copies
<1>9. Tables(instances', targets', pauses') /\ DOMAIN instances' = {1}
      BY <1>7, <1>8 DEF Tables
<1>10. Records(instances', targets', pauses', lost', ticket')
       BY <1>6, <1>7, <1>9 DEF Records, NewRecorded
<1>11. to \in Statuses /\ to # None
  <2>1. to \in Statuses
        BY StatusesAre
  <2> QED BY <2>1, NoneAssumption
<1>12. \A p \in Parties : session'[p] = None
  <2>1. instances = <<>> /\ session' = session
        BY DEF DInv, Create
  <2> QED BY <2>1 DEF DInv, Attends
<1>13. Typed'
       BY <1>2, <1>7, <1>9, <1>11 DEF DInv, Typed, Create
<1>14. OneHolder' /\ OneCurrent'
       BY <1>9, <1>12 DEF OneHolder, OneCurrent
<1> QED BY <1>7, <1>10, <1>11, <1>12, <1>13, <1>14 DEF DInv

\* A first read: of a row that exists, with what is yet unknown left out.
LEMMA ReadAttends ==
  ASSUME DInv, NEW p \in Parties, NEW i \in DOMAIN instances, NEW s \in Sessions,
         s.pc = "READ", s.id = i, s.row = instances[i],
         s.kind = "complete" => s.target \in Targets,
         s.kind = "recalculate" => p \in Managers /\ instances[i].current,
         p = "desk" <=> s.kind = "sync",
         s.kind = "sync" => /\ instances[i].current
                            /\ s.to \in Statuses /\ s.at \in Nat /\ (ticket = "CANCELLED" => s.to = "CANCELLED")
  PROVE  Attends(p, s, instances, targets, pauses, lost, ticket)
<1>1. instances[i] \in InstanceRows
      BY DEF DInv, Typed, Tables
<1> QED BY <1>1 DEF Attends

LEMMA DeskReadKeeps == DInv /\ DeskRead => DInv'
<1> SUFFICES ASSUME DInv, DeskRead PROVE DInv'
    OBVIOUS
<1>1. PICK to \in (Transitions[ticket] \cap Aims) \cup {ticket}, priority \in BOOLEAN, i \in Current :
        Begin("desk", [Blank EXCEPT !.kind = "sync", !.to = to, !.old = ticket, !.at = now,
                                    !.force = priority \/ to = "REOPENED", !.id = i, !.row = instances[i]])
      BY Zenon DEF DeskRead
<1> DEFINE force == priority \/ to = "REOPENED"
           s == [Blank EXCEPT !.kind = "sync", !.to = to, !.old = ticket, !.at = now,
                              !.force = force, !.id = i, !.row = instances[i]]
<1>2. i \in DOMAIN instances /\ instances[i].current /\ i \in Nat /\ instances[i] \in InstanceRows /\ now \in Nat
      BY ClockAssumption DEF Current, DInv, Typed, Tables
<1>3. ticket \in Statuses
      BY DEF DeskRead, DInv, Typed
<1>4. to \in Statuses /\ (ticket = "CANCELLED" => to = "CANCELLED")
  BY <1>3, StatusesAre
<1>5. force \in BOOLEAN
      OBVIOUS
<1> HIDE DEF force
<1>6. s \in Sessions
      BY <1>2, <1>3, <1>4, <1>5, NoneAssumption DEF Sessions, Blank, Times
<1>7. /\ s.pc = "READ" /\ s.id = i /\ s.row = instances[i] /\ s.kind = "sync" /\ s.to = to /\ s.at = now
      BY DEF Blank
<1>8. Begin("desk", s)
      BY <1>1 DEF force
<1> HIDE DEF s
<1>9. "desk" \in Parties
      BY DEF Parties
<1>10. Attends("desk", s, instances, targets, pauses, lost, ticket)
       BY <1>2, <1>4, <1>6, <1>7, <1>9, ReadAttends
<1>11. Begins("desk", s)
       BY <1>2, <1>7, <1>10, NotLocked DEF Begins, DeskRead
<1> QED BY <1>8, <1>9, <1>11, BeginKeeps DEF DeskRead


LEMMA ManagerReadKeeps == ASSUME DInv, NEW m \in Managers, ManagerRead(m) PROVE DInv'
<1>1. m \in Parties /\ m # "desk"
      BY ClockAssumption DEF Parties
<1>2. ASSUME NEW i \in DOMAIN instances, NEW kind \in {"pause", "resume", "recalculate"},
             kind = "recalculate" => instances[i].current,
             Begin(m, [Blank EXCEPT !.kind = kind, !.id = i, !.row = instances[i]])
      PROVE  DInv'
  <2> DEFINE s == [Blank EXCEPT !.kind = kind, !.id = i, !.row = instances[i]]
  <2>1. i \in Nat /\ instances[i] \in InstanceRows
        BY DEF DInv, Typed, Tables
  <2>2. s \in Sessions
        BY <2>1 DEF Sessions, Blank, Times
  <2>3. s.pc = "READ" /\ s.id = i /\ s.row = instances[i] /\ s.kind = kind
        BY DEF Blank
  <2> HIDE DEF s
  <2>4. Attends(m, s, instances, targets, pauses, lost, ticket)
        BY <1>1, <1>2, <2>2, <2>3, ReadAttends
  <2>5. Begins(m, s)
        BY <2>3, <2>4 DEF Begins, Holding
  <2>6. Begin(m, s)
        BY <1>2 DEF s
  <2> QED BY <1>1, <2>5, <2>6, BeginKeeps DEF ManagerRead
<1>3. ASSUME NEW i \in DOMAIN instances, NEW t \in Targets,
             Begin(m, [Blank EXCEPT !.kind = "complete", !.target = t, !.id = i, !.row = instances[i]])
      PROVE  DInv'
  <2> DEFINE s == [Blank EXCEPT !.kind = "complete", !.target = t, !.id = i, !.row = instances[i]]
  <2>1. i \in Nat /\ instances[i] \in InstanceRows
        BY DEF DInv, Typed, Tables
  <2>2. s \in Sessions
        BY <2>1 DEF Sessions, Blank, Times
  <2>3. s.pc = "READ" /\ s.id = i /\ s.row = instances[i] /\ s.kind = "complete" /\ s.target = t
        BY DEF Blank
  <2> HIDE DEF s
  <2>4. Attends(m, s, instances, targets, pauses, lost, ticket)
        BY <1>1, <2>2, <2>3, ReadAttends
  <2>5. Begins(m, s)
        BY <2>3, <2>4 DEF Begins, Holding
  <2>6. Begin(m, s)
        BY <1>3 DEF s
  <2> QED BY <1>1, <2>5, <2>6, BeginKeeps DEF ManagerRead
<1> QED BY <1>2, <1>3 DEF ManagerRead, Current

LEMMA ManagerLockKeeps == ASSUME DInv, NEW m \in Managers, ManagerLock(m) PROVE DInv'
<1> DEFINE old == session[m]
<1>1. m \in Parties /\ old # None /\ old.kind = "recalculate" /\ old.pc = "READ"
      BY DEF Parties, ManagerLock
<1>2. PICK i \in Current :
        Begin(m, [old EXCEPT !.pc = "LOCKED", !.at = now, !.id = i,
                             !.row = IF i = old.id THEN @ ELSE instances[i]])
      BY DEF ManagerLock
<1> DEFINE row == IF i = old.id THEN old.row ELSE instances[i]
           s == [old EXCEPT !.pc = "LOCKED", !.at = now, !.id = i, !.row = row]
<1>3. Attends(m, old, instances, targets, pauses, lost, ticket)
      BY <1>1 DEF DInv
<1>4. /\ i \in DOMAIN instances /\ instances[i].current /\ i \in Nat /\ instances[i] \in InstanceRows
      /\ now \in Nat
      BY ClockAssumption DEF Current, DInv, Typed, Tables
<1>5. /\ row \in InstanceRows /\ row.current
      /\ row.calendar = instances[i].calendar /\ row.started = instances[i].started
      BY <1>1, <1>3, <1>4 DEF Attends
<1>6. old \in Sessions
      BY <1>3 DEF Attends
<1> HIDE DEF row, old
<1>7. s \in Sessions /\ s.pc = "LOCKED" /\ s.id = i /\ s.row = row /\ s.kind = "recalculate" /\ s.at = now
      BY <1>1, <1>4, <1>5, <1>6 DEF Sessions, Times
<1>8. Begin(m, s)
      BY <1>2 DEF row
<1> HIDE DEF s
<1>9. m # "desk"
      BY ClockAssumption
<1>10. Attends(m, s, instances, targets, pauses, lost, ticket)
       BY <1>4, <1>5, <1>7, <1>9 DEF Attends
<1>11. Begins(m, s)
       BY <1>4, <1>7, <1>10, NotLocked DEF Begins, ManagerLock
<1> QED BY <1>1, <1>8, <1>11, BeginKeeps DEF ManagerLock

LEMMA EvaluatorReadKeeps == ASSUME DInv, NEW e \in Evaluators, EvaluatorRead(e) PROVE DInv'
<1>1. e \in Parties /\ e # "desk"
      BY ClockAssumption DEF Parties
<1>2. PICK i \in DOMAIN instances : Begin(e, [Blank EXCEPT !.id = i, !.row = instances[i]])
      BY DEF EvaluatorRead, Current
<1> DEFINE s == [Blank EXCEPT !.id = i, !.row = instances[i]]
<1>3. i \in Nat /\ instances[i] \in InstanceRows
      BY DEF DInv, Typed, Tables
<1>4. s \in Sessions
      BY <1>3 DEF Sessions, Blank, Times
<1>5. s.pc = "READ" /\ s.id = i /\ s.row = instances[i] /\ s.kind = "evaluate"
      BY DEF Blank
<1>6. Begin(e, s)
      BY <1>2
<1> HIDE DEF s
<1>7. Attends(e, s, instances, targets, pauses, lost, ticket)
      BY <1>1, <1>4, <1>5, ReadAttends
<1>8. Begins(e, s)
      BY <1>5, <1>7 DEF Begins, Holding
<1> QED BY <1>1, <1>6, <1>8, BeginKeeps DEF EvaluatorRead

\* What a session sees of the targets is what is stored.
LEMMA LookKeeps == ASSUME DInv, NEW p \in Parties, Look(p) PROVE DInv'
<1> DEFINE s == session[p]
<1>1. s # None /\ s.pc = (IF s.kind = "recalculate" THEN "LOCKED" ELSE "READ")
      BY DEF Look
<1>2. PICK k \in IF OpenPauses(s.id) = {} \/ s.kind = "evaluate" THEN {0} ELSE OpenPauses(s.id) :
        LET seen == [s EXCEPT !.pc = "WRITE", !.held = targets[s.id], !.gap = k,
                              !.at = IF @ = None THEN now ELSE @]
        IN  Begin(p, IF Idle(seen) THEN None ELSE seen)
      BY DEF Look
<1> DEFINE at == IF s.at = None THEN now ELSE s.at
           seen == [s EXCEPT !.pc = "WRITE", !.held = targets[s.id], !.gap = k, !.at = at]
<1>3. Attends(p, s, instances, targets, pauses, lost, ticket)
      BY <1>1 DEF DInv
<1>4. /\ s \in Sessions /\ s.id \in DOMAIN instances
      BY <1>3 DEF Attends
<1>5. /\ s.id \in 1 .. Len(instances) /\ targets[s.id] \in [Targets -> TargetRows]
      /\ pauses[s.id] \in Seq(PauseRows)
      BY <1>4 DEF DInv, Typed, Tables
<1>6. k \in 0 .. Len(pauses[s.id]) /\ k \in Nat
  <2>1. CASE k = 0
        BY <1>5, <2>1, LenProperties
  <2>2. CASE k \in OpenPauses(s.id)
        BY <1>5, <2>2, LenProperties DEF OpenPauses
  <2> QED BY <1>2, <2>1, <2>2
<1>7. at \in Nat
      BY <1>4, ClockAssumption DEF Sessions, Times, DInv, Typed
<1>8. s.kind = "sync" => at = s.at
      BY <1>3, NoneAssumption DEF Attends
<1>9. Begin(p, IF Idle(seen) THEN None ELSE seen)
      BY <1>2
<1>10. Holding(s) <=> s.kind \in {"sync", "recalculate"}
       BY <1>1 DEF Holding
<1> HIDE DEF s, at
<1>11. /\ seen \in Sessions /\ seen.pc = "WRITE" /\ seen.held = targets[s.id] /\ seen.gap = k /\ seen.at = at
       /\ seen.id = s.id /\ seen.row = s.row /\ seen.kind = s.kind /\ seen.target = s.target /\ seen.to = s.to
       BY <1>4, <1>5, <1>6, <1>7 DEF Sessions, Times
<1> HIDE DEF seen
<1>12. ASSUME NEW t \in Targets
       PROVE  Copied(seen.held[t], targets[s.id][t], instances[s.id], lost, ticket, t)
  <2>1. Recorded(instances[s.id], targets[s.id][t], pauses[s.id], lost, ticket, t)
        BY <1>4 DEF DInv, Records
  <2>2. targets[s.id][t].due \in Nat
        BY <1>5 DEF TargetRows
  <2> QED BY <1>11, <2>1, <2>2 DEF Recorded, Copied
<1>13. Attends(p, seen, instances, targets, pauses, lost, ticket)
       BY <1>3, <1>5, <1>6, <1>7, <1>8, <1>11, <1>12 DEF Attends
<1>14. Begins(p, seen)
  <2>1. Holding(seen) => Holding(s)
        BY <1>10, <1>11 DEF Holding
  <2>2. Holding(s) => /\ instances[s.id].current
                      /\ \A q \in Parties \ {p} : session[q] # None => ~Holding(session[q])
        BY <1>1 DEF DInv, OneHolder, s
  <2> QED BY <1>11, <1>13, <2>1, <2>2 DEF Begins
<1>15. Begins(p, None)
       BY DEF Begins
<1> QED BY <1>9, <1>14, <1>15, BeginKeeps DEF Look

LEMMA RefuseKeeps == ASSUME DInv, NEW p \in Parties, Refuse(p) PROVE DInv'
<1>1. Begins(p, None)
      BY DEF Begins
<1> QED BY <1>1, BeginKeeps DEF Refuse, End


\* A transaction without a new instance.
LEMMA SaveKeeps ==
  ASSUME TimeContract, DInv, NEW p \in Parties, Writes(p), NEW r, NEW gone \in BOOLEAN,
         Served(CopyOf(session[p]), r, session[p].at, gone),
         gone => ticket' = "CANCELLED" /\ Holding(session[p]),
         Save(session[p], r), End(p), now' = now,
         ticket = "CANCELLED" => ticket' = "CANCELLED",
         ticket' \in Statuses, session[p].kind # "sync" => ticket' = ticket
  PROVE  DInv'
<1>1. session[p] # None /\ session[p].pc = "WRITE"
      BY DEF Writes
<1>2. Attends(p, session[p], instances, targets, pauses, lost, ticket)
      BY <1>1 DEF DInv
<1>3. Serves(p, session[p], r, gone, ticket')
      BY <1>1, <1>2 DEF Serves
<1> QED BY <1>1, <1>3, SaveCommits, CommitKeeps

\* A transaction with a new instance.
LEMMA SaveWithKeeps ==
  ASSUME TimeContract, DInv, NEW p \in Parties, Writes(p), session[p].kind \in {"sync", "recalculate"},
         NEW calendar \in Calendars, NEW new, NEW over \in BOOLEAN,
         Served(Fresh(calendar, session[p].at), new, session[p].at, over), over => ticket' = "CANCELLED",
         SaveWith(session[p], Superseded(CopyOf(session[p])), new), End(p), now' = now,
         ticket = "CANCELLED" => ticket' = "CANCELLED",
         ticket' \in Statuses, session[p].kind # "sync" => ticket' = ticket
  PROVE  DInv'
<1> DEFINE r == Superseded(CopyOf(session[p]))
<1>1. session[p] # None /\ session[p].pc = "WRITE" /\ Holding(session[p])
      BY DEF Writes, Holding
<1>2. Attends(p, session[p], instances, targets, pauses, lost, ticket) /\ Typed
      BY <1>1 DEF DInv
<1>3. session[p].row.current /\ session[p].at \in Nat
      BY <1>1, <1>2 DEF Attends
<1>4. CopyOf(session[p]) \in Copies /\ CopyOf(session[p]).ended = None
      BY <1>1, <1>2, CopyIs
<1>5. Served(CopyOf(session[p]), r, session[p].at, TRUE) /\ ~r.row.current
      BY <1>3, <1>4, ServedSuperseded
<1>6. lost' \in BOOLEAN
      BY DEF SaveWith
<1>7. NewRecorded(new, lost', ticket')
      BY <1>3, <1>6, ServedRecorded
<1>8. SaveWith(session[p], r, new)
      OBVIOUS
<1> HIDE DEF r
<1>9. Serves(p, session[p], r, TRUE, ticket')
      BY <1>1, <1>2, <1>3, <1>5 DEF Serves
<1> QED BY <1>1, <1>3, <1>5, <1>7, <1>8, <1>9, SaveWithCommits, CommitKeeps

LEMMA DeskCommitKeeps == TimeContract /\ DInv /\ DeskCommit => DInv'
<1> SUFFICES ASSUME TimeContract, DInv, DeskCommit PROVE DInv'
    OBVIOUS
<1> DEFINE s == session["desk"]
           c == CopyOf(s)
<1>1. "desk" \in Parties /\ Writes("desk") /\ s # None /\ s.pc = "WRITE" /\ End("desk") /\ now' = now /\ ticket' = s.to
      BY DEF Parties, DeskCommit, Writes
<1>2. Attends("desk", s, instances, targets, pauses, lost, ticket) /\ Typed
      BY <1>1 DEF DInv
<1>3. /\ s.kind = "sync" /\ s.to \in Statuses /\ s.at \in Nat
      /\ ticket = "CANCELLED" => ticket' = "CANCELLED"
      BY <1>1, <1>2 DEF Attends
<1>4. CASE s.force
  <2>1. PICK calendar \in Calendars :
          LET new == Fresh(calendar, s.at) IN
          /\ CanSync(new, s.to, s.old)
          /\ SaveWith(s, Superseded(CopyOf(s)), Synced(new, s.to, s.old, s.at))
        BY <1>4 DEF DeskCommit
  <2> DEFINE f == Fresh(calendar, s.at)
             new == Synced(f, s.to, s.old, s.at)
             over == s.to = "CANCELLED"
  <2>2. f \in Copies /\ f.ended = None
        BY <1>3, FreshRecorded
  <2>3. CanSync(f, s.to, s.old) /\ SaveWith(s, Superseded(CopyOf(s)), new)
        BY <2>1
  <2>4. Served(f, new, s.at, over) /\ over \in BOOLEAN /\ (over => ticket' = "CANCELLED")
    <3> HIDE DEF f
    <3> QED BY <1>1, <1>3, <2>2, <2>3, ServedSync
  <2> HIDE DEF new, over
  <2> QED BY <1>1, <1>3, <2>3, <2>4, SaveWithKeeps
<1>5. CASE ~s.force
  <2> DEFINE r == Synced(c, s.to, s.old, s.at)
             gone == s.to = "CANCELLED"
  <2>1. CanSync(c, s.to, s.old) /\ Save(s, r)
        BY <1>5 DEF DeskCommit
  <2>2. c \in Copies /\ c.ended = None
        BY <1>1, <1>2, CopyIs
  <2>3. Served(c, r, s.at, gone) /\ gone \in BOOLEAN
    <3> HIDE DEF c
    <3> QED BY <1>3, <2>1, <2>2, ServedSync
  <2>4. gone => ticket' = "CANCELLED" /\ Holding(s)
        BY <1>1, <1>3 DEF Holding
  <2> HIDE DEF r, gone
  <2> QED BY <1>1, <1>3, <2>1, <2>3, <2>4, SaveKeeps
<1> QED BY <1>4, <1>5

LEMMA ManagerCommitKeeps == ASSUME TimeContract, DInv, NEW m \in Managers, ManagerCommit(m) PROVE DInv'
<1> DEFINE s == session[m]
           c == CopyOf(s)
<1>1. /\ m \in Parties /\ Writes(m) /\ s # None /\ s.pc = "WRITE" /\ End(m) /\ now' = now /\ ticket' = ticket
      BY DEF Parties, ManagerCommit, Writes
<1>2. Attends(m, s, instances, targets, pauses, lost, ticket) /\ Typed
      BY <1>1 DEF DInv
<1>3. s.at \in Nat /\ s.id \in DOMAIN instances
      BY <1>1, <1>2 DEF Attends
<1>4. ticket \in Statuses
      BY <1>3 DEF DInv, Typed
<1>5. c \in Copies /\ c.ended = None
      BY <1>1, <1>2, CopyIs
<1>6. ASSUME NEW r, Served(c, r, s.at, FALSE), Save(s, r) PROVE DInv'
      BY <1>1, <1>4, <1>6, SaveKeeps
<1>7. CASE s.kind = "pause" /\ CanPause(c) /\ Save(s, Pause(c, s.at))
  <2>1. Served(c, Pause(c, s.at), s.at, FALSE)
        BY <1>3, <1>5, ServedPause
  <2> QED BY <1>6, <1>7, <2>1
<1>8. CASE s.kind = "resume" /\ CanResume(c) /\ Save(s, Resume(c, s.at))
  <2>1. Served(c, Resume(c, s.at), s.at, FALSE)
        BY <1>3, <1>5, <1>8, ServedResume
  <2> QED BY <1>6, <1>8, <2>1
<1>9. CASE s.kind = "complete" /\ Save(s, Complete(c, s.target, s.at))
  <2>1. s.target \in Targets
        BY <1>2, <1>9 DEF Attends
  <2>2. Served(c, c, s.at, FALSE)
        BY <1>5, ServedNot
  <2>3. Served(c, Complete(c, s.target, s.at), s.at, FALSE)
        BY <1>3, <2>1, <2>2, ServedComplete
  <2> QED BY <1>6, <1>9, <2>3
<1>10. CASE /\ s.kind = "recalculate"
            /\ \E calendar \in Calendars : SaveWith(s, Superseded(c), Fresh(calendar, s.at))
  <2>1. PICK calendar \in Calendars : SaveWith(s, Superseded(c), Fresh(calendar, s.at))
        BY <1>10
  <2> DEFINE f == Fresh(calendar, s.at)
  <2>2. f \in Copies /\ f.ended = None
        BY <1>3, FreshRecorded
  <2>3. Served(f, f, s.at, FALSE)
    <3> HIDE DEF f
    <3> QED BY <2>2, ServedNot
  <2> QED BY <1>1, <1>4, <1>10, <2>1, <2>3, SaveWithKeeps
<1> QED BY <1>7, <1>8, <1>9, <1>10 DEF ManagerCommit

LEMMA EvaluatorCommitKeeps == ASSUME TimeContract, DInv, NEW e \in Evaluators, EvaluatorCommit(e) PROVE DInv'
<1> DEFINE s == session[e]
           c == CopyOf(s)
           r == Evaluate(c, s.at)
<1>1. /\ e \in Parties /\ Writes(e) /\ s # None /\ s.pc = "WRITE" /\ End(e) /\ now' = now /\ ticket' = ticket
      /\ Save(s, r)
      BY DEF Parties, EvaluatorCommit, Writes
<1>2. Attends(e, s, instances, targets, pauses, lost, ticket) /\ Typed
      BY <1>1 DEF DInv
<1>3. s.at \in Nat /\ s.id \in DOMAIN instances
      BY <1>1, <1>2 DEF Attends
<1>4. ticket \in Statuses
      BY <1>3 DEF DInv, Typed
<1>5. c \in Copies /\ c.ended = None
      BY <1>1, <1>2, CopyIs
<1>6. Served(c, c, s.at, FALSE)
      BY <1>5, ServedNot
<1>7. Served(c, r, s.at, FALSE)
      BY <1>3, <1>6, ServedEvaluate
<1> HIDE DEF r
<1> QED BY <1>1, <1>4, <1>7, SaveKeeps

LEMMA RecordsPreserved == TimeContract /\ DInv /\ [Next]_vars => DInv'
<1> SUFFICES ASSUME TimeContract, DInv, [Next]_vars PROVE DInv'
    OBVIOUS
<1>1. CASE UNCHANGED vars
  <2>1. Typed' /\ OneHolder' /\ OneCurrent' /\ Records(instances, targets, pauses, lost, ticket)'
        BY <1>1 DEF vars, DInv, Typed, OneHolder, OneCurrent
  <2> QED BY <1>1, <2>1 DEF vars, DInv
<1> QED BY <1>1, TickKeeps, CreateKeeps, DeskReadKeeps, DeskCommitKeeps, ManagerReadKeeps, ManagerLockKeeps,
           ManagerCommitKeeps, EvaluatorReadKeeps, EvaluatorCommitKeeps, LookKeeps, RefuseKeeps DEF Next
-----------------------------------------------------------------------------
(* The theorems.                                                           *)

LEMMA TypesFollow == DInv => TypeOK
<1> SUFFICES ASSUME DInv PROVE TypeOK
    OBVIOUS
<1>1. Cardinality(Current) <= 1
  <2>1. CASE Current = {}
        BY <2>1, FS_EmptySet
  <2>2. CASE Current # {}
    <3>1. PICK i \in Current : TRUE
          BY <2>2
    <3>2. Current = {i}
          BY <3>1 DEF Current, DInv, OneCurrent
    <3>3. Cardinality({i}) = 1
          BY FS_Singleton
    <3> QED BY <3>2, <3>3
  <2> QED BY <2>1, <2>2
<1>2. \A p \in Parties : session[p] # None => session[p] \in Sessions /\ session[p].id \in DOMAIN instances
      BY DEF DInv, Attends
<1> QED BY <1>1, <1>2 DEF DInv, Typed, Tables, TypeOK

LEMMA TimeFollows == DInv => TimeIsGranted
<1> SUFFICES ASSUME DInv, ticket # "CANCELLED", NEW i \in Current, NEW t \in Targets,
                    targets[i][t].status \in Open, targets[i][t].metAt = None, targets[i][t].breachedAt = None
             PROVE  LET worked == WorkingTicks(instances[i].calendar, instances[i].started, targets[i][t].due)
                    IN  /\ worked >= Minute * Duration[t]
                        /\ ~lost => worked >= Minute * (Duration[t] + instances[i].paused)
                        /\ pauses[i] = <<>> /\ instances[i].started % Minute = 0 => worked = Minute * Duration[t]
    BY DEF TimeIsGranted
<1>1. i \in DOMAIN instances /\ instances[i].current
      BY DEF Current
<1>2. Recorded(instances[i], targets[i][t], pauses[i], lost, ticket, t)
      BY <1>1 DEF DInv, Records
<1>3. ~Over(instances[i], ticket) /\ Unjudged(targets[i][t])
      BY <1>1 DEF Over, Unjudged
<1> QED BY <1>2, <1>3 DEF Recorded, Solid, Worked

LEMMA VerdictsFollow == DInv => VerdictsHold
<1> SUFFICES ASSUME DInv, NEW i \in DOMAIN instances, NEW t \in Targets
             PROVE  LET target == targets[i][t] IN
                    /\ target.status = "MET" /\ target.breachedAt = None =>
                         target.metAt # None /\ (~lost => target.metAt <= target.due)
                    /\ target.status = "BREACHED" =>
                         /\ target.breachedAt # None
                         /\ WorkingTicks(instances[i].calendar, instances[i].started, target.breachedAt)
                              >= Minute * Duration[t]
    BY DEF VerdictsHold
<1>1. Recorded(instances[i], targets[i][t], pauses[i], lost, ticket, t)
      BY DEF DInv, Records
<1> QED BY <1>1 DEF Recorded, Solid, Worked

\* The tables and sessions have their types, and the ticket never has two current
\* instances (the unique index of ticket_sla_instances), whatever reads and
\* commits interleave.
THEOREM TypeCorrect == Spec => []TypeOK
<1>1. Init => DInv
      BY InitRecords
<1>2. DInv /\ [Next]_vars => DInv'
      BY TimeContractHolds, RecordsPreserved
<1>3. DInv => TypeOK
      BY TypesFollow
<1> QED BY <1>1, <1>2, <1>3, PTL DEF Spec

\* No deadline of the current clock is short of the time that it owes, whatever
\* parties write from old copies: sync_ticket_sla, pause_instance, resume_instance
\* and evaluate_instance of enterprise_sla.py.
THEOREM TimeGranted == Spec => []TimeIsGranted
<1>1. DInv /\ [Next]_vars => DInv'
      BY TimeContractHolds, RecordsPreserved
<1> QED BY <1>1, InitRecords, TimeFollows, PTL DEF Spec

\* No target is breached before its time, and none that was late is met:
\* complete_target and evaluate_instance, for any interleaving of the parties.
THEOREM VerdictsStand == Spec => []VerdictsHold
<1>1. DInv /\ [Next]_vars => DInv'
      BY TimeContractHolds, RecordsPreserved
<1> QED BY <1>1, InitRecords, VerdictsFollow, PTL DEF Spec

\* add_business_minutes and business_minutes_between, for no calendar and for every
\* calendar that validate_weekly_hours and validate_intervals accept: the search
\* for a deadline ends, with at least the minutes asked for of working time before
\* it, and exactly these from a whole minute; what is measured between two
\* instants is never more than the working time, and exact between whole minutes.
THEOREM BusinessTimeIsTrue ==
  \A calendar : calendar = AllHours \/ Regular(calendar) =>
    \A start \in Nat : /\ \A minutes \in Nat : Grants(calendar, start, minutes)
                       /\ \A end \in Nat : Measures(calendar, start, end)
BY OnSchedule

=============================================================================
