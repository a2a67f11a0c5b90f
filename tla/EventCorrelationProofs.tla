------------------------ MODULE EventCorrelationProofs ------------------------
(***************************************************************************)
(* Proofs about EventCorrelation, for every set of events, sources,        *)
(* policies and processes.                                                 *)
(*                                                                         *)
(* An ingestion writes what it has read before; the invariant says how far *)
(* the copy can be trusted, which is what the locks are for:               *)
(*                                                                         *)
(*   OneKeyHolder  one ingestion at a time holds the key                   *)
(*   OneBySource   and one a source's row, so that no event is ingested    *)
(*                 twice at a time                                         *)
(*   Copies        the group a firing event has locked is as it was read,  *)
(*                 and open; the group a recovery has read without a lock  *)
(*                 has a deadline only if the copy has one                 *)
(*   RoundHolds    the group of an escalation cycle still is overdue       *)
(***************************************************************************)
EXTENDS EventCorrelation, FiniteSetTheorems, SequenceTheorems, TLAPS

OneKeyHolder ==
  \A v, w \in Workers :
    task[v] # None /\ task[w] # None /\ task[v].pc = "TICKET" /\ task[w].pc = "TICKET" => v = w

OneBySource ==
  \A v, w \in Workers :
    v # w /\ task[v] # None /\ task[w] # None => Kind[task[v].event].source # Kind[task[w].event].source

Unstored == \A w \in Workers : task[w] # None => ~Stored(task[w].event)

CopyRead(k) ==
  /\ k.group \in 0..Len(groups)
  /\ k.copy = None <=> k.group = 0
  /\ k.copy # None =>
       /\ groups[k.group].due => k.copy.due
       /\ k.copy.ticket \in 0..Len(tickets)
       /\ k.pc = "TICKET" /\ k.copy.ticket # 0 => k.seen \in Statuses

CopyLocked(k) ==
  /\ k.pc = "KEY" => k.group = 0
  /\ k.pc = "TICKET" =>
       IF k.group = 0 THEN \A g \in DOMAIN groups : groups[g].status # "OPEN"
       ELSE /\ k.copy = groups[k.group] /\ k.copy.status = "OPEN"
            /\ round # None => round.group # k.group

Copies ==
  \A w \in Workers : task[w] # None =>
    CopyRead(task[w]) /\ (Kind[task[w].event].firing => CopyLocked(task[w]))

RoundHolds ==
  round # None =>
    groups[round.group].status = "OPEN" /\ ~groups[round.group].acked /\ groups[round.group].due

Levels == \A g \in DOMAIN groups : groups[g].due => groups[g].level <= 1

OneOpen ==
  \A g, h \in DOMAIN groups : groups[g].status = "OPEN" /\ groups[h].status = "OPEN" => g = h

IInv ==
  /\ TypeOK /\ OneKeyHolder /\ OneBySource /\ Unstored /\ Copies /\ RoundHolds
  /\ Levels /\ OneOpen /\ QuietOnceAnswered

-----------------------------------------------------------------------------
(* Groups.                                                                 *)

LEMMA GroupsAre ==
  ASSUME TypeOK
  PROVE  /\ DOMAIN groups = 1..Len(groups) /\ Len(groups) \in Nat
         /\ \A g \in DOMAIN groups : groups[g] \in Groups
         /\ DOMAIN tickets = 1..Len(tickets) /\ Len(tickets) \in Nat
         /\ \A t \in DOMAIN tickets : tickets[t] \in Tickets
BY LenProperties, ElementOfSeq DEF TypeOK

LEMMA EventIs ==
  ASSUME NEW e \in Events
  PROVE  /\ Kind[e].at \in Nat /\ Kind[e].firing \in BOOLEAN
BY CorrelationAssumption DEF Says

LEMMA PolicyIs ==
  ASSUME TypeOK
  PROVE  /\ policy.window \in Nat /\ policy.min \in Nat \ {0}
         /\ policy.primary \in BOOLEAN /\ policy.fallback \in BOOLEAN
         /\ policy.onRecovery \in {"NONE", "RESOLVED", "CLOSED"}
BY CorrelationAssumption DEF TypeOK, PolicyShapes

LEMMA NewGroupIs ==
  ASSUME NEW e \in Events
  PROVE  /\ NewGroup(e) \in Groups
         /\ NewGroup(e).status = "OPEN" /\ NewGroup(e).count = 1 /\ NewGroup(e).ticket = 0
         /\ ~NewGroup(e).acked /\ NewGroup(e).level = 0
BY EventIs DEF NewGroup, Groups

LEMMA OneMoreIs ==
  ASSUME NEW row \in Groups, NEW copy \in Groups, NEW e \in Events
  PROVE  /\ OneMore(row, copy, e) \in Groups
         /\ OneMore(row, copy, e).count = copy.count + 1
         /\ OneMore(row, copy, e).status = row.status /\ (OneMore(row, copy, e).due => row.due)
         /\ OneMore(row, copy, e).level = row.level /\ OneMore(row, copy, e).acked = row.acked
         /\ OneMore(row, copy, e).ticket = row.ticket
<1> DEFINE last == IF copy.last < Kind[e].at THEN Kind[e].at ELSE copy.last
           n == copy.count + 1
           v == copy.version + 1
<1>1. last \in Nat /\ n \in Nat /\ v \in Nat
  BY EventIs DEF Groups
<1>2. OneMore(row, copy, e) = [row EXCEPT !.count = n, !.version = v, !.last = last]
  BY DEF OneMore
<1> HIDE DEF last, n, v
<1>3. /\ OneMore(row, copy, e) \in Groups /\ OneMore(row, copy, e).count = n
      /\ OneMore(row, copy, e).status = row.status /\ OneMore(row, copy, e).due = row.due
      /\ OneMore(row, copy, e).level = row.level /\ OneMore(row, copy, e).acked = row.acked
      /\ OneMore(row, copy, e).ticket = row.ticket
  BY <1>1, <1>2 DEF Groups
<1> QED  BY <1>3 DEF n

LEMMA EndedIs ==
  ASSUME NEW row \in Groups, NEW copy \in Groups
  PROVE  /\ Ended(row, copy) \in Groups
         /\ Ended(row, copy).status = "RESOLVED" /\ (Ended(row, copy).due => row.due /\ ~copy.due)
         /\ Ended(row, copy).count = row.count
         /\ Ended(row, copy).level = row.level /\ Ended(row, copy).acked = row.acked
         /\ Ended(row, copy).ticket = row.ticket
<1> DEFINE due == row.due /\ ~copy.due
           v == copy.version + 1
<1>1. due \in BOOLEAN /\ v \in Nat
  BY DEF Groups
<1>2. Ended(row, copy) = [row EXCEPT !.status = "RESOLVED", !.version = v, !.due = due]
  BY DEF Ended
<1> HIDE DEF due, v
<1>3. /\ Ended(row, copy) \in Groups
      /\ Ended(row, copy).status = "RESOLVED" /\ Ended(row, copy).due = due
      /\ Ended(row, copy).count = row.count
      /\ Ended(row, copy).level = row.level /\ Ended(row, copy).acked = row.acked
      /\ Ended(row, copy).ticket = row.ticket
  BY <1>1, <1>2 DEF Groups
<1> QED  BY <1>3 DEF due

LEMMA RaisedIs ==
  ASSUME TypeOK, NEW row \in Groups, row.level <= 1
  PROVE  /\ Raised(row) \in Groups
         /\ Raised(row).level = row.level + 1 /\ (Raised(row).due => row.level = 0)
         /\ Raised(row).count = row.count /\ Raised(row).status = row.status
         /\ Raised(row).acked = row.acked /\ Raised(row).ticket = row.ticket
<1> DEFINE due == row.level = 0 /\ policy.fallback
           n == row.level + 1
           v == row.version + 1
<1>1. due \in BOOLEAN /\ n \in 0..2 /\ v \in Nat
  BY PolicyIs DEF Groups
<1>2. Raised(row) = [row EXCEPT !.level = n, !.version = v, !.due = due]
  BY DEF Raised
<1> HIDE DEF due, n, v
<1>3. /\ Raised(row) \in Groups /\ Raised(row).level = n /\ Raised(row).due = due
      /\ Raised(row).count = row.count /\ Raised(row).status = row.status
      /\ Raised(row).acked = row.acked /\ Raised(row).ticket = row.ticket
  BY <1>1, <1>2 DEF Groups
<1> QED  BY <1>3 DEF due, n

\* What a firing event makes of the groups: the one it is counted into, at, is
\* new or was open, and is the only open one from now on.
GrownAt(row, g, at) ==
  /\ row.acked = groups[g].acked /\ row.level = groups[g].level
  /\ row.due => groups[g].due
  /\ row.status = "OPEN" => g = at /\ groups[g].status = "OPEN"
  /\ row.status = "RESOLVED" => groups[g].status = "RESOLVED" \/ ~row.due
  /\ g # at => row.count = groups[g].count

Grown(all, at) ==
  /\ all \in Seq(Groups) /\ at \in 1..Len(all) /\ all[at].status = "OPEN"
  /\ \/ Len(all) = Len(groups) /\ all[at].count = groups[at].count + 1
     \/ /\ Len(all) = Len(groups) + 1 /\ at = Len(all)
        /\ all[at].count = 1 /\ ~all[at].acked /\ all[at].level = 0
  /\ \A g \in DOMAIN groups : GrownAt(all[g], g, at)

SameTickets(all, at) ==
  /\ \A g \in DOMAIN groups : all[g].ticket = groups[g].ticket
  /\ at \notin DOMAIN groups => all[at].ticket = 0

LEMMA WithIs ==
  ASSUME IInv, NEW w \in Workers, Firing(w)
  PROVE  /\ Grown(With(task[w]).all, With(task[w]).at)
         /\ SameTickets(With(task[w]).all, With(task[w]).at)
<1> DEFINE k == task[w]
           e == k.event
           h == k.group
           n == Len(groups)
           all == With(k).all
           at == With(k).at
<1> SUFFICES Grown(all, at) /\ SameTickets(all, at)
  OBVIOUS
<1>1. /\ k # None /\ k.pc = "TICKET" /\ Kind[e].firing
      /\ e \in Events /\ k.copy \in Groups \cup {None} /\ h \in 0..n
      /\ CopyRead(k) /\ CopyLocked(k)
  <2>1. k # None /\ k \in Tasks /\ k.pc = "TICKET" /\ Kind[e].firing
    BY DEF Firing, IInv, TypeOK
  <2>2. CopyRead(k) /\ CopyLocked(k)
    BY <2>1 DEF IInv, Copies
  <2> QED BY <2>1, <2>2 DEF Tasks, CopyRead
<1>2. /\ n \in Nat /\ DOMAIN groups = 1..n /\ groups \in Seq(Groups)
      /\ \A g \in 1..n : groups[g] \in Groups
  BY GroupsAre DEF IInv, TypeOK
<1>3. /\ NewGroup(e) \in Groups /\ NewGroup(e).status = "OPEN" /\ NewGroup(e).count = 1
      /\ NewGroup(e).ticket = 0 /\ ~NewGroup(e).acked /\ NewGroup(e).level = 0
  BY <1>1, NewGroupIs
<1>4. CASE h = 0
  <2>1. k.copy = None /\ \A g \in 1..n : groups[g].status # "OPEN"
    BY <1>1, <1>2, <1>4 DEF CopyRead, CopyLocked
  <2>2. all = Append(groups, NewGroup(e)) /\ at = n + 1
    BY <2>1 DEF With
  <2>3. /\ all \in Seq(Groups) /\ Len(all) = n + 1 /\ all[n + 1] = NewGroup(e)
        /\ \A g \in 1..n : all[g] = groups[g]
    BY <1>2, <1>3, <2>2, AppendProperties
  <2> HIDE DEF all, at, n
  <2>4. \A g \in 1..n : GrownAt(all[g], g, at)
    BY <2>1, <2>3 DEF GrownAt
  <2>5. Len(all) = n + 1 /\ at = Len(all) /\ at \in 1..Len(all) /\ all[at] = NewGroup(e)
    BY <1>2, <2>2, <2>3
  <2>6. SameTickets(all, at)
    BY <1>2, <1>3, <2>3, <2>5 DEF SameTickets
  <2> QED BY <1>2, <1>3, <2>3, <2>4, <2>5, <2>6 DEF Grown, n
<1>5. CASE h # 0
  <2>1. /\ h \in 1..n /\ k.copy # None /\ k.copy = groups[h] /\ groups[h].status = "OPEN"
    BY <1>1, <1>2, <1>5 DEF CopyRead, CopyLocked
  <2>2. \A g \in 1..n : groups[g].status = "OPEN" => g = h
    BY <1>2, <2>1 DEF IInv, OneOpen
  <2>3. CASE Expired(e, k.copy)
    <3> DEFINE end == Ended(groups[h], k.copy)
               some == [groups EXCEPT ![h] = end]
    <3>1. all = Append(some, NewGroup(e)) /\ at = n + 1
      BY <2>1, <2>3 DEF With
    <3>0. groups[h] \in Groups /\ k.copy \in Groups
      BY <1>2, <2>1
    <3>2. /\ end \in Groups /\ end.status = "RESOLVED" /\ ~end.due
          /\ end.count = groups[h].count
          /\ end.level = groups[h].level /\ end.acked = groups[h].acked /\ end.ticket = groups[h].ticket
      BY <2>1, <3>0, EndedIs
    <3> HIDE DEF end
    <3>3. /\ some \in Seq(Groups) /\ Len(some) = n /\ some[h] = end
          /\ \A g \in 1..n : g # h => some[g] = groups[g]
      BY <1>2, <2>1, <3>2, ExceptSeq
    <3> HIDE DEF some
    <3>4. /\ all \in Seq(Groups) /\ Len(all) = n + 1 /\ all[n + 1] = NewGroup(e)
          /\ all[h] = end /\ \A g \in 1..n : g # h => all[g] = groups[g]
      BY <1>2, <1>3, <2>1, <3>1, <3>3, AppendProperties
    <3> HIDE DEF all, at, n
    <3>5. \A g \in 1..n : GrownAt(all[g], g, at)
      BY <1>2, <2>2, <3>1, <3>2, <3>4 DEF GrownAt
    <3>6. Len(all) = n + 1 /\ at = Len(all) /\ at \in 1..Len(all) /\ all[at] = NewGroup(e)
      BY <1>2, <3>1, <3>4
    <3>7. SameTickets(all, at)
      BY <1>2, <1>3, <3>2, <3>4, <3>6 DEF SameTickets
    <3> QED BY <1>2, <1>3, <3>4, <3>5, <3>6, <3>7 DEF Grown, n
  <2>4. CASE ~Expired(e, k.copy)
    <3> DEFINE more == OneMore(groups[h], k.copy, e)
    <3>0. groups[h] \in Groups /\ k.copy \in Groups
      BY <1>2, <2>1
    <3>1. all = [groups EXCEPT ![h] = more] /\ at = h
      BY <2>1, <2>4 DEF With
    <3>2. /\ more \in Groups /\ more.count = k.copy.count + 1
          /\ more.status = groups[h].status /\ (more.due => groups[h].due)
          /\ more.level = groups[h].level /\ more.acked = groups[h].acked /\ more.ticket = groups[h].ticket
      <4>1. e \in Events
        BY <1>1
      <4>2. more \in Groups
        BY <4>1, <3>0, OneMoreIs
      <4>3. more.count = k.copy.count + 1
        BY <4>1, <3>0, OneMoreIs
      <4>4. more.status = groups[h].status
        BY <4>1, <3>0, OneMoreIs
      <4>5. more.due => groups[h].due
        BY <4>1, <3>0, OneMoreIs
      <4>6. more.acked = groups[h].acked
        BY <4>1, <3>0, OneMoreIs, ZenonT(40)
      <4>7. more.level = groups[h].level /\ more.ticket = groups[h].ticket
        BY <4>1, <3>0, OneMoreIs, ZenonT(40)
      <4> QED BY <4>2, <4>3, <4>4, <4>5, <4>6, <4>7
    <3> HIDE DEF more
    <3>3. /\ all \in Seq(Groups) /\ Len(all) = n /\ all[h] = more
          /\ \A g \in 1..n : g # h => all[g] = groups[g]
      BY <1>2, <2>1, <3>1, <3>2, ExceptSeq
    <3> HIDE DEF all, at, n
    <3>4. \A g \in 1..n : GrownAt(all[g], g, at)
      BY <2>1, <2>2, <3>1, <3>2, <3>3 DEF GrownAt
    <3>5. /\ Len(all) = n /\ at \in 1..Len(all) /\ all[at].status = "OPEN"
          /\ all[at].count = groups[at].count + 1
      BY <1>2, <2>1, <3>1, <3>2, <3>3
    <3>6. SameTickets(all, at)
      BY <1>2, <2>1, <3>1, <3>2, <3>3 DEF SameTickets
    <3> QED BY <1>2, <3>3, <3>4, <3>5, <3>6 DEF Grown, n
  <2> QED BY <2>3, <2>4
<1> QED  BY <1>4, <1>5

\* A firing event has the key and the open group, if any: nothing is escalated.
LEMMA FiringAlone ==
  ASSUME IInv, NEW w \in Workers, Firing(w)
  PROVE  round = None
<1>1. task[w] # None /\ task[w].pc = "TICKET" /\ Kind[task[w].event].firing
  BY DEF Firing
<1>2. CopyRead(task[w]) /\ CopyLocked(task[w])
  BY <1>1 DEF IInv, Copies
<1> SUFFICES ASSUME round # None PROVE FALSE
  OBVIOUS
<1>3. round.group \in DOMAIN groups /\ groups[round.group].status = "OPEN"
  BY GroupsAre DEF IInv, TypeOK, RoundHolds
<1>4. task[w].group # 0
  BY <1>1, <1>2, <1>3 DEF CopyLocked
<1>5. /\ task[w].group \in DOMAIN groups /\ groups[task[w].group].status = "OPEN"
      /\ round.group # task[w].group
  BY <1>1, <1>2, <1>4, GroupsAre DEF CopyLocked, CopyRead, IInv
<1> QED  BY <1>3, <1>5 DEF IInv, OneOpen

-----------------------------------------------------------------------------
(* Tickets.                                                                *)

LEMMA StatusesAre ==
  /\ {"NEW", "ASSIGNED", "RESOLVED", "CLOSED", "REOPENED", "CANCELLED"} \subseteq Statuses
  /\ "ASSIGNED" \in Transitions["NEW"]
  /\ "REOPENED" \in Transitions["RESOLVED"] \cap Transitions["CLOSED"]
  /\ \A s \in Statuses : Transitions[s] \subseteq Statuses
<1>1. Statuses = {"ASSIGNED", "CANCELLED", "CLOSED", "IN_PROGRESS", "NEW", "REOPENED",
                  "RESOLVED", "TRIAGE", "WAITING_USER", "WAITING_VENDOR"}
  <2>1. DOMAIN InOrder = 1..10
    BY DEF InOrder
  <2> QED BY <2>1 DEF Statuses, InOrder
<1> QED  BY <1>1 DEF Transitions

\* One step along the table.
LEMMA StepMoves ==
  ASSUME NEW t \in Tickets, NEW s \in Transitions[t.status]
  PROVE  /\ Moved(t, <<s>>) \in Tickets
         /\ Moved(t, <<s>>).version = t.version + 1
         /\ Moved(t, <<s>>).status \in Within[1][t.status]
<1> DEFINE v == t.version + 1
<1>1. t.status \in Statuses /\ s \in Statuses /\ v \in Nat \ {0}
  BY StatusesAre DEF Tickets
<1>2. Moved(t, <<s>>) = [t EXCEPT !.status = s, !.version = v]
  BY DEF Moved
<1> HIDE DEF v
<1>3. /\ Moved(t, <<s>>) \in Tickets
      /\ Moved(t, <<s>>).version = v /\ Moved(t, <<s>>).status = s
  BY <1>1, <1>2 DEF Tickets
<1> QED  BY <1>1, <1>3, TablesAssumption DEF v

\* A path that a ticket accepts, whatever status it was found for.
LEMMA PathMoves ==
  ASSUME NEW t \in Tickets, NEW a \in Statuses, NEW b \in Statuses, HasPath(a, b),
         Accepts(t, Paths[a][b])
  PROVE  /\ Moved(t, Paths[a][b]) \in Tickets
         /\ Moved(t, Paths[a][b]).version > t.version
         /\ Moved(t, Paths[a][b]).status \in Within[Moved(t, Paths[a][b]).version - t.version][t.status]
<1> DEFINE path == Paths[a][b]
           n == Len(path)
           end == path[n]
           v == t.version + n
<1>1. /\ path \in Seq(Statuses) /\ path # <<>>
      /\ \A u \in Statuses : path[1] \in Transitions[u] => end \in Within[n][u]
  BY TablesAssumption
<1>2. t.status \in Statuses /\ t.version \in Nat /\ path[1] \in Transitions[t.status]
  BY DEF Tickets, Accepts
<1>3. n \in Nat /\ n > 0 /\ end \in Statuses /\ v \in Nat \ {0}
  BY <1>1, <1>2, LenProperties
<1>4. Moved(t, path) = [t EXCEPT !.status = end, !.version = v]
  BY DEF Moved
<1>5. end \in Within[n][t.status]
  BY <1>1, <1>2
<1> HIDE DEF n, end, path, v
<1>6. Moved(t, path) \in Tickets /\ Moved(t, path).version = v /\ Moved(t, path).status = end
  BY <1>2, <1>3, <1>4 DEF Tickets
<1>7. Moved(t, path).version - t.version = n /\ Moved(t, path).version > t.version
  BY <1>2, <1>3, <1>6 DEF v
<1> QED  BY <1>5, <1>6, <1>7 DEF path

\* What a step may do to the tickets.
Lawful(old, new) ==
  new # old => new.version > old.version /\ new.status \in Within[new.version - old.version][old.status]

TicketsMove ==
  /\ tickets' \in Seq(Tickets) /\ Len(tickets) <= Len(tickets')
  /\ \A t \in DOMAIN tickets : Lawful(tickets[t], tickets'[t])

LEMMA NoneMoves ==
  ASSUME TypeOK, tickets' = tickets
  PROVE  TicketsMove
BY GroupsAre DEF TypeOK, TicketsMove, Lawful

LEMMA OneMoves ==
  ASSUME TypeOK, NEW t \in DOMAIN tickets, NEW new \in Tickets, Lawful(tickets[t], new),
         tickets' = [tickets EXCEPT ![t] = new]
  PROVE  TicketsMove /\ Len(tickets') = Len(tickets)
<1>1. tickets \in Seq(Tickets) /\ t \in 1..Len(tickets) /\ Len(tickets) \in Nat
  BY GroupsAre DEF TypeOK
<1>2. tickets' \in Seq(Tickets) /\ Len(tickets') = Len(tickets)
  BY <1>1, ExceptSeq
<1>3. \A u \in DOMAIN tickets : tickets'[u] = IF u = t THEN new ELSE tickets[u]
  OBVIOUS
<1> QED  BY <1>1, <1>2, <1>3 DEF TicketsMove, Lawful

LEMMA NewTicket ==
  ASSUME TypeOK, NEW new \in Tickets, tickets' = Append(tickets, new)
  PROVE  TicketsMove /\ Len(tickets') = Len(tickets) + 1
<1>1. tickets \in Seq(Tickets) /\ DOMAIN tickets = 1..Len(tickets) /\ Len(tickets) \in Nat
  BY GroupsAre DEF TypeOK
<1>2. /\ tickets' \in Seq(Tickets) /\ Len(tickets') = Len(tickets) + 1
      /\ \A t \in 1..Len(tickets) : tickets'[t] = tickets[t]
  BY <1>1, AppendProperties
<1> QED  BY <1>1, <1>2 DEF TicketsMove, Lawful

-----------------------------------------------------------------------------
(* The steps of a firing event.                                            *)

Joined(w, at) ==
  /\ Grown(groups', at)
  /\ \E verdict \in Counted :
       event' = [event EXCEPT ![task[w].event] = [disposition |-> verdict, group |-> at]]
  /\ task' = [task EXCEPT ![w] = None] /\ UNCHANGED <<policy, round, desk, repeats, moves>>

\* The ticket of the group that has grown: the one it had, or a new one.
Filed(at) ==
  \/ /\ Len(tickets') = Len(tickets) /\ SameTickets(groups', at)
     /\ Incident(groups'[at]) => groups'[at].ticket # 0
  \/ /\ Len(tickets') = Len(tickets) + 1 /\ groups'[at].ticket = Len(tickets')
     /\ \A g \in DOMAIN groups : IF g = at THEN groups[g].ticket = 0
                                 ELSE groups'[g].ticket = groups[g].ticket

LEMMA JoinIs ==
  ASSUME IInv, NEW w \in Workers, JoinGroup(w)
  PROVE  \E at : Joined(w, at) /\ Filed(at) /\ TicketsMove
<1> DEFINE at == With(task[w]).at
<1>1. /\ Firing(w) /\ groups' = With(task[w]).all /\ ~Incident(groups'[at]) /\ tickets' = tickets
      /\ Commit(w, "CORRELATED", at)
  BY DEF JoinGroup
<1>2. Grown(groups', at) /\ SameTickets(groups', at)
  BY <1>1, WithIs
<1> HIDE DEF at
<1>3. Joined(w, at) /\ Filed(at)
  BY <1>1, <1>2 DEF Joined, Filed, Commit, Counted
<1>4. TicketsMove
  BY <1>1, NoneMoves DEF IInv
<1> QED  BY <1>3, <1>4

LEMMA CreateIs ==
  ASSUME IInv, NEW w \in Workers, CreateIncident(w)
  PROVE  \E at : Joined(w, at) /\ Filed(at) /\ TicketsMove
<1> DEFINE at == With(task[w]).at
           all == With(task[w]).all
           new == [status |-> IF policy.primary THEN "ASSIGNED" ELSE "NEW", version |-> 1]
           n == Len(tickets')
           row == [all[at] EXCEPT !.ticket = n]
<1>1. /\ Firing(w) /\ ~HasTicket(all[at]) /\ tickets' = Append(tickets, new)
      /\ groups' = [all EXCEPT ![at].ticket = n]
      /\ Commit(w, "INCIDENT_CREATED", at)
  BY DEF CreateIncident
<1>2. Grown(all, at) /\ SameTickets(all, at)
  BY <1>1, WithIs
<1>3. new \in Tickets
  BY StatusesAre DEF Tickets
<1>4. TicketsMove /\ n = Len(tickets) + 1
  BY <1>1, <1>3, NewTicket DEF IInv
<1>5. groups' = [all EXCEPT ![at] = row]
  BY <1>1
<1> HIDE DEF at, all, new, n
<1>6. /\ all \in Seq(Groups) /\ at \in 1..Len(all) /\ all[at] \in Groups /\ n \in Nat
      /\ Len(all) \in Nat /\ DOMAIN groups = 1..Len(groups) /\ Len(groups) \in Nat
      /\ Len(all) \in {Len(groups), Len(groups) + 1}
  BY <1>2, <1>4, ElementOfSeq, LenProperties, GroupsAre DEF Grown, IInv
<1>7. /\ row \in Groups /\ row.ticket = n /\ row.status = all[at].status /\ row.count = all[at].count
      /\ row.acked = all[at].acked /\ row.level = all[at].level /\ row.due = all[at].due
  BY <1>6 DEF Groups
<1> HIDE DEF row
<1>8. /\ groups' \in Seq(Groups) /\ Len(groups') = Len(all) /\ groups'[at] = row
      /\ \A g \in 1..Len(all) : g # at => groups'[g] = all[g]
  BY <1>5, <1>6, <1>7, ExceptSeq
<1>9. \A g \in DOMAIN groups : GrownAt(groups'[g], g, at)
  <2> SUFFICES ASSUME NEW g \in DOMAIN groups PROVE GrownAt(groups'[g], g, at)
    OBVIOUS
  <2>1. GrownAt(all[g], g, at) /\ g \in 1..Len(all)
    BY <1>2, <1>6 DEF Grown
  <2>2. CASE g = at
    BY <1>7, <1>8, <2>1, <2>2 DEF GrownAt
  <2>3. CASE g # at
    BY <1>8, <2>1, <2>3
  <2> QED BY <2>2, <2>3
<1>10. Grown(groups', at)
  BY <1>2, <1>6, <1>7, <1>8, <1>9 DEF Grown
<1>11. Joined(w, at)
  BY <1>1, <1>10 DEF Joined, Commit, Counted
<1>12. Filed(at)
  <2>1. groups'[at].ticket = Len(tickets')
    BY <1>7, <1>8 DEF n
  <2>2. ASSUME NEW g \in DOMAIN groups, g # at PROVE groups'[g].ticket = groups[g].ticket
    <3>1. all[g].ticket = groups[g].ticket /\ g \in 1..Len(all)
      BY <1>2, <1>6, <2>2 DEF SameTickets
    <3> QED BY <1>8, <2>2, <3>1
  <2>3. at \in DOMAIN groups => groups[at].ticket = 0
    BY <1>1, <1>2 DEF SameTickets, HasTicket
  <2> QED BY <1>4, <2>1, <2>2, <2>3 DEF Filed, n
<1> QED  BY <1>4, <1>11, <1>12

LEMMA UpdateIs ==
  ASSUME IInv, NEW w \in Workers, UpdateIncident(w)
  PROVE  \E at : Joined(w, at) /\ Filed(at) /\ TicketsMove
<1> DEFINE at == With(task[w]).at
           t == groups'[at].ticket
           seen == task[w].seen
<1>1. /\ Firing(w) /\ groups' = With(task[w]).all /\ HasTicket(groups'[at])
      /\ Commit(w, "INCIDENT_UPDATED", at)
      /\ IF seen \in {"RESOLVED", "CLOSED"}
           THEN tickets[t].status = seen /\ tickets' = [tickets EXCEPT ![t] = Moved(@, <<"REOPENED">>)]
           ELSE tickets' = tickets
  BY DEF UpdateIncident
<1>2. Grown(groups', at) /\ SameTickets(groups', at)
  BY <1>1, WithIs
<1>3. t # 0
  BY <1>1 DEF HasTicket
<1> HIDE DEF at
<1>4. Joined(w, at)
  BY <1>1, <1>2 DEF Joined, Commit, Counted
<1>5. t \in DOMAIN tickets
  <2>1. at \in DOMAIN groups => groups[at].ticket = t
    BY <1>2 DEF SameTickets
  <2>2. at \in DOMAIN groups
    BY <1>2, <1>3 DEF SameTickets
  <2>3. groups[at].ticket \in 0..Len(tickets)
    BY <2>2 DEF IInv, TypeOK
  <2>4. DOMAIN tickets = 1..Len(tickets) /\ Len(tickets) \in Nat
    BY GroupsAre DEF IInv
  <2> QED BY <1>3, <2>1, <2>2, <2>3, <2>4
<1>6. TicketsMove /\ Len(tickets') = Len(tickets)
  <2>1. CASE seen \in {"RESOLVED", "CLOSED"}
    <3> DEFINE new == Moved(tickets[t], <<"REOPENED">>)
    <3>1. tickets[t] \in Tickets /\ tickets' = [tickets EXCEPT ![t] = new]
      BY <1>1, <1>5, <2>1, GroupsAre DEF IInv
    <3>2. "REOPENED" \in Transitions[tickets[t].status]
      BY <1>1, <2>1, StatusesAre
    <3>3. new \in Tickets /\ new.version = tickets[t].version + 1 /\ new.status \in Within[1][tickets[t].status]
      BY <3>1, <3>2, StepMoves
    <3> HIDE DEF new
    <3>4. tickets[t].version \in Nat
      BY <3>1 DEF Tickets
    <3>5. new.version > tickets[t].version /\ new.version - tickets[t].version = 1
      BY <3>3, <3>4
    <3>6. Lawful(tickets[t], new)
      BY <3>3, <3>5 DEF Lawful
    <3> QED BY <1>5, <3>1, <3>3, <3>6, OneMoves DEF IInv
  <2>2. CASE seen \notin {"RESOLVED", "CLOSED"}
    BY <1>1, <2>2, NoneMoves DEF IInv
  <2> QED BY <2>1, <2>2
<1>7. Filed(at)
  BY <1>2, <1>3, <1>6 DEF Filed
<1> QED  BY <1>4, <1>6, <1>7

-----------------------------------------------------------------------------
(* What other steps leave of the facts about an ingestion.                 *)

\* Groups and tickets stay, and no deadline comes back.
Later ==
  /\ groups' \in Seq(Groups) /\ Len(groups) <= Len(groups') /\ Len(tickets) <= Len(tickets')
  /\ \A g \in DOMAIN groups : groups'[g].due => groups[g].due

LEMMA CopyReadKept ==
  ASSUME TypeOK, Later, tickets' \in Seq(Tickets), NEW k \in Tasks, CopyRead(k)
  PROVE  CopyRead(k)'
<1>1. /\ Len(groups) \in Nat /\ DOMAIN groups = 1..Len(groups) /\ Len(tickets) \in Nat
      /\ Len(groups') \in Nat /\ Len(tickets') \in Nat
  BY GroupsAre, LenProperties DEF Later
<1>2. k.group \in 0..Len(groups')
  BY <1>1 DEF CopyRead, Later
<1>3. k.copy # None =>
        /\ groups'[k.group].due => k.copy.due
        /\ k.copy.ticket \in 0..Len(tickets')
        /\ k.pc = "TICKET" /\ k.copy.ticket # 0 => k.seen \in Statuses
  BY <1>1 DEF CopyRead, Later
<1> QED  BY <1>2, <1>3 DEF CopyRead

\* The ingestion of w is over: nobody else gets a key, a row or an event by it.
LEMMA Released ==
  ASSUME IInv, NEW w \in Workers, task' = [task EXCEPT ![w] = None]
  PROVE  /\ OneKeyHolder' /\ OneBySource'
         /\ task' \in [Workers -> Tasks \cup {None}]
         /\ \A v \in Workers : task'[v] # None => v # w /\ task'[v] = task[v]
<1>1. /\ task' \in [Workers -> Tasks \cup {None}]
      /\ \A v \in Workers : task'[v] # None => v # w /\ task'[v] = task[v]
  BY DEF IInv, TypeOK
<1>2. OneKeyHolder'
  BY <1>1 DEF IInv, OneKeyHolder
<1>3. OneBySource'
  BY <1>1 DEF IInv, OneBySource
<1> QED  BY <1>1, <1>2, <1>3

\* Other ingestions have events of other sources.
LEMMA OtherEvents ==
  ASSUME IInv, NEW w \in Workers, task[w] # None, task' = [task EXCEPT ![w] = None],
         \A e \in Events : e # task[w].event => event'[e] = event[e]
  PROVE  Unstored'
<1> SUFFICES ASSUME NEW v \in Workers, task'[v] # None
             PROVE  event'[task'[v].event].disposition = "NEW"
  BY DEF Unstored, Stored
<1>1. v # w /\ task'[v] = task[v]
  BY Released
<1>2. /\ task[v].event \in Events
      /\ event[task[v].event].disposition = "NEW"
  BY <1>1 DEF IInv, TypeOK, Tasks, Unstored, Stored
<1>3. task[v].event # task[w].event
  BY <1>1 DEF IInv, OneBySource
<1> QED  BY <1>1, <1>2, <1>3

\* Nobody but w held the key: what others have read, they have not locked.
LEMMA OthersRead ==
  ASSUME IInv, NEW w \in Workers, task[w] # None, task[w].pc = "TICKET",
         task' = [task EXCEPT ![w] = None], Later, tickets' \in Seq(Tickets)
  PROVE  Copies'
<1> SUFFICES ASSUME NEW v \in Workers, task'[v] # None
             PROVE  CopyRead(task[v])' /\ (Kind[task[v].event].firing => CopyLocked(task[v]))'
  BY DEF Copies
<1>1. v # w /\ task'[v] = task[v] /\ task[v] \in Tasks
  BY Released DEF IInv, TypeOK
<1>2. PICK k \in Tasks : k = task[v] /\ k = task'[v] /\ k # None
  BY <1>1
<1>3. CopyRead(k) /\ (Kind[k.event].firing => CopyLocked(k))
  BY <1>2 DEF IInv, Copies
<1>4. CopyRead(k)'
  BY <1>3, CopyReadKept DEF IInv
<1>5. k.pc = "KEY"
  BY <1>1, <1>2 DEF Tasks, IInv, OneKeyHolder
<1>6. Kind[k.event].firing => CopyLocked(k)'
  BY <1>3, <1>5 DEF CopyLocked
<1>7. CopyRead(task[v])'
  BY <1>2, <1>4 DEF CopyRead
<1>8. (Kind[task[v].event].firing => CopyLocked(task[v]))'
  BY <1>2, <1>6 DEF CopyLocked
<1> QED  BY <1>7, <1>8

LEMMA FiringKeeps ==
  ASSUME IInv, NEW w \in Workers, Firing(w), NEW at, Joined(w, at), Filed(at), TicketsMove
  PROVE  IInv'
<1> DEFINE e == task[w].event
           n == Len(groups)
<1>1. task[w] # None /\ task[w].pc = "TICKET" /\ task[w] \in Tasks /\ e \in Events
  BY DEF Firing, IInv, TypeOK, Tasks
<1>2. round = None /\ round' = None /\ policy' = policy /\ desk' = desk
  BY FiringAlone DEF Joined
<1>3. PICK verdict \in Counted : event' = [event EXCEPT ![e] = [disposition |-> verdict, group |-> at]]
  BY DEF Joined
<1>4. task' = [task EXCEPT ![w] = None]
  BY DEF Joined
<1>5. /\ n \in Nat /\ DOMAIN groups = 1..n /\ groups' \in Seq(Groups)
      /\ at \in 1..Len(groups') /\ groups'[at].status = "OPEN"
      /\ \A g \in 1..n : GrownAt(groups'[g], g, at)
  BY GroupsAre DEF Joined, Grown, IInv
<1>6. /\ Len(groups') \in {n, n + 1} /\ DOMAIN groups' = 1..Len(groups')
      /\ Len(groups') = n + 1 => at = n + 1 /\ ~groups'[at].acked /\ groups'[at].level = 0
  BY <1>5, LenProperties DEF Joined, Grown
<1>16. /\ Len(groups') \in Nat /\ n <= Len(groups') /\ n \in Nat
       /\ Len(groups') = n \/ Len(groups') = n + 1
  <2>1. n \in Nat
    BY <1>5
  <2>2. Len(groups') = n \/ Len(groups') = n + 1
    BY <1>6
  <2> HIDE DEF n
  <2> QED BY <2>1, <2>2
<1>7. Later /\ tickets' \in Seq(Tickets)
  <2>1. \A g \in DOMAIN groups : groups'[g].due => groups[g].due
    BY <1>5 DEF GrownAt
  <2>2. tickets' \in Seq(Tickets) /\ Len(tickets) <= Len(tickets')
    BY DEF TicketsMove
  <2> QED BY <1>5, <1>16, <2>1, <2>2 DEF Later
<1> HIDE DEF n
<1>17. ASSUME NEW g \in DOMAIN groups', g \notin 1..n
       PROVE  g = at /\ at \notin 1..n /\ ~groups'[g].acked /\ groups'[g].level = 0
  <2>1. g \in 1..Len(groups')
    BY <1>6, <1>17
  <2>2. Len(groups') = n + 1 /\ g = n + 1
    BY <1>16, <1>17, <2>1
  <2> QED BY <1>6, <1>17, <2>2
<1>8. TypeOK'
  <2>1. event' \in [Events -> [disposition : Dispositions, group : 0..Len(groups')]]
    <3> DEFINE new == [disposition |-> verdict, group |-> at]
    <3>1. new \in [disposition : Dispositions, group : 0..Len(groups')]
      BY <1>5, <1>16 DEF Dispositions
    <3>2. \A f \in Events : event[f] \in [disposition : Dispositions, group : 0..Len(groups')]
      <4>1. 0..Len(groups) \subseteq 0..Len(groups')
        BY <1>5, <1>16 DEF n
      <4> QED BY <4>1 DEF IInv, TypeOK
    <3> HIDE DEF new
    <3>3. event' = [event EXCEPT ![e] = new] /\ event = [f \in Events |-> event[f]]
      BY <1>3 DEF new, IInv, TypeOK
    <3> QED BY <1>1, <3>1, <3>2, <3>3
  <2>2. ASSUME NEW g \in DOMAIN groups' PROVE groups'[g].ticket \in 0..Len(tickets')
    <3>1. Len(tickets) \in Nat /\ Len(tickets') \in Nat
      BY <1>7, LenProperties DEF IInv, TypeOK
    <3>2. CASE g \in 1..n
      <4>1. groups[g].ticket \in 0..Len(tickets)
        BY <1>5, <3>2 DEF IInv, TypeOK
      <4>2. g \in DOMAIN groups
        BY <1>5, <3>2
      <4>3. CASE Len(tickets') = Len(tickets) /\ SameTickets(groups', at)
        BY <4>1, <4>2, <4>3 DEF SameTickets
      <4>4. CASE /\ Len(tickets') = Len(tickets) + 1 /\ groups'[at].ticket = Len(tickets')
                 /\ IF g = at THEN groups[g].ticket = 0 ELSE groups'[g].ticket = groups[g].ticket
        BY <3>1, <4>1, <4>4
      <4> QED BY <4>2, <4>3, <4>4 DEF Filed
    <3>3. CASE g \notin 1..n
      <4>1. g = at /\ at \notin 1..n
        BY <1>17, <2>2, <3>3
      <4> QED BY <1>5, <3>1, <4>1 DEF Filed, SameTickets
    <3> QED BY <3>2, <3>3
  <2>3. task' \in [Workers -> Tasks \cup {None}]
    BY <1>4, Released
  <2>4. desk' \in [group : 1..Len(groups'), row : Groups] \cup {None}
    <3>1. 1..Len(groups) \subseteq 1..Len(groups')
      BY <1>5, <1>16 DEF n
    <3> QED BY <1>2, <3>1 DEF IInv, TypeOK
  <2>5. repeats' \in 0..MaxRepeats /\ moves' \in 0..MaxMoves /\ policy' \in Policies
    BY <1>2 DEF Joined, IInv, TypeOK
  <2> QED BY <1>2, <1>7, <2>1, <2>2, <2>3, <2>4, <2>5 DEF TypeOK, Later
<1>9. OneKeyHolder' /\ OneBySource'
  BY <1>4, Released
<1>10. Unstored'
  <2>1. \A f \in Events : f # e => event'[f] = event[f]
    BY <1>3 DEF IInv, TypeOK
  <2> QED BY <1>1, <1>4, <2>1, OtherEvents
<1>11. Copies'
  BY <1>1, <1>4, <1>7, OthersRead
<1>12. RoundHolds'
  BY <1>2 DEF RoundHolds
<1>13. Levels'
  <2> SUFFICES ASSUME NEW g \in DOMAIN groups', groups'[g].due PROVE groups'[g].level <= 1
    BY DEF Levels
  <2>1. CASE g \in 1..n
    BY <1>5, <2>1 DEF GrownAt, IInv, Levels
  <2>2. CASE g \notin 1..n
    BY <1>5, <1>17, <2>2
  <2> QED BY <2>1, <2>2
<1>14. OneOpen'
  <2>1. ASSUME NEW g \in DOMAIN groups', groups'[g].status = "OPEN" PROVE g = at
    BY <1>5, <1>17, <2>1 DEF GrownAt
  <2> QED BY <2>1 DEF OneOpen
<1>15. QuietOnceAnswered'
  <2> SUFFICES ASSUME NEW g \in DOMAIN groups', groups'[g].acked \/ groups'[g].status = "RESOLVED"
               PROVE  ~groups'[g].due
    BY <1>2 DEF QuietOnceAnswered
  <2>1. CASE g \in 1..n
    BY <1>5, <2>1 DEF GrownAt, IInv, QuietOnceAnswered
  <2>2. CASE g \notin 1..n
    BY <1>5, <1>17, <2>2
  <2> QED BY <2>1, <2>2
<1> QED  BY <1>8, <1>9, <1>10, <1>11, <1>12, <1>13, <1>14, <1>15 DEF IInv

-----------------------------------------------------------------------------
(* The steps that change one group, and none that a cycle holds.           *)

Changes(g, new) ==
  /\ groups' = [groups EXCEPT ![g] = new] /\ new.ticket = groups[g].ticket
  /\ new.status = "OPEN" => groups[g].status = "OPEN"
  /\ new.due => groups[g].due /\ new.level <= 1
  /\ new.acked \/ new.status = "RESOLVED" => ~new.due
  /\ round' # None => round' = round /\ round.group # g
  /\ policy' = policy /\ desk' \in {None, desk} /\ UNCHANGED <<repeats, moves>>

LEMMA ChangesKeeps ==
  ASSUME IInv, NEW g \in DOMAIN groups, NEW new \in Groups, Changes(g, new), TicketsMove
  PROVE  /\ Later /\ RoundHolds' /\ Levels' /\ OneOpen' /\ QuietOnceAnswered'
         /\ groups' \in Seq(Groups) /\ Len(groups') = Len(groups)
         /\ groups'[g] = new /\ \A h \in DOMAIN groups : h # g => groups'[h] = groups[h]
         /\ event' \in [Events -> [disposition : Dispositions, group : 0..Len(groups)]]
              => (task' \in [Workers -> Tasks \cup {None}] => TypeOK')
<1> DEFINE n == Len(groups)
<1>1. /\ n \in Nat /\ DOMAIN groups = 1..n /\ groups \in Seq(Groups) /\ g \in 1..n
      /\ tickets' \in Seq(Tickets) /\ Len(tickets) <= Len(tickets')
      /\ Len(tickets) \in Nat /\ Len(tickets') \in Nat
  BY GroupsAre, LenProperties DEF IInv, TypeOK, TicketsMove
<1>2. groups' \in Seq(Groups) /\ Len(groups') = n
  BY <1>1, ExceptSeq DEF Changes
<1>3. groups'[g] = new /\ \A h \in 1..n : h # g => groups'[h] = groups[h]
  BY <1>1 DEF Changes
<1>4. DOMAIN groups' = 1..n
  BY <1>2, LenProperties
<1>5. Later
  <2>1. \A h \in 1..n : groups'[h].due => groups[h].due
    BY <1>3 DEF Changes
  <2> QED BY <1>1, <1>2, <2>1 DEF Later
<1>6. RoundHolds'
  <2> SUFFICES ASSUME round' # None PROVE RoundHolds'
    BY DEF RoundHolds
  <2>1. round' = round /\ round.group # g /\ round.group \in 1..n
    BY DEF Changes, IInv, TypeOK
  <2> QED BY <1>3, <2>1 DEF IInv, RoundHolds
<1>7. Levels'
  <2> SUFFICES ASSUME NEW h \in 1..n, groups'[h].due PROVE groups'[h].level <= 1
    BY <1>4 DEF Levels
  <2> QED BY <1>1, <1>3 DEF IInv, Levels, Changes
<1>8. OneOpen'
  <2>1. \A h \in 1..n : groups'[h].status = "OPEN" => groups[h].status = "OPEN"
    BY <1>3 DEF Changes
  <2> QED BY <1>1, <1>4, <2>1 DEF IInv, OneOpen
<1>9. QuietOnceAnswered'
  <2> SUFFICES ASSUME NEW h \in 1..n, groups'[h].acked \/ groups'[h].status = "RESOLVED"
               PROVE  ~groups'[h].due /\ (round' # None => round'.group # h)
    BY <1>4 DEF QuietOnceAnswered
  <2>1. CASE h = g
    BY <1>3, <2>1 DEF Changes
  <2>2. CASE h # g
    BY <1>1, <1>3, <2>2 DEF Changes, IInv, QuietOnceAnswered
  <2> QED BY <2>1, <2>2
<1>10. ASSUME event' \in [Events -> [disposition : Dispositions, group : 0..n]],
              task' \in [Workers -> Tasks \cup {None}]
       PROVE  TypeOK'
  <2>1. \A h \in 1..n : groups'[h].ticket \in 0..Len(tickets')
    <3> SUFFICES ASSUME NEW h \in 1..n PROVE groups'[h].ticket \in 0..Len(tickets')
      OBVIOUS
    <3>1. groups[h].ticket \in 0..Len(tickets)
      BY <1>1 DEF IInv, TypeOK
    <3>2. groups'[h].ticket = groups[h].ticket
      BY <1>3 DEF Changes
    <3> QED BY <1>1, <3>1, <3>2
  <2>2. policy' \in Policies /\ repeats' \in 0..MaxRepeats /\ moves' \in 0..MaxMoves
    BY DEF Changes, IInv, TypeOK
  <2>3. /\ round' \in [group : 1..n, seen : Statuses \cup {None}] \cup {None}
        /\ desk' \in [group : 1..n, row : Groups] \cup {None}
    BY DEF Changes, IInv, TypeOK
  <2> QED BY <1>1, <1>2, <1>4, <1>10, <2>1, <2>2, <2>3 DEF TypeOK
<1> QED  BY <1>1, <1>2, <1>3, <1>5, <1>6, <1>7, <1>8, <1>9, <1>10

\* Nobody who has locked the group ingests meanwhile.
LEMMA ChangesCopies ==
  ASSUME IInv, NEW g \in DOMAIN groups, NEW new \in Groups, Changes(g, new), TicketsMove,
         groups[g].status = "OPEN", new.status = "OPEN", UNCHANGED <<event, task>>,
         \A w \in Workers : Firing(w) => task[w].group # g
  PROVE  IInv'
<1>1. /\ Later /\ RoundHolds' /\ Levels' /\ OneOpen' /\ QuietOnceAnswered' /\ Len(groups') = Len(groups)
      /\ groups'[g] = new /\ \A h \in DOMAIN groups : h # g => groups'[h] = groups[h]
  BY ChangesKeeps
<1>2. TypeOK'
  BY ChangesKeeps DEF IInv, TypeOK
<1>3. OneKeyHolder' /\ OneBySource' /\ Unstored'
  BY DEF IInv, OneKeyHolder, OneBySource, Unstored, Stored
<1>4. Copies'
  <2> SUFFICES ASSUME NEW k \in Tasks, CopyRead(k), NEW w \in Workers, k = task[w], k # None,
                      Kind[k.event].firing => CopyLocked(k)
               PROVE  CopyRead(k)' /\ (Kind[k.event].firing => CopyLocked(k)')
    <3> SUFFICES ASSUME NEW w \in Workers, task'[w] # None
                 PROVE  CopyRead(task[w])' /\ (Kind[task[w].event].firing => CopyLocked(task[w]))'
      BY DEF Copies
    <3>1. PICK k \in Tasks : k = task[w] /\ k = task'[w]
      BY DEF IInv, TypeOK
    <3>2. CopyRead(k) /\ (Kind[k.event].firing => CopyLocked(k))
      BY <3>1 DEF IInv, Copies
    <3>3. CopyRead(k)' /\ (Kind[k.event].firing => CopyLocked(k)')
      BY <3>1, <3>2
    <3>4. CopyRead(task[w])'
      BY <3>1, <3>3 DEF CopyRead
    <3>5. (Kind[task[w].event].firing => CopyLocked(task[w]))'
      BY <3>1, <3>3 DEF CopyLocked
    <3> QED BY <3>4, <3>5
  <2>1. CopyRead(k)'
    BY <1>1, CopyReadKept DEF IInv, TicketsMove
  <2>2. ASSUME Kind[k.event].firing PROVE CopyLocked(k)'
    <3>1. CASE k.pc = "KEY"
      BY <2>2, <3>1 DEF CopyLocked
    <3>2. CASE k.pc = "TICKET"
      <4>1. k.group # g /\ k.group # 0
        BY <2>2, <3>2 DEF Firing, CopyLocked
      <4>2. k.group \in DOMAIN groups
        BY <4>1, GroupsAre DEF CopyRead, IInv
      <4>3. groups'[k.group] = groups[k.group]
        BY <1>1, <4>1, <4>2
      <4> QED BY <2>2, <3>2, <4>1, <4>3 DEF CopyLocked, Changes
    <3> QED BY <3>1, <3>2 DEF Tasks
  <2> QED BY <2>1, <2>2
<1> QED  BY <1>1, <1>2, <1>3, <1>4 DEF IInv

LEMMA AcknowledgeKeeps ==
  ASSUME IInv, Acknowledge
  PROVE  IInv' /\ TicketsMove /\ \E g \in DOMAIN groups, new \in Groups :
           Changes(g, new) /\ new.count = groups[g].count /\ UNCHANGED <<event, tickets>>
<1> DEFINE g == desk.group
           v == groups[g].version + 1
           new == [groups[g] EXCEPT !.acked = TRUE, !.due = FALSE, !.version = v]
<1>1. g \in DOMAIN groups /\ groups[g] \in Groups
  BY GroupsAre DEF Acknowledge, IInv, TypeOK
<1>2. /\ RowFree(g, Workers) /\ groups[g].status = "OPEN" /\ groups' = [groups EXCEPT ![g] = new]
      /\ desk' = None /\ UNCHANGED <<policy, event, tickets, task, round, repeats, moves>>
  BY DEF Acknowledge
<1>3. v \in Nat
  BY <1>1 DEF Groups
<1> HIDE DEF v, g
<1>4. new \in Groups /\ new.ticket = groups[g].ticket /\ new.status = groups[g].status /\ new.count = groups[g].count
  BY <1>1, <1>3 DEF Groups
<1>5. ~new.due
  BY <1>1 DEF Groups
<1> HIDE DEF new
<1>6. Changes(g, new)
  BY <1>2, <1>4, <1>5 DEF Changes, RowFree
<1>7. TicketsMove
  BY <1>2, NoneMoves DEF IInv
<1>8. \A w \in Workers : Firing(w) => task[w].group # g
  BY <1>2 DEF RowFree, Firing
<1>9. IInv'
  BY <1>1, <1>2, <1>4, <1>6, <1>7, <1>8, ChangesCopies
<1> QED  BY <1>1, <1>2, <1>4, <1>6, <1>7, <1>9

\* The cycle holds a group that still is open, not acknowledged and overdue.
LEMMA EscalateKeeps ==
  ASSUME IInv, Escalate, ~UNCHANGED <<groups, tickets>>
  PROVE  IInv' /\ TicketsMove /\ \E g \in DOMAIN groups, new \in Groups :
           Changes(g, new) /\ new.count = groups[g].count /\ UNCHANGED event /\ Len(tickets') = Len(tickets)
<1> DEFINE g == round.group
           t == groups[g].ticket
           new == Raised(groups[g])
           assigns == t # 0 /\ (policy.primary \/ policy.fallback) /\ round.seen = "NEW"
<1>1. /\ round # None /\ groups' = [groups EXCEPT ![g] = new] /\ round' = None
      /\ ~(assigns /\ tickets[t].status # "NEW")
      /\ tickets' = IF assigns THEN [tickets EXCEPT ![t] = Moved(@, <<"ASSIGNED">>)] ELSE tickets
      /\ UNCHANGED <<policy, event, task, desk, repeats, moves>>
  BY DEF Escalate
<1>2. /\ g \in DOMAIN groups /\ groups[g] \in Groups /\ t \in 0..Len(tickets)
      /\ groups[g].status = "OPEN" /\ ~groups[g].acked /\ groups[g].due /\ groups[g].level <= 1
  BY <1>1, GroupsAre DEF IInv, TypeOK, RoundHolds, Levels
<1>3. /\ new \in Groups
      /\ new.level = groups[g].level + 1 /\ (new.due => groups[g].level = 0)
      /\ new.count = groups[g].count /\ new.status = groups[g].status
      /\ new.ticket = groups[g].ticket
  BY <1>2, RaisedIs DEF IInv
<1>4. new.acked = groups[g].acked
  BY <1>2, RaisedIs DEF IInv
<1> HIDE DEF new
<1>5. TicketsMove /\ Len(tickets') = Len(tickets)
  <2>1. CASE assigns
    <3> DEFINE moved == Moved(tickets[t], <<"ASSIGNED">>)
    <3>1. t \in DOMAIN tickets /\ tickets[t] \in Tickets /\ tickets[t].status = "NEW"
      BY <1>1, <1>2, <2>1, GroupsAre DEF IInv
    <3>2. tickets' = [tickets EXCEPT ![t] = moved]
      BY <1>1, <2>1
    <3>3. moved \in Tickets /\ moved.version = tickets[t].version + 1 /\ moved.status \in Within[1][tickets[t].status]
      BY <3>1, StatusesAre, StepMoves
    <3> HIDE DEF moved
    <3>4. moved.version > tickets[t].version /\ moved.version - tickets[t].version = 1
      BY <3>1, <3>3 DEF Tickets
    <3>5. Lawful(tickets[t], moved)
      BY <3>3, <3>4 DEF Lawful
    <3> QED BY <3>1, <3>2, <3>3, <3>5, OneMoves DEF IInv
  <2>2. CASE ~assigns
    BY <1>1, <2>2, NoneMoves DEF IInv
  <2> QED BY <2>1, <2>2
<1>6. Changes(g, new)
  <2>1. new.due => new.level <= 1
    BY <1>3
  <2> QED BY <1>1, <1>2, <1>3, <1>4, <2>1 DEF Changes
<1>7. \A w \in Workers : Firing(w) => task[w].group # g
  BY <1>1, FiringAlone
<1>8. IInv'
  BY <1>1, <1>2, <1>3, <1>5, <1>6, <1>7, ChangesCopies
<1> QED  BY <1>1, <1>2, <1>3, <1>5, <1>6, <1>8

LEMMA RecoverMoves ==
  ASSUME IInv, NEW w \in Workers, Recover(w)
  PROVE  TicketsMove /\ Len(tickets') = Len(tickets)
<1> DEFINE k == task[w]
           t == k.copy.ticket
           aim == policy.onRecovery
           path == Paths[k.seen][aim]
           ends == /\ t # 0 /\ aim # "NONE" /\ k.seen \notin {"RESOLVED", "CLOSED"}
                   /\ HasPath(k.seen, aim) /\ Accepts(tickets[t], path)
<1>1. /\ k # None /\ k \in Tasks /\ k.pc = "TICKET" /\ k.copy # None
      /\ tickets' = IF ends THEN [tickets EXCEPT ![t] = Moved(@, path)] ELSE tickets
  BY DEF Recover, Recovering, IInv, TypeOK
<1>2. t \in 0..Len(tickets) /\ (t # 0 => k.seen \in Statuses)
  BY <1>1 DEF IInv, Copies, CopyRead
<1>3. CASE ends
  <2> DEFINE new == Moved(tickets[t], path)
  <2>1. t \in DOMAIN tickets /\ tickets[t] \in Tickets
    BY <1>2, <1>3, GroupsAre DEF IInv
  <2>2. aim \in Statuses /\ k.seen \in Statuses
    BY <1>2, <1>3, PolicyIs, StatusesAre DEF IInv
  <2>3. /\ new \in Tickets /\ new.version > tickets[t].version
        /\ new.status \in Within[new.version - tickets[t].version][tickets[t].status]
    BY <1>3, <2>1, <2>2, PathMoves
  <2>4. tickets' = [tickets EXCEPT ![t] = new]
    BY <1>1, <1>3
  <2> HIDE DEF new
  <2>5. Lawful(tickets[t], new)
    BY <2>3 DEF Lawful
  <2> QED BY <2>1, <2>3, <2>4, <2>5, OneMoves DEF IInv
<1>4. CASE ~ends
  BY <1>1, <1>4, NoneMoves DEF IInv
<1> QED  BY <1>3, <1>4

\* The recovery that ends a group leaves it no deadline, whatever row it has read.
LEMMA RecoverKeeps ==
  ASSUME IInv, NEW w \in Workers, Recover(w)
  PROVE  IInv' /\ TicketsMove /\ \E g \in DOMAIN groups, new \in Groups :
           /\ Changes(g, new) /\ new.count = groups[g].count /\ Len(tickets') = Len(tickets)
           /\ event' = [event EXCEPT ![task[w].event] = [disposition |-> "RESOLVED", group |-> g]]
<1> DEFINE k == task[w]
           g == k.group
           new == Ended(groups[g], k.copy)
<1>1. /\ k # None /\ k \in Tasks /\ k.pc = "TICKET" /\ k.copy # None /\ k.event \in Events
      /\ RowFree(g, Workers \ {w}) /\ groups' = [groups EXCEPT ![g] = new]
      /\ event' = [event EXCEPT ![k.event] = [disposition |-> "RESOLVED", group |-> g]]
      /\ task' = [task EXCEPT ![w] = None] /\ UNCHANGED <<policy, round, desk, repeats, moves>>
  BY DEF Recover, Recovering, IInv, TypeOK, Tasks, Commit
<1>2. CopyRead(k)
  BY <1>1 DEF IInv, Copies
<1>3. /\ g \in DOMAIN groups /\ groups[g] \in Groups /\ k.copy \in Groups /\ g \in 1..Len(groups)
      /\ groups[g].due => k.copy.due
  BY <1>1, <1>2, GroupsAre DEF CopyRead, Tasks, IInv
<1>4. /\ new \in Groups /\ new.status = "RESOLVED" /\ (new.due => groups[g].due /\ ~k.copy.due)
      /\ new.count = groups[g].count /\ new.ticket = groups[g].ticket
  BY <1>3, EndedIs
<1> HIDE DEF new
<1>5. ~new.due
  BY <1>3, <1>4
<1>6. Changes(g, new)
  BY <1>1, <1>4, <1>5 DEF Changes, RowFree
<1>7. TicketsMove /\ Len(tickets') = Len(tickets)
  BY RecoverMoves
<1>8. Later /\ RoundHolds' /\ Levels' /\ OneOpen' /\ QuietOnceAnswered'
  BY <1>3, <1>4, <1>6, <1>7, ChangesKeeps
<1>9. OneKeyHolder' /\ OneBySource' /\ task' \in [Workers -> Tasks \cup {None}]
  BY <1>1, Released
<1>10. event' \in [Events -> [disposition : Dispositions, group : 0..Len(groups)]]
  <2> DEFINE r == [disposition |-> "RESOLVED", group |-> g]
  <2>1. r \in [disposition : Dispositions, group : 0..Len(groups)]
    BY <1>3, GroupsAre DEF Dispositions
  <2> HIDE DEF r
  <2> QED BY <1>1, <2>1 DEF IInv, TypeOK, r
<1>11. TypeOK'
  BY <1>3, <1>4, <1>6, <1>7, <1>9, <1>10, ChangesKeeps
<1>12. Unstored'
  <2>1. \A f \in Events : f # k.event => event'[f] = event[f]
    BY <1>1 DEF IInv, TypeOK
  <2> QED BY <1>1, <2>1, OtherEvents
<1>13. Copies'
  BY <1>1, <1>7, <1>8, OthersRead DEF TicketsMove
<1>14. IInv'
  BY <1>8, <1>9, <1>11, <1>12, <1>13 DEF IInv
<1> QED  BY <1>1, <1>3, <1>4, <1>6, <1>7, <1>14

-----------------------------------------------------------------------------
(* The steps that leave the groups as they are.                            *)

Typed ==
  /\ event' \in [Events -> [disposition : Dispositions, group : 0..Len(groups)]]
  /\ task' \in [Workers -> Tasks \cup {None}]
  /\ round' \in [group : 1..Len(groups), seen : Statuses \cup {None}] \cup {None}
  /\ desk' \in [group : 1..Len(groups), row : Groups] \cup {None}
  /\ repeats' \in 0..MaxRepeats /\ moves' \in 0..MaxMoves /\ policy' = policy

LEMMA SameGroups ==
  ASSUME IInv, groups' = groups, TicketsMove, Typed
  PROVE  TypeOK' /\ Later /\ Levels' /\ OneOpen'
<1>1. /\ groups \in Seq(Groups) /\ Len(groups) \in Nat /\ Len(tickets) \in Nat
      /\ tickets' \in Seq(Tickets) /\ Len(tickets) <= Len(tickets') /\ Len(tickets') \in Nat
  BY GroupsAre, LenProperties DEF TicketsMove, IInv, TypeOK
<1>2. Later
  BY <1>1 DEF Later
<1>3. \A g \in DOMAIN groups : groups[g].ticket \in 0..Len(tickets')
  <2>1. 0..Len(tickets) \subseteq 0..Len(tickets')
    BY <1>1
  <2> QED BY <2>1 DEF IInv, TypeOK
<1>4. TypeOK'
  BY <1>1, <1>3 DEF IInv, TypeOK, Typed
<1>5. Levels' /\ OneOpen'
  BY DEF IInv, Levels, OneOpen
<1> QED  BY <1>2, <1>4, <1>5

LEMMA CopyKept ==
  ASSUME IInv, groups' = groups, TicketsMove, NEW w \in Workers, task[w] # None, task'[w] = task[w],
         Firing(w) /\ round' # None => round'.group # task[w].group
  PROVE  CopyRead(task[w])' /\ (Kind[task[w].event].firing => CopyLocked(task[w]))'
<1>1. PICK k \in Tasks : k = task[w] /\ k = task'[w]
  BY DEF IInv, TypeOK
<1>2. CopyRead(k) /\ (Kind[k.event].firing => CopyLocked(k))
  BY <1>1 DEF IInv, Copies
<1>3. /\ groups' \in Seq(Groups) /\ Len(groups) \in Nat /\ Len(tickets) \in Nat /\ TypeOK
      /\ tickets' \in Seq(Tickets) /\ Len(tickets) <= Len(tickets') /\ Len(tickets') \in Nat
  BY GroupsAre, LenProperties DEF TicketsMove, IInv, TypeOK
<1>4. CopyRead(k)'
  <2>1. Later
    BY <1>3 DEF Later
  <2> QED BY <1>2, <1>3, <2>1, CopyReadKept
<1>5. Kind[k.event].firing => CopyLocked(k)'
  BY <1>1, <1>2 DEF CopyLocked, Firing
<1>6. CopyRead(task[w])'
  BY <1>1, <1>4 DEF CopyRead
<1>7. (Kind[task[w].event].firing => CopyLocked(task[w]))'
  BY <1>1, <1>5 DEF CopyLocked
<1> QED  BY <1>6, <1>7

LEMMA SameRound ==
  ASSUME IInv, groups' = groups, round' \in {None, round}
  PROVE  RoundHolds' /\ QuietOnceAnswered'
<1>1. CASE round' = None
  BY <1>1 DEF IInv, RoundHolds, QuietOnceAnswered
<1>2. CASE round' = round
  BY <1>2 DEF IInv, RoundHolds, QuietOnceAnswered
<1> QED  BY <1>1, <1>2

\* Some ingestions end, others go on, and nobody begins or reads anything.
LEMMA QuietKeeps ==
  ASSUME IInv, groups' = groups, TicketsMove, Typed, round' \in {None, round},
         \A w \in Workers : task'[w] # None =>
           task'[w] = task[w] /\ event'[task[w].event] = event[task[w].event]
  PROVE  IInv'
<1>1. TypeOK' /\ Levels' /\ OneOpen'
  BY SameGroups
<1>2. OneKeyHolder' /\ OneBySource' /\ Unstored'
  BY DEF IInv, OneKeyHolder, OneBySource, Unstored, Stored
<1>3. RoundHolds' /\ QuietOnceAnswered'
  BY SameRound
<1>4. Copies'
  <2> SUFFICES ASSUME NEW w \in Workers, task'[w] # None
               PROVE  CopyRead(task[w])' /\ (Kind[task[w].event].firing => CopyLocked(task[w]))'
    BY DEF Copies
  <2>1. task'[w] = task[w] /\ task[w] # None
    OBVIOUS
  <2>2. Firing(w) /\ round' # None => round'.group # task[w].group
    BY FiringAlone
  <2> QED BY <2>1, <2>2, CopyKept
<1> QED  BY <1>1, <1>2, <1>3, <1>4 DEF IInv

LEMMA WorkMoves ==
  ASSUME IInv, WorkOnTicket
  PROVE  TicketsMove /\ Len(tickets') = Len(tickets)
<1>1. PICK t \in DOMAIN tickets : \E to \in Transitions[tickets[t].status] \cap Aims :
        tickets' = [tickets EXCEPT ![t] = Moved(@, <<to>>)]
  BY DEF WorkOnTicket
<1>2. PICK to \in Transitions[tickets[t].status] : tickets' = [tickets EXCEPT ![t] = Moved(@, <<to>>)]
  BY <1>1
<1> DEFINE new == Moved(tickets[t], <<to>>)
<1>3. tickets[t] \in Tickets
  BY <1>1, GroupsAre DEF IInv
<1>4. new \in Tickets /\ new.version = tickets[t].version + 1 /\ new.status \in Within[1][tickets[t].status]
  BY <1>2, <1>3, StepMoves
<1>5. tickets' = [tickets EXCEPT ![t] = new]
  BY <1>2
<1> HIDE DEF new
<1>6. new.version > tickets[t].version /\ new.version - tickets[t].version = 1
  BY <1>3, <1>4 DEF Tickets
<1>7. Lawful(tickets[t], new)
  BY <1>4, <1>6 DEF Lawful
<1> QED  BY <1>1, <1>4, <1>5, <1>7, OneMoves DEF IInv

\* The ticket that is merged goes its whole path; the other is only touched.
LEMMA MergeMoves ==
  ASSUME IInv, MergeTicket
  PROVE  TicketsMove /\ Len(tickets') = Len(tickets)
<1>1. PICK t \in DOMAIN tickets : \E u \in (DOMAIN tickets \ {t}) \cup {0} :
        /\ tickets[t].status \notin {"RESOLVED", "CLOSED", "CANCELLED"}
        /\ tickets' = [x \in DOMAIN tickets |->
             CASE x = t -> Moved(tickets[t], Paths[tickets[t].status]["CANCELLED"])
               [] x = u -> [tickets[u] EXCEPT !.version = @ + 1]
               [] OTHER -> tickets[x]]
  BY DEF MergeTicket
<1> DEFINE path == Paths[tickets[t].status]["CANCELLED"]
           new == Moved(tickets[t], path)
<1>2. PICK u \in (DOMAIN tickets \ {t}) \cup {0} :
        tickets' = [x \in DOMAIN tickets |->
             CASE x = t -> new
               [] x = u -> [tickets[u] EXCEPT !.version = @ + 1]
               [] OTHER -> tickets[x]]
  BY <1>1
<1>3. /\ DOMAIN tickets = 1..Len(tickets) /\ Len(tickets) \in Nat
      /\ \A x \in DOMAIN tickets : tickets[x] \in Tickets
  BY GroupsAre DEF IInv
<1>4. new \in Tickets /\ Lawful(tickets[t], new)
  <2>1. tickets[t] \in Tickets /\ tickets[t].status \in Statuses \ {"RESOLVED", "CLOSED", "CANCELLED"}
    BY <1>1, <1>3 DEF Tickets
  <2>2. HasPath(tickets[t].status, "CANCELLED") /\ "CANCELLED" \in Statuses
    BY <2>1, TablesAssumption, StatusesAre
  <2>3. path[1] \in Transitions[tickets[t].status]
    BY <2>1, <2>2, TablesAssumption
  <2>4. Accepts(tickets[t], path)
    BY <2>3 DEF Accepts
  <2>5. /\ new \in Tickets /\ new.version > tickets[t].version
        /\ new.status \in Within[new.version - tickets[t].version][tickets[t].status]
    BY <2>1, <2>2, <2>4, PathMoves
  <2> QED BY <2>5 DEF Lawful
<1> HIDE DEF new
<1>5. \A x \in DOMAIN tickets : tickets'[x] \in Tickets /\ Lawful(tickets[x], tickets'[x])
  <2> SUFFICES ASSUME NEW x \in DOMAIN tickets
               PROVE  tickets'[x] \in Tickets /\ Lawful(tickets[x], tickets'[x])
    OBVIOUS
  <2>1. CASE x = t
    <3>1. tickets'[x] = new
      BY <1>2, <1>3, <2>1
    <3> QED BY <1>4, <2>1, <3>1
  <2>2. CASE x # t /\ x = u
    <3> DEFINE v == tickets[x].version + 1
    <3>1. tickets'[x] = [tickets[x] EXCEPT !.version = v]
      BY <1>2, <2>2
    <3>2. /\ tickets[x] \in Tickets /\ v \in Nat \ {0} /\ v > tickets[x].version
          /\ v - tickets[x].version = 1 /\ tickets[x].status \in Statuses
      BY <1>3 DEF Tickets
    <3> HIDE DEF v
    <3>3. tickets'[x] \in Tickets /\ tickets'[x].version = v /\ tickets'[x].status = tickets[x].status
      BY <3>1, <3>2 DEF Tickets
    <3>4. tickets[x].status \in Within[1][tickets[x].status]
      BY <3>2, TablesAssumption
    <3> QED BY <3>2, <3>3, <3>4 DEF Lawful
  <2>3. CASE x # t /\ x # u
    <3>1. tickets'[x] = tickets[x]
      BY <1>2, <2>3
    <3> QED BY <1>3, <3>1 DEF Lawful
  <2> QED BY <2>1, <2>2, <2>3
<1>6. tickets' \in Seq(Tickets) /\ Len(tickets') = Len(tickets)
  <2>1. DOMAIN tickets' = 1..Len(tickets)
    BY <1>2, <1>3
  <2>2. tickets' \in [1..Len(tickets) -> Tickets]
    BY <1>2, <1>3, <1>5, <2>1
  <2>3. tickets' \in Seq(Tickets)
    BY <1>3, <2>2, SeqDef
  <2>4. DOMAIN tickets' = 1..Len(tickets') /\ Len(tickets') \in Nat
    BY <2>3, LenProperties
  <2> QED BY <1>3, <2>1, <2>3, <2>4
<1> QED  BY <1>3, <1>5, <1>6 DEF TicketsMove

\* A new ingestion has its event's source to itself.
LEMMA IngestKeeps ==
  ASSUME IInv, NEW w \in Workers, NEW e \in Events, Ingest(w, e)
  PROVE  IInv' /\ TicketsMove
<1> DEFINE g == Remembered(e)
           copy == IF g = 0 THEN None ELSE groups[g]
           k == [pc |-> "KEY", event |-> e, group |-> g, copy |-> copy, seen |-> None]
<1>1. /\ task[w] = None /\ ~Stored(e) /\ SourceFree(e) /\ task' = [task EXCEPT ![w] = k]
      /\ UNCHANGED <<policy, event, groups, tickets, round, desk, repeats, moves>>
  BY DEF Ingest
<1>2. /\ Len(groups) \in Nat /\ DOMAIN groups = 1..Len(groups) /\ Len(tickets) \in Nat
      /\ \A h \in DOMAIN groups : groups[h] \in Groups
  BY GroupsAre DEF IInv
<1>3. g \in 0..Len(groups) /\ (Kind[e].firing => g = 0)
  <2>1. CASE Kind[e].firing \/ Previous(e) = {}
    BY <1>2, <2>1 DEF Remembered
  <2>2. CASE ~Kind[e].firing /\ Previous(e) # {}
    <3> DEFINE f == CHOOSE f \in Previous(e) : TRUE
    <3>1. f \in Previous(e)
      BY <2>2
    <3>2. f \in Events
      BY <3>1 DEF Previous
    <3>3. g = event[f].group
      BY <2>2 DEF Remembered
    <3> HIDE DEF f, g
    <3> QED BY <2>2, <3>2, <3>3 DEF IInv, TypeOK
  <2> QED BY <2>1, <2>2
<1> HIDE DEF g
<1>4. copy \in Groups \cup {None} /\ (copy = None <=> g = 0) /\ (copy # None => copy = groups[g])
  BY <1>2, <1>3, NoneAssumption
<1> HIDE DEF copy
<1>5. /\ k \in Tasks /\ k.pc = "KEY" /\ k.event = e /\ k.group = g /\ k.copy = copy
  BY <1>2, <1>3, <1>4 DEF Tasks
<1> HIDE DEF k
<1>6. \A v \in Workers : task'[v] = IF v = w THEN k ELSE task[v]
  BY <1>1 DEF IInv, TypeOK
<1>7. TicketsMove
  BY <1>1, NoneMoves DEF IInv
<1>8. Typed
  <2>1. task' \in [Workers -> Tasks \cup {None}]
    BY <1>1, <1>5 DEF IInv, TypeOK
  <2> QED BY <1>1, <2>1 DEF IInv, TypeOK, Typed
<1>9. TypeOK' /\ Levels' /\ OneOpen'
  BY <1>1, <1>7, <1>8, SameGroups
<1>10. RoundHolds' /\ QuietOnceAnswered'
  BY <1>1, SameRound
<1>11. OneKeyHolder'
  BY <1>5, <1>6 DEF IInv, OneKeyHolder
<1>12. OneBySource'
  BY <1>1, <1>5, <1>6 DEF IInv, OneBySource, SourceFree
<1>13. Unstored'
  BY <1>1, <1>5, <1>6 DEF IInv, Unstored, Stored
<1>14. Copies'
  <2> SUFFICES ASSUME NEW v \in Workers, task'[v] # None
               PROVE  CopyRead(task[v])' /\ (Kind[task[v].event].firing => CopyLocked(task[v]))'
    BY DEF Copies
  <2>1. CASE v = w
    <3>1. PICK x \in Tasks : x = k /\ x = task'[v]
      BY <1>5, <1>6, <2>1
    <3>2. groups[g].ticket \in 0..Len(tickets) \/ copy = None
      <4>1. g # 0 => g \in DOMAIN groups
        BY <1>2, <1>3
      <4>2. g # 0 => groups[g].ticket \in 0..Len(tickets)
        BY <4>1 DEF IInv, TypeOK
      <4>3. g = 0 => copy = None
        BY <1>4
      <4> QED BY <4>2, <4>3
    <3>3. CopyRead(x)'
      BY <1>1, <1>3, <1>4, <1>5, <3>1, <3>2 DEF CopyRead
    <3>4. Kind[x.event].firing => CopyLocked(x)'
      BY <1>3, <1>5, <3>1 DEF CopyLocked
    <3>5. CopyRead(task[v])'
      BY <3>1, <3>3 DEF CopyRead
    <3>6. (Kind[task[v].event].firing => CopyLocked(task[v]))'
      BY <3>1, <3>4 DEF CopyLocked
    <3> QED BY <3>5, <3>6
  <2>2. CASE v # w
    <3>1. task'[v] = task[v] /\ task[v] # None
      BY <1>6, <2>2
    <3>2. Firing(v) /\ round' # None => round'.group # task[v].group
      BY <1>1, FiringAlone
    <3> QED BY <1>1, <1>7, <3>1, <3>2, CopyKept
  <2> QED BY <2>1, <2>2
<1> QED  BY <1>7, <1>9, <1>10, <1>11, <1>12, <1>13, <1>14 DEF IInv

LEMMA OpenGroupIs ==
  ASSUME IInv
  PROVE  /\ OpenGroup = 0 => \A g \in DOMAIN groups : groups[g].status # "OPEN"
         /\ OpenGroup # 0 => OpenGroup \in DOMAIN groups /\ groups[OpenGroup].status = "OPEN"
<1> DEFINE open == {g \in DOMAIN groups : groups[g].status = "OPEN"}
<1>1. OpenGroup = IF open = {} THEN 0 ELSE CHOOSE g \in open : TRUE
  BY DEF OpenGroup
<1>2. CASE open = {}
  BY <1>1, <1>2
<1>3. CASE open # {}
  <2>1. OpenGroup \in open
    BY <1>1, <1>3
  <2>2. 0 \notin open
    BY GroupsAre DEF IInv
  <2> QED BY <2>1, <2>2
<1> QED  BY <1>2, <1>3

\* The ingestion that gets the key reads the group that is open now.
LEMMA CorrelateKeeps ==
  ASSUME IInv, NEW w \in Workers, Correlate(w)
  PROVE  IInv' /\ TicketsMove
<1> DEFINE k == task[w]
           g == IF k.group # 0 THEN k.group ELSE OpenGroup
           row == IF k.group # 0 THEN k.copy ELSE IF g = 0 THEN None ELSE groups[g]
           seen == IF row = None THEN None ELSE StatusOf(row.ticket)
           new == [k EXCEPT !.pc = "TICKET", !.group = g, !.copy = row, !.seen = seen]
<1>1. /\ k # None /\ k.pc = "KEY" /\ KeyFree /\ k \in Tasks
      /\ k.group = 0 /\ g # 0 => RowFree(g, Workers \ {w})
      /\ task' = [task EXCEPT ![w] = new]
      /\ UNCHANGED <<policy, event, groups, tickets, round, desk, repeats, moves>>
  BY DEF Correlate, IInv, TypeOK
<1>2. /\ Len(groups) \in Nat /\ DOMAIN groups = 1..Len(groups) /\ Len(tickets) \in Nat
      /\ DOMAIN tickets = 1..Len(tickets)
      /\ \A h \in DOMAIN groups : groups[h] \in Groups
      /\ \A t \in DOMAIN tickets : tickets[t] \in Tickets
  BY GroupsAre DEF IInv
<1>3. CopyRead(k) /\ (Kind[k.event].firing => CopyLocked(k)) /\ k.event \in Events
  BY <1>1 DEF IInv, Copies, Tasks
<1>4. /\ g \in 0..Len(groups) /\ (row = None <=> g = 0) /\ row \in Groups \cup {None}
      /\ row # None => (groups[g].due => row.due) /\ row.ticket \in 0..Len(tickets)
  <2>1. CASE k.group # 0
    BY <1>1, <1>3, <2>1 DEF CopyRead, Tasks
  <2>2. CASE k.group = 0
    <3>1. g = OpenGroup /\ row = IF g = 0 THEN None ELSE groups[g]
      BY <2>2
    <3> HIDE DEF g, row
    <3>2. CASE g = 0
      BY <1>2, <3>1, <3>2
    <3>3. CASE g # 0
      <4>1. g \in 1..Len(groups) /\ row = groups[g] /\ row \in Groups
        BY <1>2, <3>1, <3>3, OpenGroupIs
      <4>2. row.ticket \in 0..Len(tickets)
        BY <1>2, <4>1 DEF IInv, TypeOK
      <4> QED BY <3>3, <4>1, <4>2, NoneAssumption
    <3> QED BY <3>2, <3>3
  <2> QED BY <2>1, <2>2
<1>5. Kind[k.event].firing =>
        IF g = 0 THEN \A h \in DOMAIN groups : groups[h].status # "OPEN"
        ELSE row = groups[g] /\ row.status = "OPEN" /\ (round # None => round.group # g)
  <2> SUFFICES ASSUME Kind[k.event].firing
               PROVE  IF g = 0 THEN \A h \in DOMAIN groups : groups[h].status # "OPEN"
                      ELSE row = groups[g] /\ row.status = "OPEN" /\ (round # None => round.group # g)
    OBVIOUS
  <2>1. k.group = 0
    BY <1>1, <1>3 DEF CopyLocked
  <2>2. g = OpenGroup /\ row = IF g = 0 THEN None ELSE groups[g]
    BY <2>1
  <2>3. g # 0 => (round # None => round.group # g)
    BY <1>1, <2>1 DEF RowFree
  <2> HIDE DEF g, row
  <2> QED BY <2>2, <2>3, OpenGroupIs
<1> HIDE DEF g, row
<1>6. seen \in Statuses \cup {None} /\ (row # None => (row.ticket # 0 => seen \in Statuses))
  BY <1>2, <1>4 DEF StatusOf, Tickets
<1> HIDE DEF seen
<1>7. new \in Tasks /\ new.pc = "TICKET" /\ new.group = g /\ new.copy = row /\ new.seen = seen /\ new.event = k.event
  <2>1. k \in Tasks /\ g \in Nat /\ row \in Groups \cup {None} /\ seen \in Statuses \cup {None}
    BY <1>1, <1>2, <1>4, <1>6
  <2> HIDE DEF k
  <2>2. new.pc = "TICKET" /\ new.group = g /\ new.copy = row /\ new.seen = seen /\ new.event = k.event
    BY <2>1 DEF Tasks
  <2>3. new \in Tasks
    BY <2>1 DEF Tasks
  <2> QED BY <2>2, <2>3
<1> HIDE DEF new
<1>8. \A v \in Workers : task'[v] = IF v = w THEN new ELSE task[v]
  BY <1>1 DEF IInv, TypeOK
<1>9. TicketsMove
  BY <1>1, NoneMoves DEF IInv
<1>10. Typed
  <2>1. task' \in [Workers -> Tasks \cup {None}]
    BY <1>1, <1>7 DEF IInv, TypeOK
  <2> QED BY <1>1, <2>1 DEF IInv, TypeOK, Typed
<1>11. TypeOK' /\ Levels' /\ OneOpen'
  BY <1>1, <1>9, <1>10, SameGroups
<1>12. RoundHolds' /\ QuietOnceAnswered'
  BY <1>1, SameRound
<1>13. OneKeyHolder'
  BY <1>1, <1>7, <1>8 DEF OneKeyHolder, KeyFree
<1>14. OneBySource'
  BY <1>1, <1>7, <1>8 DEF IInv, OneBySource
<1>15. Unstored'
  BY <1>1, <1>7, <1>8 DEF IInv, Unstored, Stored
<1>16. Copies'
  <2> SUFFICES ASSUME NEW v \in Workers, task'[v] # None
               PROVE  CopyRead(task[v])' /\ (Kind[task[v].event].firing => CopyLocked(task[v]))'
    BY DEF Copies
  <2>1. CASE v = w
    <3>1. PICK x \in Tasks : x = new /\ x = task'[v]
      BY <1>7, <1>8, <2>1
    <3>2. CopyRead(x)'
      BY <1>1, <1>4, <1>6, <1>7, <3>1 DEF CopyRead
    <3>3. Kind[x.event].firing => CopyLocked(x)'
      BY <1>1, <1>5, <1>7, <3>1 DEF CopyLocked
    <3>4. CopyRead(task[v])'
      BY <3>1, <3>2 DEF CopyRead
    <3>5. (Kind[task[v].event].firing => CopyLocked(task[v]))'
      BY <3>1, <3>3 DEF CopyLocked
    <3> QED BY <3>4, <3>5
  <2>2. CASE v # w
    <3>1. task'[v] = task[v] /\ task[v] # None
      BY <1>8, <2>2
    <3>2. Firing(v) /\ round' # None => round'.group # task[v].group
      BY <1>1, FiringAlone
    <3> QED BY <1>1, <1>9, <3>1, <3>2, CopyKept
  <2> QED BY <2>1, <2>2
<1> QED  BY <1>9, <1>11, <1>12, <1>13, <1>14, <1>15, <1>16 DEF IInv

LEMMA SelectKeeps ==
  ASSUME IInv, SelectOverdue
  PROVE  IInv' /\ TicketsMove
<1>1. PICK g \in DOMAIN groups :
        /\ Overdue(g) /\ RowFree(g, Workers)
        /\ round' = [group |-> g, seen |-> StatusOf(groups[g].ticket)]
  BY DEF SelectOverdue
<1>2. UNCHANGED <<policy, event, groups, tickets, task, desk, repeats, moves>>
  BY DEF SelectOverdue
<1>3. /\ DOMAIN groups = 1..Len(groups) /\ DOMAIN tickets = 1..Len(tickets) /\ Len(tickets) \in Nat
      /\ \A t \in DOMAIN tickets : tickets[t] \in Tickets
      /\ groups[g].ticket \in 0..Len(tickets)
  BY GroupsAre DEF IInv, TypeOK
<1>4. StatusOf(groups[g].ticket) \in Statuses \cup {None}
  BY <1>3 DEF StatusOf, Tickets
<1>5. Typed
  <2>1. round' \in [group : 1..Len(groups), seen : Statuses \cup {None}]
    BY <1>1, <1>3, <1>4
  <2> QED BY <1>2, <2>1 DEF IInv, TypeOK, Typed
<1>6. TicketsMove
  BY <1>2, NoneMoves DEF IInv
<1>7. TypeOK' /\ Levels' /\ OneOpen'
  BY <1>2, <1>5, <1>6, SameGroups
<1>8. OneKeyHolder' /\ OneBySource' /\ Unstored'
  BY <1>2 DEF IInv, OneKeyHolder, OneBySource, Unstored, Stored
<1>9. round'.group = g /\ groups[g].status = "OPEN" /\ ~groups[g].acked /\ groups[g].due
  BY <1>1 DEF Overdue
<1>10. RoundHolds'
  BY <1>2, <1>9 DEF RoundHolds
<1>11. QuietOnceAnswered'
  BY <1>2, <1>9 DEF IInv, QuietOnceAnswered
<1>12. Copies'
  <2> SUFFICES ASSUME NEW w \in Workers, task'[w] # None
               PROVE  CopyRead(task[w])' /\ (Kind[task[w].event].firing => CopyLocked(task[w]))'
    BY DEF Copies
  <2>1. Firing(w) => g # task[w].group
    BY <1>1 DEF RowFree, Firing
  <2> QED BY <1>2, <1>6, <1>9, <2>1, CopyKept
<1> QED  BY <1>6, <1>7, <1>8, <1>10, <1>11, <1>12 DEF IInv

-----------------------------------------------------------------------------
(* What every step is.                                                     *)

\* Events that are stored stay as they are, and none is counted that was not.
NoneCounted ==
  \A e \in Events : event'[e] = event[e] \/ (~Stored(e) /\ event'[e].disposition \notin Counted)

Joins == \E w \in Workers : \E at : Firing(w) /\ Joined(w, at) /\ Filed(at) /\ policy' = policy

Adjusts ==
  /\ NoneCounted /\ Len(tickets') = Len(tickets)
  /\ \E g \in DOMAIN groups, new \in Groups : Changes(g, new) /\ new.count = groups[g].count

Leaves == NoneCounted /\ groups' = groups /\ Len(tickets') = Len(tickets) /\ policy' = policy

Kept == IInv' /\ TicketsMove /\ (Joins \/ Adjusts \/ Leaves)

LEMMA JoinsKept ==
  ASSUME IInv, NEW w \in Workers, JoinGroup(w) \/ CreateIncident(w) \/ UpdateIncident(w)
  PROVE  Kept
<1>1. PICK at : Joined(w, at) /\ Filed(at) /\ TicketsMove
  BY JoinIs, CreateIs, UpdateIs
<1>2. Firing(w)
  BY DEF JoinGroup, CreateIncident, UpdateIncident
<1>3. IInv'
  BY <1>1, <1>2, FiringKeeps
<1>4. Joins
  BY <1>1, <1>2 DEF Joins, Joined
<1> QED  BY <1>1, <1>3, <1>4 DEF Kept

LEMMA AdjustsKept ==
  ASSUME IInv,
         \/ \E w \in Workers : Recover(w)
         \/ Acknowledge
         \/ Escalate /\ ~UNCHANGED <<groups, tickets>>
  PROVE  Kept
<1>1. ASSUME NEW w \in Workers, Recover(w) PROVE Kept
  <2>1. PICK g \in DOMAIN groups : \E new \in Groups :
           /\ Changes(g, new) /\ new.count = groups[g].count /\ Len(tickets') = Len(tickets)
           /\ event' = [event EXCEPT ![task[w].event] = [disposition |-> "RESOLVED", group |-> g]]
    BY <1>1, RecoverKeeps
  <2>2. ~Stored(task[w].event) /\ task[w].event \in Events
    BY <1>1 DEF Recover, Recovering, IInv, Unstored, TypeOK, Tasks
  <2>3. \A e \in Events : event'[e] = IF e = task[w].event THEN [disposition |-> "RESOLVED", group |-> g]
                                      ELSE event[e]
    BY <2>1 DEF IInv, TypeOK
  <2>4. NoneCounted
    BY <2>2, <2>3 DEF NoneCounted, Counted
  <2> QED BY <1>1, <2>1, <2>4, RecoverKeeps DEF Kept, Adjusts
<1>2. CASE Acknowledge
  BY <1>2, AcknowledgeKeeps DEF Kept, Adjusts, NoneCounted
<1>3. ASSUME Escalate, ~UNCHANGED <<groups, tickets>> PROVE Kept
  BY <1>3, EscalateKeeps DEF Kept, Adjusts, NoneCounted
<1> QED  BY <1>1, <1>2, <1>3

\* The steps that leave the groups: those of an ingestion ...
LEMMA ReadsKept ==
  ASSUME IInv,
         \/ \E w \in Workers : Correlate(w) \/ \E e \in Events : Ingest(w, e)
         \/ SelectOverdue
  PROVE  Kept
<1>1. ASSUME NEW w \in Workers, Correlate(w) PROVE Kept
  BY <1>1, CorrelateKeeps DEF Kept, Leaves, NoneCounted, Correlate
<1>2. ASSUME NEW w \in Workers, NEW e \in Events, Ingest(w, e) PROVE Kept
  BY <1>2, IngestKeeps DEF Kept, Leaves, NoneCounted, Ingest
<1>3. CASE SelectOverdue
  BY <1>3, SelectKeeps DEF Kept, Leaves, NoneCounted, SelectOverdue
<1> QED  BY <1>1, <1>2, <1>3

\* ... those that end one, or none ...
LEMMA EndsKept ==
  ASSUME IInv, NEW w \in Workers,
         ConflictingIncident(w) \/ IgnoreRecovery(w) \/ Fail(w) \/ \E e \in Events : Duplicate(w, e) \/ SetAside(w, e)
  PROVE  Kept
<1>1. UNCHANGED <<policy, groups, tickets, round, desk, moves>> /\ repeats' \in 0..MaxRepeats
  BY CorrelationAssumption
     DEF ConflictingIncident, IgnoreRecovery, Commit, Fail, Duplicate, SetAside, IInv, TypeOK
<1>2. TicketsMove
  BY <1>1, NoneMoves DEF IInv
<1>3. ASSUME event' \in [Events -> [disposition : Dispositions, group : 0..Len(groups)]],
             task' = task \/ task' = [task EXCEPT ![w] = None], NoneCounted,
             \A v \in Workers : task'[v] # None => event'[task[v].event] = event[task[v].event]
      PROVE  Kept
  <2>1. task' \in [Workers -> Tasks \cup {None}] /\ \A v \in Workers : task'[v] # None => task'[v] = task[v]
    BY <1>3 DEF IInv, TypeOK
  <2>2. Typed
    BY <1>1, <1>3, <2>1 DEF IInv, TypeOK, Typed
  <2>3. IInv'
    BY <1>1, <1>2, <1>3, <2>1, <2>2, QuietKeeps
  <2> QED BY <1>1, <1>2, <1>3, <2>3 DEF Kept, Leaves
<1>4. CASE event' = event
  <2>1. task' = task \/ task' = [task EXCEPT ![w] = None]
    BY <1>4 DEF ConflictingIncident, IgnoreRecovery, Commit, Fail, Duplicate, SetAside
  <2> QED BY <1>3, <1>4, <2>1 DEF IInv, TypeOK, NoneCounted
<1>5. CASE IgnoreRecovery(w)
  <2> DEFINE f == task[w].event
             r == [disposition |-> "IGNORED", group |-> 0]
  <2>1. /\ task[w] # None /\ f \in Events /\ ~Stored(f)
        /\ event' = [event EXCEPT ![f] = r] /\ task' = [task EXCEPT ![w] = None]
    BY <1>5 DEF IgnoreRecovery, Recovering, Commit, IInv, TypeOK, Tasks, Unstored
  <2>2. \A e \in Events : event'[e] = IF e = f THEN r ELSE event[e]
    BY <2>1 DEF IInv, TypeOK
  <2>3. event' \in [Events -> [disposition : Dispositions, group : 0..Len(groups)]]
    <3>1. r \in [disposition : Dispositions, group : 0..Len(groups)]
      BY GroupsAre DEF Dispositions, IInv
    <3> HIDE DEF r
    <3> QED BY <2>1, <3>1 DEF IInv, TypeOK
  <2>4. NoneCounted
    BY <2>1, <2>2 DEF NoneCounted, Counted
  <2>5. \A v \in Workers : task'[v] # None => event'[task[v].event] = event[task[v].event]
    <3> SUFFICES ASSUME NEW v \in Workers, task'[v] # None
                 PROVE  event'[task[v].event] = event[task[v].event]
      OBVIOUS
    <3>1. v # w /\ task[v] # None /\ task[v].event \in Events
      BY <2>1, Released DEF IInv, TypeOK, Tasks
    <3>2. task[v].event # f
      BY <2>1, <3>1 DEF IInv, OneBySource
    <3> QED BY <2>2, <3>1, <3>2
  <2> QED BY <1>3, <2>1, <2>3, <2>4, <2>5
<1>6. ASSUME NEW e \in Events, SetAside(w, e) PROVE Kept
  <2>1. PICK verdict \in {"SUPPRESSED", "IGNORED"} : event' = [event EXCEPT ![e].disposition = verdict]
    BY <1>6 DEF SetAside
  <2>2. ~Stored(e) /\ SourceFree(e) /\ task' = task
    BY <1>6 DEF SetAside
  <2>3. \A f \in Events : event'[f] = IF f = e THEN [event[e] EXCEPT !.disposition = verdict] ELSE event[f]
    BY <2>1 DEF IInv, TypeOK
  <2>4. event' \in [Events -> [disposition : Dispositions, group : 0..Len(groups)]]
    BY <2>1 DEF IInv, TypeOK, Dispositions
  <2>5. NoneCounted
    BY <2>2, <2>3 DEF NoneCounted, Counted, IInv, TypeOK
  <2>6. \A v \in Workers : task'[v] # None => event'[task[v].event] = event[task[v].event]
    BY <2>2, <2>3 DEF SourceFree, IInv, TypeOK, Tasks
  <2> QED BY <1>3, <2>2, <2>4, <2>5, <2>6
<1> QED
  <2>1. event' = event \/ IgnoreRecovery(w) \/ \E e \in Events : SetAside(w, e)
    BY DEF ConflictingIncident, Fail, Duplicate
  <2> QED BY <1>4, <1>5, <1>6, <2>1

\* ... and those of the people, and a cycle that is rolled back.
LEMMA OthersKept ==
  ASSUME IInv, Look \/ WorkOnTicket \/ MergeTicket \/ (Escalate /\ UNCHANGED <<groups, tickets>>)
  PROVE  Kept
<1>1. /\ UNCHANGED <<policy, event, groups, task, repeats>> /\ round' \in {None, round}
      /\ moves' \in 0..MaxMoves
  BY CorrelationAssumption DEF Look, WorkOnTicket, MergeTicket, Escalate, IInv, TypeOK
<1>2. TicketsMove /\ Len(tickets') = Len(tickets)
  <2>1. CASE Look \/ (Escalate /\ UNCHANGED <<groups, tickets>>)
    BY <2>1, NoneMoves DEF Look, IInv
  <2> QED BY <2>1, WorkMoves, MergeMoves
<1>3. desk' \in [group : 1..Len(groups), row : Groups] \cup {None}
  <2>1. CASE Look
    <3>1. PICK g \in DOMAIN groups : desk' = [group |-> g, row |-> groups[g]]
      BY <2>1 DEF Look
    <3>2. g \in 1..Len(groups) /\ groups[g] \in Groups
      BY <3>1, GroupsAre DEF IInv
    <3> QED BY <3>1, <3>2
  <2>2. CASE desk' = desk
    BY <2>2 DEF IInv, TypeOK
  <2> QED BY <2>1, <2>2 DEF WorkOnTicket, MergeTicket, Escalate
<1>4. Typed
  BY <1>1, <1>3 DEF IInv, TypeOK, Typed
<1>5. IInv'
  BY <1>1, <1>2, <1>4, QuietKeeps
<1> QED  BY <1>1, <1>2, <1>5 DEF Kept, Leaves, NoneCounted

LEMMA NextKept ==
  ASSUME IInv, Next
  PROVE  Kept
<1>1. CASE \E w \in Workers : JoinGroup(w) \/ CreateIncident(w) \/ UpdateIncident(w)
  BY <1>1, JoinsKept
<1>2. CASE (\E w \in Workers : Recover(w)) \/ Acknowledge \/ (Escalate /\ ~UNCHANGED <<groups, tickets>>)
  BY <1>2, AdjustsKept
<1>3. CASE (\E w \in Workers : Correlate(w) \/ \E e \in Events : Ingest(w, e)) \/ SelectOverdue
  BY <1>3, ReadsKept
<1>4. CASE \E w \in Workers : \/ ConflictingIncident(w) \/ IgnoreRecovery(w) \/ Fail(w)
                              \/ \E e \in Events : Duplicate(w, e) \/ SetAside(w, e)
  BY <1>4, EndsKept
<1>5. CASE Look \/ WorkOnTicket \/ MergeTicket \/ (Escalate /\ UNCHANGED <<groups, tickets>>)
  BY <1>5, OthersKept
<1> QED  BY <1>1, <1>2, <1>3, <1>4, <1>5 DEF Next

LEMMA StepKept ==
  ASSUME IInv, [Next]_vars
  PROVE  Kept
<1>1. ASSUME UNCHANGED vars PROVE Kept
  <2>1. UNCHANGED <<policy, event, groups, tickets, task, round, desk, repeats, moves>>
    BY <1>1 DEF vars
  <2>2. TicketsMove
    BY <2>1, NoneMoves DEF IInv
  <2>3. Typed
    BY <2>1 DEF IInv, TypeOK, Typed
  <2>4. IInv'
    BY <2>1, <2>2, <2>3, QuietKeeps
  <2> QED BY <2>1, <2>2, <2>4 DEF Kept, Leaves, NoneCounted
<1> QED  BY <1>1, NextKept

LEMMA Beginning ==
  ASSUME Init
  PROVE  IInv
<1>1. /\ policy \in Policies /\ event = [e \in Events |-> [disposition |-> "NEW", group |-> 0]]
      /\ groups = <<>> /\ tickets = <<>> /\ task = [w \in Workers |-> None]
      /\ round = None /\ desk = None /\ repeats = 0 /\ moves = 0
  BY DEF Init
<1>2. /\ groups \in Seq(Groups) /\ Len(groups) = 0 /\ tickets \in Seq(Tickets) /\ Len(tickets) = 0
      /\ DOMAIN groups = {}
  BY <1>1, EmptySeq
<1>3. TypeOK
  <2>1. event \in [Events -> [disposition : Dispositions, group : 0..Len(groups)]]
    BY <1>1, <1>2 DEF Dispositions
  <2> QED BY <1>1, <1>2, <2>1, CorrelationAssumption DEF TypeOK
<1>4. \A w \in Workers : task[w] = None
  BY <1>1
<1>5. OneKeyHolder /\ OneBySource /\ Unstored /\ Copies
  BY <1>4 DEF OneKeyHolder, OneBySource, Unstored, Copies
<1>6. RoundHolds /\ Levels /\ OneOpen /\ QuietOnceAnswered
  BY <1>1, <1>2 DEF RoundHolds, Levels, OneOpen, QuietOnceAnswered
<1> QED  BY <1>3, <1>5, <1>6 DEF IInv

LEMMA Always == Spec => []IInv
<1>1. Init => IInv
  BY Beginning
<1>2. IInv /\ [Next]_vars => IInv'
  BY StepKept DEF Kept
<1> QED  BY <1>1, <1>2, PTL DEF Spec

(***************************************************************************)
(* TYPE CORRECTNESS.  Dispositions, groups and tickets keep to the check   *)
(* constraints, groups name groups and tickets that exist, and no group is *)
(* escalated more than twice.                                              *)
(***************************************************************************)
THEOREM TypeCorrect == Spec => []TypeOK
<1>1. IInv => TypeOK
  BY DEF IInv
<1> QED  BY <1>1, Always, PTL

(***************************************************************************)
(* QUIET AFTER THE ANSWER.  No deadline is left, and no cycle holds, a     *)
(* group that was acknowledged or is over, whatever the recovery had read. *)
(***************************************************************************)
THEOREM QuietAfterAnswer == Spec => []QuietOnceAnswered
<1>1. IInv => QuietOnceAnswered
  BY DEF IInv
<1> QED  BY <1>1, Always, PTL

(***************************************************************************)
(* TICKETS MOVE LAWFULLY.  Ingestions, escalations, recoveries, routes and *)
(* merges all move tickets along the table, and count their steps.         *)
(***************************************************************************)
THEOREM TicketsMoveLawfully == Spec => LawfulTickets
<1>1. IInv /\ [Next]_vars =>
        [\A t \in DOMAIN tickets :
           LET steps == tickets'[t].version - tickets[t].version
           IN  tickets'[t] # tickets[t] =>
                 /\ steps > 0
                 /\ tickets'[t].status \in Within[steps][tickets[t].status]]_vars
  <2> SUFFICES ASSUME IInv, [Next]_vars, NEW t \in DOMAIN tickets, tickets'[t] # tickets[t]
               PROVE  /\ tickets'[t].version - tickets[t].version > 0
                      /\ tickets'[t].status \in Within[tickets'[t].version - tickets[t].version][tickets[t].status]
    OBVIOUS
  <2>1. TicketsMove
    BY StepKept DEF Kept
  <2>2. /\ tickets'[t].version > tickets[t].version
        /\ tickets'[t].status \in Within[tickets'[t].version - tickets[t].version][tickets[t].status]
    BY <2>1 DEF TicketsMove, Lawful
  <2>3. tickets[t].version \in Nat /\ tickets'[t].version \in Nat
    <3>1. tickets[t] \in Tickets
      BY GroupsAre DEF IInv
    <3>2. /\ tickets' \in Seq(Tickets) /\ Len(tickets) \in Nat /\ Len(tickets') \in Nat /\ t \in 1..Len(tickets)
          /\ Len(tickets) <= Len(tickets')
      BY <2>1, GroupsAre, LenProperties DEF TicketsMove, IInv
    <3>3. tickets'[t] \in Tickets
      <4>1. t \in 1..Len(tickets')
        BY <3>2
      <4> QED BY <3>2, <4>1, ElementOfSeq
    <3> QED BY <3>1, <3>3 DEF Tickets
  <2> QED BY <2>2, <2>3
<1> QED  BY <1>1, Always, PTL DEF Spec, LawfulTickets

-----------------------------------------------------------------------------
(* Events are counted once.                                                *)

CountedIn(g) == {e \in Events : event[e].group = g /\ event[e].disposition \in Counted}

Counts ==
  \A g \in DOMAIN groups : IsFiniteSet(CountedIn(g)) /\ groups[g].count = Cardinality(CountedIn(g))

LEMMA CountsStay ==
  ASSUME IInv, Counts, NoneCounted, Len(groups') = Len(groups), DOMAIN groups' = DOMAIN groups,
         \A g \in DOMAIN groups : groups'[g].count = groups[g].count
  PROVE  Counts'
<1> SUFFICES ASSUME NEW g \in DOMAIN groups
             PROVE  IsFiniteSet(CountedIn(g)') /\ groups'[g].count = Cardinality(CountedIn(g)')
  BY DEF Counts
<1>1. CountedIn(g)' = CountedIn(g)
  <2> SUFFICES ASSUME NEW e \in Events
               PROVE  event'[e].group = g /\ event'[e].disposition \in Counted
                        <=> event[e].group = g /\ event[e].disposition \in Counted
    BY DEF CountedIn
  <2>1. CASE event'[e] = event[e]
    BY <2>1
  <2>2. CASE ~Stored(e) /\ event'[e].disposition \notin Counted
    BY <2>2 DEF Stored, Counted
  <2> QED BY <2>1, <2>2 DEF NoneCounted
<1> QED  BY <1>1 DEF Counts

\* The event was not stored, so it is one more of its group, and of no other.
LEMMA CountsGrow ==
  ASSUME IInv, Counts, Joins
  PROVE  Counts'
<1>1. PICK w \in Workers : \E at : Firing(w) /\ Joined(w, at)
  BY DEF Joins
<1>2. PICK at : Firing(w) /\ Joined(w, at)
  BY <1>1
<1> DEFINE e == task[w].event
           n == Len(groups)
           big == Len(groups')
<1>3. PICK verdict \in Counted : event' = [event EXCEPT ![e] = [disposition |-> verdict, group |-> at]]
  BY <1>2 DEF Joined
<1>4. e \in Events /\ event[e].disposition = "NEW"
  BY <1>2 DEF Firing, IInv, TypeOK, Tasks, Unstored, Stored
<1>5. \A f \in Events : event'[f] = IF f = e THEN [disposition |-> verdict, group |-> at] ELSE event[f]
  BY <1>3 DEF IInv, TypeOK
<1>6. /\ n \in Nat /\ DOMAIN groups = 1..n /\ DOMAIN groups' = 1..Len(groups') /\ at \in 1..Len(groups')
      /\ \A g \in 1..n : g # at => groups'[g].count = groups[g].count
      /\ \/ Len(groups') = n /\ groups'[at].count = groups[at].count + 1
         \/ Len(groups') = n + 1 /\ at = Len(groups') /\ groups'[at].count = 1
  BY <1>2, GroupsAre, LenProperties DEF Joined, Grown, GrownAt, IInv
<1>7. e \notin CountedIn(at)
  BY <1>4 DEF CountedIn, Counted
<1>8. CountedIn(at)' = CountedIn(at) \cup {e}
  BY <1>4, <1>5 DEF CountedIn
<1>9. \A g : g # at => CountedIn(g)' = CountedIn(g)
  <2> SUFFICES ASSUME NEW g, g # at, NEW f \in Events
               PROVE  event'[f].group = g /\ event'[f].disposition \in Counted
                        <=> event[f].group = g /\ event[f].disposition \in Counted
    BY DEF CountedIn
  <2>1. CASE f = e
    BY <1>4, <1>5, <2>1 DEF Counted
  <2>2. CASE f # e
    BY <1>5, <2>2
  <2> QED BY <2>1, <2>2
<1> HIDE DEF big
<1>14. /\ n \in Nat /\ big \in Nat /\ at \in 1..big /\ DOMAIN groups' = 1..big
       /\ big = n \/ (big = n + 1 /\ at = big)
       /\ big = n => groups'[at].count = groups[at].count + 1
       /\ big = n + 1 => groups'[at].count = 1
  <2>1. groups' \in Seq(Groups)
    BY <1>2 DEF Joined, Grown
  <2>2. big \in Nat /\ n \in Nat /\ at \in 1..big /\ DOMAIN groups' = 1..big
    BY <1>6, <2>1, LenProperties DEF big
  <2>3. \/ big = n /\ groups'[at].count = groups[at].count + 1
        \/ big = n + 1 /\ at = big /\ groups'[at].count = 1
    BY <1>6 DEF big
  <2> HIDE DEF n
  <2>4. n # n + 1
    BY <2>2
  <2> QED BY <2>2, <2>3, <2>4
<1>10. at \notin 1..n => CountedIn(at) = {}
  <2> SUFFICES ASSUME at \notin 1..n, NEW f \in Events, event[f].group = at PROVE FALSE
    BY DEF CountedIn
  <2>1. event[f].group \in 0..n
    BY DEF IInv, TypeOK
  <2> HIDE DEF n
  <2> QED BY <1>14, <2>1
<1> HIDE DEF e, n
<1>15. at \in 1..n => big = n
  BY <1>14
<1>16. at \notin 1..n => big = n + 1
  BY <1>14
<1>17. ASSUME NEW g \in 1..big, g # at PROVE g \in 1..n
  BY <1>14, <1>17
<1> SUFFICES ASSUME NEW g \in DOMAIN groups'
             PROVE  IsFiniteSet(CountedIn(g)') /\ groups'[g].count = Cardinality(CountedIn(g)')
  BY DEF Counts
<1>11. CASE g = at /\ at \in 1..n
  <2>1. IsFiniteSet(CountedIn(at)) /\ groups[at].count = Cardinality(CountedIn(at))
    BY <1>6, <1>11 DEF Counts
  <2>2. IsFiniteSet(CountedIn(at)') /\ Cardinality(CountedIn(at)') = Cardinality(CountedIn(at)) + 1
    BY <1>7, <1>8, <2>1, FS_AddElement
  <2>3. groups'[at].count = groups[at].count + 1
    BY <1>11, <1>14, <1>15
  <2> QED BY <1>11, <2>1, <2>2, <2>3
<1>12. CASE g = at /\ at \notin 1..n
  <2>1. CountedIn(at)' = {e}
    BY <1>8, <1>10, <1>12
  <2>2. groups'[at].count = 1
    BY <1>12, <1>14, <1>16
  <2> QED BY <1>12, <2>1, <2>2, FS_Singleton
<1>13. CASE g # at
  <2>1. g \in 1..n
    BY <1>13, <1>14, <1>17
  <2>2. IsFiniteSet(CountedIn(g)) /\ groups[g].count = Cardinality(CountedIn(g))
    BY <1>6, <2>1 DEF Counts
  <2>3. groups'[g].count = groups[g].count
    BY <1>6, <1>13, <2>1
  <2> QED BY <1>9, <1>13, <2>2, <2>3
<1> QED  BY <1>11, <1>12, <1>13

LEMMA CountsKept ==
  ASSUME IInv, Counts, [Next]_vars
  PROVE  Counts'
<1>1. DOMAIN groups = 1..Len(groups)
  BY GroupsAre DEF IInv
<1>2. CASE Adjusts
  <2>1. PICK g \in DOMAIN groups : \E new \in Groups : Changes(g, new) /\ new.count = groups[g].count
    BY <1>2 DEF Adjusts
  <2>2. PICK new \in Groups : Changes(g, new) /\ new.count = groups[g].count
    BY <2>1
  <2>3. /\ groups' \in Seq(Groups) /\ Len(groups') = Len(groups)
        /\ groups'[g] = new /\ \A h \in DOMAIN groups : h # g => groups'[h] = groups[h]
    BY <2>2, StepKept, ChangesKeeps DEF Kept
  <2>4. DOMAIN groups' = DOMAIN groups
    BY <1>1, <2>3, LenProperties
  <2> QED BY <1>2, <2>2, <2>3, <2>4, CountsStay DEF Adjusts
<1>3. CASE Leaves
  BY <1>3, CountsStay DEF Leaves
<1> QED  BY <1>2, <1>3, CountsGrow, StepKept DEF Kept

(***************************************************************************)
(* EVENTS COUNTED ONCE.  The number that a group shows is the number of    *)
(* stored events counted into it: an ingestion's event is in no group      *)
(* until it commits, and it commits once.                                  *)
(***************************************************************************)
THEOREM EventsCountedOnce == Spec => []CountedOnce
<1>1. Init => Counts
  <2> SUFFICES ASSUME Init PROVE DOMAIN groups = {}
    BY DEF Counts
  <2> QED BY EmptySeq DEF Init
<1>2. IInv /\ Counts /\ [Next]_vars => Counts'
  BY CountsKept
<1>3. Counts => CountedOnce
  BY DEF Counts, CountedOnce, CountedIn
<1> QED  BY <1>1, <1>2, <1>3, Always, PTL DEF Spec

-----------------------------------------------------------------------------
(* A group has one incident.                                               *)

Having(t) == {g \in DOMAIN groups : groups[g].ticket = t}

Owned == \A t \in DOMAIN tickets : \E g : Having(t) = {g}

Reported == \A g \in DOMAIN groups : Incident(groups[g]) => groups[g].ticket # 0

LEMMA IncidentsStay ==
  ASSUME IInv, Owned, Reported, Len(tickets') = Len(tickets), tickets' \in Seq(Tickets),
         DOMAIN groups' = DOMAIN groups, policy' = policy,
         \A g \in DOMAIN groups : groups'[g].count = groups[g].count /\ groups'[g].ticket = groups[g].ticket
  PROVE  Owned' /\ Reported'
<1>1. DOMAIN tickets' = DOMAIN tickets
  BY GroupsAre, LenProperties DEF IInv
<1>2. \A t : Having(t)' = Having(t)
  BY DEF Having
<1>3. Owned'
  BY <1>1, <1>2 DEF Owned
<1>4. Reported'
  BY DEF Reported, Incident
<1> QED  BY <1>3, <1>4

LEMMA IncidentsGrow ==
  ASSUME IInv, Owned, Reported, Joins, TicketsMove
  PROVE  Owned' /\ Reported'
<1>1. PICK w \in Workers : \E at : Joined(w, at) /\ Filed(at)
  BY DEF Joins
<1>2. PICK at : Joined(w, at) /\ Filed(at)
  BY <1>1
<1>11. PICK m \in Nat : m = Len(tickets)
  BY GroupsAre DEF IInv
<1> DEFINE n == Len(groups)
           big == Len(groups')
           all == Len(tickets')
<1>3. /\ n \in Nat /\ DOMAIN groups = 1..n /\ DOMAIN groups' = 1..Len(groups') /\ at \in 1..Len(groups')
      /\ \A g \in 1..n : g # at => groups'[g].count = groups[g].count
      /\ Len(groups') = n \/ (Len(groups') = n + 1 /\ at = Len(groups'))
      /\ policy' = policy
  BY <1>2, GroupsAre, LenProperties DEF Joined, Grown, GrownAt, IInv
<1> HIDE DEF big, all
<1>9. /\ n \in Nat /\ big \in Nat /\ at \in 1..big /\ DOMAIN groups' = 1..big
      /\ big = n \/ (big = n + 1 /\ at = big)
  <2>1. groups' \in Seq(Groups)
    BY <1>2 DEF Joined, Grown
  <2> QED BY <1>3, <2>1, LenProperties DEF big
<1>4. /\ m \in Nat /\ DOMAIN tickets = 1..m /\ DOMAIN tickets' = 1..Len(tickets')
      /\ \A g \in 1..n : groups[g].ticket \in 0..m
  BY <1>3, <1>11, GroupsAre, LenProperties DEF TicketsMove, IInv, TypeOK
<1>5. \A g \in DOMAIN groups' : g # at => g \in 1..n /\ groups'[g].ticket = groups[g].ticket
  <2> SUFFICES ASSUME NEW g \in DOMAIN groups', g # at
               PROVE  g \in 1..n /\ groups'[g].ticket = groups[g].ticket
    OBVIOUS
  <2>1. g \in 1..n
    <3> HIDE DEF n
    <3> QED BY <1>9
  <2> QED BY <1>2, <1>3, <2>1 DEF Filed, SameTickets
<1> HIDE DEF n
<1>6. 1..n \subseteq DOMAIN groups'
  BY <1>9
<1>10. DOMAIN tickets' = 1..all /\ m \in Nat
  BY <1>4 DEF all
<1>7. CASE Len(tickets') = m /\ SameTickets(groups', at) /\ (Incident(groups'[at]) => groups'[at].ticket # 0)
  <2>1. ASSUME NEW t \in 1..m PROVE Having(t)' = Having(t)
    <3>1. ASSUME NEW g PROVE g \in DOMAIN groups' /\ groups'[g].ticket = t
                               <=> g \in DOMAIN groups /\ groups[g].ticket = t
      <4>1. t # 0
        BY <1>4, <2>1
      <4>2. CASE g = at
        BY <1>3, <1>7, <4>1, <4>2 DEF SameTickets
      <4>3. CASE g # at
        BY <1>3, <1>5, <1>6, <4>3
      <4> QED BY <4>2, <4>3
    <3> QED BY <3>1 DEF Having
  <2>2. Owned'
    BY <1>4, <1>7, <2>1 DEF Owned
  <2>3. Reported'
    BY <1>3, <1>5, <1>7 DEF Reported, Incident
  <2> QED BY <2>2, <2>3
<1>8. CASE /\ Len(tickets') = m + 1 /\ groups'[at].ticket = m + 1
           /\ \A g \in DOMAIN groups : IF g = at THEN groups[g].ticket = 0
                                       ELSE groups'[g].ticket = groups[g].ticket
  <2>1. ASSUME NEW t \in 1..m PROVE Having(t)' = Having(t)
    <3>1. ASSUME NEW g PROVE g \in DOMAIN groups' /\ groups'[g].ticket = t
                               <=> g \in DOMAIN groups /\ groups[g].ticket = t
      <4>1. t # 0 /\ t # m + 1
        BY <1>4, <2>1
      <4>2. CASE g = at
        BY <1>8, <4>1, <4>2
      <4>3. CASE g # at
        BY <1>3, <1>5, <1>6, <4>3
      <4> QED BY <4>2, <4>3
    <3> QED BY <3>1 DEF Having
  <2>2. Having(m + 1)' = {at}
    <3>1. ASSUME NEW g \in DOMAIN groups', g # at PROVE groups'[g].ticket # m + 1
      <4>1. g \in 1..n /\ groups'[g].ticket = groups[g].ticket
        BY <1>5, <3>1
      <4>2. groups[g].ticket \in 0..m
        BY <1>4, <4>1
      <4> QED BY <1>4, <4>1, <4>2
    <3>2. at \in DOMAIN groups'
      BY <1>9
    <3>3. \A g : g \in DOMAIN groups' /\ groups'[g].ticket = m + 1 <=> g = at
      <4>1. groups'[at].ticket = m + 1
        BY <1>8
      <4> QED BY <1>10, <3>1, <3>2, <4>1
    <3> QED BY <3>3 DEF Having
  <2>3. Owned'
    <3> SUFFICES ASSUME NEW t \in DOMAIN tickets' PROVE \E g : Having(t)' = {g}
      BY DEF Owned
    <3>1. t \in 1..m \/ t = m + 1
      <4>1. all = m + 1
        BY <1>8 DEF all
      <4>2. t \in 1..(m + 1)
        BY <1>10, <4>1
      <4> QED BY <1>10, <4>2
    <3>2. ASSUME t \in 1..m PROVE \E g : Having(t)' = {g}
      <4>1. PICK g : Having(t) = {g}
        BY <1>4, <3>2 DEF Owned
      <4> QED BY <2>1, <3>2, <4>1
    <3>3. ASSUME t = m + 1 PROVE Having(t)' = {at}
      BY <1>10, <2>2, <3>3 DEF Having
    <3> QED BY <3>1, <3>2, <3>3
  <2>4. Reported'
    <3>1. m + 1 # 0
      BY <1>4
    <3> QED BY <1>3, <1>5, <1>8, <3>1 DEF Reported, Incident
  <2> QED BY <2>3, <2>4
<1> QED  BY <1>2, <1>7, <1>8, <1>11 DEF Filed

LEMMA IncidentsKept ==
  ASSUME IInv, Owned, Reported, [Next]_vars
  PROVE  Owned' /\ Reported'
<1>1. DOMAIN groups = 1..Len(groups) /\ TicketsMove /\ tickets' \in Seq(Tickets)
  BY GroupsAre, StepKept DEF IInv, Kept, TicketsMove
<1>2. CASE Adjusts
  <2>1. PICK g \in DOMAIN groups : \E new \in Groups : Changes(g, new) /\ new.count = groups[g].count
    BY <1>2 DEF Adjusts
  <2>2. PICK new \in Groups : Changes(g, new) /\ new.count = groups[g].count
    BY <2>1
  <2>3. /\ groups' \in Seq(Groups) /\ Len(groups') = Len(groups)
        /\ groups'[g] = new /\ \A h \in DOMAIN groups : h # g => groups'[h] = groups[h]
    BY <1>1, <2>2, ChangesKeeps
  <2>4. DOMAIN groups' = DOMAIN groups
    BY <1>1, <2>3, LenProperties
  <2>5. new.ticket = groups[g].ticket /\ policy' = policy /\ Len(tickets') = Len(tickets)
    BY <1>2, <2>2 DEF Changes, Adjusts
  <2> QED BY <1>1, <2>2, <2>3, <2>4, <2>5, IncidentsStay
<1>3. CASE Leaves
  BY <1>1, <1>3, IncidentsStay DEF Leaves
<1> QED  BY <1>1, <1>2, <1>3, IncidentsGrow, StepKept DEF Kept

(***************************************************************************)
(* THE INCIDENT IS ONE.  At most one group of the key is open, every       *)
(* ticket is the ticket of exactly one group, and no group that has        *)
(* enough events is without one.                                           *)
(***************************************************************************)
THEOREM IncidentIsOne == Spec => []OneIncident
<1>1. Init => Owned /\ Reported
  <2> SUFFICES ASSUME Init PROVE DOMAIN groups = {} /\ DOMAIN tickets = {}
    BY DEF Owned, Reported
  <2> QED BY EmptySeq DEF Init
<1>2. IInv /\ (Owned /\ Reported) /\ [Next]_vars => (Owned /\ Reported)'
  BY IncidentsKept
<1>3. IInv /\ Owned /\ Reported => OneIncident
  <2> SUFFICES ASSUME IInv, Owned, Reported PROVE OneIncident
    OBVIOUS
  <2>1. \A t \in DOMAIN tickets : Cardinality(Having(t)) = 1
    BY FS_Singleton DEF Owned
  <2> QED BY <2>1 DEF OneIncident, IInv, OneOpen, Reported, Having
<1> QED  BY <1>1, <1>2, <1>3, Always, PTL DEF Spec

=============================================================================
