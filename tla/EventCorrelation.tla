--------------------------- MODULE EventCorrelation ---------------------------
(***************************************************************************)
(* Monitoring events on their way to an incident (services/                *)
(* event_operations.py): the events of several sources that one policy     *)
(* gives one correlation key, the groups they are collected in, the ticket *)
(* of a group, the escalation of groups nobody acknowledges, and the       *)
(* people who acknowledge groups and work on tickets.                      *)
(*                                                                         *)
(* An ingestion is one transaction.  It reads and locks in this order: the *)
(* event key, the source's row, (for a recovery) the group of the firing   *)
(* event, without a lock, the correlation key, the open group, the ticket, *)
(* without a lock, and at last the ticket again, with one.  What it writes *)
(* is seen when it commits.                                                *)
(***************************************************************************)
EXTENDS TicketLifecycle, FiniteSets

CONSTANTS
  Events,     \* idempotency keys, as the sources supply them
  Kind,       \* what each event says: its source, state and time
  Policies,   \* the policy of the key, chosen once
  Workers,    \* processes that ingest: the receipt cycle and the ingest routes
  MaxRepeats, \* bound: deliveries again, and ingestions that fail
  MaxMoves,   \* bound: changes of tickets by people
  Aims,       \* bound: the statuses they move tickets to
  None

Says == [source : STRING, firing : BOOLEAN, at : Nat]
PolicyShapes == [mode : {"CREATE_UPDATE", "CORRELATE_ONLY", "IGNORE"}, min : Nat \ {0}, window : Nat,
                 onRecovery : {"NONE", "RESOLVED", "CLOSED"}, primary : BOOLEAN, fallback : BOOLEAN]

ASSUME CorrelationAssumption ==
  /\ Kind \in [Events -> Says]
  /\ Policies \subseteq PolicyShapes
  /\ MaxRepeats \in Nat /\ MaxMoves \in Nat /\ Aims \subseteq Statuses

VARIABLES
  policy,    \* the policy that matches the events
  event,     \* normalized_events: disposition and group, by key
  groups,    \* event_correlation_groups of the key, in order of creation
  tickets,   \* the tickets created for them, in order of creation
  task,      \* the ingestion of each worker
  round,     \* the escalation cycle: the group it has locked, the status it read
  desk,      \* the group as the operator has seen it
  repeats, moves  \* how often each has happened

vars == <<policy, event, groups, tickets, task, round, desk, repeats, moves>>

Counted == {"CORRELATED", "INCIDENT_CREATED", "INCIDENT_UPDATED"}
Dispositions == Counted \cup {"NEW", "SUPPRESSED", "IGNORED", "RESOLVED"}  \* NEW: not stored

Groups == [status : {"OPEN", "RESOLVED"}, count : Nat, last : Nat, version : Nat,
           due : BOOLEAN,      \* next_escalation_at is set
           level : 0..2, acked : BOOLEAN, ticket : Nat]  \* 0: no ticket
Tickets == [status : Statuses, version : Nat \ {0}]

\* None is the absence of a row.
ASSUME NoneAssumption == None \notin Groups

\* group 0: none found.  copy is its row as it was read; seen its ticket's status.
Tasks == [pc : {"KEY", "TICKET"}, event : Events, group : Nat,
          copy : Groups \cup {None}, seen : Statuses \cup {None}]

(***************************************************************************)
(* TYPE INVARIANT.  Dispositions, groups and tickets keep to the check     *)
(* constraints of models/event_operations.py, groups name groups and       *)
(* tickets that exist, and a group is escalated at most twice.             *)
(***************************************************************************)
TypeOK ==
  /\ policy \in Policies
  /\ event \in [Events -> [disposition : Dispositions, group : 0..Len(groups)]]
  /\ groups \in Seq(Groups) /\ tickets \in Seq(Tickets)
  /\ \A g \in DOMAIN groups : groups[g].ticket \in 0..Len(tickets)
  /\ task \in [Workers -> Tasks \cup {None}]
  /\ round \in [group : 1..Len(groups), seen : Statuses \cup {None}] \cup {None}
  /\ desk \in [group : 1..Len(groups), row : Groups] \cup {None}
  /\ repeats \in 0..MaxRepeats /\ moves \in 0..MaxMoves

Init ==
  /\ policy \in Policies
  /\ event = [e \in Events |-> [disposition |-> "NEW", group |-> 0]]
  /\ groups = <<>> /\ tickets = <<>>
  /\ task = [w \in Workers |-> None]
  /\ round = None /\ desk = None
  /\ repeats = 0 /\ moves = 0

-----------------------------------------------------------------------------
(* Locks *)

Stored(e) == event[e].disposition # "NEW"

\* The update of the source's counters keeps its row locked until the commit.
SourceFree(e) ==
  \A w \in Workers : task[w] # None => Kind[task[w].event].source # Kind[e].source

\* The advisory lock of the correlation key.
KeyFree == \A w \in Workers : task[w] # None => task[w].pc # "TICKET"

\* Nobody has the row of g: neither a cycle that escalates it, nor, of these
\* workers, one with a firing event.
RowFree(g, these) ==
  /\ round # None => round.group # g
  /\ \A w \in these :
       ~(task[w] # None /\ task[w].pc = "TICKET" /\ task[w].group = g
         /\ Kind[task[w].event].firing)

-----------------------------------------------------------------------------
(* Ingestion *)

\* The latest firing event of the recovery's source that has a group.
Previous(e) ==
  LET fired == {f \in Events : /\ Kind[f].source = Kind[e].source
                               /\ Kind[f].firing /\ event[f].group # 0}
  IN  {f \in fired : \A x \in fired : Kind[x].at <= Kind[f].at}

\* (Mutation of Remembered: a firing event, too, looks up its group before it has the key.)
RememberedAlways(e) ==
  IF Kind[e].firing
    THEN LET open == {g \in DOMAIN groups : groups[g].status = "OPEN"}
         IN  IF open = {} THEN 0 ELSE CHOOSE g \in open : TRUE
    ELSE IF Previous(e) = {} THEN 0 ELSE event[CHOOSE f \in Previous(e) : TRUE].group

\* The group that an ingestion reads before it has the key: a recovery's only.
Remembered(e) ==
  IF Kind[e].firing \/ Previous(e) = {} THEN 0
  ELSE event[CHOOSE f \in Previous(e) : TRUE].group

\* A stored event is a duplicate whatever has become of it, and changes nothing.
Duplicate(w, e) ==
  /\ task[w] = None /\ Stored(e) /\ SourceFree(e)
  /\ repeats < MaxRepeats /\ repeats' = repeats + 1
  /\ UNCHANGED <<policy, event, groups, tickets, task, round, desk, moves>>

\* A firing event under a suppression rule, or one whose policy ignores it.
SetAside(w, e) ==
  /\ task[w] = None /\ ~Stored(e) /\ SourceFree(e)
  /\ \E verdict \in {"SUPPRESSED", "IGNORED"} :
       /\ verdict = "SUPPRESSED" => Kind[e].firing
       /\ verdict = "IGNORED" => policy.mode = "IGNORE"
       /\ event' = [event EXCEPT ![e].disposition = verdict]
  /\ UNCHANGED <<policy, groups, tickets, task, round, desk, repeats, moves>>

Ingest(w, e) ==
  /\ task[w] = None /\ ~Stored(e) /\ SourceFree(e) /\ policy.mode # "IGNORE"
  /\ LET g == Remembered(e)
     IN  task' = [task EXCEPT ![w] =
           [pc |-> "KEY", event |-> e, group |-> g,
            copy |-> IF g = 0 THEN None ELSE groups[g], seen |-> None]]
  /\ UNCHANGED <<policy, event, groups, tickets, round, desk, repeats, moves>>

OpenGroup == LET open == {g \in DOMAIN groups : groups[g].status = "OPEN"}
             IN  IF open = {} THEN 0 ELSE CHOOSE g \in open : TRUE

StatusOf(t) == IF t = 0 THEN None ELSE tickets[t].status

\* The key is locked, the open group read unless one is remembered, then its ticket.
Correlate(w) ==
  /\ task[w] # None /\ task[w].pc = "KEY" /\ KeyFree
  /\ LET k == task[w]
         g == IF k.group # 0 THEN k.group ELSE OpenGroup
         row == IF k.group # 0 THEN k.copy ELSE IF g = 0 THEN None ELSE groups[g]
     IN  /\ k.group = 0 /\ g # 0 => RowFree(g, Workers \ {w})
         /\ task' = [task EXCEPT ![w] =
              [k EXCEPT !.pc = "TICKET", !.group = g, !.copy = row,
                        !.seen = IF row = None THEN None ELSE StatusOf(row.ticket)]]
  /\ UNCHANGED <<policy, event, groups, tickets, round, desk, repeats, moves>>

\* The group is still without a ticket and the event comes after its window.
Expired(e, row) == row.ticket = 0 /\ row.last + policy.window < Kind[e].at

NewGroup(e) ==
  [status |-> "OPEN", count |-> 1, last |-> Kind[e].at, version |-> 1,
   due |-> TRUE, level |-> 0, acked |-> FALSE, ticket |-> 0]

\* The columns that one more event sets, from the row as it was read.
OneMore(row, copy, e) ==
  [row EXCEPT !.count = copy.count + 1, !.version = copy.version + 1,
              !.last = IF copy.last < Kind[e].at THEN Kind[e].at ELSE copy.last]

\* (Mutation of Ended: the deadline of a resolved group stays.)
EndedDue(row, copy) == [row EXCEPT !.status = "RESOLVED", !.version = copy.version + 1]

\* The columns that the end of a group sets: the deadline only if the copy has one.
Ended(row, copy) ==
  [row EXCEPT !.status = "RESOLVED", !.version = copy.version + 1,
              !.due = @ /\ ~copy.due]

\* The groups with the firing event in them, and the group it is in.
With(k) ==
  LET e == k.event
  IN  IF k.copy = None
        THEN [all |-> Append(groups, NewGroup(e)), at |-> Len(groups) + 1]
      ELSE IF Expired(e, k.copy)
        THEN [all |-> Append([groups EXCEPT ![k.group] = Ended(@, k.copy)], NewGroup(e)),
              at |-> Len(groups) + 1]
      ELSE [all |-> [groups EXCEPT ![k.group] = OneMore(@, k.copy, e)], at |-> k.group]

Firing(w) == task[w] # None /\ task[w].pc = "TICKET" /\ Kind[task[w].event].firing

Recovering(w) == task[w] # None /\ task[w].pc = "TICKET" /\ ~Kind[task[w].event].firing

Commit(w, verdict, g) ==
  /\ event' = [event EXCEPT ![task[w].event] = [disposition |-> verdict, group |-> g]]
  /\ task' = [task EXCEPT ![w] = None]
  /\ UNCHANGED <<policy, round, desk, repeats, moves>>

\* Whether the event makes or updates an incident.
Incident(row) == policy.mode = "CREATE_UPDATE" /\ row.count >= policy.min

\* (Mutation of HasTicket: the group's ticket is not looked up.)
HasTicketNever(row) == row.ticket > Len(tickets)

HasTicket(row) == row.ticket # 0

JoinGroup(w) ==
  /\ Firing(w)
  /\ LET now == With(task[w]) IN
       /\ ~Incident(now.all[now.at])
       /\ groups' = now.all
       /\ Commit(w, "CORRELATED", now.at)
  /\ UNCHANGED tickets

CreateIncident(w) ==
  /\ Firing(w)
  /\ LET now == With(task[w]) IN
       /\ Incident(now.all[now.at]) /\ ~HasTicket(now.all[now.at])
       /\ tickets' = Append(tickets, [status |-> IF policy.primary THEN "ASSIGNED" ELSE "NEW",
                                      version |-> 1])
       /\ groups' = [now.all EXCEPT ![now.at].ticket = Len(tickets')]
       /\ Commit(w, "INCIDENT_CREATED", now.at)

\* A ticket that was seen resolved is reopened, provided it still is as it was seen.
UpdateIncident(w) ==
  /\ Firing(w)
  /\ LET now == With(task[w])
         row == now.all[now.at]
         seen == task[w].seen
     IN  /\ Incident(row) /\ HasTicket(row)
         /\ groups' = now.all
         /\ IF seen \in {"RESOLVED", "CLOSED"}
              THEN /\ tickets[row.ticket].status = seen
                   /\ tickets' = [tickets EXCEPT ![row.ticket] = Moved(@, <<"REOPENED">>)]
              ELSE tickets' = tickets
         /\ Commit(w, "INCIDENT_UPDATED", now.at)

\* A state conflict is raised: the ingestion is rolled back, for its caller to repeat.
ConflictingIncident(w) ==
  /\ Firing(w)
  /\ task[w].seen \in {"RESOLVED", "CLOSED"}
  /\ tickets[groups[task[w].group].ticket].status # task[w].seen
  /\ task' = [task EXCEPT ![w] = None]
  /\ UNCHANGED <<policy, event, groups, tickets, round, desk, repeats, moves>>

IgnoreRecovery(w) ==
  /\ Recovering(w)
  /\ task[w].copy # None => task[w].copy.status # "OPEN"
  /\ Commit(w, "IGNORED", 0)
  /\ UNCHANGED <<groups, tickets>>

(***************************************************************************)
(* The group ends as it was read, and so does the ticket that it had then, *)
(* along the path from the status that was seen: a path the ticket no      *)
(* longer accepts is only noted in its history.                            *)
(***************************************************************************)
Recover(w) ==
  /\ Recovering(w)
  /\ LET k == task[w]
         t == k.copy.ticket
         aim == policy.onRecovery
         path == Paths[k.seen][aim]
     IN  /\ k.copy # None /\ k.copy.status = "OPEN" /\ RowFree(k.group, Workers \ {w})
         /\ groups' = [groups EXCEPT ![k.group] = Ended(@, k.copy)]
         /\ IF /\ t # 0 /\ aim # "NONE" /\ k.seen \notin {"RESOLVED", "CLOSED"}
               /\ HasPath(k.seen, aim) /\ Accepts(tickets[t], path)
              THEN tickets' = [tickets EXCEPT ![t] = Moved(@, path)]
              ELSE tickets' = tickets
         /\ Commit(w, "RESOLVED", k.group)

\* The process dies, or the database does: nothing of the ingestion is kept.
Fail(w) ==
  /\ task[w] # None
  /\ repeats < MaxRepeats /\ repeats' = repeats + 1
  /\ task' = [task EXCEPT ![w] = None]
  /\ UNCHANGED <<policy, event, groups, tickets, round, desk, moves>>

-----------------------------------------------------------------------------
(* Escalation *)

\* The groups that an escalation cycle selects, with their rows locked.
Overdue(g) == groups[g].status = "OPEN" /\ ~groups[g].acked /\ groups[g].due

\* One deadline is passed, the row locked; then the ticket is read, without a lock.
SelectOverdue ==
  /\ round = None
  /\ \E g \in DOMAIN groups :
       /\ Overdue(g) /\ RowFree(g, Workers)
       /\ round' = [group |-> g, seen |-> StatusOf(groups[g].ticket)]
  /\ UNCHANGED <<policy, event, groups, tickets, task, desk, repeats, moves>>

\* (Mutation of Raised: every escalation to a fallback sets another deadline.)
RaisedAgain(row) ==
  [row EXCEPT !.level = @ + 1, !.version = @ + 1, !.due = policy.fallback]

\* Only the first escalation, and only one to a fallback, sets another deadline.
Raised(row) ==
  [row EXCEPT !.level = @ + 1, !.version = @ + 1, !.due = row.level = 0 /\ policy.fallback]

Escalate ==
  /\ round # None
  /\ LET t == groups[round.group].ticket
         assigns == t # 0 /\ (policy.primary \/ policy.fallback) /\ round.seen = "NEW"
     IN  IF assigns /\ tickets[t].status # "NEW"
           THEN UNCHANGED <<groups, tickets>>  \* a conflict: the cycle is rolled back
           ELSE /\ groups' = [groups EXCEPT ![round.group] = Raised(@)]
                /\ tickets' = IF assigns THEN [tickets EXCEPT ![t] = Moved(@, <<"ASSIGNED">>)]
                              ELSE tickets
  /\ round' = None
  /\ UNCHANGED <<policy, event, task, desk, repeats, moves>>

-----------------------------------------------------------------------------
(* People *)

\* A group that is over or taken has nothing to acknowledge, and never will again.
Look ==
  /\ \E g \in DOMAIN groups :
       /\ groups[g].status = "OPEN" /\ ~groups[g].acked
       /\ desk' = [group |-> g, row |-> groups[g]]
  /\ UNCHANGED <<policy, event, groups, tickets, task, round, repeats, moves>>

\* With the version on the operator's desk as the expected one.
Acknowledge ==
  /\ desk # None
  /\ LET g == desk.group IN
       /\ RowFree(g, Workers)
       /\ groups[g].status = "OPEN" /\ ~groups[g].acked
       /\ groups[g].version = desk.row.version
       /\ groups' = [groups EXCEPT ![g].acked = TRUE, ![g].due = FALSE, ![g].version = @ + 1]
  /\ desk' = None
  /\ UNCHANGED <<policy, event, tickets, task, round, repeats, moves>>

\* The ticket routes lock the ticket before they read it.
WorkOnTicket ==
  /\ moves < MaxMoves /\ moves' = moves + 1
  /\ \E t \in DOMAIN tickets : \E to \in Transitions[tickets[t].status] \cap Aims :
       tickets' = [tickets EXCEPT ![t] = Moved(@, <<to>>)]
  /\ UNCHANGED <<policy, event, groups, task, round, desk, repeats>>

\* The ticket is merged into another, of these or not: it is cancelled along a path.
MergeTicket ==
  /\ moves < MaxMoves /\ moves' = moves + 1
  /\ \E t \in DOMAIN tickets : \E u \in (DOMAIN tickets \ {t}) \cup {0} :
       /\ tickets[t].status \notin {"RESOLVED", "CLOSED", "CANCELLED"}
       /\ u # 0 => tickets[u].status # "CANCELLED"
       /\ tickets' = [x \in DOMAIN tickets |->
            CASE x = t -> Moved(tickets[t], Paths[tickets[t].status]["CANCELLED"])
              [] x = u -> [tickets[u] EXCEPT !.version = @ + 1]
              [] OTHER -> tickets[x]]
  /\ UNCHANGED <<policy, event, groups, task, round, desk, repeats>>

Next ==
  \/ \E w \in Workers :
       \/ \E e \in Events : Duplicate(w, e) \/ SetAside(w, e) \/ Ingest(w, e)
       \/ Correlate(w)
       \/ JoinGroup(w) \/ CreateIncident(w) \/ UpdateIncident(w) \/ ConflictingIncident(w)
       \/ IgnoreRecovery(w) \/ Recover(w) \/ Fail(w)
  \/ SelectOverdue \/ Escalate
  \/ Look \/ Acknowledge \/ WorkOnTicket \/ MergeTicket

Spec == Init /\ [][Next]_vars

-----------------------------------------------------------------------------
(* What the sources, the operators and the agents rely on *)

(***************************************************************************)
(* COUNTED ONCE.  A group's occurrence_count is the number of stored       *)
(* events that were counted into it, however often a receipt was processed *)
(* again, whichever source an event came from, and whatever an ingestion   *)
(* that read the group without a lock has written back.                    *)
(***************************************************************************)
CountedOnce ==
  \A g \in DOMAIN groups :
    groups[g].count =
      Cardinality({e \in Events : event[e].group = g /\ event[e].disposition \in Counted})

(***************************************************************************)
(* ONE INCIDENT.  At most one group of the key is open; every ticket is    *)
(* the ticket of exactly one group, so no group has had two; and a group   *)
(* with enough events has one.                                             *)
(***************************************************************************)
OneIncident ==
  /\ \A g, h \in DOMAIN groups :
       groups[g].status = "OPEN" /\ groups[h].status = "OPEN" => g = h
  /\ \A t \in DOMAIN tickets :
       Cardinality({g \in DOMAIN groups : groups[g].ticket = t}) = 1
  /\ \A g \in DOMAIN groups : Incident(groups[g]) => groups[g].ticket # 0

(***************************************************************************)
(* QUIET ONCE ANSWERED.  A group that somebody has acknowledged, or that   *)
(* is over, has no deadline left that could escalate it, even when the     *)
(* recovery that ended it had read an older row, and no cycle holds one.   *)
(***************************************************************************)
QuietOnceAnswered ==
  \A g \in DOMAIN groups :
    groups[g].acked \/ groups[g].status = "RESOLVED" =>
      ~groups[g].due /\ (round # None => round.group # g)

(***************************************************************************)
(* LAWFUL TICKETS.  Whoever changes a ticket, and whatever status they had *)
(* read before, it moves along the table, and its version counts at least  *)
(* the steps: a cancelled ticket stays so, no two changes share a version. *)
(***************************************************************************)
LawfulTickets ==
  [][\A t \in DOMAIN tickets :
       LET steps == tickets'[t].version - tickets[t].version
       IN  tickets'[t] # tickets[t] =>
             /\ steps > 0
             /\ tickets'[t].status \in Within[steps][tickets[t].status]]_vars

=============================================================================
