------------------------------ MODULE SlaClock ------------------------------
(***************************************************************************)
(* The service-level clock of a ticket (services/enterprise_sla.py): the   *)
(* instances that commit to deadlines, their targets, the pauses that stop *)
(* them, and the three parties that change them.  People change the ticket *)
(* (routes/tickets.py); they hold the ticket's row lock, and its SLA is    *)
(* brought up to date in the same transaction under an advisory lock.      *)
(* Managers pause, resume, complete and recalculate (routes/sla.py);       *)
(* evaluators, the periodic cycle and its endpoint, look for deadlines     *)
(* that have passed; these take no lock, except to recalculate.            *)
(*                                                                         *)
(* A session works in three steps.  It reads the instance; then the time,  *)
(* the targets and the open pause; and then it commits what it has made of *)
(* them.  It writes the columns in which its copy has changed.  (paused_at *)
(* is left out: it is set and cleared together with the status PAUSED.)    *)
(***************************************************************************)
EXTENDS TicketLifecycle, BusinessTime

CONSTANTS
  Targets, Duration, Warning,  \* what a policy commits to, and when it warns, in minutes
  Calendars,      \* the calendars a policy may have when an instance is made
  PauseStatuses,  \* the statuses in which the policy pauses
  Managers, Evaluators,
  Horizon, MaxStart,    \* bounds: time, and when the ticket is created
  MaxMoves, MaxOrders,  \* bounds: changes of the ticket, of its clock
  Aims,           \* bound: the statuses that the ticket is moved to
  None

ASSUME ClockAssumption ==
  /\ {"RESPONSE", "RESOLUTION"} \subseteq Targets
  /\ Duration \in [Targets -> Nat \ {0}] /\ Warning \in [Targets -> Nat \ {0}]
  /\ \A t \in Targets : Warning[t] <= Duration[t]
  /\ PauseStatuses \subseteq {"WAITING_USER", "WAITING_VENDOR"}
  /\ "desk" \notin Managers \cup Evaluators
  /\ Horizon \in Nat /\ MaxStart \in Nat /\ MaxMoves \in Nat /\ MaxOrders \in Nat

ASSUME CalendarAssumption == \A calendar \in Calendars : calendar = AllHours \/ Regular(calendar)

ASSUME NoneAssumption == None \notin Nat \cup Statuses

VARIABLES
  now,
  ticket,         \* the ticket's status; None before it is created
  instances,      \* ticket_sla_instances of the ticket, in order of creation
  targets,        \* the ticket_sla_targets of each of them
  pauses,         \* the ticket_sla_pauses of each of them
  session,        \* what each party has under way
  lost,           \* history: a deadline or a sum of pauses was overwritten unread
  moves, orders   \* how often each has happened

vars == <<now, ticket, instances, targets, pauses, session, lost, moves, orders>>

Times == Nat \cup {None}
InstanceRows == [current : BOOLEAN, status : {"ACTIVE", "PAUSED", "COMPLETED", "BREACHED", "CANCELLED"},
                 calendar : Calendars, started : Nat, paused : Nat]
TargetRows == [status : {"PENDING", "WARNING", "MET", "BREACHED", "CANCELLED"},
               due : Nat, warn : Nat, metAt : Times, breachedAt : Times]
PauseRows == [start : Nat, end : Times]

Parties == {"desk"} \cup Managers \cup Evaluators

\* to and old: the ticket's status after and before; force: a new instance is
\* made; id: the instance, row, held, gap: its row, its targets, its open pause.
Sessions == [kind : {"sync", "pause", "resume", "complete", "recalculate", "evaluate"},
             pc : {"READ", "LOCKED", "WRITE"}, to : Statuses \cup {None}, old : Statuses \cup {None},
             target : Targets \cup {None}, force : BOOLEAN, id : Nat,
             row : InstanceRows \cup {None}, held : [Targets -> TargetRows] \cup {None},
             gap : Nat, at : Times]

Blank == [kind |-> "evaluate", pc |-> "READ", to |-> None, old |-> None, target |-> None,
          force |-> FALSE, id |-> 0, row |-> None, held |-> None, gap |-> 0, at |-> None]

Final == {"MET", "CANCELLED"}
Open == {"PENDING", "WARNING"}
Responds == {"ASSIGNED", "IN_PROGRESS", "WAITING_USER", "WAITING_VENDOR", "RESOLVED", "CLOSED"}
Resolves == {"RESOLVED", "CLOSED"}

OpenPauses(i) == {k \in DOMAIN pauses[i] : pauses[i][k].end = None}

\* The current instance: the unique index allows one.
Current == {i \in DOMAIN instances : instances[i].current}

-----------------------------------------------------------------------------
(* What the service functions do to a copy: an instance's row, its targets *)
(* and its open pause (start, or None); began and ended are the rows that  *)
(* it inserts and closes.                                                  *)

Copy(row, held, gap) == [row |-> row, held |-> held, gap |-> gap, began |-> None, ended |-> None]

Fresh(calendar, at) ==
  Copy([current |-> TRUE, status |-> "ACTIVE", calendar |-> calendar,
        started |-> at, paused |-> 0],
       [t \in Targets |-> [status |-> "PENDING",
                           due |-> AddBusinessMinutes(calendar, at, Duration[t]),
                           warn |-> AddBusinessMinutes(calendar, at, Warning[t]),
                           metAt |-> None, breachedAt |-> None]],
       None)

CancelTargets(held) ==
  [t \in Targets |-> IF held[t].status \in Final THEN held[t] ELSE [held[t] EXCEPT !.status = "CANCELLED"]]

\* (Mutation of Superseded: the old instance stays current.)
SupersededStays(c) ==
  IF c.row.status \in {"ACTIVE", "PAUSED"}
  THEN [c EXCEPT !.row.status = "CANCELLED", !.held = CancelTargets(@)]
  ELSE c

\* A new instance supersedes the old one: one that is breached or completed
\* keeps its status, and an open pause stays open.
Superseded(c) ==
  IF c.row.status \in {"ACTIVE", "PAUSED"}
  THEN [c EXCEPT !.row.current = FALSE, !.row.status = "CANCELLED", !.held = CancelTargets(@)]
  ELSE [c EXCEPT !.row.current = FALSE]

\* pause_instance raises an error for others; who asks again keeps the pause.
CanPause(c) == c.row.status \in {"ACTIVE", "BREACHED"} \/ (c.row.status = "PAUSED" /\ c.gap # None)

Pause(c, at) ==
  IF c.row.status = "PAUSED" THEN c
  ELSE [c EXCEPT !.row.status = "PAUSED", !.began = at]

\* resume_instance does nothing for others, and raises an error without a pause.
CanResume(c) == c.row.status = "PAUSED" => c.gap # None

\* (Mutation of Resumed: the deadlines are moved by the time on the clock.)
ResumedByTheClock(c, at) ==
  LET minutes == BusinessMinutesBetween(c.row.calendar, c.gap, at)
      Later(t) == IF c.held[t].status \in Open
                  THEN [c.held[t] EXCEPT !.due = @ + minutes * Minute, !.warn = @ + minutes * Minute]
                  ELSE c.held[t]
  IN  [c EXCEPT !.row.status = "ACTIVE", !.row.paused = @ + minutes,
                !.held = [t \in Targets |-> Later(t)], !.ended = at]

\* What is still open is extended by the business minutes of the pause.
Resumed(c, at) ==
  LET minutes == BusinessMinutesBetween(c.row.calendar, c.gap, at)
      Extended(instant) == AddBusinessMinutes(c.row.calendar, instant, minutes)
      Later(t) == IF c.held[t].status \in Open
                  THEN [c.held[t] EXCEPT !.due = Extended(@), !.warn = Extended(@)]
                  ELSE c.held[t]
  IN  [c EXCEPT !.row.status = "ACTIVE", !.row.paused = @ + minutes,
                !.held = [t \in Targets |-> Later(t)], !.ended = at]

\* (Mutation of Resume: an open pause is enough, whatever the status read.)
ResumeIfOpen(c, at) == IF c.gap # None THEN Resumed(c, at) ELSE c

Resume(c, at) == IF c.row.status = "PAUSED" THEN Resumed(c, at) ELSE c

\* (Mutation of Complete: any completion meets the target.)
CompleteLate(c, t, at) ==
  IF c.held[t].status \in Final THEN c
  ELSE [c EXCEPT !.held[t].status = "MET", !.held[t].metAt = at]

\* A target that is breached is completed again each time.
Complete(c, t, at) ==
  IF c.held[t].status \in Final THEN c
  ELSE IF at <= c.held[t].due
       THEN [c EXCEPT !.held[t].status = "MET", !.held[t].metAt = at]
       ELSE [c EXCEPT !.held[t].status = "BREACHED", !.held[t].metAt = at,
                      !.held[t].breachedAt = IF @ = None THEN at ELSE @]

Evaluated(target, at) ==
  IF target.status \in Final THEN target
  ELSE IF at >= target.due
       THEN [target EXCEPT !.status = "BREACHED", !.breachedAt = IF @ = None THEN at ELSE @]
  ELSE IF at >= target.warn THEN [target EXCEPT !.status = "WARNING"]
  ELSE target

Evaluate(c, at) ==
  LET held == [t \in Targets |-> Evaluated(c.held[t], at)]
  IN  IF ~c.row.current \/ c.row.status \in {"CANCELLED", "COMPLETED", "PAUSED"} THEN c
      ELSE [c EXCEPT !.held = held,
                     !.row.status = IF \E t \in Targets : held[t].status = "BREACHED" THEN "BREACHED"
                                    ELSE IF \A t \in Targets : held[t].status \in Final THEN "COMPLETED"
                                    ELSE "ACTIVE"]

(***************************************************************************)
(* sync_ticket_sla, for a ticket that has changed from old to the status   *)
(* to: cancel; or pause or resume, complete what the status completes, and *)
(* evaluate.  Synced is defined where CanSync holds; elsewhere the error   *)
(* takes the change of the ticket with it.                                 *)
(***************************************************************************)
Pauses(c, to) == to \in PauseStatuses /\ c.row.status # "PAUSED"
Resumes(to, old) == old \in PauseStatuses /\ to \notin PauseStatuses

CanSync(c, to, old) ==
  \/ to = "CANCELLED"
  \/ /\ Pauses(c, to) => CanPause(c)
     /\ Resumes(to, old) => CanResume(c)

Synced(c, to, old, at) ==
  LET stopped == IF Pauses(c, to) THEN Pause(c, at)
                 ELSE IF Resumes(to, old) THEN Resume(c, at) ELSE c
      answered == IF to \in Responds /\ to # old THEN Complete(stopped, "RESPONSE", at) ELSE stopped
      resolved == IF to \in Resolves THEN Complete(answered, "RESOLUTION", at) ELSE answered
  IN  IF to = "CANCELLED"
      THEN [c EXCEPT !.row.status = "CANCELLED", !.held = CancelTargets(@)]
      ELSE Evaluate(resolved, at)

-----------------------------------------------------------------------------
(* What a transaction leaves behind.                                       *)

\* The columns in which the copy differs from what was read.
Written(read, copy, stored) ==
  [f \in DOMAIN stored |-> IF copy[f] = read[f] THEN stored[f] ELSE copy[f]]

Inserted(c) == IF c.began = None THEN <<>> ELSE <<[start |-> c.began, end |-> None]>>

Stored(s, c) ==
  [instances |-> [instances EXCEPT ![s.id] = Written(s.row, c.row, @)],
   targets |-> [targets EXCEPT ![s.id] = [t \in Targets |-> Written(s.held[t], c.held[t], @[t])]],
   pauses |-> [pauses EXCEPT ![s.id] =
                 (IF c.ended = None THEN @ ELSE [@ EXCEPT ![s.gap].end = c.ended]) \o Inserted(c)]]

\* The transaction writes a sum of pauses or a deadline that has changed since
\* it was read.
Overwrites(s, c) ==
  \/ s.row.paused \notin {c.row.paused, instances[s.id].paused}
  \/ \E t \in Targets : s.held[t].due \notin {c.held[t].due, targets[s.id][t].due}

Save(s, c) ==
  /\ lost' = (lost \/ Overwrites(s, c))
  /\ instances' = Stored(s, c).instances
  /\ targets' = Stored(s, c).targets
  /\ pauses' = Stored(s, c).pauses

SaveWith(s, c, new) ==
  /\ lost' = (lost \/ Overwrites(s, c))
  /\ instances' = Append(Stored(s, c).instances, new.row)
  /\ targets' = Append(Stored(s, c).targets, new.held)
  /\ pauses' = Append(Stored(s, c).pauses, Inserted(new))

-----------------------------------------------------------------------------
Init ==
  /\ now = 0 /\ ticket = None
  /\ instances = <<>> /\ targets = <<>> /\ pauses = <<>>
  /\ session = [p \in Parties |-> None] /\ lost = FALSE
  /\ moves = 0 /\ orders = 0

Tick ==
  /\ now < Horizon /\ now' = now + 1
  /\ UNCHANGED <<ticket, instances, targets, pauses, session, lost, moves, orders>>

Begin(p, s) == session' = [session EXCEPT ![p] = s]
End(p) == Begin(p, None)

\* A ticket is created, assigned or not, and committed with its first instance.
Create ==
  /\ ticket = None /\ now <= MaxStart
  /\ \E to \in {"NEW", "ASSIGNED"}, calendar \in Calendars :
       LET new == Synced(Fresh(calendar, now), to, None, now)
       IN  /\ ticket' = to
           /\ instances' = <<new.row>> /\ targets' = <<new.held>> /\ pauses' = <<Inserted(new)>>
  /\ UNCHANGED <<now, session, lost, moves, orders>>

\* The lock of the ticket's SLA, which a recalculation takes after its first read.
Locked ==
  \/ session["desk"] # None
  \/ \E m \in Managers : session[m] # None /\ session[m].kind = "recalculate" /\ session[m].pc # "READ"

\* The desk moves the ticket, or edits it otherwise; a new priority, and any
\* change of a ticket that is REOPENED, makes a new instance.  (A new priority
\* counts among the orders.)
DeskRead ==
  /\ ticket # None /\ moves < MaxMoves /\ ~Locked
  /\ moves' = moves + 1
  /\ \E to \in (Transitions[ticket] \cap Aims) \cup {ticket}, priority \in BOOLEAN, i \in Current :
       /\ priority => orders < MaxOrders
       /\ orders' = orders + (IF priority THEN 1 ELSE 0)
       /\ Begin("desk", [Blank EXCEPT !.kind = "sync", !.to = to, !.old = ticket, !.at = now,
                                   !.force = priority \/ to = "REOPENED", !.id = i, !.row = instances[i]])
  /\ UNCHANGED <<now, ticket, instances, targets, pauses, lost>>

\* A manager has opened an instance, current or not.
ManagerRead(m) ==
  /\ session[m] = None /\ orders < MaxOrders
  /\ orders' = orders + 1
  /\ \/ \E kind \in {"pause", "resume"}, i \in DOMAIN instances :
          Begin(m, [Blank EXCEPT !.kind = kind, !.id = i, !.row = instances[i]])
     \/ \E t \in Targets, i \in DOMAIN instances :
          Begin(m, [Blank EXCEPT !.kind = "complete", !.target = t, !.id = i, !.row = instances[i]])
     \/ \E i \in Current :
          Begin(m, [Blank EXCEPT !.kind = "recalculate", !.id = i, !.row = instances[i]])
  /\ UNCHANGED <<now, ticket, instances, targets, pauses, lost, moves>>

\* The recalculation finds the current instance again; the copy it has already
\* read of that row stays as it is.
ManagerLock(m) ==
  /\ session[m] # None /\ session[m].kind = "recalculate" /\ session[m].pc = "READ" /\ ~Locked
  /\ \E i \in Current :
       Begin(m, [session[m] EXCEPT !.pc = "LOCKED", !.at = now, !.id = i,
                                   !.row = IF i = session[m].id THEN @ ELSE instances[i]])
  /\ UNCHANGED <<now, ticket, instances, targets, pauses, lost, moves, orders>>

\* An evaluation looks only at clocks that run.
EvaluatorRead(e) ==
  /\ session[e] = None
  /\ \E i \in Current :
       /\ instances[i].status \in {"ACTIVE", "BREACHED"}
       /\ Begin(e, [Blank EXCEPT !.id = i, !.row = instances[i]])
  /\ UNCHANGED <<now, ticket, instances, targets, pauses, lost, moves, orders>>

CopyOf(s) == Copy(s.row, s.held, IF s.gap = 0 THEN None ELSE pauses[s.id][s.gap].start)

\* An evaluation that changes nothing has nothing to write.
Idle(s) == s.kind = "evaluate" /\ Evaluate(CopyOf(s), s.at) = CopyOf(s)

\* The time, the targets and an open pause: any, if there are several.
Look(p) ==
  LET s == session[p] IN
  /\ s # None /\ s.pc = (IF s.kind = "recalculate" THEN "LOCKED" ELSE "READ")
  /\ \E k \in IF OpenPauses(s.id) = {} \/ s.kind = "evaluate" THEN {0} ELSE OpenPauses(s.id) :
       LET seen == [s EXCEPT !.pc = "WRITE", !.held = targets[s.id], !.gap = k,
                             !.at = IF @ = None THEN now ELSE @]
       IN  Begin(p, IF Idle(seen) THEN None ELSE seen)
  /\ UNCHANGED <<now, ticket, instances, targets, pauses, lost, moves, orders>>

Writes(p) == session[p] # None /\ session[p].pc = "WRITE"

\* The desk commits the ticket with its SLA.
DeskCommit ==
  /\ Writes("desk")
  /\ LET s == session["desk"] IN
     /\ ticket' = s.to
     /\ IF s.force
        THEN \E calendar \in Calendars :
               LET new == Fresh(calendar, s.at) IN
               /\ CanSync(new, s.to, s.old)
               /\ SaveWith(s, Superseded(CopyOf(s)), Synced(new, s.to, s.old, s.at))
        ELSE /\ CanSync(CopyOf(s), s.to, s.old)
             /\ Save(s, Synced(CopyOf(s), s.to, s.old, s.at))
  /\ End("desk")
  /\ UNCHANGED <<now, moves, orders>>

ManagerCommit(m) ==
  /\ Writes(m)
  /\ LET s == session[m]
         c == CopyOf(s)
     IN  \/ s.kind = "pause" /\ CanPause(c) /\ Save(s, Pause(c, s.at))
         \/ s.kind = "resume" /\ CanResume(c) /\ Save(s, Resume(c, s.at))
         \/ s.kind = "complete" /\ Save(s, Complete(c, s.target, s.at))
         \/ /\ s.kind = "recalculate"
            /\ \E calendar \in Calendars : SaveWith(s, Superseded(c), Fresh(calendar, s.at))
  /\ End(m)
  /\ UNCHANGED <<now, ticket, moves, orders>>

EvaluatorCommit(e) ==
  /\ Writes(e)
  /\ Save(session[e], Evaluate(CopyOf(session[e]), session[e].at))
  /\ End(e)
  /\ UNCHANGED <<now, ticket, moves, orders>>

\* An error rolls everything back: the SLA cannot be paused or resumed.
Refuse(p) ==
  /\ Writes(p)
  /\ LET s == session[p] IN
     \/ s.kind = "sync" /\ ~s.force /\ ~CanSync(CopyOf(s), s.to, s.old)
     \/ s.kind = "pause" /\ ~CanPause(CopyOf(s))
     \/ s.kind = "resume" /\ ~CanResume(CopyOf(s))
  /\ End(p)
  /\ UNCHANGED <<now, ticket, instances, targets, pauses, lost, moves, orders>>

Next ==
  \/ Tick \/ Create \/ DeskRead \/ DeskCommit
  \/ \E m \in Managers : ManagerRead(m) \/ ManagerLock(m) \/ ManagerCommit(m)
  \/ \E e \in Evaluators : EvaluatorRead(e) \/ EvaluatorCommit(e)
  \/ \E p \in Parties : Look(p) \/ Refuse(p)

Spec == Init /\ [][Next]_vars

-----------------------------------------------------------------------------
(* Properties.                                                             *)

TypeOK ==
  /\ now \in 0 .. Horizon /\ ticket \in Statuses \cup {None}
  /\ instances \in Seq(InstanceRows)
  /\ targets \in Seq([Targets -> TargetRows]) /\ Len(targets) = Len(instances)
  /\ pauses \in Seq(Seq(PauseRows)) /\ Len(pauses) = Len(instances)
  /\ \A p \in Parties : session[p] # None =>
       session[p] \in Sessions /\ session[p].id \in DOMAIN instances
  /\ Cardinality(Current) <= 1
  /\ lost \in BOOLEAN

\* A target of the current clock on which no verdict was passed has been granted
\* its duration of working time, whatever calendar, seconds and parties that
\* write from old copies do.  It has been granted every recorded pause on top,
\* until two parties resume one pause and the later commit takes back what the
\* earlier one gave; and it is exact while there was no pause, for a clock that
\* started on a whole minute.
TimeIsGranted ==
  ticket # "CANCELLED" =>
  \A i \in Current : \A t \in Targets :
    LET worked == WorkingTicks(instances[i].calendar, instances[i].started, targets[i][t].due)
    IN  targets[i][t].status \in Open /\ targets[i][t].metAt = None /\ targets[i][t].breachedAt = None =>
          /\ worked >= Minute * Duration[t]
          /\ ~lost => worked >= Minute * (Duration[t] + instances[i].paused)
          /\ pauses[i] = <<>> /\ instances[i].started % Minute = 0 => worked = Minute * Duration[t]

\* A clock that is paused can be resumed: it has an open pause whoever else
\* pauses, resumes, evaluates or recalculates at once; without one the ticket
\* could not leave its status.
PausedCanResume ==
  \A i \in DOMAIN instances :
    instances[i].status = "PAUSED" => OpenPauses(i) # {}

\* What is breached had used up its duration of working time, also when several
\* parties decide at once from old copies; and what is met without a breach on
\* record was met in time, until a deadline is taken back as above.
VerdictsHold ==
  \A i \in DOMAIN instances : \A t \in Targets :
    LET target == targets[i][t] IN
    /\ target.status = "MET" /\ target.breachedAt = None =>
         target.metAt # None /\ (~lost => target.metAt <= target.due)
    /\ target.status = "BREACHED" =>
         /\ target.breachedAt # None
         /\ WorkingTicks(instances[i].calendar, instances[i].started, target.breachedAt)
              >= Minute * Duration[t]

=============================================================================
