------------------------------- MODULE Outbox -------------------------------
(***************************************************************************)
(* The tables of things to deliver, and the periodic cycles that work them *)
(* off: outbound webhooks (services/integration_platform.py), e-mail       *)
(* (email_operations.py), Teams cards (teams_collaboration.py), monitoring *)
(* receipts (monitoring_connectors.py) and SCIM provisioning events        *)
(* (scim_provisioning.py).  The five do the same thing with different      *)
(* locks and commits; a behaviour is about one of them:                    *)
(*                                                                         *)
(*   webhook  locks one row and its subscription at a time, commits each   *)
(*   email    takes no lock, and commits at the end of the cycle           *)
(*   teams    locks the batch, commits at its end                          *)
(*   scim     locks the batch, commits at its end; what it applies is in   *)
(*            the same transaction                                         *)
(*   receipt  locks the batch, but the commit that marks the first receipt *)
(*            as being processed gives all its locks back                  *)
(*                                                                         *)
(* The scheduler's lease admits a second cycle when the first outlives it, *)
(* so several workers may be in a cycle.                                   *)
(***************************************************************************)
EXTENDS Naturals, FiniteSets

CONSTANTS
  Channels,    \* the tables to look at
  Items,
  Room,        \* bound: how many of them a table is given
  Workers,     \* processes in a cycle
  Clerks,      \* requests that retry by hand
  Limit,       \* max_attempts
  MaxUpsets,   \* bound: retries by hand, changes of the target and faults, by table
  None

ASSUME OutboxAssumption ==
  /\ Channels \subseteq {"webhook", "email", "teams", "scim", "receipt"}
  /\ Room \in [Channels -> Nat] /\ MaxUpsets \in [Channels -> Nat]
  /\ Limit \in Nat \ {0}

VARIABLES
  channel,   \* the table
  row,       \* its committed rows
  target,    \* the subscription, channel, connector or source of the items
  tx,        \* the cycle of each worker
  desk,      \* the row that each clerk has read
  sent,      \* history: how often an item has reached the other side
  passed,    \* history: the versions of the target that have passed a test
  reopens, changes, faults  \* how often each has happened

vars == <<channel, row, target, tx, desk, sent, passed, reopens, changes, faults>>

Rows == [status : {"QUEUED", "RETRY", "PROCESSING", "DONE", "GIVEN_UP"},
         tries : Nat,
         limit : Nat,
         due : BOOLEAN,    \* next_attempt_at has passed
         test : BOOLEAN]   \* a test delivery of a webhook

\* A version is a target and a secret of a webhook; tested is the last one that
\* has been marked as tested.
Targets == [status : {"PAUSED", "ACTIVE", "REVOKED"}, version : Nat, tested : Nat]

Cycles == [todo : SUBSET Items,
           copy : UNION {[S -> Rows] : S \in SUBSET Items},   \* the batch, as selected
           wrote : UNION {[S -> Rows] : S \in SUBSET Items},  \* not committed
           locks : SUBSET Items,
           at : Items \cup {None}, arrived : BOOLEAN,
           seen : Targets \cup {None},                        \* the target, in the session
           failed : BOOLEAN]                                  \* whose failed call keeps it there

\* None is the absence of a row, of a target and of a cycle.
ASSUME NoneAssumption == None \notin Rows \cup Targets \cup Cycles

\* The finite part of a copy keeps the sets above out of TLC's way.
TypeOK ==
  /\ channel \in Channels
  /\ \A i \in Items : row[i] # None => row[i] \in Rows
  /\ target \in Targets
  /\ \A w \in Workers : tx[w] # None =>
       /\ DOMAIN tx[w] = {"todo", "copy", "wrote", "locks", "at", "arrived", "seen", "failed"}
       /\ \A i \in DOMAIN tx[w].copy : tx[w].copy[i] \in Rows
       /\ \A i \in DOMAIN tx[w].wrote : tx[w].wrote[i] \in Rows
       /\ channel # "webhook" => tx[w].todo \subseteq DOMAIN tx[w].copy
       /\ DOMAIN tx[w].wrote \subseteq DOMAIN tx[w].copy
       /\ tx[w].at # None => tx[w].at \in DOMAIN tx[w].copy
       /\ tx[w].seen \in Targets \cup {None}
  /\ desk \in [Clerks -> [item : Items, copy : Rows] \cup {None}]
  /\ sent \in [Items -> Nat]

Init ==
  /\ channel \in Channels
  /\ row = [i \in Items |-> None]
  /\ target = [status |-> "ACTIVE", version |-> 1, tested |-> 1]
  /\ tx = [w \in Workers |-> None]
  /\ desk = [c \in Clerks |-> None]
  /\ sent = [i \in Items |-> 0]
  /\ passed = {1}
  /\ reopens = 0 /\ changes = 0 /\ faults = 0

-----------------------------------------------------------------------------

Upset == reopens + changes + faults < MaxUpsets[channel]

HasRoom == Cardinality({i \in Items : row[i] # None}) < Room[channel]

Waiting(r) == r # None /\ r.status \in {"QUEUED", "RETRY"}
Due(r) == Waiting(r) /\ r.due

Locked(i) == \E w \in Workers : tx[w] # None /\ i \in tx[w].locks

\* A webhook is called, and its result committed, under the lock of its
\* subscription.
TargetFree == channel = "webhook" => \A w \in Workers : tx[w] # None => tx[w].locks = {}

\* What an UPDATE changes: the attributes that differ from what was read.
Write(r, read, new) == [f \in DOMAIN r |-> IF new[f] = read[f] THEN r[f] ELSE new[f]]

Tried(r) == [r EXCEPT !.tries = @ + 1]
Done(r) == [r EXCEPT !.status = "DONE", !.due = FALSE]

\* FAILED, DEAD_LETTER and CANCELLED are one status here: retried by hand only.
GivenUp(r) == [r EXCEPT !.status = "GIVEN_UP", !.due = FALSE]

Failed(r, retryable) ==
  IF retryable /\ r.tries < r.limit THEN [r EXCEPT !.status = "RETRY", !.due = FALSE]
  ELSE GivenUp(r)

-----------------------------------------------------------------------------
(* Items come in, and time passes.                                         *)

NewRow(test) ==
  [status |-> "QUEUED", tries |-> 0, limit |-> Limit, due |-> TRUE, test |-> test]

\* A unique idempotency key makes every later request find the row.
Queue(i) ==
  /\ channel # "scim" /\ row[i] = None /\ HasRoom
  /\ channel \in {"email", "teams"} => target.status = "ACTIVE"
  /\ \E test \in BOOLEAN :
       /\ test => channel = "webhook" /\ target.status # "REVOKED"
       /\ channel = "webhook" /\ ~test => target.status = "ACTIVE"
       /\ row' = [row EXCEPT ![i] = NewRow(test)]
  /\ UNCHANGED <<channel, target, tx, desk, sent, passed, reopens, changes, faults>>

\* A provisioning request applies its event at once, in one transaction.
Provision(i) ==
  /\ channel = "scim" /\ row[i] = None /\ HasRoom /\ target.status = "ACTIVE"
  /\ \/ /\ row' = [row EXCEPT ![i] = Done(Tried(NewRow(FALSE)))]
        /\ sent' = [sent EXCEPT ![i] = @ + 1]
     \/ /\ \E retryable \in BOOLEAN :
             row' = [row EXCEPT ![i] = Failed(Tried(NewRow(FALSE)), retryable)]
        /\ UNCHANGED sent
  /\ UNCHANGED <<channel, target, tx, desk, passed, reopens, changes, faults>>

BecomeDue(i) ==
  /\ Waiting(row[i]) /\ ~row[i].due /\ ~Locked(i)
  /\ row' = [row EXCEPT ![i].due = TRUE]
  /\ UNCHANGED <<channel, target, tx, desk, sent, passed, reopens, changes, faults>>

-----------------------------------------------------------------------------
(* A cycle.                                                                *)

\* (Mutation of Select: no row is locked, and locked rows are not skipped.)
SelectUnlocked(w) ==
  LET batch == {i \in Items : Due(row[i])}
  IN /\ tx[w] = None /\ batch # {}
     /\ tx' = [tx EXCEPT ![w] =
                 [todo |-> batch,
                  copy |-> [i \in (IF channel = "webhook" THEN {} ELSE batch) |-> row[i]],
                  wrote |-> [i \in {} |-> None], locks |-> {},
                  at |-> None, arrived |-> FALSE, seen |-> None, failed |-> FALSE]]
     /\ UNCHANGED <<channel, row, target, desk, sent, passed, reopens, changes, faults>>

Select(w) ==
  LET batch == {i \in Items : Due(row[i]) /\ (channel \in {"teams", "scim", "receipt"} => ~Locked(i))}
  IN /\ tx[w] = None /\ batch # {}
     /\ tx' = [tx EXCEPT ![w] =
                 [todo |-> batch,
                  copy |-> [i \in (IF channel = "webhook" THEN {} ELSE batch) |-> row[i]],
                  wrote |-> [i \in {} |-> None],
                  locks |-> IF channel \in {"teams", "scim", "receipt"} THEN batch ELSE {},
                  at |-> None, arrived |-> FALSE, seen |-> None, failed |-> FALSE]]
     /\ UNCHANGED <<channel, row, target, desk, sent, passed, reopens, changes, faults>>

Uncommitted(w) == tx[w] # None /\ DOMAIN tx[w].wrote # {}

Turn(w, i) ==
  /\ tx[w] # None /\ tx[w].at = None /\ i \in tx[w].todo
  /\ channel = "webhook" => ~Uncommitted(w)

\* A webhook is selected again, and locked, when its turn comes.
Gone(i) == channel = "webhook" /\ (~Due(row[i]) \/ Locked(i))

\* The session is rolled back, and forgets what it has read.
Skip(w, i) ==
  /\ Turn(w, i) /\ Gone(i)
  /\ tx' = [tx EXCEPT ![w].todo = @ \ {i}, ![w].seen = None, ![w].failed = FALSE]
  /\ UNCHANGED <<channel, row, target, desk, sent, passed, reopens, changes, faults>>

\* A session reads its target when this is first needed, and keeps it as long as
\* somebody holds on to it: e-mail and provisioning to the end of the batch, Teams
\* from its first call on.  A webhook cycle lets go of the subscription after each
\* delivery, but the exception of a failed call has it in its frame: until it is
\* collected, the select that locks the subscription returns this object as it is.
Found(w) ==
  CASE channel = "webhook" /\ tx[w].failed -> {target, tx[w].seen}
    [] channel \in {"email", "teams", "scim"} /\ tx[w].seen # None -> {tx[w].seen}
    [] OTHER -> {target}

Lingers(w, t) == tx[w].failed /\ t = tx[w].seen

Usable(t, i) ==
  t.status = "ACTIVE" \/ (channel = "webhook" /\ row[i].test /\ t.status # "REVOKED")

\* The target may not be used: webhooks and receipts wait, without an attempt;
\* a webhook of a revoked subscription is cancelled.
Diverted(r, t) ==
  CASE channel = "webhook" /\ t.status = "REVOKED" -> GivenUp(r)
    [] channel = "webhook" /\ t.status # "REVOKED" -> [r EXCEPT !.due = FALSE]
    [] channel = "receipt" -> Failed(r, TRUE)
    [] channel = "email" -> GivenUp(r)
    [] channel = "teams" -> GivenUp(Tried(r))
    [] channel = "scim" -> Failed(Tried(r), TRUE)

\* A rollback makes the session read its rows again.
Reread(w, now) == [j \in DOMAIN tx[w].copy |-> now[j]]

Put(f, i, r) == [j \in DOMAIN f \cup {i} |-> IF j = i THEN r ELSE f[j]]

Divert(w, i) ==
  /\ Turn(w, i) /\ ~Gone(i) /\ TargetFree
  /\ \E t \in Found(w) :
       /\ ~Usable(t, i)
       /\ IF channel = "receipt"
          THEN /\ row' = [row EXCEPT ![i] = Diverted(@, t)]
               /\ tx' = [tx EXCEPT ![w].todo = @ \ {i}, ![w].locks = {},
                                   ![w].copy = Reread(w, row')]
          ELSE LET web == channel = "webhook"
                   read == IF web THEN row[i] ELSE tx[w].copy[i]
               IN /\ tx' = [tx EXCEPT ![w].todo = @ \ {i},
                                      ![w].wrote = Put(@, i, Diverted(read, t)),
                                      ![w].locks = @ \cup (IF web THEN {i} ELSE {}),
                                      ![w].copy = IF web THEN Put(@, i, read) ELSE @,
                                      ![w].seen = IF channel = "teams" THEN None ELSE t,
                                      ![w].failed = Lingers(w, t)]
                  /\ UNCHANGED row
  /\ UNCHANGED <<channel, target, desk, sent, passed, reopens, changes, faults>>

\* (Mutation of Begin: a webhook is sent as it was when the batch was selected.)
BeginUnread(w, i) ==
  /\ Turn(w, i) /\ ~Gone(i) /\ Usable(target, i) /\ TargetFree
  /\ tx' = [tx EXCEPT ![w].todo = @ \ {i}, ![w].at = i]
  /\ UNCHANGED <<channel, row, target, desk, sent, passed, reopens, changes, faults>>

\* An attempt begins.  A receipt is marked as being processed by a commit, from
\* the copy of the batch; the others keep it to themselves.
Begin(w, i) ==
  /\ Turn(w, i) /\ ~Gone(i) /\ TargetFree
  /\ \E t \in Found(w) :
       /\ Usable(t, i)
       /\ CASE channel = "receipt" ->
                 /\ row' = [row EXCEPT ![i] =
                              Write(@, tx[w].copy[i], [Tried(tx[w].copy[i]) EXCEPT !.status = "PROCESSING"])]
                 /\ tx' = [tx EXCEPT ![w].todo = @ \ {i}, ![w].at = i, ![w].locks = {}]
            [] channel = "webhook" ->
                 /\ tx' = [tx EXCEPT ![w].todo = @ \ {i}, ![w].at = i, ![w].locks = {i},
                                     ![w].copy = Put(@, i, row[i]),
                                     ![w].seen = t, ![w].failed = Lingers(w, t)]
                 /\ UNCHANGED row
            [] OTHER ->
                 tx' = [tx EXCEPT ![w].todo = @ \ {i}, ![w].at = i, ![w].seen = t] /\ UNCHANGED row
  /\ UNCHANGED <<channel, target, desk, sent, passed, reopens, changes, faults>>

At(w) == tx[w] # None /\ tx[w].at # None

\* The call reaches the other side, and cannot be taken back; the events of a
\* receipt are committed one by one, and recognised when they come again.
Arrive(w) ==
  /\ At(w) /\ ~tx[w].arrived /\ channel # "scim"
  /\ sent' = [sent EXCEPT ![tx[w].at] = IF channel = "receipt" THEN 1 ELSE @ + 1]
  /\ tx' = [tx EXCEPT ![w].arrived = TRUE]
  /\ UNCHANGED <<channel, row, target, desk, passed, reopens, changes, faults>>

\* (Mutation of Settle: a call without an answer counts as success.)
SettleBlind(w, ok, retryable) ==
  /\ At(w) /\ ok /\ retryable
  /\ LET i == tx[w].at
     IN IF channel = "receipt"
        THEN /\ row' = [row EXCEPT ![i] = Done(@)]
             /\ tx' = [tx EXCEPT ![w].at = None, ![w].arrived = FALSE]
        ELSE /\ tx' = [tx EXCEPT ![w].at = None, ![w].arrived = FALSE,
                                 ![w].wrote = Put(@, i, Done(Tried(tx[w].copy[i])))]
             /\ UNCHANGED row
  /\ UNCHANGED <<channel, target, desk, sent, passed, reopens, changes, faults>>

\* The answer: success, or an error, which may also come after the arrival.
Settle(w, ok, retryable) ==
  /\ At(w)
  /\ ok => tx[w].arrived \/ channel = "scim"
  /\ tx[w].arrived => ok \/ retryable
  /\ LET i == tx[w].at
         Outcome(r) == IF ok THEN Done(r) ELSE Failed(r, retryable)
     IN IF channel = "receipt"
        THEN /\ row' = [row EXCEPT ![i] = Outcome(@)]
             /\ tx' = [tx EXCEPT ![w].at = None, ![w].arrived = FALSE,
                                 ![w].copy = IF ok THEN @ ELSE Reread(w, row')]
        ELSE /\ tx' = [tx EXCEPT ![w].at = None,
                                 ![w].wrote = Put(@, i, Outcome(Tried(tx[w].copy[i]))),
                                 ![w].arrived = FALSE,
                                 ![w].failed = @ \/ (channel = "webhook" /\ ~ok)]
             /\ UNCHANGED row
  /\ UNCHANGED <<channel, target, desk, sent, passed, reopens, changes, faults>>

\* Webhooks are committed one by one, the others when the batch is through.  A
\* successful test marks the version of the session as tested, in the columns
\* that this changes.
Commit(w) ==
  /\ Uncommitted(w) /\ tx[w].at = None
  /\ channel # "webhook" => tx[w].todo = {}
  /\ LET new == tx[w].wrote
         seen == tx[w].seen
         Succeeds(i) == i \in DOMAIN new /\ new[i].status = "DONE"
         passes == channel = "webhook" /\ \E i \in Items : Succeeds(i) /\ new[i].test
         kept == IF passes THEN [seen EXCEPT !.tested = seen.version] ELSE seen
     IN /\ row' = [i \in Items |-> IF i \in DOMAIN new THEN Write(row[i], tx[w].copy[i], new[i])
                                   ELSE row[i]]
        /\ sent' = [i \in Items |-> IF channel = "scim" /\ Succeeds(i) THEN sent[i] + 1 ELSE sent[i]]
        /\ target' = IF passes THEN Write(target, seen, kept) ELSE target
        /\ passed' = IF passes THEN passed \cup {seen.version} ELSE passed
        /\ tx' = [tx EXCEPT ![w].wrote = [i \in {} |-> None], ![w].locks = {},
                            ![w].copy = IF channel = "webhook" THEN [i \in {} |-> None] ELSE @,
                            ![w].seen = IF channel # "webhook" THEN @
                                        ELSE IF tx[w].failed THEN kept ELSE None]
  /\ UNCHANGED <<channel, desk, reopens, changes, faults>>

Finish(w) ==
  /\ tx[w] # None /\ tx[w].todo = {} /\ tx[w].at = None /\ ~Uncommitted(w)
  /\ tx' = [tx EXCEPT ![w] = None]
  /\ UNCHANGED <<channel, row, target, desk, sent, passed, reopens, changes, faults>>

\* The process dies, or the cycle is rolled back by an exception.
Abort(w) ==
  /\ tx[w] # None /\ Upset /\ faults' = faults + 1
  /\ tx' = [tx EXCEPT ![w] = None]
  /\ UNCHANGED <<channel, row, target, desk, sent, passed, reopens, changes>>

-----------------------------------------------------------------------------
(* Retries by hand.                                                        *)

Retryable(r) ==
  CASE channel = "email" -> r.status # "DONE"
    [] channel = "scim" -> r.status \in {"RETRY", "GIVEN_UP"}
    [] OTHER -> r.status = "GIVEN_UP"

\* The request reads the row, without a lock, and looks at its status.
Open(c, i) ==
  /\ channel # "webhook" /\ desk[c] = None
  /\ row[i] # None /\ Retryable(row[i]) /\ target.status = "ACTIVE"
  /\ Upset /\ reopens' = reopens + 1
  /\ desk' = [desk EXCEPT ![c] = [item |-> i, copy |-> row[i]]]
  /\ UNCHANGED <<channel, row, target, tx, sent, passed, changes, faults>>

\* An e-mail whose attempts are used up is allowed one more; Teams cards and
\* receipts begin again.
Requeued(r) ==
  IF channel = "email"
  THEN [r EXCEPT !.status = "QUEUED", !.due = TRUE,
                 !.limit = IF r.tries >= @ THEN r.tries + 1 ELSE @]
  ELSE [r EXCEPT !.status = IF channel = "teams" THEN "RETRY" ELSE "QUEUED", !.due = TRUE, !.tries = 0]

Reopen(c) ==
  /\ channel # "scim" /\ desk[c] # None /\ ~Locked(desk[c].item)
  /\ LET i == desk[c].item
     IN row' = [row EXCEPT ![i] = Write(@, desk[c].copy, Requeued(desk[c].copy))]
  /\ desk' = [desk EXCEPT ![c] = None]
  /\ UNCHANGED <<channel, target, tx, sent, passed, reopens, changes, faults>>

\* A provisioning event is applied by the request itself.
Reapply(c) ==
  /\ channel = "scim" /\ desk[c] # None /\ ~Locked(desk[c].item)
  /\ LET i == desk[c].item
         read == desk[c].copy
     IN \/ /\ row' = [row EXCEPT ![i] = Write(@, read, Done(Tried(read)))]
           /\ sent' = [sent EXCEPT ![i] = @ + 1]
        \/ /\ \E retryable \in BOOLEAN :
                row' = [row EXCEPT ![i] = Write(@, read, Failed(Tried(read), retryable))]
           /\ UNCHANGED sent
  /\ desk' = [desk EXCEPT ![c] = None]
  /\ UNCHANGED <<channel, target, tx, passed, reopens, changes, faults>>

\* A webhook delivery is replayed as a new item, under a lock of the old one.
ReplayDelivery(i, j) ==
  /\ channel = "webhook" /\ target.status = "ACTIVE"
  /\ row[i] # None /\ Retryable(row[i]) /\ ~Locked(i) /\ row[j] = None /\ HasRoom
  /\ Upset /\ reopens' = reopens + 1
  /\ row' = [row EXCEPT ![j] = NewRow(row[i].test)]
  /\ UNCHANGED <<channel, target, tx, desk, sent, passed, changes, faults>>

\* The mail server reports an accepted message as undeliverable.
Bounce(i) ==
  /\ channel = "email" /\ row[i] # None /\ sent[i] > 0 /\ row[i].status # "GIVEN_UP"
  /\ row' = [row EXCEPT ![i] = GivenUp(@)]
  /\ UNCHANGED <<channel, target, tx, desk, sent, passed, reopens, changes, faults>>

-----------------------------------------------------------------------------
(* Changes of the target.                                                  *)

\* (Mutation of Change: the lock of the subscription is not waited for.)
ChangeNow(new) ==
  /\ Upset /\ changes' = changes + 1
  /\ target.status # "REVOKED"
  /\ target' = new /\ new # target
  /\ UNCHANGED <<channel, row, tx, desk, sent, passed, reopens, faults>>

Change(new) ==
  /\ Upset /\ changes' = changes + 1
  /\ target.status # "REVOKED" /\ TargetFree
  /\ target' = new /\ new # target
  /\ UNCHANGED <<channel, row, tx, desk, sent, passed, reopens, faults>>

\* A webhook subscription is activated only when its present target and secret
\* have been tested; revocation is final.
SetStatus(status) ==
  /\ status = "ACTIVE" => target.tested = target.version
  /\ Change([target EXCEPT !.status = status])

\* A new target or secret pauses the subscription, and is not tested.
Rotate ==
  /\ channel = "webhook"
  /\ Change([status |-> "PAUSED", version |-> target.version + 1, tested |-> 0])

-----------------------------------------------------------------------------

CycleStep(w) ==
  \/ Select(w) \/ Commit(w) \/ Finish(w) \/ Arrive(w)
  \/ \E i \in Items : Skip(w, i) \/ Divert(w, i) \/ Begin(w, i)
  \/ \E ok \in BOOLEAN, retryable \in BOOLEAN : Settle(w, ok, retryable)

Next ==
  \/ \E i \in Items : Queue(i) \/ Provision(i) \/ BecomeDue(i) \/ Bounce(i)
  \/ \E i, j \in Items : ReplayDelivery(i, j)
  \/ \E w \in Workers : CycleStep(w) \/ Abort(w)
  \/ \E c \in Clerks : (\E i \in Items : Open(c, i)) \/ Reopen(c) \/ Reapply(c)
  \/ \E status \in {"PAUSED", "ACTIVE", "REVOKED"} : SetStatus(status)
  \/ Rotate

Spec == Init /\ [][Next]_vars

-----------------------------------------------------------------------------
(* Properties.                                                             *)

\* Every table keeps the promise of DeliveryPromise.
Promise == INSTANCE DeliveryPromise WITH
  arrivals <- sent,
  state <- [i \in Items |->
              IF row[i] = None THEN "none"
              ELSE CASE row[i].status = "DONE" -> "done"
                     [] row[i].status = "GIVEN_UP" -> "given_up"
                     [] OTHER -> "waiting"]

KeepsPromise == Promise!Spec

\* Where the row lock is held to the commit, an item is not sent more often than
\* its budget, the retries by hand and the attempts that died account for.
AttemptBudget ==
  channel \in {"webhook", "teams"} =>
    \A i \in Items : sent[i] <= Limit * (1 + reopens) + faults

\* A webhook is called, tests apart, only with a target and a secret that have
\* passed a test, of a subscription that was active; they are the present ones,
\* for a change has to wait for the call, unless an earlier call of the same cycle
\* has failed.
CallsAreCurrent ==
  [][\A i \in Items :
       channel = "webhook" /\ sent'[i] > sent[i] /\ ~row[i].test =>
       \E w \in Workers :
         /\ At(w) /\ tx[w].at = i
         /\ tx[w].seen.status = "ACTIVE" /\ tx[w].seen.version \in passed
         /\ \/ target.status = "ACTIVE" /\ target.version = tx[w].seen.version
            \/ tx[w].failed]_vars

=============================================================================
