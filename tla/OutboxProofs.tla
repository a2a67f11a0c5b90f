----------------------------- MODULE OutboxProofs -----------------------------
(***************************************************************************)
(* Proofs about Outbox, for every set of channels, items, cycles, clerks   *)
(* and every number of attempts.                                           *)
(*                                                                         *)
(* The promise and the budget are not inductive: both are about what has   *)
(* been committed, and a cycle works on copies.  The inductive invariant   *)
(* adds what the copies have to do with the rows:                          *)
(*                                                                         *)
(*   Known    an item of which somebody has a copy has a row, and a        *)
(*            webhook that is being called a target                        *)
(*   Earned   a row, or a result not committed yet, says done only of an   *)
(*            item that has arrived (a provisioning event: arrives with    *)
(*            the commit)                                                  *)
(*   Tested   a call of a webhook under way holds the lock, and the        *)
(*            subscription in its session is the present one, unless a     *)
(*            failed call has kept it there; an active one has passed a    *)
(*            test, in the table and in every session                      *)
(*   Held     what a webhook or Teams cycle has not committed is locked,   *)
(*            by it alone, and the locked rows are as it has read them     *)
(*   Charged  every arrival is accounted for by a committed attempt, the   *)
(*            attempt of the cycle that holds the lock, a retry by hand    *)
(*            or a fault                                                   *)
(***************************************************************************)
EXTENDS Outbox, FiniteSetTheorems, TLAPS

Batches == UNION {[S -> Rows] : S \in SUBSET Items}

Typed ==
  /\ row \in [Items -> Rows \cup {None}]
  /\ tx \in [Workers -> Cycles \cup {None}]
  /\ reopens \in Nat /\ changes \in Nat /\ faults \in Nat

KnownCopies ==
  \A w \in Workers : tx[w] # None =>
    \A i \in DOMAIN tx[w].copy :
      /\ row[i] # None
      /\ tx[w].copy[i].test = row[i].test
      /\ i \in DOMAIN tx[w].wrote => tx[w].wrote[i].test = row[i].test

KnownDesk ==
  \A c \in Clerks : desk[c] # None =>
    row[desk[c].item] # None /\ desk[c].copy.test = row[desk[c].item].test

KnownSent == \A i \in Items : sent[i] > 0 => row[i] # None

SeenOK(t) == t.at # None \/ DOMAIN t.wrote # {} \/ t.failed => t.seen # None

KnownSeen == channel = "webhook" => \A w \in Workers : tx[w] # None => SeenOK(tx[w])

Known == KnownCopies /\ KnownDesk /\ KnownSent /\ KnownSeen

EarnedRows == \A i \in Items : row[i] # None /\ row[i].status = "DONE" => sent[i] > 0

EarnedCycles ==
  \A w \in Workers : tx[w] # None =>
    /\ tx[w].arrived => tx[w].at # None /\ sent[tx[w].at] > 0
    /\ \A i \in DOMAIN tx[w].wrote :
         tx[w].wrote[i].status = "DONE" => sent[i] > 0 \/ channel = "scim"

EarnedOnce == channel = "receipt" => \A i \in Items : sent[i] <= 1

Earned == EarnedRows /\ EarnedCycles /\ EarnedOnce

TestedTarget ==
  /\ target.version > 0 /\ target.tested \in passed \cup {0}
  /\ target.status = "ACTIVE" => target.version \in passed

SeenTested(t) == t.seen # None /\ t.seen.status = "ACTIVE" => t.seen.version \in passed

SeenPresent(t) == t.seen.status = target.status /\ t.seen.version = target.version

CallTested(t) ==
  t.at # None =>
    /\ t.locks # {}
    /\ row[t.at].test \/ t.seen.status = "ACTIVE"
    /\ SeenPresent(t) \/ t.failed

TestedCycles ==
  channel = "webhook" =>
    \A w \in Workers : tx[w] # None => SeenTested(tx[w]) /\ CallTested(tx[w])

Tested == TestedTarget /\ TestedCycles

\* The attempt of a cycle at an item that its commit, or its death, will account for.
Attempt(w, i) ==
  /\ tx[w] # None
  /\ \/ tx[w].at = i /\ tx[w].arrived
     \/ i \in DOMAIN tx[w].wrote /\ tx[w].wrote[i].tries > tx[w].copy[i].tries

Budgeted(r) ==
  /\ r.limit = Limit /\ r.tries <= Limit
  /\ r.status \in {"QUEUED", "RETRY"} => r.tries < Limit
  /\ channel = "teams" /\ r.status = "GIVEN_UP" => r.tries > 0

\* A copy that the cycle works on, and a result it has not committed.
Fresh(r) == r.status \in {"QUEUED", "RETRY"} /\ Budgeted(r)

ResultOf(new, r) == Budgeted(new) /\ new.tries \in {r.tries, r.tries + 1}

LocksHeld(t) ==
  /\ t.at # None => t.at \in t.locks /\ t.at \notin DOMAIN t.wrote /\ t.at \notin t.todo
  /\ DOMAIN t.wrote \subseteq t.locks
  /\ channel = "teams" => t.todo \subseteq t.locks /\ t.todo \cap DOMAIN t.wrote = {}
  /\ \A i \in t.locks : i \in DOMAIN t.copy /\ row[i] = t.copy[i]
  /\ \A i \in DOMAIN t.copy : Fresh(t.copy[i])
  /\ \A i \in DOMAIN t.wrote : ResultOf(t.wrote[i], t.copy[i])

HeldRows == \A i \in Items : row[i] # None => Budgeted(row[i])

HeldLocks == \A w \in Workers : tx[w] # None => LocksHeld(tx[w])

HeldApart ==
  \A v, w \in Workers : v # w /\ tx[v] # None /\ tx[w] # None => tx[v].locks \cap tx[w].locks = {}

HeldDesk ==
  \A c \in Clerks : desk[c] # None =>
    channel = "teams" /\ Budgeted(desk[c].copy) /\ desk[c].copy.status = "GIVEN_UP"

Held ==
  channel \in {"webhook", "teams"} => HeldRows /\ HeldLocks /\ HeldApart /\ HeldDesk

AtDesk == {c \in Clerks : desk[c] # None}

Tries(i) == IF row[i] = None THEN 0 ELSE row[i].tries
Pending(i) == \E w \in Workers : Attempt(w, i)
Spent(i) == Tries(i) + (IF Pending(i) THEN 1 ELSE 0)

\* A row on a desk has been charged for, but does not have its attempts yet.
Account(i) == sent[i] + Limit * Cardinality(AtDesk) <= Limit * reopens + Spent(i) + faults

Charged ==
  channel \in {"webhook", "teams"} => IsFiniteSet(AtDesk) /\ \A i \in Items : Account(i)

-----------------------------------------------------------------------------
(* Rows.                                                                   *)

\* What an UPDATE leaves of a row, column by column.
LEMMA WriteRow ==
  ASSUME NEW r \in Rows, NEW read \in Rows, NEW new \in Rows
  PROVE  /\ Write(r, read, new) \in Rows
         /\ Write(r, read, new).status = IF new.status = read.status THEN r.status ELSE new.status
         /\ Write(r, read, new).tries = IF new.tries = read.tries THEN r.tries ELSE new.tries
         /\ Write(r, read, new).limit = IF new.limit = read.limit THEN r.limit ELSE new.limit
         /\ Write(r, read, new).test = IF new.test = read.test THEN r.test ELSE new.test
<1>1. DOMAIN r = {"status", "tries", "limit", "due", "test"}
  BY DEF Rows
<1>2. Write(r, read, new) =
        [status |-> IF new.status = read.status THEN r.status ELSE new.status,
         tries |-> IF new.tries = read.tries THEN r.tries ELSE new.tries,
         limit |-> IF new.limit = read.limit THEN r.limit ELSE new.limit,
         due |-> IF new.due = read.due THEN r.due ELSE new.due,
         test |-> IF new.test = read.test THEN r.test ELSE new.test]
  BY <1>1 DEF Write
<1> QED  BY <1>2 DEF Rows

\* A row that is still as it was read becomes what is written.
LEMMA WriteUnchanged ==
  ASSUME NEW r \in Rows, NEW new \in Rows
  PROVE  Write(r, r, new) = new
<1>1. Write(r, r, new) \in Rows
  BY WriteRow
<1>2. \A f \in {"status", "tries", "limit", "due", "test"} : Write(r, r, new)[f] = new[f]
  BY DEF Write, Rows
<1> QED  BY <1>1, <1>2 DEF Rows

\* The results of an attempt are rows, and keep the test flag.
LEMMA RowSteps ==
  ASSUME NEW r \in Rows
  PROVE  /\ Tried(r) \in Rows /\ Tried(r).test = r.test /\ Tried(r).status = r.status
         /\ Tried(r).tries = r.tries + 1 /\ Tried(r).limit = r.limit
         /\ Done(r) \in Rows /\ Done(r).test = r.test /\ Done(r).status = "DONE"
         /\ Done(r).tries = r.tries /\ Done(r).limit = r.limit
         /\ GivenUp(r) \in Rows /\ GivenUp(r).test = r.test /\ GivenUp(r).status = "GIVEN_UP"
         /\ GivenUp(r).tries = r.tries /\ GivenUp(r).limit = r.limit
<1>1. /\ Tried(r) \in Rows /\ Tried(r).test = r.test /\ Tried(r).status = r.status
      /\ Tried(r).tries = r.tries + 1 /\ Tried(r).limit = r.limit
  BY DEF Tried, Rows
<1>2. /\ Done(r) \in Rows /\ Done(r).test = r.test /\ Done(r).status = "DONE"
      /\ Done(r).tries = r.tries /\ Done(r).limit = r.limit
  BY DEF Done, Rows
<1>3. /\ GivenUp(r) \in Rows /\ GivenUp(r).test = r.test /\ GivenUp(r).status = "GIVEN_UP"
      /\ GivenUp(r).tries = r.tries /\ GivenUp(r).limit = r.limit
  BY DEF GivenUp, Rows
<1> QED  BY <1>1, <1>2, <1>3

\* A row after a failure, whatever the failure.
IsFailureOf(f, r) ==
  /\ f \in Rows /\ f.test = r.test /\ f.tries = r.tries /\ f.limit = r.limit
  /\ f.status \in {"RETRY", "GIVEN_UP"}
  /\ f.status = "RETRY" => r.tries < r.limit

LEMMA FailedRow ==
  ASSUME NEW r \in Rows, NEW retryable
  PROVE  IsFailureOf(Failed(r, retryable), r)
<1> DEFINE again == [r EXCEPT !.status = "RETRY", !.due = FALSE]
<1>1. /\ again \in Rows /\ again.test = r.test /\ again.status = "RETRY"
      /\ again.tries = r.tries /\ again.limit = r.limit
  BY DEF Rows
<1>2. IsFailureOf(GivenUp(r), r)
  BY RowSteps DEF IsFailureOf
<1>3. r.tries < r.limit => IsFailureOf(again, r)
  BY <1>1 DEF IsFailureOf
<1>4. CASE retryable /\ r.tries < r.limit
  <2>1. Failed(r, retryable) = again
    BY <1>4 DEF Failed
  <2> QED BY <1>3, <1>4, <2>1
<1>5. CASE ~(retryable /\ r.tries < r.limit)
  <2>1. Failed(r, retryable) = GivenUp(r)
    BY <1>5 DEF Failed
  <2> QED BY <1>2, <2>1
<1> QED  BY <1>4, <1>5

LEMMA NewRows ==
  ASSUME NEW test \in BOOLEAN
  PROVE  /\ NewRow(test) \in Rows /\ NewRow(test).test = test /\ NewRow(test).status = "QUEUED"
         /\ NewRow(test).tries = 0 /\ NewRow(test).limit = Limit
BY OutboxAssumption DEF NewRow, Rows

LEMMA RequeuedRow ==
  ASSUME NEW r \in Rows
  PROVE  /\ Requeued(r) \in Rows /\ Requeued(r).test = r.test
         /\ Requeued(r).status \in {"QUEUED", "RETRY"}
         /\ channel = "teams" => Requeued(r).tries = 0 /\ Requeued(r).limit = r.limit
<1> DEFINE more == IF r.tries >= r.limit THEN r.tries + 1 ELSE r.limit
           mail == [r EXCEPT !.status = "QUEUED", !.due = TRUE, !.limit = more]
           card == [r EXCEPT !.status = IF channel = "teams" THEN "RETRY" ELSE "QUEUED",
                             !.due = TRUE, !.tries = 0]
<1>0. more \in Nat
  BY DEF Rows
<1>1. mail \in Rows /\ mail.test = r.test /\ mail.status = "QUEUED"
  <2> HIDE DEF more
  <2> QED BY <1>0 DEF Rows
<1>2. card \in Rows /\ card.test = r.test /\ card.status \in {"QUEUED", "RETRY"}
      /\ card.tries = 0 /\ card.limit = r.limit
  BY DEF Rows
<1>3. Requeued(r) = IF channel = "email" THEN mail ELSE card
  BY DEF Requeued
<1> QED  BY <1>1, <1>2, <1>3

IsDiversionOf(f, r) == \E t : f = Diverted(r, t)

LEMMA DivertedRow ==
  ASSUME TypeOK, NEW r \in Rows, NEW f, IsDiversionOf(f, r)
  PROVE  /\ f \in Rows /\ f.test = r.test
         /\ f.status # "DONE" \/ f.status = r.status
         /\ channel # "webhook" => f.status # "DONE"
<1>1. Tried(r) \in Rows /\ Tried(r).test = r.test
  BY RowSteps
<1>2. channel \in {"webhook", "email", "teams", "scim", "receipt"}
  BY OutboxAssumption DEF TypeOK
<1>3. PICK t : f = Diverted(r, t)
  BY DEF IsDiversionOf
<1>4. CASE channel = "webhook"
  <2>1. [r EXCEPT !.due = FALSE] \in Rows
    BY DEF Rows
  <2>2. CASE t.status = "REVOKED"
    <3>1. f = GivenUp(r)
      BY <1>3, <1>4, <2>2 DEF Diverted
    <3> QED BY <1>4, <3>1, RowSteps
  <2>3. CASE t.status # "REVOKED"
    <3>1. f = [r EXCEPT !.due = FALSE]
      BY <1>3, <1>4, <2>3 DEF Diverted
    <3> QED BY <1>4, <3>1, <2>1 DEF Rows
  <2> QED BY <2>2, <2>3
<1>5. CASE channel = "receipt"
  <2>1. f = Failed(r, TRUE)
    BY <1>3, <1>5 DEF Diverted
  <2>2. IsFailureOf(Failed(r, TRUE), r)
    BY FailedRow
  <2> QED BY <2>1, <2>2 DEF IsFailureOf
<1>6. CASE channel = "email"
  <2>1. f = GivenUp(r)
    BY <1>3, <1>6 DEF Diverted
  <2> QED BY <2>1, RowSteps
<1>7. CASE channel = "teams"
  <2>1. f = GivenUp(Tried(r))
    BY <1>3, <1>7 DEF Diverted
  <2> QED BY <2>1, <1>1, RowSteps
<1>8. CASE channel = "scim"
  <2>1. f = Failed(Tried(r), TRUE)
    BY <1>3, <1>8 DEF Diverted
  <2>2. IsFailureOf(Failed(Tried(r), TRUE), Tried(r))
    BY <1>1, FailedRow
  <2> QED BY <2>1, <2>2, <1>1 DEF IsFailureOf
<1> QED  BY <1>2, <1>4, <1>5, <1>6, <1>7, <1>8

-----------------------------------------------------------------------------
(* Batches of rows, and cycles.                                            *)

LEMMA BatchIs ==
  ASSUME NEW f
  PROVE  f \in Batches <=> DOMAIN f \subseteq Items /\ f \in [DOMAIN f -> Rows]
BY DEF Batches

CycleRecords ==
  [todo : SUBSET Items, copy : Batches, wrote : Batches, locks : SUBSET Items,
   at : Items \cup {None}, arrived : BOOLEAN, seen : Targets \cup {None}, failed : BOOLEAN]

LEMMA CycleIs == Cycles = CycleRecords
BY DEF Cycles, CycleRecords, Batches

LEMMA PutBatch ==
  ASSUME NEW f \in Batches, NEW i \in Items, NEW r \in Rows
  PROVE  /\ Put(f, i, r) \in Batches
         /\ DOMAIN Put(f, i, r) = DOMAIN f \cup {i}
         /\ Put(f, i, r)[i] = r
         /\ \A j \in DOMAIN f \ {i} : Put(f, i, r)[j] = f[j]
<1>1. DOMAIN f \subseteq Items /\ f \in [DOMAIN f -> Rows]
  BY BatchIs
<1>2. DOMAIN Put(f, i, r) = DOMAIN f \cup {i} /\ Put(f, i, r) \in [DOMAIN f \cup {i} -> Rows]
  BY <1>1 DEF Put
<1>3. Put(f, i, r) \in Batches
  BY <1>1, <1>2, BatchIs
<1> QED  BY <1>2, <1>3 DEF Put

LEMMA NoBatch ==
  /\ [i \in {} |-> None] \in Batches
  /\ DOMAIN [i \in {} |-> None] = {}
<1>1. [i \in {} |-> None] \in [{} -> Rows]
  OBVIOUS
<1> QED  BY <1>1, BatchIs

-----------------------------------------------------------------------------
(* What the steps of a cycle do to it, field by field.                     *)

CycleOK(t) ==
  /\ t \in Cycles
  /\ channel # "webhook" => t.todo \subseteq DOMAIN t.copy
  /\ DOMAIN t.wrote \subseteq DOMAIN t.copy
  /\ t.at # None => t.at \in DOMAIN t.copy

CycleBecomes(w, todo, copy, wrote, locks, at, arrived) ==
  /\ tx' \in [Workers -> Cycles \cup {None}]
  /\ \A v \in Workers \ {w} : tx'[v] = tx[v]
  /\ tx'[w] \in Cycles
  /\ tx'[w].todo = todo /\ tx'[w].copy = copy /\ tx'[w].wrote = wrote
  /\ tx'[w].locks = locks /\ tx'[w].at = at /\ tx'[w].arrived = arrived

LEMMA CycleNow ==
  ASSUME TypeOK, Typed, NEW w \in Workers, tx[w] # None
  PROVE  /\ tx[w] \in CycleRecords
         /\ tx[w].todo \in SUBSET Items /\ tx[w].locks \in SUBSET Items
         /\ tx[w].copy \in Batches /\ tx[w].wrote \in Batches
         /\ tx[w].at \in Items \cup {None} /\ tx[w].arrived \in BOOLEAN
         /\ tx[w].seen \in Targets \cup {None} /\ tx[w].failed \in BOOLEAN
         /\ CycleOK(tx[w])
<1>1. tx[w] \in CycleRecords
  BY CycleIs DEF Typed
<1>2. CycleOK(tx[w])
  BY <1>1, CycleIs DEF CycleOK, TypeOK
<1> QED  BY <1>1, <1>2 DEF CycleRecords

LEMMA SelectEffect ==
  ASSUME TypeOK, Typed, NEW w \in Workers, Select(w)
  PROVE  \E batch \in SUBSET {i \in Items : Due(row[i])}, copy \in Batches :
           /\ DOMAIN copy = IF channel = "webhook" THEN {} ELSE batch
           /\ \A i \in DOMAIN copy : copy[i] = row[i]
           /\ channel \in {"teams", "scim", "receipt"} => \A i \in batch : ~Locked(i)
           /\ CycleBecomes(w, batch, copy, [i \in {} |-> None],
                           IF channel \in {"teams", "scim", "receipt"} THEN batch ELSE {},
                           None, FALSE)
<1> DEFINE batch == {i \in Items : Due(row[i]) /\ (channel \in {"teams", "scim", "receipt"} => ~Locked(i))}
           few == IF channel = "webhook" THEN {} ELSE batch
           copy == [i \in few |-> row[i]]
           held == IF channel \in {"teams", "scim", "receipt"} THEN batch ELSE {}
           t == [todo |-> batch, copy |-> copy, wrote |-> [i \in {} |-> None], locks |-> held,
                 at |-> None, arrived |-> FALSE, seen |-> None, failed |-> FALSE]
<1>1. batch \in SUBSET {i \in Items : Due(row[i])} /\ batch \in SUBSET Items /\ held \in SUBSET Items
  OBVIOUS
<1>2. \A i \in batch : row[i] \in Rows
  BY DEF Typed, Due, Waiting
<1>3. copy \in Batches /\ DOMAIN copy = few
  <2>1. copy \in [few -> Rows]
    BY <1>2
  <2> QED BY <1>1, <2>1, BatchIs
<1>4. t \in Cycles
  <2> HIDE DEF batch, copy, held
  <2> QED BY <1>1, <1>3, CycleIs, NoBatch DEF CycleRecords
<1>5. tx' = [tx EXCEPT ![w] = t]
  BY DEF Select
<1>6. CycleBecomes(w, batch, copy, [i \in {} |-> None], held, None, FALSE)
  <2>1. tx' \in [Workers -> Cycles \cup {None}] /\ tx'[w] = t /\ \A v \in Workers \ {w} : tx'[v] = tx[v]
    <3> HIDE DEF t
    <3> QED BY <1>4, <1>5 DEF Typed
  <2>2. /\ t.todo = batch /\ t.copy = copy /\ t.wrote = [i \in {} |-> None]
        /\ t.locks = held /\ t.at = None /\ t.arrived = FALSE
    <3> HIDE DEF batch, copy, held
    <3> QED OBVIOUS
  <2> HIDE DEF t
  <2> QED BY <1>4, <2>1, <2>2 DEF CycleBecomes
<1>7. channel \in {"teams", "scim", "receipt"} => \A i \in batch : ~Locked(i)
  OBVIOUS
<1> HIDE DEF batch, t
<1> QED  BY <1>1, <1>3, <1>6, <1>7

LEMMA SkipEffect ==
  ASSUME TypeOK, Typed, NEW w \in Workers, NEW i \in Items, Skip(w, i)
  PROVE  CycleBecomes(w, tx[w].todo \ {i}, tx[w].copy, tx[w].wrote, tx[w].locks, None, tx[w].arrived)
<1>1. /\ tx[w] # None /\ tx[w].at = None
      /\ tx' = [tx EXCEPT ![w].todo = @ \ {i}, ![w].seen = None, ![w].failed = FALSE]
  BY DEF Skip, Turn
<1>2. [tx[w] EXCEPT !.todo = @ \ {i}, !.seen = None, !.failed = FALSE] \in Cycles
  BY <1>1, CycleNow, CycleIs DEF CycleRecords
<1> QED  BY <1>1, <1>2, CycleNow DEF CycleBecomes, CycleRecords, Typed

LEMMA ArriveEffect ==
  ASSUME TypeOK, Typed, NEW w \in Workers, Arrive(w)
  PROVE  CycleBecomes(w, tx[w].todo, tx[w].copy, tx[w].wrote, tx[w].locks, tx[w].at, TRUE)
<1>1. tx[w] # None /\ tx' = [tx EXCEPT ![w].arrived = TRUE]
  BY DEF Arrive, At
<1>2. [tx[w] EXCEPT !.arrived = TRUE] \in Cycles
  BY <1>1, CycleNow, CycleIs DEF CycleRecords
<1> QED  BY <1>1, <1>2, CycleNow DEF CycleBecomes, CycleRecords, Typed

\* No step removes a row, or turns a test delivery into another one.
RowsKept ==
  /\ row' \in [Items -> Rows \cup {None}]
  /\ \A i \in Items : row[i] # None => row'[i] # None /\ row'[i].test = row[i].test

LEMMA OneRow ==
  ASSUME Typed, NEW i \in Items, NEW r \in Rows, row[i] # None => r.test = row[i].test,
         row' = [row EXCEPT ![i] = r]
  PROVE  /\ RowsKept /\ row'[i] = r /\ row'[i] # None
         /\ \A j \in Items \ {i} : row'[j] = row[j]
BY NoneAssumption DEF Typed, RowsKept

LEMMA NoRow ==
  ASSUME Typed, row' = row
  PROVE  RowsKept
BY DEF Typed, RowsKept

\* What a cycle has copied is a row, and of a known item.
LEMMA CopyKnown ==
  ASSUME TypeOK, Typed, Known, NEW w \in Workers, tx[w] # None, NEW i \in DOMAIN tx[w].copy
  PROVE  /\ i \in Items /\ tx[w].copy[i] \in Rows /\ row[i] \in Rows
         /\ tx[w].copy[i].test = row[i].test
<1>1. tx[w].copy \in Batches
  BY CycleNow
<1>2. i \in Items /\ tx[w].copy[i] \in Rows
  BY <1>1, BatchIs
<1> QED  BY <1>2 DEF Typed, Known, KnownCopies

LEMMA RereadBatch ==
  ASSUME TypeOK, Typed, Known, NEW w \in Workers, tx[w] # None, RowsKept
  PROVE  /\ Reread(w, row') \in Batches
         /\ DOMAIN Reread(w, row') = DOMAIN tx[w].copy
         /\ \A j \in DOMAIN tx[w].copy : Reread(w, row')[j] = row'[j]
<1>1. \A j \in DOMAIN tx[w].copy : j \in Items /\ row'[j] \in Rows
  BY CopyKnown, NoneAssumption DEF RowsKept
<1>2. Reread(w, row') \in [DOMAIN tx[w].copy -> Rows]
  BY <1>1 DEF Reread
<1> QED  BY <1>1, <1>2, BatchIs DEF Reread

\* What a session may find is a target, if it has found one at all.
LEMMA FoundTyped ==
  ASSUME TypeOK, Typed, NEW w \in Workers, tx[w] # None, NEW t \in Found(w)
  PROVE  t \in Targets \cup {None}
BY CycleNow DEF Found, TypeOK

LEMMA BeginEffect ==
  ASSUME TypeOK, Typed, Known, NEW w \in Workers, NEW i \in Items, Begin(w, i)
  PROVE  /\ tx[w] # None /\ tx[w].at = None /\ i \in tx[w].todo
         /\ channel = "receipt" =>
              /\ \E r \in Rows : /\ row' = [row EXCEPT ![i] = r] /\ r.test = row[i].test
                                 /\ r.status = "DONE" => row[i].status = "DONE"
              /\ CycleBecomes(w, tx[w].todo \ {i}, tx[w].copy, tx[w].wrote, {}, i, tx[w].arrived)
         /\ channel = "webhook" =>
              /\ row[i] \in Rows /\ Waiting(row[i]) /\ row' = row
              /\ CycleBecomes(w, tx[w].todo \ {i}, Put(tx[w].copy, i, row[i]), tx[w].wrote, {i}, i,
                              tx[w].arrived)
         /\ channel \notin {"receipt", "webhook"} =>
              /\ row' = row
              /\ CycleBecomes(w, tx[w].todo \ {i}, tx[w].copy, tx[w].wrote, tx[w].locks, i, tx[w].arrived)
<1>1. tx[w] # None /\ tx[w].at = None /\ i \in tx[w].todo
  BY DEF Begin, Turn
<1>2. tx[w].todo \ {i} \in SUBSET Items
  BY <1>1, CycleNow
<1>3. CASE channel = "receipt"
  <2>1. i \in DOMAIN tx[w].copy
    BY <1>1, <1>3, CycleNow DEF CycleOK
  <2>2. tx[w].copy[i] \in Rows /\ row[i] \in Rows /\ tx[w].copy[i].test = row[i].test
    BY <1>1, <2>1, CopyKnown
  <2> DEFINE marked == [Tried(tx[w].copy[i]) EXCEPT !.status = "PROCESSING"]
             r == Write(row[i], tx[w].copy[i], marked)
  <2>3. marked \in Rows /\ marked.test = row[i].test /\ marked.status = "PROCESSING"
    <3>1. Tried(tx[w].copy[i]) \in Rows /\ Tried(tx[w].copy[i]).test = row[i].test
      BY <2>2, RowSteps
    <3> QED BY <3>1 DEF Rows
  <2>4. r \in Rows /\ r.test = row[i].test /\ (r.status = "DONE" => row[i].status = "DONE")
    <3> HIDE DEF marked
    <3> QED BY <2>2, <2>3, WriteRow
  <2>5. row' = [row EXCEPT ![i] = r]
    BY <1>3 DEF Begin
  <2>6. tx' = [tx EXCEPT ![w].todo = @ \ {i}, ![w].at = i, ![w].locks = {}]
    BY <1>3 DEF Begin
  <2>7. [tx[w] EXCEPT !.todo = @ \ {i}, !.at = i, !.locks = {}] \in Cycles
    BY <1>1, <1>2, CycleNow, CycleIs DEF CycleRecords
  <2>8. CycleBecomes(w, tx[w].todo \ {i}, tx[w].copy, tx[w].wrote, {}, i, tx[w].arrived)
    BY <1>1, <2>6, <2>7, CycleNow DEF CycleBecomes, CycleRecords, Typed
  <2> HIDE DEF r
  <2> QED BY <1>1, <1>3, <2>4, <2>5, <2>8
<1>4. CASE channel = "webhook"
  <2>1. row[i] \in Rows /\ Waiting(row[i]) /\ i \in Items
    BY <1>4 DEF Begin, Gone, Due, Waiting, Typed
  <2> DEFINE copy == Put(tx[w].copy, i, row[i])
  <2>2. PICK t \in Found(w) :
          /\ tx' = [tx EXCEPT ![w].todo = @ \ {i}, ![w].at = i, ![w].locks = {i}, ![w].copy = copy,
                              ![w].seen = t, ![w].failed = Lingers(w, t)]
          /\ row' = row
    BY <1>4 DEF Begin
  <2>3. copy \in Batches
    BY <1>1, <2>1, CycleNow, PutBatch
  <2>4. t \in Targets \cup {None} /\ Lingers(w, t) \in BOOLEAN
    BY <1>1, FoundTyped, CycleNow DEF Lingers
  <2> HIDE DEF copy
  <2>5. [tx[w] EXCEPT !.todo = @ \ {i}, !.at = i, !.locks = {i}, !.copy = copy,
                      !.seen = t, !.failed = Lingers(w, t)] \in Cycles
    BY <1>1, <1>2, <2>1, <2>3, <2>4, CycleNow, CycleIs DEF CycleRecords
  <2>6. CycleBecomes(w, tx[w].todo \ {i}, copy, tx[w].wrote, {i}, i, tx[w].arrived)
    BY <1>1, <2>2, <2>5, CycleNow DEF CycleBecomes, CycleRecords, Typed
  <2> QED BY <1>1, <1>4, <2>1, <2>2, <2>6 DEF copy
<1>5. CASE channel \notin {"receipt", "webhook"}
  <2>1. PICK t \in Found(w) : tx' = [tx EXCEPT ![w].todo = @ \ {i}, ![w].at = i, ![w].seen = t] /\ row' = row
    BY <1>5 DEF Begin
  <2>2. t \in Targets \cup {None}
    BY <1>1, FoundTyped
  <2>3. [tx[w] EXCEPT !.todo = @ \ {i}, !.at = i, !.seen = t] \in Cycles
    BY <1>1, <1>2, <2>2, CycleNow, CycleIs DEF CycleRecords
  <2>4. CycleBecomes(w, tx[w].todo \ {i}, tx[w].copy, tx[w].wrote, tx[w].locks, i, tx[w].arrived)
    BY <1>1, <2>1, <2>3, CycleNow DEF CycleBecomes, CycleRecords, Typed
  <2> QED BY <1>1, <1>5, <2>1, <2>4
<1> QED  BY <1>3, <1>4, <1>5

\* A webhook is diverted as it stands, a receipt as well, and in the rows at
\* once; the others as they were selected.
LEMMA DivertEffect ==
  ASSUME TypeOK, Typed, Known, NEW w \in Workers, NEW i \in Items, Divert(w, i)
  PROVE  /\ tx[w] # None /\ tx[w].at = None /\ i \in tx[w].todo
         /\ channel = "receipt" =>
              /\ row[i] \in Rows
              /\ \E r \in Rows : row' = [row EXCEPT ![i] = r] /\ IsDiversionOf(r, row[i])
              /\ RowsKept
              /\ CycleBecomes(w, tx[w].todo \ {i}, Reread(w, row'), tx[w].wrote, {}, None, tx[w].arrived)
         /\ channel = "webhook" =>
              /\ row[i] \in Rows /\ Waiting(row[i]) /\ row' = row
              /\ \E r \in Rows :
                   /\ IsDiversionOf(r, row[i])
                   /\ CycleBecomes(w, tx[w].todo \ {i}, Put(tx[w].copy, i, row[i]), Put(tx[w].wrote, i, r),
                                   tx[w].locks \cup {i}, None, tx[w].arrived)
         /\ channel \notin {"receipt", "webhook"} =>
              /\ i \in DOMAIN tx[w].copy /\ row' = row
              /\ \E r \in Rows :
                   /\ IsDiversionOf(r, tx[w].copy[i])
                   /\ CycleBecomes(w, tx[w].todo \ {i}, tx[w].copy, Put(tx[w].wrote, i, r),
                                   tx[w].locks, None, tx[w].arrived)
<1>1. tx[w] # None /\ tx[w].at = None /\ i \in tx[w].todo
  BY DEF Divert, Turn
<1>2. tx[w].todo \ {i} \in SUBSET Items
  BY <1>1, CycleNow
<1>3. CASE channel = "receipt"
  <2>1. i \in DOMAIN tx[w].copy
    BY <1>1, <1>3, CycleNow DEF CycleOK
  <2>2. row[i] \in Rows
    BY <1>1, <2>1, CopyKnown
  <2>3. PICK t \in Found(w) :
          /\ row' = [row EXCEPT ![i] = Diverted(@, t)]
          /\ tx' = [tx EXCEPT ![w].todo = @ \ {i}, ![w].locks = {}, ![w].copy = Reread(w, row')]
    BY <1>3 DEF Divert
  <2> DEFINE r == Diverted(row[i], t)
  <2>4. IsDiversionOf(r, row[i]) /\ row' = [row EXCEPT ![i] = r]
    BY <2>3 DEF IsDiversionOf
  <2> HIDE DEF r
  <2>5. r \in Rows /\ r.test = row[i].test
    BY <2>2, <2>4, DivertedRow
  <2>6. RowsKept
    BY <2>4, <2>5, OneRow
  <2>7. Reread(w, row') \in Batches
    BY <1>1, <2>6, RereadBatch
  <2>8. [tx[w] EXCEPT !.todo = @ \ {i}, !.locks = {}, !.copy = Reread(w, row')] \in Cycles
    BY <1>1, <1>2, <2>7, CycleNow, CycleIs DEF CycleRecords
  <2>9. CycleBecomes(w, tx[w].todo \ {i}, Reread(w, row'), tx[w].wrote, {}, None, tx[w].arrived)
    BY <1>1, <2>3, <2>8, CycleNow DEF CycleBecomes, CycleRecords, Typed
  <2> QED BY <1>1, <1>3, <2>2, <2>4, <2>5, <2>6, <2>9
<1>4. CASE channel = "webhook"
  <2>1. row[i] \in Rows /\ Waiting(row[i])
    BY <1>4 DEF Divert, Gone, Due, Waiting, Typed
  <2>2. PICK t \in Found(w) :
          /\ tx' = [tx EXCEPT ![w].todo = @ \ {i}, ![w].wrote = Put(@, i, Diverted(row[i], t)),
                              ![w].locks = @ \cup {i}, ![w].copy = Put(@, i, row[i]),
                              ![w].seen = t, ![w].failed = Lingers(w, t)]
          /\ row' = row
    BY <1>4 DEF Divert
  <2> DEFINE r == Diverted(row[i], t)
  <2>3. IsDiversionOf(r, row[i])
    BY DEF IsDiversionOf
  <2>4. tx' = [tx EXCEPT ![w].todo = @ \ {i}, ![w].wrote = Put(@, i, r),
                         ![w].locks = @ \cup {i}, ![w].copy = Put(@, i, row[i]),
                         ![w].seen = t, ![w].failed = Lingers(w, t)]
    BY <2>2
  <2> HIDE DEF r
  <2>5. r \in Rows
    BY <2>1, <2>3, DivertedRow
  <2>6. Put(tx[w].copy, i, row[i]) \in Batches /\ Put(tx[w].wrote, i, r) \in Batches
    BY <1>1, <2>1, <2>5, CycleNow, PutBatch
  <2>7. t \in Targets \cup {None} /\ Lingers(w, t) \in BOOLEAN
    BY <1>1, FoundTyped, CycleNow DEF Lingers
  <2>8. [tx[w] EXCEPT !.todo = @ \ {i}, !.wrote = Put(@, i, r),
                      !.locks = @ \cup {i}, !.copy = Put(@, i, row[i]),
                      !.seen = t, !.failed = Lingers(w, t)] \in Cycles
    BY <1>1, <1>2, <2>6, <2>7, CycleNow, CycleIs DEF CycleRecords
  <2>9. CycleBecomes(w, tx[w].todo \ {i}, Put(tx[w].copy, i, row[i]),
                     Put(tx[w].wrote, i, r), tx[w].locks \cup {i}, None, tx[w].arrived)
    BY <1>1, <2>4, <2>8, CycleNow DEF CycleBecomes, CycleRecords, Typed
  <2> QED BY <1>1, <1>4, <2>1, <2>2, <2>3, <2>5, <2>9
<1>5. CASE channel \notin {"receipt", "webhook"}
  <2>1. i \in DOMAIN tx[w].copy
    BY <1>1, <1>5, CycleNow DEF CycleOK
  <2> DEFINE now(t) == IF channel = "teams" THEN None ELSE t
  <2>2. PICK t \in Found(w) :
          /\ tx' = [tx EXCEPT ![w].todo = @ \ {i}, ![w].wrote = Put(@, i, Diverted(tx[w].copy[i], t)),
                              ![w].locks = @ \cup {}, ![w].copy = @,
                              ![w].seen = now(t), ![w].failed = Lingers(w, t)]
          /\ row' = row
    BY <1>5 DEF Divert
  <2> DEFINE r == Diverted(tx[w].copy[i], t)
             seen == now(t)
  <2>3. IsDiversionOf(r, tx[w].copy[i])
    BY DEF IsDiversionOf
  <2>4. tx' = [tx EXCEPT ![w].todo = @ \ {i}, ![w].wrote = Put(@, i, r),
                         ![w].locks = @ \cup {}, ![w].copy = @,
                         ![w].seen = seen, ![w].failed = Lingers(w, t)]
    BY <2>2
  <2>5. seen \in Targets \cup {None} /\ Lingers(w, t) \in BOOLEAN
    BY <1>1, FoundTyped, CycleNow DEF Lingers
  <2> HIDE DEF r, seen
  <2>6. r \in Rows
    BY <1>1, <2>1, <2>3, CopyKnown, DivertedRow
  <2>7. Put(tx[w].wrote, i, r) \in Batches
    BY <1>1, <2>6, CycleNow, PutBatch
  <2>8. [tx[w] EXCEPT !.todo = @ \ {i}, !.wrote = Put(@, i, r),
                      !.locks = @ \cup {}, !.copy = @,
                      !.seen = seen, !.failed = Lingers(w, t)] \in Cycles
    BY <1>1, <1>2, <2>7, <2>5, CycleNow, CycleIs DEF CycleRecords
  <2>9. CycleBecomes(w, tx[w].todo \ {i}, tx[w].copy,
                     Put(tx[w].wrote, i, r), tx[w].locks, None, tx[w].arrived)
    BY <1>1, <2>4, <2>8, CycleNow DEF CycleBecomes, CycleRecords, Typed
  <2> QED BY <1>1, <1>5, <2>1, <2>2, <2>3, <2>6, <2>9
<1> QED  BY <1>3, <1>4, <1>5

\* What an attempt makes of a row: done, if the other side has answered so.
IsOutcomeOf(f, r, ok) == (ok /\ f = Done(r)) \/ (~ok /\ IsFailureOf(f, r))

LEMMA OutcomeRow ==
  ASSUME NEW r \in Rows, NEW f, NEW ok, IsOutcomeOf(f, r, ok)
  PROVE  /\ f \in Rows /\ f.test = r.test /\ f.tries = r.tries /\ f.limit = r.limit
         /\ f.status = "DONE" => ok
         /\ f.status = "RETRY" => r.tries < r.limit
         /\ f.status \in {"DONE", "RETRY", "GIVEN_UP"}
BY RowSteps DEF IsOutcomeOf, IsFailureOf

LEMMA SettleEffect ==
  ASSUME TypeOK, Typed, Known, NEW w \in Workers, NEW ok \in BOOLEAN, NEW retryable \in BOOLEAN,
         Settle(w, ok, retryable)
  PROVE  /\ At(w) /\ (ok => tx[w].arrived \/ channel = "scim")
         /\ tx[w].at \in DOMAIN tx[w].copy
         /\ channel = "receipt" =>
              /\ \E r \in Rows : row' = [row EXCEPT ![tx[w].at] = r] /\ IsOutcomeOf(r, row[tx[w].at], ok)
              /\ RowsKept
              /\ CycleBecomes(w, tx[w].todo, IF ok THEN tx[w].copy ELSE Reread(w, row'), tx[w].wrote,
                              tx[w].locks, None, FALSE)
         /\ channel # "receipt" =>
              /\ row' = row
              /\ \E r \in Rows :
                   /\ IsOutcomeOf(r, Tried(tx[w].copy[tx[w].at]), ok)
                   /\ CycleBecomes(w, tx[w].todo, tx[w].copy, Put(tx[w].wrote, tx[w].at, r),
                                   tx[w].locks, None, FALSE)
<1> DEFINE i == tx[w].at
           Outcome(r) == IF ok THEN Done(r) ELSE Failed(r, retryable)
<1>1. At(w) /\ tx[w] # None /\ i # None /\ (ok => tx[w].arrived \/ channel = "scim")
  BY DEF Settle, At
<1>2. i \in DOMAIN tx[w].copy
  BY <1>1, CycleNow DEF CycleOK
<1>3. i \in Items /\ tx[w].copy[i] \in Rows /\ row[i] \in Rows
  BY <1>1, <1>2, CopyKnown
<1>4. \A r \in Rows : IsOutcomeOf(Outcome(r), r, ok) /\ Outcome(r) \in Rows /\ Outcome(r).test = r.test
  <2> SUFFICES ASSUME NEW r \in Rows
               PROVE  IsOutcomeOf(Outcome(r), r, ok) /\ Outcome(r) \in Rows /\ Outcome(r).test = r.test
    OBVIOUS
  <2>1. IsOutcomeOf(Outcome(r), r, ok)
    BY FailedRow DEF IsOutcomeOf
  <2> HIDE DEF Outcome
  <2> QED BY <2>1, OutcomeRow
<1>5. CASE channel = "receipt"
  <2>1. /\ row' = [row EXCEPT ![i] = Outcome(row[i])]
        /\ tx' = [tx EXCEPT ![w].at = None, ![w].arrived = FALSE,
                            ![w].copy = IF ok THEN @ ELSE Reread(w, row')]
    BY <1>5 DEF Settle
  <2>2. Outcome(row[i]) \in Rows /\ Outcome(row[i]).test = row[i].test /\ IsOutcomeOf(Outcome(row[i]), row[i], ok)
    BY <1>3, <1>4
  <2> HIDE DEF Outcome
  <2>3. RowsKept
    BY <1>3, <2>1, <2>2, OneRow
  <2> DEFINE fresh == IF ok THEN tx[w].copy ELSE Reread(w, row')
  <2>4. fresh \in Batches
    BY <1>1, <2>3, RereadBatch, CycleNow
  <2>5. tx' = [tx EXCEPT ![w].at = None, ![w].arrived = FALSE, ![w].copy = fresh]
    BY <2>1
  <2> HIDE DEF fresh
  <2>6. [tx[w] EXCEPT !.at = None, !.arrived = FALSE, !.copy = fresh] \in Cycles
    BY <1>1, <2>4, CycleNow, CycleIs DEF CycleRecords
  <2>7. CycleBecomes(w, tx[w].todo, fresh, tx[w].wrote, tx[w].locks, None, FALSE)
    BY <1>1, <2>5, <2>6, CycleNow DEF CycleBecomes, CycleRecords, Typed
  <2> QED BY <1>1, <1>2, <1>5, <2>1, <2>2, <2>3, <2>7 DEF fresh
<1>6. CASE channel # "receipt"
  <2> DEFINE r == Outcome(Tried(tx[w].copy[i]))
  <2> DEFINE lasts == tx[w].failed \/ (channel = "webhook" /\ ~ok)
  <2>1. /\ tx' = [tx EXCEPT ![w].at = None, ![w].wrote = Put(@, i, r), ![w].arrived = FALSE,
                            ![w].failed = lasts]
        /\ row' = row
    BY <1>6 DEF Settle
  <2>2. lasts \in BOOLEAN
    BY <1>1, CycleNow
  <2>3. Tried(tx[w].copy[i]) \in Rows
    BY <1>3, RowSteps
  <2>4. r \in Rows /\ IsOutcomeOf(r, Tried(tx[w].copy[i]), ok)
    BY <1>4, <2>3
  <2> HIDE DEF r, lasts
  <2>5. Put(tx[w].wrote, i, r) \in Batches
    BY <1>1, <1>3, <2>4, CycleNow, PutBatch
  <2>6. [tx[w] EXCEPT !.at = None, !.wrote = Put(@, i, r), !.arrived = FALSE, !.failed = lasts] \in Cycles
    BY <1>1, <2>5, <2>2, CycleNow, CycleIs DEF CycleRecords
  <2>7. CycleBecomes(w, tx[w].todo, tx[w].copy, Put(tx[w].wrote, i, r), tx[w].locks, None, FALSE)
    BY <1>1, <2>1, <2>6, CycleNow DEF CycleBecomes, CycleRecords, Typed
  <2> QED BY <1>1, <1>2, <1>6, <2>1, <2>4, <2>7
<1> QED  BY <1>5, <1>6

\* What a commit does to the target, and leaves of it in the session.
SessionSees(w, t) ==
  tx'[w].seen = IF channel # "webhook" THEN tx[w].seen ELSE IF tx[w].failed THEN t ELSE None

Marked(t, version) == [t EXCEPT !.tested = version]

MarksTested(w) ==
  /\ tx'[w].failed = tx[w].failed
  /\ \/ /\ target' = target /\ passed' = passed
        /\ SessionSees(w, tx[w].seen)
     \/ /\ channel = "webhook" /\ tx[w].seen \in Targets
        /\ target' \in {target, Marked(target, tx[w].seen.version)}
        /\ passed' = passed \cup {tx[w].seen.version}
        /\ SessionSees(w, Marked(tx[w].seen, tx[w].seen.version))

LEMMA MarkedTarget ==
  ASSUME NEW t \in Targets, NEW version \in Nat
  PROVE  /\ Marked(t, version) \in Targets /\ Marked(t, version).status = t.status
         /\ Marked(t, version).version = t.version /\ Marked(t, version).tested = version
BY DEF Marked, Targets

LEMMA WriteMarked ==
  ASSUME NEW t \in Targets, NEW seen \in Targets
  PROVE  Write(t, seen, Marked(seen, seen.version)) \in {t, Marked(t, seen.version)}
<1>1. DOMAIN t = {"status", "version", "tested"} /\ seen.version \in Nat
  BY DEF Targets
<1>2. Write(t, seen, Marked(seen, seen.version)) =
        [status |-> t.status, version |-> t.version,
         tested |-> IF seen.version = seen.tested THEN t.tested ELSE seen.version]
  BY <1>1, MarkedTarget DEF Write
<1> QED  BY <1>2 DEF Marked, Targets

LEMMA CommitEffect ==
  ASSUME TypeOK, Typed, Known, NEW w \in Workers, Commit(w)
  PROVE  /\ tx[w] # None /\ tx[w].at = None
         /\ channel # "webhook" => tx[w].todo = {}
         /\ RowsKept
         /\ \A i \in DOMAIN tx[w].wrote :
              /\ i \in DOMAIN tx[w].copy /\ tx[w].wrote[i] \in Rows
              /\ row'[i] = Write(row[i], tx[w].copy[i], tx[w].wrote[i])
         /\ \A i \in Items \ DOMAIN tx[w].wrote : row'[i] = row[i]
         /\ CycleBecomes(w, tx[w].todo, IF channel = "webhook" THEN [i \in {} |-> None] ELSE tx[w].copy,
                         [i \in {} |-> None], {}, None, tx[w].arrived)
         /\ MarksTested(w)
<1>1. tx[w] # None /\ tx[w].at = None /\ (channel # "webhook" => tx[w].todo = {})
  BY DEF Commit, Uncommitted
<1>2. \A i \in DOMAIN tx[w].wrote : i \in DOMAIN tx[w].copy /\ tx[w].wrote[i] \in Rows
  BY <1>1, CycleNow, BatchIs DEF CycleOK
<1>3. row' = [i \in Items |-> IF i \in DOMAIN tx[w].wrote
                              THEN Write(row[i], tx[w].copy[i], tx[w].wrote[i]) ELSE row[i]]
  BY DEF Commit
<1>4. \A i \in DOMAIN tx[w].wrote :
        /\ i \in Items /\ row[i] \in Rows /\ tx[w].copy[i] \in Rows
        /\ Write(row[i], tx[w].copy[i], tx[w].wrote[i]) \in Rows
        /\ Write(row[i], tx[w].copy[i], tx[w].wrote[i]).test = row[i].test
  <2> SUFFICES ASSUME NEW i \in DOMAIN tx[w].wrote
               PROVE  /\ i \in Items /\ row[i] \in Rows /\ tx[w].copy[i] \in Rows
                      /\ Write(row[i], tx[w].copy[i], tx[w].wrote[i]) \in Rows
                      /\ Write(row[i], tx[w].copy[i], tx[w].wrote[i]).test = row[i].test
    OBVIOUS
  <2>1. i \in Items /\ row[i] \in Rows /\ tx[w].copy[i] \in Rows /\ tx[w].copy[i].test = row[i].test
    BY <1>1, <1>2, CopyKnown
  <2>2. tx[w].wrote[i] \in Rows /\ tx[w].wrote[i].test = row[i].test
    BY <1>1, <1>2 DEF Known, KnownCopies
  <2> QED BY <2>1, <2>2, WriteRow
<1>5. RowsKept /\ \A i \in Items \ DOMAIN tx[w].wrote : row'[i] = row[i]
  BY <1>3, <1>4, NoneAssumption DEF RowsKept, Typed
<1>6. \A i \in DOMAIN tx[w].wrote : row'[i] = Write(row[i], tx[w].copy[i], tx[w].wrote[i])
  BY <1>3, <1>4
<1> DEFINE kept == IF channel = "webhook" THEN [i \in {} |-> None] ELSE tx[w].copy
           none == [i \in {} |-> None]
<1>7. kept \in Batches /\ none \in Batches
  BY <1>1, CycleNow, NoBatch
<1> DEFINE left(t) == IF channel # "webhook" THEN tx[w].seen ELSE IF tx[w].failed THEN t ELSE None
           marked == Marked(tx[w].seen, tx[w].seen.version)
<1>8. PICK passes \in BOOLEAN :
        /\ passes => channel = "webhook"
        /\ target' = IF passes THEN Write(target, tx[w].seen, marked) ELSE target
        /\ passed' = IF passes THEN passed \cup {tx[w].seen.version} ELSE passed
        /\ tx' = [tx EXCEPT ![w].wrote = none, ![w].locks = {}, ![w].copy = kept,
                            ![w].seen = left(IF passes THEN marked ELSE tx[w].seen)]
  <2> DEFINE passes == /\ channel = "webhook"
                       /\ \E i \in Items : /\ i \in DOMAIN tx[w].wrote /\ tx[w].wrote[i].status = "DONE"
                                           /\ tx[w].wrote[i].test
  <2>1. /\ target' = IF passes THEN Write(target, tx[w].seen, marked) ELSE target
        /\ passed' = IF passes THEN passed \cup {tx[w].seen.version} ELSE passed
        /\ tx' = [tx EXCEPT ![w].wrote = none, ![w].locks = {}, ![w].copy = kept,
                            ![w].seen = left(IF passes THEN marked ELSE tx[w].seen)]
    BY DEF Commit, Marked
  <2>2. passes \in BOOLEAN /\ (passes => channel = "webhook")
    OBVIOUS
  <2> HIDE DEF passes, marked, kept, none, left
  <2> QED BY <2>1, <2>2
<1>9. passes => tx[w].seen \in Targets
  <2>1. Uncommitted(w)
    BY DEF Commit
  <2>2. passes => tx[w].seen # None
    BY <1>1, <1>8, <2>1 DEF Uncommitted, Known, KnownSeen, SeenOK
  <2> QED BY <1>1, <2>2, CycleNow
<1>10. passes => marked \in Targets
  <2>1. \A t \in Targets : t.version \in Nat
    BY DEF Targets
  <2> QED BY <1>9, <2>1, MarkedTarget
<1> DEFINE seen == left(IF passes THEN marked ELSE tx[w].seen)
<1>11. seen \in Targets \cup {None}
  BY <1>1, <1>10, CycleNow
<1>12. tx' = [tx EXCEPT ![w].wrote = none, ![w].locks = {}, ![w].copy = kept, ![w].seen = seen]
  BY <1>8
<1>13. target' \in {target, Marked(target, tx[w].seen.version)}
  BY <1>8, <1>9, WriteMarked DEF TypeOK
<1> HIDE DEF kept, none, seen
<1>14. [tx[w] EXCEPT !.wrote = none, !.locks = {}, !.copy = kept, !.seen = seen] \in Cycles
  BY <1>1, <1>7, <1>11, CycleNow, CycleIs DEF CycleRecords
<1>15. CycleBecomes(w, tx[w].todo, kept, none, {}, None, tx[w].arrived)
  BY <1>1, <1>12, <1>14, CycleNow DEF CycleBecomes, CycleRecords, Typed
<1>16. tx'[w].seen = seen /\ tx'[w].failed = tx[w].failed
  BY <1>1, <1>12, CycleNow DEF CycleRecords, Typed
<1>17. MarksTested(w)
  <2>1. CASE passes
    BY <1>8, <1>9, <1>13, <1>16, <2>1 DEF MarksTested, SessionSees, seen
  <2>2. CASE ~passes
    BY <1>8, <1>16, <2>2 DEF MarksTested, SessionSees, seen
  <2> QED BY <2>1, <2>2
<1> QED  BY <1>1, <1>2, <1>5, <1>6, <1>15, <1>17 DEF kept, none

-----------------------------------------------------------------------------
(* What a webhook cycle knows of its subscription.                         *)

\* After a failed call the old one, or else the present one.
LEMMA FoundTarget ==
  ASSUME TypeOK, Typed, Known, channel = "webhook", NEW w \in Workers, tx[w] # None, NEW t \in Found(w)
  PROVE  t \in Targets /\ (t = target \/ Lingers(w, t))
<1>1. target \in Targets
  BY DEF TypeOK
<1>2. tx[w].failed => tx[w].seen \in Targets
  BY CycleNow DEF Known, KnownSeen, SeenOK
<1> QED  BY <1>1, <1>2 DEF Found, Lingers

Sees(w, t) == tx'[w].seen = t /\ (Lingers(w, t) => tx'[w].failed)

LEMMA TurnSees ==
  ASSUME TypeOK, Typed, Known, channel = "webhook", NEW w \in Workers, NEW i \in Items,
         Begin(w, i) \/ Divert(w, i)
  PROVE  \E t \in Found(w) : Sees(w, t) /\ (Begin(w, i) => Usable(t, i))
<1>1. tx[w] # None /\ tx[w] \in CycleRecords /\ tx \in [Workers -> Cycles \cup {None}]
  BY CycleNow DEF Begin, Divert, Turn, Typed
<1>2. CASE Begin(w, i)
  <2>1. PICK t \in Found(w) :
          /\ Usable(t, i)
          /\ tx' = [tx EXCEPT ![w].todo = @ \ {i}, ![w].at = i, ![w].locks = {i},
                              ![w].copy = Put(@, i, row[i]),
                              ![w].seen = t, ![w].failed = Lingers(w, t)]
    BY <1>2 DEF Begin
  <2>2. Sees(w, t)
    BY <1>1, <2>1 DEF Sees, CycleRecords
  <2> QED BY <2>1, <2>2
<1>3. CASE Divert(w, i) /\ ~Begin(w, i)
  <2>1. PICK t \in Found(w) :
          tx' = [tx EXCEPT ![w].todo = @ \ {i}, ![w].wrote = Put(@, i, Diverted(row[i], t)),
                           ![w].locks = @ \cup {i}, ![w].copy = Put(@, i, row[i]),
                           ![w].seen = t, ![w].failed = Lingers(w, t)]
    BY <1>3 DEF Divert
  <2>2. Sees(w, t)
    BY <1>1, <2>1 DEF Sees, CycleRecords
  <2> QED BY <1>3, <2>2
<1> QED  BY <1>2, <1>3

\* A selection and a rollback leave nothing of it.
LEMMA NothingSeen ==
  ASSUME TypeOK, Typed, NEW w \in Workers, NEW i, Select(w) \/ Skip(w, i)
  PROVE  tx'[w].seen = None /\ tx'[w].failed = FALSE
<1>1. CASE Select(w)
  BY <1>1 DEF Select, Typed
<1>2. CASE Skip(w, i)
  <2>1. tx[w] # None /\ tx[w] \in CycleRecords /\ tx \in [Workers -> Cycles \cup {None}]
    BY <1>2, CycleNow DEF Skip, Turn, Typed
  <2>2. tx' = [tx EXCEPT ![w].todo = @ \ {i}, ![w].seen = None, ![w].failed = FALSE]
    BY <1>2 DEF Skip
  <2> QED BY <2>1, <2>2 DEF CycleRecords
<1> QED  BY <1>1, <1>2

LEMMA CallSees ==
  ASSUME TypeOK, Typed, channel = "webhook", NEW w \in Workers, NEW ok \in BOOLEAN, NEW retryable \in BOOLEAN,
         Arrive(w) \/ Settle(w, ok, retryable)
  PROVE  tx[w].at # None /\ tx'[w].seen = tx[w].seen /\ (Arrive(w) => tx'[w].failed = tx[w].failed)
<1>1. /\ tx[w] # None /\ tx[w].at # None /\ tx[w] \in CycleRecords
      /\ tx \in [Workers -> Cycles \cup {None}]
  BY CycleNow DEF Arrive, Settle, At, Typed
<1>2. CASE Arrive(w)
  <2>1. tx' = [tx EXCEPT ![w].arrived = TRUE]
    BY <1>2 DEF Arrive
  <2> QED BY <1>1, <2>1 DEF CycleRecords
<1>3. CASE Settle(w, ok, retryable) /\ ~Arrive(w)
  <2> DEFINE new == IF ok THEN Done(Tried(tx[w].copy[tx[w].at]))
                    ELSE Failed(Tried(tx[w].copy[tx[w].at]), retryable)
             wrote == Put(tx[w].wrote, tx[w].at, new)
             failed == tx[w].failed \/ (channel = "webhook" /\ ~ok)
  <2>1. tx' = [tx EXCEPT ![w].at = None, ![w].wrote = wrote, ![w].arrived = FALSE, ![w].failed = failed]
    BY <1>3 DEF Settle
  <2> HIDE DEF wrote, failed
  <2> QED BY <1>1, <1>3, <2>1 DEF CycleRecords
<1> QED  BY <1>2, <1>3

-----------------------------------------------------------------------------
(* What the other steps do to the rows.                                    *)

LEMMA AcceptEffect ==
  ASSUME TypeOK, Typed, NEW i \in Items, NEW j \in Items,
         Queue(i) \/ Provision(i) \/ ReplayDelivery(j, i)
  PROVE  /\ row[i] = None
         /\ \E r \in Rows :
              /\ row' = [row EXCEPT ![i] = r]
              /\ channel # "scim" => r.status = "QUEUED" /\ r.tries = 0 /\ r.limit = Limit
              /\ r.status = "DONE" => sent'[i] = sent[i] + 1
         /\ sent' = sent \/ (channel = "scim" /\ sent' = [sent EXCEPT ![i] = @ + 1])
<1>1. CASE Queue(i)
  BY <1>1, NewRows DEF Queue
<1>2. CASE ReplayDelivery(j, i)
  <2>1. row[j] \in Rows /\ row[j].test \in BOOLEAN
    BY <1>2 DEF ReplayDelivery, Typed, Rows
  <2> QED BY <1>2, <2>1, NewRows DEF ReplayDelivery
<1>3. CASE Provision(i)
  <2> DEFINE r == Tried(NewRow(FALSE))
  <2>1. r \in Rows
    BY NewRows, RowSteps
  <2>2. Done(r) \in Rows /\ \A retryable \in BOOLEAN : IsFailureOf(Failed(r, retryable), r)
    BY <2>1, RowSteps, FailedRow
  <2>3. channel = "scim" /\ row[i] = None
    BY <1>3 DEF Provision
  <2>4. CASE row' = [row EXCEPT ![i] = Done(r)] /\ sent' = [sent EXCEPT ![i] = @ + 1]
    <3>1. sent'[i] = sent[i] + 1
      BY <2>4 DEF TypeOK
    <3> HIDE DEF r
    <3> QED BY <2>2, <2>3, <2>4, <3>1
  <2>5. CASE (\E retryable \in BOOLEAN : row' = [row EXCEPT ![i] = Failed(r, retryable)]) /\ sent' = sent
    <3>1. PICK retryable \in BOOLEAN : row' = [row EXCEPT ![i] = Failed(r, retryable)]
      BY <2>5
    <3>2. Failed(r, retryable) \in Rows /\ Failed(r, retryable).status # "DONE"
      BY <2>2 DEF IsFailureOf
    <3> HIDE DEF r
    <3> QED BY <2>3, <2>5, <3>1, <3>2
  <2> QED BY <1>3, <2>4, <2>5 DEF Provision
<1> QED  BY <1>1, <1>2, <1>3

LEMMA DueEffect ==
  ASSUME TypeOK, Typed, NEW i \in Items, BecomeDue(i)
  PROVE  /\ row[i] \in Rows /\ ~Locked(i)
         /\ \E r \in Rows : /\ row' = [row EXCEPT ![i] = r] /\ r.test = row[i].test
                            /\ r.status = row[i].status /\ r.tries = row[i].tries
                            /\ r.limit = row[i].limit
<1>1. row[i] \in Rows /\ ~Locked(i) /\ row' = [row EXCEPT ![i] = [row[i] EXCEPT !.due = TRUE]]
  BY DEF BecomeDue, Typed, Waiting
<1>2. [row[i] EXCEPT !.due = TRUE] \in Rows
  BY <1>1 DEF Rows
<1> QED  BY <1>1, <1>2 DEF Rows

LEMMA DeskNow ==
  ASSUME TypeOK, Typed, Known, NEW c \in Clerks, desk[c] # None
  PROVE  /\ desk[c].item \in Items /\ desk[c].copy \in Rows /\ row[desk[c].item] \in Rows
         /\ desk[c].copy.test = row[desk[c].item].test
BY DEF TypeOK, Typed, Known, KnownDesk

LEMMA ReopenEffect ==
  ASSUME TypeOK, Typed, Known, NEW c \in Clerks, Reopen(c)
  PROVE  /\ desk[c] # None /\ ~Locked(desk[c].item)
         /\ Requeued(desk[c].copy) \in Rows
         /\ \E r \in Rows :
              /\ r = Write(row[desk[c].item], desk[c].copy, Requeued(desk[c].copy))
              /\ row' = [row EXCEPT ![desk[c].item] = r]
              /\ r.test = row[desk[c].item].test
              /\ r.status = "DONE" => row[desk[c].item].status = "DONE"
<1> DEFINE r == Write(row[desk[c].item], desk[c].copy, Requeued(desk[c].copy))
<1>1. desk[c] # None /\ ~Locked(desk[c].item)
  BY DEF Reopen
<1>2. /\ Requeued(desk[c].copy) \in Rows /\ Requeued(desk[c].copy).test = desk[c].copy.test
      /\ Requeued(desk[c].copy).status # "DONE"
  BY <1>1, DeskNow, RequeuedRow
<1>3. r \in Rows /\ r.test = row[desk[c].item].test
      /\ (r.status = "DONE" => row[desk[c].item].status = "DONE")
  BY <1>1, <1>2, DeskNow, WriteRow
<1>4. row' = [row EXCEPT ![desk[c].item] = r]
  BY DEF Reopen
<1> HIDE DEF r
<1> QED  BY <1>1, <1>2, <1>3, <1>4 DEF r

LEMMA ReapplyEffect ==
  ASSUME TypeOK, Typed, Known, NEW c \in Clerks, Reapply(c)
  PROVE  /\ desk[c] # None /\ channel = "scim"
         /\ \E r \in Rows :
              /\ row' = [row EXCEPT ![desk[c].item] = r]
              /\ r.test = row[desk[c].item].test
              /\ \/ sent' = [sent EXCEPT ![desk[c].item] = @ + 1]
                 \/ sent' = sent /\ (r.status = "DONE" => row[desk[c].item].status = "DONE")
<1> DEFINE i == desk[c].item
           read == desk[c].copy
<1>1. desk[c] # None /\ channel = "scim"
  BY DEF Reapply
<1>2. read \in Rows /\ row[i] \in Rows /\ i \in Items /\ read.test = row[i].test
  BY <1>1, DeskNow
<1>3. \A new \in Rows : new.test = read.test =>
        /\ Write(row[i], read, new) \in Rows
        /\ Write(row[i], read, new).test = row[i].test
        /\ new.status # "DONE" /\ Write(row[i], read, new).status = "DONE" => row[i].status = "DONE"
  BY <1>2, WriteRow
<1>4. Tried(read) \in Rows /\ Tried(read).test = read.test
  BY <1>2, RowSteps
<1>5. Done(Tried(read)) \in Rows /\ Done(Tried(read)).test = read.test
  BY <1>4, RowSteps
<1>6. \A retryable \in BOOLEAN :
        /\ Failed(Tried(read), retryable) \in Rows /\ Failed(Tried(read), retryable).test = read.test
        /\ Failed(Tried(read), retryable).status # "DONE"
  BY <1>4, FailedRow DEF IsFailureOf
<1>7. CASE /\ row' = [row EXCEPT ![i] = Write(@, read, Done(Tried(read)))]
           /\ sent' = [sent EXCEPT ![i] = @ + 1]
  <2>1. row' = [row EXCEPT ![i] = Write(row[i], read, Done(Tried(read)))]
    BY <1>7
  <2> QED BY <1>1, <1>3, <1>5, <1>7, <2>1
<1>8. CASE /\ \E retryable \in BOOLEAN :
                row' = [row EXCEPT ![i] = Write(@, read, Failed(Tried(read), retryable))]
           /\ sent' = sent
  <2>1. PICK retryable \in BOOLEAN :
          row' = [row EXCEPT ![i] = Write(row[i], read, Failed(Tried(read), retryable))]
    BY <1>8
  <2> QED BY <1>1, <1>3, <1>6, <1>8, <2>1
<1> QED  BY <1>7, <1>8 DEF Reapply

LEMMA BounceEffect ==
  ASSUME TypeOK, Typed, NEW i \in Items, Bounce(i)
  PROVE  /\ channel = "email" /\ row[i] \in Rows
         /\ row' = [row EXCEPT ![i] = GivenUp(row[i])]
BY DEF Bounce, Typed

LEMMA ChannelStays ==
  ASSUME TypeOK, [Next]_vars
  PROVE  /\ channel' = channel
         /\ channel = "receipt" => sent' = sent \/ \E w \in Workers : Arrive(w)
<1> DEFINE Goal == /\ channel' = channel
                   /\ channel = "receipt" => sent' = sent \/ \E w \in Workers : Arrive(w)
<1>1. ASSUME NEW i \in Items, NEW j \in Items,
             Queue(i) \/ Provision(i) \/ BecomeDue(i) \/ Bounce(i) \/ ReplayDelivery(i, j)
      PROVE  Goal
  BY <1>1 DEF Queue, Provision, BecomeDue, Bounce, ReplayDelivery
<1>2. ASSUME NEW w \in Workers, Select(w) \/ Finish(w) \/ Abort(w) PROVE Goal
  BY <1>2 DEF Select, Finish, Abort
<1>3. ASSUME NEW w \in Workers, Arrive(w) PROVE Goal
  <2>1. channel' = channel
    BY <1>3 DEF Arrive
  <2> QED BY <1>3, <2>1
<1>4. ASSUME NEW w \in Workers, NEW i \in Items, Skip(w, i) \/ Divert(w, i) \/ Begin(w, i) PROVE Goal
  BY <1>4 DEF Skip, Divert, Begin
<1>5. ASSUME NEW w \in Workers, NEW ok \in BOOLEAN, NEW retryable \in BOOLEAN, Settle(w, ok, retryable)
      PROVE  Goal
  BY <1>5 DEF Settle
<1>6. ASSUME NEW w \in Workers, Commit(w) PROVE Goal
  <2>1. channel' = channel
    BY <1>6 DEF Commit
  <2>2. channel = "receipt" => sent' = [i \in Items |-> sent[i]]
    BY <1>6 DEF Commit
  <2> QED BY <2>1, <2>2 DEF TypeOK
<1>7. ASSUME NEW c \in Clerks, (\E i \in Items : Open(c, i)) \/ Reopen(c) \/ Reapply(c) PROVE Goal
  BY <1>7 DEF Open, Reopen, Reapply
<1>8. ASSUME NEW status \in {"PAUSED", "ACTIVE", "REVOKED"}, SetStatus(status) \/ Rotate PROVE Goal
  BY <1>8 DEF SetStatus, Rotate, Change
<1>9. ASSUME UNCHANGED vars PROVE Goal
  BY <1>9 DEF vars
<1> HIDE DEF Goal
<1>10. ASSUME NEW w \in Workers, CycleStep(w) \/ Abort(w) PROVE Goal
  BY <1>2, <1>3, <1>4, <1>5, <1>6, <1>10 DEF CycleStep
<1>11. ASSUME Next PROVE Goal
  BY <1>1, <1>7, <1>8, <1>10, <1>11 DEF Next
<1>12. Goal
  BY <1>9, <1>11
<1> QED  BY <1>12 DEF Goal

-----------------------------------------------------------------------------
(* Type correctness.                                                       *)

LEMMA InitTypes == Init => TypeOK /\ Typed
BY OutboxAssumption DEF Init, TypeOK, Typed, Targets

LEMMA TypesAgain ==
  ASSUME TypeOK, Typed, channel' = channel, row' \in [Items -> Rows \cup {None}],
         target' \in Targets,
         tx' \in [Workers -> Cycles \cup {None}],
         \A w \in Workers : tx'[w] # None => CycleOK(tx'[w]),
         desk' \in [Clerks -> [item : Items, copy : Rows] \cup {None}],
         sent' \in [Items -> Nat], reopens' \in Nat, changes' \in Nat, faults' \in Nat
  PROVE  TypeOK' /\ Typed'
<1>1. \A w \in Workers : tx'[w] # None =>
        /\ DOMAIN tx'[w] = {"todo", "copy", "wrote", "locks", "at", "arrived", "seen", "failed"}
        /\ \A i \in DOMAIN tx'[w].copy : tx'[w].copy[i] \in Rows
        /\ \A i \in DOMAIN tx'[w].wrote : tx'[w].wrote[i] \in Rows
        /\ tx'[w].seen \in Targets \cup {None}
  <2> SUFFICES ASSUME NEW w \in Workers, tx'[w] # None
               PROVE  /\ DOMAIN tx'[w] = {"todo", "copy", "wrote", "locks", "at", "arrived", "seen", "failed"}
                      /\ \A i \in DOMAIN tx'[w].copy : tx'[w].copy[i] \in Rows
                      /\ \A i \in DOMAIN tx'[w].wrote : tx'[w].wrote[i] \in Rows
                      /\ tx'[w].seen \in Targets \cup {None}
    OBVIOUS
  <2>1. tx'[w] \in CycleRecords
    BY CycleIs
  <2> QED BY <2>1, BatchIs DEF CycleRecords
<1>2. \A w \in Workers : tx'[w] # None =>
        /\ channel # "webhook" => tx'[w].todo \subseteq DOMAIN tx'[w].copy
        /\ DOMAIN tx'[w].wrote \subseteq DOMAIN tx'[w].copy
        /\ tx'[w].at # None => tx'[w].at \in DOMAIN tx'[w].copy
  BY DEF CycleOK
<1>3. \A i \in Items : row'[i] # None => row'[i] \in Rows
  OBVIOUS
<1> QED  BY <1>1, <1>2, <1>3 DEF TypeOK, Typed

LEMMA CyclesAgain ==
  ASSUME TypeOK, Typed, NEW w \in Workers, NEW todo, NEW copy, NEW wrote, NEW locks, NEW at, NEW arrived,
         CycleBecomes(w, todo, copy, wrote, locks, at, arrived),
         channel # "webhook" => todo \subseteq DOMAIN copy,
         DOMAIN wrote \subseteq DOMAIN copy,
         at # None => at \in DOMAIN copy
  PROVE  /\ tx' \in [Workers -> Cycles \cup {None}]
         /\ \A v \in Workers : tx'[v] # None => CycleOK(tx'[v])
<1>1. tx'[w] # None => CycleOK(tx'[w])
  BY DEF CycleBecomes, CycleOK
<1>2. \A v \in Workers \ {w} : tx'[v] # None => CycleOK(tx'[v])
  BY CycleNow DEF CycleBecomes
<1> QED  BY <1>1, <1>2 DEF CycleBecomes

\* The variables that a step of a cycle may leave alone.
others == <<channel, target, desk, sent, reopens, changes, faults>>

LEMMA CycleStepTypes ==
  ASSUME TypeOK, Typed, NEW w \in Workers, NEW todo, NEW copy, NEW wrote, NEW locks, NEW at, NEW arrived,
         CycleBecomes(w, todo, copy, wrote, locks, at, arrived),
         channel # "webhook" => todo \subseteq DOMAIN copy,
         DOMAIN wrote \subseteq DOMAIN copy,
         at # None => at \in DOMAIN copy,
         RowsKept, UNCHANGED others
  PROVE  TypeOK' /\ Typed' /\ RowsKept
<1>1. /\ tx' \in [Workers -> Cycles \cup {None}]
      /\ \A v \in Workers : tx'[v] # None => CycleOK(tx'[v])
  BY CyclesAgain
<1>2. /\ row' \in [Items -> Rows \cup {None}] /\ channel' = channel
      /\ target' \in Targets
      /\ desk' \in [Clerks -> [item : Items, copy : Rows] \cup {None}]
      /\ sent' \in [Items -> Nat] /\ reopens' \in Nat /\ changes' \in Nat /\ faults' \in Nat
  BY DEF RowsKept, TypeOK, Typed, others
<1> QED  BY <1>1, <1>2, TypesAgain

LEMMA CyclesLeft ==
  ASSUME TypeOK, Typed, tx' = tx \/ \E w \in Workers : tx' = [tx EXCEPT ![w] = None]
  PROVE  /\ tx' \in [Workers -> Cycles \cup {None}]
         /\ \A v \in Workers : tx'[v] # None => tx'[v] = tx[v] /\ CycleOK(tx'[v])
<1>1. /\ tx' \in [Workers -> Cycles \cup {None}]
      /\ \A v \in Workers : tx'[v] # None => tx'[v] = tx[v]
  BY DEF Typed
<1> QED  BY <1>1, CycleNow

\* The steps that change no cycle, or end one.
LEMMA QuietStepTypes ==
  ASSUME TypeOK, Typed, tx' = tx \/ \E w \in Workers : tx' = [tx EXCEPT ![w] = None],
         RowsKept, channel' = channel,
         target' \in Targets,
         desk' \in [Clerks -> [item : Items, copy : Rows] \cup {None}],
         sent' \in [Items -> Nat], reopens' \in Nat, changes' \in Nat, faults' \in Nat
  PROVE  TypeOK' /\ Typed' /\ RowsKept
<1>1. row' \in [Items -> Rows \cup {None}]
  BY DEF RowsKept
<1> QED  BY <1>1, CyclesLeft, TypesAgain

LEMMA TypesPreserved == TypeOK /\ Typed /\ Known /\ [Next]_vars => TypeOK' /\ Typed' /\ RowsKept
<1> SUFFICES ASSUME TypeOK, Typed, Known, [Next]_vars PROVE TypeOK' /\ Typed' /\ RowsKept
    OBVIOUS
<1>0. /\ target \in Targets
      /\ desk \in [Clerks -> [item : Items, copy : Rows] \cup {None}]
      /\ sent \in [Items -> Nat] /\ reopens \in Nat /\ changes \in Nat /\ faults \in Nat
  BY DEF TypeOK, Typed
<1>1. ASSUME NEW i \in Items, NEW j \in Items, Queue(i) \/ Provision(i) \/ ReplayDelivery(j, i)
      PROVE  TypeOK' /\ Typed' /\ RowsKept
  <2>1. RowsKept
    BY <1>1, AcceptEffect, OneRow
  <2>2. sent' \in [Items -> Nat]
    BY <1>0, <1>1, AcceptEffect
  <2>3. /\ UNCHANGED <<channel, target, tx, desk, changes, faults>>
        /\ reopens' = reopens \/ reopens' = reopens + 1
    BY <1>1 DEF Queue, Provision, ReplayDelivery
  <2> QED BY <1>0, <2>1, <2>2, <2>3, QuietStepTypes
<1>2. ASSUME NEW i \in Items, BecomeDue(i) \/ Bounce(i) PROVE TypeOK' /\ Typed' /\ RowsKept
  <2>1. RowsKept
    BY <1>2, DueEffect, BounceEffect, RowSteps, OneRow
  <2>2. UNCHANGED <<channel, target, tx, desk, sent, reopens, changes, faults>>
    BY <1>2 DEF BecomeDue, Bounce
  <2> QED BY <1>0, <2>1, <2>2, QuietStepTypes
<1>3. ASSUME NEW w \in Workers, Finish(w) \/ Abort(w) PROVE TypeOK' /\ Typed' /\ RowsKept
  <2>1. RowsKept
    BY <1>3, NoRow DEF Finish, Abort
  <2>2. tx' = [tx EXCEPT ![w] = None] /\ UNCHANGED <<channel, target, desk, sent, reopens, changes>>
        /\ faults' \in Nat
    BY <1>0, <1>3 DEF Finish, Abort
  <2> QED BY <1>0, <2>1, <2>2, QuietStepTypes
<1>4. ASSUME NEW c \in Clerks, NEW i \in Items, Open(c, i) PROVE TypeOK' /\ Typed' /\ RowsKept
  <2>1. RowsKept
    BY <1>4, NoRow DEF Open
  <2>2. [item |-> i, copy |-> row[i]] \in [item : Items, copy : Rows]
    BY <1>4 DEF Open, Typed
  <2>3. desk' \in [Clerks -> [item : Items, copy : Rows] \cup {None}]
    BY <1>0, <1>4, <2>2 DEF Open
  <2>4. UNCHANGED <<channel, target, tx, sent, changes, faults>> /\ reopens' \in Nat
    BY <1>0, <1>4 DEF Open
  <2> QED BY <1>0, <2>1, <2>3, <2>4, QuietStepTypes
<1>5. ASSUME NEW c \in Clerks, Reopen(c) \/ Reapply(c) PROVE TypeOK' /\ Typed' /\ RowsKept
  <2>1. desk[c].item \in Items
    BY <1>5, DeskNow DEF Reopen, Reapply
  <2>2. RowsKept
    BY <1>5, <2>1, ReopenEffect, ReapplyEffect, OneRow
  <2>3. sent' \in [Items -> Nat]
    BY <1>0, <1>5, <2>1 DEF Reopen, Reapply
  <2>4. desk' \in [Clerks -> [item : Items, copy : Rows] \cup {None}]
    BY <1>0, <1>5 DEF Reopen, Reapply
  <2>5. UNCHANGED <<channel, target, tx, reopens, changes, faults>>
    BY <1>5 DEF Reopen, Reapply
  <2> QED BY <1>0, <2>2, <2>3, <2>4, <2>5, QuietStepTypes
<1>6. ASSUME NEW status \in {"PAUSED", "ACTIVE", "REVOKED"}, SetStatus(status) \/ Rotate
      PROVE  TypeOK' /\ Typed' /\ RowsKept
  <2>1. \/ target' = [target EXCEPT !.status = status]
        \/ target' = [status |-> "PAUSED", version |-> target.version + 1, tested |-> 0]
    BY <1>6 DEF SetStatus, Rotate, Change
  <2>0. target' \in Targets
    <3>1. /\ [target EXCEPT !.status = status] \in Targets
          /\ [status |-> "PAUSED", version |-> target.version + 1, tested |-> 0] \in Targets
      BY <1>0, <1>6 DEF Targets
    <3> QED BY <2>1, <3>1
  <2>2. UNCHANGED <<channel, row, tx, desk, sent, reopens, faults>> /\ changes' \in Nat
    BY <1>0, <1>6 DEF SetStatus, Rotate, Change
  <2> QED BY <1>0, <2>0, <2>2, NoRow, QuietStepTypes
<1>7. ASSUME NEW w \in Workers, Select(w) PROVE TypeOK' /\ Typed' /\ RowsKept
  <2>1. RowsKept /\ UNCHANGED others
    BY <1>7, NoRow DEF Select, others
  <2>2. PICK batch \in SUBSET {i \in Items : Due(row[i])}, copy \in Batches :
           /\ DOMAIN copy = IF channel = "webhook" THEN {} ELSE batch
           /\ CycleBecomes(w, batch, copy, [i \in {} |-> None],
                           IF channel \in {"teams", "scim", "receipt"} THEN batch ELSE {},
                           None, FALSE)
    BY <1>7, SelectEffect
  <2> QED BY <2>1, <2>2, NoBatch, CycleStepTypes
<1>8. ASSUME NEW w \in Workers, NEW i \in Items, Skip(w, i) PROVE TypeOK' /\ Typed' /\ RowsKept
  <2>1. RowsKept /\ UNCHANGED others /\ tx[w] # None
    BY <1>8, NoRow DEF Skip, Turn, others
  <2>2. /\ channel # "webhook" => tx[w].todo \ {i} \subseteq DOMAIN tx[w].copy
        /\ DOMAIN tx[w].wrote \subseteq DOMAIN tx[w].copy
    BY <2>1, CycleNow DEF CycleOK
  <2>3. CycleBecomes(w, tx[w].todo \ {i}, tx[w].copy, tx[w].wrote, tx[w].locks, None, tx[w].arrived)
    BY <1>8, SkipEffect
  <2> QED BY <2>1, <2>2, <2>3, CycleStepTypes
<1>9. ASSUME NEW w \in Workers, NEW i \in Items, Divert(w, i) PROVE TypeOK' /\ Typed' /\ RowsKept
  <2>1. UNCHANGED others
    BY <1>9 DEF Divert, others
  <2>2. tx[w] # None /\ CycleOK(tx[w]) /\ i \in tx[w].todo
    BY <1>9, DivertEffect, CycleNow
  <2>3. CASE channel = "receipt"
    <3>1. RowsKept /\ DOMAIN Reread(w, row') = DOMAIN tx[w].copy
      BY <1>9, <2>2, <2>3, DivertEffect, RereadBatch
    <3>2. tx[w].todo \ {i} \subseteq DOMAIN tx[w].copy /\ DOMAIN tx[w].wrote \subseteq DOMAIN tx[w].copy
      BY <2>2, <2>3 DEF CycleOK
    <3>3. CycleBecomes(w, tx[w].todo \ {i}, Reread(w, row'), tx[w].wrote, {}, None, tx[w].arrived)
      BY <1>9, <2>3, DivertEffect
    <3> QED BY <2>1, <3>1, <3>2, <3>3, CycleStepTypes
  <2>4. CASE channel = "webhook"
    <3>1. row[i] \in Rows /\ row' = row
      BY <1>9, <2>4, DivertEffect
    <3>2. PICK r \in Rows :
            CycleBecomes(w, tx[w].todo \ {i}, Put(tx[w].copy, i, row[i]), Put(tx[w].wrote, i, r),
                         tx[w].locks \cup {i}, None, tx[w].arrived)
      BY <1>9, <2>4, DivertEffect
    <3>3. tx[w].copy \in Batches /\ tx[w].wrote \in Batches
      BY <2>2, CycleNow
    <3>4. /\ DOMAIN Put(tx[w].copy, i, row[i]) = DOMAIN tx[w].copy \cup {i}
          /\ DOMAIN Put(tx[w].wrote, i, r) = DOMAIN tx[w].wrote \cup {i}
      BY <3>1, <3>3, PutBatch
    <3>5. DOMAIN Put(tx[w].wrote, i, r) \subseteq DOMAIN Put(tx[w].copy, i, row[i])
      BY <2>2, <3>4 DEF CycleOK
    <3> QED BY <2>1, <2>4, <3>1, <3>2, <3>5, NoRow, CycleStepTypes
  <2>5. CASE channel \notin {"receipt", "webhook"}
    <3>1. i \in DOMAIN tx[w].copy /\ row' = row
      BY <1>9, <2>5, DivertEffect
    <3>2. PICK r \in Rows :
            CycleBecomes(w, tx[w].todo \ {i}, tx[w].copy, Put(tx[w].wrote, i, r), tx[w].locks, None,
                         tx[w].arrived)
      BY <1>9, <2>5, DivertEffect
    <3>3. tx[w].wrote \in Batches
      BY <2>2, CycleNow
    <3>4. DOMAIN Put(tx[w].wrote, i, r) = DOMAIN tx[w].wrote \cup {i}
      BY <3>3, PutBatch
    <3>5. /\ tx[w].todo \ {i} \subseteq DOMAIN tx[w].copy
          /\ DOMAIN Put(tx[w].wrote, i, r) \subseteq DOMAIN tx[w].copy
      BY <2>2, <2>5, <3>1, <3>4 DEF CycleOK
    <3> QED BY <2>1, <3>1, <3>2, <3>5, NoRow, CycleStepTypes
  <2> QED BY <2>3, <2>4, <2>5
<1>10. ASSUME NEW w \in Workers, NEW i \in Items, Begin(w, i) PROVE TypeOK' /\ Typed' /\ RowsKept
  <2>1. UNCHANGED others
    BY <1>10 DEF Begin, others
  <2>2. tx[w] # None /\ CycleOK(tx[w]) /\ i \in tx[w].todo
    BY <1>10, BeginEffect, CycleNow
  <2>3. CASE channel = "receipt"
    <3>1. RowsKept
      BY <1>10, <2>3, BeginEffect, OneRow
    <3>2. /\ tx[w].todo \ {i} \subseteq DOMAIN tx[w].copy /\ i \in DOMAIN tx[w].copy
          /\ DOMAIN tx[w].wrote \subseteq DOMAIN tx[w].copy
      BY <2>2, <2>3 DEF CycleOK
    <3>3. CycleBecomes(w, tx[w].todo \ {i}, tx[w].copy, tx[w].wrote, {}, i, tx[w].arrived)
      BY <1>10, <2>3, BeginEffect
    <3> QED BY <2>1, <3>1, <3>2, <3>3, CycleStepTypes
  <2>4. CASE channel = "webhook"
    <3>1. row[i] \in Rows /\ row' = row /\ tx[w].copy \in Batches
      BY <1>10, <2>2, <2>4, BeginEffect, CycleNow
    <3>2. DOMAIN Put(tx[w].copy, i, row[i]) = DOMAIN tx[w].copy \cup {i}
      BY <3>1, PutBatch
    <3>3. CycleBecomes(w, tx[w].todo \ {i}, Put(tx[w].copy, i, row[i]), tx[w].wrote, {i}, i,
                       tx[w].arrived)
      BY <1>10, <2>4, BeginEffect
    <3>4. DOMAIN tx[w].wrote \subseteq DOMAIN Put(tx[w].copy, i, row[i])
      BY <2>2, <3>2 DEF CycleOK
    <3> QED BY <2>1, <2>4, <3>1, <3>2, <3>3, <3>4, NoRow, CycleStepTypes
  <2>5. CASE channel \notin {"receipt", "webhook"}
    <3>1. /\ tx[w].todo \ {i} \subseteq DOMAIN tx[w].copy /\ i \in DOMAIN tx[w].copy
          /\ DOMAIN tx[w].wrote \subseteq DOMAIN tx[w].copy
      BY <2>2, <2>5 DEF CycleOK
    <3>2. /\ CycleBecomes(w, tx[w].todo \ {i}, tx[w].copy, tx[w].wrote, tx[w].locks, i, tx[w].arrived)
          /\ RowsKept
      BY <1>10, <2>5, BeginEffect, NoRow
    <3> QED BY <2>1, <3>1, <3>2, CycleStepTypes
  <2> QED BY <2>3, <2>4, <2>5
<1>11. ASSUME NEW w \in Workers, Arrive(w) PROVE TypeOK' /\ Typed' /\ RowsKept
  <2>1. tx[w] # None /\ CycleOK(tx[w]) /\ tx[w].at # None
    BY <1>11, CycleNow DEF Arrive, At
  <2>2. CycleBecomes(w, tx[w].todo, tx[w].copy, tx[w].wrote, tx[w].locks, tx[w].at, TRUE)
    BY <1>11, ArriveEffect
  <2>3. sent' \in [Items -> Nat]
    <3>1. PICK n \in Nat : sent' = [sent EXCEPT ![tx[w].at] = n]
      <4>1. tx[w].at \in Items
        BY <2>1, CopyKnown DEF CycleOK
      <4>2. sent[tx[w].at] + 1 \in Nat
        BY <1>0, <4>1
      <4>3. sent' = [sent EXCEPT ![tx[w].at] = IF channel = "receipt" THEN 1 ELSE sent[tx[w].at] + 1]
        BY <1>11 DEF Arrive
      <4> QED BY <4>2, <4>3
    <3> QED BY <1>0, <3>1
  <2>4. UNCHANGED <<channel, row, target, desk, reopens, changes, faults>>
    BY <1>11 DEF Arrive
  <2>5. /\ tx' \in [Workers -> Cycles \cup {None}]
        /\ \A v \in Workers : tx'[v] # None => CycleOK(tx'[v])
    <3>1. /\ channel # "webhook" => tx[w].todo \subseteq DOMAIN tx[w].copy
          /\ DOMAIN tx[w].wrote \subseteq DOMAIN tx[w].copy /\ tx[w].at \in DOMAIN tx[w].copy
      BY <2>1 DEF CycleOK
    <3> QED BY <2>2, <3>1, CyclesAgain
  <2>6. row' \in [Items -> Rows \cup {None}] /\ RowsKept
    BY <2>4, NoRow DEF Typed
  <2> QED BY <1>0, <2>3, <2>4, <2>5, <2>6, TypesAgain
<1>12. ASSUME NEW w \in Workers, NEW ok \in BOOLEAN, NEW retryable \in BOOLEAN, Settle(w, ok, retryable)
       PROVE  TypeOK' /\ Typed' /\ RowsKept
  <2>1. UNCHANGED others
    BY <1>12 DEF Settle, others
  <2>2. tx[w] # None /\ CycleOK(tx[w]) /\ tx[w].at \in DOMAIN tx[w].copy
    BY <1>12, SettleEffect, CycleNow DEF At
  <2>3. CASE channel = "receipt"
    <3> DEFINE fresh == IF ok THEN tx[w].copy ELSE Reread(w, row')
    <3>1. RowsKept /\ CycleBecomes(w, tx[w].todo, fresh, tx[w].wrote, tx[w].locks, None, FALSE)
      BY <1>12, <2>3, SettleEffect
    <3>2. DOMAIN fresh = DOMAIN tx[w].copy
      BY <2>2, <3>1, RereadBatch
    <3> HIDE DEF fresh
    <3>3. /\ channel # "webhook" => tx[w].todo \subseteq DOMAIN fresh
          /\ DOMAIN tx[w].wrote \subseteq DOMAIN fresh
      BY <2>2, <3>2 DEF CycleOK
    <3> QED BY <2>1, <3>1, <3>3, CycleStepTypes
  <2>4. CASE channel # "receipt"
    <3>1. PICK r \in Rows :
            CycleBecomes(w, tx[w].todo, tx[w].copy, Put(tx[w].wrote, tx[w].at, r), tx[w].locks, None, FALSE)
      BY <1>12, <2>4, SettleEffect
    <3>2. tx[w].at \in Items /\ tx[w].wrote \in Batches
      BY <2>2, CopyKnown, CycleNow
    <3>3. DOMAIN Put(tx[w].wrote, tx[w].at, r) = DOMAIN tx[w].wrote \cup {tx[w].at}
      <4>1. r \in Rows
        BY <3>1
      <4>2. \A i \in Items : DOMAIN Put(tx[w].wrote, i, r) = DOMAIN tx[w].wrote \cup {i}
        BY <3>2, <4>1, PutBatch
      <4> QED BY <3>2, <4>2
    <3>4. RowsKept
      BY <1>12, <2>4, SettleEffect, NoRow
    <3>5. /\ channel # "webhook" => tx[w].todo \subseteq DOMAIN tx[w].copy
          /\ DOMAIN Put(tx[w].wrote, tx[w].at, r) \subseteq DOMAIN tx[w].copy
      BY <2>2, <3>3 DEF CycleOK
    <3> QED BY <2>1, <3>1, <3>4, <3>5, CycleStepTypes
  <2> QED BY <2>3, <2>4
<1>13. ASSUME NEW w \in Workers, Commit(w) PROVE TypeOK' /\ Typed' /\ RowsKept
  <2> DEFINE kept == IF channel = "webhook" THEN [i \in {} |-> None] ELSE tx[w].copy
  <2>1. /\ tx[w] # None /\ RowsKept
        /\ channel # "webhook" => tx[w].todo = {}
        /\ CycleBecomes(w, tx[w].todo, kept, [i \in {} |-> None], {}, None, tx[w].arrived)
    BY <1>13, CommitEffect
  <2>2. /\ tx' \in [Workers -> Cycles \cup {None}]
        /\ \A v \in Workers : tx'[v] # None => CycleOK(tx'[v])
    <3> HIDE DEF kept
    <3> QED BY <2>1, NoBatch, CyclesAgain
  <2>3. sent' \in [Items -> Nat]
    BY <1>0, <1>13 DEF Commit
  <2>4. target' \in Targets
    <3>1. MarksTested(w)
      BY <1>13, CommitEffect
    <3>2. \A t \in Targets : t.version \in Nat
      BY DEF Targets
    <3>3. target' = target \/ \E version \in Nat : target' = Marked(target, version)
      BY <3>1, <3>2 DEF MarksTested
    <3> QED BY <1>0, <3>3, MarkedTarget
  <2>5. UNCHANGED <<channel, desk, reopens, changes, faults>>
    BY <1>13 DEF Commit
  <2>6. row' \in [Items -> Rows \cup {None}]
    BY <2>1 DEF RowsKept
  <2> QED BY <1>0, <2>1, <2>2, <2>3, <2>4, <2>5, <2>6, TypesAgain
<1>14. CASE UNCHANGED vars
  BY <1>0, <1>14, NoRow, QuietStepTypes DEF vars
<1> QED  BY <1>1, <1>2, <1>3, <1>4, <1>5, <1>6, <1>7, <1>8, <1>9, <1>10, <1>11, <1>12, <1>13, <1>14
         DEF Next, CycleStep

-----------------------------------------------------------------------------
(* Known: what is copied, read or sent has a row.                          *)

LEMMA CopiesAgain ==
  ASSUME TypeOK, Typed, Known, RowsKept,
         NEW w \in Workers, NEW todo, NEW copy, NEW wrote, NEW locks, NEW at, NEW arrived,
         CycleBecomes(w, todo, copy, wrote, locks, at, arrived),
         \A i \in DOMAIN copy : /\ row'[i] # None /\ copy[i].test = row'[i].test
                                /\ i \in DOMAIN wrote => wrote[i].test = row'[i].test
  PROVE  KnownCopies'
<1>1. ASSUME NEW v \in Workers \ {w}, tx'[v] # None, NEW i \in DOMAIN tx'[v].copy
      PROVE  /\ row'[i] # None /\ tx'[v].copy[i].test = row'[i].test
             /\ i \in DOMAIN tx'[v].wrote => tx'[v].wrote[i].test = row'[i].test
  <2>1. tx'[v] = tx[v] /\ tx[v] # None
    BY <1>1 DEF CycleBecomes
  <2>2. i \in Items
    BY <1>1, <2>1, CopyKnown
  <2> QED BY <1>1, <2>1, <2>2 DEF Known, KnownCopies, RowsKept
<1>2. tx'[w].copy = copy /\ tx'[w].wrote = wrote
  BY DEF CycleBecomes
<1> QED  BY <1>1, <1>2 DEF KnownCopies

LEMMA CopiesStay ==
  ASSUME TypeOK, Typed, Known, RowsKept, NEW w \in Workers, tx[w] # None, NEW i \in DOMAIN tx[w].copy
  PROVE  /\ row'[i] # None /\ tx[w].copy[i].test = row'[i].test
         /\ i \in DOMAIN tx[w].wrote => tx[w].wrote[i].test = row'[i].test
<1>1. i \in Items
  BY CopyKnown
<1> QED  BY <1>1 DEF Known, KnownCopies, RowsKept

LEMMA SameCopies ==
  ASSUME TypeOK, Typed, Known, RowsKept, NEW w \in Workers, tx[w] # None,
         NEW todo, NEW locks, NEW at, NEW arrived,
         CycleBecomes(w, todo, tx[w].copy, tx[w].wrote, locks, at, arrived)
  PROVE  KnownCopies'
<1>1. \A i \in DOMAIN tx[w].copy : /\ row'[i] # None /\ tx[w].copy[i].test = row'[i].test
                                   /\ i \in DOMAIN tx[w].wrote => tx[w].wrote[i].test = row'[i].test
  BY CopiesStay
<1> QED  BY <1>1, CopiesAgain

LEMMA CopiesLeft ==
  ASSUME TypeOK, Typed, Known, RowsKept, tx' = tx \/ \E w \in Workers : tx' = [tx EXCEPT ![w] = None]
  PROVE  KnownCopies'
<1>1. \A v \in Workers : tx'[v] # None => tx'[v] = tx[v]
  BY CyclesLeft
<1> QED  BY <1>1, CopiesStay DEF KnownCopies

LEMMA CopiesPreserved == TypeOK /\ Typed /\ Known /\ [Next]_vars => KnownCopies'
<1> SUFFICES ASSUME TypeOK, Typed, Known, [Next]_vars PROVE KnownCopies'
    OBVIOUS
<1>0. RowsKept
  BY TypesPreserved
<1>1. ASSUME NEW w \in Workers, Select(w) PROVE KnownCopies'
  <2>1. PICK batch \in SUBSET {i \in Items : Due(row[i])}, copy \in Batches :
           /\ DOMAIN copy = IF channel = "webhook" THEN {} ELSE batch
           /\ \A i \in DOMAIN copy : copy[i] = row[i]
           /\ CycleBecomes(w, batch, copy, [i \in {} |-> None],
                           IF channel \in {"teams", "scim", "receipt"} THEN batch ELSE {},
                           None, FALSE)
    BY <1>1, SelectEffect
  <2>2. \A i \in DOMAIN copy : row'[i] # None /\ copy[i].test = row'[i].test
    BY <1>1, <2>1 DEF Select, Due, Waiting
  <2> QED BY <1>0, <2>1, <2>2, NoBatch, CopiesAgain
<1>2. ASSUME NEW w \in Workers, NEW i \in Items, Skip(w, i) PROVE KnownCopies'
  <2>1. tx[w] # None
    BY <1>2 DEF Skip, Turn
  <2>2. CycleBecomes(w, tx[w].todo \ {i}, tx[w].copy, tx[w].wrote, tx[w].locks, None, tx[w].arrived)
    BY <1>2, SkipEffect
  <2> QED BY <1>0, <2>1, <2>2, SameCopies
<1>3. ASSUME NEW w \in Workers, Arrive(w) PROVE KnownCopies'
  <2>1. tx[w] # None
    BY <1>3 DEF Arrive, At
  <2>2. CycleBecomes(w, tx[w].todo, tx[w].copy, tx[w].wrote, tx[w].locks, tx[w].at, TRUE)
    BY <1>3, ArriveEffect
  <2> QED BY <1>0, <2>1, <2>2, SameCopies
<1>4. ASSUME NEW w \in Workers, NEW i \in Items, Divert(w, i) PROVE KnownCopies'
  <2>1. tx[w] # None /\ tx[w].copy \in Batches /\ tx[w].wrote \in Batches /\ i \in tx[w].todo
    BY <1>4, DivertEffect, CycleNow
  <2>2. CASE channel = "receipt"
    <3>1. CycleBecomes(w, tx[w].todo \ {i}, Reread(w, row'), tx[w].wrote, {}, None, tx[w].arrived)
      BY <1>4, <2>2, DivertEffect
    <3>2. DOMAIN Reread(w, row') = DOMAIN tx[w].copy
          /\ \A j \in DOMAIN tx[w].copy : Reread(w, row')[j] = row'[j]
      BY <1>0, <2>1, RereadBatch
    <3> QED BY <1>0, <2>1, <3>1, <3>2, CopiesStay, CopiesAgain
  <2>3. CASE channel = "webhook"
    <3>0. PICK r \in Rows :
            /\ IsDiversionOf(r, row[i])
            /\ CycleBecomes(w, tx[w].todo \ {i}, Put(tx[w].copy, i, row[i]), Put(tx[w].wrote, i, r),
                            tx[w].locks \cup {i}, None, tx[w].arrived)
      BY <1>4, <2>3, DivertEffect
    <3> DEFINE copy == Put(tx[w].copy, i, row[i])
               wrote == Put(tx[w].wrote, i, r)
    <3>1. row[i] \in Rows /\ row' = row
      BY <1>4, <2>3, DivertEffect
    <3>2. r.test = row[i].test
      BY <3>0, <3>1, DivertedRow
    <3>3. /\ DOMAIN copy = DOMAIN tx[w].copy \cup {i} /\ copy[i] = row[i]
          /\ \A j \in DOMAIN tx[w].copy \ {i} : copy[j] = tx[w].copy[j]
      BY DEF Put
    <3>4. /\ DOMAIN wrote = DOMAIN tx[w].wrote \cup {i} /\ wrote[i] = r
          /\ \A j \in DOMAIN tx[w].wrote \ {i} : wrote[j] = tx[w].wrote[j]
      BY DEF Put
    <3>6. CycleBecomes(w, tx[w].todo \ {i}, copy, wrote, tx[w].locks \cup {i}, None, tx[w].arrived)
      BY <3>0
    <3>5. row'[i] # None
      BY <3>1, NoneAssumption
    <3> HIDE DEF copy, wrote
    <3>7. \A j \in DOMAIN copy : /\ row'[j] # None /\ copy[j].test = row'[j].test
                                 /\ j \in DOMAIN wrote => wrote[j].test = row'[j].test
      BY <1>0, <2>1, <3>1, <3>2, <3>3, <3>4, <3>5, CopiesStay
    <3> QED BY <1>0, <3>6, <3>7, CopiesAgain
  <2>4. CASE channel \notin {"receipt", "webhook"}
    <3>0. PICK r \in Rows :
            /\ IsDiversionOf(r, tx[w].copy[i])
            /\ CycleBecomes(w, tx[w].todo \ {i}, tx[w].copy, Put(tx[w].wrote, i, r), tx[w].locks, None,
                            tx[w].arrived)
      BY <1>4, <2>4, DivertEffect
    <3> DEFINE wrote == Put(tx[w].wrote, i, r)
    <3>1. /\ i \in DOMAIN tx[w].copy /\ row' = row
          /\ CycleBecomes(w, tx[w].todo \ {i}, tx[w].copy, wrote, tx[w].locks, None, tx[w].arrived)
      BY <1>4, <2>4, <3>0, DivertEffect
    <3>2. r.test = tx[w].copy[i].test
      BY <2>1, <3>0, <3>1, CopyKnown, DivertedRow
    <3>3. /\ DOMAIN wrote = DOMAIN tx[w].wrote \cup {i} /\ wrote[i] = r
          /\ \A j \in DOMAIN tx[w].wrote \ {i} : wrote[j] = tx[w].wrote[j]
      BY DEF Put
    <3> HIDE DEF wrote
    <3>4. \A j \in DOMAIN tx[w].copy : /\ row'[j] # None /\ tx[w].copy[j].test = row'[j].test
                                       /\ j \in DOMAIN wrote => wrote[j].test = row'[j].test
      BY <1>0, <2>1, <3>1, <3>2, <3>3, CopiesStay
    <3> QED BY <1>0, <3>1, <3>4, CopiesAgain
  <2> QED BY <2>2, <2>3, <2>4
<1>5. ASSUME NEW w \in Workers, NEW i \in Items, Begin(w, i) PROVE KnownCopies'
  <2>1. tx[w] # None /\ tx[w].copy \in Batches
    BY <1>5, BeginEffect, CycleNow
  <2>2. CASE channel = "receipt"
    <3>1. CycleBecomes(w, tx[w].todo \ {i}, tx[w].copy, tx[w].wrote, {}, i, tx[w].arrived)
      BY <1>5, <2>2, BeginEffect
    <3> QED BY <1>0, <2>1, <3>1, SameCopies
  <2>3. CASE channel = "webhook"
    <3> DEFINE copy == Put(tx[w].copy, i, row[i])
    <3>1. /\ row[i] \in Rows /\ row' = row
          /\ CycleBecomes(w, tx[w].todo \ {i}, copy, tx[w].wrote, {i}, i, tx[w].arrived)
      BY <1>5, <2>3, BeginEffect
    <3>2. /\ DOMAIN copy = DOMAIN tx[w].copy \cup {i} /\ copy[i] = row[i]
          /\ \A j \in DOMAIN tx[w].copy \ {i} : copy[j] = tx[w].copy[j]
      BY DEF Put
    <3>3. row'[i] # None
      BY <3>1, NoneAssumption
    <3>4. DOMAIN tx[w].wrote \subseteq DOMAIN tx[w].copy
      BY <2>1, CycleNow DEF CycleOK
    <3> HIDE DEF copy
    <3>5. \A j \in DOMAIN copy : /\ row'[j] # None /\ copy[j].test = row'[j].test
                                 /\ j \in DOMAIN tx[w].wrote => tx[w].wrote[j].test = row'[j].test
      BY <1>0, <2>1, <3>1, <3>2, <3>3, <3>4, CopiesStay
    <3> QED BY <1>0, <3>1, <3>5, CopiesAgain
  <2>4. CASE channel \notin {"receipt", "webhook"}
    <3>1. CycleBecomes(w, tx[w].todo \ {i}, tx[w].copy, tx[w].wrote, tx[w].locks, i, tx[w].arrived)
      BY <1>5, <2>4, BeginEffect
    <3> QED BY <1>0, <2>1, <3>1, SameCopies
  <2> QED BY <2>2, <2>3, <2>4
<1>6. ASSUME NEW w \in Workers, NEW ok \in BOOLEAN, NEW retryable \in BOOLEAN, Settle(w, ok, retryable)
      PROVE  KnownCopies'
  <2>1. /\ tx[w] # None /\ tx[w].at \in DOMAIN tx[w].copy
        /\ tx[w].copy \in Batches /\ tx[w].wrote \in Batches
    BY <1>6, SettleEffect, CycleNow DEF At
  <2>2. PICK i \in Items : i = tx[w].at
    BY <2>1, CopyKnown
  <2>3. CASE channel = "receipt"
    <3> DEFINE fresh == IF ok THEN tx[w].copy ELSE Reread(w, row')
    <3>1. PICK arrived \in BOOLEAN :
            CycleBecomes(w, tx[w].todo, fresh, tx[w].wrote, tx[w].locks, None, arrived)
      BY <1>6, <2>3, SettleEffect
    <3>2. DOMAIN Reread(w, row') = DOMAIN tx[w].copy
          /\ \A j \in DOMAIN tx[w].copy : Reread(w, row')[j] = row'[j]
      BY <1>0, <2>1, RereadBatch
    <3>3. \A j \in DOMAIN fresh : /\ row'[j] # None /\ fresh[j].test = row'[j].test
                                  /\ j \in DOMAIN tx[w].wrote => tx[w].wrote[j].test = row'[j].test
      BY <1>0, <2>1, <3>2, CopiesStay
    <3> HIDE DEF fresh
    <3> QED BY <1>0, <3>1, <3>3, CopiesAgain
  <2>4. CASE channel # "receipt"
    <3>1. PICK r \in Rows :
            /\ IsOutcomeOf(r, Tried(tx[w].copy[tx[w].at]), ok)
            /\ CycleBecomes(w, tx[w].todo, tx[w].copy, Put(tx[w].wrote, tx[w].at, r), tx[w].locks, None, FALSE)
      BY <1>6, <2>4, SettleEffect
    <3> DEFINE wrote == Put(tx[w].wrote, i, r)
    <3>2. r.test = tx[w].copy[i].test
      <4>1. tx[w].copy[i] \in Rows
        BY <2>1, <2>2, CopyKnown
      <4>2. Tried(tx[w].copy[i]) \in Rows /\ Tried(tx[w].copy[i]).test = tx[w].copy[i].test
        BY <4>1, RowSteps
      <4> QED BY <2>2, <3>1, <4>2, OutcomeRow
    <3>3. /\ DOMAIN wrote = DOMAIN tx[w].wrote \cup {i} /\ wrote[i] = r
          /\ \A j \in DOMAIN tx[w].wrote \ {i} : wrote[j] = tx[w].wrote[j]
      BY DEF Put
    <3>4. PICK arrived \in BOOLEAN :
            CycleBecomes(w, tx[w].todo, tx[w].copy, wrote, tx[w].locks, None, arrived)
      BY <2>2, <3>1
    <3> HIDE DEF wrote
    <3>5. \A j \in DOMAIN tx[w].copy : /\ row'[j] # None /\ tx[w].copy[j].test = row'[j].test
                                       /\ j \in DOMAIN wrote => wrote[j].test = row'[j].test
      BY <1>0, <2>1, <2>2, <3>2, <3>3, CopiesStay
    <3> QED BY <1>0, <3>4, <3>5, CopiesAgain
  <2> QED BY <2>3, <2>4
<1>7. ASSUME NEW w \in Workers, Commit(w) PROVE KnownCopies'
  <2> DEFINE kept == IF channel = "webhook" THEN [i \in {} |-> None] ELSE tx[w].copy
  <2>1. /\ tx[w] # None
        /\ CycleBecomes(w, tx[w].todo, kept, [i \in {} |-> None], {}, None, tx[w].arrived)
    BY <1>7, CommitEffect
  <2>2. \A j \in DOMAIN kept : row'[j] # None /\ kept[j].test = row'[j].test
    BY <1>0, <2>1, NoBatch, CopiesStay
  <2> HIDE DEF kept
  <2> QED BY <1>0, <2>1, <2>2, NoBatch, CopiesAgain
<1>8. CASE tx' = tx \/ \E w \in Workers : tx' = [tx EXCEPT ![w] = None]
  BY <1>0, <1>8, CopiesLeft
<1>9. ASSUME NEW i \in Items, NEW j \in Items,
             Queue(i) \/ Provision(i) \/ BecomeDue(i) \/ Bounce(i) \/ ReplayDelivery(i, j)
      PROVE  KnownCopies'
  BY <1>8, <1>9 DEF Queue, Provision, BecomeDue, Bounce, ReplayDelivery
<1>10. ASSUME NEW c \in Clerks, (\E i \in Items : Open(c, i)) \/ Reopen(c) \/ Reapply(c)
       PROVE  KnownCopies'
  BY <1>8, <1>10 DEF Open, Reopen, Reapply
<1>11. ASSUME NEW status \in {"PAUSED", "ACTIVE", "REVOKED"}, SetStatus(status) \/ Rotate
       PROVE  KnownCopies'
  BY <1>8, <1>11 DEF SetStatus, Rotate, Change
<1>12. ASSUME NEW w \in Workers, Finish(w) \/ Abort(w) PROVE KnownCopies'
  BY <1>8, <1>12 DEF Finish, Abort
<1>13. CASE UNCHANGED vars
  BY <1>8, <1>13 DEF vars
<1> QED  BY <1>1, <1>2, <1>3, <1>4, <1>5, <1>6, <1>7, <1>9, <1>10, <1>11, <1>12, <1>13
         DEF Next, CycleStep

\* An item arrives once in a step at most, and only if it has a row.
SentMoves ==
  \A i \in Items : /\ sent[i] \in Nat /\ sent'[i] \in {sent[i], sent[i] + 1}
                   /\ sent'[i] # sent[i] => row'[i] # None

LEMMA SentStays ==
  ASSUME TypeOK, sent' = sent
  PROVE  SentMoves
BY DEF TypeOK, SentMoves

LEMMA SentOnce ==
  ASSUME TypeOK, NEW i \in Items, sent' = [sent EXCEPT ![i] = @ + 1], row'[i] # None
  PROVE  SentMoves
<1>1. sent \in [Items -> Nat]
  BY DEF TypeOK
<1> QED  BY <1>1 DEF SentMoves

LEMMA SentStep == TypeOK /\ Typed /\ Known /\ Earned /\ [Next]_vars => SentMoves
<1> SUFFICES ASSUME TypeOK, Typed, Known, Earned, [Next]_vars PROVE SentMoves
    OBVIOUS
<1>0. RowsKept /\ sent \in [Items -> Nat]
  BY TypesPreserved DEF TypeOK
<1>1. ASSUME NEW i \in Items, NEW j \in Items, Queue(i) \/ Provision(i) \/ ReplayDelivery(j, i)
      PROVE  SentMoves
  <2>1. row'[i] # None
    BY <1>1, AcceptEffect, OneRow
  <2>2. sent' = sent \/ sent' = [sent EXCEPT ![i] = @ + 1]
    BY <1>1, AcceptEffect
  <2> QED BY <2>1, <2>2, SentStays, SentOnce
<1>2. ASSUME NEW w \in Workers, Arrive(w) PROVE SentMoves
  <2>1. tx[w] # None /\ tx[w].at \in DOMAIN tx[w].copy
    BY <1>2, CycleNow DEF Arrive, At, CycleOK
  <2>2. PICK i \in Items : i = tx[w].at
    BY <2>1, CopyKnown
  <2>3. row'[i] # None
    BY <1>0, <2>1, <2>2, CopiesStay
  <2>4. CASE channel = "receipt"
    <3>1. sent' = [sent EXCEPT ![i] = 1] /\ sent[i] <= 1
      BY <1>2, <2>2, <2>4 DEF Arrive, Earned, EarnedOnce
    <3> QED BY <1>0, <2>3, <3>1 DEF SentMoves
  <2>5. CASE channel # "receipt"
    <3>1. sent' = [sent EXCEPT ![i] = @ + 1]
      BY <1>2, <2>2, <2>5 DEF Arrive
    <3> QED BY <2>3, <3>1, SentOnce
  <2> QED BY <2>4, <2>5
<1>3. ASSUME NEW w \in Workers, Commit(w) PROVE SentMoves
  <2>1. \A i \in Items : \/ sent'[i] = sent[i]
                         \/ sent'[i] = sent[i] + 1 /\ i \in DOMAIN tx[w].wrote
    BY <1>3 DEF Commit
  <2>2. tx[w] # None /\ \A i \in DOMAIN tx[w].wrote : i \in DOMAIN tx[w].copy
    BY <1>3, CommitEffect
  <2>3. \A i \in DOMAIN tx[w].wrote : row'[i] # None
    BY <1>0, <2>2, CopiesStay
  <2> QED BY <1>0, <2>1, <2>3 DEF SentMoves
<1>4. ASSUME NEW c \in Clerks, Reapply(c) PROVE SentMoves
  <2>1. PICK i \in Items : i = desk[c].item
    BY <1>4, DeskNow DEF Reapply
  <2>2. row'[i] # None
    BY <1>0, <1>4, <2>1, DeskNow, NoneAssumption DEF RowsKept, Reapply
  <2>3. sent' = sent \/ sent' = [sent EXCEPT ![i] = @ + 1]
    BY <1>4, <2>1 DEF Reapply
  <2> QED BY <2>2, <2>3, SentStays, SentOnce
<1>5. ASSUME sent' = sent PROVE SentMoves
  BY <1>5, SentStays
<1>6. ASSUME NEW i \in Items, BecomeDue(i) \/ Bounce(i) PROVE sent' = sent
  BY <1>6 DEF BecomeDue, Bounce
<1>7. ASSUME NEW w \in Workers, Select(w) \/ Finish(w) \/ Abort(w) PROVE sent' = sent
  BY <1>7 DEF Select, Finish, Abort
<1>8. ASSUME NEW w \in Workers, NEW i \in Items, Skip(w, i) \/ Divert(w, i) \/ Begin(w, i) PROVE sent' = sent
  BY <1>8 DEF Skip, Divert, Begin
<1>9. ASSUME NEW w \in Workers, NEW ok \in BOOLEAN, NEW retryable \in BOOLEAN, Settle(w, ok, retryable)
      PROVE  sent' = sent
  BY <1>9 DEF Settle
<1>10. ASSUME NEW c \in Clerks, (\E i \in Items : Open(c, i)) \/ Reopen(c) PROVE sent' = sent
  BY <1>10 DEF Open, Reopen
<1>11. ASSUME NEW status \in {"PAUSED", "ACTIVE", "REVOKED"}, SetStatus(status) \/ Rotate PROVE sent' = sent
  BY <1>11 DEF SetStatus, Rotate, Change
<1>12. CASE UNCHANGED vars
  BY <1>5, <1>12 DEF vars
<1> QED  BY <1>1, <1>2, <1>3, <1>4, <1>5, <1>6, <1>7, <1>8, <1>9, <1>10, <1>11, <1>12
         DEF Next, CycleStep

\* What a clerk has read stays, or has just been read.
LEMMA DeskMoves ==
  ASSUME TypeOK, [Next]_vars, NEW c \in Clerks, desk'[c] # None
  PROVE  \/ desk'[c] = desk[c]
         \/ \E i \in Items : /\ channel # "webhook" /\ row[i] # None /\ Retryable(row[i])
                             /\ row' = row /\ desk'[c] = [item |-> i, copy |-> row[i]]
<1> DEFINE Opened(i) == /\ channel # "webhook" /\ row[i] # None /\ Retryable(row[i])
                        /\ row' = row /\ desk'[c] = [item |-> i, copy |-> row[i]]
<1>0. desk \in [Clerks -> [item : Items, copy : Rows] \cup {None}]
  BY DEF TypeOK
<1>1. ASSUME NEW b \in Clerks, NEW i \in Items, Open(b, i) PROVE desk'[c] = desk[c] \/ Opened(i)
  BY <1>0, <1>1 DEF Open
<1>2. ASSUME NEW b \in Clerks, Reopen(b) \/ Reapply(b) PROVE desk'[c] = desk[c] \/ desk'[c] = None
  BY <1>0, <1>2 DEF Reopen, Reapply
<1>3. ASSUME NEW i \in Items, NEW j \in Items,
             Queue(i) \/ Provision(i) \/ BecomeDue(i) \/ Bounce(i) \/ ReplayDelivery(i, j)
      PROVE  desk' = desk
  BY <1>3 DEF Queue, Provision, BecomeDue, Bounce, ReplayDelivery
<1>4. ASSUME NEW w \in Workers, CycleStep(w) \/ Abort(w) PROVE desk' = desk
  BY <1>4 DEF CycleStep, Select, Commit, Finish, Arrive, Skip, Divert, Begin, Settle, Abort
<1>5. ASSUME NEW status \in {"PAUSED", "ACTIVE", "REVOKED"}, SetStatus(status) \/ Rotate PROVE desk' = desk
  BY <1>5 DEF SetStatus, Rotate, Change
<1>6. CASE UNCHANGED vars
  BY <1>6 DEF vars
<1> HIDE DEF Opened
<1>7. CASE \E b \in Clerks : (\E i \in Items : Open(b, i)) \/ Reopen(b) \/ Reapply(b)
  <2>1. desk'[c] = desk[c] \/ \E i \in Items : Opened(i)
    BY <1>1, <1>2, <1>7
  <2> QED BY <2>1 DEF Opened
<1>8. CASE desk' = desk
  BY <1>8
<1> QED  BY <1>3, <1>4, <1>5, <1>6, <1>7, <1>8 DEF Next

LEMMA DeskPreserved == TypeOK /\ Typed /\ Known /\ [Next]_vars => KnownDesk'
<1> SUFFICES ASSUME TypeOK, Typed, Known, [Next]_vars, NEW c \in Clerks, desk'[c] # None
             PROVE  row'[desk'[c].item] # None /\ desk'[c].copy.test = row'[desk'[c].item].test
  BY DEF KnownDesk
<1>1. RowsKept
  BY TypesPreserved
<1>2. CASE desk'[c] = desk[c]
  BY <1>1, <1>2, DeskNow, NoneAssumption DEF RowsKept
<1>3. CASE \E i \in Items : row[i] # None /\ row' = row /\ desk'[c] = [item |-> i, copy |-> row[i]]
  BY <1>3
<1> QED  BY <1>2, <1>3, DeskMoves

LEMMA SeenAgain ==
  ASSUME TypeOK, Typed, Known, channel' = channel,
         NEW w \in Workers, NEW todo, NEW copy, NEW wrote, NEW locks, NEW at, NEW arrived,
         CycleBecomes(w, todo, copy, wrote, locks, at, arrived),
         channel = "webhook" => SeenOK(tx'[w])
  PROVE  KnownSeen'
BY DEF CycleBecomes, Known, KnownSeen

LEMMA SeenPreserved == TypeOK /\ Typed /\ Known /\ [Next]_vars => KnownSeen'
<1> SUFFICES ASSUME TypeOK, Typed, Known, [Next]_vars, channel' = channel PROVE KnownSeen'
  BY ChannelStays
<1>1. CASE channel # "webhook"
  BY <1>1 DEF KnownSeen
<1>2. ASSUME NEW w \in Workers, Select(w) PROVE KnownSeen'
  <2>1. PICK todo, copy, locks :
          CycleBecomes(w, todo, copy, [i \in {} |-> None], locks, None, FALSE)
    BY <1>2, SelectEffect
  <2>2. tx'[w].failed = FALSE
    BY <1>2, NothingSeen
  <2>3. SeenOK(tx'[w])
    BY <2>1, <2>2, NoBatch DEF CycleBecomes, SeenOK
  <2> QED BY <2>1, <2>3, SeenAgain
<1>3. ASSUME channel = "webhook", NEW w \in Workers, NEW i \in Items, Skip(w, i) PROVE KnownSeen'
  <2>1. CycleBecomes(w, tx[w].todo \ {i}, tx[w].copy, tx[w].wrote, tx[w].locks, None, tx[w].arrived)
    BY <1>3, SkipEffect
  <2>2. DOMAIN tx[w].wrote = {}
    BY <1>3 DEF Skip, Turn, Uncommitted
  <2>3. tx'[w].failed = FALSE
    BY <1>3, NothingSeen
  <2>4. SeenOK(tx'[w])
    BY <2>1, <2>2, <2>3 DEF CycleBecomes, SeenOK
  <2> QED BY <2>1, <2>4, SeenAgain
<1>4. ASSUME channel = "webhook", NEW w \in Workers, NEW i \in Items, Begin(w, i) \/ Divert(w, i)
      PROVE  KnownSeen'
  <2>1. tx[w] # None
    BY <1>4 DEF Begin, Divert, Turn
  <2>2. tx'[w].seen # None
    <3>1. PICK t \in Found(w) : Sees(w, t)
      BY <1>4, TurnSees
    <3>2. t # None
      BY <1>4, <2>1, FoundTarget, NoneAssumption
    <3> QED BY <3>1, <3>2 DEF Sees
  <2>3. PICK todo, copy, wrote, locks, at, arrived : CycleBecomes(w, todo, copy, wrote, locks, at, arrived)
    BY <1>4, BeginEffect, DivertEffect
  <2> QED BY <2>2, <2>3, SeenAgain DEF SeenOK
<1>5. ASSUME channel = "webhook", NEW w \in Workers, Arrive(w) PROVE KnownSeen'
  <2>1. tx[w] # None /\ tx[w].at # None
    BY <1>5 DEF Arrive, At
  <2>2. tx[w].seen # None
    BY <1>5, <2>1 DEF Known, KnownSeen, SeenOK
  <2>3. tx'[w].seen = tx[w].seen
    BY <1>5, CallSees
  <2>4. CycleBecomes(w, tx[w].todo, tx[w].copy, tx[w].wrote, tx[w].locks, tx[w].at, TRUE)
    BY <1>5, ArriveEffect
  <2> QED BY <2>2, <2>3, <2>4, SeenAgain DEF SeenOK
<1>6. ASSUME channel = "webhook", NEW w \in Workers, NEW ok \in BOOLEAN, NEW retryable \in BOOLEAN,
             Settle(w, ok, retryable)
      PROVE  KnownSeen'
  <2>1. tx[w] # None /\ tx[w].at # None
    BY <1>6 DEF Settle, At
  <2>2. tx[w].seen # None
    BY <1>6, <2>1 DEF Known, KnownSeen, SeenOK
  <2>3. tx'[w].seen = tx[w].seen
    BY <1>6, CallSees
  <2>4. PICK todo, copy, wrote, locks, at, arrived : CycleBecomes(w, todo, copy, wrote, locks, at, arrived)
    BY <1>6, SettleEffect
  <2> QED BY <2>2, <2>3, <2>4, SeenAgain DEF SeenOK
<1>7. ASSUME channel = "webhook", NEW w \in Workers, Commit(w) PROVE KnownSeen'
  <2>1. /\ tx[w] # None /\ MarksTested(w)
        /\ CycleBecomes(w, tx[w].todo, [i \in {} |-> None], [i \in {} |-> None], {}, None, tx[w].arrived)
    BY <1>7, CommitEffect
  <2>2. tx[w].failed => tx[w].seen \in Targets
    BY <1>7, <2>1, CycleNow DEF Known, KnownSeen, SeenOK
  <2>3. tx[w].failed => Marked(tx[w].seen, tx[w].seen.version) \in Targets
    BY <2>2, MarkedTarget DEF Targets
  <2>4. tx'[w].failed => tx'[w].seen # None
    BY <1>7, <2>1, <2>2, <2>3, NoneAssumption DEF MarksTested, SessionSees
  <2>5. SeenOK(tx'[w])
    BY <2>1, <2>4, NoBatch DEF CycleBecomes, SeenOK
  <2> QED BY <2>1, <2>5, SeenAgain
<1>8. CASE tx' = tx \/ \E w \in Workers : tx' = [tx EXCEPT ![w] = None]
  <2>1. \A w \in Workers : tx'[w] # None => tx'[w] = tx[w]
    BY <1>8, CyclesLeft
  <2> QED BY <2>1 DEF Known, KnownSeen
<1>9. ASSUME NEW i \in Items, NEW j \in Items,
             Queue(i) \/ Provision(i) \/ BecomeDue(i) \/ Bounce(i) \/ ReplayDelivery(i, j)
      PROVE  KnownSeen'
  BY <1>8, <1>9 DEF Queue, Provision, BecomeDue, Bounce, ReplayDelivery
<1>10. ASSUME NEW c \in Clerks, (\E i \in Items : Open(c, i)) \/ Reopen(c) \/ Reapply(c)
      PROVE  KnownSeen'
  BY <1>8, <1>10 DEF Open, Reopen, Reapply
<1>11. ASSUME NEW w \in Workers, Finish(w) \/ Abort(w) PROVE KnownSeen'
  BY <1>8, <1>11 DEF Finish, Abort
<1>12. ASSUME NEW status \in {"PAUSED", "ACTIVE", "REVOKED"}, SetStatus(status) \/ Rotate
       PROVE  KnownSeen'
  BY <1>8, <1>12 DEF SetStatus, Rotate, Change
<1>13. CASE UNCHANGED vars
  BY <1>8, <1>13 DEF vars
<1> QED  BY <1>1, <1>2, <1>3, <1>4, <1>5, <1>6, <1>7, <1>9, <1>10, <1>11, <1>12, <1>13 DEF Next, CycleStep

LEMMA KnownPreserved == TypeOK /\ Typed /\ Known /\ Earned /\ [Next]_vars => Known'
<1> SUFFICES ASSUME TypeOK, Typed, Known, Earned, [Next]_vars PROVE Known'
    OBVIOUS
<1>1. KnownCopies' /\ KnownDesk'
  BY CopiesPreserved, DeskPreserved
<1>2. KnownSent'
  <2>1. RowsKept /\ SentMoves
    BY TypesPreserved, SentStep
  <2> QED BY <2>1 DEF Known, KnownSent, SentMoves, RowsKept
<1>3. KnownSeen'
  BY SeenPreserved
<1> QED  BY <1>1, <1>2, <1>3 DEF Known

-----------------------------------------------------------------------------
(* Earned: what says done has arrived.                                     *)

\* Rows that come to say done in this step have arrived.
Honest ==
  \A i \in Items : row'[i] # None /\ row'[i].status = "DONE" =>
    \/ row[i] # None /\ row[i].status = "DONE"
    \/ sent'[i] > 0

LEMMA OneHonest ==
  ASSUME Typed, NEW i \in Items, NEW r \in Rows, row' = [row EXCEPT ![i] = r],
         r.status = "DONE" => (row[i] # None /\ row[i].status = "DONE") \/ sent'[i] > 0
  PROVE  Honest
BY DEF Typed, Honest

LEMMA HonestStep == TypeOK /\ Typed /\ Known /\ Earned /\ [Next]_vars => Honest
<1> SUFFICES ASSUME TypeOK, Typed, Known, Earned, [Next]_vars PROVE Honest
    OBVIOUS
<1>0. SentMoves
  BY SentStep
<1>1. ASSUME NEW i \in Items, NEW j \in Items, Queue(i) \/ Provision(i) \/ ReplayDelivery(j, i)
      PROVE  Honest
  <2>1. PICK r \in Rows : row' = [row EXCEPT ![i] = r] /\ (r.status = "DONE" => sent'[i] = sent[i] + 1)
    BY <1>1, AcceptEffect
  <2>2. r.status = "DONE" => sent'[i] > 0
    BY <1>0, <2>1 DEF SentMoves
  <2> QED BY <2>1, <2>2, OneHonest
<1>2. ASSUME NEW i \in Items, BecomeDue(i) PROVE Honest
  <2>1. PICK r \in Rows : row' = [row EXCEPT ![i] = r] /\ r.status = row[i].status
    BY <1>2, DueEffect
  <2>2. row[i] # None
    BY <1>2, DueEffect, NoneAssumption
  <2> QED BY <2>1, <2>2, OneHonest
<1>3. ASSUME NEW i \in Items, Bounce(i) PROVE Honest
  <2>1. row' = [row EXCEPT ![i] = GivenUp(row[i])] /\ row[i] \in Rows
    BY <1>3, BounceEffect
  <2>2. GivenUp(row[i]) \in Rows /\ GivenUp(row[i]).status # "DONE"
    BY <2>1, RowSteps
  <2> QED BY <2>1, <2>2, OneHonest
<1>4. ASSUME NEW w \in Workers, NEW i \in Items, Divert(w, i), channel = "receipt" PROVE Honest
  <2>1. row[i] \in Rows
    BY <1>4, DivertEffect
  <2>2. PICK r \in Rows : row' = [row EXCEPT ![i] = r] /\ IsDiversionOf(r, row[i])
    BY <1>4, DivertEffect
  <2>3. row[i] # None /\ (r.status = "DONE" => row[i].status = "DONE")
    BY <2>1, <2>2, DivertedRow, NoneAssumption
  <2> QED BY <2>2, <2>3, OneHonest
<1>5. ASSUME NEW w \in Workers, NEW i \in Items, Begin(w, i), channel = "receipt" PROVE Honest
  <2>1. PICK r \in Rows : row' = [row EXCEPT ![i] = r] /\ (r.status = "DONE" => row[i].status = "DONE")
    BY <1>5, BeginEffect
  <2>2. tx[w] # None /\ i \in DOMAIN tx[w].copy
    BY <1>5, BeginEffect, CycleNow DEF CycleOK
  <2>3. row[i] # None
    BY <2>2, CopyKnown, NoneAssumption
  <2> QED BY <2>1, <2>3, OneHonest
<1>6. ASSUME NEW w \in Workers, NEW ok \in BOOLEAN, NEW retryable \in BOOLEAN,
             Settle(w, ok, retryable), channel = "receipt"
      PROVE  Honest
  <2>1. tx[w] # None /\ tx[w].at \in DOMAIN tx[w].copy /\ (ok => tx[w].arrived)
    BY <1>6, SettleEffect DEF At
  <2>2. PICK i \in Items : i = tx[w].at
    BY <2>1, CopyKnown
  <2>3. PICK r \in Rows : row' = [row EXCEPT ![i] = r] /\ IsOutcomeOf(r, row[i], ok)
    <3>1. \E r \in Rows : row' = [row EXCEPT ![tx[w].at] = r] /\ IsOutcomeOf(r, row[tx[w].at], ok)
      BY <1>6, SettleEffect, ZenonT(20)
    <3> QED BY <2>2, <3>1
  <2>4. row[i] \in Rows
    BY <2>1, <2>2, CopyKnown
  <2>5. r.status = "DONE" => ok
    BY <2>3, <2>4, OutcomeRow
  <2>6. ok => sent[i] > 0
    BY <2>1, <2>2 DEF Earned, EarnedCycles
  <2>7. ok => sent'[i] > 0
    BY <1>0, <2>6 DEF SentMoves
  <2> QED BY <2>3, <2>5, <2>7, OneHonest
<1>7. ASSUME NEW w \in Workers, Commit(w) PROVE Honest
  <2>1. /\ tx[w] # None
        /\ \A i \in DOMAIN tx[w].wrote :
              /\ i \in DOMAIN tx[w].copy /\ tx[w].wrote[i] \in Rows
              /\ row'[i] = Write(row[i], tx[w].copy[i], tx[w].wrote[i])
        /\ \A i \in Items \ DOMAIN tx[w].wrote : row'[i] = row[i]
    BY <1>7, CommitEffect
  <2>2. ASSUME NEW i \in DOMAIN tx[w].wrote, row'[i].status = "DONE"
        PROVE  (row[i] # None /\ row[i].status = "DONE") \/ sent'[i] > 0
    <3>1. i \in Items /\ tx[w].copy[i] \in Rows /\ row[i] \in Rows /\ tx[w].wrote[i] \in Rows
      BY <2>1, <2>2, CopyKnown
    <3>2. row[i].status = "DONE" \/ tx[w].wrote[i].status = "DONE"
      BY <2>1, <2>2, <3>1, WriteRow
    <3>3. tx[w].wrote[i].status = "DONE" => sent[i] > 0 \/ channel = "scim"
      BY <2>1, <2>2 DEF Earned, EarnedCycles
    <3>4. tx[w].wrote[i].status = "DONE" /\ channel = "scim" => sent'[i] = sent[i] + 1
      BY <1>7, <2>2, <3>1 DEF Commit
    <3>5. tx[w].wrote[i].status = "DONE" => sent'[i] > 0
      BY <1>0, <3>1, <3>3, <3>4 DEF SentMoves
    <3> QED BY <3>1, <3>2, <3>5, NoneAssumption
  <2> QED BY <2>1, <2>2 DEF Honest
<1>8. ASSUME NEW c \in Clerks, Reopen(c) PROVE Honest
  <2>1. desk[c] # None
    BY <1>8, ReopenEffect
  <2>2. PICK i \in Items : i = desk[c].item
    BY <2>1, DeskNow
  <2>3. PICK r \in Rows : row' = [row EXCEPT ![i] = r] /\ (r.status = "DONE" => row[i].status = "DONE")
    BY <1>8, <2>2, ReopenEffect
  <2>4. row[i] # None
    BY <2>1, <2>2, DeskNow, NoneAssumption
  <2> QED BY <2>3, <2>4, OneHonest
<1>9. ASSUME NEW c \in Clerks, Reapply(c) PROVE Honest
  <2>1. desk[c] # None
    BY <1>9, ReapplyEffect
  <2>2. PICK i \in Items : i = desk[c].item
    BY <2>1, DeskNow
  <2>3. PICK r \in Rows :
          /\ row' = [row EXCEPT ![i] = r]
          /\ \/ sent' = [sent EXCEPT ![i] = @ + 1]
             \/ r.status = "DONE" => row[i].status = "DONE"
    BY <1>9, <2>2, ReapplyEffect
  <2>4. row[i] # None /\ sent \in [Items -> Nat]
    BY <2>1, <2>2, DeskNow, NoneAssumption DEF TypeOK
  <2>5. sent' = [sent EXCEPT ![i] = @ + 1] => sent'[i] > 0
    BY <2>4
  <2> QED BY <2>3, <2>4, <2>5, OneHonest
<1>10. ASSUME row' = row PROVE Honest
  BY <1>10 DEF Honest
<1>11. ASSUME NEW w \in Workers, Select(w) \/ Arrive(w) \/ Finish(w) \/ Abort(w) PROVE row' = row
  BY <1>11 DEF Select, Arrive, Finish, Abort
<1>12. ASSUME NEW w \in Workers, NEW i \in Items,
              Skip(w, i) \/ (channel # "receipt" /\ (Divert(w, i) \/ Begin(w, i)))
       PROVE  row' = row
  BY <1>12 DEF Skip, Divert, Begin
<1>13. ASSUME NEW w \in Workers, NEW ok \in BOOLEAN, NEW retryable \in BOOLEAN,
              Settle(w, ok, retryable), channel # "receipt"
       PROVE  row' = row
  BY <1>13 DEF Settle
<1>14. ASSUME NEW c \in Clerks, NEW i \in Items, Open(c, i) PROVE row' = row
  BY <1>14 DEF Open
<1>15. ASSUME NEW status \in {"PAUSED", "ACTIVE", "REVOKED"}, SetStatus(status) \/ Rotate PROVE row' = row
  BY <1>15 DEF SetStatus, Rotate, Change
<1>16. CASE UNCHANGED vars
  BY <1>10, <1>16 DEF vars
<1>17. ASSUME NEW w \in Workers, CycleStep(w) \/ Abort(w) PROVE Honest
  BY <1>4, <1>5, <1>6, <1>7, <1>10, <1>11, <1>12, <1>13, <1>17 DEF CycleStep
<1> QED  BY <1>1, <1>2, <1>3, <1>8, <1>9, <1>10, <1>14, <1>15, <1>16, <1>17 DEF Next

\* What a cycle has not committed has arrived where it says so.
LEMMA EarnedAgain ==
  ASSUME TypeOK, Typed, Known, Earned, SentMoves, channel' = channel,
         NEW w \in Workers, NEW todo, NEW copy, NEW wrote, NEW locks, NEW at, NEW arrived,
         CycleBecomes(w, todo, copy, wrote, locks, at, arrived),
         arrived => at # None /\ sent'[at] > 0,
         \A i \in DOMAIN wrote : wrote[i].status = "DONE" => sent'[i] > 0 \/ channel = "scim"
  PROVE  EarnedCycles'
<1>1. ASSUME NEW v \in Workers \ {w}, tx'[v] # None
      PROVE  /\ tx'[v].arrived => tx'[v].at # None /\ sent'[tx'[v].at] > 0
             /\ \A i \in DOMAIN tx'[v].wrote :
                  tx'[v].wrote[i].status = "DONE" => sent'[i] > 0 \/ channel = "scim"
  <2>1. tx'[v] = tx[v] /\ tx[v] # None
    BY <1>1 DEF CycleBecomes
  <2>2. /\ \A i \in DOMAIN tx[v].wrote : i \in Items
        /\ tx[v].at # None => tx[v].at \in Items
    BY <2>1, CycleNow, BatchIs
  <2> QED BY <2>1, <2>2 DEF Earned, EarnedCycles, SentMoves
<1>2. tx'[w].arrived = arrived /\ tx'[w].wrote = wrote /\ tx'[w].at = at
  BY DEF CycleBecomes
<1> QED  BY <1>1, <1>2 DEF EarnedCycles

LEMMA EarnedStays ==
  ASSUME TypeOK, Typed, Known, Earned, SentMoves, NEW w \in Workers, tx[w] # None
  PROVE  /\ tx[w].arrived => tx[w].at # None /\ sent'[tx[w].at] > 0
         /\ \A i \in DOMAIN tx[w].wrote :
              tx[w].wrote[i].status = "DONE" => sent'[i] > 0 \/ channel = "scim"
<1>1. /\ \A i \in DOMAIN tx[w].wrote : i \in Items
      /\ tx[w].at # None => tx[w].at \in Items
  BY CycleNow, BatchIs
<1> QED  BY <1>1 DEF Earned, EarnedCycles, SentMoves

LEMMA SameWrites ==
  ASSUME TypeOK, Typed, Known, Earned, SentMoves, channel' = channel, NEW w \in Workers, tx[w] # None,
         NEW todo, NEW copy, NEW locks, NEW at,
         CycleBecomes(w, todo, copy, tx[w].wrote, locks, at, tx[w].arrived),
         at = tx[w].at \/ tx[w].at = None
  PROVE  EarnedCycles'
<1>1. tx[w].arrived => at # None /\ sent'[at] > 0
  BY EarnedStays
<1>2. \A i \in DOMAIN tx[w].wrote : tx[w].wrote[i].status = "DONE" => sent'[i] > 0 \/ channel = "scim"
  BY EarnedStays
<1> QED  BY <1>1, <1>2, EarnedAgain

LEMMA OneWrite ==
  ASSUME TypeOK, Typed, Known, Earned, SentMoves, channel' = channel, NEW w \in Workers, tx[w] # None,
         NEW todo, NEW copy, NEW locks, NEW arrived, NEW i \in Items, NEW r \in Rows,
         CycleBecomes(w, todo, copy, Put(tx[w].wrote, i, r), locks, None, arrived),
         arrived = FALSE,
         r.status = "DONE" => sent'[i] > 0 \/ channel = "scim"
  PROVE  EarnedCycles'
<1> DEFINE wrote == Put(tx[w].wrote, i, r)
<1>1. tx[w].wrote \in Batches
  BY CycleNow
<1>2. /\ DOMAIN wrote = DOMAIN tx[w].wrote \cup {i} /\ wrote[i] = r
      /\ \A j \in DOMAIN tx[w].wrote \ {i} : wrote[j] = tx[w].wrote[j]
  BY DEF Put
<1> HIDE DEF wrote
<1>3. \A j \in DOMAIN wrote : wrote[j].status = "DONE" => sent'[j] > 0 \/ channel = "scim"
  BY <1>2, EarnedStays
<1>4. CycleBecomes(w, todo, copy, wrote, locks, None, arrived)
  BY DEF wrote
<1> QED  BY <1>3, <1>4, EarnedAgain

LEMMA EarnedCyclesPreserved == TypeOK /\ Typed /\ Known /\ Earned /\ [Next]_vars => EarnedCycles'
<1> SUFFICES ASSUME TypeOK, Typed, Known, Earned, [Next]_vars PROVE EarnedCycles'
    OBVIOUS
<1>0. SentMoves /\ RowsKept
  BY SentStep, TypesPreserved
<1>1. ASSUME NEW w \in Workers, Select(w) PROVE EarnedCycles'
  <2>1. PICK batch \in SUBSET {i \in Items : Due(row[i])}, copy \in Batches :
           CycleBecomes(w, batch, copy, [i \in {} |-> None],
                        IF channel \in {"teams", "scim", "receipt"} THEN batch ELSE {},
                        None, FALSE)
    BY <1>1, SelectEffect
  <2>2. channel' = channel
    BY <1>1 DEF Select
  <2> QED BY <1>0, <2>1, <2>2, NoBatch, EarnedAgain
<1>2. ASSUME NEW w \in Workers, NEW i \in Items, Skip(w, i) PROVE EarnedCycles'
  <2>1. tx[w] # None /\ tx[w].at = None /\ channel' = channel
    BY <1>2 DEF Skip, Turn
  <2>2. CycleBecomes(w, tx[w].todo \ {i}, tx[w].copy, tx[w].wrote, tx[w].locks, None, tx[w].arrived)
    BY <1>2, SkipEffect
  <2> QED BY <1>0, <2>1, <2>2, SameWrites
<1>3. ASSUME NEW w \in Workers, Arrive(w) PROVE EarnedCycles'
  <2>1. tx[w] # None /\ tx[w].at # None /\ channel' = channel
    BY <1>3 DEF Arrive, At
  <2>2. PICK arrived : /\ CycleBecomes(w, tx[w].todo, tx[w].copy, tx[w].wrote, tx[w].locks, tx[w].at, arrived)
    BY <1>3, ArriveEffect
  <2>3. PICK i \in Items : i = tx[w].at
    BY <2>1, CycleNow
  <2>4. sent'[i] > 0
    BY <1>3, <2>3 DEF Arrive, TypeOK
  <2>5. \A j \in DOMAIN tx[w].wrote : tx[w].wrote[j].status = "DONE" => sent'[j] > 0 \/ channel = "scim"
    BY <1>0, <2>1, EarnedStays
  <2> QED BY <1>0, <2>1, <2>2, <2>3, <2>4, <2>5, EarnedAgain
<1>4. ASSUME NEW w \in Workers, NEW i \in Items, Divert(w, i) PROVE EarnedCycles'
  <2>1. tx[w] # None /\ tx[w].at = None /\ channel' = channel
    BY <1>4, DivertEffect DEF Divert
  <2>2. tx[w].arrived = FALSE
    BY <2>1, CycleNow DEF Earned, EarnedCycles
  <2>3. CASE channel = "receipt"
    <3>1. CycleBecomes(w, tx[w].todo \ {i}, Reread(w, row'), tx[w].wrote, {}, None, tx[w].arrived)
      BY <1>4, <2>3, DivertEffect
    <3> QED BY <1>0, <2>1, <3>1, SameWrites
  <2>4. CASE channel = "webhook"
    <3>1. row[i] \in Rows /\ Waiting(row[i])
      BY <1>4, <2>4, DivertEffect
    <3>2. PICK r \in Rows :
            /\ IsDiversionOf(r, row[i])
            /\ CycleBecomes(w, tx[w].todo \ {i}, Put(tx[w].copy, i, row[i]), Put(tx[w].wrote, i, r),
                            tx[w].locks \cup {i}, None, tx[w].arrived)
      BY <1>4, <2>4, DivertEffect
    <3>3. r.status # "DONE"
      BY <3>1, <3>2, DivertedRow DEF Waiting
    <3> QED BY <1>0, <2>1, <2>2, <3>2, <3>3, OneWrite
  <2>5. CASE channel \notin {"receipt", "webhook"}
    <3>1. PICK r \in Rows :
            /\ IsDiversionOf(r, tx[w].copy[i])
            /\ CycleBecomes(w, tx[w].todo \ {i}, tx[w].copy, Put(tx[w].wrote, i, r), tx[w].locks, None,
                            tx[w].arrived)
      BY <1>4, <2>5, DivertEffect
    <3>2. tx[w].copy[i] \in Rows
      BY <1>4, <2>1, <2>5, DivertEffect, CopyKnown
    <3>3. r.status # "DONE"
      BY <2>5, <3>1, <3>2, DivertedRow
    <3> QED BY <1>0, <2>1, <2>2, <3>1, <3>3, OneWrite
  <2> QED BY <2>3, <2>4, <2>5
<1>5. ASSUME NEW w \in Workers, NEW i \in Items, Begin(w, i) PROVE EarnedCycles'
  <2>1. tx[w] # None /\ tx[w].at = None /\ channel' = channel
    BY <1>5, BeginEffect DEF Begin
  <2>2. \E copy, locks : CycleBecomes(w, tx[w].todo \ {i}, copy, tx[w].wrote, locks, i, tx[w].arrived)
    BY <1>5, BeginEffect
  <2> QED BY <1>0, <2>1, <2>2, SameWrites
<1>6. ASSUME NEW w \in Workers, NEW ok \in BOOLEAN, NEW retryable \in BOOLEAN, Settle(w, ok, retryable)
      PROVE  EarnedCycles'
  <2>1. tx[w] # None /\ tx[w].at \in DOMAIN tx[w].copy /\ (ok => tx[w].arrived \/ channel = "scim")
        /\ channel' = channel
    BY <1>6, SettleEffect DEF At, Settle
  <2>2. PICK i \in Items : i = tx[w].at
    BY <2>1, CopyKnown
  <2>3. CASE channel = "receipt"
    <3>1. PICK copy, arrived :
            CycleBecomes(w, tx[w].todo, copy, tx[w].wrote, tx[w].locks, None, arrived) /\ ~arrived
      BY <1>6, <2>3, SettleEffect
    <3>2. \A j \in DOMAIN tx[w].wrote : tx[w].wrote[j].status = "DONE" => sent'[j] > 0 \/ channel = "scim"
      BY <1>0, <2>1, EarnedStays
    <3> QED BY <1>0, <2>1, <3>1, <3>2, EarnedAgain
  <2>4. CASE channel # "receipt"
    <3>1. PICK r \in Rows :
            /\ IsOutcomeOf(r, Tried(tx[w].copy[i]), ok)
            /\ CycleBecomes(w, tx[w].todo, tx[w].copy, Put(tx[w].wrote, i, r), tx[w].locks, None, FALSE)
      BY <1>6, <2>2, <2>4, SettleEffect
    <3>2. r.status = "DONE" => ok
      <4>1. tx[w].copy[i] \in Rows
        BY <2>1, <2>2, CopyKnown
      <4>2. Tried(tx[w].copy[i]) \in Rows
        BY <4>1, RowSteps
      <4> QED BY <3>1, <4>2, OutcomeRow
    <3>3. r.status = "DONE" => sent'[i] > 0 \/ channel = "scim"
      BY <1>0, <2>1, <2>2, <3>2, EarnedStays
    <3> QED BY <1>0, <2>1, <3>1, <3>3, OneWrite
  <2> QED BY <2>3, <2>4
<1>7. ASSUME NEW w \in Workers, Commit(w) PROVE EarnedCycles'
  <2>1. PICK copy : /\ tx[w] # None /\ tx[w].at = None
                    /\ CycleBecomes(w, tx[w].todo, copy, [i \in {} |-> None], {}, None, tx[w].arrived)
    BY <1>7, CommitEffect
  <2>2. ~tx[w].arrived /\ channel' = channel
    BY <1>7, <2>1 DEF Earned, EarnedCycles, Commit
  <2> QED BY <1>0, <2>1, <2>2, NoBatch, EarnedAgain
<1>8. CASE (tx' = tx \/ \E w \in Workers : tx' = [tx EXCEPT ![w] = None]) /\ channel' = channel
  <2>1. \A v \in Workers : tx'[v] # None => tx'[v] = tx[v]
    BY <1>8, CyclesLeft
  <2> QED BY <1>0, <1>8, <2>1, EarnedStays DEF EarnedCycles
<1>9. ASSUME NEW i \in Items, NEW j \in Items,
             Queue(i) \/ Provision(i) \/ BecomeDue(i) \/ Bounce(i) \/ ReplayDelivery(i, j)
      PROVE  EarnedCycles'
  BY <1>8, <1>9 DEF Queue, Provision, BecomeDue, Bounce, ReplayDelivery
<1>10. ASSUME NEW c \in Clerks, (\E i \in Items : Open(c, i)) \/ Reopen(c) \/ Reapply(c)
       PROVE  EarnedCycles'
  BY <1>8, <1>10 DEF Open, Reopen, Reapply
<1>11. ASSUME NEW status \in {"PAUSED", "ACTIVE", "REVOKED"}, SetStatus(status) \/ Rotate
       PROVE  EarnedCycles'
  BY <1>8, <1>11 DEF SetStatus, Rotate, Change
<1>12. ASSUME NEW w \in Workers, Finish(w) \/ Abort(w) PROVE EarnedCycles'
  BY <1>8, <1>12 DEF Finish, Abort
<1>13. CASE UNCHANGED vars
  BY <1>8, <1>13 DEF vars
<1> QED  BY <1>1, <1>2, <1>3, <1>4, <1>5, <1>6, <1>7, <1>9, <1>10, <1>11, <1>12, <1>13
         DEF Next, CycleStep

\* A receipt's events arrive by a cycle only, and the channel is never changed.
LEMMA EarnedPreserved == TypeOK /\ Typed /\ Known /\ Earned /\ [Next]_vars => Earned'
<1> SUFFICES ASSUME TypeOK, Typed, Known, Earned, [Next]_vars PROVE Earned'
    OBVIOUS
<1>1. EarnedRows'
  BY HonestStep, SentStep DEF Honest, SentMoves, Earned, EarnedRows
<1>2. EarnedCycles'
  BY EarnedCyclesPreserved
<1>3. EarnedOnce'
  <2>1. channel = "receipt" => sent' = sent \/ \E i : sent' = [sent EXCEPT ![i] = 1]
    BY ChannelStays DEF Arrive
  <2> QED BY <2>1, ChannelStays DEF Earned, EarnedOnce, TypeOK
<1> QED  BY <1>1, <1>2, <1>3 DEF Earned

-----------------------------------------------------------------------------
(* The promise.                                                            *)

Kept == TypeOK /\ Typed /\ Known /\ Earned

LEMMA InitKept == Init => Kept
<1> SUFFICES ASSUME Init PROVE Kept
    OBVIOUS
<1>1. Known
  BY DEF Init, Known, KnownCopies, KnownDesk, KnownSent, KnownSeen
<1>2. Earned
  BY DEF Init, Earned, EarnedRows, EarnedCycles, EarnedOnce
<1> QED  BY <1>1, <1>2, InitTypes DEF Kept

LEMMA KeptPreserved == Kept /\ [Next]_vars => Kept'
BY TypesPreserved, KnownPreserved, EarnedPreserved DEF Kept

\* TypeOK: the rows, what the cycles hold of them, the target, what the clerks
\* have read and the count of arrivals have their types, and a cycle writes, and
\* calls about, only what it has read.
THEOREM TypeCorrect == Spec => []TypeOK
<1>1. Kept => TypeOK
  BY DEF Kept
<1> QED  BY <1>1, InitKept, KeptPreserved, PTL DEF Spec

LEMMA PromiseInit == Init => Promise!Init
BY DEF Init, Promise!Init

LEMMA PromiseStep == Kept /\ [Next]_vars => Promise!Next
<1> SUFFICES ASSUME Kept, [Next]_vars PROVE Promise!Next
    OBVIOUS
<1>1. RowsKept /\ SentMoves /\ Kept'
  BY TypesPreserved, SentStep, KeptPreserved DEF Kept
<1> DEFINE state == [i \in Items |->
              IF row[i] = None THEN "none"
              ELSE CASE row[i].status = "DONE" -> "done"
                     [] row[i].status = "GIVEN_UP" -> "given_up"
                     [] OTHER -> "waiting"]
<1>2. ASSUME NEW i \in Items
      PROVE  /\ state[i] = "none" <=> row[i] = None
             /\ state'[i] = "none" <=> row'[i] = None
             /\ state'[i] = "done" <=> row'[i] # None /\ row'[i].status = "DONE"
             /\ state[i] \in {"none", "waiting", "done", "given_up"}
             /\ state'[i] \in {"none", "waiting", "done", "given_up"}
  OBVIOUS
<1>3. DOMAIN state' = Items /\ DOMAIN sent' = Items
  BY <1>1 DEF Kept, TypeOK
<1>4. ASSUME NEW i \in Items
      PROVE  /\ \/ state[i] = "none" /\ state'[i] \in {"none", "waiting", "done", "given_up"}
                \/ state[i] # "none" /\ state'[i] \in {"waiting", "done", "given_up"}
             /\ sent'[i] \in {sent[i], sent[i] + 1}
             /\ sent'[i] > sent[i] => state'[i] # "none"
             /\ state'[i] = "done" => sent'[i] > 0
  <2> HIDE DEF state
  <2>1. row[i] # None => row'[i] # None
    BY <1>1 DEF RowsKept
  <2>2. sent[i] \in Nat /\ sent'[i] \in {sent[i], sent[i] + 1} /\ (sent'[i] # sent[i] => row'[i] # None)
    BY <1>1 DEF SentMoves
  <2>3. row'[i] # None /\ row'[i].status = "DONE" => sent'[i] > 0
    BY <1>1 DEF Kept, Earned, EarnedRows
  <2> QED BY <1>2, <2>1, <2>2, <2>3
<1> QED  BY <1>3, <1>4 DEF Promise!Next, Promise!Moves

\* KeepsPromise: whichever the table, an item that has a row keeps one, only
\* items with a row reach the other side, and a row says done only of an item
\* that has reached it.
THEOREM PromiseKept == Spec => KeepsPromise
<1>1. Kept /\ [Next]_vars =>
        [Promise!Next]_<<[i \in Items |->
              IF row[i] = None THEN "none"
              ELSE CASE row[i].status = "DONE" -> "done"
                     [] row[i].status = "GIVEN_UP" -> "given_up"
                     [] OTHER -> "waiting"], sent>>
  BY PromiseStep
<1> QED  BY <1>1, InitKept, KeptPreserved, PromiseInit, PTL DEF Spec, KeepsPromise, Promise!Spec

-----------------------------------------------------------------------------
(* Tested: a call under way is of a subscription that may be called.       *)

\* What a cycle knows stays tested while tests are only added, and what it calls
\* stays present while the target keeps its status and its version.
LEMMA CycleTested ==
  ASSUME Kept, Tested, RowsKept, channel = "webhook", passed \subseteq passed',
         NEW v \in Workers, tx[v] # None, tx'[v] = tx[v],
         tx[v].at # None => target'.status = target.status /\ target'.version = target.version
  PROVE  SeenTested(tx[v])' /\ CallTested(tx[v])'
<1>1. SeenTested(tx[v]) /\ CallTested(tx[v])
  BY DEF Tested, TestedCycles
<1>2. tx[v].at # None => row'[tx[v].at].test = row[tx[v].at].test
  <2>1. tx[v].at # None => tx[v].at \in DOMAIN tx[v].copy
    BY CycleNow DEF CycleOK, Kept
  <2>2. tx[v].at # None => tx[v].at \in Items /\ row[tx[v].at] # None
    BY <2>1, CopyKnown, NoneAssumption DEF Kept
  <2> QED BY <2>2 DEF RowsKept
<1>3. SeenTested(tx[v])'
  BY <1>1 DEF SeenTested
<1>4. CallTested(tx[v])'
  BY <1>1, <1>2 DEF CallTested, SeenPresent
<1> QED  BY <1>3, <1>4

LEMMA CallsAgain ==
  ASSUME Kept, Tested, RowsKept, channel' = channel, TestedTarget', passed \subseteq passed',
         target'.status = target.status, target'.version = target.version,
         NEW w \in Workers, NEW todo, NEW copy, NEW wrote, NEW locks, NEW at, NEW arrived,
         CycleBecomes(w, todo, copy, wrote, locks, at, arrived),
         channel = "webhook" => SeenTested(tx[w])' /\ CallTested(tx[w])'
  PROVE  Tested'
<1>1. ASSUME channel = "webhook", NEW v \in Workers \ {w}, tx'[v] # None
      PROVE  SeenTested(tx[v])' /\ CallTested(tx[v])'
  BY <1>1, CycleTested DEF CycleBecomes
<1>2. TestedCycles'
  BY <1>1 DEF TestedCycles
<1> QED  BY <1>2 DEF Tested

\* The steps that change no cycle, or end one.
LEMMA CallsLeft ==
  ASSUME Kept, Tested, RowsKept, channel' = channel, TestedTarget', passed' = passed,
         \/ target' = target
         \/ channel = "webhook" => \A v \in Workers : tx[v] # None => tx[v].at = None,
         tx' = tx \/ \E w \in Workers : tx' = [tx EXCEPT ![w] = None]
  PROVE  Tested'
<1>1. ASSUME channel = "webhook", NEW v \in Workers, tx'[v] # None
      PROVE  SeenTested(tx[v])' /\ CallTested(tx[v])'
  <2>1. tx'[v] = tx[v] /\ tx[v] # None
    BY <1>1, CyclesLeft DEF Kept
  <2> QED BY <1>1, <2>1, CycleTested
<1>2. TestedCycles'
  BY <1>1 DEF TestedCycles
<1> QED  BY <1>2 DEF Tested

LEMMA TestedPreserved == Kept /\ Tested /\ [Next]_vars => Tested'
<1> SUFFICES ASSUME Kept, Tested, [Next]_vars PROVE Tested'
    OBVIOUS
<1> USE DEF Kept
<1>0. RowsKept /\ channel' = channel
  BY TypesPreserved, ChannelStays
<1>1. ASSUME target' = target, passed' = passed PROVE TestedTarget'
  BY <1>1 DEF Tested, TestedTarget
<1>2. ASSUME NEW w \in Workers, NEW i, Select(w) \/ (i \in Items /\ Skip(w, i)) PROVE Tested'
  <2>1. PICK todo, copy, wrote, locks, arrived : CycleBecomes(w, todo, copy, wrote, locks, None, arrived)
    BY <1>2, SelectEffect, SkipEffect
  <2>2. target' = target /\ passed' = passed
    BY <1>2 DEF Select, Skip
  <2>3. tx'[w].seen = None /\ tx'[w].at = None
    BY <1>2, <2>1, NothingSeen DEF CycleBecomes
  <2>4. SeenTested(tx[w])' /\ CallTested(tx[w])'
    BY <2>3 DEF SeenTested, CallTested
  <2> QED BY <1>0, <1>1, <2>1, <2>2, <2>4, CallsAgain
<1>3. ASSUME NEW w \in Workers, NEW i \in Items, Begin(w, i) \/ Divert(w, i), channel = "webhook" PROVE Tested'
  <2>1. tx[w] # None /\ target' = target /\ passed' = passed
    BY <1>3 DEF Divert, Begin, Turn
  <2>2. PICK t \in Found(w) : Sees(w, t) /\ (Begin(w, i) => Usable(t, i))
    BY <1>3, TurnSees
  <2>3. t = target \/ Lingers(w, t)
    BY <1>3, <2>1, FoundTarget
  <2>4. SeenTested(tx[w])'
    <3>1. t.status = "ACTIVE" /\ t # None => t.version \in passed
      BY <1>3, <2>1, <2>3 DEF Lingers, Tested, TestedTarget, TestedCycles, SeenTested
    <3> QED BY <2>1, <2>2, <3>1 DEF SeenTested, Sees
  <2>5. CASE Divert(w, i)
    <3>1. PICK todo, copy, wrote, locks, arrived : CycleBecomes(w, todo, copy, wrote, locks, None, arrived)
      BY <1>3, <2>5, DivertEffect
    <3>2. CallTested(tx[w])'
      BY <3>1 DEF CycleBecomes, CallTested
    <3> QED BY <1>0, <1>1, <2>1, <2>4, <3>1, <3>2, CallsAgain
  <2>6. CASE Begin(w, i)
    <3>1. PICK copy : /\ row' = row
                      /\ CycleBecomes(w, tx[w].todo \ {i}, copy, tx[w].wrote, {i}, i, tx[w].arrived)
      BY <1>3, <2>6, BeginEffect
    <3>2. row[i].test \/ t.status = "ACTIVE"
      BY <1>3, <2>2, <2>6 DEF Usable
    <3>3. tx'[w].at = i /\ tx'[w].locks = {i}
      BY <3>1 DEF CycleBecomes
    <3>4. CallTested(tx[w])'
      BY <2>1, <2>2, <2>3, <3>1, <3>2, <3>3 DEF CallTested, SeenPresent, Sees
    <3> QED BY <1>0, <1>1, <2>1, <2>4, <3>1, <3>4, CallsAgain
  <2> QED BY <1>3, <2>5, <2>6
<1>4. ASSUME NEW w \in Workers, NEW i \in Items, Begin(w, i) \/ Divert(w, i), channel # "webhook" PROVE Tested'
  <2>1. target' = target /\ passed' = passed
    BY <1>4 DEF Divert, Begin
  <2> QED BY <1>0, <1>1, <1>4, <2>1 DEF Tested, TestedCycles
<1>5. ASSUME NEW w \in Workers, Arrive(w) PROVE Tested'
  <2>1. tx[w] # None /\ UNCHANGED <<channel, row, target, passed>>
    BY <1>5 DEF Arrive, At
  <2>2. CycleBecomes(w, tx[w].todo, tx[w].copy, tx[w].wrote, tx[w].locks, tx[w].at, TRUE)
    BY <1>5, ArriveEffect
  <2>3. tx'[w].at = tx[w].at /\ tx'[w].locks = tx[w].locks
    BY <2>2 DEF CycleBecomes
  <2>4. ASSUME channel = "webhook" PROVE SeenTested(tx[w])' /\ CallTested(tx[w])'
    <3>1. tx'[w].seen = tx[w].seen /\ tx'[w].failed = tx[w].failed
      BY <1>5, <2>4, CallSees
    <3>2. SeenTested(tx[w]) /\ CallTested(tx[w])
      BY <2>1, <2>4 DEF Tested, TestedCycles
    <3> QED BY <2>1, <2>3, <3>1, <3>2 DEF SeenTested, CallTested, SeenPresent
  <2> QED BY <1>0, <1>1, <2>1, <2>2, <2>4, CallsAgain
<1>6. ASSUME NEW w \in Workers, NEW ok \in BOOLEAN, NEW retryable \in BOOLEAN, Settle(w, ok, retryable)
      PROVE  Tested'
  <2>1. PICK todo, copy, wrote, locks, arrived : CycleBecomes(w, todo, copy, wrote, locks, None, arrived)
    BY <1>6, SettleEffect
  <2>2. tx[w] # None /\ target' = target /\ passed' = passed
    BY <1>6 DEF Settle, At
  <2>3. tx'[w].at = None
    BY <2>1 DEF CycleBecomes
  <2>4. ASSUME channel = "webhook" PROVE SeenTested(tx[w])' /\ CallTested(tx[w])'
    <3>1. tx'[w].seen = tx[w].seen
      BY <1>6, <2>4, CallSees
    <3>2. SeenTested(tx[w])
      BY <2>2, <2>4 DEF Tested, TestedCycles
    <3> QED BY <2>2, <2>3, <3>1, <3>2 DEF SeenTested, CallTested
  <2> QED BY <1>0, <1>1, <2>1, <2>2, <2>4, CallsAgain
<1>7. ASSUME NEW w \in Workers, Commit(w) PROVE Tested'
  <2>1. /\ tx[w] # None /\ MarksTested(w)
        /\ \E copy, wrote : CycleBecomes(w, tx[w].todo, copy, wrote, {}, None, tx[w].arrived)
    BY <1>7, CommitEffect
  <2>2. PICK copy, wrote : CycleBecomes(w, tx[w].todo, copy, wrote, {}, None, tx[w].arrived)
    BY <2>1
  <2>3. \A t \in Targets : t.version \in Nat
    BY DEF Targets
  <2>4. /\ target'.status = target.status /\ target'.version = target.version
        /\ passed \subseteq passed' /\ target'.tested \in {target.tested} \cup passed'
    <3>1. CASE target' = target /\ passed' = passed
      BY <3>1
    <3>2. CASE /\ tx[w].seen \in Targets /\ passed' = passed \cup {tx[w].seen.version}
               /\ target' \in {target, Marked(target, tx[w].seen.version)}
      <4>1. tx[w].seen.version \in Nat /\ target \in Targets
        BY <2>3, <3>2 DEF TypeOK
      <4> QED BY <3>2, <4>1, MarkedTarget
    <3> QED BY <2>1, <3>1, <3>2 DEF MarksTested
  <2>5. TestedTarget'
    BY <2>4 DEF Tested, TestedTarget
  <2>6. ASSUME channel = "webhook" PROVE SeenTested(tx[w])' /\ CallTested(tx[w])'
    <3>1. SeenTested(tx[w])
      BY <2>1, <2>6 DEF Tested, TestedCycles
    <3>2. tx[w].seen \in Targets =>
            /\ Marked(tx[w].seen, tx[w].seen.version).status = tx[w].seen.status
            /\ Marked(tx[w].seen, tx[w].seen.version).version = tx[w].seen.version
      BY <2>3, MarkedTarget
    <3>3. SeenTested(tx[w])'
      BY <2>1, <2>4, <2>6, <3>1, <3>2, NoneAssumption DEF MarksTested, SessionSees, SeenTested
    <3>4. CallTested(tx[w])'
      BY <2>2 DEF CycleBecomes, CallTested
    <3> QED BY <3>3, <3>4
  <2> QED BY <1>0, <2>2, <2>4, <2>5, <2>6, CallsAgain
<1>8. ASSUME NEW status \in {"PAUSED", "ACTIVE", "REVOKED"}, SetStatus(status) \/ Rotate PROVE Tested'
  <2>1. tx' = tx /\ passed' = passed /\ TargetFree
    BY <1>8 DEF SetStatus, Rotate, Change
  <2>2. channel = "webhook" => \A v \in Workers : tx[v] # None => tx[v].at = None
    BY <2>1 DEF TargetFree, Tested, TestedCycles, CallTested
  <2>3. TestedTarget'
    <3>1. CASE Rotate
      <4>1. target' = [status |-> "PAUSED", version |-> target.version + 1, tested |-> 0]
        BY <3>1 DEF Rotate, Change
      <4>2. target.version \in Nat
        BY DEF TypeOK, Targets
      <4> QED BY <2>1, <4>1, <4>2 DEF TestedTarget
    <3>2. CASE SetStatus(status)
      <4>1. target' = [target EXCEPT !.status = status] /\ (status = "ACTIVE" => target.tested = target.version)
        BY <3>2 DEF SetStatus, Change
      <4>2. /\ target'.version = target.version /\ target'.tested = target.tested /\ target'.status = status
            /\ target.version \in Nat
        BY <4>1 DEF TypeOK, Targets
      <4> QED BY <2>1, <4>1, <4>2 DEF Tested, TestedTarget
    <3> QED BY <1>8, <3>1, <3>2
  <2> QED BY <1>0, <2>1, <2>2, <2>3, CallsLeft
<1>9. CASE (tx' = tx \/ \E w \in Workers : tx' = [tx EXCEPT ![w] = None]) /\ target' = target /\ passed' = passed
  BY <1>0, <1>1, <1>9, CallsLeft
<1>10. ASSUME NEW i \in Items, NEW j \in Items,
              Queue(i) \/ Provision(i) \/ BecomeDue(i) \/ Bounce(i) \/ ReplayDelivery(i, j)
       PROVE  Tested'
  BY <1>9, <1>10 DEF Queue, Provision, BecomeDue, Bounce, ReplayDelivery
<1>11. ASSUME NEW c \in Clerks, (\E i \in Items : Open(c, i)) \/ Reopen(c) \/ Reapply(c)
       PROVE  Tested'
  BY <1>9, <1>11 DEF Open, Reopen, Reapply
<1>12. ASSUME NEW w \in Workers, Finish(w) \/ Abort(w) PROVE Tested'
  BY <1>9, <1>12 DEF Finish, Abort
<1>13. CASE UNCHANGED vars
  BY <1>9, <1>13 DEF vars
<1> QED  BY <1>2, <1>3, <1>4, <1>5, <1>6, <1>7, <1>8, <1>10, <1>11, <1>12, <1>13
         DEF Next, CycleStep

\* A webhook is called by the step of a cycle that has begun an attempt.
LEMMA WebhookCall ==
  ASSUME Kept, [Next]_vars, channel = "webhook", NEW i \in Items, sent'[i] > sent[i]
  PROVE  \E w \in Workers : tx[w] # None /\ tx[w].at = i /\ i # None
<1> USE DEF Kept
<1>0. sent \in [Items -> Nat]
  BY DEF TypeOK
<1>1. ASSUME sent' = sent PROVE FALSE
  BY <1>0, <1>1
<1>2. ASSUME NEW w \in Workers, Arrive(w)
      PROVE  \E v \in Workers : tx[v] # None /\ tx[v].at = i /\ i # None
  <2>1. tx[w] # None /\ tx[w].at # None /\ sent' = [sent EXCEPT ![tx[w].at] = @ + 1]
    BY <1>2 DEF Arrive, At
  <2> QED BY <1>0, <2>1
<1>3. ASSUME NEW w \in Workers, Commit(w) PROVE FALSE
  <2>1. sent' = [j \in Items |-> sent[j]]
    BY <1>3 DEF Commit
  <2> QED BY <1>0, <1>1, <2>1
<1>4. ASSUME NEW j \in Items, NEW k \in Items,
             Queue(j) \/ BecomeDue(j) \/ Bounce(j) \/ ReplayDelivery(j, k) \/ Provision(j)
      PROVE  FALSE
  BY <1>1, <1>4 DEF Queue, BecomeDue, Bounce, ReplayDelivery, Provision
<1>5. ASSUME NEW w \in Workers, Select(w) \/ Finish(w) \/ Abort(w) PROVE FALSE
  BY <1>1, <1>5 DEF Select, Finish, Abort
<1>6. ASSUME NEW w \in Workers, NEW j \in Items, Skip(w, j) \/ Divert(w, j) \/ Begin(w, j) PROVE FALSE
  BY <1>1, <1>6 DEF Skip, Divert, Begin
<1>7. ASSUME NEW w \in Workers, NEW ok \in BOOLEAN, NEW retryable \in BOOLEAN, Settle(w, ok, retryable)
      PROVE  FALSE
  BY <1>1, <1>7 DEF Settle
<1>8. ASSUME NEW c \in Clerks, (\E j \in Items : Open(c, j)) \/ Reopen(c) \/ Reapply(c) PROVE FALSE
  BY <1>1, <1>8 DEF Open, Reopen, Reapply
<1>9. ASSUME NEW status \in {"PAUSED", "ACTIVE", "REVOKED"}, SetStatus(status) \/ Rotate PROVE FALSE
  BY <1>1, <1>9 DEF SetStatus, Rotate, Change
<1>10. ASSUME UNCHANGED vars PROVE FALSE
  BY <1>1, <1>10 DEF vars
<1> QED  BY <1>2, <1>3, <1>4, <1>5, <1>6, <1>7, <1>8, <1>9, <1>10 DEF Next, CycleStep

LEMMA InitTested == Init => Tested
BY DEF Init, Tested, TestedTarget, TestedCycles

\* What a call has to do with the subscription, by the cycle that makes it.
CallsOf(w, i) ==
  /\ At(w) /\ tx[w].at = i
  /\ tx[w].seen.status = "ACTIVE" /\ tx[w].seen.version \in passed
  /\ \/ target.status = "ACTIVE" /\ target.version = tx[w].seen.version
     \/ tx[w].failed

\* CallsAreCurrent: a webhook, tests apart, is called only with a target and a
\* secret that have passed a test, of a subscription that was active; and these
\* are the present ones, unless an earlier call of the same cycle has failed and
\* has kept the subscription in its session.
THEOREM CallsCurrent == Spec => CallsAreCurrent
<1> DEFINE Current == \A i \in Items :
             channel = "webhook" /\ sent'[i] > sent[i] /\ ~row[i].test => \E w \in Workers : CallsOf(w, i)
<1>1. Init => Kept /\ Tested
  BY InitKept, InitTested
<1>2. Kept /\ Tested /\ [Next]_vars => (Kept /\ Tested)'
  BY KeptPreserved, TestedPreserved
<1>3. Kept /\ Tested /\ [Next]_vars => Current
  <2> SUFFICES ASSUME Kept, Tested, [Next]_vars, channel = "webhook",
                      NEW i \in Items, sent'[i] > sent[i], ~row[i].test
               PROVE  \E w \in Workers : CallsOf(w, i)
    OBVIOUS
  <2>1. PICK w \in Workers : tx[w] # None /\ tx[w].at = i /\ i # None
    BY WebhookCall
  <2>2. tx[w].seen # None
    BY <2>1 DEF Kept, Known, KnownSeen, SeenOK
  <2>3. SeenTested(tx[w]) /\ CallTested(tx[w])
    BY <2>1 DEF Tested, TestedCycles
  <2>4. CallsOf(w, i)
    BY <2>1, <2>2, <2>3 DEF CallsOf, At, SeenTested, CallTested, SeenPresent
  <2> QED BY <2>4
<1>4. Kept /\ Tested /\ [Next]_vars => [Current]_vars
  BY <1>3
<1> QED  BY <1>1, <1>2, <1>4, PTL DEF Spec, CallsAreCurrent, CallsOf

-----------------------------------------------------------------------------
(* Held: what a webhook or Teams cycle has not committed is locked.        *)

RowLocked == channel \in {"webhook", "teams"}

\* The locks of the other cycles, and the rows they cover, in a step of one.
LEMMA LocksAgain ==
  ASSUME Kept, Held, RowLocked, channel' = channel,
         NEW w \in Workers, NEW todo, NEW copy, NEW wrote, NEW locks, NEW at, NEW arrived,
         CycleBecomes(w, todo, copy, wrote, locks, at, arrived),
         \A v \in Workers \ {w} : tx[v] # None =>
           locks \cap tx[v].locks = {} /\ \A i \in tx[v].locks : row'[i] = row[i],
         at # None => at \in locks /\ at \notin DOMAIN wrote /\ at \notin todo,
         DOMAIN wrote \subseteq locks,
         channel = "teams" => todo \subseteq locks /\ todo \cap DOMAIN wrote = {},
         \A i \in locks : i \in DOMAIN copy /\ row'[i] = copy[i],
         \A i \in DOMAIN copy : Fresh(copy[i]),
         \A i \in DOMAIN wrote : ResultOf(wrote[i], copy[i])
  PROVE  HeldLocks' /\ HeldApart'
<1>1. /\ tx'[w].todo = todo /\ tx'[w].copy = copy /\ tx'[w].wrote = wrote
      /\ tx'[w].locks = locks /\ tx'[w].at = at
      /\ \A v \in Workers \ {w} : tx'[v] = tx[v]
  BY DEF CycleBecomes
<1>2. HeldApart'
  BY <1>1 DEF Held, HeldApart, RowLocked
<1>3. \A r, new : Fresh(r)' = Fresh(r) /\ ResultOf(new, r)' = ResultOf(new, r)
  BY DEF Fresh, ResultOf, Budgeted
<1>4. LocksHeld(tx[w])'
  BY <1>1, <1>3 DEF LocksHeld
<1>5. ASSUME NEW v \in Workers \ {w}, tx'[v] # None PROVE LocksHeld(tx[v])'
  <2>1. tx'[v] = tx[v] /\ LocksHeld(tx[v]) /\ \A i \in tx[v].locks : row'[i] = row[i]
    BY <1>1, <1>5 DEF Held, HeldLocks, RowLocked
  <2> QED BY <1>3, <2>1 DEF LocksHeld
<1> QED  BY <1>2, <1>4, <1>5 DEF HeldLocks

LEMMA LocksLeft ==
  ASSUME Kept, Held, RowLocked, channel' = channel,
         tx' = tx \/ \E w \in Workers : tx' = [tx EXCEPT ![w] = None],
         \A v \in Workers : tx[v] # None => \A i \in tx[v].locks : row'[i] = row[i]
  PROVE  HeldLocks' /\ HeldApart'
<1>1. \A v \in Workers : tx'[v] # None => tx'[v] = tx[v]
  BY CyclesLeft DEF Kept
<1>2. HeldApart'
  BY <1>1 DEF Held, HeldApart, RowLocked
<1>3. \A r, new : Fresh(r)' = Fresh(r) /\ ResultOf(new, r)' = ResultOf(new, r)
  BY DEF Fresh, ResultOf, Budgeted
<1>4. ASSUME NEW v \in Workers, tx'[v] # None PROVE LocksHeld(tx[v])'
  <2>1. tx'[v] = tx[v] /\ LocksHeld(tx[v]) /\ \A i \in tx[v].locks : row'[i] = row[i]
    BY <1>1, <1>4 DEF Held, HeldLocks, RowLocked
  <2> QED BY <1>3, <2>1 DEF LocksHeld
<1> QED  BY <1>2, <1>4 DEF HeldLocks

\* What a cycle has locked is as it was read, and free of the others.
LEMMA LockedRow ==
  ASSUME Kept, Held, RowLocked, NEW w \in Workers, tx[w] # None
  PROVE  LocksHeld(tx[w])
BY DEF Held, HeldLocks, RowLocked

\* What becomes of a row in budget.
LEMMA BudgetSteps ==
  ASSUME NEW r \in Rows, Fresh(r), NEW new \in Rows, new.limit = r.limit,
         \/ new.tries = r.tries + 1 /\ new.status \in {"DONE", "GIVEN_UP"}
         \/ new.tries = r.tries + 1 /\ new.status = "RETRY" /\ r.tries + 1 < r.limit
         \/ new.tries = r.tries /\ new.status = "GIVEN_UP" /\ channel = "webhook"
         \/ new.tries = r.tries /\ new.status = r.status
  PROVE  ResultOf(new, r)
BY OutboxAssumption DEF ResultOf, Fresh, Budgeted, Rows

LEMMA DivertedBudget ==
  ASSUME Kept, RowLocked, NEW r \in Rows, Fresh(r), NEW f, IsDiversionOf(f, r)
  PROVE  ResultOf(f, r)
<1>1. f \in Rows
  BY DivertedRow DEF Kept
<1>2. PICK t : f = Diverted(r, t)
  BY DEF IsDiversionOf
<1>3. CASE channel = "webhook" /\ t.status = "REVOKED"
  <2>1. f = GivenUp(r)
    BY <1>2, <1>3 DEF Diverted
  <2> QED BY <1>1, <1>3, <2>1, RowSteps, BudgetSteps
<1>4. CASE channel = "webhook" /\ t.status # "REVOKED"
  <2>1. f = [r EXCEPT !.due = FALSE]
    BY <1>2, <1>4 DEF Diverted
  <2>2. f.tries = r.tries /\ f.status = r.status /\ f.limit = r.limit
    BY <2>1 DEF Rows
  <2> QED BY <1>1, <2>2, BudgetSteps
<1>5. CASE channel = "teams"
  <2>1. f = GivenUp(Tried(r))
    BY <1>2, <1>5 DEF Diverted
  <2>2. Tried(r) \in Rows /\ Tried(r).tries = r.tries + 1 /\ Tried(r).limit = r.limit
    BY RowSteps
  <2>3. f.tries = r.tries + 1 /\ f.status = "GIVEN_UP" /\ f.limit = r.limit
    BY <2>1, <2>2, RowSteps
  <2> QED BY <1>1, <2>3, BudgetSteps
<1> QED  BY <1>3, <1>4, <1>5 DEF RowLocked

LEMMA OutcomeBudget ==
  ASSUME NEW r \in Rows, Fresh(r), NEW new, NEW ok \in BOOLEAN, IsOutcomeOf(new, Tried(r), ok)
  PROVE  ResultOf(new, r) /\ new.tries = r.tries + 1
<1>1. Tried(r) \in Rows /\ Tried(r).tries = r.tries + 1 /\ Tried(r).limit = r.limit
  BY RowSteps
<1>2. /\ new \in Rows /\ new.tries = r.tries + 1 /\ new.limit = r.limit
      /\ new.status = "RETRY" => r.tries + 1 < r.limit
      /\ new.status \in {"DONE", "RETRY", "GIVEN_UP"}
  BY <1>1, OutcomeRow
<1> QED  BY <1>2, BudgetSteps

\* The row of a webhook or a card is written by who has it locked, or by nobody.
LEMMA LocksPreserved ==
  ASSUME Kept, Held, RowLocked, [Next]_vars
  PROVE  HeldLocks' /\ HeldApart'
<1> USE DEF Kept
<1>0. RowsKept /\ channel' = channel
  BY TypesPreserved, ChannelStays
<1>1. ASSUME NEW w \in Workers, Select(w) PROVE HeldLocks' /\ HeldApart'
  <2>1. PICK batch \in SUBSET {i \in Items : Due(row[i])}, copy \in Batches :
           /\ DOMAIN copy = IF channel = "webhook" THEN {} ELSE batch
           /\ \A i \in DOMAIN copy : copy[i] = row[i]
           /\ channel = "teams" => \A i \in batch : ~Locked(i)
           /\ \E arrived :
                CycleBecomes(w, batch, copy, [i \in {} |-> None],
                             IF channel = "teams" THEN batch ELSE {}, None, arrived)
    BY <1>1, SelectEffect DEF RowLocked
  <2> DEFINE locks == IF channel = "teams" THEN batch ELSE {}
             none == [i \in {} |-> None]
  <2>2. row' = row /\ locks \subseteq DOMAIN copy /\ DOMAIN none = {}
    BY <1>1, <2>1, NoBatch DEF Select
  <2>3. \A v \in Workers \ {w} : tx[v] # None => locks \cap tx[v].locks = {}
    BY <2>1 DEF Locked
  <2>4. \A i \in DOMAIN copy : Fresh(copy[i])
    BY <2>1 DEF Due, Waiting, Held, HeldRows, RowLocked, Fresh
  <2>5. PICK arrived : CycleBecomes(w, batch, copy, none, locks, None, arrived)
    BY <2>1
  <2>6. \A i \in locks : i \in DOMAIN copy /\ row'[i] = copy[i]
    BY <2>1, <2>2
  <2>7. channel = "teams" => batch \subseteq locks
    OBVIOUS
  <2> HIDE DEF locks, none
  <2> QED BY <1>0, <2>2, <2>3, <2>4, <2>5, <2>6, <2>7, LocksAgain
<1>2. ASSUME NEW w \in Workers, NEW i \in Items, Skip(w, i) PROVE HeldLocks' /\ HeldApart'
  <2>1. tx[w] # None /\ row' = row
    BY <1>2 DEF Skip, Turn
  <2>2. CycleBecomes(w, tx[w].todo \ {i}, tx[w].copy, tx[w].wrote, tx[w].locks, None, tx[w].arrived)
    BY <1>2, SkipEffect
  <2>3. LocksHeld(tx[w]) /\ \A v \in Workers \ {w} : tx[v] # None => tx[w].locks \cap tx[v].locks = {}
    BY <2>1, LockedRow DEF Held, HeldApart, RowLocked
  <2>4. channel = "teams" => tx[w].todo \ {i} \subseteq tx[w].locks /\ (tx[w].todo \ {i}) \cap DOMAIN tx[w].wrote = {}
    BY <2>3 DEF LocksHeld
  <2>5. /\ DOMAIN tx[w].wrote \subseteq tx[w].locks
        /\ \A j \in tx[w].locks : j \in DOMAIN tx[w].copy /\ row'[j] = tx[w].copy[j]
        /\ \A j \in DOMAIN tx[w].copy : Fresh(tx[w].copy[j])
        /\ \A j \in DOMAIN tx[w].wrote : ResultOf(tx[w].wrote[j], tx[w].copy[j])
    BY <2>1, <2>3 DEF LocksHeld
  <2> QED BY <1>0, <2>1, <2>2, <2>3, <2>4, <2>5, LocksAgain
<1>3. ASSUME NEW w \in Workers, Arrive(w) PROVE HeldLocks' /\ HeldApart'
  <2>1. tx[w] # None /\ row' = row
    BY <1>3 DEF Arrive, At
  <2>2. PICK arrived : CycleBecomes(w, tx[w].todo, tx[w].copy, tx[w].wrote, tx[w].locks, tx[w].at, arrived)
    BY <1>3, ArriveEffect
  <2>3. LocksHeld(tx[w]) /\ \A v \in Workers \ {w} : tx[v] # None => tx[w].locks \cap tx[v].locks = {}
    BY <2>1, LockedRow DEF Held, HeldApart, RowLocked
  <2>4. channel = "teams" => tx[w].todo \subseteq tx[w].locks /\ tx[w].todo \cap DOMAIN tx[w].wrote = {}
    BY <2>3 DEF LocksHeld
  <2>5. /\ tx[w].at # None => tx[w].at \in tx[w].locks /\ tx[w].at \notin DOMAIN tx[w].wrote /\ tx[w].at \notin tx[w].todo
        /\ DOMAIN tx[w].wrote \subseteq tx[w].locks
        /\ \A j \in tx[w].locks : j \in DOMAIN tx[w].copy /\ row'[j] = tx[w].copy[j]
        /\ \A j \in DOMAIN tx[w].copy : Fresh(tx[w].copy[j])
        /\ \A j \in DOMAIN tx[w].wrote : ResultOf(tx[w].wrote[j], tx[w].copy[j])
    BY <2>1, <2>3 DEF LocksHeld
  <2> QED BY <1>0, <2>1, <2>2, <2>3, <2>4, <2>5, LocksAgain
<1>4. ASSUME NEW w \in Workers, NEW i \in Items, Divert(w, i), channel = "webhook"
      PROVE  HeldLocks' /\ HeldApart'
  <2>1. /\ tx[w] # None /\ row[i] \in Rows /\ Waiting(row[i]) /\ row' = row
        /\ tx[w].copy \in Batches /\ tx[w].wrote \in Batches
    BY <1>4, DivertEffect, CycleNow
  <2>2. \A v \in Workers : tx[v] # None => tx[v].locks = {}
    BY <1>4 DEF Divert, TargetFree
  <2>3. PICK r \in Rows :
          /\ IsDiversionOf(r, row[i])
          /\ CycleBecomes(w, tx[w].todo \ {i}, Put(tx[w].copy, i, row[i]), Put(tx[w].wrote, i, r),
                          tx[w].locks \cup {i}, None, tx[w].arrived)
    BY <1>4, DivertEffect
  <2>4. LocksHeld(tx[w])
    BY <2>1, LockedRow
  <2>5. Fresh(row[i])
    BY <2>1 DEF Held, HeldRows, RowLocked, Fresh, Waiting
  <2>6. ResultOf(r, row[i])
    BY <2>1, <2>3, <2>5, DivertedBudget
  <2> DEFINE copy == Put(tx[w].copy, i, row[i])
             wrote == Put(tx[w].wrote, i, r)
             locks == tx[w].locks \cup {i}
  <2>7. /\ DOMAIN copy = DOMAIN tx[w].copy \cup {i} /\ copy[i] = row[i]
        /\ \A j \in DOMAIN tx[w].copy \ {i} : copy[j] = tx[w].copy[j]
    BY DEF Put
  <2>8. DOMAIN wrote = DOMAIN tx[w].wrote \cup {i} /\ wrote[i] = r
    BY DEF Put
  <2>9. DOMAIN tx[w].wrote = {} /\ locks = {i}
    BY <2>1, <2>2, <2>4 DEF LocksHeld
  <2>10. CycleBecomes(w, tx[w].todo \ {i}, copy, wrote, locks, None, tx[w].arrived)
    BY <2>3
  <2> HIDE DEF copy, wrote, locks
  <2>11. \A j \in DOMAIN copy : Fresh(copy[j])
    BY <2>4, <2>5, <2>7 DEF LocksHeld
  <2>12. /\ \A j \in DOMAIN wrote : ResultOf(wrote[j], copy[j])
         /\ DOMAIN wrote \subseteq locks
         /\ \A j \in locks : j \in DOMAIN copy /\ row'[j] = copy[j]
         /\ \A v \in Workers \ {w} : tx[v] # None => locks \cap tx[v].locks = {}
    BY <2>1, <2>2, <2>6, <2>7, <2>8, <2>9
  <2> QED BY <1>0, <1>4, <2>1, <2>10, <2>11, <2>12, LocksAgain
<1>5. ASSUME NEW w \in Workers, NEW i \in Items, Divert(w, i), channel = "teams"
      PROVE  HeldLocks' /\ HeldApart'
  <2>1. /\ tx[w] # None /\ i \in tx[w].todo /\ i \in DOMAIN tx[w].copy /\ row' = row
        /\ tx[w].wrote \in Batches
    BY <1>5, DivertEffect, CycleNow
  <2>2. PICK r \in Rows :
          /\ IsDiversionOf(r, tx[w].copy[i])
          /\ CycleBecomes(w, tx[w].todo \ {i}, tx[w].copy, Put(tx[w].wrote, i, r), tx[w].locks, None,
                          tx[w].arrived)
    BY <1>5, DivertEffect
  <2>3. LocksHeld(tx[w]) /\ \A v \in Workers \ {w} : tx[v] # None => tx[w].locks \cap tx[v].locks = {}
    BY <2>1, LockedRow DEF Held, HeldApart, RowLocked
  <2>4. Fresh(tx[w].copy[i]) /\ tx[w].copy[i] \in Rows
    BY <2>1, <2>3, CopyKnown DEF LocksHeld
  <2>5. ResultOf(r, tx[w].copy[i])
    BY <2>2, <2>4, DivertedBudget
  <2> DEFINE wrote == Put(tx[w].wrote, i, r)
  <2>6. /\ DOMAIN wrote = DOMAIN tx[w].wrote \cup {i} /\ wrote[i] = r
        /\ \A j \in DOMAIN tx[w].wrote \ {i} : wrote[j] = tx[w].wrote[j]
    BY DEF Put
  <2>7. CycleBecomes(w, tx[w].todo \ {i}, tx[w].copy, wrote, tx[w].locks, None, tx[w].arrived)
    BY <2>2
  <2> HIDE DEF wrote
  <2>8. /\ tx[w].todo \ {i} \subseteq tx[w].locks /\ (tx[w].todo \ {i}) \cap DOMAIN wrote = {}
        /\ DOMAIN wrote \subseteq tx[w].locks
        /\ \A j \in DOMAIN wrote : ResultOf(wrote[j], tx[w].copy[j])
    BY <1>5, <2>1, <2>3, <2>5, <2>6 DEF LocksHeld
  <2>9. /\ \A j \in tx[w].locks : j \in DOMAIN tx[w].copy /\ row'[j] = tx[w].copy[j]
        /\ \A j \in DOMAIN tx[w].copy : Fresh(tx[w].copy[j])
    BY <2>1, <2>3 DEF LocksHeld
  <2> QED BY <1>0, <2>1, <2>3, <2>7, <2>8, <2>9, LocksAgain
<1>6. ASSUME NEW w \in Workers, NEW i \in Items, Begin(w, i), channel = "webhook"
      PROVE  HeldLocks' /\ HeldApart'
  <2>1. /\ tx[w] # None /\ row[i] \in Rows /\ Waiting(row[i]) /\ row' = row /\ tx[w].copy \in Batches
        /\ CycleBecomes(w, tx[w].todo \ {i}, Put(tx[w].copy, i, row[i]), tx[w].wrote, {i}, i, tx[w].arrived)
    BY <1>6, BeginEffect, CycleNow
  <2>2. \A v \in Workers : tx[v] # None => tx[v].locks = {}
    BY <1>6 DEF Begin, TargetFree
  <2>3. LocksHeld(tx[w])
    BY <2>1, LockedRow
  <2>4. DOMAIN tx[w].wrote = {}
    BY <2>1, <2>2, <2>3 DEF LocksHeld
  <2>5. Fresh(row[i])
    BY <2>1 DEF Held, HeldRows, RowLocked, Fresh, Waiting
  <2> DEFINE copy == Put(tx[w].copy, i, row[i])
  <2>6. /\ DOMAIN copy = DOMAIN tx[w].copy \cup {i} /\ copy[i] = row[i]
        /\ \A j \in DOMAIN tx[w].copy \ {i} : copy[j] = tx[w].copy[j]
    BY DEF Put
  <2>7. CycleBecomes(w, tx[w].todo \ {i}, copy, tx[w].wrote, {i}, i, tx[w].arrived)
    BY <2>1
  <2> HIDE DEF copy
  <2>8. \A j \in DOMAIN copy : Fresh(copy[j])
    BY <2>3, <2>5, <2>6 DEF LocksHeld
  <2>9. /\ \A j \in {i} : j \in DOMAIN copy /\ row'[j] = copy[j]
        /\ \A v \in Workers \ {w} : tx[v] # None => {i} \cap tx[v].locks = {}
    BY <2>1, <2>2, <2>6
  <2>10. i \in {i} /\ i \notin DOMAIN tx[w].wrote /\ i \notin tx[w].todo \ {i}
         /\ DOMAIN tx[w].wrote \subseteq {i} /\ \A j \in DOMAIN tx[w].wrote : ResultOf(tx[w].wrote[j], copy[j])
    BY <2>4
  <2> QED BY <1>0, <1>6, <2>1, <2>7, <2>8, <2>9, <2>10, LocksAgain
<1>7. ASSUME NEW w \in Workers, NEW i \in Items, Begin(w, i), channel = "teams"
      PROVE  HeldLocks' /\ HeldApart'
  <2>1. /\ tx[w] # None /\ i \in tx[w].todo /\ row' = row
        /\ CycleBecomes(w, tx[w].todo \ {i}, tx[w].copy, tx[w].wrote, tx[w].locks, i, tx[w].arrived)
    BY <1>7, BeginEffect
  <2>2. LocksHeld(tx[w]) /\ \A v \in Workers \ {w} : tx[v] # None => tx[w].locks \cap tx[v].locks = {}
    BY <2>1, LockedRow DEF Held, HeldApart, RowLocked
  <2>3. /\ tx[w].todo \ {i} \subseteq tx[w].locks /\ (tx[w].todo \ {i}) \cap DOMAIN tx[w].wrote = {}
        /\ i \in tx[w].locks /\ i \notin DOMAIN tx[w].wrote /\ i \notin tx[w].todo \ {i}
    BY <1>7, <2>1, <2>2 DEF LocksHeld
  <2>4. /\ DOMAIN tx[w].wrote \subseteq tx[w].locks
        /\ \A j \in tx[w].locks : j \in DOMAIN tx[w].copy /\ row'[j] = tx[w].copy[j]
        /\ \A j \in DOMAIN tx[w].copy : Fresh(tx[w].copy[j])
        /\ \A j \in DOMAIN tx[w].wrote : ResultOf(tx[w].wrote[j], tx[w].copy[j])
    BY <2>1, <2>2 DEF LocksHeld
  <2> QED BY <1>0, <2>1, <2>2, <2>3, <2>4, LocksAgain
<1>8. ASSUME NEW w \in Workers, NEW ok \in BOOLEAN, NEW retryable \in BOOLEAN, Settle(w, ok, retryable)
      PROVE  HeldLocks' /\ HeldApart'
  <2>1. /\ tx[w] # None /\ tx[w].at \in DOMAIN tx[w].copy /\ row' = row /\ tx[w].wrote \in Batches
        /\ tx[w].at # None
    BY <1>8, SettleEffect, CycleNow DEF RowLocked, At
  <2>2. PICK i \in Items : i = tx[w].at
    BY <2>1, CopyKnown
  <2>3. PICK r \in Rows, arrived \in BOOLEAN :
            /\ IsOutcomeOf(r, Tried(tx[w].copy[i]), ok)
            /\ CycleBecomes(w, tx[w].todo, tx[w].copy, Put(tx[w].wrote, i, r), tx[w].locks, None, arrived)
    BY <1>8, <2>2, SettleEffect DEF RowLocked
  <2>4. LocksHeld(tx[w]) /\ \A v \in Workers \ {w} : tx[v] # None => tx[w].locks \cap tx[v].locks = {}
    BY <2>1, LockedRow DEF Held, HeldApart, RowLocked
  <2>5. Fresh(tx[w].copy[i]) /\ tx[w].copy[i] \in Rows
    BY <2>1, <2>2, <2>4, CopyKnown DEF LocksHeld
  <2>6. ResultOf(r, tx[w].copy[i])
    BY <2>3, <2>5, OutcomeBudget
  <2> DEFINE wrote == Put(tx[w].wrote, i, r)
  <2>7. /\ DOMAIN wrote = DOMAIN tx[w].wrote \cup {i} /\ wrote[i] = r
        /\ \A j \in DOMAIN tx[w].wrote \ {i} : wrote[j] = tx[w].wrote[j]
    BY DEF Put
  <2>8. CycleBecomes(w, tx[w].todo, tx[w].copy, wrote, tx[w].locks, None, arrived)
    BY <2>3
  <2> HIDE DEF wrote
  <2>9. /\ channel = "teams" => tx[w].todo \subseteq tx[w].locks /\ tx[w].todo \cap DOMAIN wrote = {}
        /\ DOMAIN wrote \subseteq tx[w].locks
        /\ \A j \in DOMAIN wrote : ResultOf(wrote[j], tx[w].copy[j])
    BY <2>1, <2>2, <2>4, <2>6, <2>7 DEF LocksHeld
  <2>10. /\ \A j \in tx[w].locks : j \in DOMAIN tx[w].copy /\ row'[j] = tx[w].copy[j]
         /\ \A j \in DOMAIN tx[w].copy : Fresh(tx[w].copy[j])
    BY <2>1, <2>4 DEF LocksHeld
  <2> QED BY <1>0, <2>1, <2>4, <2>8, <2>9, <2>10, LocksAgain
<1>9. ASSUME NEW w \in Workers, Commit(w) PROVE HeldLocks' /\ HeldApart'
  <2> DEFINE kept == IF channel = "webhook" THEN [i \in {} |-> None] ELSE tx[w].copy
             none == [i \in {} |-> None]
  <2>1. /\ tx[w] # None
        /\ channel = "teams" => tx[w].todo = {}
        /\ \A i \in DOMAIN tx[w].wrote : i \in DOMAIN tx[w].copy
        /\ \A i \in Items \ DOMAIN tx[w].wrote : row'[i] = row[i]
        /\ CycleBecomes(w, tx[w].todo, kept, none, {}, None, tx[w].arrived)
    BY <1>9, CommitEffect
  <2>2. DOMAIN none = {}
    BY NoBatch
  <2>3. LocksHeld(tx[w]) /\ \A v \in Workers \ {w} : tx[v] # None => tx[w].locks \cap tx[v].locks = {}
    BY <2>1, LockedRow DEF Held, HeldApart, RowLocked
  <2>4. \A v \in Workers \ {w} : tx[v] # None => \A i \in tx[v].locks : row'[i] = row[i]
    <3> SUFFICES ASSUME NEW v \in Workers \ {w}, tx[v] # None, NEW i \in tx[v].locks PROVE row'[i] = row[i]
      OBVIOUS
    <3>1. i \in Items
      BY CycleNow
    <3>2. i \notin DOMAIN tx[w].wrote
      BY <2>3 DEF LocksHeld
    <3> QED BY <2>1, <3>1, <3>2
  <2>5. \A j \in DOMAIN kept : Fresh(kept[j])
    BY <2>2, <2>3 DEF LocksHeld
  <2> HIDE DEF kept, none
  <2> QED BY <1>0, <2>1, <2>2, <2>4, <2>5, LocksAgain
<1>10. CASE (tx' = tx \/ \E w \in Workers : tx' = [tx EXCEPT ![w] = None])
            /\ \A i \in Items : row[i] # None /\ Locked(i) => row'[i] = row[i]
  <2>1. \A v \in Workers : tx[v] # None => \A i \in tx[v].locks : row'[i] = row[i]
    <3> SUFFICES ASSUME NEW v \in Workers, tx[v] # None, NEW i \in tx[v].locks PROVE row'[i] = row[i]
      OBVIOUS
    <3>1. i \in DOMAIN tx[v].copy /\ Locked(i)
      BY LockedRow DEF LocksHeld, Locked
    <3>2. i \in Items /\ row[i] # None
      BY <3>1, CopyKnown, NoneAssumption
    <3> QED BY <1>10, <3>1, <3>2
  <2> QED BY <1>0, <1>10, <2>1, LocksLeft
<1>11. ASSUME NEW i \in Items, NEW j \in Items, Queue(i) \/ Provision(i) \/ ReplayDelivery(j, i)
       PROVE  HeldLocks' /\ HeldApart'
  <2>1. row[i] = None /\ \E r : row' = [row EXCEPT ![i] = r]
    BY <1>11, AcceptEffect
  <2>2. \A k \in Items : row[k] # None => row'[k] = row[k]
    BY <2>1
  <2>3. tx' = tx
    BY <1>11 DEF Queue, Provision, ReplayDelivery
  <2> QED BY <1>10, <2>2, <2>3
<1>12. ASSUME NEW i \in Items, BecomeDue(i) \/ Bounce(i) PROVE HeldLocks' /\ HeldApart'
  <2>1. tx' = tx /\ ~Locked(i) /\ \E r : row' = [row EXCEPT ![i] = r]
    BY <1>12 DEF BecomeDue, Bounce, RowLocked
  <2> QED BY <1>10, <2>1
<1>13. ASSUME NEW c \in Clerks, Reopen(c) \/ Reapply(c) PROVE HeldLocks' /\ HeldApart'
  <2>1. tx' = tx /\ ~Locked(desk[c].item) /\ \E r : row' = [row EXCEPT ![desk[c].item] = r]
    BY <1>13 DEF Reopen, Reapply, RowLocked
  <2> QED BY <1>10, <2>1
<1>14. ASSUME NEW c \in Clerks, NEW i \in Items, Open(c, i) PROVE HeldLocks' /\ HeldApart'
  BY <1>10, <1>14 DEF Open
<1>15. ASSUME NEW status \in {"PAUSED", "ACTIVE", "REVOKED"}, SetStatus(status) \/ Rotate
       PROVE  HeldLocks' /\ HeldApart'
  BY <1>10, <1>15 DEF SetStatus, Rotate, Change
<1>16. ASSUME NEW w \in Workers, Finish(w) \/ Abort(w) PROVE HeldLocks' /\ HeldApart'
  BY <1>10, <1>16 DEF Finish, Abort
<1>17. CASE UNCHANGED vars
  BY <1>10, <1>17 DEF vars
<1>18. ASSUME NEW w \in Workers, CycleStep(w) PROVE HeldLocks' /\ HeldApart'
  BY <1>1, <1>2, <1>3, <1>4, <1>5, <1>6, <1>7, <1>8, <1>9, <1>16, <1>18 DEF CycleStep, RowLocked
<1> QED  BY <1>11, <1>12, <1>13, <1>14, <1>15, <1>16, <1>17, <1>18 DEF Next

\* What a commit writes is the result of the row as it still is.
LEMMA CommitRow ==
  ASSUME Kept, Held, RowLocked, NEW w \in Workers, Commit(w), NEW i \in Items
  PROVE  /\ tx[w] # None /\ tx[w].at = None
         /\ i \in DOMAIN tx[w].wrote =>
              /\ i \in tx[w].locks /\ row[i] \in Rows /\ row[i] = tx[w].copy[i]
              /\ row'[i] = tx[w].wrote[i] /\ ResultOf(row'[i], row[i])
         /\ i \notin DOMAIN tx[w].wrote => row'[i] = row[i]
<1> USE DEF Kept
<1>1. /\ tx[w] # None /\ tx[w].at = None
      /\ \A j \in DOMAIN tx[w].wrote :
           /\ j \in DOMAIN tx[w].copy /\ tx[w].wrote[j] \in Rows
           /\ row'[j] = Write(row[j], tx[w].copy[j], tx[w].wrote[j])
      /\ \A j \in Items \ DOMAIN tx[w].wrote : row'[j] = row[j]
  BY CommitEffect
<1>2. LocksHeld(tx[w])
  BY <1>1, LockedRow
<1>3. ASSUME i \in DOMAIN tx[w].wrote
      PROVE  /\ i \in tx[w].locks /\ row[i] \in Rows /\ row[i] = tx[w].copy[i]
             /\ row'[i] = tx[w].wrote[i] /\ ResultOf(tx[w].wrote[i], row[i])
  <2>1. i \in tx[w].locks /\ row[i] = tx[w].copy[i] /\ ResultOf(tx[w].wrote[i], row[i])
    BY <1>2, <1>3 DEF LocksHeld
  <2>2. row[i] \in Rows
    BY <1>1, <1>3, CopyKnown
  <2>3. row'[i] = Write(row[i], row[i], tx[w].wrote[i]) /\ tx[w].wrote[i] \in Rows
    BY <1>1, <1>3, <2>1
  <2> QED BY <2>1, <2>2, <2>3, WriteUnchanged
<1> QED  BY <1>1, <1>3

\* A card retried by hand begins again with all its attempts.
LEMMA ReopenRow ==
  ASSUME Kept, Held, RowLocked, NEW c \in Clerks, Reopen(c)
  PROVE  /\ desk[c] # None /\ desk[c].item \in Items /\ row[desk[c].item] \in Rows
         /\ \E r \in Rows : row' = [row EXCEPT ![desk[c].item] = r] /\ Budgeted(r)
<1> USE DEF Kept
<1> DEFINE i == desk[c].item
           read == desk[c].copy
<1>1. desk[c] # None
  BY ReopenEffect
<1>2. i \in Items /\ read \in Rows /\ row[i] \in Rows
  BY <1>1, DeskNow
<1>3. channel = "teams" /\ read.tries > 0 /\ read.limit = Limit /\ read.status = "GIVEN_UP"
  BY <1>1 DEF Held, HeldDesk, RowLocked, Budgeted
<1>4. row[i].limit = Limit
  BY <1>2, NoneAssumption DEF Held, HeldRows, RowLocked, Budgeted
<1>5. /\ Requeued(read) \in Rows /\ Requeued(read).status \in {"QUEUED", "RETRY"}
      /\ Requeued(read).tries = 0 /\ Requeued(read).limit = Limit
  BY <1>2, <1>3, RequeuedRow
<1>6. PICK r \in Rows : r = Write(row[i], read, Requeued(read)) /\ row' = [row EXCEPT ![i] = r]
  BY ReopenEffect
<1>7. r.limit = Limit /\ r.tries = 0 /\ r.status \in {"QUEUED", "RETRY"}
  BY <1>2, <1>3, <1>4, <1>5, <1>6, WriteRow
<1>8. Budgeted(r)
  BY <1>7, OutboxAssumption DEF Budgeted
<1> QED  BY <1>1, <1>2, <1>6, <1>8

LEMMA RowsStayBudgeted ==
  ASSUME Kept, Held, RowLocked, [Next]_vars
  PROVE  HeldRows'
<1> USE DEF Kept
<1>0. channel' = channel /\ HeldRows /\ row \in [Items -> Rows \cup {None}]
  BY ChannelStays DEF Held, RowLocked, Typed
<1>1. \A r : Budgeted(r)' = Budgeted(r)
  BY <1>0 DEF Budgeted
<1>2. ASSUME NEW i \in Items, NEW r \in Rows, row' = [row EXCEPT ![i] = r], Budgeted(r) PROVE HeldRows'
  BY <1>0, <1>1, <1>2 DEF HeldRows
<1>3. ASSUME row' = row PROVE HeldRows'
  BY <1>0, <1>1, <1>3 DEF HeldRows
<1>4. ASSUME NEW i \in Items, NEW j \in Items, Queue(i) \/ Provision(i) \/ ReplayDelivery(j, i)
      PROVE  HeldRows'
  <2>1. PICK r \in Rows : row' = [row EXCEPT ![i] = r] /\ r.status = "QUEUED" /\ r.tries = 0 /\ r.limit = Limit
    BY <1>4, AcceptEffect DEF RowLocked
  <2>2. Budgeted(r)
    BY <2>1, OutboxAssumption DEF Budgeted
  <2> QED BY <1>2, <2>1, <2>2
<1>5. ASSUME NEW i \in Items, BecomeDue(i) PROVE HeldRows'
  <2>1. PICK r \in Rows : /\ row' = [row EXCEPT ![i] = r]
                          /\ r.status = row[i].status /\ r.tries = row[i].tries /\ r.limit = row[i].limit
    BY <1>5, DueEffect
  <2>2. Budgeted(row[i])
    BY <1>0, <1>5, DueEffect, NoneAssumption DEF HeldRows
  <2>3. Budgeted(r)
    BY <2>1, <2>2 DEF Budgeted
  <2> QED BY <1>2, <2>1, <2>3
<1>6. ASSUME NEW i \in Items, Bounce(i) PROVE HeldRows'
  BY <1>6 DEF Bounce, RowLocked
<1>7. ASSUME NEW w \in Workers, Commit(w) PROVE HeldRows'
  <2>1. \A i \in Items : row'[i] = row[i] \/ Budgeted(row'[i])
    BY <1>7, CommitRow DEF ResultOf
  <2> QED BY <1>0, <1>1, <2>1 DEF HeldRows
<1>8. ASSUME NEW w \in Workers, Select(w) \/ Finish(w) \/ Abort(w) \/ Arrive(w) PROVE HeldRows'
  BY <1>3, <1>8 DEF Select, Finish, Abort, Arrive
<1>9. ASSUME NEW w \in Workers, NEW i \in Items, Skip(w, i) \/ Divert(w, i) \/ Begin(w, i) PROVE HeldRows'
  <2>1. CASE Skip(w, i)
    BY <1>3, <2>1 DEF Skip
  <2>2. CASE Divert(w, i)
    BY <1>3, <2>2, DivertEffect DEF RowLocked
  <2>3. CASE Begin(w, i)
    BY <1>3, <2>3, BeginEffect DEF RowLocked
  <2> QED BY <1>9, <2>1, <2>2, <2>3
<1>10. ASSUME NEW w \in Workers, NEW ok \in BOOLEAN, NEW retryable \in BOOLEAN, Settle(w, ok, retryable)
       PROVE  HeldRows'
  BY <1>3, <1>10, SettleEffect DEF RowLocked
<1>11. ASSUME NEW c \in Clerks, NEW i \in Items, Open(c, i) PROVE HeldRows'
  BY <1>3, <1>11 DEF Open
<1>12. ASSUME NEW c \in Clerks, Reopen(c) PROVE HeldRows'
  BY <1>2, <1>12, ReopenRow
<1>13. ASSUME NEW c \in Clerks, Reapply(c) PROVE HeldRows'
  BY <1>13 DEF Reapply, RowLocked
<1>14. ASSUME NEW status \in {"PAUSED", "ACTIVE", "REVOKED"}, SetStatus(status) \/ Rotate PROVE HeldRows'
  BY <1>3, <1>14 DEF SetStatus, Rotate, Change
<1>15. CASE UNCHANGED vars
  BY <1>3, <1>15 DEF vars
<1>16. ASSUME NEW w \in Workers, CycleStep(w) \/ Abort(w) PROVE HeldRows'
  BY <1>7, <1>8, <1>9, <1>10, <1>16 DEF CycleStep
<1> QED  BY <1>4, <1>5, <1>6, <1>11, <1>12, <1>13, <1>14, <1>15, <1>16 DEF Next

\* What has been read to be retried by hand are cards that have been given up.
LEMMA DeskStaysBudgeted ==
  ASSUME Kept, Held, RowLocked, [Next]_vars
  PROVE  HeldDesk'
<1>1. channel' = channel
  BY ChannelStays DEF Kept
<1> SUFFICES ASSUME NEW c \in Clerks, desk'[c] # None
             PROVE  channel = "teams" /\ Budgeted(desk'[c].copy) /\ desk'[c].copy.status = "GIVEN_UP"
  BY <1>1 DEF HeldDesk, Budgeted
<1>2. CASE desk'[c] = desk[c]
  BY <1>2 DEF Held, HeldDesk, RowLocked
<1>3. ASSUME NEW i \in Items, channel # "webhook", row[i] # None, Retryable(row[i]),
             desk'[c] = [item |-> i, copy |-> row[i]]
      PROVE  channel = "teams" /\ Budgeted(desk'[c].copy) /\ desk'[c].copy.status = "GIVEN_UP"
  <2>1. desk'[c].copy = row[i] /\ Budgeted(row[i]) /\ channel = "teams"
    BY <1>3 DEF Held, HeldRows, RowLocked
  <2> QED BY <1>3, <2>1 DEF Retryable
<1> QED  BY <1>2, <1>3, DeskMoves DEF Kept

LEMMA InitHeld == Init => Held
BY DEF Init, Held, HeldRows, HeldLocks, HeldApart, HeldDesk

LEMMA HeldPreserved == Kept /\ Held /\ [Next]_vars => Held'
<1> SUFFICES ASSUME Kept, Held, [Next]_vars, channel' \in {"webhook", "teams"}
             PROVE  HeldRows' /\ HeldLocks' /\ HeldApart' /\ HeldDesk'
  BY DEF Held
<1>1. RowLocked
  BY ChannelStays DEF Kept, RowLocked
<1> QED  BY <1>1, LocksPreserved, RowsStayBudgeted, DeskStaysBudgeted

-----------------------------------------------------------------------------
(* Charged: what an item has spent of its budget.                          *)

SpentStays(i) ==
  /\ Tries(i)' >= Tries(i)
  /\ Pending(i) => Pending(i)' \/ Tries(i)' > Tries(i)

LEMMA SpentIs ==
  ASSUME Kept, NEW i \in Items
  PROVE  Tries(i) \in Nat /\ Spent(i) \in Nat
<1>1. Tries(i) \in Nat
  BY DEF Kept, Typed, Tries, Rows
<1> QED  BY <1>1 DEF Spent

LEMMA SpentGrows ==
  ASSUME Kept, Kept', NEW i \in Items, SpentStays(i)
  PROVE  Spent(i)' >= Spent(i) /\ Spent(i)' \in Nat
<1>1. Tries(i) \in Nat /\ Tries(i)' \in Nat
  BY SpentIs DEF Kept, Typed, Tries, Rows
<1> QED  BY <1>1 DEF Spent, SpentStays

\* An attempt is of an item that the cycle has locked, and that has one left.
LEMMA AttemptLocked ==
  ASSUME Kept, Held, RowLocked, NEW w \in Workers, NEW i, Attempt(w, i)
  PROVE  /\ tx[w] # None /\ i \in tx[w].locks /\ i \in Items
         /\ row[i] \in Rows /\ row[i] = tx[w].copy[i] /\ row[i].tries < Limit
<1>1. tx[w] # None
  BY DEF Attempt
<1>2. LocksHeld(tx[w])
  BY <1>1, LockedRow
<1>3. tx[w].arrived => tx[w].at # None
  BY <1>1 DEF Kept, Earned, EarnedCycles
<1>4. i \in tx[w].locks
  BY <1>2, <1>3 DEF Attempt, LocksHeld
<1>5. i \in DOMAIN tx[w].copy /\ row[i] = tx[w].copy[i] /\ Fresh(tx[w].copy[i])
  BY <1>2, <1>4 DEF LocksHeld
<1>6. i \in Items /\ row[i] \in Rows
  BY <1>1, <1>5, CopyKnown DEF Kept
<1> QED  BY <1>1, <1>4, <1>5, <1>6 DEF Fresh, Budgeted

\* Only the cycle that moves can lose its attempt.
LEMMA OthersPending ==
  ASSUME NEW w \in Workers, \A v \in Workers \ {w} : tx'[v] = tx[v], NEW i, Pending(i), ~Attempt(w, i)
  PROVE  Pending(i)'
BY DEF Pending, Attempt

LEMMA SelectSpent ==
  ASSUME Kept, Held, RowLocked, NEW w \in Workers, NEW i \in Items, Select(w) \/ Finish(w)
  PROVE  SpentStays(i)
<1>1. row' = row /\ \A v \in Workers \ {w} : tx'[v] = tx[v]
  BY DEF Select, Finish, Kept, Typed
<1>2. ~Attempt(w, i)
  <2>1. CASE Select(w)
    BY <2>1 DEF Select, Attempt
  <2>2. CASE Finish(w)
    BY <2>2 DEF Finish, Uncommitted, Attempt, Kept, Earned, EarnedCycles
  <2> QED BY <2>1, <2>2
<1>3. Tries(i)' = Tries(i) /\ Tries(i) \in Nat
  BY <1>1, SpentIs DEF Tries
<1> QED  BY <1>1, <1>2, <1>3, OthersPending DEF SpentStays

\* A step of a cycle that leaves the rows, and keeps its attempts.
LEMMA MoveSpent ==
  ASSUME Kept, NEW w \in Workers, NEW i \in Items, row' = row,
         NEW todo, NEW copy, NEW wrote, NEW locks, NEW at, NEW arrived,
         CycleBecomes(w, todo, copy, wrote, locks, at, arrived),
         Attempt(w, i) => \/ at = i /\ arrived
                          \/ i \in DOMAIN wrote /\ wrote[i].tries > copy[i].tries
  PROVE  SpentStays(i)
<1>1. /\ \A v \in Workers \ {w} : tx'[v] = tx[v]
      /\ tx'[w] \in Cycles /\ tx'[w].copy = copy /\ tx'[w].wrote = wrote
      /\ tx'[w].at = at /\ tx'[w].arrived = arrived
  BY DEF CycleBecomes
<1>2. tx'[w] # None
  BY <1>1, NoneAssumption
<1>3. Attempt(w, i) => Pending(i)'
  BY <1>1, <1>2 DEF Pending, Attempt
<1>4. Tries(i)' = Tries(i) /\ Tries(i) \in Nat
  BY SpentIs DEF Tries
<1> QED  BY <1>1, <1>3, <1>4, OthersPending DEF SpentStays

\* Between two attempts, what a cycle has spent is in what it has to commit.
LEMMA IdleAttempt ==
  ASSUME Kept, NEW w \in Workers, NEW i, Attempt(w, i), tx[w].at = None
  PROVE  i \in DOMAIN tx[w].wrote /\ tx[w].wrote[i].tries > tx[w].copy[i].tries
BY DEF Attempt, Kept, Earned, EarnedCycles

LEMMA TurnSpent ==
  ASSUME Kept, Held, RowLocked, NEW w \in Workers, NEW j \in Items, NEW i \in Items,
         Skip(w, j) \/ Begin(w, j) \/ Divert(w, j)
  PROVE  SpentStays(i)
<1> USE DEF Kept
<1>1. tx[w] # None /\ tx[w].at = None /\ j \in tx[w].todo
  BY DEF Skip, Begin, Divert, Turn
<1>2. LocksHeld(tx[w])
  BY <1>1, LockedRow
<1>3. CASE Skip(w, j)
  <2>1. CycleBecomes(w, tx[w].todo \ {j}, tx[w].copy, tx[w].wrote, tx[w].locks, None, tx[w].arrived)
    BY <1>3, SkipEffect
  <2> QED BY <1>1, <1>3, <2>1, IdleAttempt, MoveSpent DEF Skip
<1>4. CASE channel = "webhook" /\ (Begin(w, j) \/ Divert(w, j))
  <2>1. DOMAIN tx[w].wrote = {}
    BY <1>1, <1>2, <1>4 DEF Begin, Divert, TargetFree, LocksHeld
  <2>2. ~Attempt(w, i)
    BY <1>1, <2>1, IdleAttempt
  <2>3. row' = row /\ \E copy, wrote, locks, at, arrived :
          CycleBecomes(w, tx[w].todo \ {j}, copy, wrote, locks, at, arrived)
    BY <1>4, BeginEffect, DivertEffect
  <2> QED BY <2>2, <2>3, MoveSpent
<1>5. CASE channel = "teams" /\ Begin(w, j)
  <2>1. row' = row /\ CycleBecomes(w, tx[w].todo \ {j}, tx[w].copy, tx[w].wrote, tx[w].locks, j, tx[w].arrived)
    BY <1>5, BeginEffect
  <2> QED BY <1>1, <2>1, IdleAttempt, MoveSpent
<1>6. CASE channel = "teams" /\ Divert(w, j)
  <2>1. PICK r \in Rows :
          /\ row' = row
          /\ CycleBecomes(w, tx[w].todo \ {j}, tx[w].copy, Put(tx[w].wrote, j, r), tx[w].locks, None,
                          tx[w].arrived)
    BY <1>6, DivertEffect
  <2>2. j \notin DOMAIN tx[w].wrote
    BY <1>1, <1>2, <1>6 DEF LocksHeld
  <2>3. ASSUME Attempt(w, i)
        PROVE  i \in DOMAIN Put(tx[w].wrote, j, r) /\ Put(tx[w].wrote, j, r)[i] = tx[w].wrote[i]
    BY <1>1, <2>2, <2>3, IdleAttempt DEF Put
  <2>4. Attempt(w, i) => /\ i \in DOMAIN Put(tx[w].wrote, j, r)
                         /\ Put(tx[w].wrote, j, r)[i].tries > tx[w].copy[i].tries
    BY <1>1, <2>3, IdleAttempt
  <2> QED BY <2>1, <2>4, MoveSpent
<1> QED  BY <1>3, <1>4, <1>5, <1>6 DEF RowLocked

LEMMA SettleSpent ==
  ASSUME Kept, Held, RowLocked, NEW w \in Workers, NEW ok \in BOOLEAN, NEW retryable \in BOOLEAN,
         NEW i \in Items, Settle(w, ok, retryable)
  PROVE  SpentStays(i)
<1> USE DEF Kept
<1> DEFINE j == tx[w].at
<1>1. tx[w] # None /\ j # None /\ j \in DOMAIN tx[w].copy /\ row' = row
  BY SettleEffect DEF RowLocked, At
<1>2. PICK r \in Rows :
        /\ IsOutcomeOf(r, Tried(tx[w].copy[j]), ok)
        /\ \E arrived : CycleBecomes(w, tx[w].todo, tx[w].copy, Put(tx[w].wrote, j, r), tx[w].locks, None, arrived)
  BY SettleEffect DEF RowLocked
<1>3. LocksHeld(tx[w]) /\ tx[w].copy[j] \in Rows
  BY <1>1, LockedRow, CopyKnown
<1>4. r.tries = tx[w].copy[j].tries + 1 /\ r.tries > tx[w].copy[j].tries
  BY <1>1, <1>2, <1>3, OutcomeBudget DEF LocksHeld, Rows
<1>5. j \notin DOMAIN tx[w].wrote
  BY <1>1, <1>3 DEF LocksHeld
<1> DEFINE wrote == Put(tx[w].wrote, j, r)
<1>6. i = j => i \in DOMAIN wrote /\ wrote[i] = r
  BY DEF Put
<1>7. i \in DOMAIN tx[w].wrote => i \in DOMAIN wrote /\ wrote[i] = tx[w].wrote[i]
  BY <1>5 DEF Put
<1> HIDE DEF wrote, j
<1>8. Attempt(w, i) => i \in DOMAIN wrote /\ wrote[i].tries > tx[w].copy[i].tries
  BY <1>4, <1>6, <1>7 DEF Attempt, j
<1>9. \E arrived : CycleBecomes(w, tx[w].todo, tx[w].copy, wrote, tx[w].locks, None, arrived)
  BY <1>2 DEF wrote
<1> QED  BY <1>1, <1>8, <1>9, MoveSpent

LEMMA CommitSpent ==
  ASSUME Kept, Held, RowLocked, NEW w \in Workers, NEW i \in Items, Commit(w)
  PROVE  SpentStays(i)
<1> USE DEF Kept
<1>1. /\ tx[w] # None /\ tx[w].at = None
      /\ \A v \in Workers \ {w} : tx'[v] = tx[v]
  BY CommitEffect DEF CycleBecomes
<1>2. CASE i \notin DOMAIN tx[w].wrote
  <2>1. ~Attempt(w, i)
    BY <1>1, <1>2, IdleAttempt
  <2>2. Tries(i)' = Tries(i) /\ Tries(i) \in Nat
    BY <1>2, CommitRow, SpentIs DEF Tries
  <2> QED BY <1>1, <2>1, <2>2, OthersPending DEF SpentStays
<1>3. CASE i \in DOMAIN tx[w].wrote
  <2>1. /\ i \in tx[w].locks /\ row[i] \in Rows /\ row[i] = tx[w].copy[i]
        /\ row'[i] = tx[w].wrote[i] /\ ResultOf(row'[i], row[i])
    BY <1>3, CommitRow
  <2>2. row'[i] # None /\ row[i] # None
    BY <1>1, <2>1, CommitEffect, NoneAssumption DEF RowsKept
  <2>3. Tries(i) = row[i].tries /\ Tries(i)' = row'[i].tries /\ row[i].tries \in Nat
    BY <2>1, <2>2 DEF Tries, Rows
  <2>4. Tries(i)' \in {Tries(i), Tries(i) + 1}
    BY <2>1, <2>3 DEF ResultOf
  <2>5. Attempt(w, i) => Tries(i)' > Tries(i)
    BY <1>1, <2>1, <2>3, IdleAttempt
  <2>6. \A v \in Workers : Attempt(v, i) => v = w
    BY <1>1, <2>1, AttemptLocked DEF Held, HeldApart, RowLocked
  <2> QED BY <2>3, <2>4, <2>5, <2>6 DEF SpentStays, Pending
<1> QED  BY <1>2, <1>3

-----------------------------------------------------------------------------
(* Every arrival is accounted for.                                         *)

LEMMA CountsAre ==
  ASSUME Kept, IsFiniteSet(AtDesk), NEW i \in Items
  PROVE  /\ sent[i] \in Nat /\ Spent(i) \in Nat /\ reopens \in Nat /\ faults \in Nat
         /\ Cardinality(AtDesk) \in Nat
         /\ Limit \in Nat
BY SpentIs, FS_CardinalityType, OutboxAssumption DEF Kept, TypeOK, Typed

LEMMA OnceMore ==
  ASSUME NEW n \in Nat
  PROVE  Limit * (n + 1) = Limit * n + Limit /\ Limit * n \in Nat
BY OutboxAssumption

\* A step without an arrival, and without a clerk.
LEMMA QuietAccount ==
  ASSUME Kept, Kept', IsFiniteSet(AtDesk), NEW i \in Items, Account(i), SpentStays(i),
         sent'[i] = sent[i], desk' = desk,
         reopens' \in {reopens, reopens + 1}, faults' = faults
  PROVE  Account(i)'
<1> DEFINE n == Cardinality(AtDesk)
           p == Spent(i)
           q == Spent(i)'
<1>1. /\ sent[i] \in Nat /\ p \in Nat /\ q \in Nat /\ reopens \in Nat /\ faults \in Nat
      /\ n \in Nat /\ Limit \in Nat
  BY CountsAre, SpentIs, SpentGrows
<1>2. q >= p
  BY SpentGrows
<1>3. Cardinality(AtDesk)' = n
  BY DEF AtDesk
<1>4. Limit * reopens' >= Limit * reopens /\ Limit * reopens \in Nat /\ Limit * reopens' \in Nat
      /\ Limit * n \in Nat
  <2>1. Limit * (reopens + 1) = Limit * reopens + Limit /\ Limit * reopens \in Nat /\ Limit * n \in Nat
    BY <1>1, OnceMore
  <2>2. CASE reopens' = reopens
    BY <1>1, <2>1, <2>2
  <2>3. CASE reopens' = reopens + 1
    <3>1. Limit * reopens' = Limit * reopens + Limit
      BY <2>1, <2>3
    <3>2. Limit * reopens + Limit \in Nat /\ Limit * reopens + Limit >= Limit * reopens
      BY <1>1, <2>1
    <3> QED BY <2>1, <3>1, <3>2
  <2> QED BY <2>2, <2>3
<1>5. sent[i] + Limit * n <= Limit * reopens + p + faults
  BY DEF Account
<1>6. sent[i] + Limit * n <= Limit * reopens' + q + faults
  <2> HIDE DEF n, p, q
  <2> QED BY <1>1, <1>2, <1>4, <1>5
<1> QED  BY <1>3, <1>6 DEF Account

\* An item never has more attempts than its limit, the one under way included.
LEMMA SpentWithin ==
  ASSUME Kept, Held, RowLocked, NEW i \in Items
  PROVE  Spent(i) <= Limit
<1>1. Tries(i) \in Nat /\ Tries(i) <= Limit /\ Limit \in Nat
  <2>1. CASE row[i] = None
    BY <2>1, OutboxAssumption DEF Tries
  <2>2. CASE row[i] # None
    <3>1. Budgeted(row[i])
      BY <2>2 DEF Held, HeldRows, RowLocked
    <3> QED BY <2>2, <3>1, SpentIs, OutboxAssumption DEF Budgeted, Tries
  <2> QED BY <2>1, <2>2
<1>2. ASSUME Pending(i) PROVE Tries(i) < Limit
  <2>1. row[i] \in Rows /\ row[i].tries < Limit
    BY <1>2, AttemptLocked DEF Pending
  <2> QED BY <2>1, NoneAssumption DEF Tries
<1> QED  BY <1>1, <1>2 DEF Spent

\* The call of a cycle is its attempt from now on: nobody had one before.
LEMMA ArriveAccount ==
  ASSUME Kept, Kept', Held, RowLocked, IsFiniteSet(AtDesk), NEW w \in Workers, Arrive(w),
         NEW i \in Items, Account(i)
  PROVE  Account(i)'
<1> DEFINE j == tx[w].at
<1>1. /\ tx[w] # None /\ j # None /\ ~tx[w].arrived
      /\ sent' = [sent EXCEPT ![j] = @ + 1]
      /\ UNCHANGED <<row, desk, reopens, faults>>
  BY DEF Arrive, At, RowLocked
<1>2. CycleBecomes(w, tx[w].todo, tx[w].copy, tx[w].wrote, tx[w].locks, tx[w].at, TRUE)
  BY ArriveEffect DEF Kept
<1>3. LocksHeld(tx[w])
  BY <1>1, LockedRow
<1>4. ~Attempt(w, j)
  BY <1>1, <1>3 DEF Attempt, LocksHeld
<1>5. CASE i # j
  <2>1. sent'[i] = sent[i]
    BY <1>1, <1>5 DEF Kept, TypeOK
  <2>2. SpentStays(i)
    <3>1. PICK arrived : CycleBecomes(w, tx[w].todo, tx[w].copy, tx[w].wrote, tx[w].locks, tx[w].at, arrived)
      BY <1>2
    <3>2. Attempt(w, i) => i \in DOMAIN tx[w].wrote /\ tx[w].wrote[i].tries > tx[w].copy[i].tries
      BY <1>5 DEF Attempt
    <3> QED BY <1>1, <3>1, <3>2, MoveSpent
  <2> QED BY <1>1, <2>1, <2>2, QuietAccount
<1>6. CASE i = j
  <2>1. ~Pending(i)
    <3>1. i \in tx[w].locks
      BY <1>1, <1>3, <1>6 DEF LocksHeld
    <3>2. \A v \in Workers : Attempt(v, i) => v = w
      BY <1>1, <3>1, AttemptLocked DEF Held, HeldApart, RowLocked
    <3> QED BY <1>4, <1>6, <3>2 DEF Pending
  <2>2. Pending(i)'
    <3>1. tx'[w] \in Cycles /\ tx'[w].at = i /\ tx'[w].arrived
      BY <1>2, <1>6 DEF CycleBecomes
    <3> QED BY <3>1, NoneAssumption DEF Pending, Attempt
  <2>3. Tries(i)' = Tries(i) /\ Tries(i) \in Nat
    BY <1>1, SpentIs DEF Tries
  <2>4. Spent(i)' = Spent(i) + 1
    BY <2>1, <2>2, <2>3 DEF Spent
  <2>5. sent'[i] = sent[i] + 1
    BY <1>1, <1>6 DEF Kept, TypeOK
  <2>6. Cardinality(AtDesk)' = Cardinality(AtDesk)
    BY <1>1 DEF AtDesk
  <2> DEFINE charge == Limit * Cardinality(AtDesk)
             allowance == Limit * reopens
             p == Spent(i)
  <2>7. /\ sent[i] \in Nat /\ p \in Nat /\ faults \in Nat
        /\ charge \in Nat /\ allowance \in Nat
    BY CountsAre, OnceMore
  <2>8. sent[i] + charge <= allowance + p + faults
    BY DEF Account
  <2>9. sent[i] + 1 + charge <= allowance + (p + 1) + faults
    <3> HIDE DEF charge, allowance, p
    <3> QED BY <2>7, <2>8
  <2> QED BY <1>1, <2>4, <2>5, <2>6, <2>9 DEF Account
<1> QED  BY <1>5, <1>6

\* A cycle that dies loses one attempt at most.
LEMMA AbortAccount ==
  ASSUME Kept, IsFiniteSet(AtDesk), NEW w \in Workers, Abort(w), NEW i \in Items, Account(i)
  PROVE  Account(i)'
<1>1. UNCHANGED <<row, desk, sent, reopens>> /\ faults' = faults + 1
  BY DEF Abort
<1>2. Tries(i)' = Tries(i) /\ Tries(i) \in Nat
  BY <1>1, SpentIs DEF Tries
<1> DEFINE charge == Limit * Cardinality(AtDesk)
           allowance == Limit * reopens
           p == Spent(i)
           q == Spent(i)'
<1>3. q \in Nat /\ p <= q + 1
  BY <1>2 DEF Spent
<1>4. sent[i] \in Nat /\ p \in Nat /\ faults \in Nat /\ charge \in Nat /\ allowance \in Nat
  BY CountsAre, OnceMore
<1>5. sent[i] + charge <= allowance + p + faults
  BY DEF Account
<1>6. sent[i] + charge <= allowance + q + (faults + 1)
  <2> HIDE DEF charge, allowance, p, q
  <2> QED BY <1>3, <1>4, <1>5
<1>7. Cardinality(AtDesk)' = Cardinality(AtDesk)
  BY <1>1 DEF AtDesk
<1> QED  BY <1>1, <1>6, <1>7 DEF Account

\* A row that is read to be retried is charged for at once ...
LEMMA OpenAccount ==
  ASSUME Kept, IsFiniteSet(AtDesk), NEW c \in Clerks, NEW j \in Items, Open(c, j)
  PROVE  IsFiniteSet(AtDesk)' /\ \A i \in Items : Account(i) => Account(i)'
<1>1. UNCHANGED <<row, tx, sent, faults>> /\ reopens' = reopens + 1 /\ desk[c] = None
  BY DEF Open
<1>2. desk' = [desk EXCEPT ![c] = [item |-> j, copy |-> row[j]]] /\ desk \in [Clerks -> [item : Items, copy : Rows] \cup {None}]
  BY DEF Open, Kept, TypeOK
<1>3. AtDesk' = AtDesk \/ (AtDesk' = AtDesk \cup {c} /\ c \notin AtDesk)
  BY <1>1, <1>2 DEF AtDesk
<1> DEFINE n == Cardinality(AtDesk)
           m == Cardinality(AtDesk)'
<1>4. IsFiniteSet(AtDesk)' /\ n \in Nat /\ m \in {n, n + 1}
  BY <1>3, FS_AddElement, FS_CardinalityType
<1> SUFFICES ASSUME NEW i \in Items, Account(i) PROVE Account(i)'
  BY <1>4
<1>5. Spent(i)' = Spent(i)
  BY <1>1 DEF Spent, Tries, Pending, Attempt
<1> DEFINE p == Spent(i)
<1>6. sent[i] \in Nat /\ p \in Nat /\ faults \in Nat /\ reopens \in Nat /\ Limit \in Nat
  BY CountsAre
<1>7. sent[i] + Limit * n <= Limit * reopens + p + faults
  BY DEF Account
<1>8. Limit * m <= Limit * n + Limit /\ Limit * m \in Nat /\ Limit * n \in Nat
  <2>1. Limit * (n + 1) = Limit * n + Limit /\ Limit * n \in Nat
    BY <1>4, OnceMore
  <2>2. CASE m = n
    BY <1>6, <2>1, <2>2
  <2>3. CASE m = n + 1
    BY <1>6, <2>1, <2>3
  <2> QED BY <1>4, <2>2, <2>3
<1>9. Limit * (reopens + 1) = Limit * reopens + Limit /\ Limit * reopens \in Nat
  BY <1>6, OnceMore
<1>10. sent[i] + Limit * m <= Limit * (reopens + 1) + p + faults
  <2> HIDE DEF n, m, p
  <2> QED BY <1>6, <1>7, <1>8, <1>9
<1> QED  BY <1>1, <1>5, <1>10 DEF Account

\* ... and has its attempts when it is written.
LEMMA ReopenAccount ==
  ASSUME Kept, Kept', Held, RowLocked, IsFiniteSet(AtDesk), NEW c \in Clerks, Reopen(c)
  PROVE  IsFiniteSet(AtDesk)' /\ \A i \in Items : Account(i) => Account(i)'
<1>1. UNCHANGED <<tx, sent, reopens, faults>> /\ desk[c] # None
  BY DEF Reopen
<1>2. desk' = [desk EXCEPT ![c] = None] /\ desk \in [Clerks -> [item : Items, copy : Rows] \cup {None}]
  BY DEF Reopen, Kept, TypeOK
<1>3. AtDesk' = AtDesk \ {c} /\ c \in AtDesk
  BY <1>1, <1>2 DEF AtDesk
<1> DEFINE n == Cardinality(AtDesk)
           m == Cardinality(AtDesk)'
<1>4. IsFiniteSet(AtDesk)' /\ n \in Nat /\ m \in Nat /\ n = m + 1
  <2>1. IsFiniteSet(AtDesk)' /\ m = n - 1
    BY <1>3, FS_RemoveElement
  <2>2. n \in Nat /\ m \in Nat
    BY <2>1, FS_CardinalityType
  <2> HIDE DEF n, m
  <2> QED BY <2>1, <2>2
<1> SUFFICES ASSUME NEW i \in Items, Account(i) PROVE Account(i)'
  BY <1>4
<1> DEFINE p == Spent(i)
           q == Spent(i)'
           allowance == Limit * reopens
<1>5. q \in Nat /\ p <= Limit
  <2>1. Tries(i)' \in Nat
    BY DEF Kept, Typed, Tries, Rows
  <2> QED BY <2>1, SpentWithin DEF Spent
<1>6. /\ sent[i] \in Nat /\ p \in Nat /\ faults \in Nat /\ Limit \in Nat /\ allowance \in Nat
  BY CountsAre, OnceMore
<1>7. sent[i] + Limit * n <= allowance + p + faults
  BY DEF Account
<1>8. Limit * n = Limit * m + Limit /\ Limit * m \in Nat
  BY <1>4, OnceMore
<1>9. sent[i] + Limit * m <= allowance + q + faults
  <2> HIDE DEF n, m, p, q, allowance
  <2> QED BY <1>5, <1>6, <1>7, <1>8
<1> QED  BY <1>1, <1>9 DEF Account

LEMMA InitCharged == Init => Charged
<1> SUFFICES ASSUME Init PROVE IsFiniteSet(AtDesk) /\ \A i \in Items : Account(i)
  BY DEF Charged
<1>1. AtDesk = {}
  BY DEF Init, AtDesk
<1>2. IsFiniteSet(AtDesk) /\ Cardinality(AtDesk) = 0
  BY <1>1, FS_EmptySet
<1> SUFFICES ASSUME NEW i \in Items PROVE Account(i)
  BY <1>2
<1>3. Spent(i) \in Nat /\ sent[i] = 0 /\ reopens = 0 /\ faults = 0
  BY SpentIs, InitKept DEF Init
<1> QED  BY <1>2, <1>3, OutboxAssumption DEF Account

\* Each step is paid for: by an attempt, a retry by hand or a fault.
LEMMA ChargedPreserved == Kept /\ Held /\ Charged /\ [Next]_vars => Charged'
<1> SUFFICES ASSUME Kept, Held, Charged, [Next]_vars, channel' \in {"webhook", "teams"}
             PROVE  IsFiniteSet(AtDesk)' /\ \A i \in Items : Account(i)'
  BY DEF Charged
<1> DEFINE Goal == IsFiniteSet(AtDesk)' /\ \A i \in Items : Account(i)'
<1>0. /\ Kept' /\ RowLocked
      /\ IsFiniteSet(AtDesk) /\ \A i \in Items : Account(i)
  BY KeptPreserved, ChannelStays DEF Kept, RowLocked, Charged
<1>1. ASSUME desk' = desk, sent' = sent, faults' = faults, reopens' \in {reopens, reopens + 1},
             \A i \in Items : SpentStays(i)
      PROVE  Goal
  <2>1. IsFiniteSet(AtDesk)'
    BY <1>0, <1>1 DEF AtDesk
  <2>2. \A i \in Items : Account(i)'
    BY <1>0, <1>1, QuietAccount
  <2> QED BY <2>1, <2>2
<1>2. ASSUME tx' = tx, \A i \in Items : Tries(i)' >= Tries(i) PROVE \A i \in Items : SpentStays(i)
  BY <1>2 DEF SpentStays, Pending, Attempt
<1>3. ASSUME NEW j \in Items, NEW k \in Items, Queue(j) \/ Provision(j) \/ ReplayDelivery(k, j)
      PROVE  Goal
  <2>1. PICK r \in Rows : row[j] = None /\ row' = [row EXCEPT ![j] = r]
    BY <1>3, AcceptEffect DEF Kept
  <2>2. \A i \in Items : Tries(i)' >= Tries(i)
    <3> SUFFICES ASSUME NEW i \in Items PROVE Tries(i)' >= Tries(i)
      OBVIOUS
    <3>1. CASE i = j
      BY <1>0, <2>1, <3>1 DEF Tries, Kept, Typed, Rows
    <3>2. CASE i # j
      BY <2>1, <3>2, SpentIs DEF Tries, Kept, Typed
    <3> QED BY <3>1, <3>2
  <2>3. UNCHANGED <<tx, desk, sent, faults>> /\ reopens' \in {reopens, reopens + 1}
    BY <1>0, <1>3 DEF Queue, Provision, ReplayDelivery, RowLocked
  <2> QED BY <1>1, <1>2, <2>2, <2>3
<1>4. ASSUME NEW j \in Items, BecomeDue(j) PROVE Goal
  <2>1. row[j] \in Rows /\ \E r \in Rows : row' = [row EXCEPT ![j] = r] /\ r.tries = row[j].tries
    BY <1>4, DueEffect DEF Kept
  <2>2. \A i \in Items : Tries(i)' = Tries(i)
    BY <2>1, NoneAssumption DEF Tries, Kept, Typed
  <2>3. \A i \in Items : Tries(i)' >= Tries(i)
    BY <2>2, SpentIs
  <2>4. UNCHANGED <<tx, desk, sent, faults, reopens>>
    BY <1>4 DEF BecomeDue
  <2> QED BY <1>1, <1>2, <2>3, <2>4
<1>5. ASSUME NEW j \in Items, Bounce(j) PROVE Goal
  BY <1>0, <1>5 DEF Bounce, RowLocked
<1>6. ASSUME NEW w \in Workers, Select(w) \/ Finish(w) PROVE Goal
  <2>1. UNCHANGED <<desk, sent, faults, reopens>>
    BY <1>6 DEF Select, Finish
  <2> QED BY <1>0, <1>1, <1>6, <2>1, SelectSpent
<1>7. ASSUME NEW w \in Workers, NEW j \in Items, Skip(w, j) \/ Divert(w, j) \/ Begin(w, j) PROVE Goal
  <2>1. UNCHANGED <<desk, sent, faults, reopens>>
    BY <1>7 DEF Skip, Divert, Begin
  <2> QED BY <1>0, <1>1, <1>7, <2>1, TurnSpent
<1>8. ASSUME NEW w \in Workers, NEW ok \in BOOLEAN, NEW retryable \in BOOLEAN, Settle(w, ok, retryable)
      PROVE  Goal
  <2>1. UNCHANGED <<desk, sent, faults, reopens>>
    BY <1>8 DEF Settle
  <2>2. \A i \in Items : SpentStays(i)
    BY <1>0, <1>8, SettleSpent
  <2> QED BY <1>1, <2>1, <2>2
<1>9. ASSUME NEW w \in Workers, Commit(w) PROVE Goal
  <2>1. UNCHANGED <<desk, faults, reopens>> /\ sent' = [i \in Items |-> sent[i]]
    BY <1>0, <1>9 DEF Commit, RowLocked
  <2>2. sent' = sent
    BY <2>1 DEF Kept, TypeOK
  <2> QED BY <1>0, <1>1, <1>9, <2>1, <2>2, CommitSpent
<1>10. ASSUME NEW w \in Workers, Arrive(w) PROVE Goal
  <2>1. desk' = desk
    BY <1>10 DEF Arrive
  <2>2. IsFiniteSet(AtDesk)'
    BY <1>0, <2>1 DEF AtDesk
  <2> QED BY <1>0, <1>10, <2>2, ArriveAccount
<1>11. ASSUME NEW w \in Workers, Abort(w) PROVE Goal
  <2>1. desk' = desk
    BY <1>11 DEF Abort
  <2>2. IsFiniteSet(AtDesk)'
    BY <1>0, <2>1 DEF AtDesk
  <2> QED BY <1>0, <1>11, <2>2, AbortAccount
<1>12. ASSUME NEW c \in Clerks, NEW j \in Items, Open(c, j) PROVE Goal
  BY <1>0, <1>12, OpenAccount
<1>13. ASSUME NEW c \in Clerks, Reopen(c) PROVE Goal
  BY <1>0, <1>13, ReopenAccount
<1>14. ASSUME NEW c \in Clerks, Reapply(c) PROVE Goal
  BY <1>0, <1>14 DEF Reapply, RowLocked
<1>15. ASSUME UNCHANGED <<row, tx, desk, sent, reopens, faults>> PROVE Goal
  <2>1. \A i \in Items : Tries(i)' >= Tries(i)
    BY <1>15, SpentIs DEF Tries
  <2> QED BY <1>1, <1>2, <1>15, <2>1
<1>16. ASSUME NEW status \in {"PAUSED", "ACTIVE", "REVOKED"}, SetStatus(status) \/ Rotate PROVE Goal
  BY <1>15, <1>16 DEF SetStatus, Rotate, Change
<1>17. ASSUME UNCHANGED vars PROVE Goal
  BY <1>15, <1>17 DEF vars
<1> HIDE DEF Goal
<1>18. ASSUME NEW w \in Workers, CycleStep(w) \/ Abort(w) PROVE Goal
  BY <1>6, <1>7, <1>8, <1>9, <1>10, <1>11, <1>18 DEF CycleStep
<1>19. ASSUME NEW c \in Clerks, (\E j \in Items : Open(c, j)) \/ Reopen(c) \/ Reapply(c) PROVE Goal
  BY <1>12, <1>13, <1>14, <1>19
<1>20. ASSUME Next PROVE Goal
  BY <1>3, <1>4, <1>5, <1>16, <1>18, <1>19, <1>20 DEF Next
<1>21. Goal
  BY <1>17, <1>20
<1> QED  BY <1>21 DEF Goal

\* AttemptBudget: where the row lock is held to the commit, an item is not sent
\* more often than its limit allows for the first time, for each retry by hand,
\* and once for each cycle that died.
THEOREM BudgetKept == Spec => []AttemptBudget
<1> DEFINE Inv == Kept /\ Held /\ Charged
<1>1. Init => Inv
  BY InitKept, InitHeld, InitCharged
<1>2. Inv /\ [Next]_vars => Inv'
  BY KeptPreserved, HeldPreserved, ChargedPreserved
<1>3. Inv => AttemptBudget
  <2> SUFFICES ASSUME Kept, Held, Charged, RowLocked, NEW i \in Items
               PROVE  sent[i] <= Limit * (1 + reopens) + faults
    BY DEF AttemptBudget, RowLocked
  <2> DEFINE allowance == Limit * reopens
             charge == Limit * Cardinality(AtDesk)
             p == Spent(i)
  <2>1. sent[i] + charge <= allowance + p + faults
    BY DEF Charged, RowLocked, Account
  <2>2. /\ sent[i] \in Nat /\ p \in Nat /\ p <= Limit /\ faults \in Nat /\ reopens \in Nat
        /\ charge \in Nat /\ allowance \in Nat /\ Limit \in Nat
    BY CountsAre, OnceMore, SpentWithin DEF Charged, RowLocked
  <2>3. Limit * (1 + reopens) = allowance + Limit
    BY <2>2
  <2> HIDE DEF allowance, charge, p
  <2> QED BY <2>1, <2>2, <2>3
<1> HIDE DEF Inv
<1>4. Spec => []Inv
  BY <1>1, <1>2, PTL DEF Spec
<1> QED  BY <1>3, <1>4, PTL

=============================================================================
