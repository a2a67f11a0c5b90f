----------------------- MODULE WorkflowExecutionProofs -----------------------
(***************************************************************************)
(* Proofs about WorkflowExecution, for every set of flows that validation  *)
(* accepts and every number of executions, workers, requests and faults.   *)
(*                                                                         *)
(* Rows first: what each operation makes of a row (MovedOn, Parked, ...)   *)
(* and that it stays Sound.  Then two invariants.  IInv ties passes and    *)
(* requests to the rows they have locked or read; a step is either Lawful  *)
(* and ends something (EndStepKeeps) or lets a pass begin or go on         *)
(* (EnterStep).  Works counts effects against the nodes still ahead, which *)
(* needs the graph to have no cycle (NoReturn), and puts them in the order *)
(* of the steps; Unwinds says how far a pass that compensates has come.    *)
(***************************************************************************)
EXTENDS WorkflowExecution, SequenceTheorems, FiniteSetTheorems, TLAPS

\* The child that the step of the current node names.
Named(r) == StepOf(r, r.node).child

\* Of an approval that can still be decided, the statuses of the execution.
Open == {"WAITING_APPROVAL", "RETRY", "DEAD_LETTER", "RUNNING"}

\* An approval of node n has been decided.
Decided(r, n) == \E i \in DOMAIN r.log : r.log[i] = <<"decided", n>>

\* Where an execution stands when it has an approval of node n.
Place(r, n) ==
  /\ Approval(r, n) = "PENDING" =>
       r.node = n /\ (r.status \in Open \/ (r.status = "CANCELLED" /\ r.overtaken))
  /\ Approval(r, n) = "CANCELLED" => r.node = n \/ StepOf(r, n).lapsed \/ Decided(r, n)
  /\ Approval(r, n) = "EXPIRED" => StepOf(r, n).lapsed
  /\ Approval(r, n) \in {"none", "PENDING"} => ~Decided(r, n)
  /\ Approval(r, n) \in {"APPROVED", "REJECTED"} => Decided(r, n)

\* What holds of every row, committed or in a pass: approvals belong to APPROVAL
\* nodes, a status that waits to the kind of node it waits at, and an execution
\* of which no approval was decided twice stands where its approvals say.
Sound(r) ==
  /\ r \in Rows
  /\ \A n \in Nodes : Approval(r, n) # "none" => Kind[n] = "APPROVAL"
  /\ r.status = "WAITING_TIMER" => Kind[r.node] = "WAIT"
  /\ r.status = "WAITING_SUBFLOW" => Kind[r.node] = "SUBFLOW"
  /\ r.status = "WAITING_APPROVAL" => Approval(r, r.node) # "none"
  /\ r.status = "WAITING_APPROVAL" /\ r.due => StepOf(r, r.node).lapsed
  /\ ~DecidedTwice(r) => \A n \in Nodes : Place(r, n)

\* What becomes of the steps: one of them is rewritten, or one of the current
\* node is put behind them, which had none.
Traced(r, s) ==
  /\ Len(s.steps) \in {Len(r.steps), Len(r.steps) + 1}
  /\ \A i \in 1 .. Len(r.steps) : s.steps[i].node = r.steps[i].node
  /\ Len(s.steps) = Len(r.steps) + 1 =>
       /\ s.steps[Len(s.steps)].node = r.node
       /\ \A i \in 1 .. Len(r.steps) : r.steps[i].node # r.node

\* A change of a row that leaves the approvals as they are.
Plain(r, s) ==
  /\ s \in Rows
  /\ s.flow = r.flow /\ s.key = r.key /\ (r.revived => s.revived)
  /\ Len(r.steps) <= Len(s.steps) /\ Len(r.log) <= Len(s.log)
  /\ \A n \in Nodes :
       /\ Approval(s, n) = Approval(r, n)
       /\ StepOf(r, n).lapsed => StepOf(s, n).lapsed
       /\ Decided(s, n) => Decided(r, n)
       /\ Decided(r, n) => Decided(s, n)
  /\ DecidedTwice(s) => DecidedTwice(r)
  /\ DecidedTwice(r) => DecidedTwice(s)

\* A plain change whose new place and status fit what the row holds.
Fits(r, s) ==
  /\ Plain(r, s)
  /\ s.node = r.node \/ Kind[r.node] # "APPROVAL"
  /\ \/ s.status \in Open \/ (s.status = r.status /\ s.overtaken = r.overtaken)
     \/ r.status \notin Open \cup {"CANCELLED"} \/ Kind[r.node] # "APPROVAL"
     \/ \A n \in Nodes : Approval(r, n) # "PENDING"
     \/ DecidedTwice(r)
  /\ s.status = "WAITING_TIMER" => Kind[s.node] = "WAIT"
  /\ s.status = "WAITING_SUBFLOW" => Kind[s.node] = "SUBFLOW"
  /\ s.status = "WAITING_APPROVAL" =>
       Approval(s, s.node) # "none" /\ (s.due => StepOf(s, s.node).lapsed)

\* What every change of a row keeps.
Grown(r, s) ==
  /\ s.flow = r.flow /\ s.key = r.key
  /\ r.revived => s.revived
  /\ r.status \in Terminal /\ s.status \notin Terminal => s.revived
  /\ \A n \in Nodes : Approval(r, n) # "none" => Approval(s, n) # "none"
  /\ Len(r.log) <= Len(s.log)
  /\ Len(r.log) = Len(s.log) =>
       /\ \A n \in Nodes : Approval(s, n) = "PENDING" => Approval(r, n) = "PENDING"
       /\ s.status = "WAITING_SUBFLOW" =>
            r.status = "WAITING_SUBFLOW" /\ s.node = r.node /\ Named(s) = Named(r)

\* A row as enqueue_workflow_execution leaves it.
Newborn(r) ==
  /\ r \in Rows /\ r.status \in {"QUEUED", "DROPPED"} /\ r.steps = <<>> /\ ~r.revived
  /\ Len(r.log) = 1 /\ r.log[1][1] \in {"queued", "dropped"}

\* The children that carry the key of a node, and that the row names one of them.
Kids(e, n) == {c \in Execs : Exists(c) /\ run[c].key = <<e, n>>}

Names(e, r) == Named(r) \in Kids(e, r.node)

\* What a SERIALIZE flow waits for.
Cleared(e) ==
  \A d \in Execs :
    d < e /\ Exists(d) /\ run[d].flow = run[e].flow /\ run[d].key = <<>> => Ended(d) \/ run[d].revived

\* A pass that has inserted a child: nobody else has one of that key.
Bears(t) ==
  /\ t.row.status = "WAITING_SUBFLOW" /\ t.verdict = "none" /\ Named(t.row) = t.child
  /\ run[t.child] = None /\ Newborn(t.born) /\ t.born.key = <<t.e, t.row.node>>
  /\ Kids(t.e, t.row.node) = {}

\* What a pass has under way fits the committed row it has locked.
Carried(t) ==
  /\ Exists(t.e) /\ ~Ended(t.e)
  /\ Sound(t.row) /\ Grown(run[t.e], t.row)
  /\ t.row.status # "CANCELLED"
  /\ t.cursor <= Len(t.row.steps)
  /\ t.verdict # "none" /\ ~DecidedTwice(t.row) => \A n \in Nodes : Approval(t.row, n) # "PENDING"
  /\ t.row.flow \in Serial /\ (t.row.status = "RUNNING" \/ t.row.steps # <<>>) => Cleared(t.e)
  /\ t.child = 0 /\ t.row.status = "WAITING_SUBFLOW" => Names(t.e, t.row)
  /\ t.child # 0 => Bears(t)

\* Passes and cancellations exclude each other on a row.
Locks ==
  /\ \A v, w \in Workers : Passing(v) /\ Passing(w) /\ tx[v].e = tx[w].e => v = w
  /\ \A w \in Workers, o \in Operators : Passing(w) /\ Cancelling(o) => tx[w].e \notin Held(req[o])
  /\ \A o, p \in Operators :
       Cancelling(o) /\ Cancelling(p) /\ Held(req[o]) \cap Held(req[p]) # {} => o = p

\* Two passes do not insert the same child.
Siblings ==
  \A v, w \in Workers :
    Passing(v) /\ Passing(w) /\ tx[v].child # 0 /\ tx[v].child = tx[w].child => v = w

\* The idempotency key is unique.
OneKey ==
  \A c, d \in Execs :
    Exists(c) /\ Exists(d) /\ run[c].key = run[d].key /\ run[c].key # <<>> => c = d

\* What is committed: no pass is under way in it.
Settles(e) ==
  Exists(e) =>
    /\ Sound(run[e]) /\ run[e].status \notin {"RUNNING", "COMPENSATING"}
    /\ run[e].status = "WAITING_SUBFLOW" => Names(e, run[e])
    /\ run[e].flow \in Serial /\ run[e].steps # <<>> => Cleared(e)

\* A decision is about an approval that exists.
Asked(o) ==
  Deciding(o) =>
    Exists(req[o].decide) /\ Approval(run[req[o].decide], req[o].node) # "none"

\* A child that the cancellation of its parent need not care about.
Safe(q, k) ==
  k \in Reached(q) \cup {q.cancel} \/ Ended(k) \/ run[k].revived

\* What is so of a row r of which a cancellation has read something: as long as
\* its event log is no longer than it was then, no approval has been asked for
\* and it has not come to wait for a child.
Since(r, read) ==
  /\ read.seen <= Len(r.log)
  /\ \A n \in read.pending : Approval(r, n) # "none"
  /\ Len(r.log) = read.seen =>
       /\ \A n \in Nodes : Approval(r, n) = "PENDING" => n \in read.pending
       /\ r.status = "WAITING_SUBFLOW" => r.node = read.node

\* An execution below that still waits for the child that was looked for.
Looked(q, c) ==
  /\ q.stage # "row" \/ c # q.at
  /\ Len(run[c].log) = q.copy[c].seen /\ run[c].status = "WAITING_SUBFLOW"

\* What a cancellation has read is still so for those below that have not moved on.
Tracks(q) ==
  /\ Exists(q.cancel) /\ q.open \subseteq Reached(q)
  /\ q.stage \in {"number", "flush"} => q.at \in q.open
  /\ \A c \in Reached(q) : Exists(c) /\ Since(run[c], q.copy[c])
  /\ run[q.cancel].status = "WAITING_SUBFLOW" => Safe(q, Named(run[q.cancel]))
  /\ \A c \in Reached(q) : Looked(q, c) => Safe(q, Named(run[c]))

Holds(o) == \A q \in Cancellations : Cancelling(o) /\ req[o] = q => Tracks(q)

\* (t and q are bound so that the provers see a record and not a function's value.)
Carries(w) == \A t \in Passes : Passing(w) /\ tx[w] = t => Carried(t)

\* The invariant for types, waiting, order, children and cancellation.
IInv ==
  /\ TypeOK
  /\ Locks /\ Siblings /\ OneKey
  /\ \A e \in Execs : Settles(e)
  /\ \A w \in Workers : Carries(w)
  /\ \A o \in Operators : Asked(o) /\ Holds(o)

-----------------------------------------------------------------------------
(* Rows: what the operations do with them.                                 *)

\* The step of a node is a step, with that node.
LEMMA StepOfType ==
  ASSUME NEW r \in Rows, NEW n \in Nodes
  PROVE StepOf(r, n) \in Steps /\ StepOf(r, n).node = n
<1>1. CASE StepIndex(r, n) = {}
  BY <1>1, LimitsAssumption DEF StepOf, Steps
<1>2. CASE StepIndex(r, n) # {}
  <2> DEFINE i == CHOOSE i \in StepIndex(r, n) : TRUE
  <2>1. i \in StepIndex(r, n)
    BY <1>2
  <2>2. r.steps \in Seq(Steps)
    BY DEF Rows
  <2>3. i \in 1 .. Len(r.steps) /\ r.steps[i].node = n
    BY <2>1 DEF StepIndex
  <2>4. r.steps[i] \in Steps
    BY <2>2, <2>3
  <2> QED
    BY <1>2, <2>3, <2>4 DEF StepOf
<1> QED
  BY <1>1, <1>2

\* A row with another step put in differs in that step.
LEMMA PutStepIs ==
  ASSUME NEW r \in Rows, NEW s \in Steps
  PROVE /\ PutStep(r, s) = [r EXCEPT !.steps = PutStep(r, s).steps]
        /\ PutStep(r, s) \in Rows
        /\ PutStep(r, s).steps # <<>> /\ Len(r.steps) <= Len(PutStep(r, s).steps)
        /\ StepOf(PutStep(r, s), s.node) = s
        /\ \A n \in Nodes : n # s.node => StepOf(PutStep(r, s), n) = StepOf(r, n)
<1> DEFINE q == PutStep(r, s)
<1>0. r.steps \in Seq(Steps) /\ s.node \in Nodes
  BY DEF Rows, Steps
<1>1. CASE StepIndex(r, s.node) = {}
  <2>1. q = [r EXCEPT !.steps = Append(r.steps, s)]
    BY <1>1 DEF PutStep
  <2>2. Append(r.steps, s) \in Seq(Steps)
    BY <1>0
  <2>3. q.steps = Append(r.steps, s) /\ q \in Rows /\ q = [r EXCEPT !.steps = q.steps]
    BY <2>1, <2>2 DEF Rows
  <2>4. StepIndex(q, s.node) = {Len(r.steps) + 1}
    BY <1>0, <1>1, <2>3 DEF StepIndex
  <2>5. StepOf(q, s.node) = s
    <3> DEFINE i == CHOOSE i \in StepIndex(q, s.node) : TRUE
    <3>1. i = Len(r.steps) + 1
      BY <2>4
    <3>2. StepOf(q, s.node) = q.steps[i]
      BY <2>4 DEF StepOf
    <3>3. Append(r.steps, s)[Len(r.steps) + 1] = s
      BY <1>0
    <3> HIDE DEF q, i
    <3> QED
      BY <2>3, <3>1, <3>2, <3>3
  <2>6. ASSUME NEW n \in Nodes, n # s.node PROVE StepOf(q, n) = StepOf(r, n)
    <3>1. StepIndex(q, n) = StepIndex(r, n)
      BY <1>0, <2>3, <2>6 DEF StepIndex
    <3>2. \A i \in StepIndex(r, n) : q.steps[i] = r.steps[i]
      BY <1>0, <2>3 DEF StepIndex
    <3> QED
      BY <3>1, <3>2 DEF StepOf
  <2>7. q.steps # <<>> /\ Len(r.steps) <= Len(q.steps)
    <3> HIDE DEF q
    <3>1. Len(Append(r.steps, s)) = Len(r.steps) + 1
      BY <1>0
    <3> QED
      BY <1>0, <2>3, <3>1
  <2> QED
    BY <2>3, <2>5, <2>6, <2>7
<1>2. CASE StepIndex(r, s.node) # {}
  <2> DEFINE new == [i \in DOMAIN r.steps |-> IF r.steps[i].node = s.node THEN s ELSE r.steps[i]]
  <2>1. q = [r EXCEPT !.steps = new]
    BY <1>2 DEF PutStep
  <2>2. new \in Seq(Steps) /\ Len(new) = Len(r.steps)
    BY <1>0
  <2>3. q.steps = new /\ q \in Rows /\ q = [r EXCEPT !.steps = q.steps]
    BY <2>1, <2>2 DEF Rows
  <2>4. \A n \in Nodes : StepIndex(q, n) = StepIndex(r, n)
    BY <1>0, <2>2, <2>3 DEF StepIndex
  <2>5. StepOf(q, s.node) = s
    <3> DEFINE i == CHOOSE i \in StepIndex(r, s.node) : TRUE
    <3>1. i \in StepIndex(r, s.node)
      BY <1>2
    <3>2. q.steps[i] = s
      BY <1>0, <2>2, <2>3, <3>1 DEF StepIndex
    <3> QED
      BY <1>0, <1>2, <2>4, <3>2 DEF StepOf
  <2>6. ASSUME NEW n \in Nodes, n # s.node PROVE StepOf(q, n) = StepOf(r, n)
    <3>1. \A i \in StepIndex(r, n) : q.steps[i] = r.steps[i]
      BY <1>0, <2>2, <2>3, <2>6 DEF StepIndex
    <3> QED
      BY <2>4, <3>1 DEF StepOf
  <2>7. q.steps # <<>> /\ Len(r.steps) <= Len(q.steps)
    BY <1>0, <1>2, <2>2, <2>3 DEF StepIndex
  <2> QED
    BY <2>3, <2>5, <2>6, <2>7
<1> QED
  BY <1>1, <1>2

\* Nodes get steps in the order in which the execution comes to them.
LEMMA PutTraced ==
  ASSUME NEW r \in Rows, NEW s \in Steps, s.node = r.node \/ Approval(r, s.node) # "none"
  PROVE Traced(r, PutStep(r, s))
<1> DEFINE q == PutStep(r, s)
<1>0. r.steps \in Seq(Steps) /\ Len(r.steps) \in Nat
  BY DEF Rows
<1>1. CASE StepIndex(r, s.node) = {}
  <2>1. s.node = r.node
    BY <1>1 DEF Approval, StepOf
  <2>2. q = [r EXCEPT !.steps = Append(r.steps, s)]
    BY <1>1 DEF PutStep
  <2>3. q.steps = Append(r.steps, s)
    BY <2>2 DEF Rows
  <2> HIDE DEF q
  <2>4. Len(q.steps) = Len(r.steps) + 1 /\ q.steps[Len(r.steps) + 1] = s
        /\ \A i \in 1 .. Len(r.steps) : q.steps[i] = r.steps[i]
    BY <1>0, <2>3
  <2>5. \A i \in 1 .. Len(r.steps) : r.steps[i].node # r.node
    BY <1>1, <2>1 DEF StepIndex
  <2>6. Traced(r, q)
    BY <1>0, <2>1, <2>4, <2>5 DEF Traced
  <2> QED
    BY <2>6 DEF q
<1>2. CASE StepIndex(r, s.node) # {}
  <2> DEFINE new == [i \in DOMAIN r.steps |-> IF r.steps[i].node = s.node THEN s ELSE r.steps[i]]
  <2>1. q = [r EXCEPT !.steps = new]
    BY <1>2 DEF PutStep
  <2>2. q.steps = new
    BY <2>1 DEF Rows
  <2>3. Len(new) = Len(r.steps) /\ \A i \in 1 .. Len(r.steps) : new[i].node = r.steps[i].node
    BY <1>0
  <2> HIDE DEF q, new
  <2>4. Traced(r, q)
    BY <1>0, <2>2, <2>3 DEF Traced
  <2> QED
    BY <2>4 DEF q
<1> QED
  BY <1>1, <1>2

LEMMA SameTraced ==
  ASSUME NEW r \in Rows, NEW s, s.steps = r.steps
  PROVE Traced(r, s)
<1>1. Len(r.steps) \in Nat
  BY DEF Rows
<1> QED
  BY <1>1 DEF Traced

\* An event is appended; nothing else changes.
LEMMA NoteIs ==
  ASSUME NEW r \in Rows, NEW what \in Events
  PROVE /\ Note(r, what) = [r EXCEPT !.log = Append(r.log, <<what, r.node>>)]
        /\ Note(r, what) \in Rows
        /\ Note(r, what).log = Append(r.log, <<what, r.node>>)
<1>1. r.log \in Seq(Events \X Nodes) /\ r.node \in Nodes
  BY DEF Rows
<1>2. Append(r.log, <<what, r.node>>) \in Seq(Events \X Nodes)
  BY <1>1
<1> QED
  BY <1>2 DEF Note, Rows

LEMMA RowType ==
  ASSUME NEW r \in Rows
  PROVE /\ r.log \in Seq(Events \X Nodes) /\ r.steps \in Seq(Steps) /\ r.node \in Nodes
        /\ r.flow \in Flows /\ r.tries \in Nat /\ Len(r.log) \in Nat /\ Len(r.steps) \in Nat
BY DEF Rows

\* What an appended event decides.
LEMMA Appended ==
  ASSUME NEW r \in Rows, NEW s \in Rows, NEW x \in Events \X Nodes, s.log = Append(r.log, x)
  PROVE /\ Len(s.log) = Len(r.log) + 1
        /\ \A n \in Nodes : Decided(r, n) => Decided(s, n)
        /\ \A n \in Nodes : Decided(s, n) => Decided(r, n) \/ x = <<"decided", n>>
        /\ \A n \in Nodes : x = <<"decided", n>> => Decided(s, n)
        /\ DecidedTwice(r) => DecidedTwice(s)
        /\ x[1] # "decided" => (DecidedTwice(s) => DecidedTwice(r))
        /\ \A n \in Nodes : x = <<"decided", n>> /\ Decided(r, n) => DecidedTwice(s)
<1> DEFINE k == Len(r.log)
<1>1. r.log \in Seq(Events \X Nodes) /\ k \in Nat
  BY RowType
<1>2. Len(s.log) = k + 1 /\ s.log[k + 1] = x /\ \A i \in 1 .. k : s.log[i] = r.log[i]
  BY <1>1
<1>3. DOMAIN r.log = 1 .. k /\ DOMAIN s.log = 1 .. (k + 1)
  BY <1>1, <1>2, RowType
<1> HIDE DEF k
<1>4. \A n \in Nodes : Decided(r, n) => Decided(s, n)
  BY <1>1, <1>2, <1>3 DEF Decided
<1>5. \A n \in Nodes : Decided(s, n) => Decided(r, n) \/ x = <<"decided", n>>
  BY <1>1, <1>2, <1>3 DEF Decided
<1>6. \A n \in Nodes : x = <<"decided", n>> => Decided(s, n)
  BY <1>1, <1>2, <1>3 DEF Decided
<1>7. DecidedTwice(r) => DecidedTwice(s)
  BY <1>1, <1>2, <1>3 DEF DecidedTwice
<1>8. x[1] # "decided" => (DecidedTwice(s) => DecidedTwice(r))
  <2> SUFFICES ASSUME x[1] # "decided", NEW i \in 1 .. (k + 1), NEW j \in 1 .. (k + 1),
                      s.log[i][1] = "decided", i < j, s.log[i] = s.log[j]
               PROVE DecidedTwice(r)
    BY <1>3 DEF DecidedTwice
  <2>1. i \in 1 .. k /\ j \in 1 .. k
    BY <1>1, <1>2
  <2> QED
    BY <1>2, <1>3, <2>1 DEF DecidedTwice
<1>9. \A n \in Nodes : x = <<"decided", n>> /\ Decided(r, n) => DecidedTwice(s)
  <2> SUFFICES ASSUME NEW n \in Nodes, x = <<"decided", n>>, NEW i \in 1 .. k, r.log[i] = <<"decided", n>>
               PROVE DecidedTwice(s)
    BY <1>3 DEF Decided
  <2>0. s.log[i] = r.log[i] /\ s.log[k + 1] = x
    BY <1>2
  <2>1. s.log[i] = s.log[k + 1] /\ s.log[i][1] = "decided"
    <3>1. s.log[i] = <<"decided", n>> /\ s.log[k + 1] = <<"decided", n>>
      BY <2>0
    <3>2. <<"decided", n>>[1] = "decided"
      OBVIOUS
    <3> QED
      BY <3>1, <3>2
  <2>2. i < k + 1 /\ i \in DOMAIN s.log /\ k + 1 \in DOMAIN s.log
    BY <1>1, <1>3
  <2> QED
    BY <2>1, <2>2 DEF DecidedTwice
<1> QED
  BY <1>1, <1>2, <1>4, <1>5, <1>6, <1>7, <1>8, <1>9 DEF k

\* Rows with the same steps have the same approvals; with the same log, decisions.
LEMMA SameSteps ==
  ASSUME NEW r, NEW s, s.steps = r.steps
  PROVE \A n \in Nodes : StepOf(s, n) = StepOf(r, n) /\ Approval(s, n) = Approval(r, n)
BY DEF StepOf, StepIndex, Approval

LEMMA SameLog ==
  ASSUME NEW r, NEW s, s.log = r.log
  PROVE /\ \A n \in Nodes : (Decided(s, n) => Decided(r, n)) /\ (Decided(r, n) => Decided(s, n))
        /\ DecidedTwice(s) => DecidedTwice(r)
        /\ DecidedTwice(r) => DecidedTwice(s)
BY DEF Decided, DecidedTwice

LEMMA PlainTrans ==
  ASSUME NEW r \in Rows, NEW s \in Rows, NEW t \in Rows, Plain(r, s), Plain(s, t)
  PROVE Plain(r, t)
BY RowType DEF Plain

\* A change of nothing but the place, the status and the times is plain.
LEMMA PlainPlace ==
  ASSUME NEW r \in Rows, NEW s \in Rows, s.flow = r.flow, s.key = r.key, r.revived => s.revived,
         s.steps = r.steps, s.log = r.log
  PROVE Plain(r, s)
<1>1. \A n \in Nodes : StepOf(s, n) = StepOf(r, n) /\ Approval(s, n) = Approval(r, n)
  BY SameSteps
<1> QED
  BY <1>1, SameLog, RowType DEF Plain

\* So is an event that is no decision, and a step with the approval it had.
LEMMA PlainNote ==
  ASSUME NEW r \in Rows, NEW what \in Events \ {"decided"}
  PROVE Plain(r, Note(r, what))
<1> DEFINE s == Note(r, what)
<1>1. s \in Rows /\ s.log = Append(r.log, <<what, r.node>>)
  BY NoteIs
<1>2. s.flow = r.flow /\ s.key = r.key /\ s.revived = r.revived /\ s.steps = r.steps
  BY NoteIs DEF Rows
<1>3. \A n \in Nodes : StepOf(s, n) = StepOf(r, n) /\ Approval(s, n) = Approval(r, n)
  BY <1>2, SameSteps
<1>4. <<what, r.node>> \in Events \X Nodes /\ <<what, r.node>>[1] # "decided"
  BY RowType
<1> HIDE DEF s
<1>5. /\ Len(s.log) = Len(r.log) + 1
      /\ \A n \in Nodes : Decided(r, n) => Decided(s, n)
      /\ \A n \in Nodes : Decided(s, n) => Decided(r, n) \/ <<what, r.node>> = <<"decided", n>>
      /\ DecidedTwice(r) => DecidedTwice(s)
      /\ DecidedTwice(s) => DecidedTwice(r)
  BY <1>1, <1>4, Appended
<1>6. Plain(r, s)
  BY <1>1, <1>2, <1>3, <1>4, <1>5, RowType DEF Plain
<1> QED
  BY <1>6 DEF s

LEMMA PlainStep ==
  ASSUME NEW r \in Rows, NEW s \in Steps, s.approval = Approval(r, s.node),
         StepOf(r, s.node).lapsed => s.lapsed
  PROVE Plain(r, PutStep(r, s))
<1> DEFINE q == PutStep(r, s)
<1>1. q = [r EXCEPT !.steps = q.steps] /\ q \in Rows /\ Len(r.steps) <= Len(q.steps)
  BY PutStepIs
<1>2. \A n \in Nodes : Approval(q, n) = Approval(r, n) /\ (StepOf(r, n).lapsed => StepOf(q, n).lapsed)
  BY PutStepIs DEF Approval
<1> HIDE DEF q
<1>3. q.flow = r.flow /\ q.key = r.key /\ q.revived = r.revived /\ q.log = r.log
  BY <1>1 DEF Rows
<1>4. Plain(r, q)
  BY <1>1, <1>2, <1>3, SameLog, RowType DEF Plain
<1> QED
  BY <1>4 DEF q

\* A step that goes on, and what it leaves as it was.
LEMMA StepChanges ==
  ASSUME NEW r \in Rows, NEW n \in Nodes, NEW c \in 0 .. MaxExecs
  PROVE \A t \in {[StepOf(r, n) EXCEPT !.status = "SUCCEEDED"], [StepOf(r, n) EXCEPT !.status = "FAILED"],
                  [StepOf(r, n) EXCEPT !.tries = @ + 1], [StepOf(r, n) EXCEPT !.lapsed = TRUE],
                  [StepOf(r, n) EXCEPT !.status = "WAITING", !.child = c]} :
          /\ t \in Steps /\ t.node = n /\ t.approval = Approval(r, n)
          /\ StepOf(r, n).lapsed => t.lapsed
<1> DEFINE p == StepOf(r, n)
<1>1. p \in Steps /\ p.node = n /\ Approval(r, n) = p.approval
  BY StepOfType DEF Approval
<1> HIDE DEF p
<1> DEFINE Fine(t) == t \in Steps /\ t.node = n /\ t.approval = p.approval /\ (p.lapsed => t.lapsed)
<1>2. Fine([p EXCEPT !.status = "SUCCEEDED"]) /\ Fine([p EXCEPT !.status = "FAILED"])
  BY <1>1 DEF Steps
<1>3. Fine([p EXCEPT !.tries = @ + 1])
  BY <1>1 DEF Steps
<1>4. Fine([p EXCEPT !.lapsed = TRUE])
  BY <1>1 DEF Steps
<1>5. Fine([p EXCEPT !.status = "WAITING", !.child = c])
  BY <1>1 DEF Steps
<1> QED
  BY <1>1, <1>2, <1>3, <1>4, <1>5 DEF p

\* s is r after its current step was done and it has moved along outcome.
MovedOn(r, outcome, what, s) ==
  /\ s \in Rows
  /\ s.status = "RUNNING" /\ s.node = Succ[r.node][outcome]
  /\ s.flow = r.flow /\ s.key = r.key /\ s.revived = r.revived
  /\ s.tries = r.tries /\ s.due = r.due
  /\ s.log = Append(r.log, <<what, r.node>>)
  /\ s.steps # <<>> /\ Len(r.steps) <= Len(s.steps)
  /\ StepOf(s, r.node) = [StepOf(r, r.node) EXCEPT !.status = "SUCCEEDED"]
  /\ \A n \in Nodes : n # r.node => StepOf(s, n) = StepOf(r, n)
  /\ Traced(r, s)
  /\ what # "decided" => Plain(r, s)

LEMMA MoveOnIs ==
  ASSUME NEW r \in Rows, NEW outcome \in Outcomes[Kind[r.node]], NEW what \in Events
  PROVE MovedOn(r, outcome, what, MoveOn(r, outcome, what))
<1> DEFINE step == [StepOf(r, r.node) EXCEPT !.status = "SUCCEEDED"]
           p == PutStep(r, step)
           q == Note(p, what)
           m == MoveOn(r, outcome, what)
<1>1. r.node \in Nodes /\ Succ[r.node][outcome] \in Nodes
  BY RowType, GraphAssumption DEF After
<1>2. step \in Steps /\ step.node = r.node /\ step.approval = Approval(r, r.node)
      /\ (StepOf(r, r.node).lapsed => step.lapsed)
  <2>1. 0 \in 0 .. MaxExecs
    BY LimitsAssumption
  <2> QED
    BY <1>1, <2>1, StepChanges
<1>3. /\ p = [r EXCEPT !.steps = p.steps] /\ p \in Rows /\ p.steps # <<>>
      /\ StepOf(p, r.node) = step /\ \A n \in Nodes : n # r.node => StepOf(p, n) = StepOf(r, n)
      /\ Len(r.steps) <= Len(p.steps) /\ Traced(r, p)
  <2> HIDE DEF step
  <2> QED
    BY <1>2, PutStepIs, PutTraced
<1>4. Plain(r, p)
  <2> HIDE DEF step
  <2> QED
    BY <1>1, <1>2, PlainStep
<1> HIDE DEF p, step
<1>5. q \in Rows /\ q = [p EXCEPT !.log = Append(p.log, <<what, p.node>>)]
  BY <1>3, NoteIs
<1>6. what # "decided" => Plain(p, q)
  BY <1>3, PlainNote
<1>7. m = [q EXCEPT !.node = Succ[r.node][outcome], !.status = "RUNNING"]
  BY DEF MoveOn, p, step, q
<1> HIDE DEF q, m
<1>8. m \in Rows /\ m.status = "RUNNING" /\ m.node = Succ[r.node][outcome] /\ m.steps = q.steps /\ m.log = q.log
      /\ m.flow = q.flow /\ m.key = q.key /\ m.revived = q.revived /\ m.tries = q.tries /\ m.due = q.due
  BY <1>1, <1>5, <1>7 DEF Rows
<1>9. q.steps = p.steps /\ q.log = Append(r.log, <<what, r.node>>) /\ q.flow = r.flow /\ q.key = r.key
      /\ q.revived = r.revived /\ q.tries = r.tries /\ q.due = r.due
  BY <1>3, <1>5 DEF Rows
<1>10. Plain(q, m)
  BY <1>5, <1>8, PlainPlace
<1>11. what # "decided" => Plain(r, m)
  BY <1>3, <1>4, <1>5, <1>6, <1>8, <1>10, PlainTrans
<1>12. \A n \in Nodes : StepOf(m, n) = StepOf(p, n)
  BY <1>8, <1>9, SameSteps
<1>13. StepOf(m, r.node) = step /\ \A n \in Nodes : n # r.node => StepOf(m, n) = StepOf(r, n)
  BY <1>1, <1>3, <1>12
<1>14. m.steps # <<>> /\ Len(r.steps) <= Len(m.steps)
  BY <1>3, <1>8, <1>9
<1>15. Traced(r, m)
  BY <1>3, <1>8, <1>9 DEF Traced
<1> QED
  BY <1>8, <1>9, <1>11, <1>13, <1>14, <1>15 DEF m, step, MovedOn

\* s is r waiting, for child c if it is a subflow.
Parked(r, status, c, s) ==
  /\ Plain(r, s)
  /\ s.status = status /\ ~s.due
  /\ s.node = r.node /\ s.tries = r.tries /\ s.revived = r.revived
  /\ s.log = Append(r.log, <<"waiting", r.node>>)
  /\ Named(s) = c /\ Traced(r, s)
  /\ StepOf(s, r.node) = [StepOf(r, r.node) EXCEPT !.status = "WAITING", !.child = c]
  /\ \A n \in Nodes : n # r.node => StepOf(s, n) = StepOf(r, n)

LEMMA ParkIs ==
  ASSUME NEW r \in Rows, NEW status \in Claimable, NEW c \in 0 .. MaxExecs
  PROVE Parked(r, status, c, Park(r, status, c))
<1> DEFINE step == [StepOf(r, r.node) EXCEPT !.status = "WAITING", !.child = c]
           p == PutStep(r, step)
           q == Note(p, "waiting")
           m == Park(r, status, c)
<1>1. r.node \in Nodes
  BY RowType
<1>2. step \in Steps /\ step.node = r.node /\ step.approval = Approval(r, r.node) /\ step.child = c
      /\ (StepOf(r, r.node).lapsed => step.lapsed)
  <2>1. step \in Steps /\ step.node = r.node /\ step.approval = Approval(r, r.node)
        /\ (StepOf(r, r.node).lapsed => step.lapsed)
    BY <1>1, StepChanges
  <2>2. step.child = c
    BY <1>1, StepOfType DEF Steps
  <2> QED
    BY <2>1, <2>2
<1>3. /\ p = [r EXCEPT !.steps = p.steps] /\ p \in Rows
      /\ Traced(r, p)
      /\ StepOf(p, r.node) = step /\ \A n \in Nodes : n # r.node => StepOf(p, n) = StepOf(r, n)
  <2> HIDE DEF step
  <2> QED
    BY <1>2, PutStepIs, PutTraced
<1>4. Plain(r, p)
  <2> HIDE DEF step
  <2> QED
    BY <1>1, <1>2, PlainStep
<1> HIDE DEF p
<1>5. q \in Rows /\ q = [p EXCEPT !.log = Append(p.log, <<"waiting", p.node>>)] /\ Plain(p, q)
  BY <1>3, NoteIs, PlainNote DEF Events
<1>6. m = [q EXCEPT !.status = status, !.due = FALSE]
  BY DEF Park, p, q, step
<1> HIDE DEF q, m, step
<1>7. m \in Rows /\ m.status = status /\ m.due = FALSE /\ m.node = q.node /\ m.steps = q.steps /\ m.log = q.log
      /\ m.flow = q.flow /\ m.key = q.key /\ m.revived = q.revived /\ m.tries = q.tries
  BY <1>5, <1>6 DEF Rows, Claimable
<1>8. q.steps = p.steps /\ q.log = Append(r.log, <<"waiting", r.node>>) /\ q.node = r.node /\ q.tries = r.tries
      /\ q.revived = r.revived
  BY <1>3, <1>5 DEF Rows
<1>9. Plain(r, m)
  BY <1>3, <1>4, <1>5, <1>7, PlainPlace, PlainTrans
<1>10. \A n \in Nodes : StepOf(m, n) = StepOf(p, n)
  BY <1>7, <1>8, SameSteps
<1>11. StepOf(m, r.node) = step /\ Named(m) = c /\ \A n \in Nodes : n # r.node => StepOf(m, n) = StepOf(r, n)
  BY <1>1, <1>2, <1>3, <1>7, <1>8, <1>10 DEF Named
<1>12. Traced(r, m)
  BY <1>3, <1>7, <1>8 DEF Traced
<1> QED
  BY <1>7, <1>8, <1>9, <1>11, <1>12 DEF m, step, Parked

-----------------------------------------------------------------------------
(* What keeps a row sound.                                                 *)

LEMMA SoundFits ==
  ASSUME NEW r \in Rows, NEW s \in Rows, Sound(r), Fits(r, s)
  PROVE Sound(s)
<1>1. \A n \in Nodes : Approval(s, n) # "none" => Kind[n] = "APPROVAL"
  BY DEF Sound, Fits, Plain
<1>2. ASSUME ~DecidedTwice(s), NEW n \in Nodes PROVE Place(s, n)
  <2>1. ~DecidedTwice(r) /\ Place(r, n)
    BY <1>2 DEF Sound, Fits, Plain
  <2>2. Approval(s, n) = Approval(r, n) /\ (StepOf(r, n).lapsed => StepOf(s, n).lapsed)
        /\ (Decided(s, n) => Decided(r, n)) /\ (Decided(r, n) => Decided(s, n))
    BY DEF Fits, Plain
  <2>3. Approval(r, n) # "none" => Kind[n] = "APPROVAL"
    BY DEF Sound
  <2> QED
    BY <2>1, <2>2, <2>3 DEF Fits, Place
<1> QED
  BY <1>1, <1>2 DEF Sound, Fits

LEMMA GrownTrans ==
  ASSUME NEW r \in Rows, NEW s \in Rows, NEW t \in Rows, Grown(r, s), Grown(s, t)
  PROVE Grown(r, t)
<1>1. /\ Len(r.log) \in Nat /\ Len(s.log) \in Nat /\ Len(t.log) \in Nat
      /\ Len(r.log) <= Len(s.log) /\ Len(s.log) <= Len(t.log)
  BY RowType DEF Grown
<1>2. Len(r.log) <= Len(t.log) /\ (Len(r.log) = Len(t.log) => Len(r.log) = Len(s.log) /\ Len(s.log) = Len(t.log))
  BY <1>1
<1> QED
  BY <1>2 DEF Grown

\* A plain change that adds an event, or does not wait for a child, or stays.
Onward(r, s) ==
  /\ Plain(r, s)
  /\ r.status \in Terminal /\ s.status \notin Terminal => s.revived
  /\ \/ Len(r.log) < Len(s.log)
     \/ s.status # "WAITING_SUBFLOW"
     \/ s.status = r.status /\ s.node = r.node /\ s.steps = r.steps

LEMMA GrownPlain ==
  ASSUME NEW r \in Rows, NEW s \in Rows, Onward(r, s)
  PROVE Grown(r, s)
<1>1. s.steps = r.steps => Named(s) = StepOf(r, s.node).child
  BY DEF Named, StepOf, StepIndex
<1>2. Len(r.log) \in Nat /\ Len(s.log) \in Nat
  BY RowType
<1> QED
  BY <1>1, <1>2 DEF Onward, Plain, Grown, Named

\* s is r with the approval of n set to a.
Approves(r, n, a, s) ==
  /\ s = [r EXCEPT !.steps = s.steps]
  /\ s \in Rows
  /\ Len(r.steps) <= Len(s.steps) /\ s.steps # <<>>
  /\ n = r.node \/ Approval(r, n) # "none" => Traced(r, s)
  /\ StepOf(s, n) = [StepOf(r, n) EXCEPT !.approval = a]
  /\ Approval(s, n) = a
  /\ StepOf(s, n).lapsed = StepOf(r, n).lapsed
  /\ StepOf(s, n).child = StepOf(r, n).child
  /\ \A m \in Nodes : m # n => StepOf(s, m) = StepOf(r, m)

LEMMA SetApprovalIs ==
  ASSUME NEW r \in Rows, NEW n \in Nodes, NEW a \in {"PENDING", "APPROVED", "REJECTED", "EXPIRED"}
  PROVE Approves(r, n, a, SetApproval(r, n, a))
<1> DEFINE p == StepOf(r, n)
           q == [p EXCEPT !.approval = a]
           s == SetApproval(r, n, a)
<1>1. p \in Steps /\ p.node = n
  BY StepOfType
<1>2. q \in Steps /\ q.node = n /\ q.approval = a /\ q.lapsed = p.lapsed /\ q.child = p.child
  <2> HIDE DEF p
  <2> QED
    BY <1>1 DEF Steps
<1>3. s = PutStep(r, q)
  BY DEF SetApproval
<1> HIDE DEF q, s
<1>4. /\ s = [r EXCEPT !.steps = s.steps] /\ s \in Rows /\ s.steps # <<>> /\ Len(r.steps) <= Len(s.steps)
      /\ StepOf(s, n) = q /\ \A m \in Nodes : m # n => StepOf(s, m) = StepOf(r, m)
  BY <1>2, <1>3, PutStepIs
<1>5. Approval(s, n) = a /\ StepOf(s, n).lapsed = p.lapsed /\ StepOf(s, n).child = p.child
  BY <1>2, <1>4 DEF Approval
<1>6. n = r.node \/ Approval(r, n) # "none" => Traced(r, s)
  BY <1>2, <1>3, PutTraced
<1> QED
  BY <1>4, <1>5, <1>6 DEF q, s, Approves

LEMMA LapsedIs ==
  ASSUME NEW r \in Rows, NEW n \in Nodes
  PROVE /\ Lapsed(r, n) = [r EXCEPT !.steps = Lapsed(r, n).steps]
        /\ Plain(r, Lapsed(r, n))
        /\ n = r.node \/ Approval(r, n) # "none" => Traced(r, Lapsed(r, n))
        /\ StepOf(Lapsed(r, n), n) = [StepOf(r, n) EXCEPT !.lapsed = TRUE]
        /\ StepOf(Lapsed(r, n), n).lapsed
        /\ StepOf(Lapsed(r, n), n).child = StepOf(r, n).child
        /\ \A m \in Nodes : m # n => StepOf(Lapsed(r, n), m) = StepOf(r, m)
<1> DEFINE p == StepOf(r, n)
           q == [p EXCEPT !.lapsed = TRUE]
           s == Lapsed(r, n)
<1>1. p \in Steps /\ p.node = n /\ Approval(r, n) = p.approval
  BY StepOfType DEF Approval
<1>2. q \in Steps /\ q.node = n /\ q.approval = p.approval /\ q.lapsed /\ q.child = p.child
  <2> HIDE DEF p
  <2> QED
    BY <1>1 DEF Steps
<1>3. s = PutStep(r, q)
  BY DEF Lapsed
<1> HIDE DEF q, s
<1>4. /\ s = [r EXCEPT !.steps = s.steps] /\ s \in Rows
      /\ StepOf(s, n) = q /\ \A m \in Nodes : m # n => StepOf(s, m) = StepOf(r, m)
  BY <1>2, <1>3, PutStepIs
<1>5. Plain(r, s)
  BY <1>1, <1>2, <1>3, PlainStep
<1>6. n = r.node \/ Approval(r, n) # "none" => Traced(r, s)
  BY <1>2, <1>3, PutTraced
<1> QED
  BY <1>2, <1>4, <1>5, <1>6 DEF q, s

\* A change of the approval of one node.
Alters(r, s, n) ==
  /\ s \in Rows /\ Kind[n] = "APPROVAL"
  /\ \A m \in Nodes \ {n} :
       /\ Approval(s, m) = Approval(r, m)
       /\ StepOf(r, m).lapsed => StepOf(s, m).lapsed
       /\ Decided(s, m) => Decided(r, m)
       /\ Decided(r, m) => Decided(s, m)
  /\ DecidedTwice(r) => DecidedTwice(s)
  /\ ~DecidedTwice(s) =>
       /\ Place(s, n)
       /\ r.node = n \/ (s.node = r.node /\ s.status = r.status /\ s.overtaken = r.overtaken)
  /\ s.status = "WAITING_TIMER" => Kind[s.node] = "WAIT"
  /\ s.status = "WAITING_SUBFLOW" => Kind[s.node] = "SUBFLOW"
  /\ s.status = "WAITING_APPROVAL" =>
       Approval(s, s.node) # "none" /\ (s.due => StepOf(s, s.node).lapsed)

LEMMA SoundAlters ==
  ASSUME NEW r \in Rows, NEW s \in Rows, NEW n \in Nodes, Sound(r), Alters(r, s, n)
  PROVE Sound(s)
<1>1. \A m \in Nodes : Approval(s, m) # "none" => Kind[m] = "APPROVAL"
  BY DEF Sound, Alters
<1>2. ASSUME ~DecidedTwice(s), NEW m \in Nodes PROVE Place(s, m)
  <2>1. CASE m = n
    BY <1>2, <2>1 DEF Alters
  <2>2. CASE m # n
    <3>1. Place(r, m) /\ m \in Nodes \ {n}
      BY <1>2, <2>2 DEF Sound, Alters
    <3> QED
      BY <1>2, <2>2, <3>1 DEF Alters, Place
  <2> QED
    BY <2>1, <2>2
<1> QED
  BY <1>1, <1>2 DEF Sound, Alters

LEMMA RunningIs ==
  ASSUME NEW r \in Rows
  PROVE /\ Plain(r, Running(r)) /\ Running(r) \in Rows
        /\ Running(r).status = "RUNNING" /\ Running(r).node = r.node
        /\ Running(r).steps = r.steps /\ Running(r).log = r.log
<1> DEFINE s == Running(r)
<1>0. r.tries + 1 \in Nat /\ s = [r EXCEPT !.status = "RUNNING", !.tries = r.tries + 1]
  BY RowType DEF Running
<1>1. s \in Rows /\ s.status = "RUNNING" /\ s.node = r.node /\ s.steps = r.steps /\ s.log = r.log
      /\ s.flow = r.flow /\ s.key = r.key /\ s.revived = r.revived
  <2> HIDE DEF s
  <2> QED
    BY <1>0 DEF Rows
<1> HIDE DEF s
<1>2. Plain(r, s)
  BY <1>1, PlainPlace
<1> QED
  BY <1>1, <1>2 DEF s

LEMMA FailingIs ==
  ASSUME NEW r \in Rows
  PROVE /\ Plain(r, Failing(r)) /\ Failing(r) \in Rows
        /\ Failing(r).node = r.node /\ Failing(r).steps = r.steps
        /\ \/ Failing(r) = r
           \/ Failing(r).status = "COMPENSATING"
<1>1. CASE r.flow \in Compensating
  <2> DEFINE p == Note(r, "compensating")
             s == [p EXCEPT !.status = "COMPENSATING"]
  <2>1. p \in Rows /\ Plain(r, p) /\ p.node = r.node /\ p.steps = r.steps
    <3>1. "compensating" \in Events /\ "compensating" \in Events \ {"decided"}
      BY DEF Events
    <3>2. p \in Rows /\ Plain(r, p)
      BY <3>1, NoteIs, PlainNote
    <3>3. p = [r EXCEPT !.log = Append(r.log, <<"compensating", r.node>>)]
      BY <3>1, NoteIs
    <3>4. p.node = r.node /\ p.steps = r.steps
      BY <3>3 DEF Rows
    <3> QED
      BY <3>2, <3>4
  <2> HIDE DEF p
  <2>2. s \in Rows /\ s.node = p.node /\ s.steps = p.steps /\ s.log = p.log /\ s.status = "COMPENSATING"
        /\ s.flow = p.flow /\ s.key = p.key /\ s.revived = p.revived
    BY <2>1 DEF Rows
  <2> HIDE DEF s
  <2>3. Plain(r, s)
    BY <2>1, <2>2, PlainPlace, PlainTrans
  <2>4. Failing(r) = s
    BY <1>1 DEF Failing, s, p
  <2> QED
    BY <2>1, <2>2, <2>3, <2>4
<1>2. CASE r.flow \notin Compensating
  BY <1>2, PlainPlace DEF Failing
<1> QED
  BY <1>1, <1>2

\* An execution that moves on, but not from an approval.
LEMMA SoundMove ==
  ASSUME NEW r \in Rows, Sound(r), Kind[r.node] # "APPROVAL", r.status \notin Terminal,
         NEW outcome \in Outcomes[Kind[r.node]], NEW what \in Events \ {"decided"}
  PROVE LET s == MoveOn(r, outcome, what) IN Sound(s) /\ Grown(r, s)
<1> DEFINE s == MoveOn(r, outcome, what)
<1>1. s \in Rows /\ Plain(r, s) /\ s.status = "RUNNING"
  <2>1. what \in Events /\ what # "decided"
    OBVIOUS
  <2>2. MovedOn(r, outcome, what, s)
    BY <2>1, MoveOnIs
  <2> QED
    BY <2>1, <2>2 DEF MovedOn
<1> HIDE DEF s
<1>2. Fits(r, s) /\ Onward(r, s)
  BY <1>1 DEF Fits, Onward, Terminal, Open
<1>3. Sound(s) /\ Grown(r, s)
  BY <1>1, <1>2, SoundFits, GrownPlain
<1> QED
  BY <1>3 DEF s

LEMMA SoundRunning ==
  ASSUME NEW r \in Rows, Sound(r), r.status \notin Terminal
  PROVE Sound(Running(r)) /\ Grown(r, Running(r))
<1> DEFINE s == Running(r)
<1>1. s \in Rows /\ Plain(r, s) /\ s.status = "RUNNING" /\ s.node = r.node
  BY RunningIs
<1> HIDE DEF s
<1>2. Fits(r, s) /\ Onward(r, s)
  BY <1>1 DEF Fits, Onward, Terminal, Open
<1>3. Sound(s) /\ Grown(r, s)
  BY <1>1, <1>2, SoundFits, GrownPlain
<1> QED
  BY <1>3 DEF s

LEMMA SoundFailing ==
  ASSUME NEW r \in Rows, Sound(r), r.status \notin Terminal, r.status \notin Open \/ Kind[r.node] # "APPROVAL"
  PROVE LET s == Failing(r)
        IN /\ Sound(s) /\ Grown(r, s) /\ (s.status \notin {"RUNNING", "CANCELLED"} \/ s = r)
           /\ ~DecidedTwice(s) => \A n \in Nodes : Approval(s, n) # "PENDING"
<1> DEFINE s == Failing(r)
<1>1. /\ Plain(r, s) /\ s \in Rows /\ s.node = r.node /\ s.steps = r.steps
      /\ s = r \/ s.status = "COMPENSATING"
  BY FailingIs
<1> HIDE DEF s
<1>2. Fits(r, s)
  BY <1>1 DEF Fits, Sound, Open, Terminal
<1>3. Sound(s)
  BY <1>1, <1>2, SoundFits
<1>4. Grown(r, s)
  <2>1. Onward(r, s)
    BY <1>1 DEF Onward, Terminal
  <2> QED
    BY <1>1, <2>1, GrownPlain
<1>5. ASSUME ~DecidedTwice(s), NEW n \in Nodes PROVE Approval(s, n) # "PENDING"
  <2>1. Approval(s, n) = Approval(r, n) /\ ~DecidedTwice(r) /\ r.status # "CANCELLED"
    BY <1>1, <1>5 DEF Plain, Terminal
  <2>2. Approval(r, n) = "PENDING" => Kind[n] = "APPROVAL" /\ r.node = n /\ r.status \in Open
    BY <2>1 DEF Sound, Place
  <2> QED
    BY <2>1, <2>2
<1>6. Sound(s) /\ Grown(r, s) /\ (s.status \notin {"RUNNING", "CANCELLED"} \/ s = r)
  BY <1>1, <1>3, <1>4
<1> QED
  BY <1>5, <1>6 DEF s

\* The time of an approval is over.
LEMMA SoundTimeout ==
  ASSUME NEW r \in Rows, Sound(r), r.status = "WAITING_APPROVAL", r.due, Approval(r, r.node) = "PENDING"
  PROVE LET s == MoveOn(SetApproval(r, r.node, "EXPIRED"), "timeout", "expired")
        IN s \in Rows /\ Sound(s) /\ Grown(r, s) /\ s.status = "RUNNING"
<1> DEFINE q == SetApproval(r, r.node, "EXPIRED")
           s == MoveOn(q, "timeout", "expired")
           n == r.node
<1>1. n \in Nodes /\ Kind[n] = "APPROVAL" /\ StepOf(r, n).lapsed
  BY RowType DEF Sound
<1>2. /\ q = [r EXCEPT !.steps = q.steps] /\ q \in Rows /\ Approval(q, n) = "EXPIRED" /\ StepOf(q, n).lapsed
      /\ \A m \in Nodes : m # n => StepOf(q, m) = StepOf(r, m)
  <2>1. Approves(r, n, "EXPIRED", q)
    BY <1>1, SetApprovalIs
  <2> QED
    BY <1>1, <2>1 DEF Approves
<1> HIDE DEF q
<1>3. q.node = n /\ q.log = r.log /\ q.flow = r.flow /\ q.key = r.key /\ q.revived = r.revived
  BY <1>2 DEF Rows
<1>4. "timeout" \in Outcomes[Kind[q.node]] /\ "expired" \in Events /\ "expired" # "decided"
  BY <1>1, <1>3 DEF Outcomes, Events
<1>5. /\ s \in Rows /\ s.status = "RUNNING" /\ Plain(q, s) /\ s.log = Append(q.log, <<"expired", q.node>>)
      /\ s.flow = q.flow /\ s.key = q.key /\ s.revived = q.revived
  <2>1. MovedOn(q, "timeout", "expired", s)
    BY <1>2, <1>4, MoveOnIs
  <2> QED
    BY <1>4, <2>1 DEF MovedOn
<1> HIDE DEF s
<1>6. \A m \in Nodes : (Decided(q, m) => Decided(r, m)) /\ (Decided(r, m) => Decided(q, m))
  BY <1>3, SameLog
<1>7. DecidedTwice(r) => DecidedTwice(q)
  BY <1>3, SameLog
<1>8. DecidedTwice(r) => DecidedTwice(s)
  BY <1>5, <1>7 DEF Plain
<1>9. /\ Approval(s, n) = "EXPIRED" /\ StepOf(s, n).lapsed
      /\ \A m \in Nodes \ {n} :
           /\ Approval(s, m) = Approval(r, m)
           /\ StepOf(r, m).lapsed => StepOf(s, m).lapsed
           /\ Decided(s, m) => Decided(r, m)
           /\ Decided(r, m) => Decided(s, m)
  BY <1>1, <1>2, <1>5, <1>6 DEF Plain, Approval
<1>10. Place(s, n)
  BY <1>9 DEF Place
<1>11. Alters(r, s, n)
  BY <1>1, <1>5, <1>8, <1>9, <1>10 DEF Alters
<1>12. Sound(s)
  BY <1>1, <1>5, <1>11, SoundAlters
<1>13. Grown(r, s)
  <2>1. Len(r.log) \in Nat /\ Len(s.log) \in Nat /\ Len(r.log) <= Len(s.log)
    BY <1>3, <1>5, RowType DEF Plain
  <2>2. \A m \in Nodes : Approval(r, m) # "none" => Approval(s, m) # "none"
    BY <1>9
  <2> QED
    BY <1>3, <1>5, <2>1, <2>2 DEF Grown, Terminal
<1> QED
  BY <1>5, <1>12, <1>13 DEF s, q

\* The request of an approval.
LEMMA SoundRequest ==
  ASSUME NEW r \in Rows, Sound(r), r.status \notin Terminal, Kind[r.node] = "APPROVAL", Approval(r, r.node) = "none"
  PROVE LET p == Park(r, "WAITING_APPROVAL", 0)
            s == SetApproval(p, p.node, "PENDING")
        IN s \in Rows /\ Sound(s) /\ Grown(r, s) /\ s.status = "WAITING_APPROVAL" /\ Len(r.steps) <= Len(s.steps)
<1> DEFINE p == Park(r, "WAITING_APPROVAL", 0)
           s == SetApproval(p, p.node, "PENDING")
           n == r.node
<1>1. n \in Nodes /\ "WAITING_APPROVAL" \in Claimable /\ 0 \in 0 .. MaxExecs
  BY RowType, LimitsAssumption DEF Claimable
<1>2. p \in Rows /\ p.status = "WAITING_APPROVAL" /\ ~p.due /\ p.node = n /\ Plain(r, p)
      /\ p.log = Append(r.log, <<"waiting", r.node>>)
  <2>1. Parked(r, "WAITING_APPROVAL", 0, p)
    BY <1>1, ParkIs
  <2> QED
    BY <2>1 DEF Parked, Plain
<1> HIDE DEF p
<1>3. /\ s = [p EXCEPT !.steps = s.steps] /\ s \in Rows /\ Approval(s, n) = "PENDING"
      /\ Len(p.steps) <= Len(s.steps) /\ \A m \in Nodes : m # n => StepOf(s, m) = StepOf(p, m)
  <2>1. Approves(p, n, "PENDING", s)
    BY <1>1, <1>2, SetApprovalIs
  <2> QED
    BY <2>1 DEF Approves
<1> HIDE DEF s
<1>4. s.node = n /\ s.log = p.log /\ s.status = "WAITING_APPROVAL" /\ ~s.due
      /\ s.flow = p.flow /\ s.key = p.key /\ s.revived = p.revived
  BY <1>2, <1>3 DEF Rows
<1>5. \A m \in Nodes : (Decided(s, m) => Decided(r, m)) /\ (Decided(r, m) => Decided(s, m))
  BY <1>2, <1>4, SameLog DEF Plain
<1>6. (DecidedTwice(r) => DecidedTwice(s)) /\ (DecidedTwice(s) => DecidedTwice(r))
  BY <1>2, <1>4, SameLog DEF Plain
<1>7. \A m \in Nodes \ {n} : Approval(s, m) = Approval(r, m) /\ (StepOf(r, m).lapsed => StepOf(s, m).lapsed)
  BY <1>2, <1>3 DEF Plain, Approval
<1>8. ~DecidedTwice(s) => Place(s, n)
  <2>1. ~DecidedTwice(s) => ~Decided(s, n)
    BY <1>1, <1>5, <1>6 DEF Sound, Place
  <2> QED
    BY <1>3, <1>4, <2>1 DEF Place, Open
<1>9. Alters(r, s, n)
  BY <1>3, <1>4, <1>5, <1>6, <1>7, <1>8 DEF Alters
<1>10. Sound(s)
  BY <1>1, <1>3, <1>9, SoundAlters
<1>11. Len(r.log) <= Len(s.log) /\ Len(r.steps) <= Len(s.steps)
  BY <1>2, <1>3, <1>4, RowType DEF Plain
<1>12. \A m \in Nodes : Approval(r, m) # "none" => Approval(s, m) # "none"
  BY <1>3, <1>7
<1>13. Grown(r, s)
  <2>1. Len(s.log) = Len(r.log) + 1 /\ Len(r.log) \in Nat
    BY <1>2, <1>4, RowType DEF Rows
  <2> QED
    BY <1>2, <1>4, <1>11, <1>12, <2>1 DEF Grown, Plain
<1> QED
  BY <1>3, <1>4, <1>10, <1>11, <1>13 DEF s, p

\* A decision: it may come when the execution is elsewhere.
Decides(r, n, s) ==
  /\ s \in Rows /\ Sound(s) /\ Grown(r, s) /\ s.status = "QUEUED"
  /\ s.log = Append(r.log, <<"decided", n>>) /\ s.node \in After(n)
  /\ \A k \in Nodes \ {n} : StepOf(s, k) = StepOf(r, k)
  /\ ~DecidedTwice(s) => r.node = n /\ Traced(r, s)

LEMMA SoundDecide ==
  ASSUME NEW r \in Rows, Sound(r), NEW n \in Nodes, Approval(r, n) # "none", ~StepOf(r, n).lapsed,
         NEW decision \in {"APPROVED", "REJECTED"}, NEW outcome \in {"approved", "rejected"},
         NEW back \in BOOLEAN, r.revived => back, r.status \in Terminal => back
  PROVE LET p == [SetApproval(r, n, decision) EXCEPT !.node = n]
            s == [MoveOn(p, outcome, "decided") EXCEPT !.status = "QUEUED", !.due = TRUE, !.revived = back]
        IN Decides(r, n, s)
<1> DEFINE q == SetApproval(r, n, decision)
           p == [q EXCEPT !.node = n]
           m == MoveOn(p, outcome, "decided")
           s == [m EXCEPT !.status = "QUEUED", !.due = TRUE, !.revived = back]
<1>1. Kind[n] = "APPROVAL" /\ r.steps \in Seq(Steps)
  BY RowType DEF Sound
<1>2. /\ q = [r EXCEPT !.steps = q.steps] /\ q \in Rows /\ Approval(q, n) = decision
      /\ \A k \in Nodes : k # n => StepOf(q, k) = StepOf(r, k)
      /\ Traced(r, q)
  <2>1. Approves(r, n, decision, q)
    BY <1>1, SetApprovalIs
  <2> QED
    BY <1>1, <2>1 DEF Approves
<1> HIDE DEF q
<1>3. /\ p \in Rows /\ p.node = n /\ p.steps = q.steps /\ p.log = r.log /\ p.flow = r.flow
      /\ p.key = r.key
  BY <1>2 DEF Rows
<1>4. \A k \in Nodes : StepOf(p, k) = StepOf(q, k)
  <2> HIDE DEF p
  <2> QED
    BY <1>3, SameSteps
<1> HIDE DEF p
<1>5. outcome \in Outcomes[Kind[p.node]] /\ "decided" \in Events
  BY <1>1, <1>3 DEF Outcomes, Events
<1>6. MovedOn(p, outcome, "decided", m)
  BY <1>3, <1>5, MoveOnIs
<1> HIDE DEF m
<1>7. /\ s \in Rows /\ s.status = "QUEUED" /\ s.revived = back /\ s.flow = r.flow /\ s.key = r.key
      /\ s.log = Append(r.log, <<"decided", n>>) /\ s.steps = m.steps /\ s.node = m.node
  BY <1>3, <1>6 DEF Rows, MovedOn, Claimable
<1> HIDE DEF s
<1>8. \A k \in Nodes : StepOf(s, k) = StepOf(m, k)
  BY <1>7, SameSteps
<1>9. \A k \in Nodes \ {n} : StepOf(s, k) = StepOf(r, k)
  BY <1>2, <1>3, <1>4, <1>6, <1>8 DEF MovedOn
<1>10. Approval(s, n) = decision
  <2>1. StepOf(s, n) = [StepOf(q, n) EXCEPT !.status = "SUCCEEDED"]
    BY <1>3, <1>4, <1>6, <1>8 DEF MovedOn
  <2>2. StepOf(q, n) \in Steps
    BY <1>2, StepOfType
  <2> QED
    BY <1>2, <2>1, <2>2 DEF Approval, Steps
<1>11. <<"decided", n>> \in Events \X Nodes
  BY DEF Events
<1>12. /\ Len(s.log) = Len(r.log) + 1
       /\ \A k \in Nodes : Decided(r, k) => Decided(s, k)
       /\ \A k \in Nodes : Decided(s, k) => Decided(r, k) \/ k = n
       /\ Decided(s, n)
       /\ DecidedTwice(r) => DecidedTwice(s)
       /\ Decided(r, n) => DecidedTwice(s)
  <2> DEFINE x == <<"decided", n>>
  <2>1. \A k \in Nodes : x = <<"decided", k>> => k = n
    OBVIOUS
  <2>2. x = <<"decided", n>> /\ x \in Events \X Nodes /\ s.log = Append(r.log, x)
    BY <1>7, <1>11
  <2> HIDE DEF x
  <2> QED
    BY <1>7, <2>1, <2>2, Appended
<1>13. Place(s, n)
  BY <1>10, <1>12 DEF Place
<1>14. ~DecidedTwice(s) => r.node = n
  <2>1. Approval(r, n) \in {"PENDING", "APPROVED", "REJECTED", "EXPIRED", "CANCELLED"}
    BY StepOfType DEF Approval, Steps
  <2>2. ~DecidedTwice(s) => Place(r, n) /\ ~Decided(r, n)
    BY <1>12 DEF Sound
  <2> QED
    BY <2>1, <2>2 DEF Place
<1>15. Alters(r, s, n)
  BY <1>1, <1>7, <1>9, <1>12, <1>13, <1>14 DEF Alters, Approval
<1>16. Sound(s)
  BY <1>7, <1>15, SoundAlters
<1>17. \A k \in Nodes : Approval(r, k) # "none" => Approval(s, k) # "none"
  BY <1>9, <1>10 DEF Approval
<1>18. Grown(r, s)
  BY <1>7, <1>12, <1>17, RowType DEF Grown
<1>19. s.node \in After(n)
  BY <1>3, <1>5, <1>6, <1>7 DEF MovedOn, After
<1>20. ~DecidedTwice(s) => Traced(r, s)
  <2> SUFFICES ASSUME ~DecidedTwice(s) PROVE Traced(r, s)
    OBVIOUS
  <2>1. r.node = n
    BY <1>14
  <2>2. Traced(r, q) /\ Traced(p, m) /\ p.node = n
    BY <1>2, <1>3, <1>6, <2>1 DEF MovedOn
  <2>3. p.steps = q.steps /\ s.steps = m.steps
    BY <1>3, <1>7
  <2>4. \E i \in 1 .. Len(q.steps) : q.steps[i].node = n
    <3>1. StepIndex(q, n) # {}
      BY <1>2 DEF Approval, StepOf
    <3> QED
      BY <3>1 DEF StepIndex
  <2>5. Len(m.steps) = Len(q.steps) /\ \A i \in 1 .. Len(q.steps) : m.steps[i].node = q.steps[i].node
    BY <2>2, <2>3, <2>4 DEF Traced
  <2>6. Len(r.steps) \in Nat
    BY RowType
  <2> QED
    BY <2>2, <2>3, <2>5, <2>6 DEF Traced
<1> QED
  BY <1>7, <1>9, <1>14, <1>16, <1>18, <1>19, <1>20 DEF s, m, p, q, Decides

\* A decision that comes too late.
LEMMA SoundLate ==
  ASSUME NEW r \in Rows, Sound(r), NEW n \in Nodes, Approval(r, n) # "none", StepOf(r, n).lapsed
  PROVE LET s == SetApproval(r, n, "EXPIRED")
        IN /\ s \in Rows /\ Sound(s) /\ Grown(r, s) /\ s.status = r.status /\ s.node = r.node
           /\ Named(s) = Named(r) /\ s.flow = r.flow /\ s.log = r.log
<1> DEFINE s == SetApproval(r, n, "EXPIRED")
<1>1. Kind[n] = "APPROVAL" /\ r.node \in Nodes
  BY RowType DEF Sound
<1>2. Approves(r, n, "EXPIRED", s)
  BY SetApprovalIs
<1> HIDE DEF s
<1>3. /\ s \in Rows /\ s.status = r.status /\ s.node = r.node /\ s.log = r.log /\ s.flow = r.flow /\ s.key = r.key
      /\ s.revived = r.revived /\ s.due = r.due /\ s.overtaken = r.overtaken
  BY <1>2 DEF Approves, Rows
<1>4. /\ Approval(s, n) = "EXPIRED" /\ StepOf(s, n).lapsed
      /\ \A k \in Nodes : StepOf(s, k).lapsed = StepOf(r, k).lapsed /\ StepOf(s, k).child = StepOf(r, k).child
      /\ \A k \in Nodes \ {n} : StepOf(s, k) = StepOf(r, k) /\ Approval(s, k) = Approval(r, k)
  BY <1>2 DEF Approves, Approval
<1>5. /\ \A k \in Nodes : (Decided(s, k) => Decided(r, k)) /\ (Decided(r, k) => Decided(s, k))
      /\ DecidedTwice(r) => DecidedTwice(s)
  BY <1>3, SameLog
<1>6. Place(s, n)
  BY <1>4 DEF Place
<1>7. Alters(r, s, n)
  BY <1>1, <1>3, <1>4, <1>5, <1>6 DEF Alters, Sound
<1>8. Sound(s)
  BY <1>3, <1>7, SoundAlters
<1>9. Named(s) = Named(r)
  BY <1>1, <1>3, <1>4 DEF Named
<1>10. Grown(r, s)
  BY <1>3, <1>4, <1>9, RowType DEF Grown
<1> QED
  BY <1>3, <1>8, <1>9, <1>10 DEF s

\* A cancellation withdraws what it has read as pending.
LEMMA SoundCancel ==
  ASSUME NEW r \in Rows, Sound(r), NEW read \in Copies, Since(r, read)
  PROVE LET s == Cancelled(r, read)
        IN /\ s \in Rows /\ Sound(s) /\ Grown(r, s) /\ s.status = "CANCELLED" /\ s.flow = r.flow
           /\ Traced(r, s) /\ Len(s.steps) = Len(r.steps)
           /\ s.node = r.node /\ s.log = Append(r.log, <<"cancelled", read.node>>)
           /\ s.overtaken = (Len(r.log) # read.seen)
           /\ \A n \in Nodes : StepOf(s, n).status = StepOf(r, n).status
<1> DEFINE x == <<"cancelled", read.node>>
           Withdrawn(t) == IF t.node \in read.pending THEN [t EXCEPT !.approval = "CANCELLED"] ELSE t
           new == [i \in DOMAIN r.steps |-> Withdrawn(r.steps[i])]
           late == Len(r.log) # read.seen
           s == Cancelled(r, read)
<1>1. x \in Events \X Nodes /\ (\A n \in Nodes : x # <<"decided", n>>) /\ r.steps \in Seq(Steps) /\ r.log \in Seq(Events \X Nodes)
      /\ read.pending \subseteq Nodes /\ late \in BOOLEAN
  BY RowType DEF Events, Copies, Rows
<1>3. \A t \in Steps : /\ Withdrawn(t) \in Steps /\ Withdrawn(t).node = t.node /\ Withdrawn(t).lapsed = t.lapsed
                       /\ Withdrawn(t).child = t.child /\ Withdrawn(t).status = t.status
                       /\ t.node \in read.pending => Withdrawn(t).approval = "CANCELLED"
                       /\ t.node \notin read.pending => Withdrawn(t).approval = t.approval
  BY DEF Steps
<1> HIDE DEF Withdrawn
<1>4. new \in Seq(Steps) /\ Len(new) = Len(r.steps) /\ \A i \in 1 .. Len(r.steps) : new[i] = Withdrawn(r.steps[i])
  BY <1>1, <1>3
<1>5. s = [r EXCEPT !.log = Append(r.log, x), !.status = "CANCELLED", !.steps = new, !.overtaken = late]
  BY DEF Cancelled, Withdrawn
<1>6. Append(r.log, x) \in Seq(Events \X Nodes)
  BY <1>1
<1> HIDE DEF new, s, x, late
<1>7. /\ s \in Rows /\ s.status = "CANCELLED" /\ s.steps = new /\ s.node = r.node /\ s.flow = r.flow /\ s.key = r.key
      /\ s.revived = r.revived /\ s.log = Append(r.log, x) /\ s.overtaken = late
  BY <1>1, <1>4, <1>5, <1>6 DEF Rows, Terminal
<1>8. ASSUME NEW n \in Nodes
      PROVE /\ StepOf(s, n).lapsed = StepOf(r, n).lapsed /\ StepOf(s, n).status = StepOf(r, n).status
            /\ n \in read.pending => Approval(s, n) = "CANCELLED"
            /\ n \notin read.pending => Approval(s, n) = Approval(r, n)
  <2>1. StepIndex(s, n) = StepIndex(r, n)
    <3>1. \A i \in 1 .. Len(r.steps) : new[i].node = r.steps[i].node
      BY <1>1, <1>3, <1>4
    <3> QED
      BY <1>4, <1>7, <3>1 DEF StepIndex
  <2>2. CASE StepIndex(r, n) = {}
    <3>1. StepOf(s, n) = StepOf(r, n) /\ Approval(s, n) = Approval(r, n) /\ Approval(r, n) = "none"
      BY <2>1, <2>2 DEF StepOf, Approval
    <3> QED
      BY <3>1 DEF Since
  <2>3. CASE StepIndex(r, n) # {}
    <3> DEFINE i == CHOOSE i \in StepIndex(r, n) : TRUE
    <3>1. i \in 1 .. Len(r.steps) /\ r.steps[i].node = n
      BY <2>3 DEF StepIndex
    <3>2. StepOf(r, n) = r.steps[i] /\ StepOf(s, n) = s.steps[i]
      BY <2>1, <2>3 DEF StepOf
    <3> HIDE DEF i
    <3>3. StepOf(s, n) = Withdrawn(r.steps[i]) /\ r.steps[i] \in Steps
      BY <1>1, <1>4, <1>7, <3>1, <3>2
    <3> QED
      BY <1>3, <3>1, <3>2, <3>3 DEF Approval
  <2> QED
    BY <2>2, <2>3
<1>9. /\ Len(s.log) = Len(r.log) + 1
      /\ \A n \in Nodes : (Decided(s, n) => Decided(r, n)) /\ (Decided(r, n) => Decided(s, n))
      /\ DecidedTwice(s) => DecidedTwice(r)
      /\ DecidedTwice(r) => DecidedTwice(s)
  BY <1>1, <1>7, Appended
<1>10. ASSUME ~DecidedTwice(s), NEW n \in Nodes PROVE Place(s, n)
  <2>1. Place(r, n)
    BY <1>9, <1>10 DEF Sound
  <2>2. Approval(r, n) \in {"none", "PENDING", "APPROVED", "REJECTED", "EXPIRED", "CANCELLED"}
    BY StepOfType DEF Approval, Steps
  <2>3. CASE n \in read.pending
    <3>1. Approval(s, n) = "CANCELLED" /\ Approval(r, n) # "none" /\ StepOf(s, n).lapsed = StepOf(r, n).lapsed
      BY <1>8, <2>3 DEF Since
    <3>2. r.node = n \/ StepOf(r, n).lapsed \/ Decided(r, n)
      BY <2>1, <2>2, <3>1 DEF Place
    <3> QED
      BY <1>7, <1>9, <3>1, <3>2 DEF Place
  <2>4. CASE n \notin read.pending
    <3>1. Approval(s, n) = Approval(r, n) /\ StepOf(s, n).lapsed = StepOf(r, n).lapsed
      BY <1>8, <2>4
    <3>2. Approval(r, n) = "PENDING" => late
      BY <2>4 DEF Since, late
    <3> QED
      BY <1>7, <1>9, <2>1, <3>1, <3>2 DEF Place
  <2> QED
    BY <2>3, <2>4
<1>11. \A n \in Nodes : /\ Approval(s, n) # "none" => Approval(r, n) # "none"
                        /\ Approval(r, n) # "none" => Approval(s, n) # "none"
  BY <1>8 DEF Since
<1>12. Sound(s)
  BY <1>7, <1>10, <1>11 DEF Sound
<1>13. Grown(r, s)
  BY <1>7, <1>9, <1>11, RowType DEF Grown, Terminal
<1>15. Traced(r, s)
  <2>1. \A i \in 1 .. Len(r.steps) : new[i].node = r.steps[i].node
    BY <1>1, <1>3, <1>4
  <2> QED
    BY <1>1, <1>4, <1>7, <2>1, RowType DEF Traced
<1>16. s.log = Append(r.log, <<"cancelled", read.node>>) /\ s.overtaken = (Len(r.log) # read.seen)
  BY <1>7 DEF x, late
<1> QED
  BY <1>4, <1>7, <1>8, <1>12, <1>13, <1>15, <1>16 DEF s

LEMMA NewRowIs ==
  ASSUME NEW f \in Flows, NEW key \in (Execs \X Nodes) \cup {<<>>}
  PROVE /\ Newborn(NewRow(f, key)) /\ Sound(NewRow(f, key))
        /\ NewRow(f, key).flow = f /\ NewRow(f, key).key = key
<1> DEFINE s == NewRow(f, key)
           full == Cardinality(Active(f)) >= MaxActive[f]
           first == <<IF full THEN "dropped" ELSE "queued", Entry[f]>>
<1>1. Entry[f] \in Nodes /\ first \in Events \X Nodes /\ first[1] \in {"queued", "dropped"}
  BY GraphAssumption DEF Events
<1>2. s = [flow |-> f, key |-> key, status |-> IF full THEN "DROPPED" ELSE "QUEUED",
           node |-> Entry[f], tries |-> 0, due |-> TRUE, steps |-> <<>>, log |-> <<first>>, revived |-> FALSE,
           overtaken |-> FALSE]
  BY DEF NewRow
<1> HIDE DEF s, full, first
<1>3. <<first>> \in Seq(Events \X Nodes) /\ Len(<<first>>) = 1 /\ <<first>>[1] = first /\ <<>> \in Seq(Steps)
  BY <1>1
<1>4. s \in Rows /\ s.status \in {"DROPPED", "QUEUED"} /\ s.steps = <<>> /\ s.log = <<first>> /\ ~s.revived
      /\ s.flow = f /\ s.key = key
  BY <1>1, <1>2, <1>3 DEF Rows, Terminal, Claimable
<1>5. \A n \in Nodes : Approval(s, n) = "none"
  BY <1>4 DEF Approval, StepOf, StepIndex
<1>6. \A n \in Nodes : ~Decided(s, n)
  <2>1. \A n \in Nodes : first # <<"decided", n>>
    BY <1>1
  <2> QED
    BY <1>3, <1>4, <2>1 DEF Decided
<1>7. Sound(s)
  BY <1>4, <1>5, <1>6 DEF Sound, Place
<1>8. Newborn(s)
  BY <1>1, <1>3, <1>4 DEF Newborn
<1> QED
  BY <1>4, <1>7, <1>8 DEF s

-----------------------------------------------------------------------------
(* Types.                                                                  *)

LEMMA Types ==
  ASSUME TypeOK
  PROVE /\ \A e \in Execs : Exists(e) => run[e] \in Rows
        /\ \A w \in Workers : Passing(w) => tx[w] \in Passes
        /\ \A w \in Workers : RollingBack(w) => tx[w].failed \in Execs
        /\ \A o \in Operators : Deciding(o) => req[o].decide \in Execs /\ req[o].node \in Nodes
        /\ \A o \in Operators : Cancelling(o) => req[o] \in Cancellations
<1>1. \A e \in Execs : Exists(e) => run[e] \in Rows
  BY DEF TypeOK, Exists
<1>2. ASSUME NEW w \in Workers, Passing(w) PROVE tx[w] \in Passes
  BY <1>2 DEF TypeOK, Passing
<1>3. ASSUME NEW w \in Workers, RollingBack(w) PROVE tx[w].failed \in Execs
  BY <1>3 DEF TypeOK, RollingBack, Passes
<1>4. ASSUME NEW o \in Operators, Deciding(o) PROVE req[o].decide \in Execs /\ req[o].node \in Nodes
  BY <1>4 DEF TypeOK, Deciding, Cancellations
<1>5. ASSUME NEW o \in Operators, Cancelling(o)
      PROVE req[o] \in Cancellations
  BY <1>5 DEF TypeOK, Cancelling, Cancellations
<1> QED
  BY <1>1, <1>2, <1>3, <1>4, <1>5

LEMMA RequestType ==
  ASSUME NEW q \in Cancellations
  PROVE /\ q.cancel \in Execs /\ q.open \subseteq Execs /\ q.at \in Execs /\ q.number \in Nat
        /\ q.stage \in {"row", "approvals", "number", "flush"}
        /\ Reached(q) \subseteq Execs /\ (\A c \in Reached(q) : q.copy[c] \in Copies)
        /\ q.copy \in [Execs -> Copies \cup {None}] /\ q.cancel \in Held(q)
BY DEF Cancellations, Reached, Held

LEMMA CopyType ==
  ASSUME NEW read \in Copies
  PROVE read.node \in Nodes /\ read.seen \in Nat /\ read.pending \subseteq Nodes
BY DEF Copies

LEMMA PassType ==
  ASSUME NEW t \in Passes
  PROVE /\ t.e \in Execs /\ t.row \in Rows /\ t.verdict \in {"none", "FAILED", "DEAD_LETTER"}
        /\ t.cursor \in Nat /\ t.child \in 0 .. MaxExecs /\ t.born \in Rows \cup {None}
BY DEF Passes

-----------------------------------------------------------------------------
(* How one step may change the rows.                                       *)

\* Nobody else has e locked.
Quiet(e) ==
  /\ \A v \in Workers : Passing(v) /\ tx'[v] = tx[v] => tx[v].e # e
  /\ \A o \in Operators : Cancelling(o) /\ req'[o] = req[o] => req[o].cancel # e

\* A step writes, creates or deletes an execution; Lawful is that it does nothing
\* else.
Writes(e) ==
  /\ Exists(e) /\ Quiet(e)
  /\ run'[e] \in Rows /\ Sound(run'[e]) /\ Grown(run[e], run'[e])
  /\ run'[e].status \notin {"RUNNING", "COMPENSATING"}
  /\ run'[e].flow \in Serial /\ run'[e].steps # <<>> => Cleared(e)
  /\ run'[e].status = "WAITING_SUBFLOW" =>
       \E c \in Execs : /\ StepOf(run'[e], run'[e].node).child = c
                        /\ run'[c] \notin {None, Purged} /\ run'[c].key = <<e, run'[e].node>>

Births(e) ==
  /\ run[e] = None
  /\ run'[e] \in Rows /\ Newborn(run'[e]) /\ Sound(run'[e])
  /\ run'[e].key = <<>> => \A d \in Execs : d > e => ~Exists(d)
  /\ run'[e].key # <<>> => \A d \in Execs : Exists(d) => run[d].key # run'[e].key
  /\ \A d \in Execs : d # e => run[d] # None \/ run'[d] = None
  /\ \A v \in Workers : Passing(v) /\ tx'[v] = tx[v] =>
       tx[v].child # e /\ run'[e].key # <<tx[v].e, tx[v].row.node>>

Purges(e) ==
  /\ Exists(e) /\ Ended(e) /\ Quiet(e) /\ run'[e] = Purged
  /\ \A d \in Execs : Exists(d) /\ ~Ended(d) => run[e].key \notin {d} \X Nodes
  /\ \A o \in Operators : /\ Deciding(o) => req[o].decide # e
                          /\ Cancelling(o) => e \notin Reached(req[o])

Lawful ==
  /\ run' \in [Execs -> Rows \cup {None, Purged}]
  /\ \A e \in Execs : run'[e] = run[e] \/ Writes(e) \/ Births(e) \/ Purges(e)

\* Of one execution, what such a step leaves.
LEMMA Remains ==
  ASSUME TypeOK, Lawful, NEW e \in Execs, Exists(e)
  PROVE \/ Purges(e) /\ ~Exists(e)'
        \/ /\ Exists(e)' /\ run'[e] \in Rows
           /\ run'[e].flow = run[e].flow /\ run'[e].key = run[e].key
           /\ Ended(e) \/ run[e].revived => Ended(e)' \/ run'[e].revived
           /\ run[e].revived => run'[e].revived
           /\ run'[e] = run[e] \/ Grown(run[e], run'[e])
<1>1. run[e] \in Rows /\ ~Births(e)
  BY Types DEF Births, Exists
<1>2. CASE run'[e] = run[e]
  BY <1>1, <1>2 DEF Exists, Ended
<1>3. CASE Writes(e)
  BY <1>1, <1>3, NoneAssumption DEF Writes, Grown, Exists, Ended
<1>4. CASE Purges(e)
  BY <1>4 DEF Purges, Exists
<1> QED
  BY <1>1, <1>2, <1>3, <1>4 DEF Lawful

LEMMA ComesFrom ==
  ASSUME TypeOK, Lawful, NEW e \in Execs, Exists(e)'
  PROVE Exists(e) \/ Births(e)
<1>1. CASE run'[e] = run[e]
  BY <1>1 DEF Exists
<1> QED
  BY <1>1 DEF Lawful, Writes, Purges

LEMMA OneKeyKept ==
  ASSUME TypeOK, OneKey, Lawful
  PROVE OneKey'
<1> SUFFICES ASSUME NEW c \in Execs, NEW d \in Execs, Exists(c)', Exists(d)',
                    run'[c].key = run'[d].key, run'[c].key # <<>>
             PROVE c = d
  BY DEF OneKey
<1>1. CASE Exists(c) /\ Exists(d)
  BY <1>1, Remains DEF OneKey
<1>2. CASE Births(c) /\ Births(d)
  BY <1>2, NoneAssumption DEF Births
<1>3. CASE Births(c) /\ Exists(d)
  <2>1. run'[d].key = run[d].key
    BY <1>3, Remains
  <2> QED
    BY <1>3, <2>1 DEF Births
<1>4. CASE Exists(c) /\ Births(d)
  <2>1. run'[c].key = run[c].key
    BY <1>4, Remains
  <2> QED
    BY <1>4, <2>1 DEF Births
<1> QED
  BY <1>1, <1>2, <1>3, <1>4, ComesFrom

LEMMA ClearedKept ==
  ASSUME TypeOK, Lawful, NEW e \in Execs, Exists(e), Cleared(e), Exists(e)'
  PROVE Cleared(e)'
<1>1. run'[e].flow = run[e].flow
  BY Remains
<1> SUFFICES ASSUME NEW d \in Execs, d < e, Exists(d)', run'[d].flow = run[e].flow, run'[d].key = <<>>
             PROVE Ended(d)' \/ run'[d].revived
  BY <1>1 DEF Cleared
<1>2. CASE Exists(d)
  <2>1. run[d].flow = run[e].flow /\ run[d].key = <<>>
    BY <1>2, Remains
  <2>2. Ended(d) \/ run[d].revived
    BY <1>2, <2>1 DEF Cleared
  <2> QED
    BY <1>2, <2>2, Remains
<1>3. CASE Births(d)
  <2>1. e > d
    BY DEF Execs
  <2> QED
    BY <1>3, <2>1 DEF Births
<1> QED
  BY <1>2, <1>3, ComesFrom

LEMMA KidsKept ==
  ASSUME TypeOK, Lawful, NEW e \in Execs, NEW n \in Nodes, Exists(e), ~Ended(e), NEW c \in Kids(e, n)
  PROVE c \in Kids(e, n)'
<1>1. c \in Execs /\ Exists(c) /\ run[c].key = <<e, n>>
  BY DEF Kids
<1>2. ~Purges(c)
  BY <1>1 DEF Purges
<1>3. Exists(c)' /\ run'[c].key = <<e, n>>
  BY <1>1, <1>2, Remains
<1> QED
  BY <1>1, <1>3 DEF Kids

LEMMA SettlesKept ==
  ASSUME TypeOK, Lawful, NEW e \in Execs, Settles(e)
  PROVE Settles(e)'
<1> SUFFICES ASSUME Exists(e)'
             PROVE /\ Sound(run'[e]) /\ run'[e].status \notin {"RUNNING", "COMPENSATING"}
                   /\ run'[e].status = "WAITING_SUBFLOW" => Names(e, run[e])'
                   /\ run'[e].flow \in Serial /\ run'[e].steps # <<>> => Cleared(e)'
  BY DEF Settles
<1>1. CASE Exists(e) /\ run'[e] = run[e]
  <2>1. Sound(run[e]) /\ run[e].status \notin {"RUNNING", "COMPENSATING"} /\ run[e] \in Rows /\ run[e].node \in Nodes
    BY <1>1, Types, RowType DEF Settles
  <2>2. ASSUME run[e].status = "WAITING_SUBFLOW" PROVE Names(e, run[e])'
    <3>1. ~Ended(e) /\ Named(run[e]) \in Kids(e, run[e].node)
      BY <1>1, <2>2 DEF Settles, Names, Ended, Terminal
    <3>2. Named(run[e]) \in Kids(e, run[e].node)'
      BY <1>1, <2>1, <3>1, KidsKept
    <3> QED
      BY <1>1, <3>2 DEF Names, Named, StepOf, StepIndex, Kids
  <2>3. run[e].flow \in Serial /\ run[e].steps # <<>> => Cleared(e)'
    BY <1>1, ClearedKept DEF Settles
  <2> QED
    BY <1>1, <2>1, <2>2, <2>3
<1>2. CASE Writes(e)
  <2>1. run'[e].status = "WAITING_SUBFLOW" => Names(e, run[e])'
    BY <1>2 DEF Writes, Names, Named, Kids, Exists, StepOf, StepIndex
  <2>2. run'[e].flow \in Serial /\ run'[e].steps # <<>> => Cleared(e)'
    BY <1>2, ClearedKept DEF Writes
  <2> QED
    BY <1>2, <2>1, <2>2 DEF Writes
<1>3. CASE Births(e)
  BY <1>3 DEF Births, Newborn
<1>4. CASE Purges(e)
  BY <1>4 DEF Purges, Exists
<1>5. CASE ~Exists(e) /\ run'[e] = run[e]
  BY <1>5 DEF Exists
<1> QED
  BY <1>1, <1>2, <1>3, <1>4, <1>5 DEF Lawful

\* What another pass carries.
LEMMA CarriedKept ==
  ASSUME TypeOK, Lawful, NEW v \in Workers, NEW t \in Passes, Passing(v), tx[v] = t, tx'[v] = t, Carried(t)
  PROVE Carried(t)'
<1>1. t.e \in Execs /\ t.row \in Rows /\ t.child \in 0 .. MaxExecs /\ t.row.node \in Nodes
  BY PassType, RowType
<1>2. Exists(t.e) /\ ~Ended(t.e)
  BY DEF Carried
<1>3. run'[t.e] = run[t.e]
  BY <1>1, <1>2 DEF Lawful, Writes, Births, Purges, Quiet, Exists
<1>4. Exists(t.e)' /\ ~Ended(t.e)'
  BY <1>2, <1>3 DEF Exists, Ended
<1>5. Cleared(t.e) => Cleared(t.e)'
  BY <1>1, <1>2, <1>4, ClearedKept
<1>6. Names(t.e, t.row) => Names(t.e, t.row)'
  <2>1. \A c \in Kids(t.e, t.row.node) : c \in Kids(t.e, t.row.node)'
    BY <1>1, <1>2, KidsKept
  <2> QED
    BY <2>1 DEF Names
<1>7. ASSUME t.child # 0, Bears(t) PROVE Bears(t)'
  <2>1. t.child \in Execs /\ run[t.child] = None
    BY <1>1, <1>7 DEF Bears, Execs
  <2>2. run'[t.child] = None
    BY <2>1 DEF Lawful, Writes, Births, Purges, Exists
  <2>3. ASSUME NEW c \in Kids(t.e, t.row.node)' PROVE FALSE
    <3>1. c \in Execs /\ Exists(c)' /\ run'[c].key = <<t.e, t.row.node>>
      BY <2>3 DEF Kids
    <3>2. CASE Exists(c)
      <4>1. run[c].key = <<t.e, t.row.node>>
        BY <3>1, <3>2, Remains
      <4> QED
        BY <1>7, <3>1, <3>2, <4>1 DEF Bears, Kids
    <3>3. CASE Births(c)
      BY <3>1, <3>3 DEF Births
    <3> QED
      BY <3>1, <3>2, <3>3, ComesFrom
  <2>4. Kids(t.e, t.row.node)' = {}
    BY <2>3
  <2> QED
    BY <1>7, <2>2, <2>4 DEF Bears
<1>8. Grown(run[t.e], t.row)'
  BY <1>3 DEF Carried, Grown
<1> QED
  BY <1>4, <1>5, <1>6, <1>7, <1>8 DEF Carried

LEMMA AskedKept ==
  ASSUME TypeOK, Lawful, NEW o \in Operators, req'[o] = req[o], Asked(o)
  PROVE Asked(o)'
<1> SUFFICES ASSUME Deciding(o)
             PROVE Exists(req[o].decide)' /\ Approval(run'[req[o].decide], req[o].node) # "none"
  BY DEF Asked, Deciding, Exists
<1>0. PICK e \in Execs : e = req[o].decide
  BY Types
<1>1. req[o].node \in Nodes /\ Exists(e) /\ Approval(run[e], req[o].node) # "none"
  BY <1>0, Types DEF Asked
<1>2. ~Purges(e)
  BY <1>0 DEF Purges
<1>3. Exists(e)' /\ (run'[e] = run[e] \/ Grown(run[e], run'[e]))
  BY <1>1, <1>2, Remains
<1>4. Approval(run'[e], req[o].node) # "none"
  BY <1>1, <1>3 DEF Grown
<1> QED
  BY <1>0, <1>3, <1>4 DEF Exists

LEMMA SinceKept ==
  ASSUME NEW r \in Rows, NEW s \in Rows, Grown(r, s), NEW read \in Copies, Since(r, read)
  PROVE Since(s, read)
<1>1. Len(r.log) \in Nat /\ Len(s.log) \in Nat /\ read.seen \in Nat /\ read.pending \subseteq Nodes
  BY RowType, CopyType
<1>2. Len(r.log) <= Len(s.log) /\ read.seen <= Len(r.log)
  BY DEF Grown, Since
<1>3. \A n \in read.pending : Approval(s, n) # "none"
  BY <1>1 DEF Grown, Since
<1>4. ASSUME Len(s.log) = read.seen
      PROVE /\ \A n \in Nodes : Approval(s, n) = "PENDING" => n \in read.pending
            /\ s.status = "WAITING_SUBFLOW" => s.node = read.node
  <2>1. Len(r.log) = Len(s.log) /\ Len(r.log) = read.seen
    BY <1>1, <1>2, <1>4
  <2> QED
    BY <2>1 DEF Grown, Since
<1> QED
  BY <1>1, <1>2, <1>3, <1>4 DEF Since

\* The child that an execution waits for stays, and stays as safe as it was.
LEMMA SafeKept ==
  ASSUME TypeOK, Lawful, NEW q \in Cancellations, NEW c \in Execs, Exists(c), Settles(c),
         run[c].status = "WAITING_SUBFLOW", Safe(q, Named(run[c])), Named(run'[c]) = Named(run[c])
  PROVE Safe(q, Named(run[c]))'
<1>1. PICK k \in Execs : k = Named(run[c]) /\ Exists(k) /\ ~Purges(k)
  <2>1. Named(run[c]) \in Kids(c, run[c].node) /\ ~Ended(c) /\ run[c].node \in Nodes
    BY Types, RowType DEF Settles, Names, Ended, Terminal
  <2>2. ASSUME NEW k \in Kids(c, run[c].node) PROVE k \in Execs /\ Exists(k) /\ ~Purges(k)
    <3>1. k \in Execs /\ Exists(k) /\ run[k].key = <<c, run[c].node>>
      BY DEF Kids
    <3>2. run[k].key \in {c} \X Nodes
      BY <2>1, <3>1
    <3> QED
      BY <2>1, <3>1, <3>2 DEF Purges
  <2> QED
    BY <2>1, <2>2
<1>2. k \in Reached(q) \cup {q.cancel} \/ Ended(k) \/ run[k].revived
  BY <1>1 DEF Safe
<1>3. Ended(k) \/ run[k].revived => Ended(k)' \/ run'[k].revived
  BY <1>1, Remains
<1>4. Named(run[c])' = k
  BY <1>1 DEF Named, StepOf, StepIndex
<1> QED
  BY <1>2, <1>3, <1>4 DEF Safe, Ended

LEMMA TracksKept ==
  ASSUME TypeOK, Lawful, \A e \in Execs : Settles(e), NEW q \in Cancellations, Tracks(q),
         run'[q.cancel] = run[q.cancel], \A c \in Reached(q) : ~Purges(c)
  PROVE Tracks(q)'
<1>1. /\ Exists(q.cancel) /\ q.open \subseteq Reached(q)
      /\ \A c \in Reached(q) : Exists(c) /\ Since(run[c], q.copy[c])
      /\ run[q.cancel].status = "WAITING_SUBFLOW" => Safe(q, Named(run[q.cancel]))
      /\ \A c \in Reached(q) : Looked(q, c) => Safe(q, Named(run[c]))
  BY DEF Tracks
<1>2. q.cancel \in Execs /\ Reached(q) \subseteq Execs /\ \A c \in Reached(q) : q.copy[c] \in Copies
  BY RequestType
<1>3. ASSUME NEW c \in Reached(q)
      PROVE /\ c \in Execs /\ Exists(c)' /\ run[c] \in Rows /\ run'[c] \in Rows
            /\ run'[c] = run[c] \/ Grown(run[c], run'[c])
  BY <1>1, <1>2, Remains, Types
<1>4. Exists(q.cancel)'
  BY <1>1 DEF Exists
<1>5. ASSUME NEW c \in Reached(q) PROVE Exists(c)' /\ Since(run'[c], q.copy[c])
  <2>1. Since(run[c], q.copy[c]) /\ q.copy[c] \in Copies
    BY <1>1, <1>2
  <2> QED
    BY <1>3, <2>1, SinceKept
<1>6. ASSUME run'[q.cancel].status = "WAITING_SUBFLOW" PROVE Safe(q, Named(run[q.cancel]))'
  BY <1>1, <1>2, <1>6, SafeKept
<1>7. ASSUME NEW c \in Reached(q), Looked(q, c)' PROVE Safe(q, Named(run[c]))'
  <2>1. /\ q.stage # "row" \/ c # q.at
        /\ Len(run'[c].log) = q.copy[c].seen /\ run'[c].status = "WAITING_SUBFLOW"
    BY <1>7 DEF Looked
  <2>2. Len(run[c].log) = Len(run'[c].log)
    <3>1. Len(run[c].log) \in Nat /\ Len(run'[c].log) \in Nat /\ q.copy[c].seen \in Nat
      BY <1>2, <1>3, RowType, CopyType
    <3>2. q.copy[c].seen <= Len(run[c].log)
      BY <1>1 DEF Since
    <3>3. Len(run[c].log) <= Len(run'[c].log)
      BY <1>3, <3>1 DEF Grown
    <3> QED
      BY <2>1, <3>1, <3>2, <3>3
  <2>3. run[c].status = "WAITING_SUBFLOW" /\ Named(run'[c]) = Named(run[c])
    BY <1>3, <2>1, <2>2 DEF Grown
  <2>4. Safe(q, Named(run[c]))
    BY <1>1, <2>1, <2>2, <2>3 DEF Looked
  <2>5. Exists(c) /\ Settles(c) /\ c \in Execs
    BY <1>1, <1>3
  <2> QED
    BY <2>3, <2>4, <2>5, SafeKept
<1>8. (q.open \subseteq Reached(q))'
  BY <1>1 DEF Reached
<1>9. Reached(q)' = Reached(q)
  BY DEF Reached
<1> QED
  BY <1>4, <1>5, <1>6, <1>7, <1>8, <1>9 DEF Tracks

LEMMA HoldsKept ==
  ASSUME TypeOK, Lawful, \A e \in Execs : Settles(e), NEW o \in Operators, req'[o] = req[o], Holds(o)
  PROVE Holds(o)'
<1> SUFFICES ASSUME NEW q \in Cancellations, Cancelling(o), req[o] = q PROVE Tracks(q)'
  BY DEF Holds, Cancelling
<1>1. Tracks(q) /\ Exists(q.cancel) /\ q.cancel \in Execs
  BY RequestType DEF Holds, Tracks
<1>2. run'[q.cancel] = run[q.cancel]
  BY <1>1 DEF Lawful, Writes, Births, Purges, Quiet, Exists
<1>3. \A c \in Reached(q) : ~Purges(c)
  BY DEF Purges
<1> QED
  BY <1>1, <1>2, <1>3, TracksKept

-----------------------------------------------------------------------------
(* The kinds of steps.                                                     *)

LEMMA Others ==
  ASSUME IInv, Lawful
  PROVE /\ OneKey' /\ \A e \in Execs : Settles(e)'
        /\ \A o \in Operators : req'[o] = req[o] => Asked(o)' /\ Holds(o)'
        /\ \A v \in Workers : Passing(v) /\ tx'[v] = tx[v] => Carries(v)'
<1>1. OneKey' /\ \A e \in Execs : Settles(e)'
  BY OneKeyKept, SettlesKept DEF IInv
<1>2. \A o \in Operators : req'[o] = req[o] => Asked(o)' /\ Holds(o)'
  BY AskedKept, HoldsKept DEF IInv
<1>3. ASSUME NEW v \in Workers, Passing(v), tx'[v] = tx[v] PROVE Carries(v)'
  <2> SUFFICES ASSUME NEW t \in Passes, tx'[v] = t PROVE Carried(t)'
    BY DEF Carries
  <2>1. Carried(t)
    BY <1>3 DEF IInv, Carries
  <2> QED
    BY <1>3, <2>1, CarriedKept DEF IInv
<1> QED
  BY <1>1, <1>2, <1>3

\* Passes and requests end, or stay as they are.
Recedes ==
  /\ \A v \in Workers : tx'[v] = tx[v] \/ ~Passing(v)'
  /\ \A o \in Operators : req'[o] = req[o] \/ (~Deciding(o)' /\ ~Cancelling(o)')

LEMMA RecedeStep ==
  ASSUME IInv, TypeOK', Lawful, Recedes
  PROVE IInv'
<1>1. /\ OneKey' /\ \A e \in Execs : Settles(e)'
      /\ \A o \in Operators : req'[o] = req[o] => Asked(o)' /\ Holds(o)'
      /\ \A v \in Workers : Passing(v) /\ tx'[v] = tx[v] => Carries(v)'
  BY Others
<1>2. \A v \in Workers : Passing(v)' => Passing(v) /\ tx'[v] = tx[v]
  BY DEF Recedes, Passing
<1>3. \A o \in Operators : Cancelling(o)' => Cancelling(o) /\ req'[o] = req[o]
  BY DEF Recedes, Cancelling
<1>4. Locks'
  BY <1>2, <1>3 DEF IInv, Locks
<1>5. Siblings'
  BY <1>2 DEF IInv, Siblings
<1>6. \A v \in Workers : Carries(v)'
  BY <1>1, <1>2 DEF Carries
<1>7. ASSUME NEW o \in Operators PROVE Asked(o)' /\ Holds(o)'
  BY <1>1 DEF Recedes, Asked, Holds
<1> QED
  BY <1>1, <1>4, <1>5, <1>6, <1>7 DEF IInv

\* A pass begins or goes on.
Enters(w, u) ==
  /\ u \in Passes /\ tx' = [tx EXCEPT ![w] = u]
  /\ UNCHANGED <<run, req, demand, faults>>
  /\ Carried(u)
  /\ \A v \in Workers \ {w} : Passing(v) => tx[v].e # u.e /\ (u.child # 0 => tx[v].child # u.child)
  /\ \A o \in Operators : Cancelling(o) => u.e \notin Held(req[o])

LEMMA EnterStep ==
  ASSUME IInv, NEW w \in Workers, NEW u \in Passes, Enters(w, u)
  PROVE IInv'
<1>1. /\ tx'[w] = u /\ \A v \in Workers \ {w} : tx'[v] = tx[v]
      /\ run' = run /\ req' = req /\ demand' = demand /\ faults' = faults
  BY DEF IInv, TypeOK, Enters
<1>2. TypeOK'
  BY <1>1 DEF IInv, TypeOK, Enters
<1>3. Lawful
  BY <1>1 DEF Lawful, IInv, TypeOK
<1>4. /\ OneKey' /\ \A e \in Execs : Settles(e)'
      /\ \A o \in Operators : Asked(o)' /\ Holds(o)'
      /\ \A v \in Workers \ {w} : Passing(v) => Carries(v)'
  BY <1>1, <1>3, Others
<1>5. /\ \A v \in Workers \ {w} : Passing(v)' => Passing(v)
      /\ \A o \in Operators : Cancelling(o)' => Cancelling(o)
  BY <1>1 DEF Passing, Cancelling
<1>6. Locks'
  BY <1>1, <1>5 DEF IInv, Locks, Enters
<1>7. Siblings'
  BY <1>1, <1>5 DEF IInv, Siblings, Enters
<1>8. Carried(u)'
  BY <1>1 DEF Enters, Carried, Bears, Names, Kids, Cleared, Exists, Ended
<1>9. ASSUME NEW v \in Workers PROVE Carries(v)'
  <2>1. CASE v = w
    BY <1>1, <1>8, <2>1 DEF Carries
  <2>2. CASE v # w
    BY <1>4, <1>5, <2>2 DEF Carries
  <2> QED
    BY <2>1, <2>2
<1> QED
  BY <1>2, <1>4, <1>6, <1>7, <1>9 DEF IInv

-----------------------------------------------------------------------------
(* A pass begins.                                                          *)

\* What a pass may begin with.
Takes(e, row, verdict) ==
  /\ Sound(row) /\ Grown(run[e], row) /\ row.status # "CANCELLED"
  /\ verdict \in {"none", "FAILED"}
  /\ verdict # "none" /\ ~DecidedTwice(row) => \A n \in Nodes : Approval(row, n) # "PENDING"
  /\ row.flow \in Serial /\ (row.status = "RUNNING" \/ row.steps # <<>>) => Cleared(e)
  /\ row.status = "WAITING_SUBFLOW" => Names(e, row)

LEMMA TakeStep ==
  ASSUME IInv, NEW w \in Workers, NEW e \in Execs, NEW row \in Rows, NEW verdict,
         Claimed(w, e), Pass(w, e, row, verdict), Takes(e, row, verdict)
  PROVE IInv'
<1> DEFINE u == [e |-> e, row |-> row, verdict |-> verdict, cursor |-> Len(row.steps), child |-> 0, born |-> None]
<1>1. Len(row.steps) \in Nat /\ 0 \in 0 .. MaxExecs
  BY RowType, LimitsAssumption
<1>2. u \in Passes /\ u.e = e /\ u.row = row /\ u.verdict = verdict /\ u.cursor = Len(row.steps) /\ u.child = 0
  BY <1>1 DEF Passes, Takes
<1>3. tx' = [tx EXCEPT ![w] = u] /\ UNCHANGED <<run, req, demand, faults>>
  BY DEF Pass
<1> HIDE DEF u
<1>4. Exists(e) /\ ~Ended(e) /\ Free(e)
  BY DEF Claimed, Ended, Claimable, Terminal
<1>5. Carried(u)
  BY <1>1, <1>2, <1>4 DEF Carried, Takes
<1>6. Enters(w, u)
  BY <1>2, <1>3, <1>4, <1>5 DEF Enters, Free
<1> QED
  BY <1>2, <1>6, EnterStep

\* What is known of an execution that is claimed.
LEMMA ClaimedIs ==
  ASSUME IInv, NEW w \in Workers, NEW e \in Execs, Claimed(w, e)
  PROVE /\ run[e] \in Rows /\ Sound(run[e]) /\ Exists(e) /\ ~Ended(e)
        /\ run[e].status \in Claimable /\ run[e].status \notin Terminal /\ run[e].due
        /\ run[e].status = "WAITING_SUBFLOW" => Names(e, run[e])
        /\ run[e].flow \in Serial /\ (run[e].steps # <<>> \/ ~Behind(e)) => Cleared(e)
<1>1. Exists(e) /\ run[e].status \in Claimable /\ run[e].due
  BY DEF Claimed
<1>2. Settles(e) /\ run[e] \in Rows
  BY <1>1, Types DEF IInv
<1>3. run[e].flow \in Serial /\ ~Behind(e) => Cleared(e)
  BY DEF Behind, Active, Cleared
<1> QED
  BY <1>1, <1>2, <1>3 DEF Settles, Ended, Claimable, Terminal

\* The row waits on, as it is.
LEMMA TakeSame ==
  ASSUME IInv, NEW w \in Workers, NEW e \in Execs, Claimed(w, e), NEW due \in BOOLEAN,
         Pass(w, e, [run[e] EXCEPT !.due = due], "none"), due => run[e].due
  PROVE IInv'
<1> DEFINE r == run[e]
           s == [r EXCEPT !.due = due]
<1>1. r \in Rows /\ Sound(r) /\ r.status \in Claimable /\ r.node \in Nodes
  BY ClaimedIs, RowType
<1>2. /\ s \in Rows /\ s.flow = r.flow /\ s.key = r.key /\ s.revived = r.revived /\ s.steps = r.steps /\ s.log = r.log
      /\ s.status = r.status /\ s.node = r.node /\ s.due = due /\ s.overtaken = r.overtaken
  BY <1>1 DEF Rows
<1>3. Named(s) = Named(r) /\ (\A n \in Nodes : StepOf(s, n) = StepOf(r, n) /\ Approval(s, n) = Approval(r, n)) /\ Plain(r, s)
  <2> HIDE DEF s, r
  <2>1. \A n \in Nodes : StepOf(s, n) = StepOf(r, n) /\ Approval(s, n) = Approval(r, n)
    BY <1>2, SameSteps
  <2> QED
    BY <1>1, <1>2, <2>1, PlainPlace DEF Named
<1>4. r.status = "WAITING_SUBFLOW" => Names(e, r)
  BY ClaimedIs
<1>5. r.flow \in Serial /\ r.steps # <<>> => Cleared(e)
  BY ClaimedIs
<1>6. r.due /\ Pass(w, e, s, "none")
  BY ClaimedIs
<1> HIDE DEF s, r
<1>7. Fits(r, s) /\ Onward(r, s)
  BY <1>1, <1>2, <1>3, <1>6 DEF Fits, Onward, Sound
<1>8. Sound(s) /\ Grown(r, s)
  BY <1>1, <1>2, <1>7, SoundFits, GrownPlain
<1>9. Takes(e, s, "none")
  BY <1>1, <1>2, <1>3, <1>4, <1>5, <1>8 DEF Takes, Names, Claimable, r
<1> QED
  BY <1>2, <1>6, <1>9, TakeStep

\* The execution goes on.
LEMMA TakeOn ==
  ASSUME IInv, NEW w \in Workers, NEW e \in Execs, NEW s \in Rows, Claimed(w, e), ~Behind(e),
         Pass(w, e, s, "none"), Sound(s), Grown(run[e], s), s.status = "RUNNING"
  PROVE IInv'
<1>1. run[e].flow \in Serial => Cleared(e)
  BY ClaimedIs
<1>2. Takes(e, s, "none")
  BY <1>1 DEF Takes, Grown
<1> QED
  BY <1>2, TakeStep

LEMMA DeferStep ==
  ASSUME IInv, NEW w \in Workers, NEW e \in Execs, Defer(w, e)
  PROVE IInv'
<1>1. CASE Behind(e) /\ Pass(w, e, [run[e] EXCEPT !.due = FALSE], "none")
  BY <1>1, TakeSame DEF Defer
<1>2. CASE Pass(w, e, run[e], "none")
  <2>1. Claimed(w, e)
    BY DEF Defer
  <2>2. run[e] = [run[e] EXCEPT !.due = TRUE] /\ run[e].due
    BY <2>1, ClaimedIs DEF Rows
  <2> QED
    BY <1>2, <2>1, <2>2, TakeSame
<1> QED
  BY <1>1, <1>2 DEF Defer

LEMMA BeginStep ==
  ASSUME IInv, NEW w \in Workers, NEW e \in Execs, Begin(w, e)
  PROVE IInv'
<1>1. Claimed(w, e) /\ ~Behind(e) /\ Pass(w, e, Running(run[e]), "none")
  BY DEF Begin
<1>2. run[e] \in Rows /\ Sound(run[e]) /\ run[e].status \notin Terminal
  BY <1>1, ClaimedIs
<1>3. Running(run[e]) \in Rows /\ Running(run[e]).status = "RUNNING"
  BY <1>2, RunningIs
<1>4. Sound(Running(run[e])) /\ Grown(run[e], Running(run[e]))
  BY <1>2, SoundRunning
<1> QED
  BY <1>1, <1>3, <1>4, TakeOn

\* A claim that moves a waiting execution on.
LEMMA TakeMoved ==
  ASSUME IInv, NEW w \in Workers, NEW e \in Execs, NEW m \in Rows, Claimed(w, e), ~Behind(e),
         Pass(w, e, Running(m), "none"), Sound(m), Grown(run[e], m), m.status = "RUNNING"
  PROVE IInv'
<1>1. run[e] \in Rows
  BY ClaimedIs
<1>2. Running(m) \in Rows /\ Running(m).status = "RUNNING"
  BY RunningIs
<1>3. Sound(Running(m)) /\ Grown(m, Running(m))
  BY SoundRunning DEF Terminal
<1>4. Grown(run[e], Running(m))
  BY <1>1, <1>2, <1>3, GrownTrans
<1> QED
  BY <1>2, <1>3, <1>4, TakeOn

LEMMA TakeMoveOn ==
  ASSUME IInv, NEW w \in Workers, NEW e \in Execs, Claimed(w, e), ~Behind(e),
         run[e].status \in {"WAITING_TIMER", "WAITING_SUBFLOW"},
         Pass(w, e, Running(MoveOn(run[e], "next", "moved")), "none")
  PROVE IInv'
<1> DEFINE r == run[e]
           m == MoveOn(r, "next", "moved")
<1>1. r \in Rows /\ Sound(r) /\ r.status \notin Terminal
  BY ClaimedIs
<1>2. Kind[r.node] # "APPROVAL" /\ "next" \in Outcomes[Kind[r.node]] /\ "moved" \in Events \ {"decided"} /\ "moved" \in Events
  BY <1>1 DEF Sound, Outcomes, Events
<1>3. MovedOn(r, "next", "moved", m)
  BY <1>1, <1>2, MoveOnIs
<1>4. Sound(m) /\ Grown(r, m)
  BY <1>1, <1>2, SoundMove
<1>5. m \in Rows /\ m.status = "RUNNING"
  BY <1>3 DEF MovedOn
<1> HIDE DEF m
<1> QED
  BY <1>4, <1>5, TakeMoved DEF m

LEMMA ResumeTimerStep ==
  ASSUME IInv, NEW w \in Workers, NEW e \in Execs, ResumeTimer(w, e)
  PROVE IInv'
BY TakeMoveOn DEF ResumeTimer

LEMMA ResumeSubflowStep ==
  ASSUME IInv, NEW w \in Workers, NEW e \in Execs, ResumeSubflow(w, e)
  PROVE IInv'
BY TakeMoveOn DEF ResumeSubflow, WaitsForChild

LEMMA PollSubflowStep ==
  ASSUME IInv, NEW w \in Workers, NEW e \in Execs, PollSubflow(w, e)
  PROVE IInv'
BY TakeSame DEF PollSubflow, WaitsForChild

LEMMA ResumeApprovalTimeoutStep ==
  ASSUME IInv, NEW w \in Workers, NEW e \in Execs, ResumeApprovalTimeout(w, e)
  PROVE IInv'
<1> DEFINE r == run[e]
           m == MoveOn(SetApproval(r, r.node, "EXPIRED"), "timeout", "expired")
<1>1. Claimed(w, e) /\ ~Behind(e) /\ Pass(w, e, Running(m), "none")
      /\ r.status = "WAITING_APPROVAL" /\ Approval(r, r.node) = "PENDING"
  BY DEF ResumeApprovalTimeout
<1>2. r \in Rows /\ Sound(r) /\ r.due
  BY <1>1, ClaimedIs
<1>3. m \in Rows /\ Sound(m) /\ Grown(r, m) /\ m.status = "RUNNING"
  BY <1>1, <1>2, SoundTimeout
<1> HIDE DEF m
<1> QED
  BY <1>1, <1>3, TakeMoved DEF r

LEMMA TakeFailed ==
  ASSUME IInv, NEW w \in Workers, NEW e \in Execs, WaitsForChild(w, e), Pass(w, e, Failing(run[e]), "FAILED")
  PROVE IInv'
<1> DEFINE r == run[e]
           s == Failing(r)
<1>1. /\ r \in Rows /\ Sound(r) /\ r.status = "WAITING_SUBFLOW" /\ Names(e, r)
      /\ r.flow \in Serial => Cleared(e)
      /\ Claimed(w, e) /\ Pass(w, e, s, "FAILED")
  BY ClaimedIs DEF WaitsForChild
<1> HIDE DEF r
<1>2. r.status \notin Terminal /\ r.status \notin Open
  BY <1>1 DEF Terminal, Open
<1>3. /\ Sound(s) /\ Grown(r, s) /\ (s.status \notin {"RUNNING", "CANCELLED"} \/ s = r)
      /\ ~DecidedTwice(s) => \A n \in Nodes : Approval(s, n) # "PENDING"
  BY <1>1, <1>2, SoundFailing
<1>4. s \in Rows /\ (s = r \/ s.status = "COMPENSATING")
  BY <1>1, FailingIs
<1> HIDE DEF s
<1>5. Takes(e, s, "FAILED")
  BY <1>1, <1>3, <1>4 DEF Takes, Grown, r
<1> QED
  BY <1>1, <1>4, <1>5, TakeStep

LEMMA ClaimStepKeeps ==
  ASSUME IInv, NEW w \in Workers, NEW e \in Execs, ClaimStep(w, e)
  PROVE IInv'
<1>1. CASE SubflowFails(w, e) \/ SubflowTimesOut(w, e)
  BY <1>1, TakeFailed DEF SubflowFails, SubflowTimesOut
<1> QED
  BY <1>1, DeferStep, BeginStep, ResumeTimerStep, ResumeSubflowStep, PollSubflowStep, ResumeApprovalTimeoutStep
     DEF ClaimStep

-----------------------------------------------------------------------------
(* A pass goes on.                                                         *)

\* What is known of a pass.
LEMMA PassIs ==
  ASSUME IInv, NEW w \in Workers, Passing(w)
  PROVE /\ tx[w] \in Passes /\ Carried(tx[w])
        /\ tx[w].e \in Execs /\ Exists(tx[w].e) /\ ~Ended(tx[w].e) /\ run[tx[w].e] \in Rows
        /\ tx[w].row \in Rows /\ Sound(tx[w].row) /\ Grown(run[tx[w].e], tx[w].row) /\ tx[w].row.node \in Nodes
<1>1. tx[w] \in Passes
  BY Types DEF IInv
<1>2. Carried(tx[w])
  BY <1>1 DEF IInv, Carries
<1>3. tx[w].e \in Execs /\ tx[w].row \in Rows /\ tx[w].row.node \in Nodes
  BY <1>1, PassType, RowType
<1>4. Exists(tx[w].e) /\ ~Ended(tx[w].e) /\ Sound(tx[w].row) /\ Grown(run[tx[w].e], tx[w].row)
  BY <1>2 DEF Carried
<1>5. run[tx[w].e] \in Rows
  BY <1>3, <1>4, Types DEF IInv
<1> QED
  BY <1>1, <1>2, <1>3, <1>4, <1>5

LEMMA GoesOn ==
  ASSUME IInv, NEW w \in Workers, Passing(w), NEW u \in Passes, tx' = [tx EXCEPT ![w] = u],
         UNCHANGED <<run, req, demand, faults>>, u.e = tx[w].e, Carried(u),
         u.child = tx[w].child \/ \A v \in Workers \ {w} : Passing(v) => tx[v].child # u.child
  PROVE IInv'
<1>1. \A v \in Workers \ {w} : Passing(v) => tx[v].e # u.e
  BY DEF IInv, Locks
<1>2. \A v \in Workers \ {w} : Passing(v) /\ u.child # 0 => tx[v].child # u.child
  BY DEF IInv, Siblings
<1>3. \A o \in Operators : Cancelling(o) => u.e \notin Held(req[o])
  BY DEF IInv, Locks
<1>4. Enters(w, u)
  BY <1>1, <1>2, <1>3 DEF Enters
<1> QED
  BY <1>4, EnterStep

\* The pass stands at a node.
Stands(w) == Passing(w) /\ tx[w].verdict = "none" /\ tx[w].row.status = "RUNNING"

LEMMA StandsIs ==
  ASSUME IInv, NEW w \in Workers, Stands(w)
  PROVE /\ tx[w].child = 0
        /\ tx[w].row.flow \in Serial => Cleared(tx[w].e)
BY PassIs DEF Stands, Carried, Bears

LEMMA NodeEnters ==
  ASSUME IInv, NEW w \in Workers, Stands(w), NEW s \in Rows, Becomes(w, s),
         Sound(s), Grown(tx[w].row, s), s.status # "CANCELLED", Len(tx[w].row.steps) <= Len(s.steps),
         s.status = "WAITING_SUBFLOW" => Names(tx[w].e, s)
  PROVE IInv'
<1> DEFINE t == tx[w]
           u == [t EXCEPT !.row = s]
<1>1. /\ t \in Passes /\ t.e \in Execs /\ t.row \in Rows /\ run[t.e] \in Rows /\ t.verdict = "none"
      /\ Carried(t) /\ Grown(run[t.e], t.row) /\ Exists(t.e) /\ ~Ended(t.e)
      /\ t.child = 0 /\ (t.row.flow \in Serial => Cleared(t.e)) /\ Passing(w)
  BY PassIs, StandsIs DEF Stands
<1>2. Sound(s) /\ Grown(t.row, s) /\ Len(t.row.steps) <= Len(s.steps) /\ (s.status = "WAITING_SUBFLOW" => Names(t.e, s))
  OBVIOUS
<1>3. tx' = [tx EXCEPT ![w] = u] /\ UNCHANGED <<run, req, demand, faults>>
  BY DEF Becomes
<1> HIDE DEF t
<1>4. u \in Passes /\ u.e = t.e /\ u.row = s /\ u.verdict = "none" /\ u.cursor = t.cursor /\ u.child = 0
  BY <1>1 DEF Passes
<1> HIDE DEF u
<1>5. Grown(run[t.e], s)
  BY <1>1, <1>2, GrownTrans
<1>6. u.cursor <= Len(s.steps)
  <2>1. t.cursor \in Nat /\ Len(t.row.steps) \in Nat /\ Len(s.steps) \in Nat
    BY <1>1, PassType, RowType
  <2>2. t.cursor <= Len(t.row.steps)
    BY <1>1 DEF Carried
  <2> QED
    BY <1>2, <1>4, <2>1, <2>2
<1>7. s.flow \in Serial => Cleared(t.e)
  BY <1>1, <1>2 DEF Grown
<1>8. Carried(u)
  BY <1>1, <1>2, <1>4, <1>5, <1>6, <1>7 DEF Carried
<1> QED
  BY <1>1, <1>3, <1>4, <1>8, GoesOn DEF t

\* A plain change at a node that is not an approval.
LEMMA NodePlain ==
  ASSUME IInv, NEW w \in Workers, Stands(w), Kind[tx[w].row.node] # "APPROVAL", NEW s \in Rows, Becomes(w, s),
         Plain(tx[w].row, s), s.status \notin {"CANCELLED", "WAITING_APPROVAL"},
         s.status = "WAITING_TIMER" => Kind[s.node] = "WAIT",
         s.status = "WAITING_SUBFLOW" =>
           Kind[s.node] = "SUBFLOW" /\ Names(tx[w].e, s) /\ Len(tx[w].row.log) < Len(s.log)
  PROVE IInv'
<1> DEFINE r == tx[w].row
<1>1. r \in Rows /\ Sound(r) /\ r.status = "RUNNING"
  BY PassIs DEF Stands
<1>2. Fits(r, s) /\ Onward(r, s)
  BY <1>1 DEF Fits, Onward, Terminal
<1>3. Sound(s) /\ Grown(r, s)
  <2> HIDE DEF r
  <2> QED
    BY <1>1, <1>2, SoundFits, GrownPlain
<1>4. Len(r.steps) <= Len(s.steps)
  BY DEF Plain
<1> QED
  BY <1>3, <1>4, NodeEnters

\* The execution fails at a node that is not an approval.
LEMMA NodeFails ==
  ASSUME IInv, NEW w \in Workers, Stands(w), Kind[tx[w].row.node] # "APPROVAL", NEW p \in Rows,
         Plain(tx[w].row, p), p.status = "RUNNING", p.node = tx[w].row.node,
         NEW verdict \in {"FAILED", "DEAD_LETTER"}, Fails(w, p, verdict)
  PROVE IInv'
<1> DEFINE t == tx[w]
           s == Failing(p)
           u == [t EXCEPT !.row = s, !.verdict = verdict, !.cursor = Len(p.steps)]
<1>1. /\ t \in Passes /\ t.e \in Execs /\ t.row \in Rows /\ run[t.e] \in Rows /\ t.row.status = "RUNNING"
      /\ Sound(t.row) /\ Grown(run[t.e], t.row) /\ Exists(t.e) /\ ~Ended(t.e)
      /\ t.child = 0 /\ (t.row.flow \in Serial => Cleared(t.e)) /\ Passing(w)
      /\ Kind[t.row.node] # "APPROVAL" /\ Plain(t.row, p) /\ p.node = t.row.node
  BY PassIs, StandsIs DEF Stands
<1>2. tx' = [tx EXCEPT ![w] = u] /\ UNCHANGED <<run, req, demand, faults>>
  BY DEF Fails
<1> HIDE DEF t
<1>3. Fits(t.row, p) /\ Onward(t.row, p)
  BY <1>1 DEF Fits, Onward, Terminal, Open
<1>4. Sound(p) /\ Grown(t.row, p) /\ p.status \notin Terminal
  BY <1>1, <1>3, SoundFits, GrownPlain DEF Terminal
<1>5. /\ Sound(s) /\ Grown(p, s) /\ (s.status \notin {"RUNNING", "CANCELLED"} \/ s = p)
      /\ ~DecidedTwice(s) => \A n \in Nodes : Approval(s, n) # "PENDING"
  BY <1>1, <1>4, SoundFailing
<1>6. s \in Rows /\ s.steps = p.steps /\ (s = p \/ s.status = "COMPENSATING")
  BY FailingIs
<1>7. Len(p.steps) \in Nat
  BY RowType
<1> HIDE DEF s
<1>8. /\ u \in Passes /\ u.e = t.e /\ u.row = s /\ u.verdict = verdict /\ u.cursor = Len(p.steps) /\ u.child = 0
  BY <1>1, <1>6, <1>7 DEF Passes
<1> HIDE DEF u
<1>9. Grown(run[t.e], s)
  BY <1>1, <1>4, <1>5, <1>6, GrownTrans
<1>10. s.flow \in Serial => Cleared(t.e)
  BY <1>1, <1>4, <1>5 DEF Grown
<1>11. s.status \notin {"CANCELLED", "WAITING_SUBFLOW"}
  BY <1>6
<1>12. Carried(u)
  BY <1>1, <1>5, <1>6, <1>7, <1>8, <1>9, <1>10, <1>11 DEF Carried
<1> QED
  BY <1>1, <1>2, <1>8, <1>12, GoesOn DEF t

-----------------------------------------------------------------------------
(* The nodes.                                                              *)

\* A step that goes on is put in the row.
LEMMA PutChanged ==
  ASSUME NEW r \in Rows, NEW s \in Steps, s.node = r.node, s.approval = Approval(r, r.node),
         StepOf(r, r.node).lapsed => s.lapsed
  PROVE /\ PutStep(r, s) \in Rows /\ Plain(r, PutStep(r, s))
        /\ PutStep(r, s).node = r.node /\ PutStep(r, s).status = r.status
<1>1. PutStep(r, s) = [r EXCEPT !.steps = PutStep(r, s).steps] /\ PutStep(r, s) \in Rows
  BY PutStepIs
<1>2. Plain(r, PutStep(r, s))
  BY PlainStep
<1>3. PutStep(r, s).node = r.node /\ PutStep(r, s).status = r.status
  BY <1>1 DEF Rows
<1> QED
  BY <1>1, <1>2, <1>3

\* An event is noted and the execution gets another status.
Marked(r, p, what, status, s) ==
  /\ s \in Rows /\ Plain(r, s) /\ s.status = status /\ s.node = p.node /\ s.steps = p.steps
  /\ s.flow = p.flow /\ s.revived = p.revived
  /\ s.log = Append(p.log, <<what, p.node>>)

LEMMA PlainNoted ==
  ASSUME NEW r \in Rows, NEW p \in Rows, Plain(r, p), NEW what \in Events \ {"decided"},
         NEW status \in {"SUCCEEDED", "RETRY", "FAILED", "DEAD_LETTER"}, NEW due \in BOOLEAN
  PROVE Marked(r, p, what, status, [Note(p, what) EXCEPT !.status = status, !.due = due])
<1> DEFINE q == Note(p, what)
           s == [q EXCEPT !.status = status, !.due = due]
<1>1. q \in Rows /\ Plain(p, q) /\ q = [p EXCEPT !.log = Append(p.log, <<what, p.node>>)]
  BY NoteIs, PlainNote
<1>2. q.node = p.node /\ q.steps = p.steps /\ q.flow = p.flow /\ q.revived = p.revived /\ q.log = Append(p.log, <<what, p.node>>)
  BY <1>1 DEF Rows
<1> HIDE DEF q
<1>3. /\ s \in Rows /\ s.status = status /\ s.node = q.node /\ s.steps = q.steps /\ s.log = q.log
      /\ s.flow = q.flow /\ s.key = q.key /\ s.revived = q.revived
  BY <1>1, ZenonT(60) DEF Rows, Terminal, Claimable
<1> HIDE DEF s
<1>4. Plain(r, s)
  BY <1>1, <1>3, PlainPlace, PlainTrans
<1> QED
  BY <1>2, <1>3, <1>4 DEF q, s, Marked

LEMMA CompleteStep ==
  ASSUME IInv, NEW w \in Workers, Complete(w)
  PROVE IInv'
<1> DEFINE r == tx[w].row
           step == [StepOf(r, r.node) EXCEPT !.status = "SUCCEEDED"]
           p == PutStep(r, step)
           s == [Note(p, "succeeded") EXCEPT !.status = "SUCCEEDED"]
<1>1. Stands(w) /\ Kind[r.node] # "APPROVAL" /\ Becomes(w, s)
  BY DEF Complete, AtNode, Stands
<1>2. r \in Rows /\ r.node \in Nodes
  BY <1>1, PassIs DEF Stands
<1> HIDE DEF r
<1>3. step \in Steps /\ step.node = r.node /\ step.approval = Approval(r, r.node) /\ (StepOf(r, r.node).lapsed => step.lapsed)
  <2>1. 0 \in 0 .. MaxExecs
    BY LimitsAssumption
  <2> QED
    BY <1>2, <2>1, StepChanges
<1> HIDE DEF step
<1>4. p \in Rows /\ Plain(r, p)
  BY <1>2, <1>3, PutChanged
<1> HIDE DEF p
<1>5. "succeeded" \in Events \ {"decided"} /\ "succeeded" \in Events
  BY DEF Events
<1>6. s = [Note(p, "succeeded") EXCEPT !.status = "SUCCEEDED", !.due = Note(p, "succeeded").due]
      /\ Note(p, "succeeded").due \in BOOLEAN
  BY <1>4, <1>5, NoteIs DEF Rows
<1>7. s \in Rows /\ Plain(r, s) /\ s.status = "SUCCEEDED"
  <2> DEFINE due == Note(p, "succeeded").due
  <2>0. s = [Note(p, "succeeded") EXCEPT !.status = "SUCCEEDED", !.due = due] /\ due \in BOOLEAN
    BY <1>6
  <2> HIDE DEF s, due
  <2>1. Marked(r, p, "succeeded", "SUCCEEDED", s)
    BY <1>2, <1>4, <1>5, <2>0, PlainNoted
  <2> QED
    BY <2>1 DEF Marked
<1> HIDE DEF s
<1> QED
  BY <1>1, <1>7, NodePlain DEF r

LEMMA EvaluateConditionStep ==
  ASSUME IInv, NEW w \in Workers, EvaluateCondition(w)
  PROVE IInv'
<1> DEFINE r == tx[w].row
<1>1. Stands(w) /\ Kind[r.node] = "CONDITION"
  BY DEF EvaluateCondition, AtNode, Stands
<1>2. r \in Rows
  BY <1>1, PassIs DEF Stands
<1>3. PICK outcome \in {"true", "false"} : Becomes(w, MoveOn(r, outcome, "moved"))
  BY DEF EvaluateCondition
<1> DEFINE s == MoveOn(r, outcome, "moved")
<1>4. outcome \in Outcomes[Kind[r.node]] /\ "moved" \in Events /\ "moved" # "decided"
  BY <1>1 DEF Outcomes, Events
<1>5. MovedOn(r, outcome, "moved", s)
  BY <1>2, <1>4, MoveOnIs
<1> HIDE DEF s
<1>6. s \in Rows /\ Plain(r, s) /\ s.status = "RUNNING"
  BY <1>4, <1>5 DEF MovedOn
<1> QED
  BY <1>1, <1>3, <1>6, NodePlain DEF s

\* An attempt is counted in the step.
LEMMA AttemptedIs ==
  ASSUME NEW r \in Rows
  PROVE /\ Attempted(r) \in Steps /\ Attempted(r).node = r.node /\ Attempted(r).approval = Approval(r, r.node)
        /\ StepOf(r, r.node).lapsed => Attempted(r).lapsed
<1>1. r.node \in Nodes /\ 0 \in 0 .. MaxExecs
  BY RowType, LimitsAssumption
<1> QED
  BY <1>1, StepChanges DEF Attempted

LEMMA ActionSucceedsStep ==
  ASSUME IInv, NEW w \in Workers, ActionSucceeds(w)
  PROVE IInv'
<1> DEFINE r == tx[w].row
           p == PutStep(r, Attempted(r))
           s == MoveOn(p, "next", "done")
<1>1. Stands(w) /\ Kind[r.node] = "ACTION" /\ Becomes(w, s)
  BY DEF ActionSucceeds, AtNode, Stands
<1>2. r \in Rows
  BY <1>1, PassIs DEF Stands
<1> HIDE DEF r
<1>3. p \in Rows /\ Plain(r, p) /\ p.node = r.node
  BY <1>2, AttemptedIs, PutChanged
<1> HIDE DEF p
<1>4. "next" \in Outcomes[Kind[p.node]] /\ "done" \in Events /\ "done" # "decided"
  BY <1>1, <1>3 DEF Outcomes, Events
<1>5. MovedOn(p, "next", "done", s)
  BY <1>3, <1>4, MoveOnIs
<1> HIDE DEF s
<1>6. s \in Rows /\ Plain(p, s) /\ s.status = "RUNNING"
  BY <1>4, <1>5 DEF MovedOn
<1>7. Plain(r, s)
  BY <1>2, <1>3, <1>6, PlainTrans
<1> QED
  BY <1>1, <1>6, <1>7, NodePlain DEF r

LEMMA ActionFailsStep ==
  ASSUME IInv, NEW w \in Workers, NEW retryable \in BOOLEAN, ActionFails(w, retryable)
  PROVE IInv'
<1> DEFINE r == tx[w].row
           step == Attempted(r)
           p == PutStep(r, step)
           s == [Note(p, "retry") EXCEPT !.status = "RETRY", !.due = FALSE]
           final == [step EXCEPT !.status = "FAILED"]
           q == PutStep(r, final)
<1>1. Stands(w) /\ Kind[r.node] = "ACTION"
  BY DEF ActionFails, AtNode, Stands
<1>2. r \in Rows /\ r.status = "RUNNING"
  BY <1>1, PassIs DEF Stands
<1>3. Becomes(w, s) \/ \E verdict \in {"FAILED", "DEAD_LETTER"} : Fails(w, q, verdict)
  BY DEF ActionFails
<1> HIDE DEF r
<1>4. step \in Steps /\ step.node = r.node /\ step.approval = Approval(r, r.node)
      /\ (StepOf(r, r.node).lapsed => step.lapsed)
  BY <1>2, AttemptedIs
<1> HIDE DEF step
<1>5. CASE Becomes(w, s)
  <2>1. p \in Rows /\ Plain(r, p)
    BY <1>2, <1>4, PutChanged
  <2> HIDE DEF p
  <2>2. "retry" \in Events \ {"decided"}
    BY DEF Events
  <2>3. s \in Rows /\ Plain(r, s) /\ s.status = "RETRY"
    <3>1. Marked(r, p, "retry", "RETRY", s)
      BY <1>2, <2>1, <2>2, PlainNoted
    <3> QED
      BY <3>1 DEF Marked
  <2> HIDE DEF s
  <2> QED
    BY <1>1, <1>5, <2>3, NodePlain DEF r
<1>6. ASSUME NEW verdict \in {"FAILED", "DEAD_LETTER"}, Fails(w, q, verdict) PROVE IInv'
  <2>1. final \in Steps /\ final.node = r.node /\ final.approval = Approval(r, r.node)
        /\ (StepOf(r, r.node).lapsed => final.lapsed)
    BY <1>4 DEF Steps
  <2> HIDE DEF final
  <2>2. q \in Rows /\ Plain(r, q) /\ q.node = r.node /\ q.status = "RUNNING"
    BY <1>2, <2>1, PutChanged
  <2> HIDE DEF q
  <2> QED
    BY <1>1, <1>6, <2>2, NodeFails DEF r
<1> QED
  BY <1>3, <1>5, <1>6

LEMMA StartTimerStep ==
  ASSUME IInv, NEW w \in Workers, StartTimer(w)
  PROVE IInv'
<1> DEFINE r == tx[w].row
           s == Park(r, "WAITING_TIMER", 0)
<1>1. Stands(w) /\ Kind[r.node] = "WAIT" /\ Becomes(w, s)
  BY DEF StartTimer, AtNode, Stands
<1>2. r \in Rows /\ 0 \in 0 .. MaxExecs /\ "WAITING_TIMER" \in Claimable
  BY <1>1, PassIs, LimitsAssumption DEF Stands, Claimable
<1>3. Parked(r, "WAITING_TIMER", 0, s)
  BY <1>2, ParkIs
<1> HIDE DEF s
<1>4. s \in Rows /\ Plain(r, s) /\ s.status = "WAITING_TIMER" /\ s.node = r.node
  BY <1>3 DEF Parked, Plain
<1> QED
  BY <1>1, <1>4, NodePlain

LEMMA SubflowUnavailableStep ==
  ASSUME IInv, NEW w \in Workers, SubflowUnavailable(w)
  PROVE IInv'
<1>1. Stands(w) /\ Kind[tx[w].row.node] # "APPROVAL" /\ Fails(w, tx[w].row, "FAILED")
  BY DEF SubflowUnavailable, AtNode, Stands
<1>2. tx[w].row \in Rows /\ tx[w].row.status = "RUNNING"
  BY <1>1, PassIs DEF Stands
<1>3. Plain(tx[w].row, tx[w].row)
  BY <1>2, PlainPlace
<1> QED
  BY <1>1, <1>2, <1>3, NodeFails

LEMMA RequestApprovalStep ==
  ASSUME IInv, NEW w \in Workers, RequestApproval(w)
  PROVE IInv'
<1> DEFINE r == tx[w].row
           p == Park(r, "WAITING_APPROVAL", 0)
           s == SetApproval(p, p.node, "PENDING")
<1>1. Stands(w) /\ Kind[r.node] = "APPROVAL" /\ Approval(r, r.node) = "none" /\ Becomes(w, s)
  BY DEF RequestApproval, AtNode, Stands
<1>2. r \in Rows /\ Sound(r) /\ r.status = "RUNNING" /\ r.status \notin Terminal
  BY <1>1, PassIs DEF Stands, Terminal
<1>3. s \in Rows /\ Sound(s) /\ Grown(r, s) /\ s.status = "WAITING_APPROVAL" /\ Len(r.steps) <= Len(s.steps)
  BY <1>1, <1>2, SoundRequest
<1> HIDE DEF s
<1> QED
  BY <1>1, <1>3, NodeEnters

\* The child that a SUBFLOW node starts, or finds.
LEMMA SubflowParks ==
  ASSUME NEW r \in Rows, NEW c \in Execs
  PROVE Parked(r, "WAITING_SUBFLOW", c, Park(r, "WAITING_SUBFLOW", c))
<1>1. c \in 0 .. MaxExecs /\ "WAITING_SUBFLOW" \in Claimable
  BY LimitsAssumption DEF Execs, Claimable
<1> QED
  BY <1>1, ParkIs

LEMMA StartSubflowStep ==
  ASSUME IInv, NEW w \in Workers, StartSubflow(w)
  PROVE IInv'
<1> DEFINE t == tx[w]
           r == t.row
           n == r.node
           known == {c \in Execs : Exists(c) /\ run[c].key = <<t.e, n>>}
<1>1. Stands(w) /\ Kind[n] = "SUBFLOW"
  BY DEF StartSubflow, AtNode, Stands
<1>2. /\ t \in Passes /\ t.e \in Execs /\ r \in Rows /\ n \in Nodes /\ Passing(w) /\ r.status = "RUNNING" /\ Sound(r)
      /\ Grown(run[t.e], r) /\ run[t.e] \in Rows /\ Exists(t.e) /\ ~Ended(t.e) /\ t.verdict = "none"
      /\ r.flow \in Serial => Cleared(t.e)
  BY <1>1, PassIs, StandsIs DEF Stands
<1>3. known = Kids(t.e, n)
  BY DEF Kids
<1>4. CASE known # {}
  <2> DEFINE c == CHOOSE c \in known : TRUE
             s == Park(r, "WAITING_SUBFLOW", c)
  <2>1. c \in Kids(t.e, n) /\ c \in Execs /\ Becomes(w, s)
    BY <1>3, <1>4 DEF StartSubflow
  <2> HIDE DEF c
  <2>2. Parked(r, "WAITING_SUBFLOW", c, s)
    BY <1>2, <2>1, SubflowParks
  <2> HIDE DEF s
  <2>3. s \in Rows /\ Plain(r, s) /\ s.status = "WAITING_SUBFLOW" /\ s.node = n /\ Named(s) = c
        /\ s.log = Append(r.log, <<"waiting", n>>)
    BY <2>2 DEF Parked, Plain
  <2>4. Names(t.e, s) /\ Len(r.log) < Len(s.log)
    BY <1>2, <2>1, <2>3, RowType DEF Names
  <2> QED
    BY <1>1, <2>1, <2>3, <2>4, NodePlain
<1>5. CASE known = {}
  <2>1. PICK c \in Execs :
          /\ Fresh(c)
          /\ tx' = [tx EXCEPT ![w].row = Park(r, "WAITING_SUBFLOW", c), ![w].child = c,
                              ![w].born = NewRow(Target[n], <<t.e, n>>)]
          /\ UNCHANGED <<run, req, demand, faults>>
    BY <1>5 DEF StartSubflow
  <2> DEFINE s == Park(r, "WAITING_SUBFLOW", c)
             born == NewRow(Target[n], <<t.e, n>>)
             u == [t EXCEPT !.row = s, !.child = c, !.born = born]
  <2>2. tx' = [tx EXCEPT ![w] = u]
    BY <2>1
  <2>3. c # 0 /\ c \in 0 .. MaxExecs /\ run[c] = None /\ \A v \in Workers : Passing(v) => tx[v].child # c
    <3>1. ~Taken(c) /\ c # 0 /\ c \in 0 .. MaxExecs
      BY <2>1, LimitsAssumption DEF Fresh, Execs
    <3> QED
      BY <3>1 DEF Taken
  <2>4. Parked(r, "WAITING_SUBFLOW", c, s)
    BY <1>2, SubflowParks
  <2>5. Newborn(born) /\ born.key = <<t.e, n>>
    <3>1. Target[n] \in Flows /\ <<t.e, n>> \in (Execs \X Nodes) \cup {<<>>}
      BY <1>1, <1>2, GraphAssumption
    <3> QED
      BY <3>1, NewRowIs
  <2> HIDE DEF s, born
  <2>6. s \in Rows /\ Plain(r, s) /\ s.status = "WAITING_SUBFLOW" /\ s.node = n /\ Named(s) = c
        /\ s.log = Append(r.log, <<"waiting", n>>)
    BY <2>4 DEF Parked, Plain
  <2>7. Len(r.log) < Len(s.log) /\ Len(r.steps) <= Len(s.steps) /\ Len(r.steps) \in Nat /\ Len(s.steps) \in Nat
    BY <1>2, <2>6, RowType, SMTT(60) DEF Plain
  <2> HIDE DEF t
  <2>8. Fits(r, s) /\ Onward(r, s)
    BY <1>1, <1>2, <2>6, <2>7 DEF Fits, Onward, Terminal
  <2>9. Sound(s) /\ Grown(r, s)
    BY <1>2, <2>6, <2>8, SoundFits, GrownPlain
  <2>10. Grown(run[t.e], s)
    BY <1>2, <2>6, <2>9, GrownTrans
  <2>11. /\ u \in Passes /\ u.e = t.e /\ u.row = s /\ u.verdict = "none" /\ u.cursor = t.cursor /\ u.child = c
         /\ u.born = born
    BY <1>2, <2>3, <2>5, <2>6 DEF Passes, Newborn
  <2> HIDE DEF u
  <2>12. Bears(u)
    BY <1>3, <1>5, <2>3, <2>5, <2>6, <2>11 DEF Bears
  <2>13. u.cursor <= Len(s.steps)
    <3>1. t.cursor \in Nat /\ t.cursor <= Len(r.steps)
      BY <1>2, PassIs, PassType DEF Carried, t
    <3> QED
      BY <2>7, <2>11, <3>1
  <2>14. s.flow \in Serial => Cleared(t.e)
    BY <1>2, <2>6 DEF Plain
  <2>15. Carried(u)
    BY <1>2, <2>3, <2>6, <2>9, <2>10, <2>11, <2>12, <2>13, <2>14 DEF Carried
  <2> QED
    BY <1>2, <2>1, <2>2, <2>3, <2>11, <2>15, GoesOn DEF t
<1> QED
  BY <1>4, <1>5

-----------------------------------------------------------------------------
(* The end of a failed execution.                                          *)

\* The pass of a failed execution goes on with s, or has done.
LEMMA FailureEnters ==
  ASSUME IInv, NEW w \in Workers, Passing(w), tx[w].verdict # "none",
         NEW s \in Rows, Plain(tx[w].row, s), s.node = tx[w].row.node, s.steps = tx[w].row.steps,
         Len(tx[w].row.log) < Len(s.log),
         (s.status = tx[w].row.status /\ s.due = tx[w].row.due) \/ s.status \in {"FAILED", "DEAD_LETTER"},
         NEW verdict \in {"none", tx[w].verdict}, NEW cursor \in Nat, cursor <= Len(tx[w].row.steps),
         tx' = [tx EXCEPT ![w] = [tx[w] EXCEPT !.row = s, !.verdict = verdict, !.cursor = cursor]],
         UNCHANGED <<run, req, demand, faults>>
  PROVE IInv'
<1> DEFINE t == tx[w]
           r == t.row
           u == [t EXCEPT !.row = s, !.verdict = verdict, !.cursor = cursor]
<1>1. /\ t \in Passes /\ t.e \in Execs /\ r \in Rows /\ r.node \in Nodes /\ Sound(r) /\ Carried(t)
      /\ Grown(run[t.e], r) /\ run[t.e] \in Rows /\ Exists(t.e) /\ ~Ended(t.e)
  BY PassIs
<1>2. /\ ~DecidedTwice(r) => \A n \in Nodes : Approval(r, n) # "PENDING"
      /\ r.flow \in Serial /\ (r.status = "RUNNING" \/ r.steps # <<>>) => Cleared(t.e)
      /\ t.child = 0 /\ (r.status = "WAITING_SUBFLOW" => Names(t.e, r))
      /\ r.status # "CANCELLED"
  BY <1>1 DEF Carried, Bears
<1>3. /\ Plain(r, s) /\ s.node = r.node /\ s.steps = r.steps /\ Len(r.log) < Len(s.log)
      /\ (s.status = r.status /\ s.due = r.due) \/ s.status \in {"FAILED", "DEAD_LETTER"}
      /\ cursor <= Len(r.steps) /\ tx' = [tx EXCEPT ![w] = u]
  OBVIOUS
<1>4. verdict \in {"none", "FAILED", "DEAD_LETTER"}
  BY <1>1, PassType
<1> HIDE DEF t
<1>5. /\ u \in Passes /\ u.e = t.e /\ u.row = s /\ u.verdict = verdict /\ u.cursor = cursor /\ u.child = 0
  BY <1>1, <1>2, <1>4 DEF Passes
<1> HIDE DEF u
<1>6. (\A n \in Nodes : StepOf(s, n) = StepOf(r, n) /\ Approval(s, n) = Approval(r, n)) /\ Named(s) = Named(r)
  <2>1. \A n \in Nodes : StepOf(s, n) = StepOf(r, n) /\ Approval(s, n) = Approval(r, n)
    BY <1>3, SameSteps
  <2> QED
    BY <1>1, <1>3, <2>1 DEF Named
<1>7. Fits(r, s)
  BY <1>1, <1>2, <1>3, <1>6 DEF Fits, Sound, Open
<1>8. Onward(r, s)
  BY <1>3 DEF Onward, Terminal
<1>9. Sound(s) /\ Grown(r, s)
  BY <1>1, <1>7, <1>8, SoundFits, GrownPlain
<1>10. Grown(run[t.e], s)
  BY <1>1, <1>9, GrownTrans
<1>11. s.flow \in Serial /\ (s.status = "RUNNING" \/ s.steps # <<>>) => Cleared(t.e)
  BY <1>2, <1>3 DEF Plain
<1>12. s.status = "WAITING_SUBFLOW" => Names(t.e, s)
  BY <1>2, <1>3, <1>6 DEF Names
<1>13. ~DecidedTwice(s) => \A n \in Nodes : Approval(s, n) # "PENDING"
  BY <1>2, <1>3, <1>6 DEF Plain
<1>14. s.status # "CANCELLED"
  BY <1>2, <1>3
<1>15. Carried(u)
  BY <1>1, <1>3, <1>5, <1>9, <1>10, <1>11, <1>12, <1>13, <1>14 DEF Carried
<1> QED
  BY <1>2, <1>3, <1>5, <1>15, GoesOn DEF t

LEMMA UndoStep ==
  ASSUME IInv, NEW w \in Workers, Undo(w)
  PROVE IInv'
<1> DEFINE t == tx[w]
           r == t.row
<1>1. Passing(w) /\ t.verdict # "none" /\ UNCHANGED <<run, req, demand, faults>>
  BY DEF Undo
<1>2. PICK i \in ToUndo(t), what \in {"undone", "undo_failed"} :
        tx' = [tx EXCEPT ![w].row.log = Append(@, <<what, t.row.steps[i].node>>), ![w].cursor = i - 1]
  BY DEF Undo
<1> DEFINE x == <<what, r.steps[i].node>>
           s == [r EXCEPT !.log = Append(r.log, x)]
<1>3. t \in Passes /\ r \in Rows /\ t.cursor \in Nat /\ t.cursor <= Len(r.steps)
  BY <1>1, PassIs, PassType DEF Carried
<1>4. i \in 1 .. Len(r.steps) /\ r.steps \in Seq(Steps) /\ r.log \in Seq(Events \X Nodes) /\ Len(r.steps) \in Nat
  BY <1>3, RowType DEF ToUndo
<1>5. i - 1 \in Nat /\ i - 1 <= Len(r.steps)
  BY <1>4
<1>6. tx' = [tx EXCEPT ![w] = [t EXCEPT !.row = s, !.verdict = t.verdict, !.cursor = i - 1]]
  <2>1. [t EXCEPT !.row.log = Append(@, x), !.cursor = i - 1] = [t EXCEPT !.row = s, !.verdict = t.verdict, !.cursor = i - 1]
    BY <1>3 DEF Passes
  <2> QED
    BY <1>2, <2>1
<1> HIDE DEF t
<1>7. x \in Events \X Nodes /\ x[1] # "decided" /\ \A n \in Nodes : x # <<"decided", n>>
  <2>1. r.steps[i] \in Steps
    BY <1>4
  <2> QED
    BY <2>1 DEF Steps, Events
<1> HIDE DEF x
<1>8. Append(r.log, x) \in Seq(Events \X Nodes)
  BY <1>4, <1>7
<1>9. /\ s \in Rows /\ s.log = Append(r.log, x) /\ s.steps = r.steps /\ s.node = r.node /\ s.status = r.status
      /\ s.due = r.due /\ s.flow = r.flow /\ s.key = r.key /\ s.revived = r.revived
  BY <1>3, <1>8 DEF Rows
<1> HIDE DEF s
<1>10. \A n \in Nodes : StepOf(s, n) = StepOf(r, n) /\ Approval(s, n) = Approval(r, n)
  BY <1>9, SameSteps
<1>11. /\ Len(s.log) = Len(r.log) + 1
       /\ \A n \in Nodes : Decided(r, n) => Decided(s, n)
       /\ \A n \in Nodes : Decided(s, n) => Decided(r, n)
       /\ DecidedTwice(r) => DecidedTwice(s)
       /\ DecidedTwice(s) => DecidedTwice(r)
  BY <1>3, <1>7, <1>9, Appended
<1>12. Len(r.log) < Len(s.log) /\ Plain(r, s)
  BY <1>3, <1>9, <1>10, <1>11, RowType DEF Plain
<1> QED
  BY <1>1, <1>5, <1>6, <1>9, <1>12, FailureEnters DEF t

LEMMA FinishFailureStep ==
  ASSUME IInv, NEW w \in Workers, FinishFailure(w)
  PROVE IInv'
<1> DEFINE t == tx[w]
           r == t.row
           s == [Note(r, "failed") EXCEPT !.status = t.verdict]
<1>1. Passing(w) /\ t.verdict # "none" /\ UNCHANGED <<run, req, demand, faults>>
  BY DEF FinishFailure
<1>2. tx' = [tx EXCEPT ![w].row = s, ![w].verdict = "none"]
  BY DEF FinishFailure
<1>3. /\ t \in Passes /\ r \in Rows /\ t.cursor \in Nat /\ t.cursor <= Len(r.steps)
      /\ t.verdict \in {"FAILED", "DEAD_LETTER"}
  BY <1>1, PassIs, PassType DEF Carried
<1>4. tx' = [tx EXCEPT ![w] = [t EXCEPT !.row = s, !.verdict = "none", !.cursor = t.cursor]]
  <2> HIDE DEF s
  <2>1. [t EXCEPT !.row = s, !.verdict = "none"] = [t EXCEPT !.row = s, !.verdict = "none", !.cursor = t.cursor]
    BY <1>3 DEF Passes
  <2> QED
    BY <1>2, <2>1
<1> HIDE DEF t
<1>5. "failed" \in Events \ {"decided"} /\ "failed" \in Events
  BY DEF Events
<1>6. Plain(r, r)
  BY <1>3, PlainPlace
<1> DEFINE due == Note(r, "failed").due
<1>7. s = [Note(r, "failed") EXCEPT !.status = t.verdict, !.due = due] /\ due \in BOOLEAN
  BY <1>3, <1>5, NoteIs DEF Rows
<1> HIDE DEF due, s
<1>8. Marked(r, r, "failed", t.verdict, s)
  <2>1. PICK status \in {"SUCCEEDED", "RETRY", "FAILED", "DEAD_LETTER"} : status = t.verdict
    BY <1>3
  <2>2. Marked(r, r, "failed", status, [Note(r, "failed") EXCEPT !.status = status, !.due = due])
    BY <1>3, <1>5, <1>6, <1>7, PlainNoted
  <2>3. s = [Note(r, "failed") EXCEPT !.status = status, !.due = due]
    BY <1>7, <2>1
  <2> QED
    BY <2>1, <2>2, <2>3
<1>9. s \in Rows /\ Plain(r, s) /\ s.status = t.verdict /\ s.node = r.node /\ s.steps = r.steps /\ Len(r.log) < Len(s.log)
  BY <1>3, <1>8, RowType DEF Marked
<1> QED
  BY <1>1, <1>3, <1>4, <1>9, FailureEnters DEF t

-----------------------------------------------------------------------------
(* Steps that end passes and requests, or are neither.                     *)

\* What is known of an execution.
LEMMA RowIs ==
  ASSUME IInv, NEW e \in Execs, Exists(e)
  PROVE /\ run[e] \in Rows /\ Sound(run[e]) /\ run[e].status \notin {"RUNNING", "COMPENSATING"} /\ run[e].node \in Nodes
        /\ run[e].status = "WAITING_SUBFLOW" => Names(e, run[e])
        /\ run[e].flow \in Serial /\ run[e].steps # <<>> => Cleared(e)
<1>1. run[e] \in Rows /\ Settles(e)
  BY Types DEF IInv
<1>2. run[e].node \in Nodes
  BY <1>1, RowType
<1> QED
  BY <1>1, <1>2 DEF Settles

\* Neither a pass nor a request begins.
Subsides ==
  /\ tx' = tx \/ \E w \in Workers : tx' = [tx EXCEPT ![w] = None]
                                   \/ \E e \in Execs : tx' = [tx EXCEPT ![w] = [failed |-> e]]
  /\ req' = req \/ \E o \in Operators : req' = [req EXCEPT ![o] = None]
  /\ demand' \in [Flows -> Nat] /\ faults' \in 0 .. MaxFaults

LEMMA EndsRecede ==
  ASSUME TypeOK, Subsides
  PROVE /\ Recedes
        /\ tx' \in [Workers -> Passes \cup [failed : Execs] \cup {None}]
        /\ req' \in [Operators -> [decide : Execs, node : Nodes] \cup Cancellations \cup {None}]
<1>1. /\ tx' \in [Workers -> Passes \cup [failed : Execs] \cup {None}]
      /\ \A v \in Workers : tx'[v] = tx[v] \/ tx'[v] = None \/ \E e \in Execs : tx'[v] = [failed |-> e]
  BY DEF TypeOK, Subsides
<1>2. /\ req' \in [Operators -> [decide : Execs, node : Nodes] \cup Cancellations \cup {None}]
      /\ \A o \in Operators : req'[o] = req[o] \/ req'[o] = None
  BY DEF TypeOK, Subsides
<1>3. \A e \in Execs : "row" \notin DOMAIN [failed |-> e]
  OBVIOUS
<1>4. Recedes
  BY <1>1, <1>2, <1>3 DEF Recedes, Passing, Deciding, Cancelling
<1> QED
  BY <1>1, <1>2, <1>4

LEMMA EndStepKeeps ==
  ASSUME IInv, Subsides, Lawful
  PROVE IInv'
<1>1. TypeOK'
  BY EndsRecede DEF IInv, TypeOK, Lawful, Subsides
<1>2. Recedes
  BY EndsRecede DEF IInv
<1> QED
  BY <1>1, <1>2, RecedeStep

LEMMA FreeQuiet ==
  ASSUME NEW e \in Execs, Free(e)
  PROVE Quiet(e)
BY DEF Free, Quiet, Held

\* What a step may make of one execution.
Rewrites(e, s) ==
  /\ Sound(s) /\ Grown(run[e], s) /\ s.status \notin {"RUNNING", "COMPENSATING"}
  /\ s.flow \in Serial /\ s.steps # <<>> => Cleared(e)
  /\ s.status = "WAITING_SUBFLOW" =>
       run[e].status = "WAITING_SUBFLOW" /\ s.node = run[e].node /\ Named(s) = Named(run[e])

LEMMA WriteOne ==
  ASSUME IInv, Subsides, NEW e \in Execs, Exists(e), Free(e), NEW s \in Rows,
         run' = [run EXCEPT ![e] = s], Rewrites(e, s)
  PROVE IInv'
<1>1. run' \in [Execs -> Rows \cup {None, Purged}] /\ run'[e] = s /\ \A d \in Execs \ {e} : run'[d] = run[d]
  BY DEF IInv, TypeOK
<1>2. ASSUME s.status = "WAITING_SUBFLOW"
      PROVE \E c \in Execs : /\ Named(s) = c
                             /\ run'[c] \notin {None, Purged} /\ run'[c].key = <<e, s.node>>
  <2>1. PICK c \in Kids(e, run[e].node) : c = Named(run[e])
    BY <1>2, RowIs DEF Rewrites, Names
  <2>2. c \in Execs /\ Exists(c) /\ run[c].key = <<e, s.node>> /\ Named(s) = c
    BY <1>2, <2>1 DEF Kids, Rewrites
  <2>3. CASE c = e
    BY <1>1, <2>2, <2>3, NoneAssumption DEF Rewrites, Grown
  <2>4. CASE c # e
    BY <1>1, <2>2, <2>4 DEF Exists
  <2> QED
    BY <2>2, <2>3, <2>4
<1>3. Writes(e)
  BY <1>1, <1>2, FreeQuiet DEF Writes, Rewrites, Named
<1>4. Lawful
  BY <1>1, <1>3 DEF Lawful
<1> QED
  BY <1>4, EndStepKeeps

\* A row without steps has no approval.
LEMMA Stepless ==
  ASSUME NEW r \in Rows, NEW n \in Nodes, Approval(r, n) # "none"
  PROVE r.steps # <<>>
BY DEF Approval, StepOf, StepIndex

\* Cancelling an execution in this step leaves no child of it at work, unless it
\* has moved on since it was read.
Cascades ==
  \A e \in Execs :
    /\ Exists(e) /\ run[e].status = "WAITING_SUBFLOW"
    /\ run'[e] # Purged /\ run'[e].status = "CANCELLED" /\ Exists(ChildOf(e))
    => \/ run'[ChildOf(e)].status \in Terminal \/ run[ChildOf(e)].revived
       \/ run'[e].overtaken

\* A step that cancels nothing.
LEMMA NoneCancelled ==
  ASSUME IInv, run' = run \/ \E e \in Execs : \E s :
           run' = [run EXCEPT ![e] = s] /\ (s = Purged \/ s.status = run[e].status \/ s.status # "CANCELLED")
  PROVE Cascades
BY DEF Cascades, IInv, TypeOK

LEMMA BecomeDueStep ==
  ASSUME IInv, NEW e \in Execs, BecomeDue(e)
  PROVE IInv' /\ Cascades
<1> DEFINE r == run[e]
           p == [r EXCEPT !.due = TRUE]
           s == IF p.status = "WAITING_APPROVAL" THEN Lapsed(p, p.node) ELSE p
<1>1. Exists(e) /\ Free(e) /\ run' = [run EXCEPT ![e] = s] /\ UNCHANGED <<tx, req, demand, faults>>
  BY DEF BecomeDue
<1>2. r \in Rows /\ r.node \in Nodes /\ Sound(r) /\ r.status \notin {"RUNNING", "COMPENSATING"}
  BY <1>1, RowIs
<1>3. r.flow \in Serial /\ r.steps # <<>> => Cleared(e)
  BY <1>1, RowIs
<1> HIDE DEF r
<1>4. /\ p \in Rows /\ p.status = r.status /\ p.node = r.node /\ p.steps = r.steps /\ p.log = r.log /\ p.due
      /\ p.flow = r.flow /\ p.key = r.key /\ p.revived = r.revived /\ p.overtaken = r.overtaken
  BY <1>2 DEF Rows
<1> HIDE DEF p
<1>5. Plain(r, p)
  BY <1>2, <1>4, PlainPlace
<1>6. /\ s \in Rows /\ s.status = r.status /\ s.node = r.node /\ Plain(r, s) /\ s.revived = r.revived /\ s.flow = r.flow
      /\ s.overtaken = r.overtaken
      /\ s.status = "WAITING_APPROVAL" => StepOf(s, s.node).lapsed
      /\ s.status # "WAITING_APPROVAL" => s.steps = r.steps
  <2>1. CASE p.status = "WAITING_APPROVAL"
    <3> DEFINE l == Lapsed(p, p.node)
    <3>1. l = [p EXCEPT !.steps = l.steps] /\ Plain(p, l) /\ StepOf(l, p.node).lapsed
      BY <1>2, <1>4, LapsedIs
    <3> HIDE DEF l
    <3>2. l \in Rows /\ l.status = p.status /\ l.node = p.node /\ l.revived = p.revived /\ l.flow = p.flow
         /\ l.overtaken = p.overtaken
      BY <1>4, <3>1 DEF Plain, Rows
    <3>3. Plain(r, l)
      BY <1>2, <1>4, <1>5, <3>1, <3>2, PlainTrans
    <3>4. s = l
      BY <2>1 DEF l
    <3> HIDE DEF s
    <3> QED
      BY <1>4, <2>1, <3>1, <3>2, <3>3, <3>4
  <2>2. CASE p.status # "WAITING_APPROVAL"
    BY <1>4, <1>5, <2>2
  <2> QED
    BY <2>1, <2>2
<1> HIDE DEF s
<1>7. Fits(r, s)
  BY <1>2, <1>6 DEF Fits, Sound, Plain
<1>8. Onward(r, s)
  BY <1>6 DEF Onward
<1>9. Sound(s) /\ Grown(r, s)
  BY <1>2, <1>6, <1>7, <1>8, SoundFits, GrownPlain
<1>10. s.steps # <<>> => r.steps # <<>>
  <2>1. r.status = "WAITING_APPROVAL" => r.steps # <<>>
    BY <1>2, Stepless DEF Sound
  <2> QED
    BY <1>6, <2>1
<1>11. s.status = "WAITING_SUBFLOW" => Named(s) = Named(r)
  BY <1>2, <1>6, SameSteps DEF Named
<1>12. Rewrites(e, s)
  BY <1>2, <1>3, <1>6, <1>9, <1>10, <1>11 DEF Rewrites, r
<1>13. Subsides
  BY <1>1 DEF Subsides, IInv, TypeOK
<1>14. Cascades
  BY <1>1, <1>6, NoneCancelled DEF r
<1> QED
  BY <1>1, <1>6, <1>12, <1>13, <1>14, WriteOne

LEMMA LapseStep ==
  ASSUME IInv, NEW o \in Operators, Lapse(o)
  PROVE IInv' /\ Cascades
<1>0. PICK e \in Execs, n \in Nodes : e = req[o].decide /\ n = req[o].node
  BY Types DEF Lapse, IInv
<1> DEFINE r == run[e]
           s == Lapsed(r, n)
<1>1. /\ Exists(e) /\ Free(e) /\ run' = [run EXCEPT ![e] = s] /\ UNCHANGED <<tx, req, demand, faults>>
      /\ Approval(r, n) # "none"
  BY <1>0 DEF Lapse, IInv, Asked
<1>2. r \in Rows /\ r.node \in Nodes /\ Sound(r) /\ r.status \notin {"RUNNING", "COMPENSATING"}
  BY <1>1, RowIs
<1>3. r.flow \in Serial => Cleared(e)
  BY <1>1, <1>2, RowIs, Stepless
<1> HIDE DEF r
<1>4. /\ s = [r EXCEPT !.steps = s.steps] /\ Plain(r, s)
      /\ StepOf(s, n).child = StepOf(r, n).child
      /\ \A m \in Nodes : m # n => StepOf(s, m) = StepOf(r, m)
  BY <1>2, LapsedIs
<1> HIDE DEF s
<1>5. s \in Rows /\ s.node = r.node /\ s.status = r.status /\ s.due = r.due /\ s.revived = r.revived
      /\ s.overtaken = r.overtaken
  BY <1>2, <1>4 DEF Plain, Rows
<1>6. Named(s) = Named(r)
  BY <1>2, <1>4, <1>5 DEF Named
<1>7. Fits(r, s)
  BY <1>2, <1>4, <1>5 DEF Fits, Sound, Plain
<1>8. Sound(s)
  BY <1>2, <1>5, <1>7, SoundFits
<1>9. Grown(r, s)
  BY <1>4, <1>5, <1>6 DEF Plain, Grown
<1>10. Rewrites(e, s)
  BY <1>2, <1>3, <1>4, <1>5, <1>6, <1>8, <1>9 DEF Rewrites, Plain, r
<1>11. Subsides
  BY <1>1 DEF Subsides, IInv, TypeOK
<1>12. Cascades
  BY <1>1, <1>5, NoneCancelled DEF r
<1> QED
  BY <1>1, <1>5, <1>10, <1>11, <1>12, WriteOne

\* What a decision makes of the execution.
LEMMA DecideRewrites ==
  ASSUME IInv, NEW o \in Operators, NEW decision \in {"APPROVED", "REJECTED"}, Decide(o, decision),
         NEW e \in Execs, NEW n \in Nodes, e = req[o].decide, n = req[o].node
  PROVE \E s : run' = [run EXCEPT ![e] = s] /\ Decides(run[e], n, s)
<1> DEFINE r == run[e]
           outcome == IF decision = "APPROVED" THEN "approved" ELSE "rejected"
           back == r.revived \/ Ended(e)
           p == [SetApproval(r, n, decision) EXCEPT !.node = n]
           s == [MoveOn(p, outcome, "decided") EXCEPT !.status = "QUEUED", !.due = TRUE, !.revived = back]
<1>1. /\ Exists(e) /\ Free(e) /\ Approval(r, n) # "none" /\ ~StepOf(r, n).lapsed
  BY DEF Decide, IInv, Asked
<1>2. r \in Rows /\ Sound(r)
  BY <1>1, RowIs
<1>3. back \in BOOLEAN /\ (r.revived => back) /\ (r.status \in Terminal => back)
  BY <1>2 DEF Ended, Rows
<1>4. run' = [run EXCEPT ![e] = s]
  <2> DEFINE m == MoveOn(p, outcome, "decided")
  <2>1. run' = [run EXCEPT ![e] = [m EXCEPT !.status = "QUEUED", !.due = TRUE, !.revived = @ \/ Ended(e)]]
    BY DEF Decide
  <2>2. m.revived = r.revived /\ m \in Rows
    <3>1. Approves(r, n, decision, SetApproval(r, n, decision))
      BY <1>2, SetApprovalIs
    <3>2. p \in Rows /\ p.revived = r.revived /\ p.node = n
      <4> DEFINE q == SetApproval(r, n, decision)
      <4>1. q \in Rows /\ q = [r EXCEPT !.steps = q.steps]
        BY <3>1 DEF Approves
      <4> HIDE DEF q
      <4>2. q.revived = r.revived
        BY <1>2, <4>1 DEF Rows
      <4> QED
        BY <4>1, <4>2 DEF Rows, q
    <3> HIDE DEF p
    <3>3. outcome \in Outcomes[Kind[p.node]] /\ "decided" \in Events
      <4>1. Kind[n] = "APPROVAL"
        BY <1>1, <1>2 DEF Sound
      <4> QED
        BY <3>2, <4>1 DEF Outcomes, Events
    <3>4. MovedOn(p, outcome, "decided", m)
      BY <3>2, <3>3, MoveOnIs
    <3> QED
      BY <3>2, <3>4 DEF MovedOn
  <2> HIDE DEF m
  <2>3. [m EXCEPT !.status = "QUEUED", !.due = TRUE, !.revived = @ \/ Ended(e)]
        = [m EXCEPT !.status = "QUEUED", !.due = TRUE, !.revived = back]
    BY <2>2
  <2> QED
    BY <2>1, <2>3 DEF m
<1> HIDE DEF back
<1>5. outcome \in {"approved", "rejected"}
  OBVIOUS
<1> HIDE DEF outcome
<1>6. Decides(r, n, s)
  BY <1>1, <1>2, <1>3, <1>5, SoundDecide
<1> HIDE DEF s
<1> QED
  BY <1>4, <1>6

LEMMA DecideStep ==
  ASSUME IInv, NEW o \in Operators, NEW decision \in {"APPROVED", "REJECTED"}, Decide(o, decision)
  PROVE IInv' /\ Cascades
<1>0. PICK e \in Execs, n \in Nodes : e = req[o].decide /\ n = req[o].node
  BY Types DEF Decide, IInv
<1>1. /\ Exists(e) /\ Free(e) /\ Approval(run[e], n) # "none"
      /\ req' = [req EXCEPT ![o] = None] /\ UNCHANGED <<tx, demand, faults>>
  BY <1>0 DEF Decide, IInv, Asked
<1>2. run[e] \in Rows /\ (run[e].flow \in Serial => Cleared(e))
  BY <1>1, RowIs, Stepless
<1>3. PICK s : run' = [run EXCEPT ![e] = s] /\ Decides(run[e], n, s)
  BY <1>0, DecideRewrites
<1>4. s \in Rows /\ Sound(s) /\ Grown(run[e], s) /\ s.status = "QUEUED"
  BY <1>3 DEF Decides
<1>5. Rewrites(e, s)
  BY <1>2, <1>4 DEF Rewrites, Grown
<1>6. Subsides
  BY <1>1 DEF Subsides, IInv, TypeOK
<1>7. Cascades
  BY <1>3, <1>4, NoneCancelled
<1> QED
  BY <1>1, <1>3, <1>4, <1>5, <1>6, <1>7, WriteOne

LEMMA DecideLateStep ==
  ASSUME IInv, NEW o \in Operators, DecideLate(o)
  PROVE IInv' /\ Cascades
<1>0. PICK e \in Execs, n \in Nodes : e = req[o].decide /\ n = req[o].node
  BY Types DEF DecideLate, IInv
<1> DEFINE r == run[e]
           s == SetApproval(r, n, "EXPIRED")
<1>1. /\ Exists(e) /\ Free(e) /\ Approval(r, n) # "none" /\ StepOf(r, n).lapsed
      /\ run' = [run EXCEPT ![e] = s]
      /\ req' = [req EXCEPT ![o] = None] /\ UNCHANGED <<tx, demand, faults>>
  BY <1>0 DEF DecideLate, IInv, Asked
<1>2. r \in Rows /\ Sound(r) /\ r.status \notin {"RUNNING", "COMPENSATING"}
  BY <1>1, RowIs
<1>3. r.flow \in Serial => Cleared(e)
  BY <1>1, <1>2, RowIs, Stepless
<1>4. /\ s \in Rows /\ Sound(s) /\ Grown(r, s) /\ s.status = r.status /\ s.node = r.node
      /\ Named(s) = Named(r) /\ s.flow = r.flow
  BY <1>1, <1>2, SoundLate
<1> HIDE DEF s
<1>5. Rewrites(e, s)
  BY <1>2, <1>3, <1>4 DEF Rewrites
<1>6. Subsides
  BY <1>1 DEF Subsides, IInv, TypeOK
<1>7. Cascades
  BY <1>1, <1>4, NoneCancelled
<1> QED
  BY <1>1, <1>4, <1>5, <1>6, <1>7, WriteOne

\* What is read under the lock is the row itself.
LEMMA CopyIs ==
  ASSUME NEW r \in Rows
  PROVE CopyOf(r) \in Copies /\ CopyOf(r).node = r.node /\ CopyOf(r).seen = Len(r.log) /\ Since(r, CopyOf(r))
<1>1. Len(r.log) \in Nat /\ r.node \in Nodes
  BY RowType
<1>2. CopyOf(r) \in Copies /\ CopyOf(r).node = r.node /\ CopyOf(r).seen = Len(r.log) /\ CopyOf(r).pending = Pending(r)
  BY <1>1 DEF CopyOf, Copies, Pending
<1> QED
  BY <1>1, <1>2 DEF Since, Pending

LEMMA CancelOneStep ==
  ASSUME IInv, NEW e \in Execs, Cancel(e)
  PROVE IInv' /\ Cascades
<1> DEFINE r == run[e]
           s == Cancelled(r, CopyOf(r))
<1>1. Exists(e) /\ Free(e) /\ run' = [run EXCEPT ![e] = s] /\ UNCHANGED <<tx, req, demand, faults>>
      /\ run[e].status # "WAITING_SUBFLOW"
  BY DEF Cancel
<1>2. r \in Rows /\ Sound(r) /\ (r.flow \in Serial /\ r.steps # <<>> => Cleared(e))
  BY <1>1, RowIs
<1>3. /\ s \in Rows /\ Sound(s) /\ Grown(r, s) /\ s.status = "CANCELLED" /\ s.flow = r.flow
      /\ Len(s.steps) = Len(r.steps)
  BY <1>2, SoundCancel, CopyIs
<1> HIDE DEF s
<1>4. s.steps # <<>> => r.steps # <<>>
  BY <1>2, <1>3, RowType
<1>5. Rewrites(e, s)
  BY <1>2, <1>3, <1>4 DEF Rewrites
<1>6. Subsides
  BY <1>1 DEF Subsides, IInv, TypeOK
<1>7. Cascades
  BY <1>1 DEF Cascades, IInv, TypeOK
<1> QED
  BY <1>1, <1>3, <1>5, <1>6, <1>7, WriteOne

LEMMA RecordFailureStep ==
  ASSUME IInv, NEW w \in Workers, RecordFailure(w)
  PROVE IInv' /\ Cascades
<1>0. PICK e \in Execs : e = tx[w].failed
  BY Types DEF RecordFailure, IInv
<1>1. Free(e) /\ tx' = [tx EXCEPT ![w] = None] /\ UNCHANGED <<req, demand, faults>>
  BY <1>0 DEF RecordFailure
<1>2. Subsides
  BY <1>1 DEF Subsides, IInv, TypeOK
<1>3. CASE ~Exists(e)
  <2>1. run' = run
    BY <1>0, <1>3 DEF RecordFailure
  <2>2. Lawful
    BY <2>1 DEF Lawful, IInv, TypeOK
  <2> QED
    BY <1>2, <2>1, <2>2, EndStepKeeps, NoneCancelled
<1>4. CASE Exists(e)
  <2> DEFINE r == run[e]
             dead == r.tries + 1 >= MaxAttempts
             status == IF dead THEN "DEAD_LETTER" ELSE "RETRY"
             back == r.revived \/ (Ended(e) /\ ~dead)
             s == [r EXCEPT !.tries = r.tries + 1, !.due = FALSE, !.status = status, !.revived = back]
  <2>1. run' = [run EXCEPT ![e] = s]
    BY <1>0, <1>4 DEF RecordFailure, IInv, TypeOK
  <2>2. r \in Rows /\ Sound(r) /\ (r.flow \in Serial /\ r.steps # <<>> => Cleared(e))
    BY <1>4, RowIs
  <2>3. /\ r.tries + 1 \in Nat /\ status \in {"DEAD_LETTER", "RETRY"} /\ back \in BOOLEAN
        /\ r.revived => back
        /\ r.status \in Terminal /\ status \notin Terminal => back
    BY <2>2, RowType DEF Ended, Terminal, Rows
  <2> HIDE DEF status, back, r
  <2>4. /\ s \in Rows /\ s.status = status /\ s.revived = back /\ s.steps = r.steps /\ s.log = r.log
        /\ s.flow = r.flow /\ s.key = r.key /\ s.node = r.node
    BY <2>2, <2>3 DEF Rows, Terminal, Claimable
  <2> HIDE DEF s
  <2>5. Plain(r, s)
    BY <2>2, <2>3, <2>4, PlainPlace
  <2>6. Fits(r, s) /\ Onward(r, s)
    BY <2>3, <2>4, <2>5 DEF Fits, Onward, Open
  <2>7. Sound(s) /\ Grown(r, s)
    BY <2>2, <2>4, <2>6, SoundFits, GrownPlain
  <2>8. Rewrites(e, s)
    BY <2>2, <2>3, <2>4, <2>7 DEF Rewrites, r
  <2>9. Cascades
    BY <2>1, <2>3, <2>4, NoneCancelled
  <2> QED
    BY <1>1, <1>2, <1>4, <2>1, <2>4, <2>8, <2>9, WriteOne
<1> QED
  BY <1>3, <1>4

\* A pass is lost: nothing of it is left.
LEMMA LossStep ==
  ASSUME IInv, NEW w \in Workers, RollBack(w) \/ RequestTwice(w) \/ Crash(w)
  PROVE IInv' /\ Cascades
<1>1. run' = run /\ req' = req /\ demand' = demand
  BY DEF RollBack, RequestTwice, Crash
<1>2. faults' \in 0 .. MaxFaults
  BY LimitsAssumption DEF RollBack, RequestTwice, Crash, Fault, IInv, TypeOK
<1>3. tx' = [tx EXCEPT ![w] = None] \/ \E e \in Execs : tx' = [tx EXCEPT ![w] = [failed |-> e]]
  <2>1. Passing(w) => tx[w].e \in Execs
    BY PassIs
  <2> QED
    BY <2>1 DEF RollBack, RequestTwice, AtNode, Crash
<1>4. Subsides
  BY <1>1, <1>2, <1>3 DEF Subsides, IInv, TypeOK
<1>5. Lawful
  BY <1>1 DEF Lawful, IInv, TypeOK
<1> QED
  BY <1>1, <1>4, <1>5, EndStepKeeps, NoneCancelled

LEMMA PurgeStep ==
  ASSUME IInv, NEW e \in Execs, Purge(e)
  PROVE IInv' /\ Cascades
<1>1. run' \in [Execs -> Rows \cup {None, Purged}] /\ run'[e] = Purged /\ \A d \in Execs \ {e} : run'[d] = run[d]
  BY DEF Purge, IInv, TypeOK
<1>2. Purges(e)
  BY <1>1, FreeQuiet DEF Purge, Purges
<1>3. Lawful
  BY <1>1, <1>2 DEF Lawful
<1>4. Subsides
  BY DEF Purge, Subsides, IInv, TypeOK
<1>5. Cascades
  BY NoneCancelled DEF Purge
<1> QED
  BY <1>3, <1>4, <1>5, EndStepKeeps

LEMMA StartStep ==
  ASSUME IInv, NEW f \in Flows, Start(f)
  PROVE IInv' /\ Cascades
<1>1. PICK e \in Execs : Fresh(e) /\ run' = [run EXCEPT ![e] = NewRow(f, <<>>)]
  BY DEF Start
<1> DEFINE s == NewRow(f, <<>>)
<1>2. s \in Rows /\ Newborn(s) /\ Sound(s) /\ s.key = <<>>
  BY NewRowIs DEF Newborn
<1> HIDE DEF s
<1>3. \A d \in Execs : d >= e => ~Taken(d)
  BY <1>1 DEF Fresh
<1>4. e >= e /\ \A d \in Execs : d > e => d >= e
  BY LimitsAssumption DEF Execs
<1>5. run[e] = None /\ (\A v \in Workers : Passing(v) => tx[v].child # e) /\ \A d \in Execs : d > e => ~Exists(d)
  BY <1>3, <1>4 DEF Taken, Exists
<1>6. run' \in [Execs -> Rows \cup {None, Purged}] /\ run'[e] = s /\ \A d \in Execs \ {e} : run'[d] = run[d]
  BY <1>1, <1>2 DEF IInv, TypeOK, s
<1>7. Births(e)
  BY <1>2, <1>5, <1>6 DEF Births
<1>8. Lawful
  BY <1>6, <1>7 DEF Lawful
<1>9. Subsides
  BY DEF Start, Subsides, IInv, TypeOK
<1>10. Cascades
  BY <1>1, <1>2, NoneCancelled DEF Newborn, s
<1> QED
  BY <1>8, <1>9, <1>10, EndStepKeeps

LEMMA ReplayStep ==
  ASSUME IInv, NEW e \in Execs, Replay(e)
  PROVE IInv' /\ Cascades
<1>1. run[e].flow \in Flows
  BY Types, RowType DEF Replay, IInv
<1> QED
  BY <1>1, StartStep DEF Replay

\* An execution just created is sound.
LEMMA NewbornSound ==
  ASSUME NEW r, Newborn(r)
  PROVE r \in Rows /\ Sound(r) /\ r.status \notin {"RUNNING", "COMPENSATING"}
<1>1. r \in Rows /\ r.status \in {"QUEUED", "DROPPED"} /\ r.steps = <<>> /\ Len(r.log) = 1 /\ r.log[1][1] # "decided"
  BY DEF Newborn
<1>2. \A n \in Nodes : Approval(r, n) = "none"
  BY <1>1, Stepless
<1>3. \A n \in Nodes : ~Decided(r, n)
  <2>1. DOMAIN r.log = {1}
    BY <1>1, RowType
  <2> QED
    BY <1>1, <2>1 DEF Decided
<1> QED
  BY <1>1, <1>2, <1>3 DEF Sound, Place

LEMMA CommitStep ==
  ASSUME IInv, NEW w \in Workers, Commit(w)
  PROVE IInv' /\ Cascades
<1> DEFINE t == tx[w]
           e == t.e
           c == t.child
           s == t.row
<1>1. Passing(w) /\ Settled(t) /\ tx' = [tx EXCEPT ![w] = None] /\ UNCHANGED <<req, demand, faults>>
  BY DEF Commit
<1>2. /\ t \in Passes /\ Carried(t) /\ e \in Execs /\ Exists(e) /\ s \in Rows /\ Sound(s) /\ Grown(run[e], s)
      /\ s.node \in Nodes /\ run[e] \in Rows
  BY <1>1, PassIs
<1>3. t.verdict = "none" /\ s.status \notin {"RUNNING", "COMPENSATING"}
  BY <1>1 DEF Settled
<1>4. c \in 0 .. MaxExecs /\ (c = 0 => c \notin Execs) /\ (c # 0 => c \in Execs)
  BY <1>2, PassType, LimitsAssumption DEF Execs
<1>5. c # 0 => Bears(t) /\ c # e /\ Newborn(t.born) /\ t.born \in Rows
  BY <1>2 DEF Carried, Bears, Exists, Newborn
<1>6. /\ run' \in [Execs -> Rows \cup {None, Purged}]
      /\ run'[e] = s
      /\ c # 0 => run'[c] = t.born
      /\ \A d \in Execs : d # e /\ d # c => run'[d] = run[d]
  BY <1>1, <1>2, <1>4, <1>5 DEF Commit, IInv, TypeOK
<1>7. \A v \in Workers : Passing(v) /\ tx'[v] = tx[v] => v # w
  BY <1>1 DEF Passing, IInv, TypeOK
<1>8. Quiet(e)
  BY <1>1, <1>7 DEF Quiet, IInv, Locks, Held
<1>9. s.status = "WAITING_SUBFLOW" =>
        \E k \in Execs : Named(s) = k /\ run'[k] \notin {None, Purged} /\ run'[k].key = <<e, s.node>>
  <2> SUFFICES ASSUME s.status = "WAITING_SUBFLOW"
               PROVE \E k \in Execs : Named(s) = k /\ run'[k] \notin {None, Purged} /\ run'[k].key = <<e, s.node>>
    OBVIOUS
  <2>1. CASE c = 0
    <3>1. PICK k \in Kids(e, s.node) : k = Named(s)
      BY <1>2, <2>1 DEF Carried, Names
    <3>2. k \in Execs /\ Exists(k) /\ run[k].key = <<e, s.node>>
      BY DEF Kids
    <3>3. CASE k = e
      BY <1>2, <1>6, <3>1, <3>2, <3>3, NoneAssumption DEF Grown
    <3>4. CASE k # e
      BY <1>4, <1>6, <2>1, <3>1, <3>2, <3>4 DEF Exists
    <3> QED
      BY <3>3, <3>4
  <2>2. CASE c # 0
    BY <1>4, <1>5, <1>6, <2>2, NoneAssumption DEF Bears
  <2> QED
    BY <2>1, <2>2
<1>10. Writes(e)
  BY <1>2, <1>3, <1>6, <1>8, <1>9 DEF Writes, Carried, Named
<1>11. ASSUME c # 0 PROVE Births(c)
  <2>1. run'[c] = t.born /\ t.born \in Rows /\ Newborn(t.born) /\ Sound(t.born) /\ run[c] = None
        /\ t.born.key = <<e, s.node>> /\ Kids(e, s.node) = {}
    BY <1>5, <1>6, <1>11, NewbornSound DEF Bears
  <2>2. \A d \in Execs : Exists(d) => run[d].key # t.born.key
    BY <2>1 DEF Kids
  <2>3. \A d \in Execs : d # c => run[d] # None \/ run'[d] = None
    BY <1>2, <1>6 DEF Exists
  <2>4. ASSUME NEW v \in Workers, Passing(v), tx'[v] = tx[v]
        PROVE tx[v].child # c /\ t.born.key # <<tx[v].e, tx[v].row.node>>
    <3>1. v # w
      BY <1>7, <2>4
    <3>2. tx[v].e # e
      BY <1>1, <2>4, <3>1 DEF IInv, Locks
    <3>3. tx[v].child # c
      BY <1>1, <1>11, <2>4, <3>1 DEF IInv, Siblings
    <3> QED
      BY <2>1, <3>2, <3>3
  <2>5. t.born.key # <<>>
    BY <2>1
  <2> QED
    BY <2>1, <2>2, <2>3, <2>4, <2>5 DEF Births
<1>12. Lawful
  BY <1>4, <1>6, <1>10, <1>11 DEF Lawful
<1>13. Subsides
  BY <1>1 DEF Subsides, IInv, TypeOK
<1>14. Cascades
  <2> SUFFICES ASSUME NEW d \in Execs, Exists(d), run[d].status = "WAITING_SUBFLOW", run'[d].status = "CANCELLED"
               PROVE FALSE
    BY DEF Cascades
  <2>1. d # c
    BY <1>4, <1>5 DEF Bears, Exists
  <2> QED
    BY <1>2, <1>6, <2>1 DEF Carried
<1> QED
  BY <1>12, <1>13, <1>14, EndStepKeeps

LEMMA CommitCancelStep ==
  ASSUME IInv, NEW o \in Operators, CommitCancel(o)
  PROVE IInv' /\ Cascades
<1>0. PICK q \in Cancellations : q = req[o]
  BY Types DEF CommitCancel, AtStage, IInv
<1>1. /\ Cancelling(o) /\ q.stage = "approvals" /\ q.open = {}
      /\ req' = [req EXCEPT ![o] = None] /\ UNCHANGED <<tx, demand, faults>>
      /\ run' = [e \in Execs |-> CASE e = q.cancel -> Cancelled(run[e], CopyOf(run[e]))
                                   [] e \in Reached(q) \ {q.cancel} -> Cancelled(run[e], q.copy[e])
                                   [] OTHER -> run[e]]
  BY <1>0 DEF CommitCancel, AtStage
<1>2. Tracks(q) /\ q.cancel \in Execs /\ Reached(q) \subseteq Execs /\ \A c \in Reached(q) : q.copy[c] \in Copies
  BY <1>0, <1>1, RequestType DEF IInv, Holds
<1>3. ASSUME NEW e \in Held(q) PROVE Quiet(e)
  <2>1. \A p \in Operators : Cancelling(p) /\ req'[p] = req[p] => p # o /\ req[p].cancel \in Held(req[p])
    BY <1>1 DEF Cancelling, IInv, TypeOK, Held
  <2>2. \A p \in Operators : Cancelling(p) /\ p # o => e \notin Held(req[p])
    BY <1>0, <1>1, <1>3 DEF IInv, Locks
  <2>3. \A w \in Workers : Passing(w) => tx[w].e # e
    BY <1>0, <1>1, <1>3 DEF IInv, Locks
  <2> QED
    BY <2>1, <2>2, <2>3 DEF Quiet
<1> DEFINE all == Reached(q) \cup {q.cancel}
           read(e) == IF e = q.cancel THEN CopyOf(run[e]) ELSE q.copy[e]
<1>4. ASSUME NEW e \in all
      PROVE /\ e \in Execs /\ Exists(e) /\ run[e] \in Rows /\ Sound(run[e]) /\ Quiet(e)
            /\ run[e].flow \in Serial /\ run[e].steps # <<>> => Cleared(e)
            /\ read(e) \in Copies /\ Since(run[e], read(e)) /\ run'[e] = Cancelled(run[e], read(e))
  <2>1. e \in Execs /\ Exists(e) /\ e \in Held(q)
    BY <1>1, <1>2, <1>4 DEF Tracks, Held
  <2>2. run[e] \in Rows /\ Sound(run[e]) /\ (run[e].flow \in Serial /\ run[e].steps # <<>> => Cleared(e))
    BY <2>1, RowIs
  <2>3. CASE e = q.cancel
    BY <1>1, <1>3, <2>1, <2>2, <2>3, CopyIs
  <2>4. CASE e # q.cancel
    BY <1>1, <1>2, <1>3, <1>4, <2>1, <2>2, <2>4 DEF Tracks
  <2> QED
    BY <2>3, <2>4
<1>5. ASSUME NEW e \in all
      PROVE run'[e] \in Rows /\ Writes(e) /\ run'[e].status = "CANCELLED"
            /\ (run'[e].overtaken = (Len(run[e].log) # read(e).seen))
  <2>1. PICK x \in Copies : x = read(e)
    BY <1>4, <1>5
  <2> DEFINE r == run[e]
             s == Cancelled(r, x)
  <2>2. r \in Rows /\ Sound(r) /\ Since(r, x) /\ Exists(e) /\ Quiet(e) /\ run'[e] = s
        /\ (r.flow \in Serial /\ r.steps # <<>> => Cleared(e))
    BY <1>4, <1>5, <2>1
  <2>3. /\ s \in Rows /\ Sound(s) /\ Grown(r, s) /\ s.status = "CANCELLED" /\ s.flow = r.flow
        /\ Len(s.steps) = Len(r.steps) /\ s.overtaken = (Len(r.log) # x.seen)
    BY <2>2, SoundCancel
  <2> HIDE DEF s, read
  <2>4. s.steps # <<>> => r.steps # <<>>
    BY <2>2, <2>3, RowType
  <2> QED
    BY <2>1, <2>2, <2>3, <2>4 DEF Writes
<1>6. \A e \in Execs \ all : run'[e] = run[e]
  BY <1>1
<1>7. run' \in [Execs -> Rows \cup {None, Purged}]
  <2>1. \A e \in Execs : run'[e] \in Rows \cup {None, Purged}
    BY <1>5, <1>6 DEF IInv, TypeOK
  <2>2. run' = [e \in Execs |-> run'[e]]
    BY <1>1
  <2> QED
    BY <2>1, <2>2
<1>8. Lawful
  BY <1>5, <1>6, <1>7 DEF Lawful
<1>9. Subsides
  BY <1>1 DEF Subsides, IInv, TypeOK
<1>10. Cascades
  <2> SUFFICES ASSUME NEW e \in Execs, Exists(e), run[e].status = "WAITING_SUBFLOW", run'[e].status = "CANCELLED",
                      ~run'[e].overtaken
               PROVE run'[ChildOf(e)].status \in Terminal \/ run[ChildOf(e)].revived
    BY DEF Cascades
  <2>1. e \in all
    BY <1>6
  <2>2. PICK k \in Execs : k = ChildOf(e) /\ k = Named(run[e])
    BY RowIs DEF Names, Kids, Named, ChildOf
  <2>3. Safe(q, k)
    <3>1. CASE e = q.cancel
      BY <1>2, <2>2, <3>1 DEF Tracks
    <3>2. CASE e # q.cancel
      <4>1. Len(run[e].log) = q.copy[e].seen
        BY <1>5, <2>1, <3>2
      <4>2. Looked(q, e) /\ e \in Reached(q)
        BY <1>1, <2>1, <3>2, <4>1 DEF Looked
      <4> QED
        BY <1>2, <2>2, <4>2 DEF Tracks
    <3> QED
      BY <3>1, <3>2
  <2>4. k \in all => run'[k].status \in Terminal
    BY <1>5 DEF Terminal
  <2> QED
    BY <1>6, <2>2, <2>3, <2>4 DEF Safe, Ended
<1> QED
  BY <1>8, <1>9, <1>10, EndStepKeeps

-----------------------------------------------------------------------------
(* Requests that begin.                                                    *)

\* A request begins or goes on; what it locks was free.
Requests(o, q) ==
  /\ q \in [decide : Execs, node : Nodes] \cup Cancellations
  /\ req' = [req EXCEPT ![o] = q]
  /\ UNCHANGED <<run, tx, demand, faults>>
  /\ q \in Cancellations => \A e \in Held(q) : Free(e) \/ (Cancelling(o) /\ e \in Held(req[o]))

LEMMA RequestStep ==
  ASSUME IInv, NEW o \in Operators, NEW q, Requests(o, q), Asked(o)', Holds(o)'
  PROVE IInv'
<1>1. /\ req'[o] = q /\ \A p \in Operators \ {o} : req'[p] = req[p]
      /\ run' = run /\ tx' = tx /\ demand' = demand /\ faults' = faults
  BY DEF IInv, TypeOK, Requests
<1>2. TypeOK'
  BY <1>1 DEF IInv, TypeOK, Requests
<1>3. Lawful
  BY <1>1 DEF Lawful, IInv, TypeOK
<1>4. /\ OneKey' /\ \A e \in Execs : Settles(e)'
      /\ \A p \in Operators \ {o} : Asked(p)' /\ Holds(p)'
      /\ \A v \in Workers : Passing(v) => Carries(v)'
  BY <1>1, <1>3, Others
<1>5. /\ \A v \in Workers : Passing(v)' => Passing(v)
      /\ \A p \in Operators \ {o} : Cancelling(p)' => Cancelling(p)
  BY <1>1 DEF Passing, Cancelling
<1>6. ASSUME Cancelling(o)', NEW e \in Held(q)
      PROVE /\ \A v \in Workers : Passing(v) => tx[v].e # e
            /\ \A p \in Operators \ {o} : Cancelling(p) => e \notin Held(req[p])
  <2>1. q \in Cancellations
    BY <1>1, <1>6 DEF Cancelling, Requests
  <2>2. CASE Free(e)
    BY <2>2 DEF Free
  <2>3. CASE Cancelling(o) /\ e \in Held(req[o])
    BY <2>3 DEF IInv, Locks
  <2> QED
    BY <1>6, <2>1, <2>2, <2>3 DEF Requests
<1>7. Locks'
  <2>1. \A v, w \in Workers : Passing(v)' /\ Passing(w)' /\ tx'[v].e = tx'[w].e => v = w
    BY <1>1, <1>5 DEF IInv, Locks
  <2>2. ASSUME NEW w \in Workers, NEW p \in Operators, Passing(w)', Cancelling(p)'
        PROVE tx'[w].e \notin Held(req'[p])
    BY <1>1, <1>5, <1>6, <2>2 DEF IInv, Locks
  <2>3. ASSUME NEW p \in Operators, NEW r \in Operators, Cancelling(p)', Cancelling(r)',
               Held(req'[p]) \cap Held(req'[r]) # {}
        PROVE p = r
    <3>1. CASE p # o /\ r # o
      BY <1>1, <1>5, <2>3, <3>1 DEF IInv, Locks
    <3>2. CASE p = o \/ r = o
      BY <1>1, <1>5, <1>6, <2>3, <3>2
    <3> QED
      BY <3>1, <3>2
  <2>4. \A p \in Operators : Held(req[p])' = Held(req'[p])
    BY DEF Held, Reached
  <2> QED
    BY <2>1, <2>2, <2>3, <2>4 DEF Locks
<1>8. Siblings'
  BY <1>1, <1>5 DEF IInv, Siblings
<1>9. \A v \in Workers : Carries(v)'
  BY <1>4, <1>5 DEF Carries
<1> QED
  BY <1>1, <1>2, <1>4, <1>7, <1>8, <1>9 DEF IInv

LEMMA OpenApprovalStep ==
  ASSUME IInv, NEW o \in Operators, NEW e \in Execs, NEW n \in Nodes, OpenApproval(o, e, n)
  PROVE IInv'
<1> DEFINE q == [decide |-> e, node |-> n]
<1>1. q \in [decide : Execs, node : Nodes] /\ q.decide = e /\ q.node = n /\ "cancel" \notin DOMAIN q
  OBVIOUS
<1>2. Requests(o, q)
  BY DEF OpenApproval, Requests, Cancellations
<1>3. req'[o] = q /\ run' = run
  BY <1>2 DEF Requests, IInv, TypeOK
<1> HIDE DEF q
<1>4. ~Cancelling(o)'
  BY <1>1, <1>3 DEF Cancelling
<1>5. Asked(o)'
  BY <1>1, <1>3 DEF OpenApproval, Asked, Exists
<1> QED
  BY <1>2, <1>4, <1>5, RequestStep DEF Holds

\* The child that an execution waits for exists.
LEMMA ChildIs ==
  ASSUME IInv, NEW e \in Execs, Exists(e), run[e].status = "WAITING_SUBFLOW"
  PROVE Named(run[e]) \in Execs /\ Exists(Named(run[e])) /\ ChildOf(e) = Named(run[e])
<1>1. Names(e, run[e])
  BY RowIs
<1> QED
  BY <1>1 DEF Names, Kids, Named, ChildOf

\* A cancellation reads the row of c, if there is one: what it has read of other
\* executions stays, but it goes on at c, and has to find the child of the one it
\* was at, unless that has moved on.
LEMMA ReadRowTracks ==
  ASSUME IInv, NEW q \in Cancellations, NEW c, q.stage = "row",
         Exists(q.cancel), q.open \subseteq Reached(q),
         \A d \in Reached(q) : Exists(d) /\ Since(run[d], q.copy[d]),
         \A d \in Reached(q) : Looked(q, d) => Safe(q, Named(run[d])),
         \/ q.at = q.cancel /\ c = ChildOf(q.cancel)
         \/ run[q.cancel].status = "WAITING_SUBFLOW" => Safe(q, Named(run[q.cancel])),
         q.at \in Reached(q) => c = StepOf(run[q.at], q.copy[q.at].node).child
  PROVE /\ ReadRow(q, c) \in Cancellations /\ Tracks(ReadRow(q, c))
        /\ Held(ReadRow(q, c)) \subseteq Held(q)
<1> DEFINE s == ReadRow(q, c)
           new == c \in Execs /\ Exists(c) /\ ~Ended(c)
<1>1. /\ q.cancel \in Execs /\ q.open \subseteq Execs /\ q.at \in Execs /\ q.number \in Nat
      /\ Reached(q) \subseteq Execs /\ (\A d \in Reached(q) : q.copy[d] \in Copies)
      /\ q.copy \in [Execs -> Copies \cup {None}]
  BY RequestType
<1>2. new => run[c] \in Rows /\ CopyOf(run[c]) \in Copies /\ CopyOf(run[c]).seen = Len(run[c].log) /\ Since(run[c], CopyOf(run[c]))
             /\ CopyOf(run[c]) # None
  BY Types, CopyIs, NoneAssumption DEF IInv
<1>3. /\ s \in Cancellations /\ s.cancel = q.cancel
      /\ new => /\ s.copy = [q.copy EXCEPT ![c] = CopyOf(run[c])] /\ s.open = q.open \cup {c} /\ s.at = c
                /\ s.stage = IF run[c].status = "WAITING_SUBFLOW" THEN "row" ELSE "approvals"
      /\ ~new => s.copy = q.copy /\ s.open = q.open /\ s.at = q.at /\ s.stage = "approvals"
  <2>1. CASE new
    <3>1. s = [q EXCEPT !.copy = [q.copy EXCEPT ![c] = CopyOf(run[c])], !.open = q.open \cup {c}, !.at = c,
                        !.stage = IF run[c].status = "WAITING_SUBFLOW" THEN "row" ELSE "approvals"]
      BY <2>1 DEF ReadRow
    <3>2. [q.copy EXCEPT ![c] = CopyOf(run[c])] \in [Execs -> Copies \cup {None}]
      BY <1>1, <1>2, <2>1
    <3> DEFINE x == [q.copy EXCEPT ![c] = CopyOf(run[c])]
               y == q.open \cup {c}
               z == IF run[c].status = "WAITING_SUBFLOW" THEN "row" ELSE "approvals"
    <3>3. y \in SUBSET Execs /\ z \in {"row", "approvals", "number", "flush"} /\ c \in Execs
      BY <1>1, <2>1
    <3>4. s = [q EXCEPT !.copy = x, !.open = y, !.at = c, !.stage = z]
      BY <3>1
    <3> HIDE DEF x, y, z, s
    <3>5. s \in Cancellations /\ s.cancel = q.cancel /\ s.copy = x /\ s.open = y /\ s.at = c /\ s.stage = z
      BY <3>2, <3>3, <3>4 DEF Cancellations, x
    <3> QED
      BY <2>1, <3>5 DEF x, y, z
  <2>2. CASE ~new
    <3>1. s = [q EXCEPT !.stage = "approvals"]
      BY <2>2 DEF ReadRow
    <3> QED
      BY <2>2, <3>1 DEF Cancellations
  <2> QED
    BY <2>1, <2>2
<1> HIDE DEF s
<1>4. /\ Reached(q) \subseteq Reached(s) /\ Reached(s) \subseteq Reached(q) \cup {c}
      /\ new => c \in Reached(s)
      /\ ~new => Reached(s) = Reached(q)
  <2>1. CASE new
    BY <1>1, <1>2, <1>3, <2>1 DEF Reached
  <2>2. CASE ~new
    BY <1>3, <2>2 DEF Reached
  <2> QED
    BY <2>1, <2>2
<1>5. Held(s) \subseteq Held(q)
  BY <1>3, <1>4 DEF Held
<1>6. ASSUME NEW d \in Reached(s) PROVE Exists(d) /\ Since(run[d], s.copy[d]) /\ d \in Execs
  <2>1. CASE new /\ d = c
    BY <1>1, <1>2, <1>3, <2>1
  <2>2. CASE ~(new /\ d = c)
    <3>1. d \in Reached(q) /\ s.copy[d] = q.copy[d] /\ d \in Execs
      BY <1>1, <1>3, <1>4, <1>6, <2>2
    <3> QED
      BY <3>1
  <2> QED
    BY <2>1, <2>2
\* The child of the execution that the request was at is c.
<1>7. ASSUME NEW d \in Execs, Exists(d), run[d].status = "WAITING_SUBFLOW", c = Named(run[d])
      PROVE Safe(s, Named(run[d]))
  <2>1. c \in Execs /\ Exists(c)
    BY <1>7, ChildIs
  <2> QED
    BY <1>4, <1>7, <2>1 DEF Safe
<1>8. \A k : Safe(q, k) => Safe(s, k)
  BY <1>3, <1>4 DEF Safe
<1>9. run[s.cancel].status = "WAITING_SUBFLOW" => Safe(s, Named(run[s.cancel]))
  <2>1. CASE q.at = q.cancel /\ c = ChildOf(q.cancel)
    BY <1>1, <1>3, <1>7, <2>1, ChildIs
  <2>2. CASE run[q.cancel].status = "WAITING_SUBFLOW" => Safe(q, Named(run[q.cancel]))
    BY <1>3, <1>8, <2>2
  <2> QED
    BY <2>1, <2>2
<1>10. ASSUME NEW d \in Reached(s), Looked(s, d) PROVE Safe(s, Named(run[d]))
  <2>1. run[d].status = "WAITING_SUBFLOW" /\ Len(run[d].log) = s.copy[d].seen /\ (s.stage # "row" \/ d # s.at)
    BY <1>10 DEF Looked
  <2>2. ~(new /\ d = c)
    BY <1>3, <2>1
  <2>3. d \in Reached(q) /\ s.copy[d] = q.copy[d] /\ d \in Execs
    BY <1>1, <1>3, <1>4, <2>2
  <2>4. CASE d = q.at
    <3>1. run[d].node = q.copy[d].node
      BY <2>1, <2>3 DEF Since
    <3>2. c = Named(run[d])
      BY <2>3, <2>4, <3>1 DEF Named
    <3> QED
      BY <1>6, <1>7, <2>1, <2>3, <3>2
  <2>5. CASE d # q.at
    BY <1>8, <2>1, <2>3, <2>5 DEF Looked
  <2> QED
    BY <2>4, <2>5
<1>11. s.open \subseteq Reached(s)
  BY <1>3, <1>4
<1>12. Tracks(s)
  BY <1>3, <1>6, <1>9, <1>10, <1>11 DEF Tracks
<1> QED
  BY <1>3, <1>5, <1>12 DEF s

LEMMA GoesOnCancelling ==
  ASSUME IInv, NEW o \in Operators, NEW s \in Cancellations, Tracks(s),
         req' = [req EXCEPT ![o] = s], UNCHANGED <<run, tx, demand, faults>>,
         \A e \in Held(s) : Free(e) \/ (Cancelling(o) /\ e \in Held(req[o]))
  PROVE IInv' /\ Cascades
<1>1. Requests(o, s)
  BY DEF Requests
<1>2. req'[o] = s /\ run' = run
  BY DEF IInv, TypeOK
<1>3. ~Deciding(o)'
  BY <1>2 DEF Deciding, Cancellations
<1>4. Tracks(s)'
  BY <1>2 DEF Tracks, Reached, Since, Looked, Safe, Exists, Ended
<1>5. Holds(o)'
  BY <1>2, <1>4 DEF Holds
<1>6. Asked(o)'
  BY <1>3 DEF Asked
<1> QED
  BY <1>1, <1>2, <1>5, <1>6, RequestStep, NoneCancelled

LEMMA CancelTreeStep ==
  ASSUME IInv, NEW o \in Operators, NEW e \in Execs, CancelTree(o, e)
  PROVE IInv' /\ Cascades
<1> DEFINE q == [cancel |-> e, copy |-> [c \in Execs |-> None], open |-> {}, at |-> e,
                 stage |-> "row", number |-> 0]
           s == ReadRow(q, ChildOf(e))
<1>1. Exists(e) /\ Free(e) /\ req' = [req EXCEPT ![o] = s] /\ UNCHANGED <<run, tx, demand, faults>>
  BY DEF CancelTree
<1>2. /\ q \in Cancellations /\ q.cancel = e /\ q.open = {} /\ q.at = e /\ q.stage = "row"
      /\ Reached(q) = {} /\ Held(q) = {e}
  BY DEF Cancellations, Reached, Held
<1> HIDE DEF q
<1>3. s \in Cancellations /\ Tracks(s) /\ Held(s) \subseteq Held(q)
  BY <1>1, <1>2, ReadRowTracks
<1> HIDE DEF s
<1> QED
  BY <1>1, <1>2, <1>3, GoesOnCancelling

\* What is known of a cancellation.
LEMMA CancellingIs ==
  ASSUME IInv, NEW o \in Operators, Cancelling(o)
  PROVE req[o] \in Cancellations /\ Tracks(req[o])
<1>1. req[o] \in Cancellations
  BY Types DEF IInv
<1> QED
  BY <1>1 DEF IInv, Holds

LEMMA ReadChildStep ==
  ASSUME IInv, NEW o \in Operators, ReadChild(o)
  PROVE IInv' /\ Cascades
<1>1. PICK q \in Cancellations : q = req[o] /\ Tracks(q)
  BY CancellingIs DEF ReadChild, AtStage
<1> DEFINE c == StepOf(run[q.at], q.copy[q.at].node).child
           s == ReadRow(q, c)
<1>2. Cancelling(o) /\ q.stage = "row" /\ req' = [req EXCEPT ![o] = s] /\ UNCHANGED <<run, tx, demand, faults>>
  BY <1>1 DEF ReadChild, AtStage
<1>3. s \in Cancellations /\ Tracks(s) /\ Held(s) \subseteq Held(q)
  <2>1. /\ Exists(q.cancel) /\ q.open \subseteq Reached(q)
        /\ \A d \in Reached(q) : Exists(d) /\ Since(run[d], q.copy[d])
        /\ \A d \in Reached(q) : Looked(q, d) => Safe(q, Named(run[d]))
        /\ run[q.cancel].status = "WAITING_SUBFLOW" => Safe(q, Named(run[q.cancel]))
    BY <1>1 DEF Tracks
  <2>2. PICK k : k = c
    OBVIOUS
  <2>3. q.at \in Reached(q) => k = StepOf(run[q.at], q.copy[q.at].node).child
    BY <2>2
  <2> HIDE DEF c
  <2>4. ReadRow(q, k) \in Cancellations /\ Tracks(ReadRow(q, k)) /\ Held(ReadRow(q, k)) \subseteq Held(q)
    BY <1>2, <2>1, <2>3, ReadRowTracks
  <2> QED
    BY <2>2, <2>4
<1> HIDE DEF s
<1> QED
  BY <1>1, <1>2, <1>3, GoesOnCancelling

\* A cancellation that has done with reading rows keeps what it has found.
LEMMA TracksOn ==
  ASSUME NEW q \in Cancellations, NEW s \in Cancellations, Tracks(q),
         s.cancel = q.cancel, s.open \subseteq q.open, s.stage # "row", q.stage # "row",
         Reached(s) = Reached(q), s.stage = "approvals" \/ s.at \in s.open,
         \A d \in Reached(q) : Since(run[d], s.copy[d]) /\ s.copy[d].seen = q.copy[d].seen
  PROVE Tracks(s)
<1>1. \A k : Safe(q, k) => Safe(s, k)
  BY DEF Safe
<1>2. \A d \in Reached(q) : Looked(s, d) => Looked(q, d)
  BY DEF Looked
<1>3. s.stage \in {"number", "flush"} => s.at \in s.open
  OBVIOUS
<1> QED
  BY <1>1, <1>2, <1>3 DEF Tracks

LEMMA ReadApprovalsStep ==
  ASSUME IInv, NEW o \in Operators, ReadApprovals(o)
  PROVE IInv' /\ Cascades
<1>1. PICK q \in Cancellations : q = req[o] /\ Tracks(q)
  BY CancellingIs DEF ReadApprovals, AtStage
<1> DEFINE x == [q.copy[q.at] EXCEPT !.pending = Pending(run[q.at])]
           s == [q EXCEPT !.copy = [q.copy EXCEPT ![q.at] = x], !.stage = "number"]
<1>2. /\ Cancelling(o) /\ q.stage = "approvals" /\ q.at \in Reached(q) /\ q.at \in q.open
      /\ req' = [req EXCEPT ![o] = s] /\ UNCHANGED <<run, tx, demand, faults>>
  BY <1>1 DEF ReadApprovals, AtStage, Tracks
<1>3. /\ q.copy \in [Execs -> Copies \cup {None}] /\ q.at \in Execs /\ q.copy[q.at] \in Copies
      /\ Reached(q) \subseteq Execs
  BY <1>1, <1>2, RequestType
<1>4. x \in Copies /\ x.node = q.copy[q.at].node /\ x.seen = q.copy[q.at].seen /\ x.pending = Pending(run[q.at])
  BY <1>3 DEF Copies, Pending
<1>5. Since(run[q.at], x)
  <2>1. Since(run[q.at], q.copy[q.at])
    BY <1>1, <1>2 DEF Tracks
  <2> HIDE DEF x
  <2> QED
    BY <1>4, <2>1 DEF Since, Pending
<1> HIDE DEF x
<1> DEFINE y == [q.copy EXCEPT ![q.at] = x]
<1>6. y \in [Execs -> Copies \cup {None}] /\ y[q.at] = x /\ \A d \in Execs : d # q.at => y[d] = q.copy[d]
  BY <1>3, <1>4
<1> HIDE DEF y
<1>7. s = [q EXCEPT !.copy = y, !.stage = "number"]
  BY DEF y
<1> HIDE DEF s
<1>8. s \in Cancellations /\ s.copy = y /\ s.stage = "number" /\ s.cancel = q.cancel /\ s.open = q.open /\ s.at = q.at
  BY <1>6, <1>7 DEF Cancellations
<1>9. Reached(s) = Reached(q)
  BY <1>2, <1>3, <1>4, <1>6, <1>8, NoneAssumption DEF Reached
<1>10. \A d \in Reached(q) : Since(run[d], s.copy[d]) /\ s.copy[d].seen = q.copy[d].seen
  BY <1>1, <1>3, <1>4, <1>5, <1>6, <1>8 DEF Tracks
<1>11. Tracks(s) /\ Held(s) \subseteq Held(q)
  BY <1>1, <1>2, <1>8, <1>9, <1>10, TracksOn DEF Held
<1> QED
  BY <1>1, <1>2, <1>8, <1>11, GoesOnCancelling

LEMMA ReadNumberStep ==
  ASSUME IInv, NEW o \in Operators, ReadNumber(o)
  PROVE IInv' /\ Cascades
<1>1. PICK q \in Cancellations : q = req[o] /\ Tracks(q)
  BY CancellingIs DEF ReadNumber, AtStage
<1> DEFINE l == Len(run[q.at].log)
           s == [q EXCEPT !.number = l, !.stage = "flush"]
<1>2. /\ Cancelling(o) /\ q.stage = "number"
      /\ req' = [req EXCEPT ![o] = s] /\ UNCHANGED <<run, tx, demand, faults>>
  BY <1>1 DEF ReadNumber, AtStage
<1>3. l \in Nat
  <2>1. q.at \in Execs /\ Exists(q.at)
    BY <1>1, <1>2, RequestType DEF Tracks
  <2> QED
    BY <2>1, RowType DEF IInv, TypeOK, Exists
<1> HIDE DEF l
<1>4. /\ s \in Cancellations /\ s.copy = q.copy /\ s.stage = "flush" /\ s.cancel = q.cancel
      /\ s.open = q.open /\ s.at = q.at
  BY <1>3 DEF Cancellations
<1> HIDE DEF s
<1>5. Reached(s) = Reached(q)
  BY <1>4 DEF Reached
<1>6. \A d \in Reached(q) : Since(run[d], s.copy[d]) /\ s.copy[d].seen = q.copy[d].seen
  BY <1>1, <1>4 DEF Tracks
<1>7. s.at \in s.open
  BY <1>1, <1>2, <1>4 DEF Tracks
<1>8. Tracks(s) /\ Held(s) \subseteq Held(q)
  BY <1>1, <1>2, <1>4, <1>5, <1>6, <1>7, TracksOn DEF Held
<1> QED
  BY <1>1, <1>2, <1>4, <1>8, GoesOnCancelling

\* A request ends without having written anything.
LEMMA GivenUpStep ==
  ASSUME IInv, NEW o \in Operators, req' = [req EXCEPT ![o] = None],
         UNCHANGED <<run, tx, demand>>, faults' \in 0 .. MaxFaults
  PROVE IInv' /\ Cascades
<1>1. Subsides
  BY DEF Subsides, IInv, TypeOK
<1>2. Lawful
  BY DEF Lawful, IInv, TypeOK
<1> QED
  BY <1>1, <1>2, EndStepKeeps, NoneCancelled

LEMMA FlushCancelStep ==
  ASSUME IInv, NEW o \in Operators, FlushCancel(o)
  PROVE IInv' /\ Cascades
<1>1. PICK q \in Cancellations : q = req[o] /\ Tracks(q)
  BY CancellingIs DEF FlushCancel, AtStage
<1>2. Cancelling(o) /\ q.stage = "flush" /\ Free(q.at) /\ UNCHANGED <<run, tx, demand, faults>>
  BY <1>1 DEF FlushCancel, AtStage
<1>3. CASE req' = [req EXCEPT ![o] = None]
  <2>1. faults' \in 0 .. MaxFaults
    BY <1>2 DEF IInv, TypeOK
  <2> QED
    BY <1>2, <1>3, <2>1, GivenUpStep
<1>4. ASSUME NEW e \in Execs,
             req' = [req EXCEPT ![o] = [q EXCEPT !.open = @ \ {q.at}, !.at = e,
                                                 !.stage = "approvals", !.number = 0]]
      PROVE IInv' /\ Cascades
  <2> DEFINE s == [q EXCEPT !.open = q.open \ {q.at}, !.at = e, !.stage = "approvals", !.number = 0]
  <2>1. req' = [req EXCEPT ![o] = s]
    BY <1>4
  <2>2. /\ s \in Cancellations /\ s.copy = q.copy /\ s.stage = "approvals" /\ s.cancel = q.cancel
        /\ s.open = q.open \ {q.at}
    BY DEF Cancellations
  <2> HIDE DEF s
  <2>3. Reached(s) = Reached(q)
    BY <2>2 DEF Reached
  <2>4. \A d \in Reached(q) : Since(run[d], s.copy[d]) /\ s.copy[d].seen = q.copy[d].seen
    BY <1>1, <2>2 DEF Tracks
  <2>5. Tracks(s)
    BY <1>1, <1>2, <2>2, <2>3, <2>4, TracksOn
  <2>6. \A d \in Held(s) : d \in Held(q) \/ d = q.at
    BY <2>2, <2>3 DEF Held
  <2>7. \A d \in Held(s) : Free(d) \/ (Cancelling(o) /\ d \in Held(req[o]))
    BY <1>1, <1>2, <2>6
  <2> QED
    BY <1>2, <2>1, <2>2, <2>5, <2>7, GoesOnCancelling
<1>5. \/ req' = [req EXCEPT ![o] = None]
      \/ \E e \in Execs : req' = [req EXCEPT ![o] = [q EXCEPT !.open = @ \ {q.at}, !.at = e,
                                                            !.stage = "approvals", !.number = 0]]
  BY <1>1 DEF FlushCancel, AtStage
<1> QED
  BY <1>3, <1>4, <1>5

LEMMA AbandonCancelStep ==
  ASSUME IInv, NEW o \in Operators, AbandonCancel(o)
  PROVE IInv' /\ Cascades
<1>1. req' = [req EXCEPT ![o] = None] /\ UNCHANGED <<run, tx, demand>>
  BY DEF AbandonCancel
<1>2. faults' \in 0 .. MaxFaults
  BY LimitsAssumption DEF AbandonCancel, Fault, IInv, TypeOK
<1> QED
  BY <1>1, <1>2, GivenUpStep

LEMMA CancelStepKeeps ==
  ASSUME IInv, NEW o \in Operators, CancelStep(o)
  PROVE IInv' /\ Cascades
BY ReadChildStep, ReadApprovalsStep, ReadNumberStep, FlushCancelStep, CommitCancelStep, AbandonCancelStep
   DEF CancelStep

-----------------------------------------------------------------------------
(* The invariant.                                                          *)

LEMMA Starts ==
  ASSUME Init
  PROVE IInv
<1>1. TypeOK
  BY LimitsAssumption DEF Init, TypeOK
<1>2. (\A e \in Execs : ~Exists(e)) /\ (\A w \in Workers : ~Passing(w)) /\ \A o \in Operators : ~Cancelling(o) /\ ~Deciding(o)
  BY DEF Init, Exists, Passing, Cancelling, Deciding
<1>3. Locks /\ Siblings /\ OneKey
  BY <1>2 DEF Locks, Siblings, OneKey
<1>4. (\A e \in Execs : Settles(e)) /\ (\A w \in Workers : Carries(w)) /\ \A o \in Operators : Asked(o) /\ Holds(o)
  BY <1>2 DEF Settles, Carries, Asked, Holds
<1> QED
  BY <1>1, <1>3, <1>4 DEF IInv

\* The steps inside a pass leave the executions as they are.
LEMMA NodeStepKeeps ==
  ASSUME IInv, NEW w \in Workers, NodeStep(w)
  PROVE IInv' /\ Cascades
<1>1. CASE RequestTwice(w)
  BY <1>1, LossStep
<1>2. CASE ~RequestTwice(w)
  <2>1. IInv'
    BY <1>2, CompleteStep, EvaluateConditionStep, ActionSucceedsStep, ActionFailsStep, StartTimerStep,
       StartSubflowStep, SubflowUnavailableStep, RequestApprovalStep DEF NodeStep
  <2>2. run' = run
    BY <1>2 DEF NodeStep, Complete, EvaluateCondition, ActionSucceeds, ActionFails, StartTimer, StartSubflow,
                SubflowUnavailable, RequestApproval, Becomes, Fails
  <2> QED
    BY <2>1, <2>2, NoneCancelled
<1> QED
  BY <1>1, <1>2

LEMMA NextKeeps ==
  ASSUME IInv, [Next]_vars
  PROVE IInv' /\ Cascades
<1>1. CASE UNCHANGED vars
  <2>1. run' = run /\ Subsides
    BY <1>1 DEF vars, Subsides, IInv, TypeOK
  <2>2. Lawful
    BY <2>1 DEF Lawful, IInv, TypeOK
  <2> QED
    BY <2>1, <2>2, EndStepKeeps, NoneCancelled
<1>2. ASSUME NEW f \in Flows, Start(f) PROVE IInv' /\ Cascades
  BY <1>2, StartStep
<1>3. ASSUME NEW e \in Execs, Replay(e) \/ BecomeDue(e) \/ Cancel(e) \/ Purge(e) PROVE IInv' /\ Cascades
  BY <1>3, ReplayStep, BecomeDueStep, CancelOneStep, PurgeStep
<1>4. ASSUME NEW w \in Workers, NEW e \in Execs, ClaimStep(w, e) PROVE IInv' /\ Cascades
  <2>1. run' = run
    BY <1>4 DEF ClaimStep, Defer, Begin, ResumeTimer, ResumeApprovalTimeout, PollSubflow, ResumeSubflow, SubflowFails,
                SubflowTimesOut, Pass
  <2> QED
    BY <1>4, <2>1, ClaimStepKeeps, NoneCancelled
<1>5. ASSUME NEW w \in Workers, EndStep(w) PROVE IInv' /\ Cascades
  <2>1. CASE Undo(w) \/ FinishFailure(w)
    <3>1. run' = run
      BY <2>1 DEF Undo, FinishFailure
    <3> QED
      BY <2>1, <3>1, UndoStep, FinishFailureStep, NoneCancelled
  <2> QED
    BY <1>5, <2>1, CommitStep, RecordFailureStep DEF EndStep
<1>6. ASSUME NEW w \in Workers, RollBack(w) \/ Crash(w) PROVE IInv' /\ Cascades
  BY <1>6, LossStep
<1>7. ASSUME NEW o \in Operators, Request(o) PROVE IInv' /\ Cascades
  <2>1. CASE \E e \in Execs : CancelTree(o, e) \/ \E n \in Nodes : OpenApproval(o, e, n)
    <3>1. \A e \in Execs, n \in Nodes : OpenApproval(o, e, n) => run' = run
      BY DEF OpenApproval
    <3> QED
      BY <2>1, <3>1, CancelTreeStep, OpenApprovalStep, NoneCancelled
  <2> QED
    BY <1>7, <2>1, DecideStep, LapseStep, DecideLateStep, CancelStepKeeps DEF Request
<1> QED
  BY <1>1, <1>2, <1>3, <1>4, <1>5, <1>6, <1>7, NodeStepKeeps DEF Next

LEMMA Invariant == Spec => []IInv
<1>1. Init => IInv
  BY Starts
<1>2. IInv /\ [Next]_vars => IInv'
  BY NextKeeps
<1> QED
  BY <1>1, <1>2, PTL DEF Spec

-----------------------------------------------------------------------------
(* What follows from it.                                                   *)

\* Every variable keeps its type, whatever passes and requests do.
THEOREM TypeCorrect == Spec => []TypeOK
<1>1. IInv => TypeOK
  BY DEF IInv
<1> QED
  BY <1>1, Invariant, PTL

\* An approval that can still be decided is the one its execution waits for, or
\* would wait for again after failed passes: process_workflow_execution,
\* _resume_approval_timeout, decide_workflow_approval and
\* cancel_workflow_execution agree on it, as long as no approval has been decided
\* by two sessions.  A cancelled execution keeps one only when it moved on while
\* the cancellation of an execution above it was reading, without a lock.
THEOREM PendingAwaited == Spec => []PendingIsAwaited
<1>1. ASSUME IInv PROVE PendingIsAwaited
  <2> SUFFICES ASSUME NEW e \in Execs, NEW n \in Nodes, Exists(e), Approval(run[e], n) = "PENDING",
                      ~DecidedTwice(run[e])
               PROVE /\ \/ run[e].status \in {"WAITING_APPROVAL", "RETRY", "DEAD_LETTER"}
                        \/ run[e].status = "CANCELLED" /\ run[e].overtaken
                     /\ run[e].node = n /\ Kind[n] = "APPROVAL"
    BY DEF PendingIsAwaited
  <2>1. Sound(run[e]) /\ run[e].status # "RUNNING"
    BY <1>1, RowIs
  <2>2. Place(run[e], n) /\ Kind[n] = "APPROVAL"
    BY <2>1 DEF Sound
  <2> QED
    BY <2>1, <2>2 DEF Place, Open
<1>2. IInv => PendingIsAwaited
  BY <1>1
<1> QED
  BY <1>2, Invariant, PTL

\* Executions of a SERIALIZE flow do their work in the order in which they were
\* created, however many processes run the cycle: the check that
\* process_workflow_execution makes once for an execution holds until its end.
THEOREM SerialKept == Spec => []SerialOrder
<1>1. ASSUME IInv PROVE SerialOrder
  <2> SUFFICES ASSUME NEW d \in Execs, NEW e \in Execs, Exists(d), Exists(e), d < e, run[d].flow = run[e].flow,
                      run[d].flow \in Serial, run[d].key = <<>>, ~Ended(d), run[e].steps # <<>>
               PROVE run[d].revived
    BY DEF SerialOrder
  <2>1. Cleared(e)
    BY <1>1, RowIs
  <2> QED
    BY <2>1 DEF Cleared
<1>2. IInv => SerialOrder
  BY <1>1
<1> QED
  BY <1>2, Invariant, PTL

\* A SUBFLOW node has one child for ever, by the idempotency key that
\* process_workflow_execution gives it, and the step that waits names it.
THEOREM ChildIsOne == Spec => []OneChild
<1>1. ASSUME IInv PROVE OneChild
  <2> SUFFICES ASSUME NEW e \in Execs, NEW n \in Nodes
               PROVE /\ Cardinality(Kids(e, n)) <= 1
                     /\ Exists(e) /\ run[e].status = "WAITING_SUBFLOW" /\ run[e].node = n => Kids(e, n) = {ChildOf(e)}
    BY DEF OneChild, Kids
  <2>1. \A c, d \in Kids(e, n) : c = d
    <3>1. <<e, n>> # <<>>
      OBVIOUS
    <3> QED
      BY <1>1, <3>1 DEF IInv, OneKey, Kids
  <2>2. Cardinality(Kids(e, n)) <= 1
    <3>1. CASE Kids(e, n) = {}
      BY <3>1, FS_EmptySet
    <3>2. ASSUME NEW c \in Kids(e, n) PROVE Cardinality(Kids(e, n)) <= 1
      <4>1. Kids(e, n) = {c}
        BY <2>1, <3>2
      <4>2. Cardinality({c}) = 1
        BY FS_Singleton
      <4> QED
        BY <4>1, <4>2
    <3> QED
      BY <3>1, <3>2
  <2>3. ASSUME Exists(e), run[e].status = "WAITING_SUBFLOW", run[e].node = n PROVE Kids(e, n) = {ChildOf(e)}
    <3>1. ChildOf(e) \in Kids(e, n)
      BY <1>1, <2>3, RowIs DEF Names, Named, ChildOf
    <3> QED
      BY <2>1, <3>1
  <2> QED
    BY <2>2, <2>3
<1>2. IInv => OneChild
  BY <1>1
<1> QED
  BY <1>2, Invariant, PTL

\* A cancellation leaves no child at work below the execution it locks, nor below
\* one that is still as cancel_workflow_execution read it; what has moved on since
\* it was read, without a lock, may leave its own child at work.
THEOREM CancelsCascade == Spec => CancelCascades
<1>1. IInv /\ [Next]_vars => [Cascades]_vars
  BY NextKeeps
<1>2. Spec => [][Cascades]_vars
  BY <1>1, Invariant, PTL DEF Spec
<1> QED
  BY <1>2 DEF CancelCascades, Cascades

-----------------------------------------------------------------------------
(* The effects of actions and their compensation: a second invariant.      *)

\* The nodes with effects.
Acts == {m \in Nodes : Kind[m] = "ACTION"}

\* The nodes that can be reached from a node: the least set that is closed.
Ahead(n) ==
  {m \in Nodes : \A S \in SUBSET Nodes : After(n) \subseteq S /\ (\A k \in S : After(k) \subseteq S) => m \in S}

\* How often an effect can have been committed: one approval decided over and
\* over again sends the execution along the same way as often.
Cap(r) == IF DecidedTwice(r) THEN Decisions(r) ELSE 1

\* Effects go with steps, and what is still ahead has been done less often.
Tallied(r) ==
  \A n \in Acts :
    /\ Times(r, "done", n) <= Cap(r)
    /\ n \in {r.node} \cup Ahead(r.node) => Times(r, "done", n) < Cap(r)
    /\ StepOf(r, n).status = "SUCCEEDED" => Times(r, "done", n) > 0
    /\ ~DecidedTwice(r) /\ Times(r, "done", n) > 0 => StepOf(r, n).status = "SUCCEEDED"

\* An event of the log is the effect of a step.
Commits(r, a, i) == r.steps[i].node \in Acts /\ r.log[a] = <<"done", r.steps[i].node>>

\* Unless an approval was decided twice, each node has one step at most, the
\* current node the last one and what is ahead none, and effects have been
\* committed in the order of the steps.
Ranked(r) ==
  ~DecidedTwice(r) =>
    /\ \A i, j \in 1 .. Len(r.steps) : r.steps[i].node = r.steps[j].node => i = j
    /\ \A i \in 1 .. Len(r.steps) :
         /\ r.steps[i].node = r.node => i = Len(r.steps)
         /\ r.steps[i].node \notin Ahead(r.node)
    /\ \A i, j \in 1 .. Len(r.steps), a, b \in 1 .. Len(r.log) :
         i < j /\ Commits(r, a, i) /\ Commits(r, b, j) => a < b

\* Of these executions CompensationReverses speaks, once they have failed.
Judged(r) == ~r.revived /\ ~DecidedTwice(r) /\ r.flow \in Compensating

Reverts(x) == x[1] \in {"undone", "undo_failed"}

\* An execution that ends or has ended: only such a one compensates.
Closing == Terminal \cup {"COMPENSATING"}

\* Nothing is compensated before the execution fails, and then everything.
Told(r) ==
  Judged(r) =>
    /\ r.status \notin Closing => \A k \in 1 .. Len(r.log) : ~Reverts(r.log[k])
    /\ r.log[Len(r.log)][1] = "failed" => Reversed(r.log)

Worked(r) == Tallied(r) /\ Ranked(r) /\ Told(r)

\* (Also of what a pass has not committed yet.)
Works ==
  /\ \A e \in Execs : Exists(e) => Worked(run[e])
  /\ \A w \in Workers : Passing(w) => Worked(tx[w].row)

\* In a pass that compensates: the steps it is done with, and that an event of
\* the log takes back what a step did.
Handled(t) ==
  {i \in (t.cursor + 1) .. Len(t.row.steps) :
     t.row.steps[i].status = "SUCCEEDED" /\ t.row.steps[i].node \in Undoable}

TakesBack(r, k, i) == Reverts(r.log[k]) /\ r.log[k][2] = r.steps[i].node

\* Those steps, and no others, have been undone, after all effects and with the
\* last step first.
Unwinding(t) ==
  LET r == t.row
  IN Judged(r) =>
       /\ r.status = "COMPENSATING"
       /\ \A k \in 1 .. Len(r.log) : Reverts(r.log[k]) => \E i \in Handled(t) : r.log[k][2] = r.steps[i].node
       /\ \A i \in Handled(t) : \E k \in 1 .. Len(r.log) : TakesBack(r, k, i)
       /\ \A a, k \in 1 .. Len(r.log) : r.log[a][1] = "done" /\ Reverts(r.log[k]) => a < k
       /\ \A i, j \in Handled(t), k, l \in 1 .. Len(r.log) :
            TakesBack(r, k, i) /\ TakesBack(r, l, j) /\ i <= j => l <= k

Unwinds == \A w \in Workers : Passing(w) /\ tx[w].verdict # "none" => Unwinding(tx[w])

\* What can be reached from the next node can be reached, and a node is not
\* reached again.
LEMMA AheadIs ==
  ASSUME NEW n \in Nodes, NEW m \in After(n)
  PROVE m \in Ahead(n) /\ Ahead(m) \subseteq Ahead(n)
<1>1. \A k \in Nodes : After(k) \subseteq Nodes
  BY GraphAssumption
<1>2. ASSUME NEW S \in SUBSET Nodes, After(n) \subseteq S, \A k \in S : After(k) \subseteq S
      PROVE m \in S /\ After(m) \subseteq S
  BY <1>2
<1> QED
  BY <1>1, <1>2 DEF Ahead

LEMMA NoReturn ==
  ASSUME NEW n \in Nodes
  PROVE n \notin Ahead(n)
<1> SUFFICES ASSUME n \in Ahead(n) PROVE FALSE
  OBVIOUS
<1>1. \A k \in Nodes : After(k) \subseteq Nodes /\ After(k) \subseteq Ahead(k)
  BY GraphAssumption, AheadIs
\* What is ahead of k is next, or ahead of what is next.
<1>2. ASSUME NEW k \in Nodes PROVE \A m \in Ahead(k) : m \in After(k) \/ \E j \in After(k) : m \in Ahead(j)
  <2> DEFINE S == After(k) \cup {m \in Nodes : \E j \in After(k) : m \in Ahead(j)}
  <2>1. S \subseteq Nodes /\ After(k) \subseteq S
    BY <1>1
  <2>2. ASSUME NEW m \in S PROVE After(m) \subseteq S
    <3>1. CASE m \in After(k)
      BY <1>1, <3>1
    <3>2. ASSUME NEW j \in After(k), m \in Ahead(j) PROVE After(m) \subseteq S
      <4>1. j \in Nodes /\ m \in Nodes
        BY <1>1, <3>2 DEF Ahead
      <4>2. After(m) \subseteq Ahead(j)
        <5>1. ASSUME NEW T \in SUBSET Nodes, After(j) \subseteq T, \A i \in T : After(i) \subseteq T
              PROVE After(m) \subseteq T
          BY <3>2, <5>1 DEF Ahead
        <5> QED
          BY <1>1, <4>1, <5>1 DEF Ahead
      <4> QED
        BY <1>1, <4>1, <4>2
    <3> QED
      BY <2>2, <3>1, <3>2
  <2>3. Ahead(k) \subseteq S
    BY <2>1, <2>2 DEF Ahead
  <2> QED
    BY <2>3
<1> DEFINE S == {k \in Nodes : n \in Ahead(k) /\ (k = n \/ k \in Ahead(n))}
<1>3. S \in SUBSET Nodes /\ S # {}
  OBVIOUS
<1>4. PICK k \in S : After(k) \cap S = {}
  <2>1. \A T \in SUBSET Nodes \ {{}} : \E i \in T : After(i) \cap T = {}
    BY GraphAssumption
  <2> HIDE DEF S
  <2> QED
    BY <1>3, <2>1
<1>5. PICK j \in After(k) : j = n \/ n \in Ahead(j)
  BY <1>2, <1>4
<1>6. j \in Nodes /\ j \in Ahead(k) /\ Ahead(j) \subseteq Ahead(k)
  BY <1>1, <1>4, AheadIs
<1>7. j \in Ahead(n)
  <2>1. CASE k = n
    BY <1>6, <2>1
  <2>2. CASE k \in Ahead(n)
    <3>1. ASSUME NEW T \in SUBSET Nodes, After(n) \subseteq T, \A i \in T : After(i) \subseteq T PROVE j \in T
      BY <2>2, <3>1 DEF Ahead
    <3> QED
      BY <1>6, <3>1 DEF Ahead
  <2> QED
    BY <1>4, <2>1, <2>2
<1> QED
  BY <1>4, <1>5, <1>6, <1>7

\* Numbers of events.
LEMMA CountOne ==
  ASSUME NEW k \in Nat, NEW T \in SUBSET (1 .. k)
  PROVE /\ IsFiniteSet(T) /\ Cardinality(T) \in Nat
        /\ Cardinality(T \cup {k + 1}) = Cardinality(T) + 1
        /\ T # {} => Cardinality(T) > 0
<1>1. IsFiniteSet(1 .. k)
  BY FS_Interval
<1>2. IsFiniteSet(T)
  BY <1>1, FS_Subset
<1>3. Cardinality(T) \in Nat
  BY <1>2, FS_CardinalityType
<1>4. k + 1 \notin T
  OBVIOUS
<1>5. Cardinality(T \cup {k + 1}) = Cardinality(T) + 1
  BY <1>2, <1>4, FS_AddElement
<1>6. T # {} => Cardinality(T) > 0
  BY <1>2, <1>3, FS_EmptySet
<1> QED
  BY <1>2, <1>3, <1>5, <1>6

LEMMA TimesType ==
  ASSUME NEW r \in Rows, NEW n \in Nodes
  PROVE Times(r, "done", n) \in Nat /\ Decisions(r) \in Nat
<1>1. Len(r.log) \in Nat /\ DOMAIN r.log = 1 .. Len(r.log)
  BY RowType
<1> QED
  BY <1>1, CountOne DEF Times, Decisions

\* What an appended event adds.
LEMMA Counted ==
  ASSUME NEW r \in Rows, NEW s \in Rows, NEW x \in Events \X Nodes, s.log = Append(r.log, x)
  PROVE /\ \A n \in Nodes : x = <<"done", n>> => Times(s, "done", n) = Times(r, "done", n) + 1
        /\ \A n \in Nodes : x # <<"done", n>> => Times(s, "done", n) = Times(r, "done", n)
        /\ x[1] = "decided" => Decisions(s) = Decisions(r) + 1
        /\ x[1] # "decided" => Decisions(s) = Decisions(r)
        /\ DecidedTwice(s) => DecidedTwice(r) \/ Decisions(r) >= 1
<1> DEFINE k == Len(r.log)
<1>1. r.log \in Seq(Events \X Nodes) /\ k \in Nat
  BY RowType
<1>2. Len(s.log) = k + 1 /\ s.log[k + 1] = x /\ \A i \in 1 .. k : s.log[i] = r.log[i]
  BY <1>1
<1>3. DOMAIN r.log = 1 .. k /\ DOMAIN s.log = 1 .. (k + 1)
  BY <1>1, <1>2, RowType
<1> HIDE DEF k
<1>4. ASSUME NEW n \in Nodes
      PROVE /\ x = <<"done", n>> => Times(s, "done", n) = Times(r, "done", n) + 1
            /\ x # <<"done", n>> => Times(s, "done", n) = Times(r, "done", n)
  <2> DEFINE T == {i \in 1 .. k : r.log[i] = <<"done", n>>}
             U == {i \in 1 .. (k + 1) : s.log[i] = <<"done", n>>}
  <2>1. Times(r, "done", n) = Cardinality(T) /\ Times(s, "done", n) = Cardinality(U)
    BY <1>3 DEF Times
  <2>2. (x = <<"done", n>> => U = T \cup {k + 1}) /\ (x # <<"done", n>> => U = T)
    BY <1>1, <1>2
  <2>3. T \in SUBSET (1 .. k)
    OBVIOUS
  <2> HIDE DEF T, U
  <2> QED
    BY <1>1, <2>1, <2>2, <2>3, CountOne
<1> DEFINE T == {i \in 1 .. k : r.log[i][1] = "decided"}
           U == {i \in 1 .. (k + 1) : s.log[i][1] = "decided"}
<1>5. Decisions(r) = Cardinality(T) /\ Decisions(s) = Cardinality(U)
  BY <1>3 DEF Decisions
<1>6. (x[1] = "decided" => U = T \cup {k + 1}) /\ (x[1] # "decided" => U = T)
  BY <1>1, <1>2
<1>7. T \in SUBSET (1 .. k)
  OBVIOUS
<1>8. DecidedTwice(s) => T # {}
  <2> SUFFICES ASSUME NEW i \in 1 .. (k + 1), NEW j \in 1 .. (k + 1), s.log[i][1] = "decided", i < j
               PROVE T # {}
    BY <1>3 DEF DecidedTwice
  <2>1. i \in 1 .. k
    BY <1>1
  <2> QED
    BY <1>2, <2>1
<1> HIDE DEF T, U
<1>9. Cardinality(T) \in Nat /\ (T # {} => Cardinality(T) > 0) /\ Cardinality(T \cup {k + 1}) = Cardinality(T) + 1
  BY <1>1, <1>7, CountOne
<1>10. /\ x[1] = "decided" => Decisions(s) = Decisions(r) + 1
       /\ x[1] # "decided" => Decisions(s) = Decisions(r)
  BY <1>5, <1>6, <1>9
<1>11. DecidedTwice(s) => Decisions(r) >= 1
  BY <1>5, <1>8, <1>9
<1> QED
  BY <1>4, <1>10, <1>11

\* The events that count: effects, decisions, compensations and the failure.
Marks == {"done", "decided", "undone", "undo_failed", "failed"}

\* A change that commits or undoes no effect, decides nothing, does not fail and
\* goes one node on at most.
Idle(r, s) ==
  /\ s \in Rows /\ s.flow = r.flow
  /\ r.revived => s.revived
  /\ r.status \in Closing => s.status \in Closing \/ s.revived
  /\ Traced(r, s)
  /\ s.log = r.log \/ \E x \in Events \X Nodes : x[1] \notin Marks /\ s.log = Append(r.log, x)
  /\ \A n \in Acts :
       /\ StepOf(s, n).status = "SUCCEEDED" => StepOf(r, n).status = "SUCCEEDED"
       /\ n # r.node /\ StepOf(r, n).status = "SUCCEEDED" => StepOf(s, n).status = "SUCCEEDED"
  /\ s.node = r.node \/ s.node \in After(r.node)

LEMMA IdleTallied ==
  ASSUME NEW r \in Rows, NEW s, Idle(r, s), Tallied(r)
  PROVE Tallied(s)
<1>0. s \in Rows /\ r.node \in Nodes
  BY RowType DEF Idle
<1>1. /\ \A n \in Nodes : Times(s, "done", n) = Times(r, "done", n)
      /\ Decisions(s) = Decisions(r)
      /\ DecidedTwice(s) => DecidedTwice(r)
      /\ DecidedTwice(r) => DecidedTwice(s)
  <2>1. CASE s.log = r.log
    BY <2>1 DEF Times, Decisions, DecidedTwice
  <2>2. ASSUME NEW x \in Events \X Nodes, x[1] \notin Marks, s.log = Append(r.log, x)
        PROVE /\ \A n \in Nodes : Times(s, "done", n) = Times(r, "done", n)
              /\ Decisions(s) = Decisions(r)
              /\ DecidedTwice(s) => DecidedTwice(r)
              /\ DecidedTwice(r) => DecidedTwice(s)
    <3>1. x[1] # "decided" /\ \A n \in Nodes : x # <<"done", n>>
      BY <2>2 DEF Marks
    <3>2. /\ \A n \in Nodes : x # <<"done", n>> => Times(s, "done", n) = Times(r, "done", n)
          /\ Decisions(s) = Decisions(r)
      BY <1>0, <2>2, <3>1, Counted
    <3>3. (DecidedTwice(s) => DecidedTwice(r)) /\ (DecidedTwice(r) => DecidedTwice(s))
      BY <1>0, <2>2, <3>1, Appended
    <3> QED
      BY <3>1, <3>2, <3>3
  <2> QED
    BY <2>1, <2>2 DEF Idle
<1>2. Cap(s) = Cap(r)
  BY <1>1 DEF Cap
<1>3. {s.node} \cup Ahead(s.node) \subseteq {r.node} \cup Ahead(r.node)
  BY <1>0, AheadIs DEF Idle
<1>4. ASSUME NEW n \in Acts
      PROVE /\ Times(s, "done", n) <= Cap(s)
            /\ n \in {s.node} \cup Ahead(s.node) => Times(s, "done", n) < Cap(s)
            /\ StepOf(s, n).status = "SUCCEEDED" => Times(s, "done", n) > 0
            /\ ~DecidedTwice(s) /\ Times(s, "done", n) > 0 => StepOf(s, n).status = "SUCCEEDED"
  <2>1. n \in Nodes /\ Times(r, "done", n) \in Nat /\ Times(s, "done", n) = Times(r, "done", n)
    BY <1>1, TimesType DEF Acts
  <2>2. ~DecidedTwice(s) /\ Times(s, "done", n) > 0 => n # r.node
    BY <1>1, <2>1 DEF Tallied, Cap
  <2> QED
    BY <1>1, <1>2, <1>3, <2>1, <2>2 DEF Tallied, Idle
<1> QED
  BY <1>0, <1>4 DEF Tallied

\* Where the effects are in the log.
LEMMA Logged ==
  ASSUME NEW r \in Rows, Tallied(r), ~DecidedTwice(r), NEW n \in Acts
  PROVE /\ n \in {r.node} \cup Ahead(r.node) => \A a \in 1 .. Len(r.log) : r.log[a] # <<"done", n>>
        /\ \A a, b \in 1 .. Len(r.log) : r.log[a] = <<"done", n>> /\ r.log[b] = <<"done", n>> => a = b
        /\ (\E a \in 1 .. Len(r.log) : r.log[a] = <<"done", n>>) => StepOf(r, n).status = "SUCCEEDED"
        /\ StepOf(r, n).status = "SUCCEEDED" => \E a \in 1 .. Len(r.log) : r.log[a] = <<"done", n>>
<1> DEFINE T == {a \in 1 .. Len(r.log) : r.log[a] = <<"done", n>>}
           c == Times(r, "done", n)
<1>1. n \in Nodes /\ Len(r.log) \in Nat /\ DOMAIN r.log = 1 .. Len(r.log)
  BY RowType DEF Acts
<1>2. c = Cardinality(T)
  BY <1>1 DEF Times
<1>3. IsFiniteSet(T) /\ c \in Nat /\ (T # {} => c > 0)
  BY <1>1, <1>2, CountOne
<1>4. T = {} => c = 0
  BY <1>2, FS_EmptySet
<1>5. /\ c <= 1 /\ (n \in {r.node} \cup Ahead(r.node) => c < 1)
      /\ (StepOf(r, n).status = "SUCCEEDED" => c > 0) /\ (c > 0 => StepOf(r, n).status = "SUCCEEDED")
  BY DEF Tallied, Cap
<1> HIDE DEF c
<1>6. \A a, b \in T : a = b
  <2>1. c = 1 => \E a : T = {a}
    BY <1>2, <1>3, FS_Singleton
  <2> HIDE DEF T
  <2>2. c = 0 \/ c = 1
    BY <1>3, <1>5
  <2> QED
    BY <1>3, <2>1, <2>2
<1>7. n \in {r.node} \cup Ahead(r.node) => T = {}
  <2> HIDE DEF T
  <2> QED
    BY <1>3, <1>5
<1>8. (T # {} => StepOf(r, n).status = "SUCCEEDED") /\ (StepOf(r, n).status = "SUCCEEDED" => T # {})
  <2> HIDE DEF T
  <2> QED
    BY <1>3, <1>4, <1>5
<1> QED
  BY <1>6, <1>7, <1>8

\* Steps that are traced stay in their order, and effects with them: what is
\* done now is done by the last step.
LEMMA TracedRanked ==
  ASSUME NEW r \in Rows, NEW s \in Rows, Tallied(r), Ranked(r), Traced(r, s),
         DecidedTwice(r) => DecidedTwice(s),
         s.log = r.log \/ \E x \in Events \X Nodes :
                            (x[1] = "done" => x[2] = r.node) /\ s.log = Append(r.log, x),
         ~DecidedTwice(s) => s.node = r.node \/ s.node \in After(r.node)
  PROVE Ranked(s)
<1> SUFFICES ASSUME ~DecidedTwice(s)
             PROVE /\ \A i, j \in 1 .. Len(s.steps) : s.steps[i].node = s.steps[j].node => i = j
                   /\ \A i \in 1 .. Len(s.steps) :
                        /\ s.steps[i].node = s.node => i = Len(s.steps)
                        /\ s.steps[i].node \notin Ahead(s.node)
                   /\ \A i, j \in 1 .. Len(s.steps), a, b \in 1 .. Len(s.log) :
                        i < j /\ Commits(s, a, i) /\ Commits(s, b, j) => a < b
  BY DEF Ranked
<1> DEFINE k == Len(r.steps)
           m == Len(s.steps)
<1>1. /\ k \in Nat /\ m \in Nat /\ m \in {k, k + 1} /\ r.node \in Nodes /\ s.node \in Nodes
      /\ \A i \in 1 .. k : s.steps[i].node = r.steps[i].node
      /\ m = k + 1 => s.steps[m].node = r.node /\ \A i \in 1 .. k : r.steps[i].node # r.node
  BY RowType DEF Traced
<1>2. /\ \A i, j \in 1 .. k : r.steps[i].node = r.steps[j].node => i = j
      /\ \A i \in 1 .. k : r.steps[i].node = r.node => i = k
      /\ \A i \in 1 .. k : r.steps[i].node \notin Ahead(r.node)
  BY DEF Ranked
<1> HIDE DEF k, m
<1>3. \A i, j \in 1 .. m : s.steps[i].node = s.steps[j].node => i = j
  BY <1>1, <1>2
<1>4. \A i \in 1 .. m : s.steps[i].node = r.node => i = m
  BY <1>1, <1>2
<1>5. \A i \in 1 .. m : s.steps[i].node \notin Ahead(r.node)
  BY <1>1, <1>2, NoReturn
<1>6. ASSUME NEW i \in 1 .. m PROVE (s.steps[i].node = s.node => i = m) /\ s.steps[i].node \notin Ahead(s.node)
  <2>1. CASE s.node = r.node
    BY <1>4, <1>5, <2>1
  <2>2. CASE s.node \in After(r.node)
    <3>1. s.node \in Ahead(r.node) /\ Ahead(s.node) \subseteq Ahead(r.node)
      BY <1>1, <2>2, AheadIs
    <3> QED
      BY <1>5, <3>1
  <2> QED
    BY <2>1, <2>2
<1>7. ASSUME NEW i \in 1 .. m, NEW j \in 1 .. m, NEW a \in 1 .. Len(s.log), NEW b \in 1 .. Len(s.log),
             i < j, Commits(s, a, i), Commits(s, b, j)
      PROVE a < b
  <2>1. ASSUME a \in 1 .. Len(r.log), b \in 1 .. Len(r.log), s.log[a] = r.log[a], s.log[b] = r.log[b]
        PROVE a < b
    <3>1. CASE j \in 1 .. k
      <4>1. i \in 1 .. k
        BY <1>1, <1>7, <3>1
      <4>2. s.steps[i].node = r.steps[i].node /\ s.steps[j].node = r.steps[j].node
        BY <1>1, <3>1, <4>1
      <4>3. Commits(r, a, i) /\ Commits(r, b, j)
        BY <1>7, <2>1, <4>2 DEF Commits
      <4>4. \A d, e \in 1 .. k, x, y \in 1 .. Len(r.log) :
              d < e /\ Commits(r, x, d) /\ Commits(r, y, e) => x < y
        BY DEF Ranked, k
      <4> QED
        BY <1>7, <2>1, <3>1, <4>1, <4>3, <4>4
    <3>2. CASE j \notin 1 .. k
      <4>1. i \in 1 .. k /\ s.steps[j].node = r.node
        BY <1>1, <1>7, <3>2
      <4>2. r.node \in Acts /\ r.log[b] = <<"done", r.node>>
        BY <1>7, <2>1, <4>1 DEF Commits
      <4> QED
        BY <2>1, <4>2, Logged
    <3> QED
      BY <3>1, <3>2
  <2>2. CASE s.log = r.log
    BY <2>1, <2>2
  <2>3. ASSUME NEW x \in Events \X Nodes, x[1] = "done" => x[2] = r.node, s.log = Append(r.log, x) PROVE a < b
    <3>1. /\ Len(r.log) \in Nat /\ Len(s.log) = Len(r.log) + 1 /\ s.log[Len(r.log) + 1] = x
          /\ \A l \in 1 .. Len(r.log) : s.log[l] = r.log[l]
      BY <2>3, RowType
    <3>2. a # Len(r.log) + 1
      <4> SUFFICES ASSUME a = Len(r.log) + 1 PROVE FALSE
        OBVIOUS
      <4>1. x = <<"done", s.steps[i].node>>
        BY <1>7, <3>1 DEF Commits
      <4>2. s.steps[i].node = r.node
        BY <2>3, <4>1
      <4> QED
        BY <1>1, <1>4, <1>7, <4>2
    <3>3. a \in 1 .. Len(r.log)
      BY <3>1, <3>2
    <3> QED
      BY <2>1, <3>1, <3>3
  <2> QED
    BY <2>2, <2>3
<1> QED
  BY <1>3, <1>6, <1>7 DEF m

LEMMA TellsOn ==
  ASSUME NEW r \in Rows, Told(r), NEW s \in Rows, NEW x \in Events \X Nodes, s.log = Append(r.log, x),
         x[1] \notin Marks \/ x[1] \in {"done", "decided"},
         Judged(s) => Judged(r), Judged(s) /\ s.status \notin Closing => r.status \notin Closing
  PROVE Told(s)
<1> SUFFICES ASSUME Judged(s)
             PROVE /\ s.status \notin Closing => \A k \in 1 .. Len(s.log) : ~Reverts(s.log[k])
                   /\ s.log[Len(s.log)][1] = "failed" => Reversed(s.log)
  BY DEF Told
<1>1. /\ Len(r.log) \in Nat /\ Len(s.log) = Len(r.log) + 1 /\ s.log[Len(r.log) + 1] = x
      /\ \A k \in 1 .. Len(r.log) : s.log[k] = r.log[k]
  BY RowType
<1>2. x[1] # "failed" /\ ~Reverts(x)
  BY DEF Marks, Reverts
<1> QED
  BY <1>1, <1>2 DEF Told

LEMMA IdleTold ==
  ASSUME NEW r \in Rows, NEW s, Idle(r, s), Told(r)
  PROVE Told(s)
<1>1. s \in Rows /\ (Judged(s) /\ s.status \notin Closing => r.status \notin Closing)
  BY DEF Idle, Judged
<1>2. CASE s.log = r.log
  <2>1. Judged(s) => Judged(r)
    BY <1>2, SameLog DEF Judged, Idle
  <2> QED
    BY <1>1, <1>2, <2>1 DEF Told
<1>3. ASSUME NEW x \in Events \X Nodes, x[1] \notin Marks, s.log = Append(r.log, x)
      PROVE Told(s)
  <2>1. Judged(s) => Judged(r)
    BY <1>1, <1>3, Appended DEF Judged, Idle
  <2> QED
    BY <1>1, <1>3, <2>1, TellsOn
<1> QED
  BY <1>2, <1>3 DEF Idle

LEMMA IdleWorks ==
  ASSUME NEW r \in Rows, NEW s, Idle(r, s), Worked(r)
  PROVE s \in Rows /\ Worked(s)
<1>1. s \in Rows /\ Tallied(s) /\ Told(s)
  BY IdleTallied, IdleTold DEF Worked, Idle
<1>2. Ranked(s)
  <2>1. DecidedTwice(r) => DecidedTwice(s)
    BY <1>1, SameLog, Appended DEF Idle
  <2>2. s.log = r.log \/ \E x \in Events \X Nodes : (x[1] = "done" => x[2] = r.node) /\ s.log = Append(r.log, x)
    BY DEF Idle, Marks
  <2> QED
    BY <1>1, <2>1, <2>2, TracedRanked DEF Worked, Idle
<1> QED
  BY <1>1, <1>2 DEF Worked

\* An event, a move and a pause that are idle.
LEMMA IdlePlace ==
  ASSUME NEW r \in Rows, NEW s \in Rows, s.steps = r.steps, s.node = r.node, s.flow = r.flow, r.revived => s.revived,
         r.status \in Closing => s.status \in Closing \/ s.revived,
         s.log = r.log \/ \E what \in Events \ Marks, n \in Nodes : s.log = Append(r.log, <<what, n>>)
  PROVE Idle(r, s)
<1>1. \A n \in Nodes : StepOf(s, n) = StepOf(r, n)
  BY SameSteps
<1>2. \A what \in Events \ Marks, n \in Nodes : <<what, n>> \in Events \X Nodes /\ <<what, n>>[1] \notin Marks
  OBVIOUS
<1>3. Traced(r, s)
  BY SameTraced
<1> QED
  BY <1>1, <1>2, <1>3 DEF Idle, Acts

LEMMA IdleMoved ==
  ASSUME NEW r \in Rows, NEW s, NEW outcome \in Outcomes[Kind[r.node]], NEW what \in Events \ Marks,
         Kind[r.node] # "ACTION", r.status \notin Closing, MovedOn(r, outcome, what, s)
  PROVE Idle(r, s)
<1>1. r.node \in Nodes /\ <<what, r.node>> \in Events \X Nodes /\ <<what, r.node>>[1] \notin Marks
  BY RowType
<1>2. /\ s \in Rows /\ s.log = Append(r.log, <<what, r.node>>) /\ s.node \in After(r.node)
      /\ s.flow = r.flow /\ s.revived = r.revived /\ Traced(r, s)
  BY DEF MovedOn, After
<1>3. \A n \in Acts : StepOf(s, n) = StepOf(r, n)
  BY DEF MovedOn, Acts
<1> QED
  BY <1>1, <1>2, <1>3 DEF Idle

LEMMA IdleParked ==
  ASSUME NEW r \in Rows, NEW s, NEW status, NEW c, Parked(r, status, c, s), r.status \notin Closing
  PROVE Idle(r, s)
<1>1. r.node \in Nodes /\ <<"waiting", r.node>> \in Events \X Nodes /\ <<"waiting", r.node>>[1] \notin Marks
  BY RowType DEF Events, Marks
<1>2. /\ s \in Rows /\ s.log = Append(r.log, <<"waiting", r.node>>) /\ s.node = r.node
      /\ s.flow = r.flow /\ s.revived = r.revived /\ Traced(r, s)
  BY DEF Parked, Plain
<1>3. StepOf(s, r.node).status # "SUCCEEDED" /\ \A n \in Nodes : n # r.node => StepOf(s, n) = StepOf(r, n)
  BY <1>1, StepOfType DEF Parked, Steps
<1> QED
  BY <1>1, <1>2, <1>3 DEF Idle, Acts

\* A step put in that has not succeeded, or is what it was.
LEMMA IdlePut ==
  ASSUME NEW r \in Rows, NEW s \in Rows, s = [r EXCEPT !.steps = s.steps], Traced(r, s), NEW n \in Nodes,
         \A m \in Nodes : m # n => StepOf(s, m) = StepOf(r, m),
         \/ StepOf(s, n).status = StepOf(r, n).status
         \/ n \notin Acts
         \/ n = r.node /\ StepOf(s, n).status # "SUCCEEDED"
  PROVE Idle(r, s)
<1>1. s.log = r.log /\ s.node = r.node /\ s.flow = r.flow /\ s.revived = r.revived /\ s.status = r.status
  BY DEF Rows
<1> QED
  BY <1>1 DEF Idle, Acts

LEMMA IdleApproves ==
  ASSUME NEW r \in Rows, NEW n \in Nodes, n = r.node \/ Approval(r, n) # "none", NEW a, NEW s, Approves(r, n, a, s)
  PROVE Idle(r, s)
<1>1. s \in Rows /\ s = [r EXCEPT !.steps = s.steps] /\ Traced(r, s) /\ \A m \in Nodes : m # n => StepOf(s, m) = StepOf(r, m)
  BY DEF Approves
<1>2. StepOf(s, n).status = StepOf(r, n).status
  BY StepOfType DEF Approves, Steps
<1> QED
  BY <1>1, <1>2, IdlePut

LEMMA IdleLapsed ==
  ASSUME NEW r \in Rows, NEW n \in Nodes, n = r.node \/ Approval(r, n) # "none"
  PROVE Idle(r, Lapsed(r, n))
<1> DEFINE s == Lapsed(r, n)
<1>1. /\ s = [r EXCEPT !.steps = s.steps] /\ Plain(r, s) /\ Traced(r, s) /\ \A m \in Nodes : m # n => StepOf(s, m) = StepOf(r, m)
      /\ StepOf(s, n) = [StepOf(r, n) EXCEPT !.lapsed = TRUE]
  BY LapsedIs
<1> HIDE DEF s
<1>2. StepOf(s, n).status = StepOf(r, n).status
  BY <1>1, StepOfType DEF Steps
<1>3. Idle(r, s)
  BY <1>1, <1>2, IdlePut, ZenonT(60) DEF Plain
<1> QED
  BY <1>3 DEF s

LEMMA IdleRunning ==
  ASSUME NEW r \in Rows, r.status \notin Closing
  PROVE Idle(r, Running(r))
BY RunningIs, IdlePlace DEF Plain

LEMMA IdleFailing ==
  ASSUME NEW r \in Rows
  PROVE Idle(r, Failing(r))
<1>1. /\ Failing(r) \in Rows /\ Failing(r).node = r.node /\ Failing(r).steps = r.steps
      /\ Failing(r).flow = r.flow /\ (r.revived => Failing(r).revived)
      /\ r.status \in Closing => Failing(r).status \in Closing
  BY FailingIs DEF Plain, Closing
<1>2. Failing(r).log = r.log \/ Failing(r).log = Append(r.log, <<"compensating", r.node>>)
  <2> DEFINE p == Note(r, "compensating")
  <2>1. p \in Rows /\ p.log = Append(r.log, <<"compensating", r.node>>)
    BY NoteIs DEF Events
  <2> HIDE DEF p
  <2>2. [p EXCEPT !.status = "COMPENSATING"].log = p.log
    BY <2>1 DEF Rows
  <2> QED
    BY <2>1, <2>2 DEF Failing, p
<1>3. "compensating" \in Events \ Marks /\ r.node \in Nodes
  BY RowType DEF Events, Marks
<1> QED
  BY <1>1, <1>2, <1>3, IdlePlace

\* An effect, with the step of its action.
LEMMA EffectWorks ==
  ASSUME NEW r \in Rows, Kind[r.node] = "ACTION", r.status \notin Closing, NEW s, MovedOn(r, "next", "done", s), Worked(r)
  PROVE s \in Rows /\ Worked(s)
<1> DEFINE a == r.node
           x == <<"done", a>>
<1>1. a \in Acts /\ a \in Nodes /\ x \in Events \X Nodes /\ x[1] # "decided"
  BY RowType DEF Acts, Events
<1>2. s \in Rows /\ s.log = Append(r.log, x) /\ s.node \in After(a) /\ StepOf(s, a).status = "SUCCEEDED"
      /\ \A n \in Nodes : n # a => StepOf(s, n) = StepOf(r, n)
  <2>1. s \in Rows /\ s.log = Append(r.log, x) /\ \A n \in Nodes : n # a => StepOf(s, n) = StepOf(r, n)
    BY DEF MovedOn
  <2>2. s.node \in After(a)
    BY DEF MovedOn, After, Outcomes
  <2>3. StepOf(s, a).status = "SUCCEEDED"
    BY <1>1, StepOfType DEF MovedOn, Steps
  <2> QED
    BY <2>1, <2>2, <2>3
<1>3. Times(s, "done", a) = Times(r, "done", a) + 1 /\ Decisions(s) = Decisions(r)
      /\ \A n \in Nodes : n # a => Times(s, "done", n) = Times(r, "done", n)
  <2>1. x = <<"done", a>> /\ \A n \in Nodes : n # a => x # <<"done", n>>
    OBVIOUS
  <2> HIDE DEF x, a
  <2> QED
    BY <1>1, <1>2, <2>1, Counted
<1>4. (DecidedTwice(s) => DecidedTwice(r)) /\ (DecidedTwice(r) => DecidedTwice(s))
  <2> HIDE DEF x
  <2> QED
    BY <1>1, <1>2, Appended
<1>5. Cap(s) = Cap(r) /\ Cap(r) \in Nat
  <2>1. Decisions(r) \in Nat
    BY <1>1, TimesType
  <2>2. Cap(r) \in Nat
    BY <2>1 DEF Cap
  <2>3. Cap(s) = Cap(r)
    BY <1>3, <1>4 DEF Cap
  <2> QED
    BY <2>2, <2>3
<1>6. ({s.node} \cup Ahead(s.node)) \subseteq Ahead(a) /\ a \notin Ahead(a)
  BY <1>1, <1>2, AheadIs, NoReturn
<1> HIDE DEF a, x
<1>7. ASSUME NEW n \in Acts
      PROVE /\ Times(s, "done", n) <= Cap(s)
            /\ n \in {s.node} \cup Ahead(s.node) => Times(s, "done", n) < Cap(s)
            /\ StepOf(s, n).status = "SUCCEEDED" => Times(s, "done", n) > 0
            /\ ~DecidedTwice(s) /\ Times(s, "done", n) > 0 => StepOf(s, n).status = "SUCCEEDED"
  <2>1. n \in Nodes /\ Times(r, "done", n) \in Nat
    BY TimesType DEF Acts
  <2>2. CASE n = a
    <3>1. Times(r, "done", a) < Cap(r)
      BY <1>1 DEF Worked, Tallied, a
    <3> QED
      BY <1>2, <1>3, <1>5, <1>6, <2>1, <2>2, <3>1
  <2>3. CASE n # a
    <3>1. n \in {s.node} \cup Ahead(s.node) => n \in {r.node} \cup Ahead(r.node)
      BY <1>6 DEF a
    <3> QED
      BY <1>2, <1>3, <1>4, <1>5, <2>1, <2>3, <3>1 DEF Worked, Tallied
  <2> QED
    BY <2>2, <2>3
<1>8. Ranked(s)
  <2>1. (x[1] = "done" => x[2] = r.node) /\ Traced(r, s)
    BY DEF x, a, MovedOn
  <2> QED
    BY <1>1, <1>2, <1>4, <2>1, TracedRanked DEF Worked, a
<1>9. Told(s)
  <2>1. x[1] = "done"
    BY DEF x
  <2>2. Judged(s) => Judged(r)
    BY <1>4 DEF Judged, MovedOn
  <2> QED
    BY <1>1, <1>2, <2>1, <2>2, TellsOn DEF Worked, Marks
<1> QED
  BY <1>2, <1>7, <1>8, <1>9 DEF Worked, Tallied

\* A decision, also the one that sends the execution back.
LEMMA DecisionWorks ==
  ASSUME NEW r \in Rows, NEW n \in Nodes, Kind[n] = "APPROVAL", r.status # "COMPENSATING", NEW s, Decides(r, n, s), Worked(r)
  PROVE Worked(s)
<1> DEFINE x == <<"decided", n>>
<1>1. x \in Events \X Nodes /\ x[1] = "decided" /\ \A m \in Nodes : x # <<"done", m>>
  BY DEF Events
<1>2. s \in Rows /\ s.log = Append(r.log, x) /\ s.node \in After(n) /\ (~DecidedTwice(s) => r.node = n)
      /\ \A k \in Nodes \ {n} : StepOf(s, k) = StepOf(r, k)
  BY DEF Decides
<1> HIDE DEF x
<1>3. /\ \A m \in Nodes : Times(s, "done", m) = Times(r, "done", m)
      /\ Decisions(s) = Decisions(r) + 1
      /\ DecidedTwice(s) => DecidedTwice(r) \/ Decisions(r) >= 1
  BY <1>1, <1>2, Counted
<1>4. DecidedTwice(r) => DecidedTwice(s)
  BY <1>1, <1>2, Appended
<1>5. ASSUME NEW m \in Acts
      PROVE /\ Times(s, "done", m) <= Cap(s)
            /\ m \in {s.node} \cup Ahead(s.node) => Times(s, "done", m) < Cap(s)
            /\ StepOf(s, m).status = "SUCCEEDED" => Times(s, "done", m) > 0
            /\ ~DecidedTwice(s) /\ Times(s, "done", m) > 0 => StepOf(s, m).status = "SUCCEEDED"
  <2>1. m \in Nodes /\ m # n /\ Times(r, "done", m) \in Nat /\ Decisions(r) \in Nat
    BY TimesType DEF Acts
  <2>2. /\ Times(r, "done", m) <= Cap(r)
        /\ m \in {r.node} \cup Ahead(r.node) => Times(r, "done", m) < Cap(r)
        /\ StepOf(s, m).status = "SUCCEEDED" => Times(r, "done", m) > 0
        /\ ~DecidedTwice(r) /\ Times(r, "done", m) > 0 => StepOf(s, m).status = "SUCCEEDED"
    BY <1>2, <2>1 DEF Worked, Tallied
  <2>3. CASE DecidedTwice(s)
    <3>1. Times(r, "done", m) <= Decisions(r)
      BY <1>3, <2>1, <2>2, <2>3 DEF Cap
    <3>2. Cap(s) = Decisions(r) + 1
      BY <1>3, <2>3 DEF Cap
    <3> QED
      BY <1>3, <2>1, <2>2, <2>3, <3>1, <3>2
  <2>4. CASE ~DecidedTwice(s)
    <3>1. Cap(s) = 1 /\ Cap(r) = 1 /\ ~DecidedTwice(r)
      BY <1>4, <2>4 DEF Cap
    <3>2. m \in {s.node} \cup Ahead(s.node) => m \in {r.node} \cup Ahead(r.node)
      BY <1>2, <2>4, AheadIs
    <3> QED
      BY <1>3, <2>1, <2>2, <3>1, <3>2
  <2> QED
    BY <2>3, <2>4
<1>6. Ranked(s)
  <2>1. ~DecidedTwice(s) => Traced(r, s) /\ s.node \in After(r.node)
    BY <1>2 DEF Decides
  <2>2. ~DecidedTwice(s) => Ranked(s)
    BY <1>1, <1>2, <1>4, <2>1, TracedRanked DEF Worked
  <2> QED
    BY <2>2 DEF Ranked
<1>7. Told(s)
  <2>1. Judged(s) => Judged(r) /\ r.status \notin Closing
    BY <1>4, RowType DEF Judged, Decides, Grown, Closing, Terminal
  <2> QED
    BY <1>1, <1>2, <2>1, TellsOn DEF Worked, Marks
<1> QED
  BY <1>5, <1>6, <1>7 DEF Worked, Tallied

\* An execution that has just been created has done nothing.
LEMMA NewbornWorks ==
  ASSUME NEW r, Newborn(r)
  PROVE Worked(r)
<1>1. r \in Rows /\ r.steps = <<>> /\ Len(r.log) = 1 /\ r.log[1][1] \notin Marks
  BY DEF Newborn, Marks
<1>2. DOMAIN r.log = {1}
  BY <1>1, RowType
<1>3. ~DecidedTwice(r)
  BY <1>1, <1>2 DEF DecidedTwice, Marks
<1>4. \A n \in Nodes : Times(r, "done", n) = 0 /\ StepOf(r, n).status = "PENDING"
  <2> SUFFICES ASSUME NEW n \in Nodes PROVE Times(r, "done", n) = 0 /\ StepOf(r, n).status = "PENDING"
    OBVIOUS
  <2>1. {i \in DOMAIN r.log : r.log[i] = <<"done", n>>} = {}
    BY <1>1, <1>2 DEF Marks
  <2>2. StepOf(r, n).status = "PENDING"
    BY <1>1 DEF StepOf, StepIndex
  <2> QED
    BY <2>1, <2>2, FS_EmptySet DEF Times
<1>5. Ranked(r)
  BY <1>1 DEF Ranked
<1>6. Told(r)
  BY <1>1 DEF Told, Reverts, Marks
<1> QED
  BY <1>3, <1>4, <1>5, <1>6 DEF Worked, Tallied, Acts, Cap


\* What a step makes of a pass, and of executions.
LEMMA PassWorks ==
  ASSUME TypeOK, Works, NEW w \in Workers, NEW u, Worked(u.row), tx' = [tx EXCEPT ![w] = u], run' = run
  PROVE Works'
<1>1. tx'[w] = u /\ \A v \in Workers \ {w} : tx'[v] = tx[v]
  BY DEF TypeOK
<1> QED
  BY <1>1 DEF Works, Passing, Exists

LEMMA RunWorks ==
  ASSUME TypeOK, Works, Subsides, \A e \in Execs : run'[e] \in {run[e], Purged} \/ Worked(run'[e])
  PROVE Works'
<1>1. \A v \in Workers : Passing(v)' => Passing(v) /\ tx'[v] = tx[v]
  BY EndsRecede DEF Recedes, Passing
<1>2. \A v \in Workers : Passing(v)' => Worked(tx'[v].row)
  BY <1>1 DEF Works
<1>3. \A e \in Execs : Exists(e)' => Worked(run'[e])
  BY DEF Works, Exists
<1> QED
  BY <1>2, <1>3 DEF Works

\* A claim, by an idle change of the execution.
LEMMA ClaimWorks ==
  ASSUME IInv, Works, NEW w \in Workers, NEW e \in Execs, Claimed(w, e), NEW s, NEW verdict,
         Pass(w, e, s, verdict), Worked(s)
  PROVE Works'
<1> DEFINE u == [e |-> e, row |-> s, verdict |-> verdict, cursor |-> Len(s.steps), child |-> 0, born |-> None]
<1>1. tx' = [tx EXCEPT ![w] = u] /\ u.row = s /\ run' = run
  BY DEF Pass
<1> HIDE DEF u
<1> QED
  BY <1>1, PassWorks DEF IInv

LEMMA ClaimedWorked ==
  ASSUME IInv, Works, NEW w \in Workers, NEW e \in Execs, Claimed(w, e)
  PROVE run[e] \in Rows /\ Sound(run[e]) /\ Worked(run[e]) /\ run[e].node \in Nodes /\ run[e].status \notin Closing
BY ClaimedIs, RowType DEF Works, Closing, Claimable, Terminal

LEMMA ClaimStepWorks ==
  ASSUME IInv, Works, NEW w \in Workers, NEW e \in Execs, ClaimStep(w, e)
  PROVE Works'
<1> DEFINE r == run[e]
<1>0. Claimed(w, e)
  BY DEF ClaimStep, Defer, Begin, ResumeTimer, ResumeApprovalTimeout, PollSubflow, ResumeSubflow, SubflowFails,
         SubflowTimesOut, WaitsForChild
<1>1. r \in Rows /\ Sound(r) /\ Worked(r) /\ r.node \in Nodes /\ r.status \notin Closing
  BY <1>0, ClaimedWorked
<1>2. CASE Defer(w, e) \/ PollSubflow(w, e)
  <2> DEFINE s == [r EXCEPT !.due = FALSE]
  <2>1. Pass(w, e, s, "none") \/ Pass(w, e, r, "none")
    BY <1>2 DEF Defer, PollSubflow
  <2>2. s \in Rows /\ s.steps = r.steps /\ s.node = r.node /\ s.log = r.log /\ s.flow = r.flow /\ s.revived = r.revived
    BY <1>1 DEF Rows
  <2> HIDE DEF s
  <2>3. Worked(s)
    <3>1. Idle(r, s)
      BY <1>1, <2>2, IdlePlace
    <3> QED
      BY <1>1, <3>1, IdleWorks
  <2> QED
    BY <1>0, <1>1, <2>1, <2>3, ClaimWorks
<1>3. CASE Begin(w, e)
  <2>1. Worked(Running(r))
    BY <1>1, IdleRunning, IdleWorks
  <2> QED
    BY <1>0, <1>3, <2>1, ClaimWorks DEF Begin
<1>4. CASE ResumeTimer(w, e) \/ ResumeSubflow(w, e)
  <2> DEFINE m == MoveOn(r, "next", "moved")
  <2>1. Pass(w, e, Running(m), "none") /\ r.status \in {"WAITING_TIMER", "WAITING_SUBFLOW"}
    BY <1>4 DEF ResumeTimer, ResumeSubflow, WaitsForChild
  <2>2. /\ Kind[r.node] # "ACTION" /\ "next" \in Outcomes[Kind[r.node]]
        /\ "moved" \in Events \ Marks /\ "moved" \in Events
    BY <1>1, <2>1 DEF Sound, Outcomes, Events, Marks
  <2>3. MovedOn(r, "next", "moved", m)
    BY <1>1, <2>2, MoveOnIs
  <2> HIDE DEF m
  <2>4. Idle(r, m)
    BY <1>1, <2>2, <2>3, IdleMoved
  <2>5. m \in Rows /\ Worked(m) /\ m.status \notin Closing
    BY <1>1, <2>3, <2>4, IdleWorks DEF MovedOn, Closing, Terminal
  <2>6. Worked(Running(m))
    BY <2>5, IdleRunning, IdleWorks
  <2> QED
    BY <1>0, <2>1, <2>6, ClaimWorks
<1>5. CASE ResumeApprovalTimeout(w, e)
  <2> DEFINE p == SetApproval(r, r.node, "EXPIRED")
             m == MoveOn(p, "timeout", "expired")
  <2>1. Pass(w, e, Running(m), "none") /\ Approval(r, r.node) = "PENDING"
    BY <1>5 DEF ResumeApprovalTimeout
  <2>2. Approves(r, r.node, "EXPIRED", p)
    BY <1>1, SetApprovalIs
  <2> HIDE DEF p
  <2>3. Idle(r, p) /\ p.node = r.node /\ p.status \notin Closing
    <3>1. p = [r EXCEPT !.steps = p.steps]
      BY <2>2 DEF Approves
    <3>2. p.node = r.node /\ p.status = r.status
      BY <1>1, <3>1 DEF Rows
    <3> QED
      BY <1>1, <2>2, <3>2, IdleApproves
  <2>4. p \in Rows /\ Worked(p)
    BY <1>1, <2>3, IdleWorks
  <2>5. /\ Kind[p.node] # "ACTION" /\ "timeout" \in Outcomes[Kind[p.node]]
        /\ "expired" \in Events \ Marks /\ "expired" \in Events
    BY <1>1, <2>1, <2>3 DEF Sound, Outcomes, Events, Marks
  <2>6. MovedOn(p, "timeout", "expired", m)
    BY <2>4, <2>5, MoveOnIs
  <2> HIDE DEF m
  <2>7. m \in Rows /\ Worked(m) /\ m.status \notin Closing
    <3>1. Idle(p, m)
      BY <2>3, <2>4, <2>5, <2>6, IdleMoved
    <3> QED
      BY <2>4, <2>6, <3>1, IdleWorks DEF MovedOn, Closing, Terminal
  <2>8. Worked(Running(m))
    BY <2>7, IdleRunning, IdleWorks
  <2> QED
    BY <1>0, <2>1, <2>8, ClaimWorks
<1>6. CASE SubflowFails(w, e) \/ SubflowTimesOut(w, e)
  <2>1. Pass(w, e, Failing(r), "FAILED")
    BY <1>6 DEF SubflowFails, SubflowTimesOut
  <2>2. Worked(Failing(r))
    BY <1>1, IdleFailing, IdleWorks
  <2> QED
    BY <1>0, <2>1, <2>2, ClaimWorks
<1> QED
  BY <1>2, <1>3, <1>4, <1>5, <1>6 DEF ClaimStep

\* A pass goes on with s, or fails with p.
LEMMA BecomesWorks ==
  ASSUME IInv, Works, NEW w \in Workers, Passing(w), NEW s, Becomes(w, s), Worked(s)
  PROVE Works'
<1> DEFINE u == [tx[w] EXCEPT !.row = s]
<1>1. tx' = [tx EXCEPT ![w] = u] /\ run' = run
  BY DEF Becomes
<1>2. u.row = s
  BY PassIs DEF Passes
<1> HIDE DEF u
<1> QED
  BY <1>1, <1>2, PassWorks DEF IInv

LEMMA FailsWorks ==
  ASSUME IInv, Works, NEW w \in Workers, Passing(w), NEW p \in Rows, NEW verdict, Fails(w, p, verdict), Worked(p)
  PROVE Works'
<1> DEFINE s == Failing(p)
           u == [tx[w] EXCEPT !.row = s, !.verdict = verdict, !.cursor = Len(p.steps)]
<1>1. tx' = [tx EXCEPT ![w] = u] /\ run' = run
  BY DEF Fails
<1>2. Worked(s)
  BY IdleFailing, IdleWorks
<1> HIDE DEF s
<1>3. u.row = s
  BY PassIs DEF Passes
<1> HIDE DEF u
<1> QED
  BY <1>1, <1>2, <1>3, PassWorks DEF IInv

LEMMA PassWorked ==
  ASSUME IInv, Works, NEW w \in Workers, Passing(w)
  PROVE tx[w].row \in Rows /\ Sound(tx[w].row) /\ Worked(tx[w].row) /\ tx[w].row.node \in Nodes
BY PassIs DEF Works

\* A step put in the row, of the current node.
LEMMA PutWorks ==
  ASSUME NEW r \in Rows, Worked(r), NEW s \in Steps, s.node = r.node,
         s.status = StepOf(r, r.node).status \/ s.status # "SUCCEEDED" \/ Kind[r.node] # "ACTION"
  PROVE PutStep(r, s) \in Rows /\ Worked(PutStep(r, s)) /\ PutStep(r, s).node = r.node /\ PutStep(r, s).status = r.status
<1> DEFINE p == PutStep(r, s)
<1>1. /\ p = [r EXCEPT !.steps = p.steps] /\ p \in Rows /\ Traced(r, p)
      /\ StepOf(p, r.node) = s /\ \A n \in Nodes : n # r.node => StepOf(p, n) = StepOf(r, n)
  BY PutStepIs, PutTraced
<1> HIDE DEF p
<1>2. p.node = r.node /\ p.status = r.status /\ r.node \in Nodes
  BY <1>1, RowType DEF Rows
<1>3. Idle(r, p)
  BY <1>1, <1>2, IdlePut DEF Acts
<1>4. Worked(p)
  BY <1>3, IdleWorks
<1> QED
  BY <1>1, <1>2, <1>4 DEF p

\* An event noted that is no effect.
LEMMA MarkedWorks ==
  ASSUME NEW r \in Rows, NEW p \in Rows, Worked(p), NEW what \in Events \ Marks, NEW status, NEW s,
         p.status \notin Closing, Marked(r, p, what, status, s)
  PROVE Worked(s)
<1>1. s \in Rows /\ s.node = p.node /\ s.steps = p.steps /\ s.log = Append(p.log, <<what, p.node>>) /\ p.node \in Nodes
      /\ s.flow = p.flow /\ s.revived = p.revived
  BY RowType DEF Marked
<1>2. Idle(p, s)
  BY <1>1, IdlePlace
<1> QED
  BY <1>2, IdleWorks

LEMMA CompleteWorks ==
  ASSUME IInv, Works, NEW w \in Workers, Complete(w)
  PROVE Works'
<1> DEFINE r == tx[w].row
           step == [StepOf(r, r.node) EXCEPT !.status = "SUCCEEDED"]
           p == PutStep(r, step)
           s == [Note(p, "succeeded") EXCEPT !.status = "SUCCEEDED"]
<1>1. Passing(w) /\ Kind[r.node] = "END" /\ r.status \notin Closing /\ Becomes(w, s)
  BY DEF Complete, AtNode, Closing, Terminal
<1>2. r \in Rows /\ Worked(r) /\ r.node \in Nodes
  BY <1>1, PassWorked
<1> HIDE DEF r
<1>3. step \in Steps /\ step.node = r.node /\ step.approval = Approval(r, r.node) /\ (StepOf(r, r.node).lapsed => step.lapsed)
  <2>1. 0 \in 0 .. MaxExecs
    BY LimitsAssumption
  <2> QED
    BY <1>2, <2>1, StepChanges
<1> HIDE DEF step
<1>4. p \in Rows /\ Worked(p) /\ Plain(r, p) /\ p.status \notin Closing
  BY <1>1, <1>2, <1>3, PutWorks, PutChanged
<1> HIDE DEF p
<1>5. "succeeded" \in Events \ {"decided"} /\ "succeeded" \in Events \ Marks /\ "succeeded" \in Events
  BY DEF Events, Marks
<1> DEFINE due == Note(p, "succeeded").due
<1>6. s = [Note(p, "succeeded") EXCEPT !.status = "SUCCEEDED", !.due = due] /\ due \in BOOLEAN
  BY <1>4, <1>5, NoteIs DEF Rows
<1> HIDE DEF s, due
<1>7. Marked(r, p, "succeeded", "SUCCEEDED", s)
  BY <1>2, <1>4, <1>5, <1>6, PlainNoted
<1>8. Worked(s)
  BY <1>2, <1>4, <1>5, <1>7, MarkedWorks
<1> QED
  BY <1>1, <1>8, BecomesWorks

LEMMA EvaluateConditionWorks ==
  ASSUME IInv, Works, NEW w \in Workers, EvaluateCondition(w)
  PROVE Works'
<1> DEFINE r == tx[w].row
<1>1. Passing(w) /\ Kind[r.node] = "CONDITION" /\ r.status \notin Closing
  BY DEF EvaluateCondition, AtNode, Closing, Terminal
<1>2. r \in Rows /\ Worked(r)
  BY <1>1, PassWorked
<1>3. PICK outcome \in {"true", "false"} : Becomes(w, MoveOn(r, outcome, "moved"))
  BY DEF EvaluateCondition
<1> DEFINE s == MoveOn(r, outcome, "moved")
<1>4. /\ Kind[r.node] # "ACTION" /\ outcome \in Outcomes[Kind[r.node]]
      /\ "moved" \in Events \ Marks /\ "moved" \in Events
  BY <1>1 DEF Outcomes, Events, Marks
<1>5. MovedOn(r, outcome, "moved", s)
  BY <1>2, <1>4, MoveOnIs
<1> HIDE DEF s
<1>6. Idle(r, s)
  BY <1>1, <1>2, <1>4, <1>5, IdleMoved
<1>7. Worked(s)
  BY <1>2, <1>6, IdleWorks
<1> QED
  BY <1>1, <1>3, <1>7, BecomesWorks DEF s

\* What an attempt leaves in its step.
LEMMA AttemptedWorks ==
  ASSUME NEW r \in Rows, Worked(r)
  PROVE LET p == PutStep(r, Attempted(r)) IN p \in Rows /\ Worked(p) /\ p.node = r.node /\ p.status = r.status /\ Plain(r, p)
<1>1. Attempted(r).status = StepOf(r, r.node).status
  <2>1. StepOf(r, r.node) \in Steps
    BY RowType, StepOfType
  <2> QED
    BY <2>1 DEF Attempted, Steps
<1> QED
  BY <1>1, AttemptedIs, PutWorks, PutChanged

LEMMA ActionSucceedsWorks ==
  ASSUME IInv, Works, NEW w \in Workers, ActionSucceeds(w)
  PROVE Works'
<1> DEFINE r == tx[w].row
           p == PutStep(r, Attempted(r))
           s == MoveOn(p, "next", "done")
<1>1. Passing(w) /\ Kind[r.node] = "ACTION" /\ r.status \notin Closing /\ Becomes(w, s)
  BY DEF ActionSucceeds, AtNode, Closing, Terminal
<1>2. r \in Rows /\ Worked(r)
  BY <1>1, PassWorked
<1> HIDE DEF r
<1>3. p \in Rows /\ Worked(p) /\ p.node = r.node /\ p.status \notin Closing
  BY <1>1, <1>2, AttemptedWorks
<1> HIDE DEF p
<1>4. "next" \in Outcomes[Kind[p.node]] /\ "done" \in Events
  BY <1>1, <1>3 DEF Outcomes, Events
<1>5. MovedOn(p, "next", "done", s)
  BY <1>3, <1>4, MoveOnIs
<1> HIDE DEF s
<1>6. Worked(s)
  BY <1>1, <1>3, <1>5, EffectWorks
<1> QED
  BY <1>1, <1>6, BecomesWorks

LEMMA ActionFailsWorks ==
  ASSUME IInv, Works, NEW w \in Workers, NEW retryable \in BOOLEAN, ActionFails(w, retryable)
  PROVE Works'
<1> DEFINE r == tx[w].row
           step == Attempted(r)
           p == PutStep(r, step)
           s == [Note(p, "retry") EXCEPT !.status = "RETRY", !.due = FALSE]
           final == [step EXCEPT !.status = "FAILED"]
           q == PutStep(r, final)
<1>1. Passing(w) /\ r.status \notin Closing
  BY DEF ActionFails, AtNode, Closing, Terminal
<1>2. r \in Rows /\ Worked(r)
  BY <1>1, PassWorked
<1>3. Becomes(w, s) \/ \E verdict \in {"FAILED", "DEAD_LETTER"} : Fails(w, q, verdict)
  BY DEF ActionFails
<1> HIDE DEF r
<1>4. step \in Steps /\ step.node = r.node
  BY <1>2, AttemptedIs
<1>5. CASE Becomes(w, s)
  <2>1. p \in Rows /\ Worked(p) /\ Plain(r, p) /\ p.status \notin Closing
    BY <1>1, <1>2, AttemptedWorks
  <2> HIDE DEF p
  <2>2. "retry" \in Events \ {"decided"} /\ "retry" \in Events \ Marks
    BY DEF Events, Marks
  <2>3. Marked(r, p, "retry", "RETRY", s)
    BY <1>2, <2>1, <2>2, PlainNoted
  <2> HIDE DEF s
  <2>4. Worked(s)
    BY <1>2, <2>1, <2>2, <2>3, MarkedWorks
  <2> QED
    BY <1>1, <1>5, <2>4, BecomesWorks
<1>6. ASSUME NEW verdict \in {"FAILED", "DEAD_LETTER"}, Fails(w, q, verdict) PROVE Works'
  <2> HIDE DEF step
  <2>1. final \in Steps /\ final.node = r.node /\ final.status # "SUCCEEDED"
    BY <1>4 DEF Steps
  <2> HIDE DEF final
  <2>2. q \in Rows /\ Worked(q)
    BY <1>2, <2>1, PutWorks
  <2> HIDE DEF q
  <2> QED
    BY <1>1, <1>6, <2>2, FailsWorks
<1> QED
  BY <1>3, <1>5, <1>6

\* An execution that waits.
LEMMA ParkedWorks ==
  ASSUME NEW r \in Rows, Worked(r), NEW status, NEW c, NEW s, Parked(r, status, c, s), r.status \notin Closing
  PROVE s \in Rows /\ Worked(s) /\ s.node = r.node
<1>1. Idle(r, s)
  BY IdleParked
<1>2. s.node = r.node
  BY DEF Parked
<1> QED
  BY <1>1, <1>2, IdleWorks

LEMMA WaitWorks ==
  ASSUME IInv, Works, NEW w \in Workers, StartTimer(w) \/ StartSubflow(w) \/ RequestApproval(w)
  PROVE Works'
<1> DEFINE r == tx[w].row
<1>1. Passing(w) /\ r.status \notin Closing
  BY DEF StartTimer, StartSubflow, RequestApproval, AtNode, Closing, Terminal
<1>2. r \in Rows /\ Worked(r) /\ r.node \in Nodes /\ r.status \notin Closing /\ 0 \in 0 .. MaxExecs
  BY <1>1, PassWorked, LimitsAssumption
<1>3. CASE StartTimer(w)
  <2> DEFINE s == Park(r, "WAITING_TIMER", 0)
  <2>1. Parked(r, "WAITING_TIMER", 0, s)
    BY <1>2, ParkIs DEF Claimable
  <2>2. Becomes(w, s)
    BY <1>3 DEF StartTimer
  <2> HIDE DEF s
  <2> QED
    BY <1>1, <1>2, <2>1, <2>2, ParkedWorks, BecomesWorks
<1>4. CASE StartSubflow(w)
  <2> DEFINE known == {c \in Execs : Exists(c) /\ run[c].key = <<tx[w].e, r.node>>}
  <2>1. PICK c \in Execs :
          \/ Becomes(w, Park(r, "WAITING_SUBFLOW", c))
          \/ \E born : /\ tx' = [tx EXCEPT ![w].row = Park(r, "WAITING_SUBFLOW", c), ![w].child = c, ![w].born = born]
                       /\ run' = run
    <3>1. CASE known # {}
      BY <1>4, <3>1 DEF StartSubflow
    <3>2. CASE known = {}
      BY <1>4, <3>2 DEF StartSubflow
    <3> QED
      BY <3>1, <3>2
  <2> DEFINE s == Park(r, "WAITING_SUBFLOW", c)
  <2>2. Parked(r, "WAITING_SUBFLOW", c, s)
    BY <1>2, SubflowParks
  <2> HIDE DEF s
  <2>3. Worked(s)
    BY <1>2, <2>2, ParkedWorks
  <2>4. CASE Becomes(w, s)
    BY <1>1, <2>3, <2>4, BecomesWorks
  <2>5. ASSUME NEW born, tx' = [tx EXCEPT ![w].row = s, ![w].child = c, ![w].born = born], run' = run PROVE Works'
    <3> DEFINE u == [tx[w] EXCEPT !.row = s, !.child = c, !.born = born]
    <3>1. tx' = [tx EXCEPT ![w] = u]
      BY <2>5
    <3>2. u.row = s
      BY <1>1, PassIs DEF Passes
    <3> HIDE DEF u
    <3> QED
      BY <2>3, <2>5, <3>1, <3>2, PassWorks DEF IInv
  <2> QED
    BY <2>1, <2>4, <2>5 DEF s
<1>5. CASE RequestApproval(w)
  <2> DEFINE p == Park(r, "WAITING_APPROVAL", 0)
             s == SetApproval(p, p.node, "PENDING")
  <2>1. Becomes(w, s)
    BY <1>5 DEF RequestApproval
  <2>2. Parked(r, "WAITING_APPROVAL", 0, p)
    BY <1>2, ParkIs DEF Claimable
  <2> HIDE DEF p
  <2>3. p \in Rows /\ Worked(p) /\ p.node \in Nodes
    BY <1>2, <2>2, ParkedWorks
  <2>4. Approves(p, p.node, "PENDING", s)
    BY <2>3, SetApprovalIs
  <2> HIDE DEF s
  <2>5. Worked(s)
    <3>1. Idle(p, s)
      BY <2>3, <2>4, IdleApproves
    <3> QED
      BY <2>3, <3>1, IdleWorks
  <2> QED
    BY <1>1, <2>1, <2>5, BecomesWorks
<1> QED
  BY <1>3, <1>4, <1>5

LEMMA SubflowUnavailableWorks ==
  ASSUME IInv, Works, NEW w \in Workers, SubflowUnavailable(w)
  PROVE Works'
<1>1. Passing(w) /\ Fails(w, tx[w].row, "FAILED")
  BY DEF SubflowUnavailable, AtNode
<1> QED
  BY <1>1, PassWorked, FailsWorks

\* An event that is neither an effect nor a decision, and nothing else.
LEMMA NotedRanked ==
  ASSUME NEW r \in Rows, NEW s \in Rows, Worked(r), s.steps = r.steps, s.node = r.node,
         NEW x \in Events \X Nodes, x[1] \notin {"done", "decided"}, s.log = Append(r.log, x)
  PROVE /\ Tallied(s) /\ Ranked(s)
        /\ (DecidedTwice(s) => DecidedTwice(r)) /\ (DecidedTwice(r) => DecidedTwice(s))
<1>1. \A n \in Nodes : StepOf(s, n) = StepOf(r, n)
  BY SameSteps
<1>2. (DecidedTwice(s) => DecidedTwice(r)) /\ (DecidedTwice(r) => DecidedTwice(s))
  BY Appended
<1>3. Decisions(s) = Decisions(r) /\ \A n \in Nodes : Times(s, "done", n) = Times(r, "done", n)
  <2>1. \A n \in Nodes : x # <<"done", n>>
    OBVIOUS
  <2> QED
    BY <2>1, Counted
<1>4. Tallied(s)
  <2>1. Cap(s) = Cap(r)
    BY <1>2, <1>3 DEF Cap
  <2> QED
    BY <1>1, <1>2, <1>3, <2>1 DEF Worked, Tallied, Acts
<1>5. Ranked(s)
  <2>1. Traced(r, s)
    BY SameTraced
  <2> QED
    BY <1>2, <2>1, TracedRanked DEF Worked
<1> QED
  BY <1>2, <1>4, <1>5

\* A step of the row is what its node's step is.
LEMMA StepAt ==
  ASSUME NEW r \in Rows, Ranked(r), ~DecidedTwice(r)
  PROVE /\ \A i \in 1 .. Len(r.steps) : r.steps[i] \in Steps /\ StepOf(r, r.steps[i].node) = r.steps[i]
        /\ \A n \in Nodes : StepOf(r, n).status = "SUCCEEDED" =>
             \E i \in 1 .. Len(r.steps) : r.steps[i].node = n /\ r.steps[i].status = "SUCCEEDED"
<1>1. r.steps \in Seq(Steps)
  BY RowType
<1>2. ASSUME NEW i \in 1 .. Len(r.steps)
      PROVE r.steps[i] \in Steps /\ StepOf(r, r.steps[i].node) = r.steps[i]
  <2>1. StepIndex(r, r.steps[i].node) = {i}
    BY DEF StepIndex, Ranked
  <2>2. (CHOOSE j \in {i} : TRUE) = i
    OBVIOUS
  <2>3. StepOf(r, r.steps[i].node) = r.steps[i]
    BY <2>1, <2>2 DEF StepOf
  <2> QED
    BY <1>1, <2>3
<1>3. ASSUME NEW n \in Nodes, StepOf(r, n).status = "SUCCEEDED"
      PROVE \E i \in 1 .. Len(r.steps) : r.steps[i].node = n /\ r.steps[i].status = "SUCCEEDED"
  <2>1. StepIndex(r, n) # {}
    BY <1>3 DEF StepOf
  <2>2. PICK i \in 1 .. Len(r.steps) : r.steps[i].node = n
    BY <2>1 DEF StepIndex
  <2> QED
    BY <1>2, <1>3, <2>2
<1> QED
  BY <1>2, <1>3

\* When nothing is left to undo, everything is undone in the reverse order.
LEMMA UnwoundReverses ==
  ASSUME NEW t \in Passes, Worked(t.row), Judged(t.row), Unwinding(t), ToUndo(t) = {}, t.cursor <= Len(t.row.steps)
  PROVE Reversed(t.row.log)
<1> DEFINE r == t.row
           log == r.log
           Done == {a \in DOMAIN log : log[a][1] = "done" /\ log[a][2] \in Undoable}
           Undone == {k \in DOMAIN log : log[k][1] \in {"undone", "undo_failed"}}
<1>1. /\ r \in Rows /\ t.cursor \in Nat /\ Len(r.steps) \in Nat /\ Len(log) \in Nat /\ DOMAIN log = 1 .. Len(log)
      /\ log \in Seq(Events \X Nodes)
  BY PassType, RowType
<1>2. Tallied(r) /\ Ranked(r) /\ ~DecidedTwice(r) /\ r.flow \in Compensating
  BY DEF Worked, Judged
<1>3. Undoable \subseteq Acts /\ Acts \subseteq Nodes
  BY GraphAssumption DEF Acts
\* A completed action that can be undone has a step, which is handled.
<1>4. ASSUME NEW a \in Done
      PROVE \E i \in Handled(t) : log[a] = <<"done", r.steps[i].node>> /\ log[a][2] = r.steps[i].node
  <2>1. log[a] \in Events \X Nodes
    BY <1>1
  <2>2. log[a] = <<"done", log[a][2]>> /\ log[a][2] \in Acts /\ log[a][2] \in Undoable
    BY <1>3, <2>1
  <2>3. StepOf(r, log[a][2]).status = "SUCCEEDED"
    BY <1>1, <1>2, <2>2, Logged
  <2>4. PICK i \in 1 .. Len(r.steps) : r.steps[i].node = log[a][2] /\ r.steps[i].status = "SUCCEEDED"
    BY <1>1, <1>2, <1>3, <2>2, <2>3, StepAt
  <2>5. i \notin 1 .. t.cursor
    BY <1>2, <2>2, <2>4 DEF ToUndo
  <2>6. i \in Handled(t)
    BY <1>1, <2>2, <2>4, <2>5 DEF Handled
  <2> QED
    BY <2>2, <2>4, <2>6
<1>5. ASSUME NEW i \in Handled(t)
      PROVE \E a \in Done : log[a] = <<"done", r.steps[i].node>>
  <2>1. i \in 1 .. Len(r.steps) /\ r.steps[i].status = "SUCCEEDED" /\ r.steps[i].node \in Undoable
    BY <1>1 DEF Handled
  <2>2. StepOf(r, r.steps[i].node).status = "SUCCEEDED"
    BY <1>1, <1>2, <2>1, StepAt
  <2>3. PICK a \in 1 .. Len(log) : log[a] = <<"done", r.steps[i].node>>
    BY <1>1, <1>2, <1>3, <2>1, <2>2, Logged
  <2>4. log[a][1] = "done" /\ log[a][2] \in Undoable
    BY <2>1, <2>3
  <2> QED
    BY <1>1, <2>3, <2>4
<1>6. \A k \in DOMAIN log : (k \in Undone => Reverts(log[k])) /\ (Reverts(log[k]) => k \in Undone)
  BY DEF Reverts
<1>7. \A a \in Done : \E k \in Undone : a < k /\ log[k][2] = log[a][2]
  <2> SUFFICES ASSUME NEW a \in Done PROVE \E k \in Undone : a < k /\ log[k][2] = log[a][2]
    OBVIOUS
  <2>1. PICK i \in Handled(t) : log[a][2] = r.steps[i].node
    BY <1>4
  <2>2. PICK k \in 1 .. Len(log) : TakesBack(r, k, i)
    BY DEF Unwinding
  <2>3. k \in Undone /\ log[k][2] = log[a][2]
    BY <1>1, <1>6, <2>1, <2>2 DEF TakesBack
  <2>4. a < k
    BY <1>1, <2>2 DEF Unwinding, TakesBack
  <2> QED
    BY <2>3, <2>4
<1>8. \A k \in Undone : \E a \in Done : log[k][2] = log[a][2]
  <2> SUFFICES ASSUME NEW k \in Undone PROVE \E a \in Done : log[k][2] = log[a][2]
    OBVIOUS
  <2>1. PICK i \in Handled(t) : log[k][2] = r.steps[i].node
    BY <1>1, <1>6 DEF Unwinding
  <2>2. PICK a \in Done : log[a] = <<"done", r.steps[i].node>>
    BY <1>5
  <2> QED
    BY <2>1, <2>2
\* Of two completed actions the later one is undone first.
<1>9. ASSUME NEW a \in Done, NEW b \in Done, NEW k \in Undone, NEW l \in Undone,
             log[k][2] = log[a][2], log[l][2] = log[b][2]
      PROVE (a < b => l < k) /\ (a = b => l <= k)
  <2>1. PICK i \in Handled(t) : log[a] = <<"done", r.steps[i].node>> /\ log[a][2] = r.steps[i].node
    BY <1>4
  <2>2. PICK j \in Handled(t) : log[b] = <<"done", r.steps[j].node>> /\ log[b][2] = r.steps[j].node
    BY <1>4
  <2>3. /\ i \in 1 .. Len(r.steps) /\ j \in 1 .. Len(r.steps)
        /\ r.steps[i].node \in Acts /\ r.steps[j].node \in Acts
    <3>1. ASSUME NEW m \in Handled(t) PROVE m \in 1 .. Len(r.steps) /\ r.steps[m].node \in Undoable
      BY <1>1 DEF Handled
    <3> QED
      BY <1>3, <3>1
  <2>4. TakesBack(r, k, i) /\ TakesBack(r, l, j) /\ k \in 1 .. Len(log) /\ l \in 1 .. Len(log)
        /\ a \in 1 .. Len(log) /\ b \in 1 .. Len(log)
    BY <1>1, <1>6, <1>9, <2>1, <2>2 DEF TakesBack
  <2>5. i <= j => l <= k
    BY <2>4 DEF Unwinding
  <2>6. a < b => i < j
    <3>1. j < i => b < a
      <4>1. Commits(r, a, i) /\ Commits(r, b, j)
        BY <2>1, <2>2, <2>3 DEF Commits
      <4> QED
        BY <1>2, <2>3, <2>4, <4>1 DEF Ranked
    <3>2. i = j => a = b
      <4>1. r.steps[i].node \in Nodes /\ log[a] = <<"done", r.steps[i].node>>
        BY <1>3, <2>1, <2>3
      <4>2. i = j => log[b] = <<"done", r.steps[i].node>>
        BY <2>2
      <4> HIDE DEF r, log
      <4> QED
        BY <1>1, <1>2, <2>3, <2>4, <4>1, <4>2, Logged DEF log
    <3> QED
      BY <1>1, <2>3, <2>4, <3>1, <3>2
  <2>7. l = k => i = j
    BY <1>2, <2>3, <2>4 DEF TakesBack, Ranked
  <2>8. a = b => i = j
    BY <1>2, <2>1, <2>2, <2>3 DEF Ranked
  <2> QED
    BY <1>1, <2>3, <2>4, <2>5, <2>6, <2>7, <2>8
<1>10. \A a, b \in Done, k, l \in Undone : log[k][2] = log[a][2] /\ log[l][2] = log[b][2] => (a < b <=> l < k)
  <2> SUFFICES ASSUME NEW a \in Done, NEW b \in Done, NEW k \in Undone, NEW l \in Undone,
                      log[k][2] = log[a][2], log[l][2] = log[b][2]
               PROVE (a < b => l < k) /\ (l < k => a < b)
    OBVIOUS
  <2>1. a < b => l < k
    BY <1>9
  <2>2. b < a => k < l
    BY <1>9
  <2>3. a = b => k <= l
    BY <1>9
  <2>4. a \in Nat /\ b \in Nat /\ k \in Nat /\ l \in Nat
    BY <1>1
  <2> HIDE DEF Done, Undone, log
  <2> QED
    BY <2>1, <2>2, <2>3, <2>4
<1> QED
  BY <1>7, <1>8, <1>10 DEF Reversed

\* One more event, at the end, that is none of a completed action or its undoing.
LEMMA ReversedNoted ==
  ASSUME NEW r \in Rows, Reversed(r.log), NEW x \in Events \X Nodes, x[1] = "failed"
  PROVE Reversed(Append(r.log, x))
<1> DEFINE log == r.log
           more == Append(r.log, x)
           Done(q) == {a \in DOMAIN q : q[a][1] = "done" /\ q[a][2] \in Undoable}
           Undone(q) == {k \in DOMAIN q : q[k][1] \in {"undone", "undo_failed"}}
<1>1. /\ DOMAIN log = 1 .. Len(log) /\ DOMAIN more = 1 .. (Len(log) + 1) /\ Len(log) \in Nat
      /\ more[Len(log) + 1] = x /\ \A a \in 1 .. Len(log) : more[a] = log[a]
  BY RowType
<1> HIDE DEF log, more
<1>2. Done(more) = Done(log) /\ Undone(more) = Undone(log)
  BY <1>1
<1>3. \A a \in Done(log) \cup Undone(log) : more[a] = log[a]
  BY <1>1
<1>4. /\ \A a \in Done(log) : \E k \in Undone(log) : a < k /\ log[k][2] = log[a][2]
      /\ \A k \in Undone(log) : \E a \in Done(log) : log[k][2] = log[a][2]
      /\ \A a, b \in Done(log), k, l \in Undone(log) :
           log[k][2] = log[a][2] /\ log[l][2] = log[b][2] => (a < b <=> l < k)
  BY DEF Reversed, log
<1> HIDE DEF Done, Undone
<1>5. /\ \A a \in Done(more) : \E k \in Undone(more) : a < k /\ more[k][2] = more[a][2]
      /\ \A k \in Undone(more) : \E a \in Done(more) : more[k][2] = more[a][2]
      /\ \A a, b \in Done(more), k, l \in Undone(more) :
           more[k][2] = more[a][2] /\ more[l][2] = more[b][2] => (a < b <=> l < k)
  <2>1. /\ \A a \in Done(log) : \E k \in Undone(log) : a < k /\ more[k][2] = more[a][2]
        /\ \A k \in Undone(log) : \E a \in Done(log) : more[k][2] = more[a][2]
    BY <1>3, <1>4
  <2>2. ASSUME NEW a \in Done(log), NEW b \in Done(log), NEW k \in Undone(log), NEW l \in Undone(log),
               more[k][2] = more[a][2], more[l][2] = more[b][2]
        PROVE a < b <=> l < k
    <3>1. log[k][2] = log[a][2] /\ log[l][2] = log[b][2]
      BY <1>3, <2>2
    <3> QED
      BY <1>4, <3>1
  <2> QED
    BY <1>2, <2>1, <2>2
<1> QED
  BY <1>5 DEF Reversed, Done, Undone, more

\* What Undo and FinishFailure do with a pass.
LEMMA FailureIs ==
  ASSUME IInv, Works, Unwinds, NEW w \in Workers, Undo(w) \/ FinishFailure(w)
  PROVE LET t == tx[w]
            r == t.row
        IN /\ Passing(w) /\ t.verdict # "none" /\ run' = run
           /\ t \in Passes /\ r \in Rows /\ Worked(r) /\ r.node \in Nodes /\ Unwinding(t)
           /\ t.cursor \in Nat /\ t.cursor <= Len(r.steps) /\ t.verdict \in {"FAILED", "DEAD_LETTER"}
           /\ \E u \in Passes, x \in Events \X Nodes :
                /\ tx' = [tx EXCEPT ![w] = u]
                /\ u.row.steps = r.steps /\ u.row.node = r.node /\ u.row.log = Append(r.log, x)
                /\ u.row.flow = r.flow /\ u.row.revived = r.revived
                /\ \/ /\ u.verdict = "none" /\ u.row.status = t.verdict /\ x[1] = "failed" /\ ToUndo(t) = {}
                   \/ /\ u.verdict = t.verdict /\ u.row.status = r.status /\ Reverts(x)
                      /\ u.cursor + 1 \in ToUndo(t) /\ x[2] = r.steps[u.cursor + 1].node
                      /\ \A j \in ToUndo(t) : j <= u.cursor + 1
<1> DEFINE t == tx[w]
           r == t.row
<1>1. Passing(w) /\ t.verdict # "none" /\ run' = run
  BY DEF Undo, FinishFailure
<1>2. t \in Passes /\ r \in Rows /\ Worked(r) /\ r.node \in Nodes /\ t.cursor \in Nat /\ t.cursor <= Len(r.steps)
      /\ t.verdict \in {"FAILED", "DEAD_LETTER"} /\ Unwinding(t)
  BY <1>1, PassWorked, PassIs, PassType DEF Carried, Unwinds
<1> DEFINE Keeps(u, x) == /\ u.row.steps = r.steps /\ u.row.node = r.node /\ u.row.log = Append(r.log, x)
                          /\ u.row.flow = r.flow /\ u.row.revived = r.revived
           Finishes(u, x) == u.verdict = "none" /\ u.row.status = t.verdict /\ x[1] = "failed" /\ ToUndo(t) = {}
           Undoes(u, x) == /\ u.verdict = t.verdict /\ u.row.status = r.status /\ Reverts(x)
                          /\ u.cursor + 1 \in ToUndo(t) /\ x[2] = r.steps[u.cursor + 1].node
                          /\ \A j \in ToUndo(t) : j <= u.cursor + 1
<1>3. ASSUME Undo(w)
      PROVE \E u \in Passes, x \in Events \X Nodes : tx' = [tx EXCEPT ![w] = u] /\ Keeps(u, x) /\ (Finishes(u, x) \/ Undoes(u, x))
  <2>1. PICK i \in ToUndo(t), what \in {"undone", "undo_failed"} :
          /\ \A j \in ToUndo(t) : j <= i
          /\ tx' = [tx EXCEPT ![w].row.log = Append(@, <<what, r.steps[i].node>>), ![w].cursor = i - 1]
    BY <1>3 DEF Undo
  <2> DEFINE n == r.steps[i].node
             x == <<what, n>>
             s == [r EXCEPT !.log = Append(r.log, x)]
             u == [t EXCEPT !.row = s, !.cursor = i - 1]
  <2>2. tx' = [tx EXCEPT ![w] = u]
    BY <2>1
  <2>3. i \in 1 .. Len(r.steps) /\ i - 1 \in Nat /\ (i - 1) + 1 = i
    BY <1>2, RowType DEF ToUndo
  <2>4. n \in Nodes /\ what \in Events /\ r.log \in Seq(Events \X Nodes)
    <3>1. r.steps[i] \in Steps
      BY <1>2, <2>3, RowType
    <3> QED
      BY <1>2, <3>1, RowType DEF Steps, Events
  <2>5. x \in Events \X Nodes /\ Reverts(x) /\ x[2] = n
    BY <2>4 DEF Reverts
  <2>6. u.row = s /\ u.cursor = i - 1 /\ u.verdict = t.verdict
    BY <1>2 DEF Passes
  <2> HIDE DEF x, n, t
  <2>7. Append(r.log, x) \in Seq(Events \X Nodes)
    BY <2>4, <2>5
  <2>8. s \in Rows /\ s.log = Append(r.log, x) /\ s.steps = r.steps /\ s.node = r.node /\ s.flow = r.flow
        /\ s.revived = r.revived /\ s.status = r.status
    BY <1>2, <2>7 DEF Rows
  <2> HIDE DEF s
  <2>9. u \in Passes
    BY <1>2, <2>3, <2>8 DEF Passes
  <2> HIDE DEF u
  <2>10. Keeps(u, x)
    BY <2>6, <2>8
  <2>11. Undoes(u, x)
    BY <2>1, <2>3, <2>5, <2>6, <2>8 DEF n, t
  <2> QED
    BY <2>2, <2>5, <2>9, <2>10, <2>11
<1>4. ASSUME FinishFailure(w)
      PROVE \E u \in Passes, x \in Events \X Nodes : tx' = [tx EXCEPT ![w] = u] /\ Keeps(u, x) /\ (Finishes(u, x) \/ Undoes(u, x))
  <2> DEFINE s == [Note(r, "failed") EXCEPT !.status = t.verdict]
             u == [t EXCEPT !.row = s, !.verdict = "none"]
             x == <<"failed", r.node>>
  <2>1. tx' = [tx EXCEPT ![w] = u] /\ ToUndo(t) = {}
    BY <1>4 DEF FinishFailure
  <2>2. u.row = s /\ u.verdict = "none"
    BY <1>2 DEF Passes
  <2>3. x \in Events \X Nodes /\ x[1] = "failed" /\ "failed" \in Events
    BY <1>2 DEF Events
  <2>4. Note(r, "failed") \in Rows /\ Note(r, "failed") = [r EXCEPT !.log = Append(r.log, x)]
    BY <1>2, <2>3, NoteIs
  <2>5. /\ s \in Rows /\ s.log = Append(r.log, x) /\ s.steps = r.steps /\ s.node = r.node
        /\ s.flow = r.flow /\ s.revived = r.revived /\ s.status = t.verdict
    BY <1>2, <2>4 DEF Rows, Terminal
  <2> HIDE DEF s
  <2>6. u \in Passes
    BY <1>2, <2>5 DEF Passes
  <2> HIDE DEF u, x
  <2>7. Keeps(u, x) /\ Finishes(u, x)
    BY <2>1, <2>2, <2>3, <2>5
  <2> QED
    BY <2>1, <2>3, <2>6, <2>7
<1>5. \E u \in Passes, x \in Events \X Nodes : tx' = [tx EXCEPT ![w] = u] /\ Keeps(u, x) /\ (Finishes(u, x) \/ Undoes(u, x))
  BY <1>3, <1>4
<1> QED
  BY <1>1, <1>2, <1>5

LEMMA UndoWorks ==
  ASSUME IInv, Works, Unwinds, NEW w \in Workers, Undo(w) \/ FinishFailure(w)
  PROVE Works'
<1> DEFINE t == tx[w]
           r == t.row
<1>1. /\ t \in Passes /\ r \in Rows /\ Worked(r) /\ Unwinding(t) /\ t.cursor <= Len(r.steps) /\ run' = run
      /\ t.verdict \in {"FAILED", "DEAD_LETTER"}
  BY FailureIs
<1>2. PICK u \in Passes, x \in Events \X Nodes :
        /\ tx' = [tx EXCEPT ![w] = u]
        /\ u.row.steps = r.steps /\ u.row.node = r.node /\ u.row.log = Append(r.log, x)
        /\ u.row.flow = r.flow /\ u.row.revived = r.revived
        /\ \/ /\ u.verdict = "none" /\ u.row.status = t.verdict /\ x[1] = "failed" /\ ToUndo(t) = {}
           \/ /\ u.verdict = t.verdict /\ u.row.status = r.status /\ Reverts(x)
              /\ u.cursor + 1 \in ToUndo(t) /\ x[2] = r.steps[u.cursor + 1].node
              /\ \A j \in ToUndo(t) : j <= u.cursor + 1
  BY FailureIs
<1> DEFINE s == u.row
<1>3. s \in Rows /\ x[1] \notin {"done", "decided"}
  BY <1>2, PassType DEF Reverts
<1> HIDE DEF s
<1>4. /\ Tallied(s) /\ Ranked(s)
      /\ (DecidedTwice(s) => DecidedTwice(r)) /\ (DecidedTwice(r) => DecidedTwice(s))
  BY <1>1, <1>2, <1>3, NotedRanked DEF s
<1>5. Told(s)
  <2> SUFFICES ASSUME Judged(s)
               PROVE s.status \in Closing /\ (s.log[Len(s.log)][1] = "failed" => Reversed(s.log))
    BY DEF Told
  <2>1. Judged(r)
    BY <1>2, <1>4 DEF Judged, s
  <2>2. s.log = Append(r.log, x) /\ s.log[Len(s.log)] = x
    BY <1>1, <1>2, RowType DEF s
  <2>3. CASE s.status = t.verdict /\ x[1] = "failed" /\ ToUndo(t) = {}
    <3>1. Reversed(r.log)
      BY <1>1, <2>1, <2>3, UnwoundReverses
    <3> QED
      BY <1>1, <2>2, <2>3, <3>1, ReversedNoted DEF Closing, Terminal
  <2>4. CASE s.status = r.status /\ Reverts(x)
    <3>1. r.status = "COMPENSATING"
      BY <1>1, <2>1 DEF Unwinding
    <3> QED
      BY <2>2, <2>4, <3>1 DEF Closing, Reverts
  <2> QED
    BY <1>2, <2>3, <2>4 DEF s
<1>6. Worked(u.row)
  BY <1>4, <1>5 DEF Worked, s
<1> QED
  BY <1>1, <1>2, <1>6, PassWorks DEF IInv

\* A pass ends.
LEMMA PassEnds ==
  ASSUME IInv, NEW w \in Workers,
         Commit(w) \/ RecordFailure(w) \/ RollBack(w) \/ RequestTwice(w) \/ Crash(w)
  PROVE Subsides
<1>1. faults' \in 0 .. MaxFaults
  BY LimitsAssumption DEF Commit, RecordFailure, RollBack, RequestTwice, Crash, Fault, IInv, TypeOK
<1>2. tx' = [tx EXCEPT ![w] = None] \/ \E e \in Execs : tx' = [tx EXCEPT ![w] = [failed |-> e]]
  <2>1. Passing(w) => tx[w].e \in Execs
    BY PassIs
  <2> QED
    BY <2>1 DEF Commit, RecordFailure, RollBack, RequestTwice, AtNode, Crash
<1>3. req' = req /\ demand' = demand
  BY DEF Commit, RecordFailure, RollBack, RequestTwice, Crash
<1> QED
  BY <1>1, <1>2, <1>3 DEF Subsides, IInv, TypeOK

LEMMA CommitWorks ==
  ASSUME IInv, Works, NEW w \in Workers, Commit(w)
  PROVE Works'
<1> DEFINE t == tx[w]
<1>1. Passing(w) /\ t \in Passes /\ Carried(t) /\ Worked(t.row)
  BY PassIs, PassWorked DEF Commit
<1>2. t.child # 0 => Worked(t.born)
  BY <1>1, NewbornWorks DEF Carried, Bears
<1>3. 0 \notin Execs
  BY DEF Execs
<1>4. ASSUME NEW e \in Execs PROVE run'[e] = run[e] \/ Worked(run'[e])
  <2>1. run'[e] = CASE e = t.e -> t.row [] e = t.child -> t.born [] OTHER -> run[e]
    BY DEF Commit
  <2>2. CASE e = t.e
    <3>1. run'[e] = t.row \/ (e = t.child /\ run'[e] = t.born)
      BY <2>1, <2>2
    <3> QED
      BY <1>1, <1>2, <1>3, <3>1
  <2>3. CASE e # t.e /\ e = t.child
    BY <1>2, <1>3, <2>1, <2>3
  <2>4. CASE e # t.e /\ e # t.child
    BY <2>1, <2>4
  <2> QED
    BY <2>2, <2>3, <2>4
<1> QED
  BY <1>4, PassEnds, RunWorks DEF IInv

LEMMA RecordFailureWorks ==
  ASSUME IInv, Works, NEW w \in Workers, RecordFailure(w)
  PROVE Works'
<1>0. PICK e \in Execs : e = tx[w].failed
  BY Types DEF RecordFailure, IInv
<1>1. ASSUME NEW d \in Execs PROVE run'[d] = run[d] \/ Worked(run'[d])
  <2>1. CASE ~Exists(e)
    BY <1>0, <2>1 DEF RecordFailure
  <2>2. CASE Exists(e)
    <3> DEFINE r == run[e]
               dead == r.tries + 1 >= MaxAttempts
               status == IF dead THEN "DEAD_LETTER" ELSE "RETRY"
               back == r.revived \/ (Ended(e) /\ ~dead)
               s == [r EXCEPT !.tries = r.tries + 1, !.due = FALSE, !.status = status, !.revived = back]
    <3>1. run' = [run EXCEPT ![e] = s]
      BY <1>0, <2>2 DEF RecordFailure, IInv, TypeOK
    <3>2. r \in Rows /\ Worked(r)
      BY <2>2, RowIs DEF Works
    <3>3. r.tries + 1 \in Nat /\ status \in {"DEAD_LETTER", "RETRY"} /\ back \in BOOLEAN
      BY <3>2, RowType DEF Ended, Rows
    <3>5. (r.revived => back) /\ (r.status \in Closing => status \in Closing \/ back)
      <4>1. r.status # "COMPENSATING"
        BY <2>2, RowIs
      <4> QED
        BY <4>1 DEF Ended, Closing, Terminal
    <3> HIDE DEF status, back, r
    <3>4. /\ s \in Rows /\ s.steps = r.steps /\ s.log = r.log /\ s.node = r.node /\ s.flow = r.flow
          /\ s.status = status /\ s.revived = back
      BY <3>2, <3>3 DEF Rows, Terminal, Claimable
    <3> HIDE DEF s
    <3>6. Worked(s)
      <4>1. Idle(r, s)
        BY <3>2, <3>4, <3>5, IdlePlace
      <4> QED
        BY <3>2, <4>1, IdleWorks
    <3> QED
      BY <3>1, <3>6 DEF IInv, TypeOK
  <2> QED
    BY <2>1, <2>2
<1> QED
  BY <1>1, PassEnds, RunWorks DEF IInv

LEMMA EndStepWorks ==
  ASSUME IInv, Works, Unwinds, NEW w \in Workers, EndStep(w) \/ RollBack(w) \/ RequestTwice(w) \/ Crash(w)
  PROVE Works'
<1>1. CASE RollBack(w) \/ RequestTwice(w) \/ Crash(w)
  <2>1. run' = run
    BY <1>1 DEF RollBack, RequestTwice, Crash
  <2> QED
    BY <1>1, <2>1, PassEnds, RunWorks DEF IInv
<1> QED
  BY <1>1, UndoWorks, CommitWorks, RecordFailureWorks DEF EndStep

\* An execution that is cancelled.
LEMMA CancelledWorks ==
  ASSUME NEW r \in Rows, Sound(r), Worked(r), NEW read \in Copies, Since(r, read)
  PROVE Worked(Cancelled(r, read))
<1> DEFINE s == Cancelled(r, read)
           x == <<"cancelled", read.node>>
<1>1. s \in Rows /\ s.node = r.node /\ s.log = Append(r.log, x) /\ \A n \in Nodes : StepOf(s, n).status = StepOf(r, n).status
      /\ Traced(r, s) /\ s.flow = r.flow /\ (r.revived => s.revived) /\ s.status \in Closing
  BY SoundCancel DEF Grown, Closing, Terminal
<1>2. x \in Events \X Nodes /\ x[1] \notin Marks
  BY CopyType DEF Events, Marks
<1> HIDE DEF s, x
<1>3. Idle(r, s)
  BY <1>1, <1>2 DEF Idle, Acts
<1>4. Worked(s)
  BY <1>3, IdleWorks
<1> QED
  BY <1>4 DEF s

\* One execution is rewritten, or created.
LEMMA OneWorks ==
  ASSUME IInv, Works, Subsides, NEW e \in Execs, NEW s, run' = [run EXCEPT ![e] = s], s = Purged \/ Worked(s)
  PROVE Works'
<1>1. \A d \in Execs : run'[d] \in {run[d], Purged} \/ Worked(run'[d])
  BY DEF IInv, TypeOK
<1> QED
  BY <1>1, RunWorks DEF IInv

LEMMA RowWorked ==
  ASSUME IInv, Works, NEW e \in Execs, Exists(e)
  PROVE run[e] \in Rows /\ Sound(run[e]) /\ Worked(run[e]) /\ run[e].node \in Nodes
        /\ run[e].status # "COMPENSATING"
BY RowIs DEF Works

LEMMA StartWorks ==
  ASSUME IInv, Works, NEW f \in Flows, Start(f)
  PROVE Works'
<1>1. PICK e \in Execs : run' = [run EXCEPT ![e] = NewRow(f, <<>>)]
  BY DEF Start
<1>2. Worked(NewRow(f, <<>>))
  BY NewRowIs, NewbornWorks
<1>3. Subsides
  BY DEF Start, Subsides, IInv, TypeOK
<1> QED
  BY <1>1, <1>2, <1>3, OneWorks

LEMMA ExecutionWorks ==
  ASSUME IInv, Works, NEW e \in Execs, Replay(e) \/ BecomeDue(e) \/ Cancel(e) \/ Purge(e)
  PROVE Works'
<1>1. CASE Replay(e)
  <2>1. run[e].flow \in Flows
    BY <1>1, Types, RowType DEF Replay, IInv
  <2> QED
    BY <1>1, <2>1, StartWorks DEF Replay
<1>2. CASE BecomeDue(e)
  <2> DEFINE r == run[e]
             p == [r EXCEPT !.due = TRUE]
             s == IF p.status = "WAITING_APPROVAL" THEN Lapsed(p, p.node) ELSE p
  <2>1. run' = [run EXCEPT ![e] = s] /\ Exists(e)
    BY <1>2 DEF BecomeDue
  <2>2. r \in Rows /\ Worked(r) /\ r.node \in Nodes
    BY <2>1, RowWorked
  <2> HIDE DEF r
  <2>3. p \in Rows /\ p.node = r.node /\ p.steps = r.steps /\ p.log = r.log
        /\ p.flow = r.flow /\ p.status = r.status /\ p.revived = r.revived
    BY <2>2 DEF Rows
  <2> HIDE DEF p
  <2>4. Worked(p)
    <3>1. Idle(r, p)
      BY <2>2, <2>3, IdlePlace
    <3> QED
      BY <2>2, <3>1, IdleWorks
  <2>5. Worked(Lapsed(p, p.node))
    <3>1. Idle(p, Lapsed(p, p.node))
      BY <2>2, <2>3, IdleLapsed
    <3> QED
      BY <2>3, <2>4, <3>1, IdleWorks
  <2>6. Worked(s)
    BY <2>4, <2>5
  <2>7. Subsides
    BY <1>2 DEF BecomeDue, Subsides, IInv, TypeOK
  <2> HIDE DEF s
  <2> QED
    BY <2>1, <2>6, <2>7, OneWorks
<1>3. CASE Cancel(e)
  <2>1. run' = [run EXCEPT ![e] = Cancelled(run[e], CopyOf(run[e]))] /\ Exists(e)
    BY <1>3 DEF Cancel
  <2>2. Worked(Cancelled(run[e], CopyOf(run[e])))
    BY <2>1, RowWorked, CopyIs, CancelledWorks
  <2>3. Subsides
    BY <1>3 DEF Cancel, Subsides, IInv, TypeOK
  <2> QED
    BY <2>1, <2>2, <2>3, OneWorks
<1>4. CASE Purge(e)
  <2>1. run' = [run EXCEPT ![e] = Purged]
    BY <1>4 DEF Purge
  <2>2. Subsides
    BY <1>4 DEF Purge, Subsides, IInv, TypeOK
  <2> QED
    BY <2>1, <2>2, OneWorks
<1> QED
  BY <1>1, <1>2, <1>3, <1>4

LEMMA DecideWorks ==
  ASSUME IInv, Works, NEW o \in Operators, NEW decision \in {"APPROVED", "REJECTED"}, Decide(o, decision)
  PROVE Works'
<1>0. PICK e \in Execs, n \in Nodes : e = req[o].decide /\ n = req[o].node
  BY Types DEF Decide, IInv
<1>1. PICK s : run' = [run EXCEPT ![e] = s] /\ Decides(run[e], n, s)
  BY <1>0, DecideRewrites
<1>2. Exists(e) /\ Approval(run[e], n) # "none"
  BY <1>0 DEF Decide, IInv, Asked
<1>3. Worked(s)
  BY <1>1, <1>2, RowWorked, DecisionWorks DEF Sound
<1>4. Subsides
  BY DEF Decide, Subsides, IInv, TypeOK
<1> QED
  BY <1>1, <1>3, <1>4, OneWorks

LEMMA RequestWorks ==
  ASSUME IInv, Works, NEW o \in Operators, Request(o)
  PROVE Works'
<1>1. CASE Lapse(o)
  <2>1. PICK e \in Execs, n \in Nodes : e = req[o].decide /\ n = req[o].node
    BY <1>1, Types DEF Lapse, IInv
  <2>2. run' = [run EXCEPT ![e] = Lapsed(run[e], n)] /\ Exists(e) /\ Approval(run[e], n) # "none"
    BY <1>1, <2>1 DEF Lapse, IInv, TypeOK, Asked
  <2>3. Worked(Lapsed(run[e], n))
    <3>1. Idle(run[e], Lapsed(run[e], n))
      BY <2>2, RowWorked, IdleLapsed
    <3> QED
      BY <2>2, <3>1, RowWorked, IdleWorks
  <2>4. Subsides
    BY <1>1 DEF Lapse, Subsides, IInv, TypeOK
  <2> QED
    BY <2>2, <2>3, <2>4, OneWorks
<1>2. CASE DecideLate(o)
  <2>1. PICK e \in Execs, n \in Nodes : e = req[o].decide /\ n = req[o].node
    BY <1>2, Types DEF DecideLate, IInv
  <2> DEFINE s == SetApproval(run[e], n, "EXPIRED")
  <2>2. run' = [run EXCEPT ![e] = s] /\ Exists(e) /\ Approval(run[e], n) # "none"
    BY <1>2, <2>1 DEF DecideLate, IInv, TypeOK, Asked
  <2>3. Approves(run[e], n, "EXPIRED", s)
    BY <2>2, RowWorked, SetApprovalIs
  <2> HIDE DEF s
  <2>4. Worked(s)
    <3>1. Idle(run[e], s)
      BY <2>2, <2>3, RowWorked, IdleApproves
    <3> QED
      BY <2>2, <3>1, RowWorked, IdleWorks
  <2>5. Subsides
    BY <1>2 DEF DecideLate, Subsides, IInv, TypeOK
  <2> QED
    BY <2>2, <2>4, <2>5, OneWorks
<1>3. CASE CommitCancel(o)
  <2>1. PICK q \in Cancellations : q = req[o] /\ Tracks(q)
    BY <1>3, CancellingIs DEF CommitCancel, AtStage
  <2>2. /\ UNCHANGED <<tx, demand, faults>> /\ req' = [req EXCEPT ![o] = None]
        /\ run' = [e \in Execs |-> CASE e = q.cancel -> Cancelled(run[e], CopyOf(run[e]))
                                     [] e \in Reached(q) \ {q.cancel} -> Cancelled(run[e], q.copy[e])
                                     [] OTHER -> run[e]]
    BY <1>3, <2>1 DEF CommitCancel
  <2>3. ASSUME NEW e \in Execs PROVE run'[e] = run[e] \/ Worked(run'[e])
    <3>1. CASE e = q.cancel
      <4>1. run'[e] = Cancelled(run[e], CopyOf(run[e])) /\ Exists(e)
        BY <2>1, <2>2, <3>1 DEF Tracks
      <4> QED
        BY <4>1, RowWorked, CopyIs, CancelledWorks
    <3>2. CASE e \in Reached(q) \ {q.cancel}
      <4>1. PICK x \in Copies : x = q.copy[e]
        BY <3>2, RequestType
      <4>2. run'[e] = Cancelled(run[e], x) /\ Exists(e) /\ Since(run[e], x)
        BY <2>1, <2>2, <3>2, <4>1 DEF Tracks
      <4> QED
        BY <4>2, RowWorked, CancelledWorks
    <3> QED
      BY <2>2, <3>1, <3>2
  <2>4. Subsides
    BY <2>2 DEF Subsides, IInv, TypeOK
  <2> QED
    BY <2>3, <2>4, RunWorks DEF IInv
<1>4. CASE \E e \in Execs : CancelTree(o, e) \/ \E n \in Nodes : OpenApproval(o, e, n)
  <2>1. run' = run /\ tx' = tx
    BY <1>4 DEF CancelTree, OpenApproval
  <2> QED
    BY <2>1 DEF Works, Exists, Passing
<1>5. CASE ReadChild(o) \/ ReadApprovals(o) \/ ReadNumber(o) \/ FlushCancel(o) \/ AbandonCancel(o)
  <2>1. run' = run /\ tx' = tx
    BY <1>5 DEF ReadChild, ReadApprovals, ReadNumber, FlushCancel, AbandonCancel
  <2> QED
    BY <2>1 DEF Works, Exists, Passing
<1> QED
  BY <1>1, <1>2, <1>3, <1>4, <1>5, DecideWorks DEF Request, CancelStep

LEMMA NextWorks ==
  ASSUME IInv, Works, Unwinds, [Next]_vars
  PROVE Works'
<1>1. CASE UNCHANGED vars
  BY <1>1 DEF vars, Works, Exists, Passing
<1>2. ASSUME NEW w \in Workers, NodeStep(w) PROVE Works'
  BY <1>2, CompleteWorks, EvaluateConditionWorks, ActionSucceedsWorks, ActionFailsWorks, WaitWorks,
     SubflowUnavailableWorks, EndStepWorks DEF NodeStep
<1> QED
  BY <1>1, <1>2, StartWorks, ExecutionWorks, ClaimStepWorks, EndStepWorks, RequestWorks DEF Next

\* A pass that fails has compensated nothing yet.
LEMMA FailureBegins ==
  ASSUME NEW r \in Rows, Worked(r), r.status \notin Closing, NEW u, u.row = Failing(r), u.cursor = Len(r.steps)
  PROVE Unwinding(u)
<1> DEFINE s == Failing(r)
           x == <<"compensating", r.node>>
<1>1. s \in Rows /\ s.steps = r.steps /\ s.flow = r.flow /\ (r.revived => s.revived)
  BY FailingIs DEF Plain
<1>2. Len(r.steps) \in Nat /\ Len(r.log) \in Nat /\ r.log \in Seq(Events \X Nodes)
  BY RowType
<1>3. ASSUME Judged(s)
      PROVE s.status = "COMPENSATING" /\ \A k \in 1 .. Len(s.log) : ~Reverts(s.log[k])
  <2> DEFINE p == Note(r, "compensating")
  <2>1. x \in Events \X Nodes /\ "compensating" \in Events /\ ~Reverts(x)
    BY RowType DEF Events, Reverts
  <2>2. p \in Rows /\ p = [r EXCEPT !.log = Append(r.log, x)]
    BY <2>1, NoteIs
  <2>3. s = [p EXCEPT !.status = "COMPENSATING"]
    BY <1>1, <1>3 DEF Judged, Failing
  <2> HIDE DEF p, s, x
  <2>4. s.status = "COMPENSATING" /\ s.log = Append(r.log, x)
    BY <2>2, <2>3 DEF Rows
  <2>5. ~DecidedTwice(r)
    BY <1>1, <1>3, <2>1, <2>4, Appended DEF Judged
  <2>6. Judged(r)
    BY <1>1, <1>3, <2>5 DEF Judged
  <2>7. \A k \in 1 .. Len(r.log) : ~Reverts(r.log[k])
    BY <2>6 DEF Worked, Told
  <2> QED
    BY <1>2, <2>1, <2>4, <2>7
<1>4. Handled(u) = {}
  BY <1>1, <1>2 DEF Handled
<1> HIDE DEF s
<1>5. Judged(s) => Unwinding(u)
  BY <1>3, <1>4 DEF Unwinding, TakesBack, s
<1> QED
  BY <1>5 DEF Unwinding, s

\* The last step that is left is undone: it is the first of those handled.
LEMMA UndoneHandled ==
  ASSUME NEW t \in Passes, NEW u \in Passes, u.row.steps = t.row.steps, t.cursor <= Len(t.row.steps),
         t.row.flow \in Compensating, u.cursor + 1 \in ToUndo(t), \A j \in ToUndo(t) : j <= u.cursor + 1
  PROVE /\ Handled(u) = Handled(t) \cup {u.cursor + 1}
        /\ \A i \in Handled(u) : i \in 1 .. Len(t.row.steps)
        /\ \A i \in Handled(t) : u.cursor + 1 < i
<1> DEFINE steps == t.row.steps
           i0 == u.cursor + 1
           Fit(i) == steps[i].status = "SUCCEEDED" /\ steps[i].node \in Undoable
<1>1. t.cursor \in Nat /\ u.cursor \in Nat /\ Len(steps) \in Nat
  BY PassType, RowType
<1>2. i0 \in 1 .. t.cursor /\ Fit(i0) /\ \A i \in 1 .. t.cursor : Fit(i) => i <= i0
  BY DEF ToUndo
<1>3. /\ Handled(t) = {i \in (t.cursor + 1) .. Len(steps) : Fit(i)}
      /\ Handled(u) = {i \in i0 .. Len(steps) : Fit(i)}
  BY DEF Handled
<1> HIDE DEF Fit, steps
<1>4. t.cursor <= Len(steps)
  BY DEF steps
<1>5. Handled(u) = Handled(t) \cup {i0}
  BY <1>1, <1>2, <1>3, <1>4
<1>6. \A i \in Handled(u) : i \in 1 .. Len(steps)
  BY <1>1, <1>3
<1>7. \A i \in Handled(t) : i0 < i
  BY <1>1, <1>2, <1>3
<1> QED
  BY <1>5, <1>6, <1>7 DEF steps

LEMMA UndoUnwinds ==
  ASSUME NEW t \in Passes, NEW u \in Passes, NEW x \in Events \X Nodes, Worked(t.row), Unwinding(t),
         t.cursor <= Len(t.row.steps), Reverts(x),
         u.row.steps = t.row.steps, u.row.node = t.row.node, u.row.log = Append(t.row.log, x),
         u.row.flow = t.row.flow, u.row.revived = t.row.revived, u.row.status = t.row.status,
         u.cursor + 1 \in ToUndo(t), x[2] = t.row.steps[u.cursor + 1].node,
         \A j \in ToUndo(t) : j <= u.cursor + 1
  PROVE Unwinding(u)
<1> DEFINE r == t.row
           s == u.row
           i0 == u.cursor + 1
           K == Len(r.log)
<1>1. r \in Rows /\ s \in Rows /\ x[1] \notin {"done", "decided"}
  BY PassType DEF Reverts
<1>2. K \in Nat /\ Len(s.log) = K + 1 /\ s.log[K + 1] = x /\ \A k \in 1 .. K : s.log[k] = r.log[k]
  BY <1>1, RowType
<1> SUFFICES ASSUME Judged(s) PROVE Unwinding(u)
  BY DEF Unwinding
<1>3. Judged(r) /\ ~DecidedTwice(r) /\ r.flow \in Compensating
  <2>1. ~DecidedTwice(r)
    BY <1>1, NotedRanked DEF Judged
  <2> QED
    BY <2>1 DEF Judged
<1>4. \A i, j \in 1 .. Len(r.steps) : r.steps[i].node = r.steps[j].node => i = j
  BY <1>3 DEF Worked, Ranked
<1>5. /\ Handled(u) = Handled(t) \cup {i0} /\ \A i \in Handled(t) : i0 < i
      /\ \A i \in Handled(u) : i \in 1 .. Len(r.steps)
  BY <1>3, UndoneHandled
<1>6. /\ r.status = "COMPENSATING"
      /\ \A k \in 1 .. K : Reverts(r.log[k]) => \E i \in Handled(t) : r.log[k][2] = r.steps[i].node
      /\ \A i \in Handled(t) : \E k \in 1 .. K : TakesBack(r, k, i)
      /\ \A a, k \in 1 .. K : r.log[a][1] = "done" /\ Reverts(r.log[k]) => a < k
      /\ \A i, j \in Handled(t), k, l \in 1 .. K : TakesBack(r, k, i) /\ TakesBack(r, l, j) /\ i <= j => l <= k
  BY <1>3 DEF Unwinding
<1>7. s.steps = r.steps /\ s.status = r.status /\ x[2] = r.steps[i0].node
  OBVIOUS
<1>8. \A k \in 1 .. K, i \in Handled(u) :
        (TakesBack(s, k, i) => TakesBack(r, k, i)) /\ (TakesBack(r, k, i) => TakesBack(s, k, i))
  BY <1>2, <1>7 DEF TakesBack
<1>9. TakesBack(s, K + 1, i0)
  BY <1>2, <1>7 DEF TakesBack
<1> DEFINE H == Handled(t)
           G == Handled(u)
<1> HIDE DEF r, s, i0, K, H, G
<1>10. \A k \in 1 .. (K + 1) : Reverts(s.log[k]) => \E i \in G : s.log[k][2] = s.steps[i].node
  <2> SUFFICES ASSUME NEW k \in 1 .. (K + 1), Reverts(s.log[k]) PROVE \E i \in G : s.log[k][2] = s.steps[i].node
    OBVIOUS
  <2>1. CASE k = K + 1
    BY <1>2, <1>5, <1>7, <2>1 DEF G
  <2>2. CASE k # K + 1
    <3>1. k \in 1 .. K /\ s.log[k] = r.log[k]
      BY <1>2, <2>2
    <3>2. PICK i \in Handled(t) : r.log[k][2] = r.steps[i].node
      BY <1>6, <3>1
    <3> QED
      BY <1>5, <1>7, <3>1, <3>2 DEF G
  <2> QED
    BY <2>1, <2>2
<1>11. \A i \in G : \E k \in 1 .. (K + 1) : TakesBack(s, k, i)
  <2> SUFFICES ASSUME NEW i \in G PROVE \E k \in 1 .. (K + 1) : TakesBack(s, k, i)
    OBVIOUS
  <2>1. CASE i = i0
    <3>1. K + 1 \in 1 .. (K + 1)
      BY <1>2
    <3> QED
      BY <1>9, <2>1, <3>1
  <2>2. CASE i # i0
    <3>1. i \in Handled(t)
      BY <1>5, <2>2 DEF G
    <3>2. PICK k \in 1 .. K : TakesBack(r, k, i)
      BY <1>6, <3>1
    <3>3. k \in 1 .. (K + 1) /\ TakesBack(s, k, i)
      BY <1>2, <1>8, <3>2 DEF G
    <3> QED
      BY <3>3
  <2> QED
    BY <2>1, <2>2
<1>12. \A a, k \in 1 .. (K + 1) : s.log[a][1] = "done" /\ Reverts(s.log[k]) => a < k
  <2> SUFFICES ASSUME NEW a \in 1 .. (K + 1), NEW k \in 1 .. (K + 1), s.log[a][1] = "done", Reverts(s.log[k])
               PROVE a < k
    OBVIOUS
  <2>1. a \in 1 .. K /\ s.log[a] = r.log[a]
    BY <1>1, <1>2
  <2>2. CASE k = K + 1
    BY <1>2, <2>1, <2>2
  <2>3. CASE k # K + 1
    <3>1. k \in 1 .. K /\ s.log[k] = r.log[k]
      BY <1>2, <2>3
    <3> QED
      BY <1>6, <2>1, <3>1
  <2> QED
    BY <2>2, <2>3
\* The new event is the last one, and of the first step.
<1>13. ASSUME NEW i \in G, NEW j \in G, NEW k \in 1 .. (K + 1), NEW l \in 1 .. (K + 1),
              TakesBack(s, k, i), TakesBack(s, l, j), i <= j
       PROVE l <= k
  <2>1. CASE k = K + 1
    BY <1>2, <2>1
  <2>2. CASE k # K + 1
    <3>1. k \in 1 .. K /\ TakesBack(r, k, i)
      BY <1>2, <1>8, <1>13, <2>2 DEF G
    <3>2. PICK m \in Handled(t) : r.log[k][2] = r.steps[m].node
      BY <1>6, <3>1 DEF TakesBack
    <3>3. i \in 1 .. Len(r.steps) /\ j \in 1 .. Len(r.steps) /\ m \in 1 .. Len(r.steps) /\ i0 \in 1 .. Len(r.steps)
      BY <1>5, <3>2 DEF G
    <3>4. i = m
      BY <1>4, <3>1, <3>2, <3>3 DEF TakesBack
    <3>5. i0 < i
      BY <1>5, <3>2, <3>4
    <3>6. j # i0
      BY <1>13, <3>3, <3>5
    <3>7. j \in Handled(t) /\ i \in Handled(t)
      BY <1>5, <3>2, <3>4, <3>6 DEF G
    <3>8. l # K + 1
      <4>1. l = K + 1 => r.steps[j].node = r.steps[i0].node
        BY <1>2, <1>7, <1>13 DEF TakesBack
      <4> QED
        BY <1>4, <3>3, <3>6, <4>1
    <3>9. l \in 1 .. K /\ TakesBack(r, l, j)
      BY <1>2, <1>8, <1>13, <3>8 DEF G
    <3> QED
      BY <1>6, <1>13, <3>1, <3>7, <3>9
  <2> QED
    BY <2>1, <2>2
<1>14. s.status = "COMPENSATING" /\ Len(s.log) = K + 1
  BY <1>2, <1>6, <1>7
<1> QED
  BY <1>10, <1>11, <1>12, <1>13, <1>14 DEF Unwinding, G, s

\* What a step makes of the passes that compensate.
LEMMA UnwindsOn ==
  ASSUME TypeOK, Unwinds, NEW w \in Workers, NEW u, tx' = [tx EXCEPT ![w] = u], u.verdict = "none" \/ Unwinding(u)
  PROVE Unwinds'
<1>1. tx'[w] = u /\ \A v \in Workers \ {w} : tx'[v] = tx[v]
  BY DEF TypeOK
<1> QED
  BY <1>1 DEF Unwinds, Passing

LEMMA SubsidesUnwinds ==
  ASSUME TypeOK, Unwinds, Subsides
  PROVE Unwinds'
<1>1. \A v \in Workers : Passing(v)' => Passing(v) /\ tx'[v] = tx[v]
  BY EndsRecede DEF Recedes, Passing
<1> QED
  BY <1>1 DEF Unwinds

LEMMA ClaimStepUnwinds ==
  ASSUME IInv, Works, Unwinds, NEW w \in Workers, NEW e \in Execs, ClaimStep(w, e)
  PROVE Unwinds'
<1>1. ASSUME NEW s, Pass(w, e, s, "none") PROVE Unwinds'
  <2> DEFINE u == [e |-> e, row |-> s, verdict |-> "none", cursor |-> Len(s.steps), child |-> 0, born |-> None]
  <2>1. tx' = [tx EXCEPT ![w] = u] /\ u.verdict = "none"
    BY <1>1 DEF Pass
  <2> HIDE DEF u
  <2> QED
    BY <2>1, UnwindsOn DEF IInv
<1>2. CASE SubflowFails(w, e) \/ SubflowTimesOut(w, e)
  <2> DEFINE r == run[e]
             s == Failing(r)
             u == [e |-> e, row |-> s, verdict |-> "FAILED", cursor |-> Len(s.steps), child |-> 0, born |-> None]
  <2>1. Claimed(w, e) /\ tx' = [tx EXCEPT ![w] = u]
    BY <1>2 DEF SubflowFails, SubflowTimesOut, WaitsForChild, Pass
  <2>2. r \in Rows /\ Worked(r) /\ r.status \notin Closing
    BY <2>1, ClaimedWorked
  <2>3. u.row = Failing(r) /\ u.cursor = Len(r.steps)
    BY <2>2, FailingIs
  <2> HIDE DEF u, r
  <2>4. Unwinding(u)
    BY <2>2, <2>3, FailureBegins
  <2> QED
    BY <2>1, <2>4, UnwindsOn DEF IInv
<1>3. CASE Defer(w, e) \/ Begin(w, e) \/ ResumeTimer(w, e) \/ ResumeApprovalTimeout(w, e)
           \/ PollSubflow(w, e) \/ ResumeSubflow(w, e)
  <2>1. \E s : Pass(w, e, s, "none")
    BY <1>3 DEF Defer, Begin, ResumeTimer, ResumeApprovalTimeout, PollSubflow, ResumeSubflow
  <2> QED
    BY <1>1, <2>1
<1> QED
  BY <1>2, <1>3 DEF ClaimStep

LEMMA FailsUnwinds ==
  ASSUME IInv, Unwinds, NEW w \in Workers, Passing(w), NEW p \in Rows, NEW verdict, Fails(w, p, verdict),
         Worked(p), p.status \notin Closing
  PROVE Unwinds'
<1> DEFINE s == Failing(p)
           u == [tx[w] EXCEPT !.row = s, !.verdict = verdict, !.cursor = Len(p.steps)]
<1>1. tx' = [tx EXCEPT ![w] = u]
  BY DEF Fails
<1> HIDE DEF s
<1>2. u.row = s /\ u.cursor = Len(p.steps)
  BY PassIs DEF Passes
<1> HIDE DEF u
<1>3. Unwinding(u)
  BY <1>2, FailureBegins DEF s
<1> QED
  BY <1>1, <1>3, UnwindsOn DEF IInv

LEMMA ActionFailsUnwinds ==
  ASSUME IInv, Works, Unwinds, NEW w \in Workers, NEW retryable \in BOOLEAN, ActionFails(w, retryable)
  PROVE Unwinds' \/ \E s : Becomes(w, s)
<1> DEFINE r == tx[w].row
           final == [Attempted(r) EXCEPT !.status = "FAILED"]
           q == PutStep(r, final)
<1>1. Passing(w) /\ r.status \notin Closing
  BY DEF ActionFails, AtNode, Closing, Terminal
<1>2. r \in Rows /\ Worked(r)
  BY <1>1, PassWorked
<1>3. (\E s : Becomes(w, s)) \/ \E verdict \in {"FAILED", "DEAD_LETTER"} : Fails(w, q, verdict)
  BY DEF ActionFails
<1> HIDE DEF r
<1>4. final \in Steps /\ final.node = r.node /\ final.status # "SUCCEEDED"
  BY <1>2, AttemptedIs DEF Steps
<1> HIDE DEF final
<1>5. q \in Rows /\ Worked(q) /\ q.status = r.status
  BY <1>2, <1>4, PutWorks
<1> HIDE DEF q
<1> QED
  BY <1>1, <1>3, <1>5, FailsUnwinds

LEMMA NodeStepUnwinds ==
  ASSUME IInv, Works, Unwinds, NEW w \in Workers, NodeStep(w)
  PROVE Unwinds'
<1>1. Passing(w) /\ tx[w].verdict = "none" /\ tx[w].row.status = "RUNNING"
  BY DEF NodeStep, Complete, EvaluateCondition, ActionSucceeds, ActionFails, StartTimer, StartSubflow,
         SubflowUnavailable, RequestApproval, RequestTwice, AtNode
<1>2. tx[w] \in Passes
  BY <1>1, PassIs
\* A pass that goes on has no verdict.
<1>3. ASSUME NEW s, Becomes(w, s) PROVE Unwinds'
  <2> DEFINE u == [tx[w] EXCEPT !.row = s]
  <2>1. tx' = [tx EXCEPT ![w] = u] /\ u.verdict = "none"
    BY <1>1, <1>2, <1>3 DEF Becomes, Passes
  <2> HIDE DEF u
  <2> QED
    BY <2>1, UnwindsOn DEF IInv
<1>4. CASE StartSubflow(w)
  <2> SUFFICES ASSUME NEW s, NEW c, NEW b, tx' = [tx EXCEPT ![w].row = s, ![w].child = c, ![w].born = b]
               PROVE Unwinds'
    BY <1>3, <1>4 DEF StartSubflow
  <2> DEFINE u == [tx[w] EXCEPT !.row = s, !.child = c, !.born = b]
  <2>1. tx' = [tx EXCEPT ![w] = u] /\ u.verdict = "none"
    BY <1>1, <1>2 DEF Passes
  <2> HIDE DEF u
  <2> QED
    BY <2>1, UnwindsOn DEF IInv
<1>5. CASE SubflowUnavailable(w)
  <2>1. Fails(w, tx[w].row, "FAILED") /\ tx[w].row.status \notin Closing
    BY <1>1, <1>5 DEF SubflowUnavailable, Closing, Terminal
  <2> QED
    BY <1>1, <2>1, PassWorked, FailsUnwinds
<1>6. CASE RequestTwice(w)
  BY <1>6, PassEnds, SubsidesUnwinds DEF IInv
<1>7. ASSUME NEW retryable \in BOOLEAN, ActionFails(w, retryable) PROVE Unwinds'
  BY <1>3, <1>7, ActionFailsUnwinds
<1>8. CASE Complete(w) \/ EvaluateCondition(w) \/ ActionSucceeds(w) \/ StartTimer(w) \/ RequestApproval(w)
  <2>1. \E s : Becomes(w, s)
    BY <1>8 DEF Complete, EvaluateCondition, ActionSucceeds, StartTimer, RequestApproval
  <2> QED
    BY <1>3, <2>1
<1> QED
  BY <1>4, <1>5, <1>6, <1>7, <1>8 DEF NodeStep

LEMMA EndStepUnwinds ==
  ASSUME IInv, Works, Unwinds, NEW w \in Workers, EndStep(w) \/ RollBack(w) \/ Crash(w)
  PROVE Unwinds'
<1>1. CASE Undo(w) \/ FinishFailure(w)
  <2> DEFINE t == tx[w]
             r == t.row
  <2>1. /\ t \in Passes /\ Worked(r) /\ Unwinding(t) /\ t.cursor <= Len(r.steps)
    BY <1>1, FailureIs
  <2>2. PICK u \in Passes, x \in Events \X Nodes :
          /\ tx' = [tx EXCEPT ![w] = u]
          /\ u.row.steps = r.steps /\ u.row.node = r.node /\ u.row.log = Append(r.log, x)
          /\ u.row.flow = r.flow /\ u.row.revived = r.revived
          /\ \/ /\ u.verdict = "none" /\ u.row.status = t.verdict /\ x[1] = "failed" /\ ToUndo(t) = {}
             \/ /\ u.verdict = t.verdict /\ u.row.status = r.status /\ Reverts(x)
                /\ u.cursor + 1 \in ToUndo(t) /\ x[2] = r.steps[u.cursor + 1].node
                /\ \A j \in ToUndo(t) : j <= u.cursor + 1
    BY <1>1, FailureIs
  <2> HIDE DEF t
  <2>3. u.verdict = "none" \/ Unwinding(u)
    BY <2>1, <2>2, UndoUnwinds
  <2> QED
    BY <2>2, <2>3, UnwindsOn DEF IInv
<1>2. CASE Commit(w) \/ RecordFailure(w) \/ RollBack(w) \/ Crash(w)
  BY <1>2, PassEnds, SubsidesUnwinds DEF IInv
<1> QED
  BY <1>1, <1>2 DEF EndStep

LEMMA NextUnwinds ==
  ASSUME IInv, Works, Unwinds, [Next]_vars
  PROVE Unwinds'
<1>1. CASE tx' = tx
  BY <1>1 DEF Unwinds, Passing
<1>2. CASE \/ UNCHANGED vars \/ \E f \in Flows : Start(f)
           \/ \E e \in Execs : Replay(e) \/ BecomeDue(e) \/ Cancel(e) \/ Purge(e)
           \/ \E o \in Operators : Request(o)
  <2>1. tx' = tx
    BY <1>2 DEF vars, Start, Replay, BecomeDue, Cancel, Purge, Request, CancelTree, OpenApproval, Decide, Lapse,
                DecideLate, CancelStep, ReadChild, ReadApprovals, ReadNumber, FlushCancel, CommitCancel, AbandonCancel
  <2> QED
    BY <1>1, <2>1
<1> QED
  BY <1>2, ClaimStepUnwinds, NodeStepUnwinds, EndStepUnwinds DEF Next

LEMMA Effects == Spec => [](IInv /\ Works /\ Unwinds)
<1>1. Init => Works /\ Unwinds
  BY DEF Init, Works, Unwinds, Exists, Passing
<1>2. IInv /\ Works /\ Unwinds /\ [Next]_vars => Works' /\ Unwinds'
  BY NextWorks, NextUnwinds
<1> QED
  BY <1>1, <1>2, Invariant, PTL DEF Spec

\* An action's effect is committed exactly once, with its step, whatever passes
\* roll back, die and are repeated (process_workflow_execution and the savepoint
\* of _handle_action_node); it can only be repeated by a second decision of one
\* approval, and then not oftener than there were decisions.
THEOREM EffectsOnce == Spec => []DoneOnce
<1>1. ASSUME IInv, Works PROVE DoneOnce
  <2> SUFFICES ASSUME NEW e \in Execs, Exists(e), NEW n \in Acts
               PROVE /\ ~DecidedTwice(run[e]) =>
                          Times(run[e], "done", n) = IF StepOf(run[e], n).status = "SUCCEEDED" THEN 1 ELSE 0
                     /\ DecidedTwice(run[e]) =>
                          /\ Times(run[e], "done", n) <= Decisions(run[e])
                          /\ StepOf(run[e], n).status = "SUCCEEDED" => Times(run[e], "done", n) > 0
    BY DEF DoneOnce, Acts
  <2>1. Worked(run[e]) /\ Times(run[e], "done", n) \in Nat
    BY <1>1, RowWorked, TimesType DEF Acts
  <2>2. /\ Times(run[e], "done", n) <= Cap(run[e])
        /\ StepOf(run[e], n).status = "SUCCEEDED" => Times(run[e], "done", n) > 0
        /\ ~DecidedTwice(run[e]) /\ Times(run[e], "done", n) > 0 => StepOf(run[e], n).status = "SUCCEEDED"
    BY <2>1 DEF Worked, Tallied
  <2> QED
    BY <2>1, <2>2 DEF Cap
<1>2. IInv /\ Works => DoneOnce
  BY <1>1
<1> QED
  BY <1>2, Effects, PTL

\* When an execution has failed and its flow compensates, every completed action
\* with a compensation has been undone once, after its effect, and the later one
\* before the earlier one; nothing else has been undone (_finish_execution_failure
\* and its compensations by descending sequence, whatever passes rolled back or
\* died before).  Excepted are executions that were taken up again after their
\* end, and those in which one approval was decided twice.
THEOREM Reversal == Spec => []CompensationReverses
<1>1. ASSUME IInv, Works PROVE CompensationReverses
  <2> SUFFICES ASSUME NEW e \in Execs, Exists(e), Judged(run[e]), run[e].log[Len(run[e].log)][1] = "failed"
               PROVE Reversed(run[e].log)
    BY DEF CompensationReverses, Judged
  <2>1. Told(run[e])
    BY <1>1, RowWorked DEF Worked
  <2> QED
    BY <2>1 DEF Told
<1>2. IInv /\ Works => CompensationReverses
  BY <1>1
<1> QED
  BY <1>2, Effects, PTL

=============================================================================
