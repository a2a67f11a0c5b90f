------------------------- MODULE ChangeControlProofs -------------------------
(***************************************************************************)
(* Proofs about ChangeControl, for every set of changes, users, bookings   *)
(* and meetings.                                                           *)
(*                                                                         *)
(* That no asset is booked twice is not inductive: what a booking has      *)
(* found free must stay free until it commits.  BookingInv says why it     *)
(* does: a booking holds the row of its change, the keys it holds and      *)
(* still waits for are those of the change's assets, no key has two        *)
(* holders, and for a booking that has found its window free no active     *)
(* change has an asset of its at that time.  Two bookings that both found  *)
(* their windows free hold all their keys, so their changes have no asset  *)
(* in common.  (They may have a service in common: that is not kept.)      *)
(***************************************************************************)
EXTENDS ChangeControl, WellFoundedInduction, TLAPS

\* An active change whose window overlaps that of the booking on a common asset.
AssetTaken(b, d) ==
  /\ d # booking[b].change
  /\ change[d].status \in Active
  /\ change[d].plan.hours \cap booking[b].hours # {}
  /\ change[d].plan.assets \cap change[booking[b].change].plan.assets # {}

BookingInv ==
  /\ \A b \in Bookers : booking[b].change # None =>
       /\ change[booking[b].change].status = "APPROVED"
       /\ booking[b].held \cup booking[b].todo = Keys(change[booking[b].change].plan.assets)
  /\ \A a, b \in Bookers : a # b =>
       /\ booking[a].held \cap booking[b].held = {}
       /\ booking[a].change # None => booking[a].change # booking[b].change
  /\ \A b \in Bookers : booking[b].clear =>
       /\ booking[b].change # None /\ booking[b].todo = {}
       /\ \A d \in Changes : ~AssetTaken(b, d)

\* A step that leaves all bookings alone and puts no change into its window.
Quiet(c) ==
  /\ RowFree(c)
  /\ booking' = booking
  /\ \A d \in Changes \ {c} : change'[d] = change[d]
  /\ change'[c].status \in Active =>
       change[c].status \in Active /\ change'[c].plan = change[c].plan

-----------------------------------------------------------------------------
(* Type correctness. *)


LEMMA InitTypes == Init => TypeOK
<1> SUFFICES ASSUME Init PROVE TypeOK
    OBVIOUS
<1>1. EmptyPlan \in PlanShapes
  BY DEF EmptyPlan, PlanShapes, Kinds
<1>2. change \in [Changes -> Rows]
  BY <1>1 DEF Init, Rows, Statuses, Approvals
<1>3. NoBooking \in Bookings
  BY DEF NoBooking, Bookings
<1>4. booking \in [Bookers -> Bookings] /\ \A b \in Bookers : booking[b] = NoBooking
  BY <1>3 DEF Init
<1> QED  BY <1>2, <1>4 DEF Init, TypeOK, Stages

LEMMA RowRewritten ==
  ASSUME TypeOK, NEW c \in Changes, NEW to \in Statuses, NEW approval \in Approvals
  PROVE  [change EXCEPT ![c].status = to, ![c].approval = approval] \in [Changes -> Rows]
BY DEF TypeOK, Rows

LEMMA RulePreserves ==
  ASSUME TypeOK, NEW c \in Changes, NEW u \in Users, NEW verdict \in Rulings, Rule(c, u, verdict)
  PROVE  change' \in [Changes -> Rows] /\ consent' \in [Changes -> SUBSET Users]
<1>1. verdict \in Statuses /\ verdict \in Approvals
  BY DEF Rulings, Statuses, Approvals
<1>2. [change EXCEPT ![c].approval = verdict, ![c].status = verdict] \in [Changes -> Rows]
  BY <1>1 DEF TypeOK, Rows
<1> QED  BY <1>2 DEF Rule, TypeOK

LEMMA TransitPreserves ==
  ASSUME TypeOK, NEW c \in Changes, NEW from, NEW to \in Statuses, NEW approval \in Approvals,
         Transit(c, from, to, approval)
  PROVE  TypeOK'
BY RowRewritten DEF Transit, TypeOK, board

LEMMA MovePreserves ==
  ASSUME TypeOK, NEW c \in Changes, NEW from, NEW to \in Statuses, Move(c, from, to)
  PROVE  TypeOK'
<1>1. change[c].approval \in Approvals
  BY DEF TypeOK, Rows
<1> QED  BY <1>1, TransitPreserves DEF Move

\* What a request about a meeting may be.
LEMMA AskTypes ==
  ASSUME TypeOK, NEW s \in Seats, Ask(s)
  PROVE  seat' \in [Seats -> Requests \cup {None}]
<1>1. \A m \in Meetings, to \in Stages : [op |-> "MOVE", meeting |-> m, to |-> to] \in Requests
  BY DEF Requests
<1>2. \A m \in Meetings, c \in Changes : [op |-> "ADD", meeting |-> m, change |-> c] \in Requests
  BY DEF Requests
<1>3. \A m \in Meetings, c \in Changes, u \in Users, v \in Verdicts :
        [op |-> "DECIDE", meeting |-> m, change |-> c, user |-> u, verdict |-> v] \in Requests
  BY DEF Requests
<1>4. \A m \in Meetings : Allowed[meeting[m]] \subseteq Stages
  BY DEF TypeOK, Allowed, Stages
<1>5. \E r \in Requests : seat' = [seat EXCEPT ![s] = r]
  BY <1>1, <1>2, <1>3, <1>4, Zenon DEF Ask
<1> QED  BY <1>5 DEF TypeOK

LEMMA TypePreserved == TypeOK /\ [Next]_vars => TypeOK'
<1> SUFFICES ASSUME TypeOK, [Next]_vars PROVE TypeOK'
    OBVIOUS
<1>1. ASSUME NEW c \in Changes, Create(c) \/ Instantiate(c) PROVE TypeOK'
  <2>1. PICK plan \in Plans[c], approval \in {"NOT_REQUESTED", "NOT_REQUIRED"} :
          change' = [change EXCEPT ![c] = [status |-> "DRAFT", approval |-> approval, plan |-> plan]]
        BY <1>1 DEF Create, Instantiate, Draft
  <2>2. plan \in PlanShapes
        BY <2>1, ChangeAssumption
  <2>3. [status |-> "DRAFT", approval |-> approval, plan |-> plan] \in Rows
        BY <2>2 DEF Rows, Statuses, Approvals
  <2>4. change' \in [Changes -> Rows]
        BY <2>1, <2>3 DEF TypeOK
  <2> QED BY <1>1, <2>4 DEF Create, Instantiate, Draft, TypeOK, board
<1>2. ASSUME NEW c \in Changes, Patch(c) PROVE TypeOK'
  <2>1. PICK plan \in Plans[c] : change' = [change EXCEPT ![c].plan = plan]
        BY <1>2 DEF Patch
  <2>2. plan \in PlanShapes
        BY <2>1, ChangeAssumption
  <2>3. change' \in [Changes -> Rows]
        BY <2>1, <2>2 DEF TypeOK, Rows
  <2> QED BY <1>2, <2>3 DEF Patch, TypeOK, board
<1>3. ASSUME NEW c \in Changes, Submit(c) PROVE TypeOK'
  BY <1>3, TransitPreserves DEF Submit, Statuses, Approvals
<1>4. ASSUME NEW c \in Changes, RequestApproval(c) PROVE TypeOK'
  BY <1>4, TransitPreserves DEF RequestApproval, Statuses, Approvals
<1>5. ASSUME NEW c \in Changes,
             Start(c) \/ Complete(c) \/ Close(c) \/ Fail(c) \/ RollBack(c) \/ Cancel(c)
      PROVE  TypeOK'
  BY <1>5, MovePreserves DEF Start, Complete, Close, Fail, RollBack, Cancel, Statuses
<1>6. ASSUME NEW c \in Changes, NEW u \in Users, Decide(c, u) PROVE TypeOK'
  BY <1>6, RulePreserves DEF Decide, TypeOK, board
<1>7. ASSUME NEW b \in Bookers, NEW c \in Changes, Lock(b, c) PROVE TypeOK'
  <2>1. PICK hours \in Windows \cup {change[c].plan.hours} :
          booking' = [booking EXCEPT ![b] =
            [change |-> c, hours |-> hours, held |-> {},
             todo |-> Keys(change[c].plan.assets), clear |-> FALSE]]
        BY <1>7 DEF Lock
  <2>2. hours \in SUBSET Nat /\ change[c].plan.assets \in SUBSET Nat
    <3>1. change[c] \in Rows
          BY DEF TypeOK
    <3>2. change[c].plan \in PlanShapes
          BY <3>1 DEF Rows
    <3>3. change[c].plan.hours \in SUBSET Nat /\ change[c].plan.assets \in SUBSET (1..LastAsset)
          BY <3>2 DEF PlanShapes
    <3>4. Windows \subseteq SUBSET Nat /\ 1..LastAsset \subseteq Nat
          BY ChangeAssumption
    <3> QED BY <3>3, <3>4
  <2>3. [change |-> c, hours |-> hours, held |-> {},
         todo |-> Keys(change[c].plan.assets), clear |-> FALSE] \in Bookings
        BY <2>2 DEF Bookings, Keys
  <2> QED BY <1>7, <2>1, <2>3, ChangeAssumption DEF Lock, TypeOK, board
<1>8. ASSUME NEW b \in Bookers, TakeKey(b) PROVE TypeOK'
  <2>1. PICK k \in NextKeys(booking[b].todo) :
          booking' = [booking EXCEPT ![b].held = @ \cup {k}, ![b].todo = @ \ {k}]
        BY <1>8 DEF TakeKey
  <2>2. k \in Nat /\ booking[b].change # None
        BY <2>1 DEF NextKeys, TypeOK, Bookings, NoBooking
  <2>3. booking' \in [Bookers -> Bookings]
    <3>1. booking \in [Bookers -> Bookings] /\ booking[b] \in Bookings
          BY DEF TypeOK
    <3>2. [booking[b] EXCEPT !.held = @ \cup {k}, !.todo = @ \ {k}] \in Bookings
          BY <2>2, <3>1 DEF Bookings
    <3>3. booking' = [booking EXCEPT ![b] = [booking[b] EXCEPT !.held = @ \cup {k}, !.todo = @ \ {k}]]
          BY <2>1
    <3> QED BY <3>1, <3>2, <3>3
  <2>4. booking'[b].change = booking[b].change /\ \A a \in Bookers \ {b} : booking'[a] = booking[a]
        BY <2>1 DEF TypeOK, Bookings
  <2> QED BY <1>8, <2>2, <2>3, <2>4 DEF TakeKey, TypeOK, board
<1>9. ASSUME NEW b \in Bookers, FindClear(b) PROVE TypeOK'
  <2>1. booking \in [Bookers -> Bookings] /\ booking[b] \in Bookings
        BY DEF TypeOK
  <2>2. [booking[b] EXCEPT !.clear = TRUE] \in Bookings
        BY <2>1 DEF Bookings
  <2>3. booking' = [booking EXCEPT ![b] = [booking[b] EXCEPT !.clear = TRUE]] /\ booking[b] # NoBooking
        BY <1>9 DEF FindClear
  <2>4. booking[b].change # None
        BY <2>3 DEF TypeOK
  <2>5. /\ booking' \in [Bookers -> Bookings]
        /\ \A a \in Bookers : booking'[a].change = None => booking'[a] = NoBooking
        BY <2>1, <2>2, <2>3, <2>4 DEF TypeOK, Bookings
  <2> QED BY <1>9, <2>5 DEF FindClear, TypeOK, board
<1>10. ASSUME NEW b \in Bookers, Book(b) PROVE TypeOK'
  <2>1. booking[b].change \in Changes /\ booking[b].hours \in SUBSET Nat
        BY <1>10 DEF Book, TypeOK, Bookings, NoBooking
  <2>2. change' \in [Changes -> Rows]
    <3> DEFINE c == booking[b].change
    <3>1. change[c] \in Rows /\ change[c].plan \in PlanShapes
          BY <2>1 DEF TypeOK, Rows
    <3>2. [change[c].plan EXCEPT !.hours = booking[b].hours] \in PlanShapes
          BY <2>1, <3>1 DEF PlanShapes
    <3>3. [change[c] EXCEPT !.status = "SCHEDULED", !.plan = [@ EXCEPT !.hours = booking[b].hours]] \in Rows
          BY <3>1, <3>2 DEF Rows, Statuses
    <3>4. change' = [change EXCEPT ![c] =
            [change[c] EXCEPT !.status = "SCHEDULED", !.plan = [@ EXCEPT !.hours = booking[b].hours]]]
          BY <1>10, <2>1 DEF Book, TypeOK, Rows
    <3> QED BY <2>1, <3>3, <3>4 DEF TypeOK
  <2>3. NoBooking \in Bookings
        BY DEF NoBooking, Bookings
  <2> QED BY <1>10, <2>2, <2>3 DEF Book, TypeOK, board
<1>11. ASSUME NEW b \in Bookers, GiveUp(b) PROVE TypeOK'
  <2>1. NoBooking \in Bookings
        BY DEF NoBooking, Bookings
  <2> QED BY <1>11, <2>1 DEF GiveUp, TypeOK, board
<1>12. ASSUME NEW m \in Meetings, Convene(m) PROVE TypeOK'
  BY <1>12 DEF Convene, TypeOK, Stages
<1>13. ASSUME NEW s \in Seats, Ask(s) PROVE TypeOK'
  BY <1>13, AskTypes DEF Ask, TypeOK
<1>14. ASSUME NEW s \in Seats, CommitMove(s) PROVE TypeOK'
  <2>1. seat[s] \in [op : {"MOVE"}, meeting : Meetings, to : Stages]
        BY <1>14 DEF CommitMove, TypeOK, Requests
  <2> QED BY <1>14, <2>1 DEF CommitMove, TypeOK
<1>15. ASSUME NEW s \in Seats, CommitAdd(s) PROVE TypeOK'
  <2>1. seat[s] \in [op : {"ADD"}, meeting : Meetings, change : Changes]
        BY <1>15 DEF CommitAdd, TypeOK, Requests
  <2> QED BY <1>15, <2>1 DEF CommitAdd, TypeOK
<1>16. ASSUME NEW s \in Seats, CommitDecision(s) PROVE TypeOK'
  <2>1. seat[s] \in [op : {"DECIDE"}, meeting : Meetings, change : Changes, user : Users, verdict : Verdicts]
        BY <1>16 DEF CommitDecision, TypeOK, Requests
  <2>2. change' \in [Changes -> Rows] /\ consent' \in [Changes -> SUBSET Users]
    <3>1. CASE seat[s].verdict \in Rulings
          BY <1>16, <2>1, <3>1, RulePreserves DEF CommitDecision
    <3>2. CASE seat[s].verdict \notin Rulings
          BY <1>16, <3>2 DEF CommitDecision, TypeOK
    <3> QED BY <3>1, <3>2
  <2>3. agenda' \in [Meetings -> [Changes -> {"NONE", "OPEN"} \cup Verdicts]]
        BY <1>16, <2>1 DEF CommitDecision, TypeOK
  <2> QED BY <1>16, <2>2, <2>3 DEF CommitDecision, TypeOK
<1>17. ASSUME NEW s \in Seats, Leave(s) PROVE TypeOK'
  BY <1>17 DEF Leave, TypeOK
<1>18. CASE UNCHANGED vars
  BY <1>18 DEF vars, TypeOK
<1> QED  BY <1>1, <1>2, <1>3, <1>4, <1>5, <1>6, <1>7, <1>8, <1>9, <1>10, <1>11, <1>12, <1>13, <1>14,
            <1>15, <1>16, <1>17, <1>18 DEF Next

(***************************************************************************)
(* Type correctness (create_change to decide_agenda_item): for every       *)
(* instance, rows keep to their literals and a booking that has ended      *)
(* holds nothing.                                                          *)
(***************************************************************************)
THEOREM TypeCorrect == Spec => []TypeOK
BY InitTypes, TypePreserved, PTL DEF Spec

-----------------------------------------------------------------------------
(* No double booking. *)

LEMMA QuietPreserves ==
  ASSUME TypeOK, BookingInv, NoDoubleBooking, NEW c \in Changes, Quiet(c)
  PROVE  BookingInv' /\ NoDoubleBooking'
<1>1. \A b \in Bookers : booking[b].change # None =>
        booking[b].change \in Changes /\ change'[booking[b].change] = change[booking[b].change]
  BY DEF TypeOK, Bookings, Quiet, RowFree
<1>2. \A d \in Changes : change'[d].status \in Active =>
        change[d].status \in Active /\ change'[d].plan = change[d].plan
  BY DEF Quiet
<1>3. \A b \in Bookers, d \in Changes : booking[b].change # None /\ AssetTaken(b, d)' => AssetTaken(b, d)
  BY <1>1, <1>2 DEF AssetTaken, Quiet
<1>4. BookingInv'
  BY <1>1, <1>3 DEF BookingInv, Quiet
<1>5. NoDoubleBooking'
  BY <1>2 DEF NoDoubleBooking
<1> QED  BY <1>4, <1>5

\* A booking's own steps, before it commits, leave the changes alone.
LEMMA StillPreserves ==
  ASSUME NoDoubleBooking, change' = change
  PROVE  NoDoubleBooking'
BY DEF NoDoubleBooking

LEMMA BookPreserves ==
  ASSUME TypeOK, BookingInv, NoDoubleBooking, NEW b \in Bookers, Book(b)
  PROVE  BookingInv' /\ NoDoubleBooking'
<1> DEFINE c == booking[b].change
<1>1. c \in Changes /\ c # None /\ booking[b].todo = {} /\ booking[b].held = Keys(change[c].plan.assets)
  <2>1. c # None /\ booking[b].todo = {}
        BY DEF Book, BookingInv
  <2>2. c \in Changes
    <3>1. booking[b] \in Bookings
          BY DEF TypeOK
    <3> QED BY <2>1, <3>1 DEF Bookings
  <2>3. booking[b].held \cup booking[b].todo = Keys(change[c].plan.assets)
        BY <2>1 DEF BookingInv
  <2> QED BY <2>1, <2>2, <2>3
<1>2. \A d \in Changes : ~AssetTaken(b, d)
  BY DEF Book, BookingInv
<1>3. /\ \A d \in Changes \ {c} : change'[d] = change[d]
      /\ change'[c].plan.assets = change[c].plan.assets
      /\ change'[c].plan.hours = booking[b].hours
  <2>1. /\ change \in [Changes -> Rows]
        /\ change' = [change EXCEPT ![c].status = "SCHEDULED", ![c].plan.hours = booking[b].hours]
        BY DEF Book, TypeOK
  <2>2. \A d \in Changes \ {c} : change'[d] = change[d]
        BY <1>1, <2>1
  <2>3. change'[c] = [change[c] EXCEPT !.status = "SCHEDULED", !.plan = [@ EXCEPT !.hours = booking[b].hours]]
        BY <1>1, <2>1
  <2>4. change[c] \in Rows /\ change[c].plan \in PlanShapes
        BY <1>1, <2>1 DEF Rows
  <2>5. change'[c].plan = [change[c].plan EXCEPT !.hours = booking[b].hours]
        BY <2>3, <2>4 DEF Rows
  <2> QED BY <2>2, <2>4, <2>5 DEF PlanShapes
<1>4. booking'[b] = NoBooking /\ \A a \in Bookers \ {b} : booking'[a] = booking[a]
  BY DEF Book, TypeOK
<1>5. \A a \in Bookers \ {b} : booking[a].change # None =>
        booking[a].change \in Changes \ {c}
        /\ change'[booking[a].change] = change[booking[a].change]
  BY <1>1, <1>3 DEF BookingInv, TypeOK, Bookings
<1>6. NoDoubleBooking'
  <2> SUFFICES ASSUME NEW d \in Changes, NEW e \in Changes, d # e,
                      change'[d].status \in Active, change'[e].status \in Active,
                      change'[d].plan.assets \cap change'[e].plan.assets # {}
               PROVE  change'[d].plan.hours \cap change'[e].plan.hours = {}
      BY DEF NoDoubleBooking
  <2>1. CASE d # c /\ e # c
        BY <1>3, <2>1 DEF NoDoubleBooking
  <2>2. CASE d = c
        BY <1>2, <1>3, <2>2 DEF AssetTaken
  <2>3. CASE e = c
        BY <1>2, <1>3, <2>3 DEF AssetTaken
  <2> QED BY <2>1, <2>2, <2>3
<1>7. ASSUME NEW a \in Bookers, booking'[a].clear
      PROVE  /\ booking'[a].change # None /\ booking'[a].todo = {}
             /\ \A d \in Changes : ~AssetTaken(a, d)'
  <2>1. a # b /\ booking'[a] = booking[a]
        BY <1>4, <1>7 DEF NoBooking
  <2>2. booking[a].change # None /\ booking[a].todo = {} /\ \A d \in Changes : ~AssetTaken(a, d)
        BY <1>7, <2>1 DEF BookingInv
  <2>3. booking[a].held = Keys(change[booking[a].change].plan.assets)
        BY <2>2 DEF BookingInv
  <2>4. change[booking[a].change].plan.assets \cap change[c].plan.assets = {}
        BY <1>1, <2>1, <2>3 DEF BookingInv, Keys
  <2>5. ASSUME NEW d \in Changes PROVE ~AssetTaken(a, d)'
    <3>1. CASE d = c
          BY <1>3, <1>5, <2>1, <2>2, <2>4, <3>1 DEF AssetTaken
    <3>2. CASE d # c
          BY <1>3, <1>5, <2>1, <2>2, <3>2 DEF AssetTaken
    <3> QED BY <3>1, <3>2
  <2> QED BY <2>1, <2>2, <2>5
<1>8. BookingInv'
  BY <1>4, <1>5, <1>7 DEF BookingInv, NoBooking
<1> QED  BY <1>6, <1>8

LEMMA BookingPreserved ==
  TypeOK /\ BookingInv /\ NoDoubleBooking /\ [Next]_vars => BookingInv' /\ NoDoubleBooking'
<1> SUFFICES ASSUME TypeOK, BookingInv, NoDoubleBooking, [Next]_vars
             PROVE  BookingInv' /\ NoDoubleBooking'
    OBVIOUS
<1>1. ASSUME NEW c \in Changes, Create(c) \/ Instantiate(c) PROVE BookingInv' /\ NoDoubleBooking'
  <2>1. \A b \in Bookers : booking[b].change # c
        BY <1>1, ChangeAssumption DEF Create, Instantiate, Draft, BookingInv
  <2>2. change'[c].status = "DRAFT" /\ \A d \in Changes \ {c} : change'[d] = change[d]
        BY <1>1 DEF Create, Instantiate, Draft, TypeOK
  <2> QED BY <1>1, <2>1, <2>2, QuietPreserves DEF Create, Instantiate, Draft, Quiet, RowFree, Active
<1>2. ASSUME NEW c \in Changes, Patch(c) PROVE BookingInv' /\ NoDoubleBooking'
  <2>1. change'[c].status = change[c].status /\ \A d \in Changes \ {c} : change'[d] = change[d]
        BY <1>2 DEF Patch, TypeOK, Rows
  <2> QED BY <1>2, <2>1, QuietPreserves DEF Patch, Quiet, Active, Editable
<1>3. ASSUME NEW c \in Changes, NEW from, NEW to \in Statuses, NEW approval, Transit(c, from, to, approval),
             to \in Active => from \subseteq Active
      PROVE  BookingInv' /\ NoDoubleBooking'
  <2>1. /\ change'[c].status = to /\ change'[c].plan = change[c].plan
        /\ \A d \in Changes \ {c} : change'[d] = change[d]
        BY <1>3 DEF Transit, TypeOK, Rows
  <2> QED BY <1>3, <2>1, QuietPreserves DEF Transit, Quiet
<1>4. ASSUME NEW c \in Changes, Submit(c) \/ RequestApproval(c) PROVE BookingInv' /\ NoDoubleBooking'
  BY <1>3, <1>4 DEF Submit, RequestApproval, Active, Statuses
<1>5. ASSUME NEW c \in Changes,
             Start(c) \/ Complete(c) \/ Close(c) \/ Fail(c) \/ RollBack(c) \/ Cancel(c)
      PROVE  BookingInv' /\ NoDoubleBooking'
  BY <1>3, <1>5 DEF Start, Complete, Close, Fail, RollBack, Cancel, Move, Active, Statuses
<1>6. ASSUME NEW c \in Changes, NEW u \in Users, NEW v \in Rulings, RowFree(c), Rule(c, u, v), booking' = booking
      PROVE  BookingInv' /\ NoDoubleBooking'
  <2>1. change'[c].status = v /\ \A d \in Changes \ {c} : change'[d] = change[d]
        BY <1>6 DEF Rule, TypeOK, Rows
  <2> QED BY <1>6, <2>1, QuietPreserves DEF Quiet, Active, Rulings
<1>7. ASSUME NEW c \in Changes, NEW u \in Users, Decide(c, u) PROVE BookingInv' /\ NoDoubleBooking'
  BY <1>6, <1>7 DEF Decide
<1>8. ASSUME NEW s \in Seats, CommitDecision(s) PROVE BookingInv' /\ NoDoubleBooking'
  <2>1. seat[s].change \in Changes /\ seat[s].user \in Users
        BY <1>8 DEF CommitDecision, TypeOK, Requests
  <2>2. CASE seat[s].verdict \in Rulings
        BY <1>6, <1>8, <2>1, <2>2 DEF CommitDecision
  <2>3. CASE seat[s].verdict \notin Rulings
        BY <1>8, <2>3 DEF CommitDecision, BookingInv, NoDoubleBooking, AssetTaken
  <2> QED BY <2>2, <2>3
<1>9. ASSUME NEW b \in Bookers, NEW c \in Changes, Lock(b, c) PROVE BookingInv' /\ NoDoubleBooking'
  <2>1. /\ booking'[b].change = c /\ booking'[b].held = {} /\ ~booking'[b].clear
        /\ booking'[b].todo = Keys(change[c].plan.assets)
        /\ \A a \in Bookers \ {b} : booking'[a] = booking[a]
        BY <1>9 DEF Lock, TypeOK
  <2>2. change' = change /\ change[c].status = "APPROVED" /\ RowFree(c)
        BY <1>9 DEF Lock
  <2> QED BY <2>1, <2>2, StillPreserves DEF BookingInv, AssetTaken, RowFree
<1>10. ASSUME NEW b \in Bookers, TakeKey(b) PROVE BookingInv' /\ NoDoubleBooking'
  <2>1. PICK k \in NextKeys(booking[b].todo) :
          /\ \A other \in Bookers : k \notin booking[other].held
          /\ booking' = [booking EXCEPT ![b].held = @ \cup {k}, ![b].todo = @ \ {k}]
        BY <1>10 DEF TakeKey
  <2>2. k \in booking[b].todo
        BY <2>1 DEF NextKeys
  <2>3. /\ booking'[b].change = booking[b].change /\ booking'[b].clear = booking[b].clear
        /\ booking'[b].held = booking[b].held \cup {k} /\ booking'[b].todo = booking[b].todo \ {k}
        /\ \A a \in Bookers \ {b} : booking'[a] = booking[a]
        BY <2>1 DEF TypeOK, Bookings
  <2>4. change' = change /\ ~booking[b].clear
        BY <1>10, <2>2 DEF TakeKey, BookingInv
  <2>5. \A a \in Bookers : booking'[a].change = booking[a].change
                         /\ booking'[a].held \cup booking'[a].todo = booking[a].held \cup booking[a].todo
        BY <2>2, <2>3
  <2>6. \A a, other \in Bookers : a # other => booking'[a].held \cap booking'[other].held = {}
    <3>1. \A a, other \in Bookers : a # other => booking[a].held \cap booking[other].held = {}
          BY DEF BookingInv
    <3>2. \A a \in Bookers : booking'[a].held \subseteq booking[a].held \cup {k}
          BY <2>3
    <3>3. \A a \in Bookers \ {b} : booking'[a].held = booking[a].held /\ k \notin booking'[a].held
          BY <2>1, <2>3
    <3> QED BY <3>1, <3>2, <3>3
  <2>7. \A a \in Bookers : booking'[a].clear => booking'[a] = booking[a]
        BY <2>3, <2>4
  <2>8. BookingInv'
        BY <2>4, <2>5, <2>6, <2>7 DEF BookingInv, AssetTaken
  <2> QED BY <2>4, <2>8, StillPreserves
<1>11. ASSUME NEW b \in Bookers, FindClear(b) PROVE BookingInv' /\ NoDoubleBooking'
  <2>1. /\ booking'[b].change = booking[b].change /\ booking'[b].held = booking[b].held
        /\ booking'[b].todo = booking[b].todo /\ booking'[b].hours = booking[b].hours
        /\ \A a \in Bookers \ {b} : booking'[a] = booking[a]
        BY <1>11 DEF FindClear, TypeOK, Bookings
  <2>2. change' = change /\ booking[b].change # None /\ booking[b].todo = {}
        BY <1>11 DEF FindClear, TypeOK
  <2>3. \A d \in Changes : ~AssetTaken(b, d)
        BY <1>11 DEF FindClear, Collides, AssetTaken
  <2>4. \A a \in Bookers, d \in Changes : AssetTaken(a, d)' => AssetTaken(a, d)
        BY <2>1, <2>2 DEF AssetTaken
  <2> QED BY <2>1, <2>2, <2>3, <2>4, StillPreserves DEF BookingInv
<1>12. ASSUME NEW b \in Bookers, Book(b) PROVE BookingInv' /\ NoDoubleBooking'
  BY <1>12, BookPreserves
<1>13. ASSUME NEW b \in Bookers, GiveUp(b) PROVE BookingInv' /\ NoDoubleBooking'
  <2>1. booking'[b] = NoBooking /\ change' = change /\ \A a \in Bookers \ {b} : booking'[a] = booking[a]
        BY <1>13 DEF GiveUp, TypeOK
  <2> QED BY <2>1, StillPreserves DEF BookingInv, AssetTaken, NoBooking
<1>14. ASSUME change' = change, booking' = booking PROVE BookingInv' /\ NoDoubleBooking'
  BY <1>14 DEF BookingInv, AssetTaken, NoDoubleBooking
<1>15. ASSUME NEW m \in Meetings, Convene(m) PROVE BookingInv' /\ NoDoubleBooking'
  BY <1>14, <1>15 DEF Convene
<1>16. ASSUME NEW s \in Seats, Ask(s) \/ CommitMove(s) \/ CommitAdd(s) \/ Leave(s)
       PROVE  BookingInv' /\ NoDoubleBooking'
  BY <1>14, <1>16 DEF Ask, CommitMove, CommitAdd, Leave
<1>17. CASE UNCHANGED vars
  BY <1>14, <1>17 DEF vars
<1> QED  BY <1>1, <1>2, <1>4, <1>5, <1>7, <1>8, <1>9, <1>10, <1>11, <1>12, <1>13, <1>15, <1>16, <1>17
         DEF Next

(***************************************************************************)
(* No asset is booked twice (_lock_asset_windows and _window_conflicts):   *)
(* whatever the number of bookings at a time, changes, assets and windows, *)
(* two active changes with a common asset have disjoint windows.           *)
(***************************************************************************)
THEOREM NeverDoubleBooked == Spec => []NoDoubleBooking
<1>1. Init => BookingInv /\ NoDoubleBooking
  BY DEF Init, BookingInv, NoDoubleBooking, NoBooking, Active
<1> QED  BY <1>1, InitTypes, TypePreserved, BookingPreserved, PTL DEF Spec

-----------------------------------------------------------------------------
(* Consent. *)

\* What ConsentGiven says of one change.
Granted(c) ==
  change[c].status \in Consented /\ CabRequired(change[c].plan)
    => change[c].approval = "APPROVED" /\ consent[c] \ {By[c]} # {}

\* Nobody decides at a meeting on a change of their own.
SeatInv ==
  \A s \in Seats : seat[s] # None /\ seat[s].op = "DECIDE" => seat[s].user # By[seat[s].change]

LEMMA RuleGrants ==
  ASSUME TypeOK, \A d \in Changes : Granted(d), NEW c \in Changes, NEW u \in Users \ {By[c]},
         NEW v \in Rulings, Rule(c, u, v)
  PROVE  \A d \in Changes : Granted(d)'
<1>1. /\ change'[c].status = v /\ change'[c].approval = v
      /\ \A d \in Changes \ {c} : change'[d] = change[d] /\ consent'[d] = consent[d]
  BY DEF Rule, TypeOK, Rows
<1>2. v = "APPROVED" => u \in consent'[c]
  BY DEF Rule, TypeOK
<1> QED  BY <1>1, <1>2 DEF Granted, Rulings, Consented, Active

LEMMA TransitGrants ==
  ASSUME TypeOK, \A d \in Changes : Granted(d), NEW c \in Changes, NEW from, NEW to, NEW approval,
         Transit(c, from, to, approval),
         \/ to \notin Consented
         \/ from \subseteq Consented /\ approval = change[c].approval
         \/ ~CabRequired(change[c].plan)
  PROVE  \A d \in Changes : Granted(d)'
<1>1. /\ change'[c].status = to /\ change'[c].approval = approval /\ change'[c].plan = change[c].plan
      /\ \A d \in Changes \ {c} : change'[d] = change[d]
      /\ consent' = consent /\ change[c].status \in from
  BY DEF Transit, TypeOK, Rows
<1> QED  BY <1>1 DEF Granted

LEMMA GrantsPreserved ==
  TypeOK /\ BookingInv /\ SeatInv /\ ConsentGiven /\ [Next]_vars => ConsentGiven'
<1> SUFFICES ASSUME TypeOK, BookingInv, SeatInv, \A d \in Changes : Granted(d), [Next]_vars
             PROVE  \A d \in Changes : Granted(d)'
    BY DEF ConsentGiven, Granted
<1>1. ASSUME NEW c \in Changes, Create(c) \/ Instantiate(c) PROVE \A d \in Changes : Granted(d)'
  <2>1. /\ change'[c].status = "DRAFT" /\ consent' = consent
        /\ \A d \in Changes \ {c} : change'[d] = change[d]
        BY <1>1 DEF Create, Instantiate, Draft, TypeOK
  <2> QED BY <2>1 DEF Granted, Consented, Active
<1>2. ASSUME NEW c \in Changes, Patch(c) PROVE \A d \in Changes : Granted(d)'
  <2>1. /\ change'[c].status = change[c].status /\ change[c].status \in Editable
        /\ \A d \in Changes \ {c} : change'[d] = change[d] /\ consent'[d] = consent[d]
        BY <1>2 DEF Patch, TypeOK, Rows
  <2> QED BY <2>1 DEF Granted, Consented, Active, Editable
<1>3. ASSUME NEW c \in Changes, Submit(c) \/ RequestApproval(c) PROVE \A d \in Changes : Granted(d)'
  BY <1>3, TransitGrants DEF Submit, RequestApproval, Consented, Active
<1>4. ASSUME NEW c \in Changes,
             Start(c) \/ Complete(c) \/ Close(c) \/ Fail(c) \/ RollBack(c) \/ Cancel(c)
      PROVE  \A d \in Changes : Granted(d)'
  BY <1>4, TransitGrants DEF Start, Complete, Close, Fail, RollBack, Cancel, Move, Consented, Active
<1>5. ASSUME NEW c \in Changes, NEW u \in Users, Decide(c, u) PROVE \A d \in Changes : Granted(d)'
  BY <1>5, RuleGrants DEF Decide
<1>6. ASSUME NEW b \in Bookers, Book(b) PROVE \A d \in Changes : Granted(d)'
  <2> DEFINE c == booking[b].change
  <2>1. c \in Changes /\ change[c].status = "APPROVED"
        BY <1>6, ChangeAssumption DEF Book, BookingInv, TypeOK, Bookings
  <2>2. /\ change'[c].approval = change[c].approval
        /\ change'[c].plan.kind = change[c].plan.kind /\ change'[c].plan.grave = change[c].plan.grave
        /\ \A d \in Changes \ {c} : change'[d] = change[d]
        /\ consent' = consent
        BY <1>6, <2>1 DEF Book, TypeOK, Rows, PlanShapes
  <2> QED BY <2>1, <2>2 DEF Granted, CabRequired, Consented
<1>7. ASSUME NEW s \in Seats, CommitDecision(s) PROVE \A d \in Changes : Granted(d)'
  <2>1. seat[s].change \in Changes /\ seat[s].user \in Users \ {By[seat[s].change]}
        BY <1>7 DEF CommitDecision, SeatInv, TypeOK, Requests
  <2>2. CASE seat[s].verdict \in Rulings
        BY <1>7, <2>1, <2>2, RuleGrants DEF CommitDecision
  <2>3. CASE seat[s].verdict \notin Rulings
        BY <1>7, <2>3 DEF CommitDecision, Granted
  <2> QED BY <2>2, <2>3
<1>8. ASSUME change' = change, consent' = consent PROVE \A d \in Changes : Granted(d)'
  BY <1>8 DEF Granted
<1>9. ASSUME NEW b \in Bookers,
             (\E c \in Changes : Lock(b, c)) \/ TakeKey(b) \/ FindClear(b) \/ GiveUp(b)
      PROVE  \A d \in Changes : Granted(d)'
  BY <1>8, <1>9 DEF Lock, TakeKey, FindClear, GiveUp
<1>10. ASSUME NEW m \in Meetings, Convene(m) PROVE \A d \in Changes : Granted(d)'
  BY <1>8, <1>10 DEF Convene
<1>11. ASSUME NEW s \in Seats, Ask(s) \/ CommitMove(s) \/ CommitAdd(s) \/ Leave(s)
       PROVE  \A d \in Changes : Granted(d)'
  BY <1>8, <1>11 DEF Ask, CommitMove, CommitAdd, Leave
<1>12. CASE UNCHANGED vars
  BY <1>8, <1>12 DEF vars
<1> QED  BY <1>1, <1>2, <1>3, <1>4, <1>5, <1>6, <1>7, <1>9, <1>10, <1>11, <1>12 DEF Next

LEMMA SeatPreserved == TypeOK /\ SeatInv /\ [Next]_vars => SeatInv'
<1> SUFFICES ASSUME TypeOK, SeatInv, [Next]_vars PROVE SeatInv'
    OBVIOUS
<1>1. ASSUME NEW s \in Seats, Ask(s) PROVE SeatInv'
  <2> DEFINE Fair(r) == r.op = "DECIDE" => r.user # By[r.change]
  <2>1. \A m, to : Fair([op |-> "MOVE", meeting |-> m, to |-> to])
        OBVIOUS
  <2>2. \A m, c : Fair([op |-> "ADD", meeting |-> m, change |-> c])
        OBVIOUS
  <2>3. \A m, c, u, v : MayDecide(m, c, u, v) =>
          Fair([op |-> "DECIDE", meeting |-> m, change |-> c, user |-> u, verdict |-> v])
        BY DEF MayDecide
  <2> HIDE DEF Fair
  <2>4. \E r : Fair(r) /\ seat' = [seat EXCEPT ![s] = r]
        BY <1>1, <2>1, <2>2, <2>3, Zenon DEF Ask
  <2> QED BY <2>4 DEF Fair, SeatInv, TypeOK
<1>2. ASSUME NEW s \in Seats, CommitMove(s) \/ CommitAdd(s) \/ CommitDecision(s) \/ Leave(s) PROVE SeatInv'
  <2>1. seat' = [seat EXCEPT ![s] = None]
        BY <1>2 DEF CommitMove, CommitAdd, CommitDecision, Leave
  <2> QED BY <2>1 DEF SeatInv, TypeOK
<1>3. ASSUME seat' = seat PROVE SeatInv'
  BY <1>3 DEF SeatInv
<1>4. ASSUME NEW c \in Changes,
             \/ Create(c) \/ Instantiate(c) \/ Patch(c) \/ Submit(c) \/ RequestApproval(c)
             \/ Start(c) \/ Complete(c)
             \/ Close(c) \/ Fail(c) \/ RollBack(c) \/ Cancel(c)
             \/ \E u \in Users : Decide(c, u)
             \/ \E b \in Bookers : Lock(b, c)
      PROVE  SeatInv'
  BY <1>3, <1>4 DEF Create, Instantiate, Draft, Patch, Submit, RequestApproval, Start, Complete, Close, Fail, RollBack, Cancel,
     Decide, Lock, Move, Transit, board
<1>5. ASSUME NEW b \in Bookers, TakeKey(b) \/ FindClear(b) \/ Book(b) \/ GiveUp(b) PROVE SeatInv'
  BY <1>3, <1>5 DEF TakeKey, FindClear, Book, GiveUp, board
<1>6. ASSUME NEW m \in Meetings, Convene(m) PROVE SeatInv'
  BY <1>3, <1>6 DEF Convene
<1>7. CASE UNCHANGED vars
  BY <1>3, <1>7 DEF vars
<1> QED  BY <1>1, <1>2, <1>4, <1>5, <1>6, <1>7 DEF Next

(***************************************************************************)
(* Consent (decide_change, decide_agenda_item and patch_change): however   *)
(* the rulings of approvers and meetings interleave with everything else,  *)
(* no change that needs the CAB is approved, booked, implemented or        *)
(* finished without an approval of another person than its requester that  *)
(* was committed after the contents were last changed.                     *)
(***************************************************************************)
THEOREM NeverWithoutConsent == Spec => []ConsentGiven
<1>1. Init => BookingInv /\ NoDoubleBooking /\ SeatInv /\ ConsentGiven
  BY DEF Init, BookingInv, NoDoubleBooking, NoBooking, SeatInv, ConsentGiven, Consented, Active
<1> QED  BY <1>1, InitTypes, TypePreserved, BookingPreserved, SeatPreserved, GrantsPreserved, PTL DEF Spec

-----------------------------------------------------------------------------
(* No lock cycle. *)

\* A booking waits only for keys above those it holds.
KeyOrder == \A b \in Bookers : \A h \in booking[b].held, k \in booking[b].todo : h < k

Below == {p \in Nat \X Nat : p[1] < p[2]}

\* A set of numbers that is not empty has a least one.
LEMMA LeastNumber ==
  ASSUME NEW T \in SUBSET Nat, T # {}
  PROVE  \E x \in T : \A y \in T : x <= y
<1>1. IsWellFoundedOn(Below, Nat)
  BY NatLessThanWellFounded, Zenon DEF Below, OpToRel
<1>2. PICK x \in T : \A y \in T : ~ (<<y, x>> \in Below)
  BY <1>1, WFMin, Zenon
<1>3. ASSUME NEW y \in T PROVE x <= y
  <2>1. x \in Nat /\ y \in Nat /\ <<y, x>> \notin Below
        BY <1>2
  <2>2. y < x => <<y, x>> \in Below
        BY <2>1 DEF Below
  <2> QED BY <2>1, <2>2
<1> QED  BY <1>3

LEMMA KeyOrderPreserved == TypeOK /\ KeyOrder /\ [Next]_vars => KeyOrder'
<1> SUFFICES ASSUME TypeOK, KeyOrder, [Next]_vars PROVE KeyOrder'
    OBVIOUS
<1>1. ASSUME NEW b \in Bookers, NEW c \in Changes, Lock(b, c) PROVE KeyOrder'
  <2>1. booking'[b].held = {} /\ \A a \in Bookers \ {b} : booking'[a] = booking[a]
        BY <1>1 DEF Lock, TypeOK
  <2> QED BY <2>1 DEF KeyOrder
<1>2. ASSUME NEW b \in Bookers, TakeKey(b) PROVE KeyOrder'
  <2>1. PICK k \in NextKeys(booking[b].todo) :
          booking' = [booking EXCEPT ![b].held = @ \cup {k}, ![b].todo = @ \ {k}]
        BY <1>2 DEF TakeKey
  <2>2. k \in booking[b].todo /\ \A l \in booking[b].todo : k <= l
        BY <2>1 DEF NextKeys
  <2>3. /\ booking'[b].held = booking[b].held \cup {k} /\ booking'[b].todo = booking[b].todo \ {k}
        /\ \A a \in Bookers \ {b} : booking'[a] = booking[a]
        BY <2>1 DEF TypeOK, Bookings
  <2>4. booking[b].todo \subseteq Nat
        BY DEF TypeOK, Bookings
  <2>5. \A l \in booking'[b].todo : l \in booking[b].todo /\ k < l
        BY <2>2, <2>3, <2>4
  <2> QED BY <2>3, <2>5 DEF KeyOrder
<1>3. ASSUME NEW b \in Bookers, FindClear(b) PROVE KeyOrder'
  BY <1>3 DEF FindClear, TypeOK, Bookings, KeyOrder
<1>4. ASSUME NEW b \in Bookers, Book(b) \/ GiveUp(b) PROVE KeyOrder'
  <2>1. booking'[b].held = {} /\ \A a \in Bookers \ {b} : booking'[a] = booking[a]
        BY <1>4 DEF Book, GiveUp, TypeOK, NoBooking
  <2> QED BY <2>1 DEF KeyOrder
<1>5. ASSUME booking' = booking PROVE KeyOrder'
  BY <1>5 DEF KeyOrder
<1>6. ASSUME NEW c \in Changes,
             \/ Create(c) \/ Instantiate(c) \/ Patch(c) \/ Submit(c) \/ RequestApproval(c)
             \/ Start(c) \/ Complete(c)
             \/ Close(c) \/ Fail(c) \/ RollBack(c) \/ Cancel(c)
             \/ \E u \in Users : Decide(c, u)
      PROVE  KeyOrder'
  BY <1>5, <1>6 DEF Create, Instantiate, Draft, Patch, Submit, RequestApproval, Start, Complete, Close, Fail, RollBack, Cancel,
     Decide, Move, Transit
<1>7. ASSUME NEW m \in Meetings, Convene(m) PROVE KeyOrder'
  BY <1>5, <1>7 DEF Convene
<1>8. ASSUME NEW s \in Seats, Ask(s) \/ CommitMove(s) \/ CommitAdd(s) \/ CommitDecision(s) \/ Leave(s)
      PROVE  KeyOrder'
  BY <1>5, <1>8 DEF Ask, CommitMove, CommitAdd, CommitDecision, Leave
<1>9. CASE UNCHANGED vars
  BY <1>5, <1>9 DEF vars
<1> QED  BY <1>1, <1>2, <1>3, <1>4, <1>6, <1>7, <1>8, <1>9 DEF Next

\* In a circle, whoever holds the greatest key waits for a greater one.
LEMMA OrderHasNoCycle == TypeOK /\ BookingInv /\ KeyOrder => NoLockCycle
<1> SUFFICES ASSUME TypeOK, BookingInv, KeyOrder, NEW circle \in SUBSET Bookers, circle # {},
                    \A b \in circle : booking[b].todo # {},
                    \A b \in circle : \A k \in NextKeys(booking[b].todo) :
                      \E other \in circle : k \in booking[other].held
             PROVE  FALSE
    BY DEF NoLockCycle
<1> DEFINE T == {n \in Nat : \E b \in circle : LastAsset - n \in booking[b].held}
<1>1. ASSUME NEW b \in circle
      PROVE  \E k \in booking[b].todo : \E other \in circle : k \in booking[other].held
  <2>1. booking[b].todo \in SUBSET Nat
        BY DEF TypeOK, Bookings
  <2>2. \E k \in booking[b].todo : \A l \in booking[b].todo : k <= l
        BY <2>1, LeastNumber
  <2> QED BY <2>2 DEF NextKeys
<1>2. \A b \in circle : \A k \in booking[b].held : k \in 0..LastAsset
  <2> SUFFICES ASSUME NEW b \in circle, NEW k \in booking[b].held PROVE k \in 0..LastAsset
      OBVIOUS
  <2>1. booking[b].change \in Changes /\ k \in Keys(change[booking[b].change].plan.assets)
        BY DEF BookingInv, TypeOK, Bookings, NoBooking
  <2>2. change[booking[b].change].plan.assets \subseteq 1..LastAsset
        BY <2>1 DEF TypeOK, Rows, PlanShapes
  <2> QED BY <2>1, <2>2, ChangeAssumption DEF Keys
<1>3. T # {}
  <2>1. PICK b \in circle, k \in Nat : k \in booking[b].held /\ k \in 0..LastAsset
        BY <1>1, <1>2
  <2>2. LastAsset - k \in Nat /\ LastAsset - (LastAsset - k) = k
        BY <2>1, ChangeAssumption
  <2> QED BY <2>1, <2>2
<1>4. PICK x \in T : \A y \in T : x <= y
  BY <1>3, LeastNumber
<1>5. PICK b \in circle : LastAsset - x \in booking[b].held
  BY <1>4
<1>6. PICK k \in booking[b].todo, other \in circle : k \in booking[other].held
  BY <1>1
<1>7. LastAsset - x < k /\ k \in 0..LastAsset
  BY <1>2, <1>5, <1>6 DEF KeyOrder
<1>8. LastAsset - k \in Nat /\ LastAsset - (LastAsset - k) = k /\ LastAsset - k < x
  BY <1>4, <1>7, ChangeAssumption
<1>9. LastAsset - k \in T
  BY <1>6, <1>8
<1> QED  BY <1>4, <1>8, <1>9

(***************************************************************************)
(* No deadlock of bookings (_lock_asset_windows): however many there are   *)
(* at a time and whatever assets they need, they never wait for keys in a  *)
(* circle, because each takes its keys in ascending order.                 *)
(***************************************************************************)
THEOREM NeverDeadlocked == Spec => []NoLockCycle
<1>1. Init => BookingInv /\ NoDoubleBooking /\ KeyOrder
  BY DEF Init, BookingInv, NoDoubleBooking, KeyOrder, NoBooking, Active
<1> QED  BY <1>1, InitTypes, TypePreserved, BookingPreserved, KeyOrderPreserved, OrderHasNoCycle, PTL DEF Spec
=============================================================================
