---------------------------- MODULE ChangeControl ----------------------------
(***************************************************************************)
(* The control of changes (api/v1/routes/changes.py and                    *)
(* change_governance.py): requests for change from their draft to their    *)
(* end, the decisions of approvers and of CAB meetings about them, and the *)
(* booking of implementation windows.                                      *)
(*                                                                         *)
(* Most operations lock the row of the change, read it and commit: they    *)
(* are one step here.  Booking a window also takes one advisory lock for   *)
(* each asset of the change and then looks for other changes, so that its  *)
(* steps interleave with those of other bookings.  The operations of a     *)
(* meeting take no lock: what they read may be old when they commit.       *)
(*                                                                         *)
(* Not modelled, because they only refuse: versions that clients send,     *)
(* blackout windows, tasks, reviews, incomplete assessments.               *)
(***************************************************************************)
EXTENDS Integers, FiniteSets

CONSTANTS
  Changes, Users, Meetings,
  Services,  \* a service in an environment
  LastAsset, \* the assets are 1 to LastAsset, in the order of their ids
  Bookers,   \* requests that book a window at a time
  Seats,     \* requests that work on a meeting at a time
  By,        \* requested_by: who requests each change
  Plans,     \* bound: the contents each change may be given
  Windows,   \* bound: the windows a booking may ask for
  None

Kinds == {"STANDARD", "NORMAL", "EMERGENCY"}

\* The contents of a change that decide about its way. A window is the set of
\* hours it covers, {} when it is not planned.
PlanShapes == [kind : Kinds, grave : BOOLEAN,  \* high or critical risk, or an outage
               service : Services \cup {None}, assets : SUBSET (1..LastAsset), hours : SUBSET Nat]

ASSUME ChangeAssumption ==
  /\ By \in [Changes -> Users]
  /\ Plans \in [Changes -> SUBSET PlanShapes]
  /\ Windows \subseteq SUBSET Nat /\ LastAsset \in Nat
  /\ None \notin Changes

VARIABLES
  change,   \* change_requests with their asset links
  consent,  \* change_approvals that approve: by whom, since the contents were last changed
  booking,  \* the booking each booker has under way
  meeting,  \* cab_meetings: status
  agenda,   \* cab_agenda_items: the decision on each change
  seat      \* the request about a meeting that each seat has under way

vars == <<change, consent, booking, meeting, agenda, seat>>
board == <<meeting, agenda, seat>>

Statuses == {"NONE", "DRAFT", "ASSESSMENT", "APPROVAL_PENDING", "APPROVED", "REJECTED", "SCHEDULED",
             "IMPLEMENTING", "REVIEW", "COMPLETED", "FAILED", "ROLLED_BACK", "CANCELLED"}
Editable == {"DRAFT", "ASSESSMENT", "REJECTED"}
Active == {"SCHEDULED", "IMPLEMENTING"}
Consented == Active \cup {"APPROVED", "REVIEW", "COMPLETED", "FAILED", "ROLLED_BACK"}
Approvals == {"NOT_REQUESTED", "NOT_REQUIRED", "PENDING", "APPROVED", "REJECTED"}
Rulings == {"APPROVED", "REJECTED"}
Verdicts == Rulings \cup {"DEFERRED", "MORE_INFO"}
Stages == {"NONE", "DRAFT", "PUBLISHED", "IN_PROGRESS", "COMPLETED", "CANCELLED"}

\* cab_required
CabRequired(plan) == plan.kind # "STANDARD" \/ plan.grave

\* (Mutation of Keys: only one of the assets is locked.)
KeysFirst(assets) == {CHOOSE k \in assets \cup {0} : assets # {} => k # 0}

\* The advisory locks of a booking: its assets, or the tenant's key.
Keys(assets) == IF assets = {} THEN {0} ELSE assets

Rows == [status : Statuses, approval : Approvals, plan : PlanShapes]

\* A booking holds the row of its change, and held of the keys it takes.
Bookings == [change : Changes \cup {None}, hours : SUBSET Nat,
             held : SUBSET Nat, todo : SUBSET Nat, clear : BOOLEAN]
NoBooking == [change |-> None, hours |-> {}, held |-> {}, todo |-> {}, clear |-> FALSE]

Requests == [op : {"DECIDE"}, meeting : Meetings, change : Changes, user : Users, verdict : Verdicts]
              \cup [op : {"ADD"}, meeting : Meetings, change : Changes]
              \cup [op : {"MOVE"}, meeting : Meetings, to : Stages]

(***************************************************************************)
(* TYPE INVARIANT.  Changes, meetings and agenda items keep to the values  *)
(* of their literals, and a booking without a change holds nothing.        *)
(***************************************************************************)
TypeOK ==
  /\ change \in [Changes -> Rows]
  /\ consent \in [Changes -> SUBSET Users]
  /\ booking \in [Bookers -> Bookings]
  /\ \A b \in Bookers : booking[b].change = None => booking[b] = NoBooking
  /\ meeting \in [Meetings -> Stages]
  /\ agenda \in [Meetings -> [Changes -> {"NONE", "OPEN"} \cup Verdicts]]
  /\ seat \in [Seats -> Requests \cup {None}]

EmptyPlan == [kind |-> "STANDARD", grave |-> FALSE, service |-> None, assets |-> {}, hours |-> {}]

Init ==
  /\ change = [c \in Changes |-> [status |-> "NONE", approval |-> "NOT_REQUESTED", plan |-> EmptyPlan]]
  /\ consent = [c \in Changes |-> {}]
  /\ booking = [b \in Bookers |-> NoBooking]
  /\ meeting = [m \in Meetings |-> "NONE"]
  /\ agenda = [m \in Meetings |-> [c \in Changes |-> "NONE"]]
  /\ seat = [s \in Seats |-> None]

\* SELECT ... FOR UPDATE and UPDATE wait while a booking holds the row.
RowFree(c) == \A b \in Bookers : booking[b].change # c

-----------------------------------------------------------------------------
(* Operations that lock the row, or create it. *)

Draft(c, plan, approval) ==
  /\ change[c].status = "NONE"
  /\ change' = [change EXCEPT ![c] = [status |-> "DRAFT", approval |-> approval, plan |-> plan]]
  /\ UNCHANGED <<consent, booking, board>>

\* create_change
Create(c) == \E plan \in Plans[c] : Draft(c, plan, "NOT_REQUESTED")

\* instantiate_standard_model: only contents that need no CAB.
Instantiate(c) == \E plan \in Plans[c] : ~CabRequired(plan) /\ Draft(c, plan, "NOT_REQUIRED")

\* patch_change
Patch(c) ==
  /\ RowFree(c)
  /\ change[c].status \in Editable
  /\ \E plan \in Plans[c] : change' = [change EXCEPT ![c].plan = plan]
  /\ consent' = [consent EXCEPT ![c] = {}]
  /\ UNCHANGED <<booking, board>>

\* A ruling on a change: the row a decision adds, and what it writes over the change.
Rule(c, u, verdict) ==
  /\ change' = [change EXCEPT ![c].approval = verdict, ![c].status = verdict]
  /\ consent' = IF verdict = "APPROVED" THEN [consent EXCEPT ![c] = @ \cup {u}] ELSE consent

\* decide_change
Decide(c, u) ==
  /\ RowFree(c)
  /\ change[c].status = "APPROVAL_PENDING" /\ change[c].approval = "PENDING"
  /\ u # By[c]
  /\ \E verdict \in Rulings : Rule(c, u, verdict)
  /\ UNCHANGED <<booking, board>>

\* A transition that writes the status and the approval of the change.
Transit(c, from, to, approval) ==
  /\ RowFree(c)
  /\ change[c].status \in from
  /\ change' = [change EXCEPT ![c].status = to, ![c].approval = approval]
  /\ UNCHANGED <<consent, booking, board>>

Move(c, from, to) == Transit(c, from, to, change[c].approval)

Submit(c) ==
  /\ change[c].plan.kind = "STANDARD" => ~CabRequired(change[c].plan)
  /\ Transit(c, {"DRAFT", "REJECTED"}, "ASSESSMENT",
             IF CabRequired(change[c].plan) THEN "NOT_REQUESTED" ELSE "NOT_REQUIRED")

RequestApproval(c) ==
  IF CabRequired(change[c].plan)
  THEN Transit(c, {"ASSESSMENT"}, "APPROVAL_PENDING", "PENDING")
  ELSE Transit(c, {"ASSESSMENT"}, "APPROVED", "NOT_REQUIRED")

Start(c) == Move(c, {"SCHEDULED"}, "IMPLEMENTING")
Complete(c) == Move(c, {"IMPLEMENTING"}, "REVIEW")
Close(c) == Move(c, {"REVIEW"}, "COMPLETED")
Fail(c) == Move(c, {"IMPLEMENTING"}, "FAILED")
RollBack(c) == Move(c, {"IMPLEMENTING", "FAILED"}, "ROLLED_BACK")
Cancel(c) == Move(c, Editable \cup {"APPROVAL_PENDING", "APPROVED", "SCHEDULED"}, "CANCELLED")

-----------------------------------------------------------------------------
(* SCHEDULE, in the steps of its transaction. *)

\* Locks the row of the change, and reads its assets.
Lock(b, c) ==
  /\ booking[b] = NoBooking
  /\ RowFree(c)
  /\ change[c].status = "APPROVED"
  /\ \E hours \in Windows \cup {change[c].plan.hours} :
       /\ hours # {}
       /\ booking' = [booking EXCEPT ![b] =
            [change |-> c, hours |-> hours, held |-> {},
             todo |-> Keys(change[c].plan.assets), clear |-> FALSE]]
  /\ UNCHANGED <<change, consent, board>>

\* (Mutation of NextKeys: the keys are taken as the assets are listed.)
NextKeysUnsorted(todo) == todo

\* The keys are taken in their order.
NextKeys(todo) == {k \in todo : \A l \in todo : k <= l}

\* _lock_asset_windows: waits for a key that another booking holds until its commit.
TakeKey(b) ==
  /\ \E k \in NextKeys(booking[b].todo) :
       /\ \A other \in Bookers : k \notin booking[other].held
       /\ booking' = [booking EXCEPT ![b].held = @ \cup {k}, ![b].todo = @ \ {k}]
  /\ UNCHANGED <<change, consent, board>>

\* A change that the window of the booking collides with.
Collides(b, d) ==
  LET plan == change[booking[b].change].plan IN
  /\ d # booking[b].change
  /\ change[d].status \in Active
  /\ change[d].plan.hours \cap booking[b].hours # {}
  /\ \/ change[d].plan.assets \cap plan.assets # {}
     \/ change[d].plan.service # None /\ change[d].plan.service = plan.service

\* _window_conflicts and assess_change_window, of what others have committed by then.
FindClear(b) ==
  /\ booking[b] # NoBooking /\ booking[b].todo = {} /\ ~booking[b].clear
  /\ \A d \in Changes : ~Collides(b, d)
  /\ booking' = [booking EXCEPT ![b].clear = TRUE]
  /\ UNCHANGED <<change, consent, board>>

Book(b) ==
  /\ booking[b].clear
  /\ change' = [change EXCEPT ![booking[b].change].status = "SCHEDULED",
                              ![booking[b].change].plan.hours = booking[b].hours]
  /\ booking' = [booking EXCEPT ![b] = NoBooking]
  /\ UNCHANGED <<consent, board>>

\* (Mutation of GiveUp: a refusal leaves the locks with the session.)
GiveUpHolding(b) ==
  /\ booking[b] # NoBooking
  /\ booking' = [booking EXCEPT ![b].change = None, ![b].todo = {}]
  /\ UNCHANGED <<change, consent, board>>

\* A collision, another refusal, an error or a crash: nothing is written, all locks are given back.
GiveUp(b) ==
  /\ booking[b] # NoBooking
  /\ booking' = [booking EXCEPT ![b] = NoBooking]
  /\ UNCHANGED <<change, consent, board>>

-----------------------------------------------------------------------------
(* Meetings. *)

\* create_meeting
Convene(m) ==
  /\ meeting[m] = "NONE"
  /\ meeting' = [meeting EXCEPT ![m] = "DRAFT"]
  /\ UNCHANGED <<change, consent, booking, agenda, seat>>

\* update_meeting, add_agenda_item and decide_agenda_item: what each reads and checks.
Allowed == [NONE |-> {}, DRAFT |-> {"PUBLISHED", "CANCELLED"}, PUBLISHED |-> {"IN_PROGRESS", "CANCELLED"},
            IN_PROGRESS |-> {"COMPLETED"}, COMPLETED |-> {}, CANCELLED |-> {}]

\* (Mutation of MayDecide: a meeting does not ask who requested the change.)
MayDecideOwn(m, c, u, verdict) ==
  /\ agenda[m][c] = "OPEN"
  /\ meeting[m] \in {"PUBLISHED", "IN_PROGRESS"}
  /\ verdict \in Rulings => change[c].status = "APPROVAL_PENDING"

MayDecide(m, c, u, verdict) ==
  /\ agenda[m][c] = "OPEN"
  /\ meeting[m] \in {"PUBLISHED", "IN_PROGRESS"}
  /\ u # By[c]
  /\ verdict \in Rulings => change[c].status = "APPROVAL_PENDING"

Ask(s) ==
  /\ seat[s] = None
  /\ \E m \in Meetings :
       \/ \E to \in Allowed[meeting[m]] :
            seat' = [seat EXCEPT ![s] = [op |-> "MOVE", meeting |-> m, to |-> to]]
       \/ \E c \in Changes :
            /\ meeting[m] \in {"DRAFT", "PUBLISHED"} /\ change[c].status # "NONE"
            /\ seat' = [seat EXCEPT ![s] = [op |-> "ADD", meeting |-> m, change |-> c]]
       \/ \E c \in Changes, u \in Users, verdict \in Verdicts :
            /\ MayDecide(m, c, u, verdict)
            /\ seat' = [seat EXCEPT ![s] = [op |-> "DECIDE", meeting |-> m, change |-> c,
                                            user |-> u, verdict |-> verdict]]
  /\ UNCHANGED <<change, consent, booking, meeting, agenda>>

\* The commits.  A ruling waits for the row of its change and is written over what it finds there.
CommitMove(s) ==
  /\ seat[s] # None /\ seat[s].op = "MOVE"
  /\ meeting' = [meeting EXCEPT ![seat[s].meeting] = seat[s].to]
  /\ seat' = [seat EXCEPT ![s] = None]
  /\ UNCHANGED <<change, consent, booking, agenda>>

CommitAdd(s) ==
  /\ seat[s] # None /\ seat[s].op = "ADD"
  /\ agenda[seat[s].meeting][seat[s].change] = "NONE"
  /\ agenda' = [agenda EXCEPT ![seat[s].meeting][seat[s].change] = "OPEN"]
  /\ seat' = [seat EXCEPT ![s] = None]
  /\ UNCHANGED <<change, consent, booking, meeting>>

CommitDecision(s) ==
  /\ seat[s] # None /\ seat[s].op = "DECIDE"
  /\ LET r == seat[s] IN
     /\ agenda' = [agenda EXCEPT ![r.meeting][r.change] = r.verdict]
     /\ IF r.verdict \in Rulings
        THEN RowFree(r.change) /\ Rule(r.change, r.user, r.verdict)
        ELSE UNCHANGED <<change, consent>>
  /\ seat' = [seat EXCEPT ![s] = None]
  /\ UNCHANGED <<booking, meeting>>

\* Refused, or ended by an error or a crash.
Leave(s) ==
  /\ seat[s] # None
  /\ seat' = [seat EXCEPT ![s] = None]
  /\ UNCHANGED <<change, consent, booking, meeting, agenda>>

-----------------------------------------------------------------------------

Next ==
  \/ \E c \in Changes :
       \/ Create(c) \/ Instantiate(c) \/ Patch(c) \/ Submit(c) \/ RequestApproval(c) \/ Start(c)
       \/ Complete(c) \/ Close(c) \/ Fail(c) \/ RollBack(c) \/ Cancel(c)
       \/ \E u \in Users : Decide(c, u)
       \/ \E b \in Bookers : Lock(b, c)
  \/ \E b \in Bookers : TakeKey(b) \/ FindClear(b) \/ Book(b) \/ GiveUp(b)
  \/ \E m \in Meetings : Convene(m)
  \/ \E s \in Seats : Ask(s) \/ CommitMove(s) \/ CommitAdd(s) \/ CommitDecision(s) \/ Leave(s)

Spec == Init /\ [][Next]_vars

-----------------------------------------------------------------------------
(***************************************************************************)
(* NO DOUBLE BOOKING.  Two changes that are scheduled or being implemented *)
(* and touch the same asset have disjoint windows, although each booking   *)
(* looks for collisions without seeing those that have not committed: the  *)
(* runbook promises to prevent "overlapping maintenance on the same asset" *)
(* (CHANGE-MANAGEMENT-RUNBOOK.md:12).                                      *)
(***************************************************************************)
NoDoubleBooking ==
  \A c, d \in Changes :
    /\ c # d
    /\ change[c].status \in Active /\ change[d].status \in Active
    /\ change[c].plan.assets \cap change[d].plan.assets # {}
    => change[c].plan.hours \cap change[d].plan.hours = {}

(***************************************************************************)
(* CONSENT.  A change that needs the CAB is approved, booked, implemented  *)
(* or finished only with an approval of someone else than its requester    *)
(* that was committed after its contents were last changed, although a     *)
(* meeting rules from an old copy of the change and over any status: "a    *)
(* Normal Change cannot be self-approved"                                  *)
(* (CHANGE-MANAGEMENT-RUNBOOK.md:137).                                     *)
(***************************************************************************)
ConsentGiven ==
  \A c \in Changes :
    /\ change[c].status \in Consented
    /\ CabRequired(change[c].plan)
    => change[c].approval = "APPROVED" /\ consent[c] \ {By[c]} # {}

(***************************************************************************)
(* NO LOCK CYCLE.  Bookings never wait for each other's keys in a circle,  *)
(* because each takes its keys in one order (_lock_asset_windows sorts     *)
(* them).                                                                  *)
(***************************************************************************)
NoLockCycle ==
  \A circle \in (SUBSET Bookers) \ {{}} :
    ~ \A b \in circle : /\ booking[b].todo # {}
                        /\ \A k \in NextKeys(booking[b].todo) :
                             \E other \in circle : k \in booking[other].held
=============================================================================
