------------------------- MODULE MCWorkflowExecution -------------------------
(* The instance of WorkflowExecution for TLC.  "order" books, asks for an  *)
(* approval, pays and hands over; booking and paying can be compensated.   *)
(* "plan" asks for two approvals in turn.  "errand" takes from stock, which *)
(* can be compensated, and calls "permit", which asks for an approval;     *)
(* "trip" calls "relay", which calls "stub", which only ends.  "ship" acts *)
(* once.  "note" waits or not and then writes, one execution after the     *)
(* other.                                                                  *)
EXTENDS WorkflowExecution, TLC

MCFlows == {"order", "plan", "trip", "relay", "stub", "errand", "permit", "ship", "note"}
MCEntry == [order |-> "book", plan |-> "first", trip |-> "leg", relay |-> "haul", stub |-> "over",
            errand |-> "stock", permit |-> "sign", ship |-> "hand", note |-> "late"]
MCKind == [book |-> "ACTION", ask |-> "APPROVAL", pay |-> "ACTION",
           first |-> "APPROVAL", sign |-> "APPROVAL",
           leg |-> "SUBFLOW", haul |-> "SUBFLOW", stock |-> "ACTION", ring |-> "SUBFLOW",
           hand |-> "ACTION", late |-> "CONDITION", pause |-> "WAIT", write |-> "ACTION",
           over |-> "END"]
MCNodes == DOMAIN MCKind
MCSucc == [book |-> [next |-> "ask"], pay |-> [next |-> "hand"],
           ask |-> [approved |-> "pay", rejected |-> "over", timeout |-> "over"],
           first |-> [approved |-> "sign", rejected |-> "over", timeout |-> "over"],
           sign |-> [approved |-> "over", rejected |-> "over", timeout |-> "over"],
           leg |-> [next |-> "over"], haul |-> [next |-> "over"],
           stock |-> [next |-> "ring"], ring |-> [next |-> "over"],
           hand |-> [next |-> "over"],
           late |-> [true |-> "write", false |-> "pause"],
           pause |-> [next |-> "write"], write |-> [next |-> "over"]]
MCTarget == [leg |-> "relay", haul |-> "stub", ring |-> "permit"]
MCTries == [n \in MCNodes |-> IF n = "write" THEN 2 ELSE 1]
MCMaxActive == [f \in MCFlows |-> IF f = "ship" THEN 1 ELSE 2]

Only(flow, times) == [f \in MCFlows |-> IF f = flow THEN times ELSE 0]

\* An order; two notes; two shipments, of which one has to be dropped; an
\* execution with a subflow that asks for an approval.
MCDemands == {Only("order", 1), Only("note", 2), Only("ship", 2), Only("errand", 1)}
\* And two approvals in turn, and a subflow within a subflow.
MCNested == MCDemands \cup {Only("plan", 1), Only("trip", 1)}

Symmetry == Permutations(Workers) \cup Permutations(Operators)

=============================================================================
