\* Four events of two sources, two ingestions at a time.
SPECIFICATION Spec
CONSTANTS
  Events = {"f1", "f2", "f3", "r1"}
  Kind <- MCKind
  Policies <- MCPolicies
  Workers = {w1, w2}
  MaxRepeats = 1
  MaxMoves = 3
  Aims = {"IN_PROGRESS", "RESOLVED", "CLOSED", "REOPENED", "CANCELLED"}
  None = None
SYMMETRY Symmetry
INVARIANTS TypeOK CountedOnce OneIncident QuietOnceAnswered
PROPERTIES LawfulTickets
CHECK_DEADLOCK FALSE
