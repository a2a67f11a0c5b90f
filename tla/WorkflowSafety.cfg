\* An order, two notes, two shipments, two approvals in turn, a subflow that asks
\* for an approval or one within another; two workers, two requests at a time, one
\* fault.
CONSTANTS
  Workers = {w1, w2}
  Operators = {o1, o2}
  MaxExecs = 3
  Flows <- MCFlows
  Demands <- MCNested
  Nodes <- MCNodes
  Entry <- MCEntry
  Kind <- MCKind
  Succ <- MCSucc
  Target <- MCTarget
  Tries <- MCTries
  Undoable = {"book", "pay", "stock"}
  Compensating = {"order", "errand"}
  Tolerant = {}
  Serial = {"note"}
  MaxActive <- MCMaxActive
  MaxAttempts = 3
  MaxFaults = 1
  None = None
  Purged = Purged
SYMMETRY Symmetry
SPECIFICATION Spec
INVARIANTS
  TypeOK
  DoneOnce
  CompensationReverses
  PendingIsAwaited
  SerialOrder
  OneChild
PROPERTIES
  CancelCascades
CHECK_DEADLOCK FALSE
