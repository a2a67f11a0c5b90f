\* An order, two notes, two shipments or a subflow; one request at a time, one fault.
CONSTANTS
  Workers = {w1}
  Operators = {o1}
  MaxExecs = 2
  Flows <- MCFlows
  Demands <- MCDemands
  Nodes <- MCNodes
  Entry <- MCEntry
  Kind <- MCKind
  Succ <- MCSucc
  Target <- MCTarget
  Tries <- MCTries
  Undoable = {"book", "pay", "stock"}
  Compensating = {"order", "errand"}
  Tolerant = {}
  Serial = {"note"}
  MaxActive <- MCMaxActive
  MaxAttempts = 3
  MaxFaults = 1
  None = None
  Purged = Purged
SPECIFICATION FairSpec
PROPERTY
  Ends
CHECK_DEADLOCK FALSE
