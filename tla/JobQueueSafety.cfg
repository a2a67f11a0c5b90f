\* Two jobs, two workers, one replay at a time, one fault.
CONSTANTS
  j1 = j1
  j2 = j2
  Jobs = {j1, j2}
  Workers = {w1, w2}
  Operators = {op1}
  MaxAttempts <- TwoJobAttempts
  Registered = {j1}
  MissingLimit = 1
  MaxReplays = 1
  MaxPurges = 0
  MaxFaults = 1
  NoJob = NoJob
SPECIFICATION Spec
SYMMETRY Symmetry
INVARIANTS
  TypeOK
  OneCopy
  RetryBudget
PROPERTY
  LifecycleSpec
