\* One job, two workers, two replay requests that may overlap, retention, no faults.
CONSTANTS
  j1 = j1
  j2 = j2
  Jobs = {j1}
  Workers = {w1, w2}
  Operators = {op1, op2}
  MaxAttempts <- OneJobAttempts
  Registered = {j1}
  MissingLimit = 2
  MaxReplays = 2
  MaxPurges = 1
  MaxFaults = 0
  NoJob = NoJob
SPECIFICATION FairSpec
INVARIANTS
  DeadLettersListed
PROPERTY
  Settles
