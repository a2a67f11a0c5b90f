\* A Redis error between SET NX and LPUSH.
CONSTANTS
  j1 = j1
  j2 = j2
  Jobs = {j1}
  Workers = {w1, w2}
  Operators = {op1}
  MaxAttempts <- OneJobAttempts
  Registered = {j1}
  MissingLimit = 2
  MaxReplays = 2
  MaxPurges = 0
  MaxFaults = 1
  NoJob = NoJob
SPECIFICATION Spec
INVARIANT
  PublishedWasPushed
