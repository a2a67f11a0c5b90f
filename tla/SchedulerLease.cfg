\* Three schedulers, a lease of six ticks, three faults.
CONSTANTS
  Schedulers = {s1, s2, s3}
  Lease = 6
  Poll = 2
  Refresh = 2
  None = None
  Gone = Gone
  MaxFaults = 3
SPECIFICATION FairSpec
INVARIANTS
  TypeOK
  LeaderOwns
PROPERTY
  RunsAgain
