\* One event, two workers, two recoveries, one event purged, no faults.
CONSTANTS
  Events = {e1}
  Flaky = {e1}
  Workers = {w1, w2}
  NoEvent = NoEvent
  MaxAttempts = 2
  MaxRecoveries = 2
  MaxPurges = 1
  MaxFaults = 0
SPECIFICATION FairSpec
PROPERTY
  Handles
