\* Two events, one with a handler that may raise, two workers, one recovery,
\* one fault.
CONSTANTS
  Events = {e1, e2}
  Flaky = {e1}
  Workers = {w1, w2}
  NoEvent = NoEvent
  MaxAttempts = 2
  MaxRecoveries = 1
  MaxPurges = 0
  MaxFaults = 1
SPECIFICATION Spec
SYMMETRY Symmetry
INVARIANTS
  TypeOK
  NoEntrySkipped
  CleanEventsOnce
  DeliveredHadEffect
PROPERTY
  DeliveredStays
