\* Two changes, two bookings at a time, one request about the meeting at a time.
SPECIFICATION Spec
CONSTANTS
  Changes = {"c1", "c2"}
  Users = {"ann", "bob"}
  LastAsset = 2
  Services = {"mail"}
  Meetings = {"m1"}
  Bookers = {b1, b2}
  Seats = {s1}
  By <- MCBy
  Plans <- MCPlans
  Windows <- MCWindows
  None = None
SYMMETRY Symmetry
INVARIANTS TypeOK NoDoubleBooking ConsentGiven NoLockCycle
CHECK_DEADLOCK FALSE
