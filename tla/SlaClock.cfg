\* One ticket, one manager, one evaluator; one recalculation or order.
SPECIFICATION Spec
CONSTANTS
  Minute = 2
  Day = 6
  AllHours = AllHours
  Targets = {"RESPONSE", "RESOLUTION"}
  Duration <- MCDuration
  Warning <- MCWarning
  Calendars <- MCCalendars
  PauseStatuses = {"WAITING_USER"}
  Managers = {m1}
  Evaluators = {e1}
  Horizon = 3
  MaxStart = 1
  MaxMoves = 3
  MaxOrders = 1
  Aims = {"ASSIGNED", "IN_PROGRESS", "WAITING_USER", "RESOLVED", "REOPENED", "CANCELLED"}
  None = None
INVARIANTS TypeOK TimeIsGranted PausedCanResume VerdictsHold
CHECK_DEADLOCK FALSE
