\* A timeout task of the old session that posts late.
CONSTANTS
  Requests = {r1, r2}
  Notifications = {}
  StatsCalls = {}
  Late = TRUE
  MaxRedirects = 1
  MaxQueue = 2
SPECIFICATION Spec
INVARIANTS
  TimeoutIsOwn
CHECK_DEADLOCK FALSE
