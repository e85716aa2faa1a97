\* Three of four calls around one redirect, with a queue of two events.
CONSTANTS
  r1 = r1
  r2 = r2
  n1 = n1
  s1 = s1
  Requests = {r1, r2}
  Notifications = {n1}
  StatsCalls = {s1}
  Late = FALSE
  MaxRedirects = 1
  MaxQueue = 2
SPECIFICATION MCSpec
INVARIANTS
  TimeoutIsPending
PROPERTIES
  ImplementsContract
  CallAnswered
CHECK_DEADLOCK FALSE
