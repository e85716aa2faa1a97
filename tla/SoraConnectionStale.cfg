\* A channel of the old session is announced while run() connects to the new one.
CONSTANTS
  Labels = {sig}
  Signaling = sig
  Clients = {c1}
  Offers = {{sig}}
  RedirectLate = TRUE
  MaxRedirects = 1
  MaxQueue = 2
  MaxExtras = 0
SPECIFICATION Spec
INVARIANTS
  NoStaleRegistration
CHECK_DEADLOCK FALSE
