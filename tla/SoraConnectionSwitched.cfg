\* `switched` arrives while a channel is still opening.
CONSTANTS
  Labels = {sig}
  Signaling = sig
  Clients = {c1}
  Offers = {{sig}}
  RedirectLate = FALSE
  MaxRedirects = 0
  MaxQueue = 2
  MaxExtras = 0
SPECIFICATION Spec
INVARIANTS
  SwitchedIsComplete
CHECK_DEADLOCK FALSE
