\* Liveness: one channel, a redirect before the Offer.
CONSTANTS
  Labels = {sig}
  Signaling = sig
  Clients = {c1}
  Offers = {{sig}}
  RedirectLate = FALSE
  MaxRedirects = 1
  MaxQueue = 2
  MaxExtras = 0
SPECIFICATION FairSpec
PROPERTIES
  DisconnectAnswered
  LeavingReturns
  OpenedCloseEnds
CHECK_DEADLOCK FALSE
