\* A channel opens and closes before run() has processed that it arrived.
CONSTANTS
  Labels = {sig}
  Signaling = sig
  Clients = {c1}
  Offers = {{sig}}
  RedirectLate = FALSE
  MaxRedirects = 0
  MaxQueue = 2
  MaxExtras = 0
SPECIFICATION FairSpec
PROPERTIES
  ClosedChannelEnds
CHECK_DEADLOCK FALSE
