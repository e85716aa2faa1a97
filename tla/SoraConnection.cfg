\* Two channels, or one channel and a redirect.
CONSTANTS
  sig = sig
  msg = msg
  Labels = {sig, msg}
  Signaling = sig
  Clients = {c1}
  Offers = {{sig}, {sig, msg}}
  RedirectLate = TRUE
  MaxRedirects = 1
  MaxQueue = 2
  MaxExtras = 1
SPECIFICATION Spec
CONSTRAINT OneOrTheOther
INVARIANTS
  SelfCloseIsAbsorbed
  DataChannelSignalingIsComplete
  OrderlyEndNeverFails
  ConnectComesFirst
  WebSocketCloseOnce
PROPERTIES
  ImplementsContract
  SwitchedSurvivesWebSocketLoss
CHECK_DEADLOCK FALSE
