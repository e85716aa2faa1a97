CONSTANTS
  Tracks = {t1, t2}
  FrameSizes = {s1, s2}
  NoTexture = NoTexture
  MaxEvents = 2
SPECIFICATION SumomoSpec
INVARIANTS ServerEndIsReported
CHECK_DEADLOCK FALSE
