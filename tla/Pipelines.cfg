CONSTANTS
  c1 = c1
  c2 = c2
  c3 = c3
  App = app
  None = None
  Capturers = {c1, c2, c3}
  Uses <- MCUses
  Connected = {c1}
  Files <- MCFiles
  Receivers <- MCReceivers
  SerialMax = 4
  MaxFrames = 1
  Attempts = {a1, a2}
  HeadSize = 2
  BytesMax = 4
  NoOutcome = NoOutcome
  TimerIds = {Ping, CloseTimeout}
  Capacity = 2
  SettingsMax = 4
  ConnectionsMax = 2
  k1 = k1
  k2 = k2
  Cookies = {k1, k2}
  Holders = {"track", "encode", "convert"}
  Sinks = {"track"}
  SessionsMax = 2
  s1 = s1
  s2 = s2
  Sizes = {s1, s2}
  e1 = e1
  e2 = e2
  v1 = v1
  v2 = v2
  Encoders = {e1, e2}
  Converters = {v1, v2}
  Nothing = Nothing
  r1 = r1
  r2 = r2
  h1 = h1
  h2 = h2
  FrameSizes = {s1, s2}
  Rates = {r1, r2}
  Engines = {h1, h2}
  MaxInputs = 2
  Unset = Unset
  PictureSizes = {s1, s2}
  BitrateMax = 3
  FirstBitrate = 1
  Absent = Absent
  Alignment <- MCAlignment
  Sides = {0, 1, 3, 4, 5, 7, 9}
  I32Max = 7
  Layouts <- MCLayouts
  Lengths = {0, 3, 6, 7, 8, 12, 18}
  NoBuffer = NoBuffer
  Members <- MCMembers
  MaxMembers = 4
SPECIFICATION Spec
INVARIANTS
  TypeOK
  InputsAreJudged
  ReceiverDecodesTrack
  WaitingIsServed
  FailureIsComplete
  NothingReadIsLost
  TimersAreHeld
  ConversionsReadTheirFrames
  DevicesGetTheirFormat
  ReleasedIsQuiet
  FramesFitTheirEncoders
  CallbackIsRegistered
  PausesEndWithKeyFrame
PROPERTIES
  PassthroughDecodable
  JoinsReturn
  OnlyDnsAndWriteHold
  LosersEnd
  RequestsSpec
  CodecCallsReturn
CHECK_DEADLOCK FALSE
