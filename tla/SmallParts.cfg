\* The monitor: five state changes and one redirect, so that two outages overlap in the queue,
\* a timer outlives its outage and a drain comes in the middle.  The others: two tracks, three
\* calls of a test, one connection of the proxy.
CONSTANTS
  MaxChanges = 5
  MaxRedirects = 1
  NoVideo = NoVideo
  NoAudio = NoAudio
  Machines <- MCMachines
  Arguments <- MCArguments
  Tracks = {t1, t2}
  FrameSizes = {s1}
  NoTexture = NoTexture
  MaxEvents = 2
  Events = {n1, n2}
  PostedMax = 3
  CallsMax = 3
  Links = {l1, l2}
  BytesEach = 1
SPECIFICATION PartSpec
INVARIANTS
  PartTypeOK
  GraceIsPending
  CodecsAreAsChosen
  CallbacksAreFollowed
  EndsAreTold
PROPERTIES
  ImplementsContract
  OutageEndsUnlessRedirected
  ApplicationsEnd
CHECK_DEADLOCK FALSE
