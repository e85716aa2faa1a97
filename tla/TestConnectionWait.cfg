\* Two of the events that libwebrtc may post, and as many calls as a test makes between two
\* ends of the run task.
CONSTANTS
  Events = {n1, n2}
  PostedMax = 3
  CallsMax = 3
SPECIFICATION TestSpec
INVARIANTS
  OnlyTheEndedIsAwaited
CHECK_DEADLOCK FALSE
