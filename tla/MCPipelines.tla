----------------------------- MODULE MCPipelines -----------------------------
(***************************************************************************)
(* The parts around the connection, each on its own, in one run: MP4       *)
(* passthrough, the opening of the stream, the timers of the WebSocket,    *)
(* the replies of RPC, the camera, other video devices, the V4L2 encoder,  *)
(* the vendors' codecs, the alignment of their frames and OpenH264.  A     *)
(* behaviour is one of these; the others rest in a state in which nothing  *)
(* of theirs can happen.  The camera that gives frames to the V4L2 encoder *)
(* is the contract that the capturer implements.                           *)
(***************************************************************************)
EXTENDS MCMp4Files, Mp4Playback, Connecting, WebSocketTimers, Camera, V4l2Pipeline,
        Encoders, VideoDevice, RpcResponse

CONSTANTS c1, c2, c3                      \* capturers of an MP4 file
CONSTANTS k1, k2, s1, s2, e1, e2, v1, v2  \* requests, sizes, encoders, converters
CONSTANTS r1, r2, h1, h2                  \* rates, engines

VARIABLE pipeline  \* the part that runs

streamVars == <<mp4Vars, connectingVars, timerVars>>
inputVars == <<deviceVars, responseVars>>
codecVars == <<hardwareVars, openh264Vars, alignedVars, inputVars>>
allVars == <<pipeline, streamVars, cameraVars, v4l2Vars, codecVars>>

-----------------------------------------------------------------------------
\* Two capturers share a reader of one file; of most others there is none, as only
\* what is read of them matters.
MCUses(f) ==
  IF f = Played THEN {{c1}, {c2, c3}}
  ELSE IF f \in H264Files \/ (Len(f) = 1 /\ f \notin H265Files) THEN {{c1}} ELSE {{}}

\* As that of AMF's AV1 encoder, 64 and 16, but smaller.
MCAlignment == [width |-> 4, height |-> 2]

\* Layouts of a device: with rows that are padded, too short or none at all, with an odd
\* number of them, and as wide as an i32 can say; and a format that is not converted.
MCLayouts ==
  [format : {"Nv12", "Yuy2", "I420"}, width : {0, 1, 3, 7}, height : {1, 3},
   stride : {3, 6}, strideUv : {0, 1, 4}]
    \cup [format : {"Mjpeg"}, width : {3}, height : {3}, stride : {3}, strideUv : {4}]

\* Error objects: two well formed, three without one of their members or with a wrong one,
\* one with a code given twice.
MCErrorMembers ==
  {<<Member("code", "i32"), Member("message", "string")>>,
   <<Member("message", "string"), Member("code", "i32"), Member("data", "null")>>,
   <<Member("code", "number"), Member("message", "string")>>,
   <<Member("code", "i32"), Member("message", "null")>>,
   <<Member("message", "string"), Member("data", "string")>>,
   <<Member("code", "i32"), Member("message", "string"), Member("code", "i32")>>}
MCMembers ==
  {Member("jsonrpc", "2.0"), Member("jsonrpc", "1.0"), Member("id", "ours"), Member("id", "another"),
   Member("id", "null"), Member("result", "null"), Member("error", "null")}
    \cup {ErrorMember(members) : members \in MCErrorMembers}

-----------------------------------------------------------------------------
(* The other parts at rest                                                 *)

Mp4Rests ==
  /\ opened = "refused"
  /\ file = Played
  /\ capturers = [c \in Capturers |-> "unused"]
  /\ clones = {} /\ sender = FALSE /\ requests = <<>> /\ io = "none" /\ joining = {}
  /\ responses = [c \in Capturers |-> "empty"]
  /\ stop = [c \in Capturers |-> FALSE]
  /\ feeders = [c \in Capturers |-> [at |-> "none", index |-> 1, serial |-> 0]]
  /\ frames = [c \in Capturers |-> <<>>]
  /\ encoders = [c \in Capturers |-> NoEncoder]
  /\ sent = [c \in Capturers |-> 0]

ConnectingRests ==
  /\ targets = [a \in Attempts |-> "invalid"]
  /\ viaProxy = FALSE
  /\ attempts = [a \in Attempts |-> [at |-> "aborted", socket |-> FALSE, late |-> FALSE]]
  /\ wires = [a \in Attempts |-> <<>>]
  /\ produced = [a \in Attempts |-> HeadSize]
  /\ pendings = [a \in Attempts |-> <<>>]
  /\ errors = <<>>
  /\ outcome = "abandoned"
  /\ delivered = <<>>

TimersRest ==
  /\ phase = "returned"
  /\ connection = 1
  /\ settings = 0
  /\ handles = [id \in TimerIds |-> 0]
  /\ tasks = {}
  /\ timerRx = <<>>

CameraRests == CameraInit /\ native = FALSE
V4l2Rests == V4l2Init
HardwareRests == HardwareInit /\ handler.file = "amf" /\ handler.side = "encoder"
Openh264Rests == Openh264Init /\ h264Decoder = Absent
DeviceRests == DeviceInit /\ layout = CHOOSE l \in Layouts : TRUE
ResponseRests == ResponseInit /\ form = "array"

Init ==
  /\ pipeline \in {"mp4", "connecting", "timers", "camera", "encoder", "hardware", "openh264",
                  "aligned", "device", "response"}
  /\ IF pipeline = "mp4" THEN Mp4Init ELSE Mp4Rests
  /\ IF pipeline = "connecting" THEN ConnectingInit ELSE ConnectingRests
  /\ IF pipeline = "timers" THEN TimersInit ELSE TimersRest
  /\ IF pipeline = "camera" THEN CameraInit ELSE CameraRests
  /\ V4l2Rests
  /\ IF pipeline = "hardware" THEN HardwareInit ELSE HardwareRests
  /\ IF pipeline = "openh264" THEN Openh264Init ELSE Openh264Rests
  /\ AlignedInit
  /\ IF pipeline = "device" THEN DeviceInit ELSE DeviceRests
  /\ IF pipeline = "response" THEN ResponseInit ELSE ResponseRests

\* Two bounds: a camera on its own has holders in two places, and one session of the
\* camera is enough for the encoder, which never looks at it.
Next ==
  /\ UNCHANGED pipeline
  /\ \/ /\ pipeline = "mp4"
        /\ Mp4Next
        /\ UNCHANGED <<connectingVars, timerVars, cameraVars, v4l2Vars, codecVars>>
     \/ /\ pipeline = "connecting"
        /\ ConnectingNext
        /\ UNCHANGED <<mp4Vars, timerVars, cameraVars, v4l2Vars, codecVars>>
     \/ /\ pipeline = "timers"
        /\ TimersNext
        /\ UNCHANGED <<mp4Vars, connectingVars, cameraVars, v4l2Vars, codecVars>>
     \/ /\ pipeline = "camera"
        /\ CameraNext
        /\ \A r \in references' : r.holder # "convert"
        /\ UNCHANGED <<streamVars, v4l2Vars, codecVars>>
     \/ /\ pipeline = "encoder"
        /\ PipelineNext
        /\ session' <= 1
        /\ UNCHANGED <<streamVars, capturerVars, capture, channelVars, codecVars>>
     \/ /\ pipeline = "hardware"
        /\ HardwareNext
        /\ UNCHANGED <<streamVars, cameraVars, v4l2Vars, openh264Vars, alignedVars, inputVars>>
     \/ /\ pipeline = "openh264"
        /\ Openh264Next
        /\ UNCHANGED <<streamVars, cameraVars, v4l2Vars, hardwareVars, alignedVars, inputVars>>
     \/ /\ pipeline = "aligned"
        /\ AlignedNext
        /\ UNCHANGED <<streamVars, cameraVars, v4l2Vars, hardwareVars, openh264Vars, inputVars>>
     \/ /\ pipeline = "device"
        /\ DeviceNext
        /\ UNCHANGED <<streamVars, cameraVars, v4l2Vars, hardwareVars, openh264Vars, alignedVars,
                       responseVars>>
     \/ /\ pipeline = "response"
        /\ ResponseNext
        /\ UNCHANGED <<streamVars, cameraVars, v4l2Vars, hardwareVars, openh264Vars, alignedVars,
                       deviceVars>>

Spec ==
  /\ Init /\ [][Next]_allVars
  /\ Mp4Fairness /\ ConnectingFairness /\ CameraFairness /\ PipelineFairness
  /\ HardwareFairness

\* Each variable of the part that runs holds a value of its type.
TypeOK ==
  /\ pipeline = "mp4" => Mp4TypeOK
  /\ pipeline = "connecting" => ConnectingTypeOK
  /\ pipeline = "timers" => TimersTypeOK
  /\ pipeline = "camera" => CameraTypeOK
  /\ pipeline = "encoder" => V4l2TypeOK
  /\ pipeline = "hardware" => HardwareTypeOK
  /\ pipeline = "openh264" => Openh264TypeOK
  /\ pipeline = "aligned" => AlignedTypeOK
  /\ pipeline = "device" => DeviceTypeOK
  /\ pipeline = "response" => ResponseTypeOK

\* Each call of libwebrtc's encoder and decoder queues returns: no device and no engine
\* waits for a mutex that the call holds while it waits for the device or engine to end.
CodecCallsReturn == CallsReturn /\ HandlerReturns

\* Each join of a thread returns: that of the MP4 reader's and the feeders' threads when they
\* are dropped, and that of the camera's thread in stop().
JoinsReturn == DropsReturn /\ StopReturns

\* What comes from outside is taken if and only if it can be used: an MP4 file that is
\* accepted plays, a reply settles the request that it is for, and a device's frame is
\* converted from within its buffers.
InputsAreJudged == AcceptedFilesPlay /\ RepliesAreJudged /\ DeviceFramesAreWithin
=============================================================================
