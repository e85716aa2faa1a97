---------------------------- MODULE V4l2Pipeline ----------------------------
(***************************************************************************)
(* V4l2VideoEncoder (src/video_codecs/v4l2.rs) on the frames of a camera.  *)
(* libwebrtc's encoder queue calls it; a converter and an H.264 encoder of *)
(* the device each have a thread that polls the device and runs our        *)
(* callbacks; the mutex of EncoderSharedState lies between the three.      *)
(* Dropping a converter or an encoder waits for its thread.                *)
(*                                                                         *)
(* A call of the encoder queue is a sequence of steps: `call` says which   *)
(* one is next.                                                            *)
(***************************************************************************)
EXTENDS CameraRequests, Sequences

CONSTANTS
  Sizes,       \* sizes of frames, after scaling
  Encoders,    \* names for the device's encoders
  Converters,  \* names for its converters
  Nothing      \* None

\* What an encoder or a converter is built for.
Formats == [mode : {"mmap", "native"}, size : Sizes]
Mmap(size) == [mode |-> "mmap", size |-> size]
Native(size) == [mode |-> "native", size |-> size]

\* A native frame is named by its request; any other is not named.
NativeFrames == [session : 1..SessionsMax, cookie : Cookies]
Plain == Nothing

\* A device is made while the one it replaces is still there.
ASSUME V4l2Assumption ==
  /\ Holders = {"track", "encode", "convert"} /\ Sinks = {"track"}
  /\ Encoders \cap Converters = {}
  /\ Nothing \notin Encoders \cup Converters \cup Sizes \cup Formats \cup NativeFrames
  /\ \A names \in {Encoders, Converters} : \A d \in names \cup {Nothing} : names \ {d} # {}

VARIABLES
  call,          \* the call of the encoder queue, and its next step
  inputMode,     \* input_mode: "mmap" or "native"
  nativeConfig,  \* native_input_config
  width,         \* width and height
  rebuild,       \* rebuild_needed
  converter,     \* the converter, of `devices`
  lock,          \* who holds the mutex of shared_state: "free", or a converter's thread
  shared,        \* EncoderSharedState.encoder, of `devices`
  callback,      \* EncoderSharedState.callback is set
  devices        \* converters and encoders: their format, jobs and thread

configVars == <<inputMode, nativeConfig, width, rebuild>>
sharedVars == <<lock, shared, callback>>

v4l2Vars == <<call, configVars, converter, sharedVars, devices>>
pipelineVars == <<requestVars, v4l2Vars>>

Devices == Encoders \cup Converters

Idle ==
  [at |-> "idle", kind |-> "none", frame |-> Plain, format |-> Nothing,
   encoder |-> Nothing, converter |-> Nothing, old |-> {}]

Closed == [format |-> Nothing, jobs |-> <<>>, thread |-> "none"]
Opened(f) == [format |-> f, jobs |-> <<>>, thread |-> "polls"]

V4l2Init ==
  /\ call = Idle
  /\ inputMode = "mmap"
  /\ nativeConfig = Nothing
  /\ width = Nothing
  /\ rebuild = FALSE
  /\ converter = Nothing
  /\ lock = "free"
  /\ shared = Nothing
  /\ callback = FALSE
  /\ devices = [d \in Devices |-> Closed]

PipelineInit == RequestsInit /\ V4l2Init

-----------------------------------------------------------------------------
(* References to frames                                                    *)

Held(frame, holder) ==
  IF frame = Plain THEN {}
  ELSE {[session |-> frame.session, cookie |-> frame.cookie, holder |-> holder]}

\* References `to` are taken, and then references `from` dropped.
Move(from, to) ==
  /\ references' = (references \ from) \cup to
  /\ UNCHANGED <<session, queued>>

\* The call is over, and drops the frame it was given.
EndCall == call' = Idle /\ Move(Held(call.frame, "encode"), {})

-----------------------------------------------------------------------------
(* Calls of the encoder queue                                              *)

\* init_encode: the converter goes, and an encoder is built for the size.
InitEncode ==
  /\ call = Idle
  /\ \E size \in Sizes :
       /\ width' = size
       /\ call' = [Idle EXCEPT !.at = "leaveConverter", !.kind = "init",
                               !.format = Mmap(size), !.old = {converter} \ {Nothing}]
  /\ inputMode' = "mmap"
  /\ nativeConfig' = Nothing
  /\ rebuild' = TRUE
  /\ converter' = Nothing
  /\ UNCHANGED <<requestVars, sharedVars, devices>>

\* A native frame is dropped before it is encoded, or by encode without a callback.
DropFrame ==
  /\ \E r \in {r \in references : r.holder = "track"} : Move({r}, {})
  /\ UNCHANGED v4l2Vars

\* encode of a native frame, at the size libwebrtc wants it.
EncodeNative(size) ==
  /\ call = Idle
  /\ lock = "free"
  /\ callback
  /\ \E r \in {r \in references : r.holder = "track"} :
       LET frame == [session |-> r.session, cookie |-> r.cookie]
       IN  /\ Move({r}, Held(frame, "encode"))
           /\ rebuild' = \/ rebuild
                         \/ inputMode # "native" \/ nativeConfig # size
                         \/ shared = Nothing \/ converter = Nothing
           /\ call' = [Idle EXCEPT !.at = IF rebuild' THEN "build" ELSE "submit",
                         !.kind = "encode", !.frame = frame, !.format = Native(size)]
  /\ nativeConfig' = size
  /\ UNCHANGED <<inputMode, width, converter, sharedVars, devices>>

\* encode of a frame in memory.
EncodeMmap(size) ==
  /\ call = Idle
  /\ lock = "free"
  /\ callback
  /\ rebuild' = (rebuild \/ inputMode # "mmap" \/ width # size \/ shared = Nothing)
  /\ width' = size
  /\ call' = [Idle EXCEPT !.at = IF rebuild' THEN "build" ELSE "submit",
                          !.kind = "encode", !.format = Mmap(size)]
  /\ UNCHANGED <<requestVars, inputMode, nativeConfig, converter, sharedVars, devices>>

\* Mutated: the converter stays.
ReleaseEncoderOnly ==
  /\ call = Idle
  /\ call' = [Idle EXCEPT !.at = "leaveConverter", !.kind = "release"]
  /\ nativeConfig' = Nothing
  /\ rebuild' = FALSE
  /\ inputMode' = "mmap"
  /\ UNCHANGED <<requestVars, width, converter, sharedVars, devices>>

\* release: the converter goes, then the encoder and the callback.
Release ==
  /\ call = Idle
  /\ call' = [Idle EXCEPT !.at = "leaveConverter", !.kind = "release",
                          !.old = {converter} \ {Nothing}]
  /\ converter' = Nothing
  /\ nativeConfig' = Nothing
  /\ rebuild' = FALSE
  /\ inputMode' = "mmap"
  /\ UNCHANGED <<requestVars, width, sharedVars, devices>>

\* register_encode_complete_callback
RegisterCallback ==
  /\ call = Idle
  /\ lock = "free"
  /\ callback' \in BOOLEAN
  /\ UNCHANGED <<requestVars, call, configVars, converter, lock, shared, devices>>

\* set_rates; the device may refuse the bitrate.
SetRates ==
  /\ call = Idle
  /\ lock = "free"
  /\ rebuild' \in {TRUE} \cup (IF shared = Nothing THEN {} ELSE {rebuild})
  /\ UNCHANGED <<requestVars, call, inputMode, nativeConfig, width, converter, sharedVars, devices>>

-----------------------------------------------------------------------------
(* rebuild_mmap_encoder and rebuild_native_pipeline                        *)

\* A name that no device has; which one is of no importance.
Free(names) == CHOOSE d \in names : devices[d] = Closed

\* A new encoder, and for native frames a new converter: either may fail.
Build ==
  /\ call.at = "build"
  /\ \/ EndCall /\ UNCHANGED devices
     \/ LET e == Free(Encoders)
            v == IF call.format.mode = "native" THEN Free(Converters) ELSE Nothing
        IN  /\ devices' = [d \in Devices |->
                 IF d \in {e, v} THEN Opened(call.format) ELSE devices[d]]
            /\ call' = [call EXCEPT !.at = "take", !.encoder = e, !.converter = v]
            /\ UNCHANGED requestVars
  /\ UNCHANGED <<configVars, converter, sharedVars>>

\* Mutated: the mutex is held until the old encoder has gone.
TakeEncoderLocked ==
  /\ call.at = "take"
  /\ \/ /\ lock = "free"
        /\ lock' = "queue"
        /\ call' = [call EXCEPT !.old = {shared} \ {Nothing}]
        /\ shared' = Nothing
     \/ /\ lock = "queue"
        /\ \A d \in call.old : devices[d].thread = "polls"
        /\ lock' = "free"
        /\ call' = [call EXCEPT !.at = "leaveEncoder"]
        /\ UNCHANGED shared
  /\ UNCHANGED <<requestVars, configVars, converter, callback, devices>>

\* The mutex is held just to take the old encoder out; release clears the callback.
TakeEncoder ==
  /\ call.at = "take"
  /\ lock = "free"
  /\ call' = [call EXCEPT !.at = "leaveEncoder", !.old = {shared} \ {Nothing}]
  /\ shared' = Nothing
  /\ callback' = (callback /\ call.kind # "release")
  /\ UNCHANGED <<requestVars, configVars, converter, lock, devices>>

\* The frames that the jobs of a device keep.
KeptBy(d) ==
  UNION {Held(devices[d].jobs[i].frame, "convert") : i \in DOMAIN devices[d].jobs}

\* Devices are dropped once their threads are in no callback, and their jobs with them.
Drop(ds) ==
  /\ \A d \in ds : devices[d].thread = "polls"
  /\ devices' = [d \in Devices |-> IF d \in ds THEN Closed ELSE devices[d]]
  /\ Move(UNION {KeptBy(d) : d \in ds}, {})

\* Mutated: the new encoder is there before the old converter has gone.
DropEncoderEarly ==
  /\ call.at = "leaveEncoder"
  /\ lock = "free"
  /\ Drop(call.old)
  /\ IF call.kind = "release" THEN call' = Idle /\ UNCHANGED <<converter, shared>>
     ELSE /\ call' = [call EXCEPT !.at = "leaveConverter", !.old = {converter} \ {Nothing}]
          /\ converter' = call.converter
          /\ shared' = call.encoder
  /\ UNCHANGED <<configVars, lock, callback>>

\* The old encoder goes, and then the old converter.
DropEncoder ==
  /\ call.at = "leaveEncoder"
  /\ Drop(call.old)
  /\ IF call.kind = "release" THEN call' = Idle /\ UNCHANGED converter
     ELSE /\ call' = [call EXCEPT !.at = "leaveConverter", !.old = {converter} \ {Nothing}]
          /\ converter' = call.converter
  /\ UNCHANGED <<configVars, sharedVars>>

\* The old converter goes: before anything else in init_encode and release, and
\* after the old encoder in a rebuild.
DropConverter ==
  /\ call.at = "leaveConverter"
  /\ Drop(call.old)
  /\ call' = [call EXCEPT !.old = {},
       !.at = IF call.encoder # Nothing THEN "assign"
              ELSE IF call.kind = "release" THEN "take" ELSE "build"]
  /\ UNCHANGED <<configVars, converter, sharedVars>>

\* The new encoder is there; a frame that waits for it goes on.
AssignEncoder ==
  /\ call.at = "assign"
  /\ lock = "free"
  /\ shared' = call.encoder
  /\ inputMode' = call.format.mode
  /\ IF inputMode' = "mmap" THEN nativeConfig' = Nothing /\ UNCHANGED width
     ELSE width' = nativeConfig /\ UNCHANGED nativeConfig
  /\ rebuild' = FALSE
  /\ call' = IF call.kind = "init" THEN Idle
             ELSE [call EXCEPT !.at = "submit", !.encoder = Nothing, !.converter = Nothing]
  /\ UNCHANGED <<requestVars, converter, lock, callback, devices>>

-----------------------------------------------------------------------------
(* encode, when what it needs is there                                     *)

\* The device takes a job while it has a buffer, and may refuse one anyway.
Submit(d, job) == devices' = [devices EXCEPT ![d].jobs = Append(@, job)]

HasBuffer(d) == devices[d].jobs = <<>>

\* Mutated: the conversion does not keep the frame.
ConvertUnkept ==
  /\ call.at = "submit"
  /\ call.format.mode = "native"
  /\ \/ /\ HasBuffer(converter)
        /\ Submit(converter, [format |-> call.format, frame |-> call.frame])
     \/ UNCHANGED devices
  /\ EndCall
  /\ UNCHANGED <<configVars, converter, sharedVars>>

\* convert of a native frame, which the conversion keeps.
Convert ==
  /\ call.at = "submit"
  /\ call.format.mode = "native"
  /\ \/ /\ HasBuffer(converter)
        /\ Submit(converter, [format |-> call.format, frame |-> call.frame])
        /\ Move(Held(call.frame, "encode"), Held(call.frame, "convert"))
        /\ call' = Idle
     \/ EndCall /\ UNCHANGED devices
  /\ UNCHANGED <<configVars, converter, sharedVars>>

\* A frame in memory: the encoder is taken out of the shared state while it is used.
TakeToEncode ==
  /\ call.at = "submit"
  /\ call.format.mode = "mmap"
  /\ lock = "free"
  /\ call' = [call EXCEPT !.at = "putBack", !.encoder = shared]
  /\ shared' = Nothing
  /\ UNCHANGED <<requestVars, configVars, converter, lock, callback, devices>>

EncodeAndPutBack ==
  /\ call.at = "putBack"
  /\ lock = "free"
  /\ shared' = call.encoder
  /\ call' = Idle
  /\ \/ HasBuffer(call.encoder) /\ Submit(call.encoder, [format |-> call.format, frame |-> Plain])
     \/ UNCHANGED devices
  /\ UNCHANGED <<requestVars, configVars, converter, lock, callback>>

-----------------------------------------------------------------------------
(* The threads of the devices                                              *)

\* The thread's callback ends, with the job and the frame it keeps.
JobDone(d) ==
  devices' = [devices EXCEPT ![d].jobs = Tail(@), ![d].thread = "polls"]

\* A job is done: its callback has a result to give to the shared state, or an error.
Finish(d) ==
  /\ devices[d].thread = "polls"
  /\ devices[d].jobs # <<>>
  /\ \/ devices' = [devices EXCEPT ![d].thread = "waits"] /\ UNCHANGED requestVars
     \/ JobDone(d) /\ Move(Held(Head(devices[d].jobs).frame, "convert"), {})
  /\ UNCHANGED <<call, configVars, converter, sharedVars>>

\* handle_v4l2_convert_callback locks the mutex,
LockToForward(v) ==
  /\ devices[v].thread = "waits"
  /\ lock = "free"
  /\ lock' = v
  /\ devices' = [devices EXCEPT ![v].thread = "forwards"]
  /\ UNCHANGED <<requestVars, call, configVars, converter, shared, callback>>

\* and under it gives the converted frame to the encoder, if there is one.
Forward(v) ==
  /\ devices[v].thread = "forwards"
  /\ LET job == Head(devices[v].jobs)
         done == [devices EXCEPT ![v].jobs = Tail(@), ![v].thread = "polls"]
     IN  /\ \/ devices' = done
            \/ /\ shared # Nothing
               /\ HasBuffer(shared)
               /\ devices' = [done EXCEPT ![shared].jobs =
                                Append(@, [format |-> job.format, frame |-> Plain])]
         /\ Move(Held(job.frame, "convert"), {})
  /\ lock' = "free"
  /\ UNCHANGED <<call, configVars, converter, shared, callback>>

\* handle_v4l2_encode_callback reads the callback under the mutex, and calls it
\* without.
ReadCallback(e) ==
  /\ devices[e].thread = "waits"
  /\ lock = "free"
  /\ IF callback THEN devices' = [devices EXCEPT ![e].thread = "reports"] ELSE JobDone(e)
  /\ UNCHANGED <<requestVars, call, configVars, converter, sharedVars>>

Report(e) ==
  /\ devices[e].thread = "reports"
  /\ JobDone(e)
  /\ UNCHANGED <<requestVars, call, configVars, converter, sharedVars>>

-----------------------------------------------------------------------------
CallNext ==
  \/ Build \/ TakeEncoder \/ DropEncoder \/ DropConverter \/ AssignEncoder
  \/ Convert \/ TakeToEncode \/ EncodeAndPutBack

ConverterNext(v) == Finish(v) \/ LockToForward(v) \/ Forward(v)
EncoderThreadNext(e) == Finish(e) \/ ReadCallback(e) \/ Report(e)

V4l2Next ==
  \/ InitEncode \/ Release \/ RegisterCallback \/ SetRates
  \/ DropFrame
  \/ \E size \in Sizes : EncodeNative(size) \/ EncodeMmap(size)
  \/ CallNext
  \/ \E v \in Converters : ConverterNext(v)
  \/ \E e \in Encoders : EncoderThreadNext(e)

PipelineNext ==
  \/ V4l2Next
  \/ (BeginSession \/ Queue \/ Complete \/ Lend) /\ UNCHANGED v4l2Vars

PipelineSpec == PipelineInit /\ [][PipelineNext]_pipelineVars

\* Threads run and the device ends its jobs.  When frames come, and what libwebrtc
\* calls, is left open.
PipelineFairness ==
  /\ WF_pipelineVars(CallNext)
  /\ \A v \in Converters : WF_pipelineVars(ConverterNext(v))
  /\ \A e \in Encoders : WF_pipelineVars(EncoderThreadNext(e))

-----------------------------------------------------------------------------
(* Properties                                                              *)

Jobs == [format : Formats, frame : NativeFrames \cup {Plain}]

\* Each variable holds a value of its type.
V4l2TypeOK ==
  /\ call \in [at : {"idle", "build", "take", "leaveEncoder", "leaveConverter", "assign",
                     "submit", "putBack"},
               kind : {"none", "init", "encode", "release"},
               frame : NativeFrames \cup {Plain},
               format : Formats \cup {Nothing},
               encoder : Encoders \cup {Nothing},
               converter : Converters \cup {Nothing},
               old : SUBSET Devices]
  /\ inputMode \in {"mmap", "native"}
  /\ nativeConfig \in Sizes \cup {Nothing}
  /\ width \in Sizes \cup {Nothing}
  /\ rebuild \in BOOLEAN
  /\ converter \in Converters \cup {Nothing}
  /\ lock \in {"free"} \cup Converters
  /\ shared \in Encoders \cup {Nothing}
  /\ callback \in BOOLEAN
  /\ devices \in [Devices ->
       [format : Formats \cup {Nothing}, jobs : Seq(Jobs),
        thread : {"none", "polls", "waits", "forwards", "reports"}]]

\* A conversion of a frame of the session reads a buffer that the camera does not
\* write to: its request is lent, until the conversion is over.
ConversionsReadTheirFrames ==
  \A v \in Converters : \A i \in DOMAIN devices[v].jobs :
    LET frame == devices[v].jobs[i].frame
    IN  frame.session = session => frame.cookie \in Lent /\ frame.cookie \notin queued

\* No encoder or converter is given a frame of another mode or size than it was built
\* for, whatever the order of sizes, modes, failed rebuilds and late conversions.
DevicesGetTheirFormat ==
  \A d \in Devices : \A i \in DOMAIN devices[d].jobs :
    devices[d].jobs[i].format = devices[d].format

\* When release has returned, nothing of an encoder that was in use is left that could
\* call back: no device, no thread, no frame kept from the camera.
ReleasedIsQuiet ==
  call = Idle /\ shared = Nothing /\ width # Nothing =>
    /\ \A d \in Devices : devices[d] = Closed
    /\ \A r \in references : r.holder = "track"

\* Each call of libwebrtc returns: no two of its thread and the device threads wait
\* for each other.
CallsReturn == []<>(call = Idle)
=============================================================================
