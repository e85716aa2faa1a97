----------------------------- MODULE Mp4Playback -----------------------------
(***************************************************************************)
(* MP4 passthrough (src/video_codecs/mp4.rs): one I/O thread that reads    *)
(* the samples for all clones of an Mp4SampleReader, one feeder thread per *)
(* Mp4VideoCapturer, one Mp4PassthroughEncoder per connection, driven by   *)
(* libwebrtc, and the application's threads, which drop capturers and      *)
(* readers whenever they like.  WebRTC loses any frame it likes on the way *)
(* from a feeder to its encoder.                                           *)
(*                                                                         *)
(* Left out: time.  A deadline passes when it does.                        *)
(***************************************************************************)
EXTENDS Mp4File

LOCAL INSTANCE SequencesExt

CONSTANTS
  Files,      \* files that may be opened
  Receivers,  \* SDP formats a receiver may ask for
  Capturers,  \* capturers that may be made of the reader
  Uses(_),    \* sets of capturers that an application makes of a file
  Connected,  \* capturers whose video source a connection sends
  App,        \* the application, as an owner of a reader
  SerialMax,  \* u64::MAX: where the counter of a feeder ends
  MaxFrames   \* bound: frames between a feeder and its encoder

ASSUME Mp4Assumption ==
  /\ App \notin Capturers
  /\ Connected \subseteq Capturers
  /\ {SerialMax, MaxFrames} \subseteq Nat

IsSequence(q) == q \in Seq({q[i] : i \in DOMAIN q})

\* The samples of a track are a Vec, and so are the bytes and the OBUs of each, and what the
\* sample entries list.
ASSUME FilesAssumption ==
  \A f \in Files :
    /\ IsSequence(VideoSamples(f))
    /\ \A s \in ToSet(VideoSamples(f)) : s.data \in Seq(0..255) /\ IsSequence(s.obus)
    /\ \A e \in EntriesOf(VideoSamples(f)) :
         /\ e.codec = "H264" => IsSequence(e.sps) /\ IsSequence(e.pps)
         /\ e.codec = "H265" => IsSequence(e.nalus)
         /\ e.codec = "AV1" => IsSequence(e.configObus)

VARIABLES
  file,       \* the file given to Mp4SampleReader::new
  opened,     \* "no" before new, then "yes" or "refused"
  clones,     \* owners of a clone of the reader
  sender,     \* the request channel is open: Mp4SampleReaderIo.sender
  requests,   \* the request channel: capturers that wait for a sample
  io,         \* the I/O thread: "none", "running" or "ended"
  responses,  \* per capturer: its response channel, "empty", "sample" or "error"
  joining,    \* owners whose drop waits for the I/O thread
  capturers,  \* per capturer: "unused", "none", "playing", "dropping" or "dropped"
  stop,       \* per capturer: its stop flag
  feeders,    \* per capturer: its feeder thread
  frames,     \* per capturer: frames on their way to its encoder
  encoders,   \* per capturer: the encoder of its connection
  sent        \* history, per capturer: index of the last sample sent, 0 at first

readerVars == <<file, opened, clones, sender, joining>>
ioVars == <<requests, io, responses>>
feederVars == <<capturers, stop, feeders>>
encoderVars == <<encoders, sent>>

mp4Vars == <<readerVars, ioVars, feederVars, frames, encoderVars>>

Owners == Capturers \cup {App}

SampleCount == Len(VideoSamples(file))
IsKeyframe(i) == VideoSamples(file)[i].key

\* Mp4PassthroughEncoder::new; `last` is last_playback_serial.
NewEncoder(format) ==
  [format |-> format, callback |-> FALSE, waiting |-> TRUE, last |-> None]

NoEncoder == [NewEncoder(None) EXCEPT !.waiting = FALSE]

Mp4Init ==
  /\ file \in Files
  /\ opened = "no"
  /\ clones = {}
  /\ sender = FALSE
  /\ requests = <<>>
  /\ io = "none"
  /\ responses = [c \in Capturers |-> "empty"]
  /\ joining = {}
  /\ \E use \in Uses(file) :
       capturers = [c \in Capturers |-> IF c \in use THEN "none" ELSE "unused"]
  /\ stop = [c \in Capturers |-> FALSE]
  /\ feeders = [c \in Capturers |-> [at |-> "none", index |-> 1, serial |-> 0]]
  /\ frames = [c \in Capturers |-> <<>>]
  /\ encoders = [c \in Capturers |-> NoEncoder]
  /\ sent = [c \in Capturers |-> 0]

-----------------------------------------------------------------------------
(* The application                                                         *)

\* Mp4SampleReader::new
OpenFile ==
  /\ opened = "no"
  /\ IF Accepted(file)
       THEN /\ opened' = "yes"
            /\ clones' = {App}
            /\ sender' = TRUE
            /\ io' = "running"
       ELSE /\ opened' = "refused"
            /\ UNCHANGED <<clones, sender, io>>
  /\ UNCHANGED <<file, joining, requests, responses, feederVars, frames, encoderVars>>

\* Mp4VideoCapturer::new takes a reader: a clone, or the application's own.
NewCapturer(c) ==
  /\ capturers[c] = "none"
  /\ App \in clones
  /\ \E given \in {{}, {App}} : clones' = (clones \ given) \cup {c}
  /\ capturers' = [capturers EXCEPT ![c] = "playing"]
  /\ feeders' = [feeders EXCEPT ![c].at = "next"]
  /\ UNCHANGED <<file, opened, sender, joining, ioVars, stop, frames, encoderVars>>

\* Mutated: the channel stays open, and so does the I/O thread.
DropCloneOpen(owner) ==
  /\ clones' = clones \ {owner}
  /\ UNCHANGED sender
  /\ joining' = IF clones' = {} THEN joining \cup {owner} ELSE joining

\* Mutated: whoever drops a reader closes the request channel.
DropCloneClosing(owner) ==
  /\ clones' = clones \ {owner}
  /\ sender' = FALSE
  /\ joining' = IF clones' = {} THEN joining \cup {owner} ELSE joining

\* An owner drops its reader.  The last one closes the channel and waits.
DropClone(owner) ==
  /\ clones' = clones \ {owner}
  /\ sender' = (clones' # {})
  /\ joining' = IF clones' = {} THEN joining \cup {owner} ELSE joining

DropReader ==
  /\ App \in clones
  /\ DropClone(App)
  /\ UNCHANGED <<file, opened, ioVars, feederVars, frames, encoderVars>>

ReaderDropped ==
  /\ App \in joining
  /\ io = "ended"
  /\ joining' = joining \ {App}
  /\ UNCHANGED <<file, opened, clones, sender, ioVars, feederVars, frames, encoderVars>>

\* Drop of Mp4VideoCapturer: it sets the flag and waits for the feeder.
DropCapturer(c) ==
  /\ capturers[c] = "playing"
  /\ capturers' = [capturers EXCEPT ![c] = "dropping"]
  /\ stop' = [stop EXCEPT ![c] = TRUE]
  /\ UNCHANGED <<readerVars, ioVars, feeders, frames, encoderVars>>

CapturerDropped(c) ==
  /\ capturers[c] = "dropping"
  /\ feeders[c].at = "ended"
  /\ capturers' = [capturers EXCEPT ![c] = "dropped"]
  /\ UNCHANGED <<readerVars, ioVars, stop, feeders, frames, encoderVars>>

-----------------------------------------------------------------------------
(* The I/O thread                                                          *)

\* It serves a request.  Reading may fail; the capturer may have gone.
ServeRequest ==
  /\ io = "running"
  /\ requests # <<>>
  /\ requests' = Tail(requests)
  /\ \E result \in {"sample", "error"} :
       responses' = [responses EXCEPT ![Head(requests)] = result]
  /\ UNCHANGED <<readerVars, io, feederVars, frames, encoderVars>>

\* recv fails once the channel is closed and empty.
IoThreadEnds ==
  /\ io = "running"
  /\ requests = <<>>
  /\ ~sender
  /\ io' = "ended"
  /\ UNCHANGED <<readerVars, requests, responses, feederVars, frames, encoderVars>>

-----------------------------------------------------------------------------
(* The feeder of capturer c                                                *)

\* The thread returns, which drops its reader.
Leave(c) ==
  /\ DropClone(c)
  /\ feeders' = [feeders EXCEPT ![c].at = IF c \in joining' THEN "joining" ELSE "ended"]

\* wait_until_or_stop: the time of the sample after this one comes, at the end of
\* the file that of the first one again.
Following(index) == IF index = SampleCount THEN 1 ELSE index + 1

\* Mutated: the serial advances only with a sample that is fed.
ConsumeApplied(c, applied) ==
  feeders' =
    IF applied THEN [feeders EXCEPT ![c].serial = @ + 1, ![c].at = "waiting"]
    ELSE [feeders EXCEPT ![c].index = Following(@)]

\* adapt_frame applies the sample or drops it; its serial is used up either way.
Consume(c, applied) ==
  feeders' =
    IF applied THEN [feeders EXCEPT ![c].serial = @ + 1, ![c].at = "waiting"]
    ELSE [feeders EXCEPT ![c].serial = @ + 1, ![c].index = Following(@)]

\* Mutated: the counter is not kept from passing its end.
NextSampleWrapping(c) ==
  /\ feeders[c].at = "next"
  /\ \/ /\ ~stop[c] /\ feeders[c].serial <= SerialMax
        /\ \E applied \in BOOLEAN :
             /\ Consume(c, applied)
             /\ requests' = IF applied THEN Append(requests, c) ELSE requests
        /\ UNCHANGED <<clones, sender, joining>>
     \/ Leave(c) /\ UNCHANGED requests
  /\ UNCHANGED <<file, opened, io, responses, capturers, stop, frames, encoderVars>>

\* The time of the next sample has come, or the thread leaves: for the flag, for
\* the end of the counter, or as no Instant can tell that time.
NextSample(c) ==
  /\ feeders[c].at = "next"
  /\ \/ /\ ~stop[c] /\ feeders[c].serial < SerialMax
        /\ \E applied \in BOOLEAN :
             /\ Consume(c, applied)
             /\ requests' = IF applied THEN Append(requests, c) ELSE requests
        /\ UNCHANGED <<clones, sender, joining>>
     \/ Leave(c) /\ UNCHANGED requests
  /\ UNCHANGED <<file, opened, io, responses, capturers, stop, frames, encoderVars>>

\* get_sample gives up because of the flag.
GiveUp(c) ==
  /\ feeders[c].at = "waiting"
  /\ stop[c]
  /\ Leave(c)
  /\ UNCHANGED <<file, opened, ioVars, capturers, stop, frames, encoderVars>>

\* get_sample returns: the sample goes to on_frame, and on to the encoder if a
\* connection sends it; an error ends the thread.
TakeResponse(c) ==
  /\ feeders[c].at = "waiting"
  /\ responses' = [responses EXCEPT ![c] = "empty"]
  /\ \/ /\ responses[c] = "sample"
        /\ Len(frames[c]) < MaxFrames
        /\ frames' = IF c \in Connected
             THEN [frames EXCEPT ![c] = Append(@,
                     [index |-> feeders[c].index, serial |-> feeders[c].serial - 1])]
             ELSE frames
        /\ feeders' = [feeders EXCEPT ![c].at = "next", ![c].index = Following(@)]
        /\ UNCHANGED <<clones, sender, joining>>
     \/ /\ responses[c] = "error"
        /\ Leave(c)
        /\ UNCHANGED frames
  /\ UNCHANGED <<file, opened, requests, io, capturers, stop, encoderVars>>

\* The I/O thread that this feeder's drop of the reader waited for is gone.
FeederEnds(c) ==
  /\ feeders[c].at = "joining"
  /\ io = "ended"
  /\ joining' = joining \ {c}
  /\ feeders' = [feeders EXCEPT ![c].at = "ended"]
  /\ UNCHANGED <<file, opened, clones, sender, ioVars, capturers, stop, frames, encoderVars>>

-----------------------------------------------------------------------------
(* libwebrtc and the encoder                                               *)

\* A frame is dropped before it reaches the encoder.
LoseFrame(c) ==
  /\ frames[c] # <<>>
  /\ frames' = [frames EXCEPT ![c] = Tail(@)]
  /\ UNCHANGED <<readerVars, ioVars, feederVars, encoderVars>>

\* create_video_encoder, for a format a receiver has asked for.
CreateEncoder(c) ==
  /\ opened = "yes"
  /\ capturers[c] # "unused"
  /\ encoders[c] = NoEncoder
  /\ \E format \in Receivers :
       /\ EncoderFor(TrackOf(file), format)
       /\ encoders' = [encoders EXCEPT ![c] = NewEncoder(format)]
  /\ UNCHANGED <<readerVars, ioVars, feederVars, frames, sent>>

\* init_encode
InitPassthrough(c) ==
  /\ encoders[c] # NoEncoder
  /\ encoders' = [encoders EXCEPT ![c].waiting = TRUE, ![c].last = None]
  /\ UNCHANGED <<readerVars, ioVars, feederVars, frames, sent>>

\* register_encode_complete_callback with a callback; with none, and release.
SetCallback(c) ==
  /\ encoders[c] # NoEncoder
  /\ \E registered \in BOOLEAN :
       encoders' = [encoders EXCEPT ![c].callback = registered]
  /\ UNCHANGED <<readerVars, ioVars, feederVars, frames, sent>>

\* libwebrtc destroys the encoder.
DestroyEncoder(c) ==
  /\ encoders[c] # NoEncoder
  /\ encoders' = [encoders EXCEPT ![c] = NoEncoder]
  /\ UNCHANGED <<readerVars, ioVars, feederVars, frames, sent>>

\* should_forward_sample
ShouldForward(encoder, frame) ==
  \/ IsKeyframe(frame.index)
  \/ ~encoder.waiting /\ encoder.last # None /\ frame.serial = encoder.last + 1

\* encode
Encode(c) ==
  /\ encoders[c] # NoEncoder
  /\ frames[c] # <<>>
  /\ frames' = [frames EXCEPT ![c] = Tail(@)]
  /\ LET frame == Head(frames[c])
     IN  IF ~encoders[c].callback THEN UNCHANGED encoderVars
         ELSE IF ShouldForward(encoders[c], frame)
           THEN /\ sent' = [sent EXCEPT ![c] = frame.index]
                /\ encoders' = [encoders EXCEPT ![c].waiting = FALSE, ![c].last = frame.serial]
           ELSE /\ encoders' = [encoders EXCEPT ![c].waiting = TRUE, ![c].last = None]
                /\ UNCHANGED sent
  /\ UNCHANGED <<readerVars, ioVars, feederVars>>

-----------------------------------------------------------------------------
FeederNext(c) ==
  NextSample(c) \/ GiveUp(c) \/ TakeResponse(c) \/ FeederEnds(c)

EncoderNext(c) ==
  \/ LoseFrame(c) \/ Encode(c)
  \/ CreateEncoder(c) \/ InitPassthrough(c) \/ SetCallback(c) \/ DestroyEncoder(c)

Mp4Next ==
  \/ OpenFile \/ DropReader \/ ReaderDropped
  \/ ServeRequest \/ IoThreadEnds
  \/ \E c \in Capturers :
       \/ NewCapturer(c) \/ DropCapturer(c) \/ CapturerDropped(c)
       \/ FeederNext(c)
  \/ \E c \in Connected : EncoderNext(c)

Mp4Spec == Mp4Init /\ [][Mp4Next]_mp4Vars

\* Threads run.  Nothing is asked of WebRTC, of the encoder or of the application,
\* save that a thread of it that waits in a drop goes on when it may.
Mp4Fairness ==
  /\ WF_mp4Vars(ServeRequest)
  /\ WF_mp4Vars(IoThreadEnds)
  /\ WF_mp4Vars(ReaderDropped)
  /\ \A c \in Capturers :
       WF_mp4Vars(CapturerDropped(c)) /\ WF_mp4Vars(FeederNext(c))

-----------------------------------------------------------------------------
(* Properties of what is read                                              *)

\* Each variable holds a value of its type.
Mp4TypeOK ==
  /\ file \in Files
  /\ opened \in {"no", "yes", "refused"}
  /\ clones \subseteq Owners
  /\ sender \in BOOLEAN
  /\ requests \in Seq(Capturers)
  /\ io \in {"none", "running", "ended"}
  /\ responses \in [Capturers -> {"empty", "sample", "error"}]
  /\ joining \subseteq Owners
  /\ capturers \in [Capturers -> {"unused", "none", "playing", "dropping", "dropped"}]
  /\ stop \in [Capturers -> BOOLEAN]
  /\ feeders \in [Capturers ->
       [at : {"none", "next", "waiting", "joining", "ended"},
        index : Nat, serial : 0..SerialMax]]
  /\ frames \in [Capturers -> Seq([index : Nat, serial : 0..SerialMax])]
  /\ \A c \in Capturers :
       /\ encoders[c].callback \in BOOLEAN /\ encoders[c].waiting \in BOOLEAN
       /\ encoders[c].last \in (0..SerialMax) \cup {None}
  /\ sent \in [Capturers -> Nat]

\* A receiver may begin at any key frame that is sent: of AV1 it gets, before any
\* other OBU that is sent, the Sequence Header the track declares, and then a key
\* frame that is shown, unless configOBUs have a frame of their own, which only the
\* parser may refuse; of H.264 and H.265 the parameter sets come first.
KeyFramesStartDecoding ==
  opened = "yes" =>
    \A i \in 1..SampleCount :
      LET payload == Payload(file, i)
          Leads(k, Test(_)) ==
            Test(payload[k]) /\ \A j \in DOMAIN payload : Test(payload[j]) => k <= j
      IN  IsKeyframe(i) =>
            CASE TrackOf(file).codec = "AV1" ->
                   /\ \E k \in DOMAIN payload :
                        /\ Leads(k, IsSignificant)
                        /\ IsHeader(payload[k]) /\ payload[k].header = TrackOf(file).av1.header
                   /\ (\A o \in ToSet(TrackOf(file).av1.configObus) : ~IsFrame(o)) =>
                        \E k \in DOMAIN payload :
                          Leads(k, IsFrame) /\ payload[k].frame = "Key" /\ payload[k].show
              [] TrackOf(file).codec \in {"H264", "H265"} ->
                   IsPrefix(TrackOf(file).parameterSets, payload)
              [] OTHER -> TRUE

\* Between two key frames a receiver sees one and the same Sequence Header.
OneHeaderPerSequence ==
  opened = "yes" /\ TrackOf(file).codec = "AV1" =>
    \A k \in 1..SampleCount : \A i \in 1..k :
      (\A j \in (i + 1)..k : ~IsKeyframe(j)) =>
        \A h \in {Payload(file, i)[n] : n \in DOMAIN Payload(file, i)},
           g \in {Payload(file, k)[n] : n \in DOMAIN Payload(file, k)} :
          IsHeader(h) /\ IsHeader(g) => h.payload = g.payload

\* An encoder exists only for a receiver that decodes whatever the track brings:
\* every parameter set of every sample entry, every Sequence Header of every sample.
ReceiverDecodesTrack ==
  \A c \in Capturers :
    encoders[c] # NoEncoder =>
      LET format == encoders[c].format
      IN  CASE TrackOf(file).codec = "H264" ->
                 \A e \in EntriesOf(VideoSamples(file)) : \A j \in DOMAIN e.sps :
                   LET played == ParseProfileLevelId(e.sps[j].plid)
                       received == ParseProfileLevelId(format.plid)
                   IN  /\ played # None
                       /\ received.profile = played.profile
                       /\ CapabilityOrder(received.level) >= CapabilityOrder(played.level)
            [] TrackOf(file).codec = "AV1" ->
                 \A i \in 1..SampleCount : \A k \in DOMAIN Payload(file, i) :
                   LET obu == Payload(file, i)[k]
                   IN  IsHeader(obu) =>
                         /\ obu.header.profile = Av1Field(format.profile, 0, 2)
                         /\ obu.header.level <= Av1Field(format.level, 5, 31)
                         /\ obu.header.tier <= Av1Field(format.tier, 0, 1)
            [] OTHER -> format.name = TrackOf(file).codec

\* Big-endian length of a unit, in n bytes.
LengthPrefix(unit, n) ==
  [i \in 1..n |-> (Len(unit) \div <<16777216, 65536, 256, 1>>[4 - n + i]) % 256]

\* The units with their lengths before them.
Prefixed(units, n) ==
  FoldLeft(LAMBDA bytes, unit : bytes \o LengthPrefix(unit, n) \o unit, <<>>, units)

\* Putting the lengths back before the units gives the data of the sample, but for
\* a rest that holds no whole unit: nothing is cut and nothing is passed over.
UnitsAreWhole ==
  opened = "yes" /\ TrackOf(file).codec \in {"H264", "H265"} =>
    \A i \in 1..SampleCount :
      LET data == VideoSamples(file)[i].data
          n == TrackOf(file).lengthSizeMinusOne + 1
          restored == Prefixed(NalUnits(data, n), n)
          rest == SubSeq(data, Len(restored) + 1, Len(data))
      IN  /\ IsPrefix(restored, data)
          /\ Len(rest) < n \/ BigEndian(SubSeq(rest, 1, n)) > Len(rest) - n

\* What new accepts can be played: decoding may begin at any key frame sent and goes on
\* from there with one Sequence Header, and no unit is lost on the way to Annex B.
AcceptedFilesPlay == KeyFramesStartDecoding /\ OneHeaderPerSequence /\ UnitsAreWhole

-----------------------------------------------------------------------------
(* Properties of the threads                                               *)

\* get_sample never meets a closed channel nor one that is closed on it: a feeder
\* that waits has its one request in the channel or the response to it, and while
\* a clone lives the I/O thread does.
WaitingIsServed ==
  /\ clones # {} => sender /\ io = "running"
  /\ \A c \in Capturers :
       feeders[c].at = "waiting" =>
         /\ c \in clones
         /\ (responses[c] = "empty") = (\E i \in DOMAIN requests : requests[i] = c)
         /\ \A i, j \in DOMAIN requests : requests[i] = c /\ requests[j] = c => i = j

\* What reaches a receiver can be decoded, whatever is lost before the encoder.
Contract == INSTANCE PassthroughContract
  WITH Samples <- LAMBDA f : 1..Len(VideoSamples(f)),
       KeyFrames <- LAMBDA f : {i \in 1..Len(VideoSamples(f)) : VideoSamples(f)[i].key}

PassthroughDecodable == Contract!Spec

\* The drop of a capturer returns, and so does that of the last reader, which
\* leaves no thread behind.
DropsReturn ==
  []<>(/\ \A c \in Capturers : capturers[c] # "dropping"
       /\ opened = "yes" /\ clones = {} => io = "ended" /\ joining = {})
=============================================================================
