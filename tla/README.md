# sora-rust-sdk: TLA+ models, model checking and proofs

The SDK connects an application to a Sora WebRTC SFU. Its core is
`SoraConnection::run` (`src/src/connection.rs`): one async task that owns the
signaling session, fed by libwebrtc's threads, by tokio tasks, by the socket and
by the application's handles. Around it stand the parts that feed it with media: the MP4
input, the camera, and the encoders and decoders with the vendors' libraries and their
threads; and the programs that use it: the example sumomo, and what the end-to-end tests
drive a connection with. This directory models these, checks them with TLC and proves the
main properties with TLAPS. Paths below are relative to the
repository's files under `src/`; `connection.rs` means `src/connection.rs`.

## 1. Inventory

| component | state it keeps | operations | interacts through | what is hard |
|---|---|---|---|---|
| event loop, `SoraConnection::run` (connection.rs 1013-1896) | WebSocket and its `websocket_closed`, session flags (`switched_received`, `switched_ignore_disconnect_websocket`, `use_data_channel_signaling`), `data_channels`, `data_channel_configs`, `opened_data_channels`, the reason and the flags of the end | one per `select!` branch and per polled WebSocket event; redirect; switch; flush; the end | socket, `event_rx`, `command_rx`, `timer_rx`, the event handler | every source is concurrent; old and new session share the PeerConnection and `event_rx`; a loss of the WebSocket is fatal before the switch and harmless after it |
| DataChannel table (2183-2275, 2778-2823) | per label a channel and whether it was reported open | register, state change, close wait | libwebrtc's observers | the state is read when the event is handled, not when it was posted |
| media path monitor (2827-2949) | `connected`, `generation`, `grace_timer_generation` | `observe`, timeouts | `ConnectionChange`, spawned sleeps | timers of outages that are over; the redirect's drain |
| handles and command channel (561-686, 2951-2975) | unbounded command channel, one oneshot per call | `disconnect`, `send_rpc_request`, `send_message`, `get_stats`, URLs | `command_rx` | calls that race the end of run() |
| RPC over DataChannel (rpc.rs, 1345-1349, 1441-1465, 2487-2561) | `pending_rpc_responses`, `rpc_id_counter` | request, notification, response, timeout, redirect | the `rpc` channel, spawned sleeps | response against timeout; ids start again after a redirect |
| WebSocket timers (3288-3345) | one task per `TimerId` | set, clear, expire | `timer_rx` (16 places) | an expiry already queued when its timer is cleared; a redirect and the return replace or drop them all |
| connecting (3249-3278, 3468-3686) | a JoinSet of attempts, one deadline per attempt, bytes read past the proxy's response | DNS, TCP, proxy CONNECT, TLS | sockets | first success wins, all failures are reported; a read ends anywhere in the response |
| MP4 input (video_codecs/mp4.rs, av1.rs, h264.rs) | what the file holds, a shared sample reader thread, feeder threads, the key frame wait | open, get_sample, passthrough encode, capturers | threads and channels, libwebrtc's encoder queue | which files are refused; drop while waiting; delta frames after a loss |
| libcamera capturer (libcamera.rs) | camera requests in flight, frames lent out | start, stop, capture loop, requeue | capture thread, holders of frames | a buffer in two places; stop and start while frames are out |
| V4L2 codecs (video_codecs/v4l2.rs) | encoder, converter, callback | encode, rebuild, release | two device threads | locks held across joins; frames of an old size; buffers of the camera read later |
| vendor codecs (nvcodec.rs, vpl.rs, amf.rs, openh264.rs) | engine, configured size and rate, callback | init, encode, rebuild, reconfigure, release; configure, decode | the library's threads | locks held across drops; a rebuild that fails half-way; pauses |
| codec preferences, capabilities, factories (video_codec_preference.rs, video_codec_capability.rs, video_codec.rs, their audio counterparts, connection_context.rs) | preference and capabilities of a context | merge, search, resolve, validate; advertise formats; make a codec | libwebrtc's factories | the last merge wins; what is advertised has to be made by the implementation that the preference names |
| alignment adapter (video_codec.rs 160-430) | target size | init, encode, release | an encoder behind it | odd sizes and rests |
| sumomo (examples/sumomo/src) | tracks, sinks, renderer, the run task's handle | select! of main, shutdown; arguments, codecs, connect; frames of a video device | the handle, the run task, channels of events and frames | ends that race; a JoinHandle gives its result once; lengths of planes |
| tests' connection and proxy (e2e-tests/src/test_connection.rs, proxy.rs) | log of events, the run task; relays per connection | wait, disconnect; accept, relay, cut | the handle; sockets | timeouts against ends; a cut that is not a reset |
| messages, errors | none over time | conversions | - | covered by unit and property tests |
| the tests, pbt | - | - | - | not part of the SDK |

What makes each stateful component correct is listed with its module below; what is
hard to test in it is the list `hazards` of `PROJECT.json`, each with its line.

## 2. Modules

| module | what it is |
|---|---|
| `MediaPathContract` | what the monitor promises: one grace period per outage, ended by recovery, expiry or failure |
| `MediaPath` | `MediaPathMonitor`, its timers, their events, the redirect's drain |
| `ConnectionContract` | what a connection promises to its application: callbacks, cause of the end, result |
| `SoraConnection` | `run()` from the first connected WebSocket to its return |
| `SoraConnection_proofs` | its theorems, about the whole of `run()` and about each signaling session |
| `RpcContract` | what a handle promises to its callers: one answer per call, and a call's own |
| `RpcSession` | the command channel, the RPC table, its timeout tasks, the redirect and the end |
| `RpcSession_proofs` | its theorems |
| `Connecting` | `connect_signaling_urls`, `connect_websocket`, `ClientStream::read` |
| `WebSocketTimers` | `TimerManager`, its tasks and `timer_rx` over redirect and return |
| `Mp4File` | pure: which files `Mp4SampleReader::new_inner` accepts, what a sample's payload is, which formats resolve |
| `PassthroughContract` | what a receiver of passthrough video is promised: key frame first, then no gap |
| `Mp4Playback`, `Mp4Playback_proofs` | reader and I/O thread, capturers and feeders, passthrough encoder; theorems |
| `CameraRequests` | contract of the camera's buffers: with the camera, or lent to one frame, or on the way back |
| `Camera` | `LibcameraVideoCapturer`: start, stop, the capture loop, native frames |
| `V4l2Pipeline` | `V4l2VideoEncoder`, converter, encoder and their threads, on `CameraRequests` |
| `HardwareCodecs` | the encoders and decoders of nvcodec.rs, vpl.rs, amf.rs and the V4L2 decoder |
| `Openh264` | the OpenH264 encoder and decoder |
| `AlignedEncoder` | `AlignmentEncoderAdapter` |
| `Encoders` | the last three side by side, and what a frame is promised of each |
| `Codecs_proofs` | theorems of the camera, of the V4L2 pipeline and of the encoders |
| `RpcResponse` | `RpcResponse::parse` and what a text on the `rpc` channel does to a request |
| `VideoDevice` | the conversion of a video device's frames in sumomo |
| `Lists` | `Iterator::filter` and `Vec::retain` |
| `CodecPreference` | pure: preferences, for video and audio |
| `VideoCodecs`, `AudioCodecs` | pure: capabilities of each implementation, advertised formats, factories |
| `CodecSelection`, `CodecSelection_proofs` | from a command line to a context's codecs and the connect's video; theorems |
| `Sumomo` | main() of sumomo with its run task, capturer, tracks, frames and end |
| `TestConnection`, `ForwardProxy` | what the end-to-end tests drive and cut a connection with |
| `Applications` | the last three side by side, and what each promises of callbacks and ends |
| `MCMp4Files`, `MCPipelines` | files, layouts and replies, and the parts around the connection composed for TLC |
| `MCCommandLines`, `MCSmallParts` | machines and command lines, and the parts with small instances composed for TLC |
| `Pipelines_proofs` | theorems of `Connecting`, `WebSocketTimers`, `RpcResponse`, `VideoDevice` and of all that `MCPipelines` composes |
| `SmallParts_proofs` | theorems of `MediaPath`, `Applications` and of all that `MCSmallParts` composes |
| `Folding` | lemmas: induction over a sequence, for any fold |
| `MCSoraConnection`, `MCRpcSession` | several instances of their module in one run |

### MediaPath

State: the three fields of `MediaPathMonitor` under their names (`graceTimer` is
`grace_timer_generation`, 0 for `None`), the set of generations whose spawned task
still sleeps, `event_rx` restricted to the two events that matter, and where
`run()` is (`loop`). `HandleMediaPathState` is `observe` with the spawn and the
loop's reaction; it is used by the event branch and by the redirect's drain, as in
the code. `PcChanges` may post any state other than the current one at any time,
because libwebrtc aggregates the transports' states.

### SoraConnection

`control` says where the task is; each action is the code between two awaits, or
one event of an inner loop:

| `control` | code | actions |
|---|---|---|
| `top` | 1150-1161 | `LoopTop` |
| `select` | `select!` 1163-1482 | `ReadFrames`, `ReadFails`, `ReadEof`, `HandleTimer`, `DelayEnds`, `HandleDisconnect`, and one action per event of `event_rx` |
| `poll` | `while let Some(event) = ws.poll_event()` 1490-1664 | `PollConnected`, `PollOffer`, `PollSwitched`, `PollPing`, `PollRedirect`, `PollCloseText`, `PollCloseFrame`, `PollNone` |
| `offer` | `handle_offer(..).await` 2098-2181 | `OfferDone`, `OfferFails` |
| `redirect`, `reconnect` | 1666-1765 | `Redirect`, `Reconnect`, `ReconnectFails` |
| `flush` | 1767-1823 | `FlushDone`, `FlushFails` |
| `leaving` | 1826-1860 | `LeaveLoop` |
| `closeWait` | `wait_data_channels_close` 2778-2823 | `CloseWait`, `CloseWaitTimeout` |
| `handshake` | 1866-1895, 3737-3793 | `CloseHandshake` |

`Fail` is any `?`: run() returns `Err`, and queued commands lose their answer. The
environment (server, network, libwebrtc, clients, the clock of the delay) acts where
the code awaits: everything it does waits in a channel or a socket until then, so
acting earlier would look the same to `run()`.

The WebSocket library is not part of the repository. It is modelled by what
`run()` uses: a `state()`, decoded events in order, and that a text is refused
unless the state is Connected. After a Close frame of the peer it may be Closing or
Closed; handling a timer may keep the connection, give it up, or fail.

History variables (`opens`, `closes`, `wsCloses`, `firstText`, `selfClosed`) record
calls of the handler and of the library; no action reads them except to count, and
the server, which answers only once a first text was sent.

Abstracted: SDP and media; message contents other than their kind; whether a Close
frame has code 4490; labels other than those of the Offer, whose messages reach the
application only; unparsable messages (logged on the WebSocket; on the `signaling`
channel they end `run()`, which is one of the ways `request` fails); how long libwebrtc
takes for statistics: the callback of `get_stats` (2076-2096) posts the answer to a ping
later than `PollPing` does, perhaps after a redirect's drain, where `connect` is written
before it as well.

### RpcSession

The same `run()` seen from the handles. `phase` is coarse: `connect` (the first
connect and a redirect's), `loop`, `closing` (from the close of the command channel
to the return) and `over`. `commands` and `events` are the two channels, `pending` and
`counter` the fields `pending_rpc_responses` and `rpc_id_counter`. A request carries
its call and its session besides its id; the code compares ids only (`Found`), so the
two others tell who really was answered: a caller whose request was found by another
request's timeout or reply gets `mistimed` or `misdelivered`, which the contract does
not know. A timeout task is `sleeping`, or `firing` once `abort()` cannot stop it any
more: between the end of its sleep and its send there is no await.

`HandleRequest` and `HandleNotification` may fail without a reason (no channel, channel
not open, a refused send); `LeaveLoop` and `Return` may come at any time. What ends the
loop and why is `SoraConnection`'s matter. Replies that carry no trusted id, or whose
JSON does not parse, change nothing and are left out; `valid` tells a response from a
protocol violation. How `RpcResponse::parse` decides is in `RpcResponse`: a server writes
a text member by member, and the loops that find duplicates, the trusted id and the checks
of an error object are compared with a definition of JSON-RPC's response object by
uniqueness of its members.

`Late` says whether something that was under way when a redirect began may arrive when
the new session runs. FALSE is the usual timing: a task past its sleep posts before a
TCP connect and a WebSocket handshake are through, and libwebrtc announces no channel
in between. `rpc_late` shows what TRUE allows.

### Connecting

One record per URL: where the attempt is (each place is an await of `connect_websocket`
or of what it calls), whether it holds a socket, and whether its deadline has passed.
Bytes are numbered in the order in which the peer sends them; the first `HeadSize` are
the proxy's response. `ReadResponse` takes any non-empty prefix of what is on the wire,
and the bytes past the response become `pendings`, which `ReadStream` hands out before
the socket. What the bytes say (a URL that does not parse, a status other than 2xx, a
certificate) is a choice of outcomes. `Abandon` drops the future of `run()`, which
aborts every task of the JoinSet at its next await.

### WebSocketTimers

`handles` is the manager's map, a task is one of `tasks` with the connection it was made
for, `timerRx` the bounded channel. `SetTimer` and `ClearTimer` abort the old task as
the code does; abort takes effect unless the task has sent. A redirect replaces manager
and channel (`BeginRedirect`, `Redirected`), the end drops both (`DropManager`).

### Mp4File and Mp4Playback

`Mp4File` has no state. A file is a sequence of samples whose fields are what the code
looks at: track, codec, sample entry, sync flag, and for AV1 the list of OBUs, for
H.264 and H.265 the lengths of the NAL units against the sample's. `Accepted` is
`new_inner` with `validate_av1_track`; `Payload` is `read_sample`; `MCMp4Files` lists
files with a fault in every place where the code looks for one.

`Mp4Playback` has a feeder thread per capturer, the I/O thread that they share, the
clones of the reader whose last one joins that thread, and per capturer the frames that
libwebrtc holds and the passthrough encoder. Serial numbers are those of the code;
time is left out: a feeder that waits for its next sample's time may go on at once.

### Camera and V4l2Pipeline

Cookies are libcamera's requests. `CameraRequests` is the contract between the camera
and the holders of its frames: `Camera` implements it (`RequestsSpec`), and
`V4l2Pipeline` uses it as its camera. In `Camera` the capture thread's places are the
calls on which it waits; a completed request's callback runs on libcamera's thread, the
last drop of a native frame on any.

In `V4l2Pipeline` a call of libwebrtc is a sequence of steps, each up to the next point
where `shared_state` is unlocked or a device's thread is joined; `CallNext`,
`ConverterNext` and `EncoderThreadNext` are the three threads. `HardwareCodecs` is
written the same way for three vendors at once: each action names the code of each
vendor that it stands for, and differs by `handler.file` where their code differs.
`Openh264` runs on the calling thread only; what is hard there is the order of pauses,
frames that fail, are skipped or come out empty, and rebuilds. `AlignedEncoder` is the adapter around AMF's AV1 encoder:
sizes are computed as in the code, and the encoder behind it is its size or none.

### CodecPreference, VideoCodecs, AudioCodecs, CodecSelection

The first three have no state: a preference is a sequence of entries, a capability two
sequences of formats, a format a codec and a set of parameters. Each vendor's capability
is computed from what its device supports, which is an input (`machine.devices`), by the
code of its file. `CodecSelection` goes through sumomo's steps: `CheckArguments`,
`Begin`, one `AddSelected` per implementation named, `AddPassthrough`, `NewContext`,
`BuildConnection`; `ApplicationEdits` stands for an application that writes its own
preference before `NewContext`. `--video-codec-list` is computed next to it and compared.

### Sumomo, TestConnection, ForwardProxy

In `Sumomo` `main` is where main() is: its `select!` (`looping`), or an await of the
shutdown. The run task is a second process that ends by itself, or when a command to
disconnect reaches it, or too late for one. Each branch of `select!` is an action; frames
are queued in a channel of two places and dropped when it is full, as in the code.

`TestConnection` has the run task, the events posted and taken, and one call of the test
at a time; each of its awaits is a place of `call`. A timeout may pass at any await.
`ForwardProxy` has per connection the two relays and the sockets' ends; bytes are
counted only.

### VideoDevice

A device has one layout (format, sides, strides) and gives buffers of any length; the
result of the conversion is the error that the code returns, in the order of its checks.
libyuv's own check is external; the property reads every byte of every row instead.
`I32Max` is small, so that sides reach it.

## 3. Runs

| run | instance | checks |
|---|---|---|
| `small_parts` | five small parts, one per behaviour (below); 0.6 M states | 5 invariants, 3 temporal properties |
| `media_path_redirect` | 2 changes, 1 redirect | violated: `OutageEnds` |
| `connection` | 2 labels in one session, or 1 label and 1 redirect before or after the Offer; 1 extra; 7.6 M states | `SelfCloseIsAbsorbed`, `DataChannelSignalingIsComplete`, `OrderlyEndNeverFails`, `ConnectComesFirst`, `WebSocketCloseOnce`, `SwitchedSurvivesWebSocketLoss`, the contract |
| `connection_live` | 1 label, 1 redirect before the Offer | `DisconnectAnswered`, `LeavingReturns`, `OpenedCloseEnds` |
| `connection_stale` | 1 label, 1 redirect | violated: `NoStaleRegistration` |
| `connection_missed_close` | 1 label | violated: `ClosedChannelEnds` |
| `connection_switched` | 1 label | violated: `SwitchedIsComplete` |
| `rpc` | 2 requests and a notification, or a request, a notification and a `get_stats`; 1 redirect; 0.4 M states | `TimeoutIsPending`, the contract, `CallAnswered` |
| `rpc_late` | 2 requests, 1 redirect, `Late` | violated: `TimeoutIsOwn` |
| `pipelines` | the parts around the connection, one per behaviour (below); 0.5 M states | 13 invariants and 6 action, refinement and liveness properties |
| `sumomo_server_end` | 2 tracks | violated: `ServerEndIsReported` |
| `test_connection_wait` | 3 events, 3 calls | violated: `OnlyTheEndedIsAwaited` |

`small_parts` and `pipelines` are runs of several independent parts: the variable `part`,
`pipeline` chooses the part in the initial state, the variables of the others rest in a
state in which nothing of theirs can happen. The V4L2 encoder's part composes
`V4l2Pipeline` with `CameraRequests`, the contract that the part `camera` shows the
capturer to implement. A property that several parts have in common is their
conjunction: `EndsAreTold` is `ExitTellsFirstError` of sumomo, `ResultIsReadOnce` of a
test's connection and `CutIsClean` of the proxy.

| part of `small_parts` | instance | properties |
|---|---|---|
| `monitor` | 5 state changes, 1 redirect | `GraceIsPending`, the contract, `OutageEndsUnlessRedirected` |
| `selection` | 3 machines, 132 command lines, one edit of an application | `CodecsAreAsChosen`: `SelectionIsAsTold`, `AdvertisedIsMade`, `AudioAdvertisedIsMade`, `ConnectAsksForWhatIsSent` |
| `sumomo` | 2 tracks, 1 size, 2 events under way | `CallbacksAreFollowed` (`SinksFollowTracks`), `EndsAreTold`, `ApplicationsEnd` (`MainEnds`) |
| `test` | 2 kinds of events, 3 posted, 3 calls | `CallbacksAreFollowed` (`EventsAreLogged`), `EndsAreTold` |
| `proxy` | 2 connections, 1 byte each way | `EndsAreTold`, `ApplicationsEnd` (`DropEndsAll`) |

| part of `pipelines` | instance | properties |
|---|---|---|
| `mp4` | 3 capturers, two of which share a reader; the files of `MCMp4Files`; serials up to 4, one frame in libwebrtc at a time | `InputsAreJudged` (`AcceptedFilesPlay`), `ReceiverDecodesTrack`, `WaitingIsServed`, `PassthroughDecodable`, `JoinsReturn` (`DropsReturn`) |
| `connecting` | 2 URLs, with or without a proxy, a response of 2 bytes and 2 after it | `FailureIsComplete`, `NothingReadIsLost`, `OnlyDnsAndWriteHold`, `LosersEnd` |
| `timers` | 2 ids, a channel of 2, 4 settings, 2 connections | `TimersAreHeld` |
| `response` | up to 4 members of 13, among them 6 error objects | `InputsAreJudged` (`RepliesAreJudged`) |
| `camera` | 2 requests, 2 holders, 2 sessions | `RequestsSpec`, `JoinsReturn` (`StopReturns`) |
| `device` | 145 layouts, buffers of 7 lengths | `InputsAreJudged` (`DeviceFramesAreWithin`) |
| `encoder` | 2 requests, 2 sizes, 2 encoders, 2 converters, 1 session | `ConversionsReadTheirFrames`, `DevicesGetTheirFormat`, `ReleasedIsQuiet`, `CodecCallsReturn` |
| `hardware` | each vendor's encoder and decoder, 2 engines, 2 sizes, 2 rates, 2 inputs under way | `FramesFitTheirEncoders`, `CallbackIsRegistered`, `CodecCallsReturn` |
| `openh264` | 2 sizes, bitrates 0 to 3 | `FramesFitTheirEncoders`, `PausesEndWithKeyFrame` |
| `aligned` | an alignment of 4 by 2, sides from 0 to 9 | `FramesFitTheirEncoders` (`FramesAreAligned`) |

Bounds. `MaxChanges` 5 is enough for two outages whose timers overlap in the queue
around a drain. Two labels tell "some channels are open" from "all are", which is
what `is_data_channel_signaling_ready` decides; one redirect makes two sessions,
and nothing in the code remembers more than "this one or an earlier one". `MaxQueue`
2 lets one event be overtaken by another decision. `MaxExtras` bounds candidates,
messages, pings, ReOffers and media path failures together: each matters by what it
does to one later step. Two requests are enough for one of the old session and one of
the new with the same id, and for two of one session whose timers overlap.
The proofs do not use the bounds' values.

In `pipelines`: four serials let a file of three samples start again, which is where its
numbering matters; a second frame in libwebrtc behaves as the first. A response and a
rest of two bytes each have every division that matters: inside the response, at its
end, past it. Two timers fill a channel of two; four settings set each twice. Two
encoders, converters or engines are the old one and the new one of a rebuild, and
nothing keeps a third; two sizes and rates are "the configured one" and "another". Four
members are a whole reply with one of its members twice.

In `small_parts`: the machines have devices that support different codecs in the two
directions, next to nothing, or Apple's; the command lines name implementations in
either order, twice, unknown ones and ones that are not built, with and without a file of
each kind. Two tracks let one come while the other goes; three calls read the run task's
result, read it again and wait in between.

`CHECK_DEADLOCK FALSE`: `run()` returns, and the model stops there.

Fairness. `MediaPath`: the loop takes events, sleeps end, the drain and the reconnect
end; the network owes nothing. `SoraConnection`: `WF(Run)` - the task is scheduled
and its awaits other than `select!` end, by deadlines (`websocket_connection_timeout`,
`SDP_OPERATION_TIMEOUT`, `disconnect_wait_timeout`, `websocket_close_timeout`); the
one await without a deadline is the write of a flush, and the model assumes that the
socket takes or refuses it. `SF(HandleEvent)` and `SF(HandleDisconnect)`: tokio's
`select!` picks at random among the ready branches, so a branch that is ready again
and again is taken. `RpcSession`: the same for commands and events; sleeps end, the
connect and what follows the loop have deadlines. `pipelines`: threads and tasks run,
devices and vendors' libraries end the jobs they were given, a deadline passes.
`small_parts`: the monitor as above; of sumomo, main() goes on once it has left its loop
(its deadline passes), the capturer's thread sees that it is told to stop, and a run task
whose run() has returned drops what it holds; it is not assumed that run() returns. Of the
proxy, its tasks go on, a connect is refused or accepted, and an end of a connection that
is sent the end of the stream ends its own side; who has connected to it sends its CONNECT
or ends, for which `decode_connect_request` waits whatever shuts down (proxy.rs 138-157).
Nothing is assumed of the server, the network, DNS, libwebrtc or the clients.

Modelled from their use, because they are not in the repository: libwebrtc calls an
encoder and a decoder on one queue each and releases an encoder whose `init_encode`
failed; a new OpenH264 encoder's first output, and one asked for as a key frame, is a key
frame, and an output may be empty; dropping a vendor's or a V4L2 device's object waits for its thread and jobs.

### Where the code departs from what it says

* `OutageEnds`: the redirect drains a queued grace timeout and forgets the outage.
* `NoStaleRegistration`: a channel of the old session announced during the
  reconnect is registered in the new session, which the drain's comment rules out.
* `ClosedChannelEnds`: a channel that opens and closes before its first event is
  handled does not end the connection.
* `SwitchedIsComplete`: `on_switched` is called before the switch is complete.
* `TimeoutIsOwn`: ids start again with a redirect, and a timeout task that `abort()`
  came too late for may time out a request of the new session. The window is one
  reconnect long; only a descheduled thread hits it.
* `ServerEndIsReported`: when run() ends first, sumomo's `select!` takes the run task's
  result and `shutdown_connection` awaits the same handle again, which panics.
* `OnlyTheEndedIsAwaited`: a wait of a test that times out takes the branch of an ended
  run task and awaits a task that goes on.

## 4. Theorems

Every invariant that a passing run checks is a theorem, of the compositions `pipelines` and
`small_parts` as of their parts. The refinements and the action property are theorems about
the component that they are stated of.

### The media path

`SmallParts_proofs` proves of the monitor, for every `MaxChanges` and `MaxRedirects`,
`TypeOK`, `GenerationsUnique`, `GraceIsPending` and the refinement of `MediaPathContract`.
The inductive invariant joins the types, the uniqueness of generations among sleeping tasks
and queued timeouts, and where the current grace period is; the refinement needs the latter
to show that a timeout which ends the connection is the expiry of the outage's own grace
period.

### The connection and its handles

`SoraConnection_proofs` proves, for all labels, clients, offers and bounds:

* `TypeCorrect`: `TypeOK`;
* `OrderlyEnd`: after an acknowledged disconnect or a server close, never `Err`. Inductive
  with `OrderlyInv`: an acknowledgement implies `user_initiated_disconnect`, and both it and
  `server_close_received` are set only on the way to `leaving`, from where the only failure
  left is the closing handshake, which they absorb;
* `SwitchSurvives`: an action property that follows from the guards of the four places where
  the WebSocket's loss is noticed; that handling a timer (1210) or sending (1579) fails is not
  among what it names;
* `ConnectionImplementsContract`: every step of `run()` maps to a step of
  `ConnectionContract` or to a stutter. It needs `CallbacksPaired` (a label is in
  `opened_data_channels` exactly when it was reported open once more than closed) and
  `PhaseInv` (past `leaving` a reason is set; in `handshake` no label is open; a result is
  set exactly in `done`).

Of every signaling session it proves `ConnectFirst`, `ClosedOnce`, `SelfCloseAbsorbed` and
`SignalingComplete`. All of it rests on what can still be polled, the frames read and those
on the wire taken as one queue: the answer to the Upgrade request comes first and alone, at
most one Offer comes before at most one `switched`, and the server sends nothing after its
one Close frame. The first two theorems follow from the opening and the closing of the
WebSocket (`OpeningInv`, `CloseInv`). The other two need that a channel of a session is
registered only if its Offer granted it (`GrantInv`), so that the number of configured
labels means something, and that `use_datachannel_signaling` is true exactly when
`is_data_channel_signaling_ready` is (`SwitchInv`). `DataChannelSignalingIsComplete` says
"every channel is open" of connections without a stale registration: a channel of the
session before, registered after the drain (`connection_stale`), is counted like one of the
Offer. The run `connection` explores two channels or a redirect (its state constraint
`OneOrTheOther`); the proof covers both together.

`RpcSession_proofs` proves, for any calls, redirects and queue length:

* `TypeCorrect`, `SentStaysPending`, `TimeoutStaysPending`, whatever `Late` is. The second
  needs `QueuedOnce`: a queued request is queued once and not handled yet;
* `SessionImplementsContract`, for `~Late`. A step that answers a request finds it by id
  only, so the proof needs `IdInv`: every reply, and every timeout of a task that is past
  its sleep, is of the running session and the one entry with its id, or the table is empty
  and the rpc channel's registration is queued behind that timeout, so that it is handled
  before any new request can take its id; and `HistoryInv`: what is queued has happened.
  `rpc_late` shows that `~Late` is needed.

### The parts around the connection

`Pipelines_proofs`: `FailuresAreComplete`, by counting: every URL is an attempt that may
still go on or an error that was collected. `NothingIsLost`, for any lengths: what was read,
what is pending and what is on the wire are three consecutive runs of the byte numbers, in
this order, from the first byte after the response; each read moves a boundary.
`TimersHeld`: of the timer tasks that are not being aborted, each is the one its id's handle
refers to, and tasks and handles are of the present connection while one is up.
`RepliesJudged`, for any members and any number of them: a text settles a request if and
only if it is an object with that request's id, once; and it is a response if and only if it
is one by JSON-RPC 2.0: the version, one of `result` and `error`, each once, and an error
object that has what it must. The parser goes through the members with two sets of names,
those seen and those seen again; after n members they tell which names the first n have, and
which more than once, so at the end they tell what is there once (`NamesTell`, over both
levels of the text). `DeviceFramesWithin`: by the arithmetic of rows, strides and halves, of
each format and each way of converting it.

`Codecs_proofs` of the camera: `CameraRequestsGoRound` and `CameraImplementsRequests`. The
invariant says of each cookie in how many places it is - queued, completed, lent, returned -
and that what comes back to the loop of another session is not its own.

`Mp4Playback_proofs`: `WaitingServed`, from the ownership of the reader: who waits owns a
clone, and the I/O thread lives while there is one. `SentIsDecodable` implements
`PassthroughContract`: consecutive serials are consecutive samples, and the feeder is past
every serial that is under way. It has the hypothesis `BeginWithKeyFrames`, because
`new_inner` checks it for AV1 only; for other tracks that begin with a delta sample the
sample would follow the last one of the round before, and the property would not hold.
`ReceiverDecodes` joins three comparisons that the code makes far apart: `new_inner`
compares every sample entry with the first one, and an entry's parameter sets with its avcC;
`validate_av1_track` compares every Sequence Header with av1C; and an encoder is made only
for a format that was compared with the first entry's. `FormatInv` keeps the third while the
encoder is set up, used and destroyed; `ParameterSetsOfTrack` and `HeadersOfTrack` are the
first two. `FilesAssumption` says that what the code holds in a `Vec` is a sequence, as what
`SelectSeq` returns is not known to the provers. `AcceptedPlay` is about any file that `new`
accepts. Units: the cuts that `NalUnits` makes follow each other, and each is as long as the
big-endian length before it says (`UnitsFacts`, `LengthPrefix` undoes `BigEndian` by
`PrefixIsSize`), so putting lengths before the units gives the sample's bytes again, and a
rest that holds no whole unit is all that is left out. Headers: `new_inner` compares the
Sequence Headers of what lies between two key frames with each other and with av1C's
(`HeadersAgree`), and what is put in front of a key frame is av1C's. Key frames: what is
sent for a key frame begins with the parameter sets of its sample entry, or has av1C's
Sequence Header before anything else that matters and a shown key frame before any other
frame. One exception is part of the property: the OBUs of av1C that are put in front may
themselves hold a frame, and nothing in the repository refuses that (av1.rs 134-194);
whether the parser of the library does is not known here.

`Codecs_proofs`, for any devices, engines, sizes, rates and alignment:

* `PipelineTypeCorrect`, `ConversionsReadLentFrames`, `DevicesHaveFormat` and
  `QuietAfterRelease`, of the V4L2 encoder on any camera that keeps `CameraRequests`. None
  of them is inductive: a call of `encode` replaces devices in up to seven steps, and at
  each of them the threads of the old ones and of the new ones run. `PipelineInv` says who
  keeps a device open (`DevicesAreKept`: the shared state, the converter's field, the call
  that has built it, the call that has to drop it, and nobody else), what a call has at each
  of its steps (`CallKeeps`, `CallReplaces`), that a device has one job at most and of its
  own format (`JobsAreOfDevice`), that the stored settings are those of the encoder in use
  unless `rebuild_needed` is set (`SettingsAreUsed`), that whatever a converter still gives
  on suits the encoder it will find (`ConvertersArePaired`), and that a native frame has one
  holder (`FramesAreLentOnce`, `CallHoldsFrame`, `ConversionsHoldFrames`).
* `HardwareTypeCorrect`, `CallbackInUseIsRegistered` and the vendors' part of `FramesFit`.
  `HardwareInv`: the thread that is in libwebrtc's callback holds the mutex
  (`ThreadsHoldMutex`); an engine that lacks what was asked for has `rebuild_needed` or
  `reconfigure_needed` set, except within the one `init_encode` that has not made an engine
  yet (`FlagsTellEngine`); an engine is open only as the handler's or as one that a call is
  about to drop (`EnginesAreHeld`), and a call that goes on to submit its frame has left no
  flag set (`CallsGoOn`).
* `PauseEndsWithKey` and the OpenH264 part of `FramesFit` (`Openh264Inv`: while paused or
  until the library's next output, the handler remembers to ask for a key frame, has no
  encoder, or has a fresh one), and the adapter's part (`AlignedInv`: the target is a positive multiple of
  the alignment, the encoder behind has that size, and a crop has it too, lies in its frame
  and begins at an even place), which is arithmetic on `%`.

### The programs

`SmallParts_proofs`, for any tracks, events, calls, connections and bytes:

* `CallbacksFollowed`. Of sumomo the invariant `EventsTell`: whether the connection has a
  track is told by the last event about it that is on its way or, if there is none, by
  `tracks`; so it is the order of the channel that makes the sinks right. Of a test's
  connection: log, channel and the event in hand are, in this order, what was posted.
* `EndsTold`. A renderer's error is the result of main() once the shutdown that follows it
  is over, whatever that one meets (`RendererIsFirst`); the run task's result is stored when
  its handle is read, which happens once, and who is told a result was told the stored one
  (`JoinIsRead`, `ToldWasRead`); and the way up of a relay ends only at the end of what the
  client sends, or because an end was reset (`UpEndsAtTheEnd`, `EofComesFromRelay`).
  `ProxyTypeCorrect` includes `ActiveIsCounted`: the counter of connections is their number.
* `SumomoTypeCorrect`, `TestTypeCorrect`.

### The choice of codecs

`CodecSelection_proofs` proves `SelectionTypeCorrect` and `SelectionIsSafe`, the four parts
of `CodecsAreAsChosen`, for any machines, any command lines of any length, and whatever
formats the devices list.

* Merging. `ToldBy` says what a preference is once the capabilities of the first n
  implementations have been merged: for a direction and a codec, the last of them that
  supports it. `ToldByNext` is the step from n to n + 1. The loop of the program
  (`AddedSoFar`) and the listing of `--video-codec-list`, which is written another way, are
  both compared with that, and so with each other: `SelectionFollows`.
* Making. Each vendor's capability makes what it lists (`Makes`, a lemma for each): the
  factory accepts the formats of the list, and the handler that it makes is one of the
  format's codec. A preference that `ValidateVideoCodecPreference` accepts names only
  implementations that the context has and that support what they are named for, so each
  advertised format is made by the implementation preferred for it: `AdvertisedFollows`,
  `AudioAdvertisedFollows`. An application's edit needs no more than that: it is validated
  like the rest.
* Sending. With a file, `SendsFile`: the entry of the file's codec is the passthrough's, and
  the configuration has no other encoder. So what the connect asks for is what is sent:
  `ConnectFollows`.

`SelectionAssumption` is what the proof needs of the machines and the arguments. NVENC is
never asked for VP8 or VP9 (nvcodec.rs 657-658), for which the vendor's library has no
encoder, so a device does not report one. The format of an H.264 file has its profile among
its parameters (mp4.rs makes it from avcC). The codec type of the arguments is one of the
five that the parser takes. The rest says that a `Vec` is a sequence, that a format has
finitely many parameters, and that `None` is no value.

### Folds

The code's loops over lists are folds in the models. `Folding` proves once what induction
would give: a fold is the last value of a function that goes from the base through the
elements one by one (`FoldRuns`), and what is true of the base and kept by each element is
true of the result (`FoldKeeps`). The library's induction theorems cannot be instantiated,
so the lemmas go by the least index at which the claim would fail (`LeastNumber`), which
needs sets of numbers only. Each fold of a model is an INSTANCE of `Folding` with its
operator.

### The compositions

A behaviour of `MCPipelines` or `MCSmallParts` is, for each part, either a behaviour of that
part's own specification, or one in which the part rests (`Mp4Runs`, `SelectionRuns`, ...);
a part that rests keeps what is proved of it (`RestsAreSafe`, `SumomoRestsSafe`,
`SelectionRestsSafe`). With this the theorems of the parts give `PipelinesTypeCorrect`,
`InputsJudged`, `PipelinesAreSafe`, `SmallPartsAreSafe`, `PartTypesCorrect` and
`CodecsChosen`, about the very formulas the runs check.

Assumed of the constants: the assumptions named `...Assumption` of each module, which TLC
evaluates in the runs.

Only model-checked:

* the liveness properties, as fairness and ENABLED are out of the provers' reach;
* that the seven properties of the `violation` runs fail.

## 5. Not modelled

* The content of SDP, of JSON messages other than the replies of RPC, and of statistics;
  the builder, which fills fields; errors, version, zlib: conversions without state,
  covered by unit and property tests.
* Bits of H.264, H.265 and AV1 headers: their parsers are a library's. What the code
  decides from the parsed fields is in `Mp4File`.
* Pixels: copying and scaling of planes have no order to get wrong.
* The resolution that the V4L2 decoder keeps for its callback (v4l2.rs 967): which of the
  library's values it meets is not in the repository. Likewise which reason is reported
  when the stream ends after a Close frame was polled (connection.rs 1192).
* A message handled once the signaling channel has begun to close fails to send, and
  run() returns that error instead of the close (connection.rs 2296). The model has the
  step; no document says which of the two it should be.
* What follows an output of OpenH264 without a byte: `encode` clears `force_idr_on_resume`
  (openh264.rs 228-230) before it returns NoOutput for want of a byte (246-248), so after a
  pause the first image may then be a delta frame. The model has the step, and
  `PausesEndWithKeyFrame` is about the first output because of it; whether the library gives
  such an output is not in the repository, and no document says what should follow.
* sumomo's audio device, its libcamera wrapper, and what its renderers draw; the
  end-to-end tests themselves.

## 6. What is left

`send_message` and the URL getters as actions of `RpcSession`; the builder's fields and
the transceivers of an offer.
