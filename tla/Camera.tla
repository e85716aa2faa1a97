------------------------------- MODULE Camera -------------------------------
(***************************************************************************)
(* LibcameraVideoCapturer (src/libcamera.rs): its capture thread keeps the *)
(* requests of the camera going round.  A native frame lends the buffer of *)
(* its request to whoever holds it: the request goes back to the camera    *)
(* when the last reference to the frame is dropped.  A mapped frame is a   *)
(* copy, and its request goes back at once.                                *)
(*                                                                         *)
(* A session is one run of the capture thread: its requests, its buffers   *)
(* and its two channels.                                                   *)
(***************************************************************************)
EXTENDS CameraRequests, Sequences

VARIABLES
  native,       \* native_frame_output
  started,      \* the capturer holds the handle of its thread
  stopping,     \* the stop flag
  capture,      \* the thread: "none", "setup", "top", "requeue", "receive" or "ended"
  completions,  \* channel of the completion callback: [cookie, ok]
  returns       \* delayed_requeue channel: cookies whose frames are gone

capturerVars == <<native, started, stopping>>
channelVars == <<completions, returns>>

cameraVars == <<requestVars, capturerVars, capture, channelVars>>

Looping == {"top", "requeue", "receive"}

CameraInit ==
  /\ RequestsInit
  /\ native \in BOOLEAN
  /\ started = FALSE
  /\ stopping = FALSE
  /\ capture = "none"
  /\ completions = <<>>
  /\ returns = <<>>

-----------------------------------------------------------------------------
(* The application                                                         *)

\* start with no thread; while there is the handle of one it does nothing.
Start ==
  /\ ~started
  /\ session < SessionsMax
  /\ started' = TRUE
  /\ stopping' = FALSE
  /\ session' = session + 1
  /\ capture' = "setup"
  /\ UNCHANGED <<native, queued, references, channelVars>>

\* stop, Drop: the flag is set, and the thread awaited.
Stop ==
  /\ started
  /\ ~stopping
  /\ stopping' = TRUE
  /\ UNCHANGED <<native, started, capture, requestVars, channelVars>>

Stopped ==
  /\ started
  /\ stopping
  /\ capture = "ended"
  /\ started' = FALSE
  /\ capture' = "none"
  /\ UNCHANGED <<native, stopping, requestVars, channelVars>>

-----------------------------------------------------------------------------
(* The capture thread                                                      *)

\* The camera stops, its requests are dropped and so are the receivers.
EndCapture ==
  /\ capture' = "ended"
  /\ queued' = {}
  /\ completions' = <<>>
  /\ returns' = <<>>

\* run_libcamera_loop up to the loop: any step may fail, the queueing of a request
\* included, and the thread ends.
SetUp ==
  /\ capture = "setup"
  /\ \/ capture' = "top" /\ queued' = Cookies /\ UNCHANGED channelVars
     \/ EndCapture
  /\ UNCHANGED <<session, references, capturerVars>>

\* Mutated: the flag is looked at when there is no request to queue again.
LoopTopUnstopped ==
  /\ capture = "top"
  /\ IF stopping /\ returns = <<>> THEN EndCapture
     ELSE capture' = "requeue" /\ UNCHANGED <<queued, channelVars>>
  /\ UNCHANGED <<session, references, capturerVars>>

\* The flag is looked at once per turn of the loop.
LoopTop ==
  /\ capture = "top"
  /\ IF stopping THEN EndCapture
     ELSE capture' = "requeue" /\ UNCHANGED <<queued, channelVars>>
  /\ UNCHANGED <<session, references, capturerVars>>

\* requeue_request; a request that cannot be queued is lost to the session.
Requeue(cookie) == queued' \in {queued, queued \cup {cookie}}

\* Requests whose frames are gone are queued again.
RequeueReturned ==
  /\ capture = "requeue"
  /\ IF returns = <<>> THEN capture' = "receive" /\ UNCHANGED <<queued, returns>>
     ELSE Requeue(Head(returns)) /\ returns' = Tail(returns) /\ UNCHANGED capture
  /\ UNCHANGED <<session, references, capturerVars, completions>>

ReceiveTimeout ==
  /\ capture = "receive"
  /\ completions = <<>>
  /\ capture' = "top"
  /\ UNCHANGED <<requestVars, capturerVars, channelVars>>

\* Mutated: the request of a native frame is queued again as that of a mapped one.
ReceiveRequeueing ==
  /\ capture = "receive"
  /\ completions # <<>>
  /\ completions' = Tail(completions)
  /\ capture' = "top"
  /\ LET cookie == Head(completions).cookie
     IN  /\ Requeue(cookie)
         /\ \/ UNCHANGED references
            \/ /\ Head(completions).ok /\ native
               /\ \E holders \in (SUBSET Sinks) \ {{}} :
                    references' = references \cup
                      {[session |-> session, cookie |-> cookie, holder |-> h] : h \in holders}
  /\ UNCHANGED <<session, capturerVars, returns>>

\* A completed request.  It is queued again at once if the frame is bad, dropped by
\* adapt_frame or mapped (then on_frame has copied it); a native frame goes to on_frame,
\* and with it the request.  Where nobody keeps the frame, its token is dropped there.
Receive ==
  /\ capture = "receive"
  /\ completions # <<>>
  /\ completions' = Tail(completions)
  /\ capture' = "top"
  /\ LET cookie == Head(completions).cookie
     IN  \/ Requeue(cookie) /\ UNCHANGED <<returns, references>>
         \/ /\ Head(completions).ok /\ native
            /\ \E holders \in SUBSET Sinks :
                 /\ references' = references \cup
                      {[session |-> session, cookie |-> cookie, holder |-> h] : h \in holders}
                 /\ returns' = IF holders = {} THEN Append(returns, cookie) ELSE returns
            /\ UNCHANGED queued
  /\ UNCHANGED <<session, capturerVars>>

-----------------------------------------------------------------------------
(* The camera and the holders of frames                                    *)

\* The callback reports a request whose status is Complete; of any other, or of one
\* without the buffer of the stream, nothing is heard again.
RequestCompletes(cookie) ==
  /\ capture \in Looping
  /\ cookie \in queued
  /\ queued' = queued \ {cookie}
  /\ \/ UNCHANGED completions
     \/ \E ok \in BOOLEAN : completions' = Append(completions, [cookie |-> cookie, ok |-> ok])
  /\ UNCHANGED <<session, references, capturerVars, capture, returns>>

\* A holder gives its frame on, as it is or scaled, or drops it.  The token, which all
\* copies of a frame share, sends the cookie to the loop of its session, if that runs.
GiveOn(r) ==
  /\ UNCHANGED <<session, queued, capturerVars, capture, completions>>
  /\ \E holders \in SUBSET Holders :
       references' = (references \ {r}) \cup {[r EXCEPT !.holder = h] : h \in holders}
  /\ returns' = IF capture \in Looping /\ r.cookie \in Lent \ Lent' THEN Append(returns, r.cookie)
                ELSE returns

-----------------------------------------------------------------------------
CaptureNext == SetUp \/ LoopTop \/ RequeueReturned \/ ReceiveTimeout \/ Receive

CameraNext ==
  \/ Start \/ Stop \/ Stopped
  \/ CaptureNext
  \/ \E cookie \in Cookies : RequestCompletes(cookie)
  \/ \E r \in references : GiveOn(r)

CameraSpec == CameraInit /\ [][CameraNext]_cameraVars

\* The capture thread runs, and stop goes on when it may.
CameraFairness == WF_cameraVars(CaptureNext) /\ WF_cameraVars(Stopped)

-----------------------------------------------------------------------------
(* Properties                                                              *)

\* Each variable holds a value of its type.
CameraTypeOK ==
  /\ session \in 0..SessionsMax
  /\ queued \subseteq Cookies
  /\ references \subseteq References
  /\ native \in BOOLEAN /\ started \in BOOLEAN /\ stopping \in BOOLEAN
  /\ capture \in {"none", "setup", "ended"} \cup Looping
  /\ completions \in Seq([cookie : Cookies, ok : BOOLEAN])
  /\ returns \in Seq(Cookies)

\* A request is in one place at a time: with the camera, on its way to the thread
\* or back to it, or lent with its frame; no request is queued twice.
RequestsGoRound ==
  capture \in Looping =>
    /\ queued \cap Lent = {}
    /\ \A i \in DOMAIN completions :
         /\ completions[i].cookie \notin queued \cup Lent
         /\ \A j \in DOMAIN completions : completions[i].cookie = completions[j].cookie => i = j
         /\ \A j \in DOMAIN returns : completions[i].cookie # returns[j]
    /\ \A i \in DOMAIN returns :
         /\ returns[i] \notin queued \cup Lent
         /\ \A j \in DOMAIN returns : returns[i] = returns[j] => i = j

\* stop returns, whoever holds frames.
StopReturns == []<>~(started /\ stopping)
=============================================================================
