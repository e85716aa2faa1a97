---------------------------- MODULE SoraConnection ----------------------------
(***************************************************************************)
(* SoraConnection::run (src/connection.rs): one task that owns the         *)
(* signaling session.  It selects over the WebSocket stream, the WebSocket *)
(* timers, the event channel fed by libwebrtc's threads, the command       *)
(* channel of the handles and the delay before it closes the WebSocket;    *)
(* then it handles what the WebSocket library has decoded, follows a       *)
(* redirect or flushes; and once it has left that loop it waits for the    *)
(* DataChannels, closes the WebSocket and returns.  Between two steps the  *)
(* server, the network, libwebrtc and the application do as they please.   *)
(*                                                                         *)
(* Left out: SDP and media, the RPC table (it has a module of its own) and *)
(* how the monitor decides that the media path is dead (module MediaPath); *)
(* here that verdict arrives as one event.                                 *)
(***************************************************************************)
EXTENDS Naturals, Sequences, FiniteSets

CONSTANTS
  Labels,        \* labels of the DataChannels the server may create
  Signaling,     \* the label "signaling"
  Clients,       \* tasks that call SoraConnectionHandle::disconnect once
  Offers,        \* label sets an Offer's data_channels may hold
  RedirectLate,  \* may a redirect come after the Offer?
  MaxRedirects,  \* bound: redirects
  MaxQueue,      \* bound: events waiting in the event channel
  MaxExtras      \* bound: candidates, DataChannel messages, pings, ReOffers
                 \* and failures of the media path

ASSUME ConnectionAssumption ==
  /\ Signaling \in Labels
  /\ IsFiniteSet(Labels)
  /\ Offers \subseteq SUBSET Labels
  /\ RedirectLate \in BOOLEAN
  /\ {MaxRedirects, MaxQueue, MaxExtras} \subseteq Nat

VARIABLES
  \* run() and its outcome
  control,     \* where the task is
  result,      \* what run() returned, "running" until then
  failedAt,    \* which `?` made it return Err
  disconnects, \* per client: its Disconnect command
  \* the WebSocket of the current session
  wsState,     \* ConnectionState of the library
  net,         \* frames sent by the server and not read yet
  wsEvents,    \* frames decoded and not polled yet
  wsClosed,    \* websocket_closed: its loss was absorbed
  closeFrame,  \* websocket_close_frame holds a frame
  delay,       \* ws_disconnect_delay_start: "off", "waiting" or "elapsed"
  \* the signaling session
  session,     \* 1, plus one per redirect followed
  server,      \* what the session's server has sent so far
  switched,    \* switched_received
  iws,         \* switched_ignore_disconnect_websocket
  useDC,       \* use_data_channel_signaling
  \* the DataChannels
  chan,        \* libwebrtc: state of the channel of a session and a label
  granted,     \* per session: the labels of the Offer that was answered
  registered,  \* data_channels: per label the session of its channel, or 0
  configured,  \* labels of data_channel_configs
  opened,      \* opened_data_channels
  events,      \* event_rx
  \* how it ends
  reason,      \* disconnect_reason
  userDisc,    \* user_initiated_disconnect
  serverClose, \* server_close_received
  terminated,  \* terminated_without_disconnect
  \* history
  opens,       \* on_data_channel_open calls per label
  closes,      \* on_data_channel_close calls per label
  wsCloses,    \* on_websocket_close calls in the current session
  firstText,   \* first text sent on the session's WebSocket
  selfClosed,  \* run() has itself begun to close this WebSocket ("switching")
  extras       \* what MaxExtras bounds, so far

flowVars == <<control, result, failedAt, disconnects>>
wsVars == <<wsState, net, wsEvents, wsClosed, closeFrame>>
sigVars == <<session, server, switched, iws, useDC>>
chanVars == <<chan, granted>>
dcVars == <<registered, configured, opened>>
endVars == <<reason, userDisc, serverClose, terminated>>
callVars == <<opens, closes, wsCloses>>

vars == <<flowVars, wsVars, delay, sigVars, chanVars, dcVars, events, endVars,
          callVars, firstText, selfClosed, extras>>

Sessions == 1..(MaxRedirects + 1)
ChannelState == {"none", "connecting", "open", "closing", "closed"}
NoReason == "none"
WebSocketReason == {"WebSocketClosed", "WebSocketLost"}
DisconnectReason == WebSocketReason \cup
  {"ClientDisconnect", "ServerClose", "DataChannelClosed", "PeerConnectionFailed"}

Frame == {"upgrade", "offer", "reoffer", "switched", "switchedIgnore", "ping",
          "redirect", "closeText", "closeFrame"}

Register(s, l) == [type |-> "Register", session |-> s, label |-> l]
StateChange(l) == [type |-> "StateChange", label |-> l]
Message(body) == [type |-> "Message", body |-> body]
Plain(type) == [type |-> type]

Event == [type : {"Register"}, session : Sessions, label : Labels]
           \cup [type : {"StateChange"}, label : Labels]
           \cup [type : {"Message"}, body : {"close", "request"}]
           \cup [type : {"PcFailed", "Candidate", "SendWebSocketMessage"}]

Init ==
  /\ control = "top"
  /\ result = "running"
  /\ failedAt = "nowhere"
  /\ disconnects = [c \in Clients |-> "idle"]
  /\ wsState = "Connecting"
  /\ net = <<>>
  /\ wsEvents = <<>>
  /\ wsClosed = FALSE
  /\ closeFrame = FALSE
  /\ delay = "off"
  /\ session = 1
  /\ server = "upgrading"
  /\ switched = FALSE
  /\ iws = FALSE
  /\ useDC = FALSE
  /\ chan = [s \in Sessions |-> [l \in Labels |-> "none"]]
  /\ granted = [s \in Sessions |-> {}]
  /\ registered = [l \in Labels |-> 0]
  /\ configured = {}
  /\ opened = {}
  /\ events = <<>>
  /\ reason = NoReason
  /\ userDisc = FALSE
  /\ serverClose = FALSE
  /\ terminated = FALSE
  /\ opens = [l \in Labels |-> 0]
  /\ closes = [l \in Labels |-> 0]
  /\ wsCloses = 0
  /\ firstText = "none"
  /\ selfClosed = FALSE
  /\ extras = 0

-----------------------------------------------------------------------------
(* Leaving a step of run().                                                *)

Proceed(to) ==
  /\ control' = to
  /\ UNCHANGED <<result, failedAt, disconnects>>

\* `break 'run_loop`
Break == Proceed("leaving")

\* `?`: run() returns Err and drops the command receiver with what is in it.
Fail(at) ==
  /\ control' = "done"
  /\ result' = "err"
  /\ failedAt' = at
  /\ disconnects' = [c \in Clients |-> IF disconnects[c] = "queued"
                                         THEN "missing" ELSE disconnects[c]]

\* set_disconnect_reason
SetReason(r) == reason' = IF reason = NoReason THEN r ELSE reason

\* Mutated: the labels are forgotten without a callback.
NotifyNobody(S) ==
  /\ opened' = opened \ S
  /\ UNCHANGED closes

\* notify_data_channel_closed, for the labels in S.
NotifyClosed(S) ==
  /\ opened' = opened \ S
  /\ closes' = [l \in Labels |-> IF l \in S THEN closes[l] + 1 ELSE closes[l]]

\* The WebSocket library takes a text in state Connected only.
SendText(kind) ==
  firstText' = IF wsState = "Connected" /\ firstText = "none"
                 THEN kind ELSE firstText

\* switched_ignore_disconnect_websocket && use_data_channel_signaling
Ignoring == iws /\ useDC

IsOpen(reg, l) == reg[l] # 0 /\ chan[reg[l]][l] = "open"
IsClosed(reg, l) == reg[l] # 0 /\ chan[reg[l]][l] = "closed"

\* is_data_channel_signaling_ready
Ready(sw, configs, open) ==
  /\ configs # {}
  /\ sw
  /\ Cardinality(open) >= Cardinality(configs)

\* is_switching_ready
SwitchingReady == iws /\ ~wsClosed /\ Ready(switched, configured, opened)
-----------------------------------------------------------------------------
(* The environment: application, servers, libwebrtc.                       *)

\* Where run() awaits.  What happens around it while it computes between two
\* awaits is seen at the next one at the earliest: all of it waits in a channel or
\* a socket, so it is put off until then.  (Writing to the socket is an await too;
\* the steps after it read nothing that changes meanwhile.)
Awaiting == control \in {"select", "offer", "reconnect", "closeWait"}

\* SoraConnectionHandle::disconnect: the send fails once the command channel is
\* closed.
RequestDisconnect ==
  /\ Awaiting
  /\ \E c \in Clients :
       /\ disconnects[c] = "idle"
       /\ disconnects' = [disconnects EXCEPT ![c] =
            IF control = "closeWait" THEN "refused" ELSE "queued"]
  /\ UNCHANGED <<control, result, failedAt, wsVars, delay, sigVars, chanVars,
                 dcVars, events, endVars, callVars, firstText, selfClosed,
                 extras>>

\* What the server of this session may send next: connect is answered with an
\* Offer or a redirect, `switched` follows the answer, a Close frame comes last.
ServerFrames ==
  CASE server = "upgrading" -> {"upgrade"}
    [] server = "silent" /\ firstText = "none" -> {}
    [] \/ server = "silent" /\ firstText # "none"
       \/ server \in {"offered", "switched"} ->
         {"ping", "closeText", "closeFrame"}
           \cup (IF server = "silent" THEN {"offer"} ELSE {})
           \cup (IF server = "offered" /\ granted[session] # {}
                   THEN {"switched", "switchedIgnore"} ELSE {})
           \cup (IF granted[session] # {} THEN {"reoffer"} ELSE {})
           \cup (IF session <= MaxRedirects /\ (server = "silent" \/ RedirectLate)
                   THEN {"redirect"} ELSE {})
    [] server = "closing" -> {"closeFrame"}
    [] OTHER -> {}

ServerAfter(f) ==
  CASE f = "upgrade" -> "silent"
    [] f = "offer" -> "offered"
    [] f \in {"switched", "switchedIgnore"} -> "switched"
    [] f = "closeText" -> "closing"
    [] f \in {"redirect", "closeFrame"} -> "ended"
    [] OTHER -> server

ServerSends ==
  /\ Awaiting
  /\ Len(net) < 2
  /\ \E f \in ServerFrames :
       /\ extras' = IF f \in {"ping", "reoffer"} THEN extras + 1 ELSE extras
       /\ extras' <= MaxExtras
       /\ net' = Append(net, f)
       /\ server' = ServerAfter(f)
  /\ UNCHANGED <<flowVars, wsState, wsEvents, wsClosed, closeFrame, delay, session,
                 switched, iws, useDC, chanVars, dcVars, events, endVars, callVars,
                 firstText, selfClosed>>

\* PeerConnectionObserver.on_data_channel: a channel of an answered Offer arrives.
ChannelArrives ==
  /\ Awaiting
  /\ Len(events) < MaxQueue
  /\ \E s \in 1..session : \E l \in granted[s] :
       /\ chan[s][l] = "none"
       /\ \E st \in {"connecting", "open"} : chan' = [chan EXCEPT ![s][l] = st]
       /\ events' = Append(events, Register(s, l))
  /\ UNCHANGED <<flowVars, wsVars, delay, sigVars, granted, dcVars, endVars, callVars,
                 firstText, selfClosed, extras>>

\* A channel changes state; only the observer of a registered channel hears it.
ChannelMoves ==
  /\ Awaiting
  /\ \E s \in 1..session, l \in Labels :
       /\ \/ /\ chan[s][l] = "connecting"
             /\ \E st \in {"open", "closed"} : chan' = [chan EXCEPT ![s][l] = st]
          \/ /\ chan[s][l] = "open"
             /\ chan' = [chan EXCEPT ![s][l] = "closing"]
          \/ /\ chan[s][l] = "closing"
             /\ chan' = [chan EXCEPT ![s][l] = "closed"]
       /\ IF registered[l] = s
            THEN Len(events) < MaxQueue /\ events' = Append(events, StateChange(l))
            ELSE UNCHANGED events
  /\ UNCHANGED <<flowVars, wsVars, delay, sigVars, granted, dcVars, endVars, callVars,
                 firstText, selfClosed, extras>>

\* A message on the open signaling channel, or an ICE candidate once an Offer
\* has been answered.
MessageArrives ==
  /\ Awaiting
  /\ extras < MaxExtras
  /\ Len(events) < MaxQueue
  /\ \/ /\ IsOpen(registered, Signaling)
        /\ \E body \in {"close", "request"} : events' = Append(events, Message(body))
     \/ /\ \E s \in 1..session : granted[s] # {}
        /\ events' = Append(events, Plain("Candidate"))
  /\ extras' = extras + 1
  /\ UNCHANGED <<flowVars, wsVars, delay, sigVars, chanVars, dcVars, endVars, callVars,
                 firstText, selfClosed>>

\* The media path is found dead (module MediaPath).
MediaPathDies ==
  /\ Awaiting
  /\ extras < MaxExtras
  /\ extras' = extras + 1
  /\ Len(events) < MaxQueue
  /\ \E s \in 1..session : granted[s] # {}
  /\ events' = Append(events, Plain("PcFailed"))
  /\ UNCHANGED <<flowVars, wsVars, delay, sigVars, chanVars, dcVars, endVars, callVars,
                 firstText, selfClosed>>

\* WS_DISCONNECT_DELAY passes.
DelayElapses ==
  /\ Awaiting
  /\ delay = "waiting"
  /\ delay' = "elapsed"
  /\ UNCHANGED <<flowVars, wsVars, sigVars, chanVars, dcVars, events, endVars, callVars,
                 firstText, selfClosed, extras>>

-----------------------------------------------------------------------------
(* The head of the loop and the branches of select!.                       *)

\* resolve_ws_disconnect_delay_start
LoopTop ==
  /\ control = "top"
  /\ delay' = IF wsState # "Connected" \/ ~SwitchingReady THEN "off"
              ELSE IF delay = "off" THEN "waiting" ELSE delay
  /\ Proceed("select")
  /\ UNCHANGED <<wsVars, sigVars, chanVars, dcVars, events, endVars, callVars,
                 firstText, selfClosed, extras>>

\* stream.read returns bytes and ws.feed_recv_buf decodes the frames in them.  A
\* Close frame of the peer leaves the library Closing or Closed (it is not part
\* of this repository); the Close frame that answers ours leaves it Closed.
ReadFramesThen(next) ==
  /\ control = "select"
  /\ ~wsClosed
  /\ \E n \in 1..Len(net) :
       LET chunk == SubSeq(net, 1, n)
           closing == \E i \in 1..n : chunk[i] = "closeFrame"
       IN /\ net' = SubSeq(net, n + 1, Len(net))
          /\ wsEvents' = wsEvents \o chunk
          /\ wsState' \in IF closing
                            THEN IF wsState = "Connected" THEN {"Closing", "Closed"}
                                 ELSE {"Closed"}
                            ELSE IF chunk[1] = "upgrade" THEN {"Connected"}
                            ELSE {wsState}
  /\ Proceed(next)
  /\ UNCHANGED <<wsClosed, closeFrame, delay, sigVars, chanVars, dcVars, events,
                 endVars, callVars, firstText, selfClosed, extras>>

\* Mutated: the decoded frames wait for another wake-up.
ReadFramesNoPoll == ReadFramesThen("top")

ReadFrames == ReadFramesThen("poll")

\* The read or the decoding fails.
ReadFails ==
  /\ control = "select"
  /\ ~wsClosed
  /\ IF Ignoring
       THEN wsClosed' = TRUE /\ Proceed("top")
       ELSE UNCHANGED wsClosed /\ Fail("read")
  /\ UNCHANGED <<wsState, net, wsEvents, closeFrame, delay, sigVars, chanVars, dcVars,
                 events, endVars, callVars, firstText, selfClosed, extras>>

\* The peer has closed the connection (n == 0 or UnexpectedEof).
ReadEofUnless(absorbed) ==
  /\ control = "select"
  /\ ~wsClosed
  /\ net = <<>>
  /\ IF absorbed
       THEN wsClosed' = TRUE /\ Proceed("top") /\ UNCHANGED reason
       ELSE UNCHANGED wsClosed /\ SetReason("WebSocketLost") /\ Break
  /\ UNCHANGED <<wsState, net, wsEvents, closeFrame, delay, sigVars, chanVars, dcVars,
                 events, userDisc, serverClose, terminated, callVars, firstText,
                 selfClosed, extras>>

\* Mutated: the end of the stream is fatal in every mode.
ReadEofAlwaysFatal == ReadEofUnless(FALSE)

ReadEof == ReadEofUnless(Ignoring)

\* timer_rx: the library's handling of a timer keeps the connection or gives it
\* up (a pong or a Close frame is overdue), or fails.
HandleTimer ==
  /\ control = "select"
  /\ wsState \in {"Connected", "Closing"}
  /\ \/ wsState' \in {wsState, "Closed"} /\ Proceed("poll")
     \/ wsState' = "Closed" /\ Fail("timer")
  /\ UNCHANGED <<net, wsEvents, wsClosed, closeFrame, delay, sigVars, chanVars, dcVars,
                 events, endVars, callVars, firstText, selfClosed, extras>>

\* The delay before the WebSocket is closed is over.
DelayEnds ==
  /\ control = "select"
  /\ delay = "elapsed"
  /\ Proceed("poll")
  /\ UNCHANGED <<wsVars, delay, sigVars, chanVars, dcVars, events, endVars, callVars,
                 firstText, selfClosed, extras>>

\* The Disconnect branch of command_rx.
HandleDisconnect ==
  /\ control = "select"
  /\ \E c \in Clients :
       /\ disconnects[c] = "queued"
       /\ disconnects' = [disconnects EXCEPT ![c] = "acked"]
  /\ userDisc' = TRUE
  /\ IF useDC THEN UNCHANGED firstText ELSE SendText("disconnect")
  /\ IF useDC THEN UNCHANGED <<opened, closes>> ELSE NotifyClosed(opened)
  /\ SetReason("ClientDisconnect")
  /\ control' = "leaving"
  /\ UNCHANGED <<result, failedAt, wsVars, delay, sigVars, chanVars, registered,
                 configured, events, serverClose, terminated, opens, wsCloses,
                 selfClosed, extras>>

-----------------------------------------------------------------------------
(* The branch of event_rx: one action per kind of event.                   *)

\* The events that wait once event e has been taken from event_rx.
Take(e) ==
  /\ control = "select"
  /\ events # <<>>
  /\ Head(events) = e

\* handle_data_channel_state, with the channels registered in reg: a step of the
\* loop that has the event's label in hand.
DataChannelStateThen(l, reg, next) ==
  IF IsOpen(reg, l) /\ l \notin opened
    THEN /\ opened' = opened \cup {l}
         /\ opens' = [opens EXCEPT ![l] = @ + 1]
         /\ useDC' = (useDC \/ Ready(switched, configured, opened \cup {l}))
         /\ Proceed("poll")
         /\ UNCHANGED <<closes, reason, terminated>>
    ELSE IF IsClosed(reg, l) /\ l \in opened
    THEN /\ NotifyClosed({l})
         /\ SetReason("DataChannelClosed")
         /\ terminated' = TRUE
         /\ Proceed(next)
         /\ UNCHANGED <<opens, useDC>>
    ELSE /\ Proceed("poll")
         /\ UNCHANGED <<opened, opens, useDC, closes, reason, terminated>>

\* Mutated: the loop goes on after an open channel has closed.
DataChannelStateContinuing(l, reg) == DataChannelStateThen(l, reg, "poll")

DataChannelState(l, reg) == DataChannelStateThen(l, reg, "leaving")

\* DataChannelRegister, with register_data_channel
HandleRegister ==
  /\ \E s \in Sessions, l \in Labels :
       /\ Take(Register(s, l))
       /\ LET reg == [registered EXCEPT ![l] = s]
          IN registered' = reg /\ DataChannelState(l, reg)
       /\ events' = IF chan[s][l] = "open" THEN Append(Tail(events), StateChange(l))
                                           ELSE Tail(events)
  /\ UNCHANGED <<wsVars, delay, session, server, switched, iws, chanVars, configured,
                 userDisc, serverClose, wsCloses, firstText, selfClosed, extras>>

HandleStateChange ==
  /\ \E l \in Labels : Take(StateChange(l)) /\ DataChannelState(l, registered)
  /\ events' = Tail(events)
  /\ UNCHANGED <<wsVars, delay, session, server, switched, iws, chanVars, registered,
                 configured, userDisc, serverClose, wsCloses, firstText, selfClosed,
                 extras>>

\* A `?` after send_data_channel_message("signaling"): the send fails unless the
\* channel is open.
SendOnSignaling ==
  IF IsOpen(registered, Signaling) THEN Proceed("poll") ELSE Fail("dcSend")

\* handle_data_channel_message: `close` on the signaling channel, or a request
\* (re-offer, ping) that is answered on it.
HandleMessage ==
  /\ \/ /\ Take(Message("close"))
        /\ serverClose' = TRUE
        /\ SetReason("ServerClose")
        /\ Break
     \/ /\ Take(Message("request"))
        /\ SendOnSignaling \/ Fail("offer")
        /\ UNCHANGED <<serverClose, reason>>
  /\ events' = Tail(events)
  /\ UNCHANGED <<wsVars, delay, sigVars, chanVars, dcVars, userDisc, terminated,
                 callVars, firstText, selfClosed, extras>>

\* SignalingMessage (an ICE candidate), with send_message_for_signaling
HandleCandidate ==
  /\ Take(Plain("Candidate"))
  /\ events' = Tail(events)
  /\ IF useDC
       THEN SendOnSignaling /\ UNCHANGED firstText
       ELSE Proceed("poll") /\ SendText("candidate")
  /\ UNCHANGED <<wsVars, delay, sigVars, chanVars, dcVars, endVars, callVars,
                 selfClosed, extras>>

\* ConnectionChange or PeerConnectionDisconnectedTimeout ends the loop.
HandlePcFailed ==
  /\ Take(Plain("PcFailed"))
  /\ events' = Tail(events)
  /\ SetReason("PeerConnectionFailed")
  /\ terminated' = TRUE
  /\ Break
  /\ UNCHANGED <<wsVars, delay, sigVars, chanVars, dcVars, userDisc, serverClose,
                 callVars, firstText, selfClosed, extras>>

\* A failure of this send is only logged.
HandleSendWebSocketMessage ==
  /\ Take(Plain("SendWebSocketMessage"))
  /\ events' = Tail(events)
  /\ SendText("pong")
  /\ Proceed("poll")
  /\ UNCHANGED <<wsVars, delay, sigVars, chanVars, dcVars, endVars, callVars,
                 selfClosed, extras>>

-----------------------------------------------------------------------------
(* The loop over ws.poll_event().                                          *)

Polled(f) ==
  /\ control = "poll"
  /\ ~wsClosed
  /\ wsEvents # <<>>
  /\ Head(wsEvents) = f

\* No event is left, or the WebSocket is given up: it is not flushed then either.
PollNone ==
  /\ control = "poll"
  /\ wsClosed \/ wsEvents = <<>>
  /\ Proceed(IF wsClosed THEN "top" ELSE "flush")
  /\ UNCHANGED <<wsVars, delay, sigVars, chanVars, dcVars, events, endVars, callVars,
                 firstText, selfClosed, extras>>

\* Connected: `connect` is sent.
PollConnected ==
  /\ Polled("upgrade")
  /\ wsEvents' = Tail(wsEvents)
  /\ SendText("connect")
  /\ IF wsState = "Connected" THEN Proceed("poll") ELSE Fail("send")
  /\ UNCHANGED <<wsState, net, wsClosed, closeFrame, delay, sigVars, chanVars, dcVars,
                 events, endVars, callVars, selfClosed, extras>>

\* An Offer or a ReOffer; handle_offer is awaited in control state "offer".
PollOffer ==
  /\ \/ Polled("offer") /\ configured' \in Offers
     \/ Polled("reoffer") /\ UNCHANGED configured
  /\ wsEvents' = Tail(wsEvents)
  /\ Proceed("offer")
  /\ UNCHANGED <<wsState, net, wsClosed, closeFrame, delay, sigVars, chanVars,
                 registered, opened, events, endVars, callVars, firstText, selfClosed,
                 extras>>

\* The answer is ready and sent.
OfferDone ==
  /\ control = "offer"
  /\ SendText("answer")
  /\ IF wsState = "Connected"
       THEN Proceed("poll") /\ granted' = [granted EXCEPT ![session] = configured]
       ELSE Fail("send") /\ UNCHANGED granted
  /\ UNCHANGED <<wsVars, delay, sigVars, chan, dcVars, events, endVars, callVars,
                 selfClosed, extras>>

\* handle_offer fails.
OfferFails ==
  /\ control = "offer"
  /\ Fail("offer")
  /\ UNCHANGED <<wsVars, delay, sigVars, chanVars, dcVars, events, endVars, callVars,
                 firstText, selfClosed, extras>>

\* Switched
PollSwitchedWhen(ready) ==
  /\ \E f \in {"switched", "switchedIgnore"} :
       Polled(f) /\ iws' = (f = "switchedIgnore")
  /\ wsEvents' = Tail(wsEvents)
  /\ switched' = TRUE
  /\ useDC' = (useDC \/ ready)
  /\ Proceed("poll")
  /\ UNCHANGED <<wsState, net, wsClosed, closeFrame, delay, session, server, chanVars,
                 dcVars, events, endVars, callVars, firstText, selfClosed, extras>>

\* Mutated: `switched` is taken for the end of the switch.
PollSwitchedAlways == PollSwitchedWhen(TRUE)

\* Mutated: only an opening channel completes the switch.
PollSwitchedNever == PollSwitchedWhen(FALSE)

PollSwitched == PollSwitchedWhen(Ready(TRUE, configured, opened))

\* Ping or ReqStats: send_pong and the get_stats callbacks post the answer.
PollPingPosting(e) ==
  /\ Polled("ping")
  /\ wsEvents' = Tail(wsEvents)
  /\ events' = Append(events, e)
  /\ Proceed("poll")
  /\ UNCHANGED <<wsState, net, wsClosed, closeFrame, delay, sigVars, chanVars, dcVars,
                 endVars, callVars, firstText, selfClosed, extras>>

\* Mutated: the request is posted instead of its answer.
PollPingVerbatim == PollPingPosting(Plain("Ping"))

PollPing == PollPingPosting(Plain("SendWebSocketMessage"))

\* Redirect: `break`
PollRedirect ==
  /\ Polled("redirect")
  /\ wsEvents' = Tail(wsEvents)
  /\ Proceed("redirect")
  /\ UNCHANGED <<wsState, net, wsClosed, closeFrame, delay, sigVars, chanVars, dcVars,
                 events, endVars, callVars, firstText, selfClosed, extras>>

\* Close: the reason is settled, the loop goes on.
PollCloseText ==
  /\ Polled("closeText")
  /\ wsEvents' = Tail(wsEvents)
  /\ SetReason("ServerClose")
  /\ Proceed("flush")
  /\ UNCHANGED <<wsState, net, wsClosed, closeFrame, delay, sigVars, chanVars, dcVars,
                 events, userDisc, serverClose, terminated, callVars, firstText,
                 selfClosed, extras>>

\* ConnectionEvent::Close
PollCloseFrame ==
  /\ Polled("closeFrame")
  /\ closeFrame' = TRUE
  /\ wsEvents' = Tail(wsEvents)
  /\ wsCloses' = wsCloses + 1
  /\ Proceed("flush")
  /\ UNCHANGED <<wsState, net, wsClosed, delay, sigVars, chanVars, dcVars, events,
                 endVars, opens, closes, firstText, selfClosed, extras>>

-----------------------------------------------------------------------------
(* Following a redirect.                                                   *)

\* The session state is reset and the events of the old session are drained.  Of
\* those only a ConnectionChange counts: it may end the loop.
Redirect ==
  /\ control = "redirect"
  /\ switched' = FALSE
  /\ iws' = FALSE
  /\ useDC' = FALSE
  /\ closeFrame' = FALSE
  /\ selfClosed' = FALSE
  /\ NotifyClosed(opened)
  /\ registered' = [l \in Labels |-> 0]
  /\ configured' = {}
  /\ events' = <<>>
  /\ \/ /\ Proceed("reconnect")
        /\ UNCHANGED <<reason, terminated>>
     \/ /\ \E i \in 1..Len(events) : events[i] = Plain("PcFailed")
        /\ SetReason("PeerConnectionFailed")
        /\ terminated' = TRUE
        /\ Break
  /\ UNCHANGED <<wsState, net, wsEvents, wsClosed, delay, session, server, chanVars,
                 userDisc, serverClose, opens, wsCloses, firstText,
                 extras>>

\* The old WebSocket is closed, the new one connected and its Upgrade request
\* flushed; the library may also give the connection up right there.
Reconnect ==
  /\ control = "reconnect"
  /\ session <= MaxRedirects  \* the bound that ServerFrames keeps to
  /\ session' = session + 1
  /\ server' = "upgrading"
  /\ wsState' = "Connecting"
  /\ net' = <<>>
  /\ wsEvents' = <<>>
  /\ wsClosed' = FALSE
  /\ firstText' = "none"
  /\ wsCloses' = 0
  /\ \/ Proceed("top") /\ UNCHANGED reason
     \/ Break /\ SetReason("WebSocketLost")
  /\ UNCHANGED <<closeFrame, delay, switched, iws, useDC, chanVars, dcVars, events,
                 userDisc, serverClose, terminated, opens, closes,
                 selfClosed, extras>>

\* An unusable URL, a failed or late connect, a failed first write.
ReconnectFails ==
  /\ control = "reconnect"
  /\ Fail("reconnect")
  /\ UNCHANGED <<wsVars, delay, sigVars, chanVars, dcVars, events, endVars, callVars,
                 firstText, selfClosed, extras>>

-----------------------------------------------------------------------------
(* Flushing, and noticing that the WebSocket has closed.                   *)

\* The tail of the loop once the WebSocket has been closed for the switch or not.
StateAfterSwitch ==
  IF SwitchingReady /\ delay = "elapsed" /\ wsState = "Connected"
    THEN "Closing" ELSE wsState

\* A Close frame carries a code; what sets 4490 (SignalingError) apart from the
\* others is not modelled.
CloseReason == IF closeFrame THEN "WebSocketClosed" ELSE "WebSocketLost"

FlushDone ==
  /\ control = "flush"
  /\ wsState' = StateAfterSwitch
  /\ selfClosed' = (selfClosed \/ wsState' # wsState)
  /\ CASE wsState' # "Closed" -> Proceed("top") /\ UNCHANGED <<wsClosed, reason, closeFrame>>
       [] wsState' = "Closed" /\ Ignoring ->
            /\ wsClosed' = TRUE
            /\ Proceed("top")
            /\ UNCHANGED <<reason, closeFrame>>
       [] OTHER ->
            /\ SetReason(CloseReason)
            /\ closeFrame' = FALSE
            /\ Break
            /\ UNCHANGED wsClosed
  /\ UNCHANGED <<net, wsEvents, delay, sigVars, chanVars, dcVars, events, userDisc,
                 serverClose, terminated, callVars, firstText, extras>>

\* Writing fails: absorbed as the end of the WebSocket, or fatal.
FlushFails ==
  /\ control = "flush"
  /\ wsState' = StateAfterSwitch
  /\ selfClosed' = (selfClosed \/ wsState' # wsState)
  /\ IF Ignoring
       THEN wsClosed' = TRUE /\ Proceed("top")
       ELSE UNCHANGED wsClosed /\ Fail("flush")
  /\ UNCHANGED <<net, wsEvents, closeFrame, delay, sigVars, chanVars, dcVars, events,
                 endVars, callVars, firstText, extras>>

-----------------------------------------------------------------------------
(* After the loop.                                                         *)

\* Mutated: the commands still queued are dropped.
NotAcknowledged == disconnects

\* What the queued Disconnect commands become.
Acknowledged == [c \in Clients |-> IF disconnects[c] = "queued"
                                    THEN "acked" ELSE disconnects[c]]

\* close_command_channel_and_ack_pending_disconnects, and the choice of how to
\* see the remaining DataChannels closed.
LeaveLoop ==
  /\ control = "leaving"
  /\ disconnects' = Acknowledged
  /\ userDisc' = (userDisc \/ \E c \in Clients : disconnects[c] = "queued")
  /\ IF ~terminated /\ useDC /\ opened # {}
       THEN control' = "closeWait" /\ UNCHANGED <<opened, closes>>
       ELSE control' = "handshake" /\ NotifyClosed(opened)
  /\ UNCHANGED <<result, failedAt, wsVars, delay, sigVars, chanVars, registered,
                 configured, events, reason, serverClose, terminated, opens, wsCloses,
                 firstText, selfClosed, extras>>

\* wait_data_channels_close: an event
CloseWait ==
  /\ control = "closeWait"
  /\ events # <<>>
  /\ events' = Tail(events)
  /\ NotifyClosed({l \in opened : Head(events) = StateChange(l) /\ IsClosed(registered, l)})
  /\ Proceed(IF opened' = {} THEN "handshake" ELSE "closeWait")
  /\ UNCHANGED <<wsVars, delay, sigVars, chanVars, registered, configured, endVars,
                 opens, wsCloses, firstText, selfClosed, extras>>

\* wait_data_channels_close: the deadline, with notify_close_for_remaining
CloseWaitTimeoutIf(looked) ==
  /\ control = "closeWait"
  /\ looked
  /\ NotifyClosed(opened)
  /\ Proceed("handshake")
  /\ UNCHANGED <<wsVars, delay, sigVars, chanVars, registered, configured, events,
                 endVars, opens, wsCloses, firstText, selfClosed, extras>>

\* Mutated: the deadline is looked at only when an event arrives.
CloseWaitTimeoutOnEvent == CloseWaitTimeoutIf(events # <<>>)

CloseWaitTimeout == CloseWaitTimeoutIf(TRUE)

\* Mutated: a disconnect by the user does not count.
AbsorbsWithoutUserDisconnect ==
  serverClose \/ Ignoring \/ reason = "WebSocketLost"

\* The conditions under which the closing handshake may fail without harm.
Absorbs == serverClose \/ Ignoring \/ userDisc \/ reason = "WebSocketLost"

ReturnOk ==
  /\ control' = "done"
  /\ result' = "ok"
  /\ UNCHANGED <<failedAt, disconnects>>

\* close_websocket_handshake and the end of run().  Only after a server close is
\* a Close frame read here reported.
CloseHandshakeIn(states) ==
  /\ control = "handshake"
  /\ \/ ReturnOk /\ UNCHANGED wsCloses
     \/ /\ ~wsClosed /\ wsState \in states
        /\ serverClose
        /\ wsCloses' = wsCloses + 1
        /\ ReturnOk
     \/ /\ ~wsClosed /\ wsState \in states
        /\ ~Absorbs
        /\ Fail("handshake")
        /\ UNCHANGED wsCloses
  /\ UNCHANGED <<wsVars, delay, sigVars, chanVars, dcVars, events, endVars, opens,
                 closes, firstText, selfClosed, extras>>

\* Mutated: a handshake the peer has begun is taken up too.
CloseHandshakeWhenClosing == CloseHandshakeIn({"Connected", "Closing"})

CloseHandshake == CloseHandshakeIn({"Connected"})

-----------------------------------------------------------------------------
Environment ==
  \/ RequestDisconnect
  \/ ServerSends
  \/ ChannelArrives
  \/ ChannelMoves
  \/ MessageArrives
  \/ MediaPathDies
  \/ DelayElapses

\* What an iteration of the loop waits for.
HandleEvent ==
  \/ HandleRegister
  \/ HandleStateChange
  \/ HandleMessage
  \/ HandleCandidate
  \/ HandlePcFailed
  \/ HandleSendWebSocketMessage

SelectBranch ==
  \/ ReadFrames
  \/ ReadFails
  \/ ReadEof
  \/ HandleTimer
  \/ DelayEnds
  \/ HandleEvent
  \/ HandleDisconnect

Poll ==
  \/ PollNone
  \/ PollConnected
  \/ PollOffer
  \/ OfferDone
  \/ OfferFails
  \/ PollSwitched
  \/ PollPing
  \/ PollRedirect
  \/ PollCloseText
  \/ PollCloseFrame

Finish ==
  \/ LeaveLoop
  \/ CloseWait
  \/ CloseWaitTimeout
  \/ CloseHandshake

Run ==
  \/ LoopTop
  \/ SelectBranch
  \/ Poll
  \/ Redirect
  \/ Reconnect
  \/ ReconnectFails
  \/ FlushDone
  \/ FlushFails
  \/ Finish

Next == Environment \/ Run

Spec == Init /\ [][Next]_vars

\* The task runs on a fair executor, and every await of run() other than select!
\* ends: connecting, the wait for the DataChannels and the closing handshake have
\* deadlines, libwebrtc answers handle_offer, and the socket takes or refuses what
\* is written.  select! picks at random among the branches that are ready, so a
\* branch that is ready again and again is taken.
Fairness ==
  /\ WF_vars(Run)
  /\ SF_vars(HandleEvent)
  /\ SF_vars(HandleDisconnect)

FairSpec == Spec /\ Fairness
-----------------------------------------------------------------------------
(* Properties.                                                             *)

\* Where run() may be, what it may return and what becomes of a disconnect command.
FlowType ==
  /\ control \in {"top", "select", "poll", "offer", "redirect", "reconnect", "flush",
                  "leaving", "closeWait", "handshake", "done"}
  /\ result \in {"running", "ok", "err"}
  /\ failedAt \in {"nowhere", "read", "timer", "send", "dcSend", "offer",
                   "reconnect", "flush", "handshake"}
  /\ disconnects \in [Clients -> {"idle", "queued", "acked", "refused", "missing"}]

\* The WebSocket carries frames of the protocol only.
WebSocketType ==
  /\ wsState \in {"Connecting", "Connected", "Closing", "Closed"}
  /\ net \in Seq(Frame)
  /\ wsEvents \in Seq(Frame)
  /\ wsClosed \in BOOLEAN
  /\ closeFrame \in BOOLEAN
  /\ delay \in {"off", "waiting", "elapsed"}

\* The session's flags are booleans, its number stays within the bound.
SessionType ==
  /\ session \in Sessions
  /\ server \in {"upgrading", "silent", "offered", "switched", "closing", "ended"}
  /\ switched \in BOOLEAN
  /\ iws \in BOOLEAN
  /\ useDC \in BOOLEAN

\* A label is registered for one session; the event queue holds known events only.
ChannelType ==
  /\ chan \in [Sessions -> [Labels -> ChannelState]]
  /\ granted \in [Sessions -> SUBSET Labels]
  /\ registered \in [Labels -> Sessions \cup {0}]
  /\ configured \in SUBSET Labels
  /\ opened \in SUBSET Labels
  /\ events \in Seq(Event)

\* The cause of the end is one of DisconnectReason's kinds.
EndType ==
  /\ reason \in DisconnectReason \cup {NoReason}
  /\ userDisc \in BOOLEAN
  /\ serverClose \in BOOLEAN
  /\ terminated \in BOOLEAN

\* The history counts callbacks and remembers the session's first text.
HistoryType ==
  /\ opens \in [Labels -> Nat]
  /\ closes \in [Labels -> Nat]
  /\ wsCloses \in Nat
  /\ firstText \in {"none", "connect", "answer", "candidate", "pong", "disconnect"}
  /\ selfClosed \in BOOLEAN
  /\ extras \in Nat

\* Every variable of run() stays in its range: no handler posts an event, decodes a
\* frame or leaves a state that another handler does not know.
TypeOK ==
  /\ FlowType
  /\ WebSocketType
  /\ SessionType
  /\ ChannelType
  /\ EndType
  /\ HistoryType

\* run() is inside 'run_loop.
InLoop == control \in {"top", "select", "poll", "offer", "redirect", "reconnect", "flush"}

\* What the contract calls the cause, a set of at most one reason.
ObservedCause == {reason} \ {NoReason}

Contract == INSTANCE ConnectionContract WITH Reasons <- DisconnectReason,
                                             cause <- ObservedCause

\* The application's view is that of the contract: per label the open and close
\* callbacks alternate, the first cause of the end is kept, run() returns Ok only
\* with a cause and with every open followed by its close, and calls nothing back
\* once it has returned - whatever the redirects, channels of an old session,
\* absorbed failures and waits on the way.
ImplementsContract == Contract!Spec

\* An application whose disconnect was acknowledged, or whose server announced the
\* end on the signaling channel, gets Ok from run(): no failure on the way out
\* (server resets, half-closed sockets) turns the orderly end into an error.
OrderlyEndNeverFails ==
  serverClose \/ (\E c \in Clients : disconnects[c] = "acked") => result # "err"

\* Once signaling runs on the DataChannels and the server has said that the
\* WebSocket no longer counts, losing the WebSocket - on reading, on writing, with
\* or without a Close frame, by a failure or an orderly end - is neither the cause
\* of the end nor an error, up to and including the closing handshake.
SwitchedSurvivesWebSocketLoss ==
  [][Ignoring => /\ failedAt' \notin {"read", "flush", "handshake"}
                 /\ reason' \in WebSocketReason => reason = reason']_vars

\* run() closes the WebSocket for the switch only when losing it will be absorbed.
SelfCloseIsAbsorbed == selfClosed => Ignoring

\* After a redirect no DataChannel of the session before gets registered again.
NoStaleRegistration == \A l \in Labels : registered[l] \in {0, session}

\* Signaling moves to the DataChannels only after `switched` and once every
\* DataChannel of the Offer is open, and stays there only while they are; a channel
\* of the session before a redirect, though, counts as one of them.
DataChannelSignalingIsComplete ==
  InLoop /\ useDC =>
    /\ switched
    /\ configured # {}
    /\ NoStaleRegistration => configured \subseteq opened

\* `connect` is the first text a server gets on a WebSocket, in a redirected session
\* too: no candidate, answer or pong left over from the one before gets ahead of it.
ConnectComesFirst == firstText \in {"none", "connect"}

\* on_websocket_close is called at most once per WebSocket.
WebSocketCloseOnce == wsCloses <= 1

\* Every disconnect request is answered: acknowledged, refused, or failed with run().
DisconnectAnswered ==
  \A c \in Clients : disconnects[c] = "queued" ~> disconnects[c] \in {"acked", "missing"}

\* Once run() has left its loop it returns.
LeavingReturns == control = "leaving" ~> control = "done"

\* A DataChannel that was reported open and has closed ends the connection.
OpenedCloseEnds ==
  \A l \in Labels : (l \in opened /\ IsClosed(registered, l)) ~> ~InLoop

\* A DataChannel of the current Offer that was open and has closed ends the
\* connection, also when run() had not yet processed that it opened.
ClosedChannelEnds ==
  \A l \in Labels :
    [](InLoop /\ chan[session][l] = "open" => (IsClosed(registered, l) ~> ~InLoop))

\* on_switched is called when signaling has moved to the DataChannels.
SwitchedIsComplete == InLoop /\ switched => useDC
=============================================================================
