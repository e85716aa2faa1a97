------------------------ MODULE SoraConnection_proofs ------------------------
(***************************************************************************)
(* Proofs about SoraConnection for any set of labels, clients and Offers   *)
(* and any bounds: its types, the pairing of the callbacks with the        *)
(* refinement of ConnectionContract, and what an orderly end and the       *)
(* switch to DataChannel signaling guarantee.                              *)
(*                                                                         *)
(* And about its signaling sessions: `connect` comes first on every        *)
(* WebSocket, on_websocket_close is called once for it, signaling moves to *)
(* complete DataChannels only, and run() closes a WebSocket for the switch *)
(* only when its loss is absorbed.  All of it rests on what the frames of a *)
(* session that are still to be polled can be.                             *)
(***************************************************************************)
EXTENDS SoraConnection, FiniteSetTheorems, SequenceTheorems, TLAPS

-----------------------------------------------------------------------------
(* Facts about the data.                                                   *)

\* What is posted to event_rx is an event.
LEMMA EventForms ==
  /\ \A s \in Sessions, l \in Labels : Register(s, l) \in Event
  /\ \A l \in Labels : StateChange(l) \in Event
  /\ \A body \in {"close", "request"} : Message(body) \in Event
  /\ \A type \in {"PcFailed", "Candidate", "SendWebSocketMessage"} :
       Plain(type) \in Event
  BY DEF Event, Register, StateChange, Message, Plain

\* Appending an event, and taking the first one, leave a sequence of events.
LEMMA EventQueue ==
  ASSUME NEW q \in Seq(Event), NEW e \in Event
  PROVE  /\ Append(q, e) \in Seq(Event)
         /\ q # <<>> => Tail(q) \in Seq(Event) /\ Head(q) \in Event
  OBVIOUS

\* The sessions so far are sessions, and one more is when the bound allows it.
LEMMA SessionNumbers ==
  ASSUME ConnectionAssumption, session \in Sessions
  PROVE  /\ 1..session \subseteq Sessions
         /\ session <= MaxRedirects => session + 1 \in Sessions
  BY DEF ConnectionAssumption, Sessions

\* Counting one more call for some labels leaves counts.
LEMMA CountedCloses ==
  ASSUME NEW S, NEW n \in [Labels -> Nat]
  PROVE  [l \in Labels |-> IF l \in S THEN n[l] + 1 ELSE n[l]] \in [Labels -> Nat]
  OBVIOUS

LEMMA CountedOpen ==
  ASSUME NEW l \in Labels, NEW n \in [Labels -> Nat]
  PROVE  [n EXCEPT ![l] = @ + 1] \in [Labels -> Nat]
  OBVIOUS

\* Notifying the close of some labels, and the opening of one, keep the types.
LEMMA NotifyTypes ==
  ASSUME NEW S, NotifyClosed(S), opened \in SUBSET Labels, closes \in [Labels -> Nat]
  PROVE  opened' \in SUBSET Labels /\ closes' \in [Labels -> Nat]
  BY DEF NotifyClosed

LEMMA InitTypes == ConnectionAssumption /\ Init => TypeOK
<1> SUFFICES ASSUME ConnectionAssumption, Init PROVE TypeOK
  OBVIOUS
<1>1. FlowType
  BY DEF Init, FlowType
<1>2. WebSocketType
  <2>1. net \in Seq(Frame) /\ wsEvents \in Seq(Frame)
    BY DEF Init
  <2>2. wsClosed \in BOOLEAN /\ closeFrame \in BOOLEAN
    BY DEF Init
  <2> QED
    BY <2>1, <2>2 DEF Init, WebSocketType
<1>3. 1 \in Sessions
  BY DEF ConnectionAssumption, Sessions
<1>4. SessionType
  BY <1>3 DEF Init, SessionType
<1>5. ChannelType
  BY DEF Init, ChannelType, ChannelState
<1>6. EndType /\ HistoryType
  BY DEF Init, EndType, HistoryType, NoReason
<1>7. QED
  BY <1>1, <1>2, <1>4, <1>5, <1>6 DEF TypeOK

\* The environment keeps the types.
LEMMA EnvironmentTypes ==
  ASSUME ConnectionAssumption, TypeOK, Environment PROVE TypeOK'
<1> USE DEF TypeOK, FlowType, WebSocketType, SessionType, ChannelType, EndType,
            HistoryType, flowVars, wsVars, sigVars, chanVars, dcVars, endVars,
            callVars
<1>1. CASE RequestDisconnect
  BY <1>1 DEF RequestDisconnect
<1>2. CASE ServerSends
  BY <1>2 DEF ServerSends, ServerFrames, ServerAfter, Frame
<1>3. CASE ChannelArrives
  <2>1. FlowType' /\ WebSocketType' /\ SessionType' /\ EndType' /\ HistoryType'
    BY <1>3 DEF ChannelArrives
  <2>2. PICK s \in Sessions, l \in Labels, st \in ChannelState :
          /\ chan' = [chan EXCEPT ![s][l] = st]
          /\ events' = Append(events, Register(s, l))
    <3>1. PICK s \in 1..session : \E l \in granted[s] :
            /\ \E st \in {"connecting", "open"} : chan' = [chan EXCEPT ![s][l] = st]
            /\ events' = Append(events, Register(s, l))
      BY <1>3 DEF ChannelArrives
    <3>2. s \in Sessions /\ granted[s] \in SUBSET Labels
      BY SessionNumbers
    <3> QED
      BY <3>1, <3>2 DEF ChannelState
  <2>3. /\ chan' \in [Sessions -> [Labels -> ChannelState]]
        /\ events' \in Seq(Event)
    BY <2>2, EventForms, EventQueue
  <2>4. UNCHANGED <<granted, registered, configured, opened>>
    BY <1>3 DEF ChannelArrives
  <2> QED
    BY <2>1, <2>3, <2>4
<1>4. CASE ChannelMoves
  <2>1. FlowType' /\ WebSocketType' /\ SessionType' /\ EndType' /\ HistoryType'
    BY <1>4 DEF ChannelMoves
  <2>2. PICK s \in Sessions, l \in Labels, st \in ChannelState :
          /\ chan' = [chan EXCEPT ![s][l] = st]
          /\ events' \in {events, Append(events, StateChange(l))}
    <3>1. PICK s \in 1..session, l \in Labels :
            /\ \E st \in {"open", "closing", "closed"} :
                 chan' = [chan EXCEPT ![s][l] = st]
            /\ events' \in {events, Append(events, StateChange(l))}
      BY ZenonT(30), <1>4 DEF ChannelMoves
    <3>2. s \in Sessions
      BY SessionNumbers
    <3> QED
      BY <3>1, <3>2 DEF ChannelState
  <2>3. /\ chan' \in [Sessions -> [Labels -> ChannelState]]
        /\ events' \in Seq(Event)
    BY <2>2, EventForms, EventQueue
  <2>4. UNCHANGED <<granted, registered, configured, opened>>
    BY <1>4 DEF ChannelMoves
  <2> QED
    BY <2>1, <2>3, <2>4
<1>5. CASE MessageArrives
  <2>1. FlowType' /\ WebSocketType' /\ SessionType' /\ EndType' /\ HistoryType'
    BY <1>5 DEF MessageArrives
  <2>2. ChannelType'
    BY <1>5, EventForms, EventQueue DEF MessageArrives
  <2> QED
    BY <2>1, <2>2
<1>6. CASE MediaPathDies
  <2>1. FlowType' /\ WebSocketType' /\ SessionType' /\ EndType' /\ HistoryType'
    BY <1>6 DEF MediaPathDies
  <2>2. ChannelType'
    BY <1>6, EventForms, EventQueue DEF MediaPathDies
  <2> QED
    BY <2>1, <2>2
<1>7. CASE DelayElapses
  BY <1>7 DEF DelayElapses
<1> QED
  BY <1>1, <1>2, <1>3, <1>4, <1>5, <1>6, <1>7 DEF Environment

\* The head of the loop and the branches of select! but its events keep the types.
LEMMA SelectTypes ==
  ASSUME ConnectionAssumption, TypeOK, LoopTop \/ ReadFrames \/ ReadFails \/ ReadEof \/ HandleTimer \/ DelayEnds \/ HandleDisconnect PROVE TypeOK'
<1> USE DEF TypeOK, FlowType, WebSocketType, SessionType, ChannelType, EndType,
            HistoryType, flowVars, wsVars, sigVars, chanVars, dcVars, endVars,
            callVars, Proceed, Break, Fail
<1>1. CASE LoopTop
  BY <1>1 DEF LoopTop
<1>2. CASE ReadFrames
  <2>1. FlowType' /\ SessionType' /\ ChannelType' /\ EndType' /\ HistoryType'
    BY <1>2 DEF ReadFrames, ReadFramesThen
  <2>2. PICK n \in 1..Len(net) :
          /\ net' = SubSeq(net, n + 1, Len(net))
          /\ wsEvents' = wsEvents \o SubSeq(net, 1, n)
    BY <1>2 DEF ReadFrames, ReadFramesThen
  <2>3. net' \in Seq(Frame) /\ wsEvents' \in Seq(Frame)
    BY SMTT(20), <2>2
  <2>4. wsState' \in {"Connecting", "Connected", "Closing", "Closed"}
    BY <1>2 DEF ReadFrames, ReadFramesThen
  <2>5. UNCHANGED <<wsClosed, closeFrame, delay>>
    BY <1>2 DEF ReadFrames, ReadFramesThen
  <2> QED
    BY <2>1, <2>3, <2>4, <2>5
<1>3. CASE ReadFails
  <2>1. FlowType' /\ SessionType' /\ ChannelType' /\ EndType' /\ HistoryType'
    BY <1>3 DEF ReadFails, Ignoring
  <2>2. WebSocketType'
    BY <1>3 DEF ReadFails, Ignoring
  <2> QED
    BY <2>1, <2>2
<1>4. CASE ReadEof
  <2>1. FlowType' /\ SessionType' /\ ChannelType' /\ HistoryType'
    BY <1>4 DEF ReadEof, ReadEofUnless
  <2>2. WebSocketType'
    BY <1>4 DEF ReadEof, ReadEofUnless
  <2>3. EndType'
    BY <1>4 DEF ReadEof, ReadEofUnless, DisconnectReason, WebSocketReason, NoReason, SetReason
  <2> QED
    BY <2>1, <2>2, <2>3
<1>5. CASE HandleTimer
  BY <1>5 DEF HandleTimer
<1>6. CASE DelayEnds
  BY <1>6 DEF DelayEnds
<1>7. CASE HandleDisconnect
  <2>1. WebSocketType' /\ SessionType' /\ EndType'
    BY <1>7 DEF HandleDisconnect, SetReason, DisconnectReason
  <2>2. FlowType'
    BY <1>7 DEF HandleDisconnect
  <2>3. opened' \in SUBSET Labels /\ closes' \in [Labels -> Nat]
    BY <1>7, NotifyTypes DEF HandleDisconnect
  <2>4. ChannelType' /\ HistoryType'
    BY <1>7, <2>3 DEF HandleDisconnect, SendText
  <2> QED
    BY <2>1, <2>2, <2>4
<1> QED
  BY <1>1, <1>2, <1>3, <1>4, <1>5, <1>6, <1>7

\* Handling an event keeps the types.
LEMMA EventTypes ==
  ASSUME ConnectionAssumption, TypeOK, HandleEvent PROVE TypeOK'
<1> USE DEF TypeOK, FlowType, WebSocketType, SessionType, ChannelType, EndType,
            HistoryType, flowVars, wsVars, sigVars, chanVars, dcVars, endVars,
            callVars, Proceed, Break, Fail
<1>1. CASE HandleRegister
  <2>1. FlowType' /\ WebSocketType' /\ SessionType'
    BY SMTT(20), <1>1 DEF HandleRegister, DataChannelState, DataChannelStateThen, IsOpen, IsClosed, Ready
  <2>2. ChannelType'
    BY <1>1, EventForms, EventQueue DEF HandleRegister, DataChannelState, DataChannelStateThen, IsOpen, IsClosed, Take, NotifyClosed
  <2>3. EndType'
    <3>1. reason' \in DisconnectReason \cup {NoReason}
      BY <1>1 DEF HandleRegister, DataChannelState, DataChannelStateThen, DisconnectReason, SetReason
    <3>2. userDisc' = userDisc /\ serverClose' = serverClose
      BY <1>1 DEF HandleRegister, DataChannelState, DataChannelStateThen
    <3>3. terminated' \in BOOLEAN
      BY <1>1 DEF HandleRegister, DataChannelState, DataChannelStateThen, IsClosed
    <3> QED
      BY <3>1, <3>2, <3>3
  <2>4. closes' \in [Labels -> Nat]
    BY <1>1, NotifyTypes DEF HandleRegister, DataChannelState, DataChannelStateThen
  <2>5. opens' \in [Labels -> Nat]
    BY SMTT(20), <1>1, CountedOpen DEF HandleRegister, DataChannelState, DataChannelStateThen
  <2>6. HistoryType'
    BY <1>1, <2>4, <2>5 DEF HandleRegister
  <2> QED
    BY <2>1, <2>2, <2>3, <2>6
<1>2. CASE HandleStateChange
  <2>1. FlowType' /\ WebSocketType' /\ SessionType'
    BY <1>2 DEF HandleStateChange, DataChannelState, DataChannelStateThen, IsOpen, IsClosed, Ready
  <2>2. ChannelType'
    BY SMTT(20), <1>2, EventForms, EventQueue DEF HandleStateChange, DataChannelState, DataChannelStateThen, IsOpen, IsClosed, Take, NotifyClosed
  <2>3. EndType'
    <3>1. reason' \in DisconnectReason \cup {NoReason}
      BY <1>2 DEF HandleStateChange, DataChannelState, DataChannelStateThen, DisconnectReason, SetReason
    <3>2. userDisc' = userDisc /\ serverClose' = serverClose
      BY <1>2 DEF HandleStateChange, DataChannelState, DataChannelStateThen
    <3>3. terminated' \in BOOLEAN
      BY <1>2 DEF HandleStateChange, DataChannelState, DataChannelStateThen, IsClosed
    <3> QED
      BY <3>1, <3>2, <3>3
  <2>4. closes' \in [Labels -> Nat]
    BY <1>2, NotifyTypes DEF HandleStateChange, DataChannelState, DataChannelStateThen
  <2>5. opens' \in [Labels -> Nat]
    <3>1. PICK l \in Labels : DataChannelStateThen(l, registered, "leaving")
      BY <1>2 DEF HandleStateChange, DataChannelState, TypeOK, ChannelType
    <3> QED
      BY SMTT(20), <3>1, CountedOpen DEF DataChannelStateThen
  <2>6. HistoryType'
    BY <1>2, <2>4, <2>5 DEF HandleStateChange
  <2> QED
    BY <2>1, <2>2, <2>3, <2>6
<1>3. CASE HandleMessage
  <2>1. FlowType' /\ WebSocketType' /\ SessionType' /\ HistoryType'
    BY <1>3 DEF HandleMessage, SendOnSignaling
  <2>2. ChannelType'
    BY <1>3, EventQueue DEF HandleMessage, Take
  <2>3. EndType'
    BY <1>3 DEF HandleMessage, DisconnectReason, WebSocketReason, NoReason, SetReason
  <2> QED
    BY <2>1, <2>2, <2>3
<1>4. CASE HandleCandidate
  BY <1>4 DEF HandleCandidate, Take, SendOnSignaling, SendText
<1>5. CASE HandlePcFailed
  BY <1>5 DEF HandlePcFailed, Take, DisconnectReason, WebSocketReason, NoReason, SetReason
<1>6. CASE HandleSendWebSocketMessage
  BY <1>6 DEF HandleSendWebSocketMessage, Take, SendText
<1> QED
  BY <1>1, <1>2, <1>3, <1>4, <1>5, <1>6 DEF HandleEvent

\* Handling what the WebSocket has decoded keeps the types.
LEMMA PollTypes ==
  ASSUME ConnectionAssumption, TypeOK, Poll PROVE TypeOK'
<1> USE DEF TypeOK, FlowType, WebSocketType, SessionType, ChannelType, EndType,
            HistoryType, flowVars, wsVars, sigVars, chanVars, dcVars, endVars,
            callVars, Proceed, Break, Fail
<1>1. CASE PollNone
  BY <1>1 DEF PollNone
<1>2. CASE PollConnected
  BY <1>2 DEF PollConnected, Polled, SendText
<1>3. CASE PollOffer
  BY <1>3 DEF PollOffer, Polled, ConnectionAssumption
<1>4. CASE OfferDone
  <2>1. FlowType' /\ WebSocketType' /\ SessionType' /\ EndType' /\ HistoryType'
    BY <1>4 DEF OfferDone, SendText
  <2>2. granted' \in [Sessions -> SUBSET Labels]
    BY <1>4 DEF OfferDone
  <2> QED
    BY <1>4, <2>1, <2>2 DEF OfferDone
<1>5. CASE OfferFails
  BY <1>5 DEF OfferFails
<1>6. CASE PollSwitched
  BY <1>6 DEF PollSwitched, PollSwitchedWhen, Polled, Ready
<1>7. CASE PollPing
  <2>1. FlowType' /\ WebSocketType' /\ SessionType' /\ EndType' /\ HistoryType'
    BY <1>7 DEF PollPing, PollPingPosting, Polled
  <2>2. ChannelType'
    BY <1>7, EventForms, EventQueue DEF PollPing, PollPingPosting
  <2> QED
    BY <2>1, <2>2
<1>8. CASE PollRedirect
  BY <1>8 DEF PollRedirect, Polled
<1>9. CASE PollCloseText
  BY <1>9 DEF PollCloseText, Polled, DisconnectReason, WebSocketReason, NoReason, SetReason
<1>10. CASE PollCloseFrame
  BY <1>10 DEF PollCloseFrame, Polled
<1> QED
  BY <1>1, <1>2, <1>3, <1>4, <1>5, <1>6, <1>7, <1>8, <1>9, <1>10 DEF Poll

\* Following a redirect keeps the types.
LEMMA RedirectTypes ==
  ASSUME ConnectionAssumption, TypeOK, Redirect \/ Reconnect \/ ReconnectFails PROVE TypeOK'
<1> USE DEF TypeOK, FlowType, WebSocketType, SessionType, ChannelType, EndType,
            HistoryType, flowVars, wsVars, sigVars, chanVars, dcVars, endVars,
            callVars, Proceed, Break, Fail
<1>1. CASE Redirect
  <2>1. opened' \in SUBSET Labels /\ closes' \in [Labels -> Nat]
    BY <1>1, NotifyTypes DEF Redirect
  <2>2. FlowType' /\ WebSocketType' /\ SessionType'
    BY <1>1 DEF Redirect
  <2>3. ChannelType'
    BY <1>1, <2>1 DEF Redirect
  <2>4. EndType'
    BY <1>1 DEF Redirect, SetReason, DisconnectReason
  <2>5. HistoryType'
    BY <1>1, <2>1 DEF Redirect
  <2> QED
    BY <2>2, <2>3, <2>4, <2>5
<1>2. CASE Reconnect
  <2>1. FlowType' /\ ChannelType' /\ HistoryType'
    BY <1>2 DEF Reconnect
  <2>2. WebSocketType'
    <3>1. net' \in Seq(Frame) /\ wsEvents' \in Seq(Frame)
      BY <1>2 DEF Reconnect
    <3>2. wsClosed' \in BOOLEAN /\ UNCHANGED <<closeFrame, delay>>
      BY <1>2 DEF Reconnect
    <3> QED
      BY <1>2, <3>1, <3>2 DEF Reconnect
  <2>3. SessionType'
    BY <1>2, SessionNumbers DEF Reconnect
  <2>4. EndType'
    BY <1>2 DEF Reconnect, DisconnectReason, WebSocketReason, NoReason, SetReason
  <2> QED
    BY <2>1, <2>2, <2>3, <2>4
<1>3. CASE ReconnectFails
  BY <1>3 DEF ReconnectFails
<1> QED
  BY <1>1, <1>2, <1>3

\* Flushing and leaving the loop keep the types.
LEMMA FlushTypes ==
  ASSUME ConnectionAssumption, TypeOK, FlushDone \/ FlushFails \/ Finish PROVE TypeOK'
<1> USE DEF TypeOK, FlowType, WebSocketType, SessionType, ChannelType, EndType,
            HistoryType, flowVars, wsVars, sigVars, chanVars, dcVars, endVars,
            callVars, Proceed, Break, Fail
<1>1. CASE FlushDone
  <2>1. FlowType' /\ SessionType' /\ ChannelType'
    BY <1>1 DEF FlushDone
  <2>2. WebSocketType' /\ HistoryType'
    BY <1>1 DEF FlushDone, StateAfterSwitch
  <2>3. EndType'
    BY <1>1 DEF FlushDone, CloseReason, DisconnectReason, WebSocketReason, NoReason, SetReason
  <2> QED
    BY <2>1, <2>2, <2>3
<1>2. CASE FlushFails
  <2>1. FlowType' /\ SessionType' /\ ChannelType' /\ EndType'
    BY <1>2 DEF FlushFails
  <2>2. WebSocketType' /\ HistoryType'
    BY <1>2 DEF FlushFails, StateAfterSwitch
  <2> QED
    BY <2>1, <2>2
<1>3. CASE LeaveLoop
  BY SMTT(20), <1>3 DEF LeaveLoop, Acknowledged, NotifyClosed
<1>4. CASE CloseWait
  BY SMTT(20), <1>4 DEF CloseWait, NotifyClosed
<1>5. CASE CloseWaitTimeout
  BY <1>5 DEF CloseWaitTimeout, CloseWaitTimeoutIf, NotifyClosed
<1>6. CASE CloseHandshake
  BY SMTT(20), <1>6 DEF CloseHandshake, CloseHandshakeIn, ReturnOk
<1> QED
  BY <1>1, <1>2, <1>3, <1>4, <1>5, <1>6 DEF Finish
-----------------------------------------------------------------------------
(* Types of every step.                                                    *)

LEMMA NextTypes == ConnectionAssumption /\ TypeOK /\ [Next]_vars => TypeOK'
<1> SUFFICES ASSUME ConnectionAssumption, TypeOK, [Next]_vars PROVE TypeOK'
  OBVIOUS
<1>1. CASE Environment
  BY <1>1, EnvironmentTypes
<1>2. CASE Run
  BY <1>2, SelectTypes, EventTypes, PollTypes, RedirectTypes, FlushTypes
     DEF Run, SelectBranch
<1>3. CASE UNCHANGED vars
  BY <1>3 DEF vars, TypeOK, FlowType, WebSocketType, SessionType, ChannelType,
     EndType, HistoryType, flowVars, wsVars, sigVars, chanVars, dcVars, endVars,
     callVars
<1> QED
  BY <1>1, <1>2, <1>3 DEF Next

\* Every variable keeps its type, whatever the numbers of labels, clients, sessions
\* and queued events: no step of run() leaves the values the code can hold.
THEOREM TypeCorrect == Spec => []TypeOK
<1>1. Init => TypeOK
  BY InitTypes, ConnectionAssumption
<1>2. TypeOK /\ [Next]_vars => TypeOK'
  BY NextTypes, ConnectionAssumption
<1> QED
  BY <1>1, <1>2, PTL DEF Spec

-----------------------------------------------------------------------------
(* What a step does to what the application sees.                          *)

CauseMet == \/ reason' = reason
            \/ reason = NoReason /\ reason' \in DisconnectReason

\* No callback, run() goes on; a cause of the end may be met.
Uneventful == CauseMet /\ UNCHANGED <<opens, closes, opened, result>>

\* Open channels are reported closed.
ReportsClosed ==
  /\ \E S \in SUBSET opened : NotifyClosed(S)
  /\ CauseMet
  /\ UNCHANGED <<opens, result>>

\* A channel that is not open is reported open.
ReportsOpen ==
  /\ \E l \in Labels \ opened : /\ opened' = opened \cup {l}
                                /\ opens' = [opens EXCEPT ![l] = @ + 1]
  /\ UNCHANGED <<closes, reason, result>>

\* run() returns, Ok at the end of the closing handshake only.
RunReturns ==
  /\ result' \in {"ok", "err"}
  /\ result' = "ok" => control = "handshake"
  /\ control # "done"
  /\ UNCHANGED <<opens, closes, opened, reason>>

Effect == Uneventful \/ ReportsClosed \/ ReportsOpen \/ RunReturns

\* The environment is not seen by the application.
LEMMA EnvironmentEffect ==
  ASSUME TypeOK, Environment PROVE Effect
<1> USE DEF flowVars, wsVars, sigVars, chanVars, dcVars, endVars, callVars, Proceed,
            Break, Fail, Effect, CauseMet, Uneventful, RunReturns
<1>1. CASE RequestDisconnect \/ ServerSends \/ ChannelArrives \/ ChannelMoves
  BY <1>1 DEF RequestDisconnect, ServerSends, ChannelArrives, ChannelMoves
<1>2. CASE MessageArrives \/ MediaPathDies \/ DelayElapses
  BY <1>2 DEF MessageArrives, MediaPathDies, DelayElapses
<1> QED
  BY <1>1, <1>2 DEF Environment

\* What the branches of select! but its events do.
LEMMA SelectEffect ==
  ASSUME TypeOK, LoopTop \/ ReadFrames \/ ReadFails \/ ReadEof \/ HandleTimer \/ DelayEnds \/ HandleDisconnect PROVE Effect
<1> USE DEF flowVars, wsVars, sigVars, chanVars, dcVars, endVars, callVars, Proceed,
            Break, Fail, Effect, CauseMet, Uneventful, RunReturns
<1>1. CASE LoopTop \/ HandleTimer \/ DelayEnds
  BY <1>1 DEF LoopTop, HandleTimer, DelayEnds
<1>2. CASE ReadFrames
  BY <1>2 DEF ReadFrames, ReadFramesThen
<1>3. CASE ReadFails
  BY <1>3 DEF ReadFails
<1>4. CASE ReadEof
  BY <1>4 DEF ReadEof, ReadEofUnless, SetReason, DisconnectReason, WebSocketReason,
     NoReason
<1>5. CASE HandleDisconnect
  <2>1. CauseMet /\ UNCHANGED <<opens, result>>
    BY <1>5 DEF HandleDisconnect, SetReason, DisconnectReason
  <2>2. \/ UNCHANGED <<opened, closes>>
        \/ \E S \in SUBSET opened : NotifyClosed(S)
    BY <1>5 DEF HandleDisconnect
  <2> QED
    BY <2>1, <2>2 DEF ReportsClosed
<1> QED
  BY <1>1, <1>2, <1>3, <1>4, <1>5

\* What handling an event does.
LEMMA EventEffect ==
  ASSUME TypeOK, HandleEvent PROVE Effect
<1> USE DEF flowVars, wsVars, sigVars, chanVars, dcVars, endVars, callVars, Proceed,
            Break, Fail, Effect, CauseMet, Uneventful, RunReturns
<1>1. CASE HandleRegister
  <2>1. PICK l \in Labels, reg \in [Labels -> Sessions \cup {0}] :
         DataChannelStateThen(l, reg, "leaving")
    BY <1>1 DEF HandleRegister, DataChannelState, TypeOK, ChannelType
  <2>2. CASE IsOpen(reg, l) /\ l \notin opened
    BY <2>1, <2>2 DEF DataChannelStateThen, ReportsOpen
  <2>3. CASE IsClosed(reg, l) /\ l \in opened
    <3>1. \E S \in SUBSET opened : NotifyClosed(S)
      BY <2>1, <2>3 DEF DataChannelStateThen, IsOpen, IsClosed
    <3>2. CauseMet /\ UNCHANGED <<opens, result>>
      BY <2>1, <2>3 DEF DataChannelStateThen, IsOpen, IsClosed, SetReason,
         DisconnectReason
    <3> QED
      BY <3>1, <3>2 DEF ReportsClosed
  <2>4. CASE /\ ~(IsOpen(reg, l) /\ l \notin opened)
             /\ ~(IsClosed(reg, l) /\ l \in opened)
    BY <2>1, <2>4 DEF DataChannelStateThen
  <2> QED
    BY <2>2, <2>3, <2>4
<1>2. CASE HandleStateChange
  <2>1. PICK l \in Labels, reg \in [Labels -> Sessions \cup {0}] :
         DataChannelStateThen(l, reg, "leaving")
    BY <1>2 DEF HandleStateChange, DataChannelState, TypeOK, ChannelType
  <2>2. CASE IsOpen(reg, l) /\ l \notin opened
    BY <2>1, <2>2 DEF DataChannelStateThen, ReportsOpen
  <2>3. CASE IsClosed(reg, l) /\ l \in opened
    <3>1. \E S \in SUBSET opened : NotifyClosed(S)
      BY <2>1, <2>3 DEF DataChannelStateThen, IsOpen, IsClosed
    <3>2. CauseMet /\ UNCHANGED <<opens, result>>
      BY <2>1, <2>3 DEF DataChannelStateThen, IsOpen, IsClosed, SetReason,
         DisconnectReason
    <3> QED
      BY <3>1, <3>2 DEF ReportsClosed
  <2>4. CASE /\ ~(IsOpen(reg, l) /\ l \notin opened)
             /\ ~(IsClosed(reg, l) /\ l \in opened)
    BY <2>1, <2>4 DEF DataChannelStateThen
  <2> QED
    BY <2>2, <2>3, <2>4
<1>3. CASE HandleMessage
  BY <1>3 DEF HandleMessage, Take, SendOnSignaling, SetReason, DisconnectReason,
     WebSocketReason, NoReason
<1>4. CASE HandleCandidate
  BY <1>4 DEF HandleCandidate, Take, SendOnSignaling
<1>5. CASE HandlePcFailed
  BY <1>5 DEF HandlePcFailed, SetReason, DisconnectReason, WebSocketReason, NoReason
<1>6. CASE HandleSendWebSocketMessage
  BY <1>6 DEF HandleSendWebSocketMessage
<1> QED
  BY <1>1, <1>2, <1>3, <1>4, <1>5, <1>6 DEF HandleEvent

\* What handling a decoded frame does.
LEMMA PollEffect ==
  ASSUME TypeOK, Poll PROVE Effect
<1> USE DEF flowVars, wsVars, sigVars, chanVars, dcVars, endVars, callVars, Proceed,
            Break, Fail, Effect, CauseMet, Uneventful, RunReturns
<1>1. CASE PollNone
  BY <1>1 DEF PollNone
<1>2. CASE PollConnected \/ OfferDone
  BY <1>2 DEF PollConnected, OfferDone, Polled
<1>3. CASE PollOffer \/ OfferFails \/ PollRedirect
  BY <1>3 DEF PollOffer, OfferFails, PollRedirect
<1>4. CASE PollSwitched
  BY <1>4 DEF PollSwitched, PollSwitchedWhen
<1>5. CASE PollPing
  BY <1>5 DEF PollPing, PollPingPosting
<1>6. CASE PollCloseText
  BY <1>6 DEF PollCloseText, SetReason, DisconnectReason, WebSocketReason, NoReason
<1>7. CASE PollCloseFrame
  BY <1>7 DEF PollCloseFrame
<1> QED
  BY <1>1, <1>2, <1>3, <1>4, <1>5, <1>6, <1>7 DEF Poll

\* What following a redirect does.
LEMMA RedirectEffect ==
  ASSUME TypeOK, Redirect \/ Reconnect \/ ReconnectFails PROVE Effect
<1> USE DEF flowVars, wsVars, sigVars, chanVars, dcVars, endVars, callVars, Proceed,
            Break, Fail, Effect, CauseMet, Uneventful, RunReturns
<1>1. CASE Redirect
  <2>1. CauseMet /\ UNCHANGED <<opens, result>>
    BY <1>1 DEF Redirect, SetReason, DisconnectReason
  <2>2. \E S \in SUBSET opened : NotifyClosed(S)
    BY <1>1 DEF Redirect
  <2> QED
    BY <2>1, <2>2 DEF ReportsClosed
<1>2. CASE Reconnect
  BY <1>2 DEF Reconnect, SetReason, DisconnectReason, WebSocketReason, NoReason
<1>3. CASE ReconnectFails
  BY <1>3 DEF ReconnectFails
<1> QED
  BY <1>1, <1>2, <1>3

\* What flushing and leaving the loop do.
LEMMA FinishEffect ==
  ASSUME TypeOK, FlushDone \/ FlushFails \/ Finish PROVE Effect
<1> USE DEF flowVars, wsVars, sigVars, chanVars, dcVars, endVars, callVars, Proceed,
            Break, Fail, Effect, CauseMet, Uneventful, RunReturns
<1>1. CASE FlushDone
  BY <1>1 DEF FlushDone, CloseReason, SetReason, DisconnectReason, WebSocketReason,
     NoReason
<1>2. CASE FlushFails
  BY <1>2 DEF FlushFails
<1>3. CASE LeaveLoop
  <2>1. \/ UNCHANGED <<opened, closes>>
        \/ \E S \in SUBSET opened : NotifyClosed(S)
    BY <1>3 DEF LeaveLoop
  <2>2. CauseMet /\ UNCHANGED <<opens, result>>
    BY <1>3 DEF LeaveLoop
  <2> QED
    BY <2>1, <2>2 DEF ReportsClosed
<1>4. CASE CloseWait
  <2>1. \E S \in SUBSET opened : NotifyClosed(S)
    BY <1>4 DEF CloseWait
  <2>2. CauseMet /\ UNCHANGED <<opens, result>>
    BY <1>4 DEF CloseWait
  <2> QED
    BY <2>1, <2>2 DEF ReportsClosed
<1>5. CASE CloseWaitTimeout
  <2>1. \E S \in SUBSET opened : NotifyClosed(S)
    BY <1>5 DEF CloseWaitTimeout, CloseWaitTimeoutIf
  <2>2. CauseMet /\ UNCHANGED <<opens, result>>
    BY <1>5 DEF CloseWaitTimeout, CloseWaitTimeoutIf
  <2> QED
    BY <2>1, <2>2 DEF ReportsClosed
<1>6. CASE CloseHandshake
  BY <1>6 DEF CloseHandshake, CloseHandshakeIn, ReturnOk
<1> QED
  BY <1>1, <1>2, <1>3, <1>4, <1>5, <1>6 DEF Finish

LEMMA NextEffect == TypeOK /\ Next => Effect
  BY EnvironmentEffect, SelectEffect, EventEffect, PollEffect, RedirectEffect,
     FinishEffect DEF Next, Run, SelectBranch

-----------------------------------------------------------------------------
(* Where run() is, and what holds there.                                   *)

\* run() has a cause once it has left the loop, and no channel is open once it has
\* reached the closing handshake.
PhaseInv ==
  /\ result = "running" <=> control # "done"
  /\ control # "done" => failedAt = "nowhere"
  /\ control \in {"leaving", "closeWait", "handshake"} => reason # NoReason
  /\ control = "handshake" => opened = {}
  /\ control = "reconnect" => ~Ignoring

\* An orderly end begins by leaving the loop, whose errors can then no longer occur.
OrderlyInv ==
  /\ InLoop => ~serverClose /\ ~userDisc
  /\ \A c \in Clients : disconnects[c] = "acked" => userDisc
  /\ serverClose \/ userDisc => result # "err"

LEMMA InitInv == Init => PhaseInv /\ OrderlyInv
  BY DEF Init, PhaseInv, OrderlyInv, InLoop, Ignoring

\* The phase after a step.
LEMMA EnvironmentPhase ==
  ASSUME TypeOK, PhaseInv, Environment PROVE PhaseInv'
<1> USE DEF flowVars, wsVars, sigVars, chanVars, dcVars, endVars, callVars, Proceed,
            Break, Fail, PhaseInv, Ignoring
<1>1. CASE RequestDisconnect \/ ServerSends \/ ChannelArrives \/ ChannelMoves
  BY <1>1 DEF RequestDisconnect, ServerSends, ChannelArrives, ChannelMoves, Awaiting
<1>2. CASE MessageArrives \/ MediaPathDies \/ DelayElapses
  BY <1>2 DEF MessageArrives, MediaPathDies, DelayElapses
<1> QED
  BY <1>1, <1>2 DEF Environment

\* The phase after a step.
LEMMA SelectPhase ==
  ASSUME TypeOK, PhaseInv, LoopTop \/ ReadFrames \/ ReadFails \/ ReadEof \/ HandleTimer \/ DelayEnds \/ HandleDisconnect PROVE PhaseInv'
<1> USE DEF flowVars, wsVars, sigVars, chanVars, dcVars, endVars, callVars, Proceed,
            Break, Fail, PhaseInv, Ignoring
<1>1. CASE LoopTop \/ HandleTimer \/ DelayEnds
  BY <1>1 DEF LoopTop, HandleTimer, DelayEnds
<1>2. CASE ReadFrames
  BY <1>2 DEF ReadFrames, ReadFramesThen
<1>3. CASE ReadFails
  BY <1>3 DEF ReadFails
<1>4. CASE ReadEof
  BY <1>4 DEF ReadEof, ReadEofUnless, SetReason, NoReason
<1>5. CASE HandleDisconnect
  BY <1>5 DEF HandleDisconnect, SetReason, NoReason
<1> QED
  BY <1>1, <1>2, <1>3, <1>4, <1>5

\* The phase after a step.
LEMMA EventPhase ==
  ASSUME TypeOK, PhaseInv, HandleEvent PROVE PhaseInv'
<1> USE DEF flowVars, wsVars, sigVars, chanVars, dcVars, endVars, callVars, Proceed,
            Break, Fail, PhaseInv, Ignoring
<1>1. CASE HandleRegister
  BY <1>1 DEF HandleRegister, Take, DataChannelState, DataChannelStateThen,
     SetReason, NoReason
<1>2. CASE HandleStateChange
  BY <1>2 DEF HandleStateChange, Take, DataChannelState, DataChannelStateThen,
     SetReason, NoReason
<1>3. CASE HandleMessage
  BY <1>3 DEF HandleMessage, Take, SendOnSignaling, SetReason, NoReason
<1>4. CASE HandleCandidate
  BY <1>4 DEF HandleCandidate, Take, SendOnSignaling
<1>5. CASE HandlePcFailed
  BY <1>5 DEF HandlePcFailed, Take, SetReason, NoReason
<1>6. CASE HandleSendWebSocketMessage
  BY <1>6 DEF HandleSendWebSocketMessage, Take
<1> QED
  BY <1>1, <1>2, <1>3, <1>4, <1>5, <1>6 DEF HandleEvent

\* The phase after a step.
LEMMA PollPhase ==
  ASSUME TypeOK, PhaseInv, Poll PROVE PhaseInv'
<1> USE DEF flowVars, wsVars, sigVars, chanVars, dcVars, endVars, callVars, Proceed,
            Break, Fail, PhaseInv, Ignoring
<1>1. CASE PollNone
  BY <1>1 DEF PollNone
<1>2. CASE PollConnected
  BY <1>2 DEF PollConnected, Polled
<1>3. CASE PollOffer \/ PollRedirect
  BY <1>3 DEF PollOffer, PollRedirect, Polled
<1>4. CASE OfferDone \/ OfferFails
  BY <1>4 DEF OfferDone, OfferFails
<1>5. CASE PollSwitched
  BY <1>5 DEF PollSwitched, PollSwitchedWhen, Polled
<1>6. CASE PollPing
  BY <1>6 DEF PollPing, PollPingPosting, Polled
<1>7. CASE PollCloseText
  BY <1>7 DEF PollCloseText, Polled
<1>8. CASE PollCloseFrame
  BY <1>8 DEF PollCloseFrame, Polled
<1> QED
  BY <1>1, <1>2, <1>3, <1>4, <1>5, <1>6, <1>7, <1>8 DEF Poll

\* The phase after a step.
LEMMA RedirectPhase ==
  ASSUME TypeOK, PhaseInv, Redirect \/ Reconnect \/ ReconnectFails PROVE PhaseInv'
<1> USE DEF flowVars, wsVars, sigVars, chanVars, dcVars, endVars, callVars, Proceed,
            Break, Fail, PhaseInv, Ignoring
<1>1. CASE Redirect
  BY <1>1 DEF Redirect, SetReason, NoReason
<1>2. CASE Reconnect
  BY <1>2 DEF Reconnect, SetReason, NoReason
<1>3. CASE ReconnectFails
  BY <1>3 DEF ReconnectFails
<1> QED
  BY <1>1, <1>2, <1>3

\* The phase after a step.
LEMMA FinishPhase ==
  ASSUME TypeOK, PhaseInv, FlushDone \/ FlushFails \/ Finish PROVE PhaseInv'
<1> USE DEF flowVars, wsVars, sigVars, chanVars, dcVars, endVars, callVars, Proceed,
            Break, Fail, PhaseInv, Ignoring
<1>1. CASE FlushDone
  BY <1>1 DEF FlushDone, CloseReason, SetReason, NoReason
<1>2. CASE FlushFails
  BY <1>2 DEF FlushFails
<1>3. CASE LeaveLoop
  BY <1>3 DEF LeaveLoop, NotifyClosed, Acknowledged
<1>4. CASE CloseWait
  BY <1>4 DEF CloseWait, NotifyClosed
<1>5. CASE CloseWaitTimeout
  BY <1>5 DEF CloseWaitTimeout, CloseWaitTimeoutIf, NotifyClosed
<1>6. CASE CloseHandshake
  BY <1>6 DEF CloseHandshake, CloseHandshakeIn, ReturnOk, Absorbs
<1> QED
  BY <1>1, <1>2, <1>3, <1>4, <1>5, <1>6 DEF Finish

\* An orderly end after a step.
LEMMA EnvironmentOrderly ==
  ASSUME TypeOK, PhaseInv, OrderlyInv, Environment PROVE OrderlyInv'
<1> USE DEF flowVars, wsVars, sigVars, chanVars, dcVars, endVars, callVars, Proceed,
            Break, Fail, OrderlyInv, InLoop
<1>1. CASE RequestDisconnect
  <2>1. \A c \in Clients : disconnects'[c] = "acked" => disconnects[c] = "acked"
    BY <1>1 DEF RequestDisconnect, TypeOK, FlowType
  <2>2. UNCHANGED <<control, result, userDisc, serverClose>>
    BY <1>1 DEF RequestDisconnect
  <2> QED
    BY <2>1, <2>2
<1>3. CASE ServerSends \/ ChannelArrives \/ ChannelMoves
  BY <1>3 DEF ServerSends, ChannelArrives, ChannelMoves
<1>2. CASE MessageArrives \/ MediaPathDies \/ DelayElapses
  BY <1>2 DEF MessageArrives, MediaPathDies, DelayElapses
<1> QED
  BY <1>1, <1>2, <1>3 DEF Environment

\* An orderly end after a step.
LEMMA SelectOrderly ==
  ASSUME TypeOK, PhaseInv, OrderlyInv, LoopTop \/ ReadFrames \/ ReadFails \/ ReadEof \/ HandleTimer \/ DelayEnds \/ HandleDisconnect PROVE OrderlyInv'
<1> USE DEF flowVars, wsVars, sigVars, chanVars, dcVars, endVars, callVars, Proceed,
            Break, Fail, OrderlyInv, InLoop
<1>1. CASE LoopTop \/ HandleTimer \/ DelayEnds
  BY <1>1 DEF LoopTop, HandleTimer, DelayEnds
<1>2. CASE ReadFrames
  BY <1>2 DEF ReadFrames, ReadFramesThen
<1>3. CASE ReadFails
  BY <1>3 DEF ReadFails
<1>4. CASE ReadEof
  BY <1>4 DEF ReadEof, ReadEofUnless, SetReason, NoReason
<1>5. CASE HandleDisconnect
  <2>1. result' = "running" /\ control' = "leaving"
    BY <1>5 DEF HandleDisconnect, PhaseInv
  <2>2. userDisc'
    BY <1>5 DEF HandleDisconnect
  <2> QED
    BY <2>1, <2>2
<1> QED
  BY <1>1, <1>2, <1>3, <1>4, <1>5

\* An orderly end after a step.
LEMMA EventOrderly ==
  ASSUME TypeOK, PhaseInv, OrderlyInv, HandleEvent PROVE OrderlyInv'
<1> USE DEF flowVars, wsVars, sigVars, chanVars, dcVars, endVars, callVars, Proceed,
            Break, Fail, OrderlyInv, InLoop
<1>1. CASE HandleRegister
  BY <1>1 DEF HandleRegister, Take, DataChannelState, DataChannelStateThen,
     SetReason, NoReason
<1>2. CASE HandleStateChange
  BY <1>2 DEF HandleStateChange, Take, DataChannelState, DataChannelStateThen,
     SetReason, NoReason
<1>3. CASE HandleMessage
  <2>1. result = "running" /\ ~serverClose /\ ~userDisc
    BY <1>3 DEF HandleMessage, Take, PhaseInv
  <2>2. CASE Take(Message("close")) /\ serverClose' = TRUE /\ Proceed("leaving")
    BY <1>3, <2>1, <2>2 DEF HandleMessage
  <2>3. CASE UNCHANGED serverClose
    <3>1. \A c \in Clients : disconnects'[c] = "acked" => disconnects[c] = "acked"
      BY <1>3, <2>3 DEF HandleMessage, SendOnSignaling
    <3>2. UNCHANGED userDisc
      BY <1>3 DEF HandleMessage
    <3> QED
      BY <2>1, <2>3, <3>1, <3>2
  <2> QED
    BY <1>3, <2>2, <2>3 DEF HandleMessage
<1>4. CASE HandleCandidate
  BY <1>4 DEF HandleCandidate, Take, SendOnSignaling
<1>5. CASE HandlePcFailed
  BY <1>5 DEF HandlePcFailed, Take, SetReason, NoReason
<1>6. CASE HandleSendWebSocketMessage
  BY <1>6 DEF HandleSendWebSocketMessage, Take
<1> QED
  BY <1>1, <1>2, <1>3, <1>4, <1>5, <1>6 DEF HandleEvent

\* An orderly end after a step.
LEMMA PollOrderly ==
  ASSUME TypeOK, PhaseInv, OrderlyInv, Poll PROVE OrderlyInv'
<1> USE DEF flowVars, wsVars, sigVars, chanVars, dcVars, endVars, callVars, Proceed,
            Break, Fail, OrderlyInv, InLoop
<1>1. CASE PollNone
  BY <1>1 DEF PollNone
<1>2. CASE PollConnected
  BY <1>2 DEF PollConnected, Polled
<1>3. CASE PollOffer \/ PollRedirect
  BY <1>3 DEF PollOffer, PollRedirect, Polled
<1>4. CASE OfferDone \/ OfferFails
  BY <1>4 DEF OfferDone, OfferFails
<1>5. CASE PollSwitched
  BY <1>5 DEF PollSwitched, PollSwitchedWhen, Polled
<1>6. CASE PollPing
  BY <1>6 DEF PollPing, PollPingPosting, Polled
<1>7. CASE PollCloseText
  BY <1>7 DEF PollCloseText, Polled
<1>8. CASE PollCloseFrame
  BY <1>8 DEF PollCloseFrame, Polled
<1> QED
  BY <1>1, <1>2, <1>3, <1>4, <1>5, <1>6, <1>7, <1>8 DEF Poll

\* An orderly end after a step.
LEMMA RedirectOrderly ==
  ASSUME TypeOK, PhaseInv, OrderlyInv, Redirect \/ Reconnect \/ ReconnectFails PROVE OrderlyInv'
<1> USE DEF flowVars, wsVars, sigVars, chanVars, dcVars, endVars, callVars, Proceed,
            Break, Fail, OrderlyInv, InLoop
<1>1. CASE Redirect
  BY <1>1 DEF Redirect, SetReason, NoReason
<1>2. CASE Reconnect
  BY <1>2 DEF Reconnect, SetReason, NoReason
<1>3. CASE ReconnectFails
  BY <1>3 DEF ReconnectFails
<1> QED
  BY <1>1, <1>2, <1>3

\* An orderly end after a step.
LEMMA FinishOrderly ==
  ASSUME TypeOK, PhaseInv, OrderlyInv, FlushDone \/ FlushFails \/ Finish PROVE OrderlyInv'
<1> USE DEF flowVars, wsVars, sigVars, chanVars, dcVars, endVars, callVars, Proceed,
            Break, Fail, OrderlyInv, InLoop
<1>1. CASE FlushDone
  BY <1>1 DEF FlushDone, CloseReason, SetReason, NoReason
<1>2. CASE FlushFails
  BY <1>2 DEF FlushFails
<1>3. CASE LeaveLoop
  <2>1. result' = "running" /\ ~InLoop'
    BY <1>3 DEF LeaveLoop, PhaseInv
  <2>2. \A c \in Clients : disconnects'[c] = "acked" =>
          disconnects[c] = "acked" \/ disconnects[c] = "queued"
    BY <1>3 DEF LeaveLoop, Acknowledged
  <2>3. userDisc' = (userDisc \/ \E c \in Clients : disconnects[c] = "queued")
    BY <1>3 DEF LeaveLoop
  <2>4. \A c \in Clients : disconnects'[c] = "acked" => userDisc'
    BY <2>2, <2>3, Zenon
  <2> QED
    BY <2>1, <2>4
<1>4. CASE CloseWait
  BY <1>4 DEF CloseWait, NotifyClosed
<1>5. CASE CloseWaitTimeout
  BY <1>5 DEF CloseWaitTimeout, CloseWaitTimeoutIf, NotifyClosed
<1>6. CASE CloseHandshake
  BY <1>6 DEF CloseHandshake, CloseHandshakeIn, ReturnOk, Absorbs
<1> QED
  BY <1>1, <1>2, <1>3, <1>4, <1>5, <1>6 DEF Finish

-----------------------------------------------------------------------------
(* What survives the loss of the WebSocket.                                *)

\* A step of a run that has not returned; with the WebSocket ignored it neither
\* fails on it nor ends because of it.
Survives ==
  /\ control # "done"
  /\ Ignoring => /\ failedAt' \in {failedAt, "timer", "send", "dcSend", "offer"}
                 /\ reason' \in WebSocketReason => reason' = reason

\* What survives a step.
LEMMA EnvironmentSurvival ==
  ASSUME TypeOK, PhaseInv, Environment PROVE Survives
<1> USE DEF flowVars, wsVars, sigVars, chanVars, dcVars, endVars, callVars, Proceed,
            Break, Fail, Survives
<1>1. CASE RequestDisconnect \/ ServerSends \/ ChannelArrives \/ ChannelMoves
  BY <1>1 DEF RequestDisconnect, ServerSends, ChannelArrives, ChannelMoves, Awaiting
<1>2. CASE MessageArrives \/ MediaPathDies \/ DelayElapses
  BY <1>2 DEF MessageArrives, MediaPathDies, DelayElapses, Awaiting
<1> QED
  BY <1>1, <1>2 DEF Environment

\* What survives a step.
LEMMA SelectSurvival ==
  ASSUME TypeOK, PhaseInv, LoopTop \/ ReadFrames \/ ReadFails \/ ReadEof \/ HandleTimer \/ DelayEnds \/ HandleDisconnect PROVE Survives
<1> USE DEF flowVars, wsVars, sigVars, chanVars, dcVars, endVars, callVars, Proceed,
            Break, Fail, Survives
<1>1. CASE LoopTop \/ HandleTimer \/ DelayEnds
  BY <1>1 DEF LoopTop, HandleTimer, DelayEnds
<1>2. CASE ReadFrames
  BY <1>2 DEF ReadFrames, ReadFramesThen
<1>3. CASE ReadFails
  BY <1>3 DEF ReadFails
<1>4. CASE ReadEof
  BY <1>4 DEF ReadEof, ReadEofUnless, SetReason, NoReason, WebSocketReason
<1>5. CASE HandleDisconnect
  BY <1>5 DEF HandleDisconnect, SetReason, NoReason, WebSocketReason
<1> QED
  BY <1>1, <1>2, <1>3, <1>4, <1>5

\* What survives a step.
LEMMA EventSurvival ==
  ASSUME TypeOK, PhaseInv, HandleEvent PROVE Survives
<1> USE DEF flowVars, wsVars, sigVars, chanVars, dcVars, endVars, callVars, Proceed,
            Break, Fail, Survives
<1>1. CASE HandleRegister
  BY <1>1 DEF HandleRegister, Take, DataChannelState, DataChannelStateThen,
     SetReason, NoReason, WebSocketReason
<1>2. CASE HandleStateChange
  BY <1>2 DEF HandleStateChange, Take, DataChannelState, DataChannelStateThen,
     SetReason, NoReason, WebSocketReason
<1>3. CASE HandleMessage
  BY <1>3 DEF HandleMessage, Take, SendOnSignaling, SetReason, NoReason,
     WebSocketReason
<1>4. CASE HandleCandidate
  BY <1>4 DEF HandleCandidate, Take, SendOnSignaling
<1>5. CASE HandlePcFailed
  BY <1>5 DEF HandlePcFailed, Take, SetReason, NoReason, WebSocketReason
<1>6. CASE HandleSendWebSocketMessage
  BY <1>6 DEF HandleSendWebSocketMessage, Take
<1> QED
  BY <1>1, <1>2, <1>3, <1>4, <1>5, <1>6 DEF HandleEvent

\* What survives a step.
LEMMA PollSurvival ==
  ASSUME TypeOK, PhaseInv, Poll PROVE Survives
<1> USE DEF flowVars, wsVars, sigVars, chanVars, dcVars, endVars, callVars, Proceed,
            Break, Fail, Survives
<1>1. CASE PollNone
  BY <1>1 DEF PollNone
<1>2. CASE PollConnected
  BY <1>2 DEF PollConnected, Polled
<1>3. CASE PollOffer \/ PollRedirect
  BY <1>3 DEF PollOffer, PollRedirect, Polled
<1>4. CASE OfferDone \/ OfferFails
  BY <1>4 DEF OfferDone, OfferFails
<1>5. CASE PollSwitched
  BY <1>5 DEF PollSwitched, PollSwitchedWhen, Polled
<1>6. CASE PollPing
  BY <1>6 DEF PollPing, PollPingPosting, Polled
<1>7. CASE PollCloseText
  BY <1>7 DEF PollCloseText, Polled, SetReason, NoReason, WebSocketReason
<1>8. CASE PollCloseFrame
  BY <1>8 DEF PollCloseFrame, Polled
<1> QED
  BY <1>1, <1>2, <1>3, <1>4, <1>5, <1>6, <1>7, <1>8 DEF Poll

\* What survives a step.
LEMMA RedirectSurvival ==
  ASSUME TypeOK, PhaseInv, Redirect \/ Reconnect \/ ReconnectFails PROVE Survives
<1> USE DEF flowVars, wsVars, sigVars, chanVars, dcVars, endVars, callVars, Proceed,
            Break, Fail, Survives
<1>1. CASE Redirect
  BY <1>1 DEF Redirect, PhaseInv, SetReason, NoReason, WebSocketReason
<1>2. CASE Reconnect
  BY <1>2 DEF Reconnect, PhaseInv, SetReason, NoReason, WebSocketReason
<1>3. CASE ReconnectFails
  BY <1>3 DEF ReconnectFails, PhaseInv
<1> QED
  BY <1>1, <1>2, <1>3

\* What survives a step.
LEMMA FinishSurvival ==
  ASSUME TypeOK, PhaseInv, FlushDone \/ FlushFails \/ Finish PROVE Survives
<1> USE DEF flowVars, wsVars, sigVars, chanVars, dcVars, endVars, callVars, Proceed,
            Break, Fail, Survives
<1>1. CASE FlushDone
  BY <1>1 DEF FlushDone, CloseReason, SetReason, NoReason, WebSocketReason
<1>2. CASE FlushFails
  BY <1>2 DEF FlushFails
<1>3. CASE LeaveLoop
  BY <1>3 DEF LeaveLoop, Acknowledged
<1>4. CASE CloseWait
  BY <1>4 DEF CloseWait
<1>5. CASE CloseWaitTimeout
  BY <1>5 DEF CloseWaitTimeout, CloseWaitTimeoutIf
<1>6. CASE CloseHandshake
  BY <1>6 DEF CloseHandshake, CloseHandshakeIn, ReturnOk, Absorbs
<1> QED
  BY <1>1, <1>2, <1>3, <1>4, <1>5, <1>6 DEF Finish

LEMMA NextSurvival == TypeOK /\ PhaseInv /\ Next => Survives
  BY EnvironmentSurvival, SelectSurvival, EventSurvival, PollSurvival,
     RedirectSurvival, FinishSurvival DEF Next, Run, SelectBranch
-----------------------------------------------------------------------------
(* Theorems.                                                               *)

\* A channel is in opened_data_channels exactly between its two callbacks.
CallbacksPaired ==
  \A l \in Labels : IF l \in opened THEN opens[l] = closes[l] + 1
                                    ELSE opens[l] = closes[l]

LEMMA PhasesHold == TypeOK /\ PhaseInv /\ [Next]_vars => PhaseInv'
<1> SUFFICES ASSUME TypeOK, PhaseInv, [Next]_vars PROVE PhaseInv'
  OBVIOUS
<1>1. CASE Next
  BY <1>1, EnvironmentPhase, SelectPhase, EventPhase, PollPhase, RedirectPhase,
     FinishPhase DEF Next, Run, SelectBranch
<1>2. CASE UNCHANGED vars
  BY <1>2 DEF vars, flowVars, sigVars, dcVars, endVars, PhaseInv, Ignoring
<1> QED
  BY <1>1, <1>2

LEMMA OrderHolds == TypeOK /\ PhaseInv /\ OrderlyInv /\ [Next]_vars => OrderlyInv'
<1> SUFFICES ASSUME TypeOK, PhaseInv, OrderlyInv, [Next]_vars PROVE OrderlyInv'
  OBVIOUS
<1>1. CASE Next
  BY <1>1, EnvironmentOrderly, SelectOrderly, EventOrderly, PollOrderly,
     RedirectOrderly, FinishOrderly DEF Next, Run, SelectBranch
<1>2. CASE UNCHANGED vars
  BY <1>2 DEF vars, flowVars, endVars, OrderlyInv, InLoop
<1> QED
  BY <1>1, <1>2

\* Whatever kind of step is taken, the callbacks stay paired.
LEMMA PairsHold == TypeOK /\ CallbacksPaired /\ [Next]_vars => CallbacksPaired'
<1> SUFFICES ASSUME TypeOK, CallbacksPaired, [Next]_vars PROVE CallbacksPaired'
  OBVIOUS
<1> USE DEF TypeOK, ChannelType, HistoryType
<1>1. CASE UNCHANGED <<opens, closes, opened>>
  BY <1>1 DEF CallbacksPaired
<1>2. CASE ReportsClosed
  <2>1. PICK S \in SUBSET opened : NotifyClosed(S)
    BY <1>2 DEF ReportsClosed
  <2>2. opens' = opens
    BY <1>2 DEF ReportsClosed
  <2> QED
    BY <2>1, <2>2 DEF CallbacksPaired, NotifyClosed
<1>3. CASE ReportsOpen
  <2>1. PICK m \in Labels \ opened : /\ opened' = opened \cup {m}
                                     /\ opens' = [opens EXCEPT ![m] = @ + 1]
    BY <1>3 DEF ReportsOpen
  <2>2. closes' = closes
    BY <1>3 DEF ReportsOpen
  <2> QED
    BY <2>1, <2>2 DEF CallbacksPaired
<1> QED
  BY <1>1, <1>2, <1>3, NextEffect DEF Effect, Uneventful, RunReturns, vars, dcVars,
     callVars

\* The inductive invariant.
Inv == TypeOK /\ PhaseInv /\ OrderlyInv /\ CallbacksPaired

LEMMA InvariantHolds == Spec => []Inv
<1>1. Init => Inv
  BY InitTypes, InitInv, ConnectionAssumption DEF Init, Inv, CallbacksPaired
<1>2. Inv /\ [Next]_vars => Inv'
  BY NextTypes, PhasesHold, OrderHolds, PairsHold, ConnectionAssumption DEF Inv
<1> QED
  BY <1>1, <1>2, PTL DEF Spec

\* Whatever fails on the way out, an acknowledged disconnect and a server's close
\* end in Ok: run() has left the loop by then, and the closing handshake absorbs.
THEOREM OrderlyEnd == Spec => []OrderlyEndNeverFails
<1>1. Inv => OrderlyEndNeverFails
  BY DEF Inv, OrderlyInv, OrderlyEndNeverFails
<1> QED
  BY <1>1, InvariantHolds, PTL

\* Once the WebSocket is ignored its loss neither fails run() nor becomes its result.
THEOREM SwitchSurvives == Spec => SwitchedSurvivesWebSocketLoss
<1> DEFINE Lost == Ignoring => /\ failedAt' \notin {"read", "flush", "handshake"}
                               /\ reason' \in WebSocketReason => reason = reason'
<1>1. Inv /\ [Next]_vars => [Lost]_vars
  <2> SUFFICES ASSUME Inv, Next PROVE Lost
    OBVIOUS
  <2>1. Survives
    BY NextSurvival DEF Inv
  <2>2. failedAt = "nowhere"
    BY <2>1 DEF Inv, PhaseInv, Survives
  <2> QED
    BY <2>1, <2>2 DEF Survives
<1> QED
  BY <1>1, InvariantHolds, PTL DEF Spec, SwitchedSurvivesWebSocketLoss

-----------------------------------------------------------------------------
(* SoraConnection implements ConnectionContract.                           *)

\* A cause that is met, or not, is a cause of the contract met, or not.
LEMMA CauseRefined ==
  ASSUME TypeOK, CauseMet
  PROVE  \/ ObservedCause' = ObservedCause
         \/ ObservedCause = {} /\ \E r \in DisconnectReason : ObservedCause' = {r}
  BY DEF CauseMet, ObservedCause, TypeOK, EndType, DisconnectReason, WebSocketReason,
     NoReason

LEMMA EffectRefined ==
  ASSUME Inv, Effect, control # "done"
  PROVE  Contract!Next \/ UNCHANGED Contract!vars
<1> USE DEF TypeOK, ChannelType, HistoryType
<1>1. TypeOK /\ result = "running"
  BY DEF Inv, PhaseInv
<1>2. CASE Uneventful
  <2>1. Contract!Closes({})
    BY <1>1, <1>2, CauseRefined DEF Uneventful, Contract!Closes
  <2> QED
    BY <1>1, <1>2, <2>1 DEF Contract!Next, Uneventful
<1>3. CASE ReportsClosed
  <2>1. PICK S \in SUBSET opened : NotifyClosed(S)
    BY <1>3 DEF ReportsClosed
  <2>2. S \in SUBSET Labels /\ \A l \in S : opens[l] = closes[l] + 1
    BY <1>1, <2>1 DEF Inv, CallbacksPaired
  <2>3. Contract!Closes(S)
    BY <1>1, <1>3, <2>1, <2>2, CauseRefined
       DEF ReportsClosed, NotifyClosed, Contract!Closes
  <2> QED
    BY <1>1, <1>3, <2>2, <2>3 DEF Contract!Next, ReportsClosed
<1>4. CASE ReportsOpen
  <2>1. PICK l \in Labels \ opened : opens' = [opens EXCEPT ![l] = @ + 1]
    BY <1>4 DEF ReportsOpen
  <2>2. opens[l] = closes[l]
    BY <2>1 DEF Inv, CallbacksPaired
  <2>3. Contract!Opens(l)
    BY <1>4, <2>1, <2>2 DEF ReportsOpen, Contract!Opens, ObservedCause
  <2> QED
    BY <1>1, <1>4, <2>1, <2>3 DEF Contract!Next, ReportsOpen
<1>5. CASE RunReturns
  <2>1. result' = "ok" => opened = {} /\ reason # NoReason
    BY <1>5 DEF RunReturns, Inv, PhaseInv
  <2>2. opened = {} => opens = closes
    BY <1>1 DEF Inv, CallbacksPaired
  <2>3. Contract!Returns
    BY <1>5, <2>1, <2>2 DEF RunReturns, Contract!Returns, ObservedCause
  <2> QED
    BY <1>1, <2>3 DEF Contract!Next
<1> QED
  BY <1>2, <1>3, <1>4, <1>5 DEF Effect

\* The application's view of any behaviour of run() is one of the contract: paired
\* callbacks, the first cause kept, Ok only with a cause and everything closed.
THEOREM ConnectionImplementsContract == Spec => ImplementsContract
<1>1. Init => Contract!Init
  BY DEF Init, Contract!Init, ObservedCause, NoReason
<1>2. Inv /\ [Next]_vars => [Contract!Next]_(Contract!vars)
  <2> SUFFICES ASSUME Inv, [Next]_vars PROVE Contract!Next \/ UNCHANGED Contract!vars
    OBVIOUS
  <2>1. CASE Next
    <3>1. Effect /\ control # "done"
      BY <2>1, NextEffect, NextSurvival DEF Inv, Survives
    <3> QED
      BY <3>1, EffectRefined
  <2>2. CASE UNCHANGED vars
    BY <2>2 DEF vars, callVars, endVars, flowVars, Contract!vars, ObservedCause
  <2> QED
    BY <2>1, <2>2
<1> QED
  BY <1>1, <1>2, InvariantHolds, PTL DEF Spec, ImplementsContract, Contract!Spec

-----------------------------------------------------------------------------
(* The signaling sessions.                                                 *)

\* The frames that the server has sent and run() has not polled.
Pending == wsEvents \o net

Holds(q, K) == \E i \in DOMAIN q : q[i] \in K
Unique(q, K) == \A i, j \in DOMAIN q : q[i] \in K /\ q[j] \in K => i = j

OfferFrames == {"offer"}
SwitchFrames == {"switched", "switchedIgnore"}

-----------------------------------------------------------------------------
(* Queues of frames and of events.                                         *)

\* Nothing is in an empty queue.
LEMMA EmptyQueue ==
  ASSUME NEW K
  PROVE  ~Holds(<<>>, K) /\ Unique(<<>>, K)
  BY DEF Holds, Unique

\* One more element at the end.
LEMMA Appended ==
  ASSUME NEW S, NEW q \in Seq(S), NEW f \in S, NEW K
  PROVE  /\ Holds(Append(q, f), K) <=> Holds(q, K) \/ f \in K
         /\ Unique(q, K) /\ (f \in K => ~Holds(q, K)) => Unique(Append(q, f), K)
<1> DEFINE r == Append(q, f)
<1>1. /\ DOMAIN q = 1..Len(q)
      /\ DOMAIN r = 1..(Len(q) + 1)
      /\ Len(q) \in Nat
      /\ r[Len(q) + 1] = f
      /\ \A i \in 1..Len(q) : r[i] = q[i]
  OBVIOUS
<1> HIDE DEF r
<1>2. Holds(r, K) <=> Holds(q, K) \/ f \in K
  BY <1>1 DEF Holds
<1>3. ASSUME Unique(q, K), f \in K => ~Holds(q, K) PROVE Unique(r, K)
  BY <1>1, <1>3 DEF Holds, Unique
<1> QED
  BY <1>2, <1>3 DEF r

\* The first element is taken.
LEMMA Taken ==
  ASSUME NEW S, NEW q \in Seq(S), q # <<>>, NEW K
  PROVE  /\ Holds(Tail(q), K) => Holds(q, K)
         /\ Head(q) \in K => Holds(q, K)
         /\ Unique(q, K) => Unique(Tail(q), K)
         /\ Unique(q, K) /\ Head(q) \in K => ~Holds(Tail(q), K)
<1> DEFINE r == Tail(q)
<1>1. /\ DOMAIN q = 1..Len(q)
      /\ DOMAIN r = 1..(Len(q) - 1)
      /\ Len(q) \in Nat \ {0}
      /\ q[1] = Head(q)
      /\ \A i \in 1..(Len(q) - 1) : r[i] = q[i + 1]
  OBVIOUS
<1> HIDE DEF r
<1>2. Holds(r, K) => Holds(q, K)
  BY <1>1 DEF Holds
<1>3. Head(q) \in K => Holds(q, K)
  BY <1>1 DEF Holds
<1>4. Unique(q, K) => Unique(r, K)
  BY <1>1 DEF Unique
<1>5. Unique(q, K) /\ Head(q) \in K => ~Holds(r, K)
  BY <1>1 DEF Holds, Unique
<1> QED
  BY <1>2, <1>3, <1>4, <1>5 DEF r

\* A queue in two parts.
LEMMA FrameInParts ==
  ASSUME NEW p \in Seq(Frame), NEW q \in Seq(Frame), NEW K
  PROVE  Holds(p \o q, K) <=> Holds(p, K) \/ Holds(q, K)
<1> DEFINE r == p \o q
<1>1. /\ DOMAIN p = 1..Len(p) /\ DOMAIN q = 1..Len(q)
      /\ DOMAIN r = 1..(Len(p) + Len(q))
      /\ Len(p) \in Nat /\ Len(q) \in Nat
      /\ \A i \in 1..Len(p) : r[i] = p[i]
      /\ \A i \in 1..Len(q) : r[Len(p) + i] = q[i]
  OBVIOUS
<1> HIDE DEF r
<1>2. Holds(p, K) \/ Holds(q, K) => Holds(r, K)
  <2>1. Holds(p, K) => Holds(r, K)
    BY <1>1 DEF Holds
  <2>2. ASSUME NEW i \in DOMAIN q, q[i] \in K PROVE Holds(r, K)
    <3>1. Len(p) + i \in DOMAIN r /\ r[Len(p) + i] \in K
      BY <1>1, <2>2
    <3> QED
      BY <3>1 DEF Holds
  <2> QED
    BY <2>1, <2>2 DEF Holds
<1>3. ASSUME NEW i \in DOMAIN r, r[i] \in K PROVE Holds(p, K) \/ Holds(q, K)
  <2>1. CASE i <= Len(p)
    BY <1>1, <1>3, <2>1 DEF Holds
  <2>2. CASE ~(i <= Len(p))
    <3>1. i - Len(p) \in 1..Len(q) /\ r[Len(p) + (i - Len(p))] = q[i - Len(p)]
      BY <1>1, <2>2
    <3>2. Len(p) + (i - Len(p)) = i
      BY <1>1
    <3> QED
      BY <1>1, <1>3, <3>1, <3>2 DEF Holds
  <2> QED
    BY <2>1, <2>2
<1> QED
  BY <1>2, <1>3 DEF r, Holds

\* Two queues of frames in a row are one.
LEMMA FramesJoined ==
  ASSUME NEW p \in Seq(Frame), NEW a \in Seq(Frame), NEW b \in Seq(Frame)
  PROVE  (p \o a) \o b = p \o (a \o b)
<1> DEFINE x == (p \o a) \o b
           y == p \o (a \o b)
<1>1. /\ x \in Seq(Frame) /\ y \in Seq(Frame)
      /\ Len(x) = Len(p) + Len(a) + Len(b) /\ Len(y) = Len(x)
  OBVIOUS
<1>2. \A i \in 1..Len(x) : x[i] = y[i]
  <2> SUFFICES ASSUME NEW i \in 1..Len(x) PROVE x[i] = y[i]
    OBVIOUS
  <2>1. CASE i <= Len(p)
    BY <2>1
  <2>2. CASE i > Len(p) /\ i <= Len(p) + Len(a)
    BY <2>2
  <2>3. CASE i > Len(p) + Len(a)
    BY <1>1, <2>3
  <2> QED
    BY <1>1, <2>1, <2>2, <2>3
<1> HIDE DEF x, y
<1>3. x = y
  BY <1>1, <1>2, SeqEqual
<1> QED
  BY <1>3 DEF x, y

\* All of one frame is read, and nothing is left.
LEMMA OneFrame ==
  ASSUME NEW q \in Seq(Frame), Len(q) = 1
  PROVE  SubSeq(q, 1, 1) = q /\ SubSeq(q, 2, Len(q)) = <<>>
<1> DEFINE a == SubSeq(q, 1, 1)
           b == SubSeq(q, 2, 1)
<1>1. a \in Seq(Frame) /\ Len(a) = 1 /\ a[1] = q[1]
  OBVIOUS
<1>2. b \in Seq(Frame) /\ Len(b) = 0
  OBVIOUS
<1> HIDE DEF a, b
<1>3. a = q
  BY <1>1, SeqEqual
<1>4. b = <<>>
  BY <1>2
<1> QED
  BY <1>3, <1>4 DEF a, b

\* Frames that move from one part to the next leave the whole as it is.
LEMMA FramesMoved ==
  ASSUME NEW p \in Seq(Frame), NEW q \in Seq(Frame), NEW n \in 1..Len(q)
  PROVE  (p \o SubSeq(q, 1, n)) \o SubSeq(q, n + 1, Len(q)) = p \o q
<1> DEFINE a == SubSeq(q, 1, n)
           b == SubSeq(q, n + 1, Len(q))
<1>1. a \in Seq(Frame) /\ b \in Seq(Frame) /\ Len(a) = n /\ Len(b) = Len(q) - n
  OBVIOUS
<1>2. \A i \in 1..n : a[i] = q[i]
  OBVIOUS
<1>3. \A i \in 1..(Len(q) - n) : b[i] = q[n + i]
  OBVIOUS
<1>4. a \o b \in Seq(Frame) /\ Len(a \o b) = Len(q)
  BY <1>1
<1>5. \A i \in 1..Len(q) : (a \o b)[i] = q[i]
  BY <1>1, <1>2, <1>3
<1>6. a \o b = q
  BY <1>4, <1>5
<1>7. (p \o a) \o b = p \o (a \o b)
  BY <1>1, FramesJoined
<1> QED
  BY <1>6, <1>7

\* The frames to come are frames.
LEMMA PendingFrames == TypeOK => Pending \in Seq(Frame)
  BY DEF TypeOK, WebSocketType, Pending

\* Steps that neither move a frame nor begin a session.
\* The server sends a frame.
LEMMA FrameSent ==
  ASSUME TypeOK, ServerSends
  PROVE  \E f \in ServerFrames : /\ f \in Frame
                                 /\ Pending' = Append(Pending, f)
                                 /\ net' = Append(net, f)
                                 /\ server' = ServerAfter(f)
<1>1. PICK f \in ServerFrames : net' = Append(net, f) /\ server' = ServerAfter(f)
  BY DEF ServerSends
<1>2. f \in Frame
  BY DEF ServerFrames, Frame
<1>3. wsEvents' = wsEvents
  BY DEF ServerSends
<1>4. net \in Seq(Frame) /\ wsEvents \in Seq(Frame)
  BY DEF TypeOK, WebSocketType
<1>5. wsEvents \o Append(net, f) = Append(wsEvents \o net, f)
  BY <1>2, <1>4
<1> QED
  BY <1>1, <1>2, <1>3, <1>5 DEF Pending

\* Frames are read.
LEMMA FramesRead ==
  ASSUME TypeOK, ReadFrames
  PROVE  Pending' = Pending
<1>1. PICK n \in 1..Len(net) : /\ net' = SubSeq(net, n + 1, Len(net))
                               /\ wsEvents' = wsEvents \o SubSeq(net, 1, n)
  BY DEF ReadFrames, ReadFramesThen
<1>2. net \in Seq(Frame) /\ wsEvents \in Seq(Frame)
  BY DEF TypeOK, WebSocketType
<1> QED
  BY <1>1, <1>2, FramesMoved DEF Pending

\* A frame is polled.
LEMMA FramePolled ==
  ASSUME TypeOK, NEW f, Polled(f), wsEvents' = Tail(wsEvents), net' = net
  PROVE  Pending # <<>> /\ Head(Pending) = f /\ Pending' = Tail(Pending)
<1>1. net \in Seq(Frame) /\ wsEvents \in Seq(Frame) /\ wsEvents # <<>>
  BY DEF TypeOK, WebSocketType, Polled
<1>2. wsEvents \o net # <<>> /\ Head(wsEvents \o net) = Head(wsEvents)
  BY <1>1
<1>3. Tail(wsEvents) \o net = Tail(wsEvents \o net)
  BY <1>1
<1> QED
  BY <1>2, <1>3 DEF Polled, Pending

-----------------------------------------------------------------------------
(* `connect` comes first.                                                  *)

\* Nothing of the WebSocket has been read, and the server has sent its answer to the
\* Upgrade request or not even that.
Upgrading ==
  /\ firstText = "none" /\ wsState = "Connecting" /\ wsCloses = 0 /\ wsEvents = <<>>
  /\ \/ net = <<>> /\ server = "upgrading"
     \/ net = <<"upgrade">> /\ server = "silent"

\* The answer has been read, and polling it is next.
Upgraded ==
  /\ firstText = "none" /\ wsState = "Connected" /\ wsCloses = 0 /\ ~wsClosed
  /\ control = "poll" /\ wsEvents = <<"upgrade">> /\ net = <<>> /\ server = "silent"

\* `connect` has been sent.
Greeted ==
  firstText = "connect" /\ server # "upgrading" /\ ~Holds(Pending, {"upgrade"})

OpeningInv ==
  /\ firstText \in {"none", "connect"}
  /\ control # "done" => Upgrading \/ Upgraded \/ Greeted

\* run() starts with its Upgrade under way.
LEMMA InitOpening == Init => OpeningInv
  BY DEF Init, OpeningInv, Upgrading

\* The server, the client and the channels leave the opening of a session alone.
LEMMA EnvironmentOpening ==
  ASSUME TypeOK, OpeningInv, Environment PROVE OpeningInv'
<1> USE DEF OpeningInv, Upgrading, Upgraded, Greeted, Awaiting, flowVars, wsVars, sigVars,
            callVars
<1>1. CASE ServerSends
  <2>1. /\ UNCHANGED <<firstText, control, wsState, wsEvents, wsCloses>>
        /\ control # "poll" /\ control # "done"
    BY <1>1 DEF ServerSends
  <2>2. PICK f \in ServerFrames : /\ f \in Frame
                                  /\ Pending' = Append(Pending, f)
                                  /\ net' = Append(net, f)
                                  /\ server' = ServerAfter(f)
    BY <1>1, FrameSent
  <2>3. CASE Upgrading
    <3>1. server = "upgrading" /\ net = <<>>
      BY <2>2, <2>3 DEF ServerFrames
    <3>2. f = "upgrade" /\ net' = <<"upgrade">> /\ server' = "silent"
      BY <2>2, <3>1 DEF ServerFrames, ServerAfter
    <3> QED
      BY <2>1, <2>3, <3>2
  <2>4. CASE Greeted
    <3>1. f # "upgrade" /\ server' # "upgrading"
      BY <2>2, <2>4 DEF ServerFrames, ServerAfter
    <3>2. ~Holds(Pending', {"upgrade"})
      BY <2>2, <2>4, <3>1, PendingFrames, Appended
    <3> QED
      BY <2>1, <2>4, <3>1, <3>2
  <2> QED
    BY <2>1, <2>3, <2>4
<1>2. CASE Environment /\ ~ServerSends
  <2>1. UNCHANGED <<firstText, control, wsState, wsClosed, wsEvents, net, server, wsCloses>>
    BY <1>2 DEF Environment, RequestDisconnect, ChannelArrives, ChannelMoves, MessageArrives,
       MediaPathDies, DelayElapses
  <2> QED
    BY <2>1 DEF Pending
<1> QED
  BY <1>1, <1>2

\* So do the arms of select! that only choose what to do next.
LEMMA SelectOpening ==
  ASSUME TypeOK, OpeningInv,
         LoopTop \/ ReadFrames \/ ReadFails \/ ReadEof \/ HandleTimer \/ DelayEnds
           \/ HandleDisconnect
  PROVE  OpeningInv'
<1> USE DEF OpeningInv, Upgrading, Upgraded, Greeted, flowVars, wsVars, sigVars, callVars,
            Proceed, Break, Fail
<1>1. CASE LoopTop
  BY <1>1 DEF LoopTop, Pending
<1>2. CASE ReadFrames
  <2>1. /\ UNCHANGED <<firstText, wsClosed, server, wsCloses>>
        /\ ~wsClosed /\ control = "select" /\ control' = "poll"
    BY <1>2 DEF ReadFrames, ReadFramesThen
  <2>2. CASE Upgrading
    <3>1. PICK n \in 1..Len(net) :
            /\ net' = SubSeq(net, n + 1, Len(net))
            /\ wsEvents' = wsEvents \o SubSeq(net, 1, n)
            /\ wsState' \in IF \E i \in 1..n : SubSeq(net, 1, n)[i] = "closeFrame"
                            THEN IF wsState = "Connected" THEN {"Closing", "Closed"}
                                 ELSE {"Closed"}
                            ELSE IF SubSeq(net, 1, n)[1] = "upgrade" THEN {"Connected"}
                            ELSE {wsState}
      BY <1>2 DEF ReadFrames, ReadFramesThen
    <3>2. net = <<"upgrade">> /\ n = 1
      BY <2>2
    <3>3. SubSeq(net, 1, n) = <<"upgrade">> /\ SubSeq(net, n + 1, Len(net)) = <<>>
      <4>1. net \in Seq(Frame) /\ Len(net) = 1
        BY <3>2 DEF TypeOK, WebSocketType
      <4>2. SubSeq(net, 1, 1) = net /\ SubSeq(net, 2, Len(net)) = <<>>
        BY <4>1, OneFrame
      <4> QED
        BY <3>2, <4>2
    <3>4. wsEvents' = <<"upgrade">> /\ net' = <<>> /\ wsState' = "Connected"
      BY <2>2, <3>1, <3>3, <3>2
    <3> QED
      BY <2>1, <2>2, <3>2, <3>4
  <2>3. CASE Greeted
    BY <1>2, <2>1, <2>3, FramesRead
  <2> QED
    BY <2>1, <2>2, <2>3
<1>3. CASE ReadFails \/ ReadEof
  BY <1>3 DEF ReadFails, ReadEof, ReadEofUnless, Pending
<1>4. CASE HandleTimer \/ DelayEnds
  BY <1>4 DEF HandleTimer, DelayEnds, Pending
<1>5. CASE HandleDisconnect
  BY <1>5 DEF HandleDisconnect, SendText, NotifyClosed, Pending
<1> QED
  BY <1>1, <1>2, <1>3, <1>4, <1>5

\* Events wait until the loop selects one, which is after `connect`.
LEMMA EventOpening ==
  ASSUME TypeOK, OpeningInv, HandleEvent PROVE OpeningInv'
<1> USE DEF OpeningInv, Upgrading, Upgraded, Greeted, flowVars, wsVars, sigVars, callVars,
            Proceed, Break, Fail, Take
<1>1. CASE HandleRegister \/ HandleStateChange
  <2>1. UNCHANGED <<firstText, wsState, wsEvents, net, server, wsCloses>>
    BY <1>1 DEF HandleRegister, HandleStateChange
  <2>2. control = "select"
    BY <1>1 DEF HandleRegister, HandleStateChange
  <2> QED
    BY <2>1, <2>2 DEF Pending
<1>2. CASE HandleMessage \/ HandlePcFailed
  BY <1>2 DEF HandleMessage, HandlePcFailed, Pending
<1>3. CASE HandleCandidate
  BY <1>3 DEF HandleCandidate, SendText, Pending
<1>4. CASE HandleSendWebSocketMessage
  BY <1>4 DEF HandleSendWebSocketMessage, SendText, Pending
<1> QED
  BY <1>1, <1>2, <1>3, <1>4 DEF HandleEvent

\* Polling another frame than the answer to the Upgrade request comes after `connect`.
LEMMA LaterPollOpening ==
  ASSUME TypeOK, OpeningInv, NEW f, f # "upgrade", Polled(f),
         wsEvents' = Tail(wsEvents), UNCHANGED <<net, server, firstText>>
  PROVE  OpeningInv'
<1>1. Greeted
  BY DEF Polled, OpeningInv, Upgrading, Upgraded
<1>2. Pending # <<>> /\ Pending' = Tail(Pending)
  BY FramePolled
<1>3. ~Holds(Pending', {"upgrade"})
  <2>1. Holds(Tail(Pending), {"upgrade"}) => Holds(Pending, {"upgrade"})
    BY <1>2, PendingFrames, Taken
  <2> QED
    BY <1>1, <1>2, <2>1 DEF Greeted
<1> QED
  BY <1>1, <1>3 DEF OpeningInv, Greeted

\* Every polled frame: the answer to the Upgrade request sends `connect`.
LEMMA PollOpening ==
  ASSUME TypeOK, OpeningInv, Poll PROVE OpeningInv'
<1> USE DEF flowVars, wsVars, sigVars, callVars, Proceed, Fail
<1>1. CASE PollNone
  BY <1>1 DEF PollNone, OpeningInv, Upgrading, Upgraded, Greeted, Pending
<1>2. CASE PollConnected
  <2>1. Upgraded
    <3>1. ~Greeted
      <4>1. Head(Pending) = "upgrade" /\ Pending # <<>>
        BY <1>2, FramePolled DEF PollConnected
      <4> QED
        BY <4>1, PendingFrames, Taken DEF Greeted
    <3>2. ~Upgrading
      BY <1>2 DEF PollConnected, Polled, Upgrading
    <3> QED
      BY <1>2, <3>1, <3>2 DEF PollConnected, Polled, OpeningInv
  <2>2. /\ firstText' = "connect" /\ server' # "upgrading"
        /\ wsEvents' = <<>> /\ net' = <<>>
    BY <1>2, <2>1 DEF PollConnected, SendText, Upgraded
  <2>3. ~Holds(Pending', {"upgrade"})
    BY <2>2, EmptyQueue DEF Pending
  <2> QED
    BY <2>2, <2>3 DEF OpeningInv, Greeted
<1>3. CASE PollOffer
  BY <1>3, LaterPollOpening DEF PollOffer
<1>4. CASE OfferDone
  BY <1>4 DEF OfferDone, SendText, OpeningInv, Upgrading, Upgraded, Greeted, Pending
<1>5. CASE OfferFails
  BY <1>5 DEF OfferFails, OpeningInv
<1>6. CASE PollSwitched
  BY <1>6, LaterPollOpening DEF PollSwitched, PollSwitchedWhen
<1>7. CASE PollPing
  BY <1>7, LaterPollOpening DEF PollPing, PollPingPosting
<1>8. CASE PollRedirect
  BY <1>8, LaterPollOpening DEF PollRedirect
<1>9. CASE PollCloseText
  BY <1>9, LaterPollOpening DEF PollCloseText
<1>10. CASE PollCloseFrame
  BY <1>10, LaterPollOpening DEF PollCloseFrame
<1> QED
  BY <1>1, <1>2, <1>3, <1>4, <1>5, <1>6, <1>7, <1>8, <1>9, <1>10 DEF Poll

\* A redirect starts with a new Upgrade.
LEMMA RedirectOpening ==
  ASSUME TypeOK, OpeningInv, Redirect \/ Reconnect \/ ReconnectFails PROVE OpeningInv'
<1> USE DEF OpeningInv, Upgrading, Upgraded, Greeted, flowVars, wsVars, sigVars, callVars,
            Proceed, Break, Fail
<1>1. CASE Redirect
  BY <1>1 DEF Redirect, Pending
<1>2. CASE Reconnect
  BY <1>2 DEF Reconnect
<1>3. CASE ReconnectFails
  BY <1>3 DEF ReconnectFails
<1> QED
  BY <1>1, <1>2, <1>3

\* The end of run() sends nothing before `connect`.
LEMMA FinishOpening ==
  ASSUME TypeOK, OpeningInv, FlushDone \/ FlushFails \/ Finish PROVE OpeningInv'
<1> USE DEF OpeningInv, Upgrading, Upgraded, Greeted, flowVars, wsVars, sigVars, callVars,
            Proceed, Break, Fail
<1>1. CASE FlushDone
  BY <1>1 DEF FlushDone, StateAfterSwitch, Pending
<1>2. CASE FlushFails
  BY <1>2 DEF FlushFails, StateAfterSwitch, Pending
<1>3. CASE LeaveLoop \/ CloseWait \/ CloseWaitTimeout
  BY <1>3 DEF LeaveLoop, CloseWait, CloseWaitTimeout, CloseWaitTimeoutIf, Pending
<1>4. CASE CloseHandshake
  BY <1>4 DEF CloseHandshake, CloseHandshakeIn, ReturnOk
<1> QED
  BY <1>1, <1>2, <1>3, <1>4 DEF Finish

\* The opening of a session, over every step.
LEMMA OpeningHolds == TypeOK /\ OpeningInv /\ [Next]_vars => OpeningInv'
<1> SUFFICES ASSUME TypeOK, OpeningInv, [Next]_vars PROVE OpeningInv'
  OBVIOUS
<1>1. CASE Environment
  BY <1>1, EnvironmentOpening
<1>2. CASE Run
  BY <1>2, SelectOpening, EventOpening, PollOpening, RedirectOpening, FinishOpening
     DEF Run, SelectBranch
<1>3. CASE UNCHANGED vars
  BY <1>3 DEF vars, OpeningInv, Upgrading, Upgraded, Greeted, Pending, flowVars, wsVars,
     sigVars, callVars
<1> QED
  BY <1>1, <1>2, <1>3 DEF Next

-----------------------------------------------------------------------------
(* What the steps do to the frames and to the session.                     *)

\* No frame moves, no session begins, nothing is answered or called back.
Still ==
  /\ UNCHANGED <<net, wsEvents, server, session, granted, wsCloses>>
  /\ wsState' \in {wsState, "Closing", "Closed"}
  /\ switched' \in {switched, FALSE}
  /\ control # "done"
  /\ control' = control \/ control' # "offer"

\* The steps that are still.
StillStep ==
  \/ Environment /\ ~ServerSends
  \/ LoopTop \/ ReadFails \/ ReadEof \/ HandleTimer \/ DelayEnds \/ HandleDisconnect
  \/ HandleEvent
  \/ PollNone \/ OfferFails \/ Redirect \/ ReconnectFails
  \/ FlushDone \/ FlushFails \/ LeaveLoop \/ CloseWait \/ CloseWaitTimeout

\* These steps touch no frame and no WebSocket.
LEMMA StillSteps == ASSUME TypeOK, StillStep PROVE Still
<1> USE DEF Still, Awaiting, flowVars, wsVars, sigVars, chanVars, callVars, Proceed, Break,
            Fail, Take
<1>1. CASE Environment /\ ~ServerSends
  BY <1>1 DEF Environment, RequestDisconnect, ChannelArrives, ChannelMoves, MessageArrives,
     MediaPathDies, DelayElapses
<1>2. CASE LoopTop \/ ReadFails \/ ReadEof \/ HandleTimer \/ DelayEnds \/ HandleDisconnect
  BY <1>2 DEF LoopTop, ReadFails, ReadEof, ReadEofUnless, HandleTimer, DelayEnds,
     HandleDisconnect
<1>3. CASE HandleEvent
  <2>1. CASE HandleRegister \/ HandleStateChange
    <3>1. UNCHANGED <<wsVars, server, session, granted, wsCloses, switched>>
      BY <2>1 DEF HandleRegister, HandleStateChange
    <3>2. control = "select" /\ control' # "offer"
      BY <2>1 DEF HandleRegister, HandleStateChange, DataChannelState, DataChannelStateThen
    <3> QED
      BY <3>1, <3>2
  <2>2. CASE HandleMessage \/ HandleCandidate \/ HandlePcFailed \/ HandleSendWebSocketMessage
    BY <2>2 DEF HandleMessage, HandleCandidate, HandlePcFailed, HandleSendWebSocketMessage,
       SendOnSignaling
  <2> QED
    BY <1>3, <2>1, <2>2 DEF HandleEvent
<1>4. CASE PollNone \/ OfferFails \/ Redirect \/ ReconnectFails
  BY <1>4 DEF PollNone, OfferFails, Redirect, ReconnectFails
<1>5. CASE FlushDone \/ FlushFails
  BY <1>5 DEF FlushDone, FlushFails, StateAfterSwitch
<1>6. CASE LeaveLoop \/ CloseWait \/ CloseWaitTimeout
  BY <1>6 DEF LeaveLoop, CloseWait, CloseWaitTimeout, CloseWaitTimeoutIf
<1> QED
  BY <1>1, <1>2, <1>3, <1>4, <1>5, <1>6 DEF StillStep

\* Frame f is polled in the session.
PollsFrame(f) ==
  /\ Polled(f)
  /\ wsEvents' = Tail(wsEvents)
  /\ UNCHANGED <<net, wsState, server, session, granted>>

\* Each kind of poll takes its own frame.
LEMMA PolledFrames ==
  /\ PollConnected =>
       PollsFrame("upgrade") /\ UNCHANGED <<wsCloses, switched>> /\ control' # "offer"
  /\ PollOffer => /\ PollsFrame("offer") \/ PollsFrame("reoffer")
                  /\ UNCHANGED <<wsCloses, switched>>
  /\ PollSwitched => /\ PollsFrame("switched") \/ PollsFrame("switchedIgnore")
                     /\ UNCHANGED wsCloses
                     /\ control' # "offer"
  /\ PollPing => PollsFrame("ping") /\ UNCHANGED <<wsCloses, switched>> /\ control' # "offer"
  /\ PollRedirect =>
       PollsFrame("redirect") /\ UNCHANGED <<wsCloses, switched>> /\ control' # "offer"
  /\ PollCloseText =>
       PollsFrame("closeText") /\ UNCHANGED <<wsCloses, switched>> /\ control' # "offer"
  /\ PollCloseFrame =>
       /\ PollsFrame("closeFrame") /\ wsCloses' = wsCloses + 1
       /\ switched' = switched /\ control' # "offer"
<1> USE DEF PollsFrame, Polled, Proceed, Fail, flowVars, wsVars, sigVars, chanVars, callVars
<1>1. PollConnected =>
        PollsFrame("upgrade") /\ UNCHANGED <<wsCloses, switched>> /\ control' # "offer"
  BY DEF PollConnected
<1>2. PollOffer => /\ PollsFrame("offer") \/ PollsFrame("reoffer")
                   /\ UNCHANGED <<wsCloses, switched>>
  BY DEF PollOffer
<1>3. PollSwitched => /\ PollsFrame("switched") \/ PollsFrame("switchedIgnore")
                      /\ UNCHANGED wsCloses
                      /\ control' # "offer"
  BY DEF PollSwitched, PollSwitchedWhen
<1>4. PollPing => PollsFrame("ping") /\ UNCHANGED <<wsCloses, switched>> /\ control' # "offer"
  BY DEF PollPing, PollPingPosting
<1>5. PollRedirect =>
        PollsFrame("redirect") /\ UNCHANGED <<wsCloses, switched>> /\ control' # "offer"
  BY DEF PollRedirect
<1>6. PollCloseText =>
        PollsFrame("closeText") /\ UNCHANGED <<wsCloses, switched>> /\ control' # "offer"
  BY DEF PollCloseText
<1>7. PollCloseFrame =>
        /\ PollsFrame("closeFrame") /\ wsCloses' = wsCloses + 1
        /\ switched' = switched /\ control' # "offer"
  BY DEF PollCloseFrame
<1> QED
  BY <1>1, <1>2, <1>3, <1>4, <1>5, <1>6, <1>7

\* The queues after frame f has been polled.
LEMMA PolledQueues ==
  ASSUME TypeOK, NEW f, PollsFrame(f), NEW K
  PROVE  /\ Holds(Pending', K) => Holds(Pending, K)
         /\ Holds(wsEvents', K) => Holds(wsEvents, K)
         /\ f \in K => Holds(Pending, K) /\ Holds(wsEvents, K)
         /\ Unique(Pending, K) => Unique(Pending', K)
         /\ Unique(Pending, K) /\ f \in K => ~Holds(Pending', K)
<1>1. Pending # <<>> /\ Head(Pending) = f /\ Pending' = Tail(Pending)
  BY FramePolled DEF PollsFrame
<1>2. /\ wsEvents \in Seq(Frame) /\ wsEvents # <<>>
      /\ Head(wsEvents) = f /\ wsEvents' = Tail(wsEvents)
  BY DEF PollsFrame, Polled, TypeOK, WebSocketType
<1>3. Pending \in Seq(Frame)
  BY PendingFrames
<1>4. /\ Holds(Tail(Pending), K) => Holds(Pending, K)
      /\ Head(Pending) \in K => Holds(Pending, K)
      /\ Unique(Pending, K) => Unique(Tail(Pending), K)
      /\ Unique(Pending, K) /\ Head(Pending) \in K => ~Holds(Tail(Pending), K)
  BY <1>1, <1>3, Taken
<1>5. /\ Holds(Tail(wsEvents), K) => Holds(wsEvents, K)
      /\ Head(wsEvents) \in K => Holds(wsEvents, K)
  BY <1>2, Taken
<1> QED
  BY <1>1, <1>2, <1>4, <1>5

\* Every step is one of these kinds.
LEMMA StepKinds ==
  ASSUME Next
  PROVE  \/ StillStep \/ ServerSends \/ ReadFrames \/ PollConnected \/ PollOffer \/ OfferDone
         \/ PollSwitched \/ PollPing \/ PollRedirect \/ PollCloseText \/ PollCloseFrame
         \/ Reconnect \/ CloseHandshake
  BY DEF Next, Environment, Run, SelectBranch, Poll, Finish, StillStep

-----------------------------------------------------------------------------
(* on_websocket_close is called once per WebSocket.                        *)

CloseFrames == {"closeFrame"}

CloseInv ==
  /\ wsCloses <= 1
  /\ control # "done" =>
       /\ Unique(Pending, CloseFrames)
       /\ Holds(Pending, CloseFrames) => server = "ended" /\ wsCloses = 0
       /\ Holds(wsEvents, CloseFrames) => wsState \in {"Closing", "Closed"}
       /\ wsCloses = 1 => server = "ended" /\ wsState # "Connected"

\* Nothing is closed at the start.
LEMMA InitClose == Init => CloseInv
<1> SUFFICES ASSUME Init PROVE CloseInv
  OBVIOUS
<1>1. Pending = <<>> /\ wsEvents = <<>> /\ wsCloses = 0
  BY DEF Init, Pending
<1> QED
  BY <1>1, EmptyQueue DEF CloseInv

\* The Close frame and on_websocket_close, over every step.
LEMMA CloseHolds == TypeOK /\ OpeningInv /\ CloseInv /\ [Next]_vars => CloseInv'
<1> SUFFICES ASSUME TypeOK, OpeningInv, CloseInv, [Next]_vars PROVE CloseInv'
  OBVIOUS
<1> DEFINE K == CloseFrames
<1>0. wsCloses \in Nat
  BY DEF TypeOK, HistoryType
<1>1. CASE StillStep
  <2>1. Still
    BY <1>1, StillSteps
  <2>2. Pending' = Pending
    BY <2>1 DEF Still, Pending
  <2> QED
    BY <2>1, <2>2 DEF Still, CloseInv
<1>2. CASE ServerSends
  <2>1. control # "done" /\ UNCHANGED <<control, wsCloses, wsState, wsEvents>>
    BY <1>2 DEF ServerSends, Awaiting, flowVars, callVars
  <2>2. PICK f \in ServerFrames : /\ f \in Frame
                                  /\ Pending' = Append(Pending, f)
                                  /\ server' = ServerAfter(f)
    BY <1>2, FrameSent
  <2>3. server # "ended"
    BY DEF ServerFrames
  <2>4. wsCloses = 0 /\ ~Holds(Pending, K)
    BY <1>0, <2>1, <2>3 DEF CloseInv
  <2>5. f = "closeFrame" => server' = "ended"
    BY <2>2 DEF ServerAfter
  <2>6. /\ Holds(Append(Pending, f), K) <=> Holds(Pending, K) \/ f \in K
        /\ Unique(Pending, K) => Unique(Append(Pending, f), K)
    BY <2>2, <2>4, PendingFrames, Appended
  <2> QED
    BY <2>1, <2>2, <2>4, <2>5, <2>6 DEF CloseInv, CloseFrames
<1>3. CASE ReadFrames
  <2>1. UNCHANGED <<server, wsCloses>> /\ control # "done" /\ Pending' = Pending
    BY <1>3, FramesRead DEF ReadFrames, ReadFramesThen, callVars, sigVars
  <2>2. PICK n \in 1..Len(net) :
          /\ wsEvents' = wsEvents \o SubSeq(net, 1, n)
          /\ wsState' \in IF \E i \in 1..n : SubSeq(net, 1, n)[i] = "closeFrame"
                          THEN IF wsState = "Connected" THEN {"Closing", "Closed"}
                               ELSE {"Closed"}
                          ELSE IF SubSeq(net, 1, n)[1] = "upgrade" THEN {"Connected"}
                          ELSE {wsState}
    BY <1>3 DEF ReadFrames, ReadFramesThen
  <2> DEFINE chunk == SubSeq(net, 1, n)
  <2>3. /\ net \in Seq(Frame) /\ wsEvents \in Seq(Frame)
        /\ chunk \in Seq(Frame) /\ DOMAIN chunk = 1..n
        /\ chunk[1] = net[1] /\ 1 \in DOMAIN net
    BY DEF TypeOK, WebSocketType
  <2> HIDE DEF chunk
  <2>4. Holds(wsEvents', K) => Holds(wsEvents, K) \/ \E i \in 1..n : chunk[i] = "closeFrame"
    BY <2>2, <2>3, FrameInParts DEF Holds, CloseFrames, chunk
  <2>5. CASE Greeted
    <3>1. chunk[1] # "upgrade"
      <4>1. Holds(net, {"upgrade"}) => Holds(Pending, {"upgrade"})
        BY <2>3, FrameInParts DEF Pending
      <4> QED
        BY <2>3, <2>5, <4>1 DEF Holds, Greeted
    <3>2. /\ wsState' \in {wsState, "Closing", "Closed"}
          /\ Holds(wsEvents', K) => Holds(wsEvents, K) \/ wsState' \in {"Closing", "Closed"}
      BY <2>2, <2>4, <3>1 DEF chunk
    <3> QED
      BY <2>1, <3>2 DEF CloseInv
  <2>6. CASE ~Greeted
    <3>1. server # "ended" /\ wsCloses = 0
      BY <2>1, <2>6 DEF OpeningInv, Upgrading, Upgraded
    <3>2. ~Holds(Pending, K) /\ ~Holds(Pending', K)
      BY <2>1, <3>1 DEF CloseInv
    <3>3. ~Holds(wsEvents', K)
      <4>1. wsEvents' \in Seq(Frame) /\ net' \in Seq(Frame)
        BY <1>3, SelectTypes, ConnectionAssumption DEF TypeOK, WebSocketType
      <4> QED
        BY <3>2, <4>1, FrameInParts DEF Pending
    <3> QED
      BY <2>1, <3>1, <3>2, <3>3 DEF CloseInv
  <2> QED
    BY <2>5, <2>6
<1>4. ASSUME NEW f \in Frame \ CloseFrames, PollsFrame(f), wsCloses' = wsCloses PROVE CloseInv'
  <2>1. control # "done" /\ UNCHANGED <<server, wsState>>
    BY <1>4 DEF PollsFrame, Polled
  <2>2. /\ Holds(Pending', K) => Holds(Pending, K)
        /\ Holds(wsEvents', K) => Holds(wsEvents, K)
        /\ Unique(Pending, K) => Unique(Pending', K)
    BY <1>4, PolledQueues
  <2> QED
    BY <1>4, <2>1, <2>2 DEF CloseInv
<1>5. CASE \/ PollConnected \/ PollOffer \/ PollSwitched
           \/ PollPing \/ PollRedirect \/ PollCloseText
  <2>1. {"upgrade", "offer", "reoffer", "switched", "switchedIgnore", "ping", "redirect",
         "closeText"} \subseteq Frame \ CloseFrames
    BY DEF Frame, CloseFrames
  <2> QED
    BY <1>4, <1>5, <2>1, PolledFrames
<1>6. CASE PollCloseFrame
  <2>1. PollsFrame("closeFrame") /\ wsCloses' = wsCloses + 1
    BY <1>6, PolledFrames
  <2>2. control # "done" /\ UNCHANGED <<server, wsState>>
    BY <2>1 DEF PollsFrame, Polled
  <2>3. /\ Holds(Pending, K) /\ Holds(wsEvents, K)
        /\ Holds(wsEvents', K) => Holds(wsEvents, K)
        /\ Unique(Pending, K) => Unique(Pending', K) /\ ~Holds(Pending', K)
    BY <2>1, PolledQueues DEF CloseFrames
  <2> QED
    BY <2>1, <2>2, <2>3 DEF CloseInv
<1>7. CASE OfferDone
  <2>1. UNCHANGED <<net, wsEvents, server, wsCloses, wsState>> /\ control # "done"
    BY <1>7 DEF OfferDone, wsVars, sigVars, callVars
  <2> QED
    BY <2>1 DEF CloseInv, Pending
<1>8. CASE Reconnect
  <2>1. Pending' = <<>> /\ wsEvents' = <<>> /\ wsCloses' = 0
    BY <1>8 DEF Reconnect, Pending
  <2> QED
    BY <2>1, EmptyQueue DEF CloseInv
<1>9. CASE CloseHandshake
  <2>1. control' = "done" /\ control # "done"
    BY <1>9 DEF CloseHandshake, CloseHandshakeIn, ReturnOk, Fail
  <2>2. \/ wsCloses' = wsCloses
        \/ wsCloses' = wsCloses + 1 /\ wsState = "Connected"
    BY <1>9 DEF CloseHandshake, CloseHandshakeIn
  <2> QED
    BY <1>0, <2>1, <2>2 DEF CloseInv
<1>10. CASE UNCHANGED vars
  BY <1>10 DEF vars, CloseInv, Pending, flowVars, wsVars, sigVars, callVars
<1> QED
  BY <1>1, <1>2, <1>3, <1>5, <1>6, <1>7, <1>8, <1>9, <1>10, StepKinds

-----------------------------------------------------------------------------
(* Offers, `switched` and what they are about.                             *)

\* Channels that no answered Offer has granted.
Unannounced ==
  {e \in Event : \E s \in Sessions, l \in Labels :
                   e = Register(s, l) /\ ~(s <= session /\ l \in granted[s])}

\* The channels that libwebrtc announces, run() registers and opens are those of an
\* answered Offer, and that of the current session is the one configured.
GrantInv ==
  /\ \A s \in Sessions : s > session => granted[s] = {}
  /\ \A l \in Labels : registered[l] <= session
  /\ ~Holds(events, Unannounced)
  /\ InLoop => /\ \A l \in Labels : registered[l] = session => l \in granted[session]
               /\ \A l \in opened : registered[l] # 0
               /\ control # "reconnect" /\ granted[session] # {} =>
                    granted[session] = configured

\* A session has one Offer, then at most one `switched`.
OrderInv ==
  control # "done" =>
    /\ Unique(Pending, OfferFrames)
    /\ Unique(Pending, SwitchFrames)
    /\ Holds(Pending, OfferFrames) => granted[session] = {} /\ control # "offer"
    /\ Holds(Pending, OfferFrames) \/ control = "offer" \/ granted[session] # {} =>
         server \notin {"upgrading", "silent"}
    /\ Holds(Pending, {"reoffer"}) => granted[session] # {}
    /\ Holds(Pending, SwitchFrames) => ~switched
    /\ Holds(Pending, SwitchFrames) \/ switched =>
         server \in {"switched", "closing", "ended"} /\ granted[session] # {}

\* use_data_channel_signaling says in the loop what is_data_channel_signaling_ready
\* would, and run() closes the WebSocket itself only then; a redirect clears it all.
SwitchInv ==
  /\ iws => switched
  /\ selfClosed => Ignoring
  /\ InLoop => (useDC <=> Ready(switched, configured, opened))
  /\ control = "reconnect" =>
       /\ ~switched /\ ~iws /\ ~useDC /\ ~selfClosed
       /\ opened = {} /\ configured = {}
       /\ \A l \in Labels : registered[l] = 0

\* Nothing is granted, registered or switched at the start.
LEMMA InitSession == Init => GrantInv /\ OrderInv /\ SwitchInv
<1> SUFFICES ASSUME Init PROVE GrantInv /\ OrderInv /\ SwitchInv
  OBVIOUS
<1>1. Pending = <<>>
  BY DEF Init, Pending
<1>2. GrantInv
  <2>1. 1 \in Sessions /\ ~Holds(events, Unannounced)
    BY ConnectionAssumption, EmptyQueue DEF Init, ConnectionAssumption, Sessions
  <2>2. /\ \A s \in Sessions : granted[s] = {}
        /\ \A l \in Labels : registered[l] = 0
        /\ session = 1 /\ opened = {}
    BY DEF Init
  <2> QED
    BY <2>1, <2>2 DEF GrantInv
<1>3. OrderInv
  <2>1. 1 \in Sessions
    BY ConnectionAssumption DEF ConnectionAssumption, Sessions
  <2> QED
    BY <1>1, <2>1, EmptyQueue DEF Init, OrderInv
<1>4. SwitchInv
  BY DEF Init, SwitchInv, Ready
<1> QED
  BY <1>2, <1>3, <1>4

\* No step of OrderInv's frames breaks their order.
LEMMA FrameOrderHolds ==
  TypeOK /\ OrderInv /\ GrantInv /\ SwitchInv /\ [Next]_vars => OrderInv'
<1> SUFFICES ASSUME TypeOK, OrderInv, GrantInv, SwitchInv, [Next]_vars PROVE OrderInv'
  OBVIOUS
<1>1. CASE StillStep
  <2>1. Still
    BY <1>1, StillSteps
  <2>2. Pending' = Pending
    BY <2>1 DEF Still, Pending
  <2>3. switched \in BOOLEAN
    BY DEF TypeOK, SessionType
  <2> QED
    BY <2>1, <2>2, <2>3 DEF Still, OrderInv
<1>2. CASE ServerSends
  <2>1. /\ control # "done" /\ UNCHANGED <<control, session, granted, switched>>
    BY <1>2 DEF ServerSends, Awaiting, flowVars, chanVars
  <2>2. PICK f \in ServerFrames : /\ f \in Frame
                                  /\ Pending' = Append(Pending, f)
                                  /\ server' = ServerAfter(f)
    BY <1>2, FrameSent
  <2>3. \A K : /\ Holds(Pending', K) <=> Holds(Pending, K) \/ f \in K
               /\ Unique(Pending, K) /\ (f \in K => ~Holds(Pending, K)) => Unique(Pending', K)
    BY <2>2, PendingFrames, Appended
  <2>4. f = "offer" => server = "silent" /\ server' = "offered"
    BY <2>2 DEF ServerFrames, ServerAfter
  <2>5. f \in SwitchFrames =>
          server = "offered" /\ granted[session] # {} /\ server' = "switched"
    BY <2>2 DEF ServerFrames, ServerAfter, SwitchFrames
  <2>6. f = "reoffer" => granted[session] # {}
    BY <2>2 DEF ServerFrames
  <2>7. server \notin {"upgrading", "silent"} => server' \notin {"upgrading", "silent"}
    BY <2>2 DEF ServerFrames, ServerAfter
  <2>8. server \in {"switched", "closing", "ended"} =>
          server' \in {"switched", "closing", "ended"}
    BY <2>2 DEF ServerFrames, ServerAfter
  <2> HIDE DEF SwitchFrames
  <2>9. f \in OfferFrames <=> f = "offer"
    BY DEF OfferFrames
  <2>10. /\ f = "offer" =>
              ~Holds(Pending, OfferFrames) /\ granted[session] = {} /\ control # "offer"
         /\ f \in SwitchFrames => ~Holds(Pending, SwitchFrames) /\ ~switched
    BY <2>1, <2>4, <2>5 DEF OrderInv
  <2>11. /\ Unique(Pending', OfferFrames) /\ Unique(Pending', SwitchFrames)
         /\ Holds(Pending', OfferFrames) <=> Holds(Pending, OfferFrames) \/ f = "offer"
         /\ Holds(Pending', SwitchFrames) <=> Holds(Pending, SwitchFrames) \/ f \in SwitchFrames
         /\ Holds(Pending', {"reoffer"}) <=> Holds(Pending, {"reoffer"}) \/ f = "reoffer"
    BY <2>1, <2>3, <2>9, <2>10 DEF OrderInv
  <2> QED
    BY <2>1, <2>4, <2>5, <2>6, <2>7, <2>8, <2>10, <2>11 DEF OrderInv
<1>3. CASE ReadFrames
  <2>1. /\ UNCHANGED <<server, session, granted, switched>>
        /\ control # "done" /\ control' = "poll"
    BY <1>3 DEF ReadFrames, ReadFramesThen, sigVars, chanVars, Proceed
  <2> QED
    BY <1>3, <2>1, FramesRead DEF OrderInv
<1>4. ASSUME NEW f, PollsFrame(f), switched' = switched, control' # "offer" PROVE OrderInv'
  <2>1. control # "done" /\ UNCHANGED <<server, session, granted>>
    BY <1>4 DEF PollsFrame, Polled
  <2>2. \A K : /\ Holds(Pending', K) => Holds(Pending, K)
               /\ Unique(Pending, K) => Unique(Pending', K)
    BY <1>4, PolledQueues
  <2> QED
    BY <1>4, <2>1, <2>2 DEF OrderInv
<1>5. CASE PollConnected \/ PollPing \/ PollRedirect \/ PollCloseText \/ PollCloseFrame
  BY <1>4, <1>5, PolledFrames
<1>6. CASE PollOffer
  <2>1. PICK f \in {"offer", "reoffer"} : PollsFrame(f)
    BY <1>6, PolledFrames
  <2>2. control # "done" /\ UNCHANGED <<server, session, granted, switched>>
    BY <1>6, <2>1, PolledFrames DEF PollsFrame, Polled
  <2>3. \A K : /\ Holds(Pending', K) => Holds(Pending, K)
               /\ f \in K => Holds(Pending, K)
               /\ Unique(Pending, K) => Unique(Pending', K)
               /\ Unique(Pending, K) /\ f \in K => ~Holds(Pending', K)
    BY <2>1, PolledQueues
  <2>4. ~Holds(Pending', OfferFrames)
    BY <2>1, <2>2, <2>3 DEF OrderInv, OfferFrames
  <2>5. server \notin {"upgrading", "silent"}
    BY <2>1, <2>2, <2>3 DEF OrderInv, OfferFrames
  <2> QED
    BY <2>2, <2>3, <2>4, <2>5 DEF OrderInv
<1>7. CASE PollSwitched
  <2>1. PICK f \in SwitchFrames : PollsFrame(f)
    BY <1>7, PolledFrames DEF SwitchFrames
  <2>2. control # "done" /\ control' # "offer" /\ UNCHANGED <<server, session, granted>>
    BY <1>7, <2>1, PolledFrames DEF PollsFrame, Polled
  <2>3. \A K : /\ Holds(Pending', K) => Holds(Pending, K)
               /\ f \in K => Holds(Pending, K)
               /\ Unique(Pending, K) => Unique(Pending', K)
               /\ Unique(Pending, K) /\ f \in K => ~Holds(Pending', K)
    BY <2>1, PolledQueues
  <2> QED
    BY <2>2, <2>3 DEF OrderInv
<1>8. CASE OfferDone
  <2>1. /\ UNCHANGED <<net, wsEvents, server, session, switched>>
        /\ control = "offer" /\ control' # "offer"
    BY <1>8 DEF OfferDone, wsVars, sigVars, Proceed, Fail
  <2>2. session \in Sessions /\ granted \in [Sessions -> SUBSET Labels]
    BY DEF TypeOK, SessionType, ChannelType
  <2>3. granted' \in {granted, [granted EXCEPT ![session] = configured]}
    BY <1>8 DEF OfferDone
  <2>4. granted[session] # {} => granted'[session] # {}
    BY <2>1, <2>2, <2>3 DEF GrantInv, InLoop
  <2>5. Pending' = Pending
    BY <2>1 DEF Pending
  <2> QED
    BY <2>1, <2>4, <2>5 DEF OrderInv
<1>9. CASE Reconnect
  <2>1. /\ Pending' = <<>> /\ server' = "upgrading" /\ session' = session + 1
        /\ UNCHANGED <<granted, switched>> /\ control' # "offer"
        /\ control = "reconnect" /\ session <= MaxRedirects
    BY <1>9 DEF Reconnect, Pending, chanVars, Proceed, Break
  <2>2. granted[session + 1] = {} /\ ~switched
    BY <2>1, SessionNumbers, ConnectionAssumption
    DEF GrantInv, SwitchInv, TypeOK, SessionType, Sessions
  <2> QED
    BY <2>1, <2>2, EmptyQueue DEF OrderInv
<1>10. CASE CloseHandshake
  BY <1>10 DEF CloseHandshake, CloseHandshakeIn, ReturnOk, Fail, OrderInv
<1>11. CASE UNCHANGED vars
  BY <1>11 DEF vars, OrderInv, Pending, flowVars, wsVars, sigVars, chanVars
<1> QED
  BY <1>1, <1>2, <1>3, <1>5, <1>6, <1>7, <1>8, <1>9, <1>10, <1>11, StepKinds

\* What waits in event_rx is of an answered Offer, before and after a step.
LEMMA EventsAnnounced ==
  ASSUME TypeOK, ~Holds(events, Unannounced), Next
  PROVE  ~Holds(events', Unannounced)
<1> DEFINE U == Unannounced
<1>1. events \in Seq(Event)
  BY DEF TypeOK, ChannelType
<1>2. /\ \A l \in Labels : StateChange(l) \in Event /\ StateChange(l) \notin U
      /\ \A body \in {"close", "request"} : Message(body) \in Event /\ Message(body) \notin U
      /\ \A type \in {"PcFailed", "Candidate", "SendWebSocketMessage"} :
           Plain(type) \in Event /\ Plain(type) \notin U
      /\ \A s \in 1..session : \A l \in granted[s] :
           Register(s, l) \in Event /\ Register(s, l) \notin U
  <2>1. \A l \in Labels : StateChange(l) \notin U
    BY DEF Unannounced, StateChange, Register
  <2>2. \A body \in {"close", "request"} : Message(body) \notin U
    BY DEF Unannounced, Message, Register
  <2>3. \A type \in {"PcFailed", "Candidate", "SendWebSocketMessage"} : Plain(type) \notin U
    BY DEF Unannounced, Plain, Register
  <2>4. ASSUME NEW s \in 1..session, NEW l \in granted[s]
        PROVE  Register(s, l) \in Event /\ Register(s, l) \notin U
    <3>1. s \in Sessions /\ s <= session /\ l \in Labels
      <4>1. session \in Sessions /\ granted \in [Sessions -> SUBSET Labels]
        BY DEF TypeOK, SessionType, ChannelType
      <4>2. s \in Sessions
        BY <4>1, SessionNumbers, ConnectionAssumption
      <4> QED
        BY <4>1, <4>2
    <3>2. \A s2 \in Sessions, l2 \in Labels :
            Register(s, l) = Register(s2, l2) => s = s2 /\ l = l2
      BY DEF Register
    <3> QED
      BY <3>1, <3>2, EventForms DEF Unannounced
  <2> QED
    BY <2>1, <2>2, <2>3, <2>4, EventForms
<1> HIDE DEF U
<1>3. /\ events' = events => ~Holds(events', U)
      /\ events # <<>> /\ events' = Tail(events) => ~Holds(events', U)
      /\ \A e \in Event \ U : events' = Append(events, e) => ~Holds(events', U)
      /\ \A e \in Event \ U :
           events # <<>> /\ events' = Append(Tail(events), e) => ~Holds(events', U)
      /\ events' = <<>> => ~Holds(events', U)
  <2>1. events # <<>> => Tail(events) \in Seq(Event) /\ ~Holds(Tail(events), U)
    BY <1>1, Taken DEF U
  <2>2. \A e \in Event \ U : ~Holds(Append(events, e), U)
    BY <1>1, Appended DEF U
  <2>3. \A e \in Event \ U : events # <<>> => ~Holds(Append(Tail(events), e), U)
    BY <2>1, Appended
  <2> QED
    BY <2>1, <2>2, <2>3, EmptyQueue DEF U
<1>4. CASE ChannelArrives
  <2>1. \E s \in 1..session : \E l \in granted[s] : events' = Append(events, Register(s, l))
    BY <1>4 DEF ChannelArrives
  <2> QED
    BY <1>2, <1>3, <2>1 DEF U
<1>5. CASE ChannelMoves
  <2>1. \E l \in Labels : events' \in {events, Append(events, StateChange(l))}
    BY ZenonT(30), <1>5 DEF ChannelMoves
  <2> QED
    BY <1>2, <1>3, <2>1 DEF U
<1>6. CASE MessageArrives \/ MediaPathDies
  BY <1>2, <1>3, <1>6 DEF MessageArrives, MediaPathDies, U
<1>7. CASE HandleRegister
  <2>1. /\ events # <<>>
        /\ \E l \in Labels : events' \in {Tail(events), Append(Tail(events), StateChange(l))}
    BY <1>7 DEF HandleRegister, Take
  <2> QED
    BY <1>2, <1>3, <2>1 DEF U
<1>8. CASE HandleStateChange \/ HandleMessage \/ HandleCandidate \/ HandlePcFailed
             \/ HandleSendWebSocketMessage \/ CloseWait
  <2>1. events # <<>> /\ events' = Tail(events)
    BY <1>8 DEF HandleStateChange, HandleMessage, HandleCandidate, HandlePcFailed,
       HandleSendWebSocketMessage, CloseWait, Take
  <2> QED
    BY <1>3, <2>1 DEF U
<1>9. CASE PollPing
  BY <1>2, <1>3, <1>9 DEF PollPing, PollPingPosting, U
<1>10. CASE Redirect
  BY <1>3, <1>10 DEF Redirect, U
<1>11. CASE RequestDisconnect \/ ServerSends \/ DelayElapses \/ LoopTop \/ ReadFrames
              \/ ReadFails \/ ReadEof \/ HandleTimer \/ DelayEnds \/ HandleDisconnect
  <2>1. events' = events
    BY <1>11 DEF RequestDisconnect, ServerSends, DelayElapses, LoopTop, ReadFrames,
       ReadFramesThen, ReadFails, ReadEof, ReadEofUnless, HandleTimer, DelayEnds,
       HandleDisconnect
  <2> QED
    BY <1>3, <2>1 DEF U
<1>12. CASE PollNone \/ PollConnected \/ PollOffer \/ OfferDone \/ OfferFails \/ PollSwitched
              \/ PollRedirect \/ PollCloseText \/ PollCloseFrame
  <2>1. events' = events
    BY <1>12 DEF PollNone, PollConnected, PollOffer, OfferDone, OfferFails, PollSwitched,
       PollSwitchedWhen, PollRedirect, PollCloseText, PollCloseFrame
  <2> QED
    BY <1>3, <2>1 DEF U
<1>13. CASE Reconnect \/ ReconnectFails \/ FlushDone \/ FlushFails \/ LeaveLoop
              \/ CloseWaitTimeout \/ CloseHandshake
  <2>1. events' = events
    BY <1>13 DEF Reconnect, ReconnectFails, FlushDone, FlushFails, LeaveLoop,
       CloseWaitTimeout, CloseWaitTimeoutIf, CloseHandshake, CloseHandshakeIn
  <2> QED
    BY <1>3, <2>1 DEF U
<1> QED
  BY <1>4, <1>5, <1>6, <1>7, <1>8, <1>9, <1>10, <1>11, <1>12, <1>13
     DEF Next, Environment, Run, SelectBranch, HandleEvent, Poll, Finish, U

\* Steps that leave the channels and the switch as they are.
Keeps ==
  /\ UNCHANGED <<session, switched, iws, useDC, selfClosed, registered, configured, opened>>
  /\ InLoop' => InLoop
  /\ control' = "reconnect" => control = "reconnect"
  /\ control = "reconnect" => control' \in {"reconnect", "done"}

KeepStep ==
  \/ Environment
  \/ LoopTop \/ ReadFrames \/ ReadFails \/ ReadEof \/ HandleTimer \/ DelayEnds
  \/ HandleMessage \/ HandleCandidate \/ HandlePcFailed \/ HandleSendWebSocketMessage
  \/ PollNone \/ PollConnected \/ OfferFails \/ PollPing \/ PollRedirect
  \/ PollCloseText \/ PollCloseFrame
  \/ ReconnectFails \/ CloseHandshake

\* The answer to the Offer leaves the channels alone.
LEMMA AnswerKeeps == OfferDone => Keeps
  BY DEF OfferDone, Keeps, InLoop, flowVars, wsVars, sigVars, dcVars, Proceed, Fail

\* So do these steps.
LEMMA KeepSteps ==
  ASSUME KeepStep PROVE Keeps /\ UNCHANGED granted
<1> USE DEF Keeps, InLoop, Awaiting, flowVars, wsVars, sigVars, chanVars, dcVars, Proceed,
            Break, Fail, Take, Polled
<1>1. CASE Environment
  BY <1>1 DEF Environment, RequestDisconnect, ServerSends, ChannelArrives, ChannelMoves,
     MessageArrives, MediaPathDies, DelayElapses
<1>2. CASE LoopTop \/ ReadFrames \/ ReadFails \/ ReadEof \/ HandleTimer \/ DelayEnds
  BY <1>2 DEF LoopTop, ReadFrames, ReadFramesThen, ReadFails, ReadEof, ReadEofUnless,
     HandleTimer, DelayEnds
<1>3. CASE HandleMessage \/ HandleCandidate \/ HandlePcFailed \/ HandleSendWebSocketMessage
  BY <1>3 DEF HandleMessage, HandleCandidate, HandlePcFailed, HandleSendWebSocketMessage,
     SendOnSignaling
<1>4. CASE PollNone \/ PollConnected \/ OfferFails \/ PollPing \/ PollRedirect
             \/ PollCloseText \/ PollCloseFrame
  BY <1>4 DEF PollNone, PollConnected, OfferFails, PollPing, PollPingPosting, PollRedirect,
     PollCloseText, PollCloseFrame
<1>5. CASE ReconnectFails \/ CloseHandshake
  BY <1>5 DEF ReconnectFails, CloseHandshake, CloseHandshakeIn, ReturnOk
<1> QED
  BY <1>1, <1>2, <1>3, <1>4, <1>5 DEF KeepStep

\* The steps that do not.
LEMMA ChannelSteps ==
  ASSUME Next
  PROVE  \/ KeepStep \/ OfferDone \/ HandleDisconnect \/ HandleRegister \/ HandleStateChange
         \/ PollOffer \/ PollSwitched \/ Redirect \/ Reconnect \/ FlushDone \/ FlushFails
         \/ LeaveLoop \/ CloseWait \/ CloseWaitTimeout
  BY DEF Next, Run, SelectBranch, HandleEvent, Poll, Finish, KeepStep

\* What an event does to the registered and the opened channels.
LEMMA HandledChannels ==
  ASSUME TypeOK, GrantInv, HandleRegister \/ HandleStateChange
  PROVE  /\ control = "select"
         /\ UNCHANGED <<session, granted, configured, switched, iws, selfClosed>>
         /\ \E s \in Sessions, l \in Labels, reg \in [Labels -> Sessions \cup {0}] :
              /\ registered' = reg
              /\ reg \in {registered, [registered EXCEPT ![l] = s]}
              /\ (s <= session /\ l \in granted[s]) \/ reg = registered
              /\ DataChannelStateThen(l, reg, "leaving")
<1> USE DEF sigVars, chanVars
<1>1. /\ registered \in [Labels -> Sessions \cup {0}]
      /\ events \in Seq(Event) /\ session \in Sessions
  BY DEF TypeOK, ChannelType, SessionType
<1>2. CASE HandleRegister
  <2>1. PICK s \in Sessions, l \in Labels :
          /\ Take(Register(s, l))
          /\ registered' = [registered EXCEPT ![l] = s]
          /\ DataChannelStateThen(l, [registered EXCEPT ![l] = s], "leaving")
    BY <1>2 DEF HandleRegister, DataChannelState
  <2>2. s <= session /\ l \in granted[s]
    <3>1. Register(s, l) \in Event /\ events # <<>> /\ Head(events) = Register(s, l)
      BY <2>1, EventForms DEF Take
    <3>2. Register(s, l) \notin Unannounced
      BY <1>1, <3>1, Taken DEF GrantInv
    <3> QED
      BY <3>1, <3>2 DEF Unannounced
  <2>3. [registered EXCEPT ![l] = s] \in [Labels -> Sessions \cup {0}]
    BY <1>1
  <2>4. /\ control = "select"
        /\ UNCHANGED <<session, granted, configured, switched, iws, selfClosed>>
    BY <1>2 DEF HandleRegister, Take
  <2> QED
    BY <2>1, <2>2, <2>3, <2>4
<1>3. CASE HandleStateChange
  <2>1. PICK l \in Labels : DataChannelStateThen(l, registered, "leaving")
    BY <1>3 DEF HandleStateChange, DataChannelState
  <2>2. /\ control = "select" /\ registered' = registered
        /\ UNCHANGED <<session, granted, configured, switched, iws, selfClosed>>
    BY <1>3 DEF HandleStateChange, Take
  <2> QED
    BY <1>1, <2>1, <2>2
<1> QED
  BY <1>2, <1>3

\* What was announced stays so.
LEMMA AnnouncedStay ==
  ASSUME session <= session', TypeOK, TypeOK',
         \A s \in Sessions : s <= session => granted[s] \subseteq granted'[s]
  PROVE  Unannounced' \subseteq Unannounced
<1>1. session \in Nat /\ session' \in Nat /\ Sessions \subseteq Nat
  BY ConnectionAssumption DEF ConnectionAssumption, TypeOK, SessionType, Sessions
<1> QED
  BY <1>1 DEF Unannounced

\* The channels are granted ones, over every step.
LEMMA GrantHolds ==
  TypeOK /\ OrderInv /\ GrantInv /\ SwitchInv /\ [Next]_vars => GrantInv'
<1> SUFFICES ASSUME TypeOK, OrderInv, GrantInv, SwitchInv, [Next]_vars PROVE GrantInv'
  OBVIOUS
<1>1. CASE UNCHANGED vars
  <2>1. UNCHANGED <<session, granted, registered, events, control, opened, configured>>
    BY <1>1 DEF vars, flowVars, sigVars, chanVars, dcVars
  <2> QED
    BY <2>1 DEF GrantInv, InLoop, Unannounced
<1> SUFFICES ASSUME Next PROVE GrantInv'
  BY <1>1
<1>2. TypeOK'
  BY NextTypes, ConnectionAssumption
<1>3. /\ session \in Sessions /\ granted \in [Sessions -> SUBSET Labels]
      /\ registered \in [Labels -> Sessions \cup {0}] /\ opened \in SUBSET Labels
      /\ Sessions \subseteq Nat \ {0}
  BY ConnectionAssumption DEF ConnectionAssumption, TypeOK, SessionType, ChannelType, Sessions
<1>4. ASSUME session <= session',
             \A s \in Sessions : s <= session => granted[s] \subseteq granted'[s]
      PROVE  ~Holds(events', Unannounced')
  <2>1. Unannounced' \subseteq Unannounced
    BY <1>2, <1>4, AnnouncedStay
  <2>2. ~Holds(events', Unannounced)
    BY EventsAnnounced DEF GrantInv
  <2> QED
    BY <2>1, <2>2 DEF Holds
<1>5. CASE KeepStep
  <2>1. Keeps /\ UNCHANGED granted
    BY <1>5, KeepSteps
  <2>2. ~Holds(events', Unannounced')
    BY <1>3, <1>4, <2>1 DEF Keeps
  <2>3. /\ UNCHANGED <<session, granted, registered, configured, opened>>
        /\ InLoop' => InLoop /\ (control' # "reconnect" => control # "reconnect")
    BY <2>1 DEF Keeps, InLoop
  <2>4. /\ \A s \in Sessions : s > session' => granted'[s] = {}
        /\ \A l \in Labels : registered'[l] <= session'
    BY <2>3 DEF GrantInv
  <2>5. InLoop' => /\ \A l \in Labels : registered'[l] = session' => l \in granted'[session']
                   /\ \A l \in opened' : registered'[l] # 0
                   /\ control' # "reconnect" /\ granted'[session'] # {} =>
                        granted'[session'] = configured'
    BY <2>3 DEF GrantInv
  <2> QED
    BY <2>2, <2>4, <2>5 DEF GrantInv
<1>6. CASE OfferDone
  <2>1. Keeps /\ control = "offer"
    BY <1>6, AnswerKeeps DEF OfferDone
  <2>2. granted' = granted \/ granted' = [granted EXCEPT ![session] = configured]
    BY <1>6 DEF OfferDone
  <2>3. granted[session] = {} \/ granted[session] = configured
    BY <2>1 DEF GrantInv, InLoop
  <2>4. \A s \in Sessions : /\ granted[s] \subseteq granted'[s]
                            /\ s # session => granted'[s] = granted[s]
    BY <1>3, <2>2, <2>3
  <2>5. granted'[session] = {} \/ granted'[session] = configured
    BY <1>3, <2>2, <2>3
  <2>6. ~Holds(events', Unannounced')
    BY <1>3, <1>4, <2>1, <2>4 DEF Keeps
  <2> QED
    BY <1>3, <2>1, <2>4, <2>5, <2>6 DEF GrantInv, Keeps
<1>7. CASE HandleRegister \/ HandleStateChange
  <2>1. /\ control = "select"
        /\ UNCHANGED <<session, granted, configured>>
    BY <1>7, HandledChannels
  <2>2. PICK s \in Sessions, l \in Labels, reg \in [Labels -> Sessions \cup {0}] :
          /\ registered' = reg
          /\ reg \in {registered, [registered EXCEPT ![l] = s]}
          /\ (s <= session /\ l \in granted[s]) \/ reg = registered
          /\ DataChannelStateThen(l, reg, "leaving")
    BY <1>7, HandledChannels
  <2>3. InLoop
    BY <2>1 DEF InLoop
  <2>4. \A k \in Labels :
          registered'[k] <= session /\ (registered'[k] = session => k \in granted[session])
    BY <1>3, <2>2, <2>3 DEF GrantInv
  <2>5. \A k \in Labels : registered[k] # 0 => registered'[k] # 0
    BY <1>3, <2>2
  <2>6. \A k \in opened' : registered'[k] # 0
    <3>1. CASE IsOpen(reg, l) /\ l \notin opened
      BY <2>2, <2>3, <2>5, <3>1, <1>3 DEF DataChannelStateThen, IsOpen, GrantInv
    <3>2. CASE ~(IsOpen(reg, l) /\ l \notin opened)
      <4>1. opened' \subseteq opened
        BY <2>2, <3>2 DEF DataChannelStateThen, NotifyClosed
      <4> QED
        BY <1>3, <2>3, <2>5, <4>1 DEF GrantInv
    <3> QED
      BY <3>1, <3>2
  <2>7. ~Holds(events', Unannounced')
    BY <1>3, <1>4, <2>1
  <2> QED
    BY <2>1, <2>3, <2>4, <2>6, <2>7 DEF GrantInv
<1>8. CASE PollOffer
  <2>1. /\ control = "poll" /\ control' = "offer"
        /\ UNCHANGED <<session, granted, registered, opened>>
    BY <1>8 DEF PollOffer, Polled, Proceed, sigVars, chanVars
  <2>2. \/ configured' = configured
        \/ PollsFrame("offer")
    BY <1>8 DEF PollOffer, PollsFrame, sigVars, chanVars
  <2>3. configured' = configured \/ granted[session] = {}
    <3>1. PollsFrame("offer") => Holds(Pending, OfferFrames)
      BY PolledQueues DEF OfferFrames
    <3> QED
      BY <2>1, <2>2, <3>1 DEF OrderInv
  <2>4. ~Holds(events', Unannounced')
    BY <1>3, <1>4, <2>1
  <2> QED
    BY <2>1, <2>3, <2>4 DEF GrantInv, InLoop
<1>9. CASE PollSwitched \/ FlushDone \/ FlushFails
  <2>1. /\ control \in {"poll", "flush"} /\ control' # "reconnect"
        /\ UNCHANGED <<session, granted, registered, opened, configured>>
    BY <1>9 DEF PollSwitched, PollSwitchedWhen, Polled, FlushDone, FlushFails, Proceed, Break,
       Fail, sigVars, chanVars, dcVars
  <2>2. ~Holds(events', Unannounced')
    BY <1>3, <1>4, <2>1
  <2> QED
    BY <2>1, <2>2 DEF GrantInv, InLoop
<1>10. CASE HandleDisconnect \/ LeaveLoop \/ CloseWait \/ CloseWaitTimeout
  <2>1. ~InLoop' /\ UNCHANGED <<session, granted, registered>>
    BY <1>10 DEF HandleDisconnect, LeaveLoop, CloseWait, CloseWaitTimeout, CloseWaitTimeoutIf,
       Proceed, InLoop, sigVars, chanVars, dcVars
  <2>2. ~Holds(events', Unannounced')
    BY <1>3, <1>4, <2>1
  <2> QED
    BY <2>1, <2>2 DEF GrantInv
<1>11. CASE Redirect
  <2>1. /\ control' \in {"reconnect", "leaving"} /\ UNCHANGED <<session, granted>>
        /\ registered' = [l \in Labels |-> 0] /\ opened' = {}
    BY <1>11 DEF Redirect, NotifyClosed, Proceed, Break, chanVars
  <2>2. ~Holds(events', Unannounced')
    BY <1>3, <1>4, <2>1
  <2> QED
    BY <1>3, <2>1, <2>2 DEF GrantInv, InLoop
<1>12. CASE Reconnect
  <2>1. /\ control = "reconnect" /\ session' = session + 1 /\ session <= MaxRedirects
        /\ UNCHANGED <<granted, registered, opened>>
    BY <1>12 DEF Reconnect, chanVars, dcVars
  <2>2. opened = {} /\ \A l \in Labels : registered[l] = 0
    BY <2>1 DEF SwitchInv
  <2>3. session + 1 \in Sessions /\ granted[session + 1] = {}
    BY <1>3, <2>1, SessionNumbers, ConnectionAssumption DEF GrantInv
  <2>4. ~Holds(events', Unannounced')
    BY <1>3, <1>4, <2>1
  <2> QED
    BY <1>3, <2>1, <2>2, <2>3, <2>4 DEF GrantInv
<1> QED
  BY <1>5, <1>6, <1>7, <1>8, <1>9, <1>10, <1>11, <1>12, ChannelSteps

\* More open channels leave what was ready so.
LEMMA ReadyGrows ==
  ASSUME TypeOK, NEW l \in Labels, Ready(switched, configured, opened)
  PROVE  Ready(switched, configured, opened \cup {l})
<1>1. IsFiniteSet(opened) /\ IsFiniteSet(opened \cup {l}) /\ IsFiniteSet(configured)
  <2>1. IsFiniteSet(Labels) /\ opened \in SUBSET Labels /\ configured \in SUBSET Labels
    BY ConnectionAssumption DEF ConnectionAssumption, TypeOK, ChannelType
  <2> QED
    BY <2>1, FS_Subset
<1>2. Cardinality(opened) <= Cardinality(opened \cup {l})
  BY <1>1, FS_Subset
<1>3. /\ Cardinality(opened) \in Nat /\ Cardinality(configured) \in Nat
      /\ Cardinality(opened \cup {l}) \in Nat
  BY <1>1, FS_CardinalityType
<1> QED
  BY <1>2, <1>3 DEF Ready

\* useDC is readiness after the switch, over every step.
LEMMA SwitchHolds ==
  TypeOK /\ OrderInv /\ GrantInv /\ SwitchInv /\ [Next]_vars => SwitchInv'
<1> SUFFICES ASSUME TypeOK, OrderInv, GrantInv, SwitchInv, [Next]_vars PROVE SwitchInv'
  OBVIOUS
<1>1. CASE UNCHANGED vars
  <2>1. /\ UNCHANGED <<switched, iws, useDC, selfClosed>>
        /\ UNCHANGED <<registered, opened, configured, control>>
    BY <1>1 DEF vars, flowVars, sigVars, dcVars
  <2> QED
    BY <2>1 DEF SwitchInv, InLoop, Ignoring, Ready
<1> SUFFICES ASSUME Next PROVE SwitchInv'
  BY <1>1
<1>2. /\ switched \in BOOLEAN /\ iws \in BOOLEAN /\ useDC \in BOOLEAN /\ selfClosed \in BOOLEAN
  BY DEF TypeOK, SessionType, HistoryType
<1>3. CASE KeepStep \/ OfferDone
  <2>1. Keeps
    BY <1>3, KeepSteps, AnswerKeeps
  <2>2. UNCHANGED <<switched, iws, useDC, selfClosed, registered, configured, opened>>
    BY <2>1 DEF Keeps
  <2>3. (InLoop' => InLoop) /\ (control' = "reconnect" => control = "reconnect")
    BY <2>1 DEF Keeps
  <2>4. /\ iws' => switched'
        /\ selfClosed' => Ignoring'
        /\ InLoop' => (useDC' <=> Ready(switched', configured', opened'))
    BY <2>2, <2>3 DEF SwitchInv, Ignoring
  <2>5. control' = "reconnect" =>
          /\ ~switched' /\ ~iws' /\ ~useDC' /\ ~selfClosed'
          /\ opened' = {} /\ configured' = {}
          /\ \A l \in Labels : registered'[l] = 0
    BY <2>2, <2>3 DEF SwitchInv
  <2> QED
    BY <2>4, <2>5 DEF SwitchInv
<1>4. CASE HandleDisconnect \/ LeaveLoop \/ CloseWait \/ CloseWaitTimeout
  <2>1. ~InLoop' /\ UNCHANGED <<switched, iws, useDC, selfClosed>> /\ control' # "reconnect"
    BY <1>4 DEF HandleDisconnect, LeaveLoop, CloseWait, CloseWaitTimeout, CloseWaitTimeoutIf,
       Proceed, InLoop, sigVars
  <2> QED
    BY <2>1 DEF SwitchInv, Ignoring
<1>5. CASE HandleRegister \/ HandleStateChange
  <2>1. control = "select" /\ UNCHANGED <<configured, switched, iws, selfClosed>>
    BY <1>5, HandledChannels
  <2>2. PICK l \in Labels, reg \in [Labels -> Sessions \cup {0}] :
          DataChannelStateThen(l, reg, "leaving")
    BY <1>5, HandledChannels
  <2>3. control' \in {"poll", "leaving"}
    BY <2>2 DEF DataChannelStateThen, Proceed
  <2>4. useDC => useDC'
    BY <1>2, <2>2 DEF DataChannelStateThen
  <2>5. InLoop' => (useDC' <=> Ready(switched, configured, opened'))
    <3>1. useDC <=> Ready(switched, configured, opened)
      BY <2>1 DEF SwitchInv, InLoop
    <3>2. CASE IsOpen(reg, l) /\ l \notin opened
      <4>1. /\ opened' = opened \cup {l}
            /\ useDC' = (useDC \/ Ready(switched, configured, opened \cup {l}))
        BY <2>2, <3>2 DEF DataChannelStateThen
      <4>2. useDC => Ready(switched, configured, opened \cup {l})
        BY <3>1, ReadyGrows
      <4> QED
        BY <4>1, <4>2
    <3>3. CASE ~(IsOpen(reg, l) /\ l \notin opened) /\ IsClosed(reg, l) /\ l \in opened
      BY <2>2, <3>3 DEF DataChannelStateThen, Proceed, InLoop
    <3>4. CASE /\ ~(IsOpen(reg, l) /\ l \notin opened)
               /\ ~(IsClosed(reg, l) /\ l \in opened)
      BY <2>2, <3>1, <3>4 DEF DataChannelStateThen
    <3> QED
      BY <3>2, <3>3, <3>4
  <2> QED
    BY <2>1, <2>3, <2>4, <2>5 DEF SwitchInv, Ignoring
<1>6. CASE PollOffer
  <2>1. /\ control = "poll" /\ control' = "offer"
        /\ UNCHANGED <<switched, iws, useDC, selfClosed, opened>>
    BY <1>6 DEF PollOffer, Polled, Proceed, sigVars
  <2>2. configured' = configured \/ PollsFrame("offer")
    BY <1>6 DEF PollOffer, PollsFrame, sigVars, chanVars
  <2>3. PollsFrame("offer") => ~switched
    <3>1. PollsFrame("offer") => Holds(Pending, OfferFrames)
      BY PolledQueues DEF OfferFrames
    <3> QED
      BY <2>1, <3>1 DEF OrderInv
  <2>4. useDC' <=> Ready(switched', configured', opened')
    BY <2>1, <2>2, <2>3 DEF SwitchInv, InLoop, Ready
  <2> QED
    BY <2>1, <2>4 DEF SwitchInv, Ignoring
<1>7. CASE PollSwitched
  <2>1. /\ control = "poll" /\ control' = "poll"
        /\ switched' = TRUE /\ iws' \in BOOLEAN
        /\ useDC' = (useDC \/ Ready(TRUE, configured, opened))
        /\ UNCHANGED <<configured, opened, selfClosed>>
    BY <1>7 DEF PollSwitched, PollSwitchedWhen, Polled, Proceed, dcVars
  <2>2. ~switched
    <3>1. PICK f \in SwitchFrames : PollsFrame(f)
      BY <1>7, PolledFrames DEF SwitchFrames
    <3>2. Holds(Pending, SwitchFrames)
      BY <3>1, PolledQueues
    <3> QED
      BY <2>1, <3>2 DEF OrderInv
  <2>3. ~useDC /\ ~selfClosed
    BY <2>1, <2>2 DEF SwitchInv, InLoop, Ready, Ignoring
  <2> QED
    BY <2>1, <2>3 DEF SwitchInv
<1>8. CASE Redirect
  <2>1. /\ ~switched' /\ ~iws' /\ ~useDC' /\ ~selfClosed' /\ opened' = {} /\ configured' = {}
        /\ registered' = [l \in Labels |-> 0]
    BY <1>8 DEF Redirect, NotifyClosed
  <2> QED
    BY <2>1 DEF SwitchInv, Ready
<1>9. CASE Reconnect
  <2>1. /\ UNCHANGED <<switched, iws, useDC, selfClosed, configured, opened>>
        /\ control = "reconnect" /\ control' # "reconnect"
    BY <1>9 DEF Reconnect, Proceed, Break, dcVars
  <2> QED
    BY <2>1 DEF SwitchInv, InLoop, Ignoring
<1>10. CASE FlushDone \/ FlushFails
  <2>1. /\ UNCHANGED <<switched, iws, useDC, configured, opened>>
        /\ control = "flush" /\ control' # "reconnect"
        /\ selfClosed' = (selfClosed \/ wsState' # wsState)
        /\ wsState' = StateAfterSwitch
    BY <1>10 DEF FlushDone, FlushFails, Proceed, Break, Fail, sigVars, dcVars
  <2>2. wsState' # wsState => Ignoring
    BY <2>1 DEF StateAfterSwitch, SwitchingReady, SwitchInv, InLoop, Ignoring
  <2> QED
    BY <2>1, <2>2 DEF SwitchInv, InLoop, Ignoring
<1> QED
  BY <1>3, <1>4, <1>5, <1>6, <1>7, <1>8, <1>9, <1>10, ChannelSteps

-----------------------------------------------------------------------------
(* The invariant of the sessions, and what it says.                        *)

SessionInv == TypeOK /\ OpeningInv /\ CloseInv /\ OrderInv /\ GrantInv /\ SwitchInv

\* All of it holds in every reachable state.
LEMMA SessionInvHolds == Spec => []SessionInv
<1>1. Init => SessionInv
  BY InitTypes, InitOpening, InitClose, InitSession, ConnectionAssumption DEF SessionInv
<1>2. SessionInv /\ [Next]_vars => SessionInv'
  BY NextTypes, OpeningHolds, CloseHolds, FrameOrderHolds, GrantHolds, SwitchHolds,
     ConnectionAssumption DEF SessionInv
<1> QED
  BY <1>1, <1>2, PTL DEF Spec

\* On every WebSocket of every session, `connect` is the first text that run() sends:
\* whatever waits in event_rx from the session before is sent later or not at all.
THEOREM ConnectFirst == Spec => []ConnectComesFirst
<1>1. SessionInv => ConnectComesFirst
  BY DEF SessionInv, OpeningInv, ConnectComesFirst
<1> QED
  BY <1>1, SessionInvHolds, PTL

\* on_websocket_close is called at most once per WebSocket, by the loop or by the
\* closing handshake after it.
THEOREM ClosedOnce == Spec => []WebSocketCloseOnce
<1>1. SessionInv => WebSocketCloseOnce
  BY DEF SessionInv, CloseInv, WebSocketCloseOnce
<1> QED
  BY <1>1, SessionInvHolds, PTL

\* run() closes a WebSocket for the switch only when it will absorb the loss.
THEOREM SelfCloseAbsorbed == Spec => []SelfCloseIsAbsorbed
<1>1. SessionInv => SelfCloseIsAbsorbed
  BY DEF SessionInv, SwitchInv, SelfCloseIsAbsorbed
<1> QED
  BY <1>1, SessionInvHolds, PTL

\* Signaling is on the DataChannels only after `switched` and with every DataChannel
\* of the Offer open, with any Offers before and after a redirect; only a registered
\* channel of the session before can stand in for one of them.
THEOREM SignalingComplete == Spec => []DataChannelSignalingIsComplete
<1>1. SessionInv => DataChannelSignalingIsComplete
  <2> SUFFICES ASSUME SessionInv, InLoop, useDC
               PROVE  /\ switched
                      /\ configured # {}
                      /\ NoStaleRegistration => configured \subseteq opened
    BY DEF DataChannelSignalingIsComplete
  <2>1. /\ control # "reconnect" /\ control # "done"
        /\ Ready(switched, configured, opened)
    BY DEF SessionInv, SwitchInv, InLoop
  <2>2. switched /\ configured # {}
    BY <2>1 DEF Ready
  <2>3. granted[session] = configured
    BY <2>1, <2>2 DEF SessionInv, OrderInv, GrantInv
  <2>4. ASSUME NoStaleRegistration PROVE configured \subseteq opened
    <3>1. opened \subseteq Labels /\ configured \subseteq Labels /\ IsFiniteSet(Labels)
      BY ConnectionAssumption DEF ConnectionAssumption, SessionInv, TypeOK, ChannelType
    <3>2. opened \subseteq configured
      BY <2>3, <2>4, <3>1 DEF NoStaleRegistration, SessionInv, GrantInv
    <3>3. IsFiniteSet(configured) /\ IsFiniteSet(opened)
      BY <3>1, FS_Subset
    <3>4. Cardinality(opened) >= Cardinality(configured)
      BY <2>1 DEF Ready
    <3>5. opened # configured => Cardinality(opened) < Cardinality(configured)
      BY <3>2, <3>3, FS_Subset, FS_CardinalityType
    <3>6. Cardinality(opened) \in Nat /\ Cardinality(configured) \in Nat
      BY <3>3, FS_CardinalityType
    <3> QED
      BY <3>4, <3>5, <3>6
  <2> QED
    BY <2>2, <2>4
<1> QED
  BY <1>1, SessionInvHolds, PTL
==============================================================================
