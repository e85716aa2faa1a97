------------------------------ MODULE RpcSession ------------------------------
(***************************************************************************)
(* The calls of SoraConnectionHandle and the RPC table of SoraConnection   *)
(* (src/connection.rs, src/rpc.rs).  A call is a command in run()'s        *)
(* command channel and a oneshot that carries its answer.  An RPC request  *)
(* takes the next id, is sent on the `rpc` DataChannel and waits in        *)
(* pending_rpc_responses, while a spawned task sleeps for its timeout and  *)
(* then posts RpcTimeout with that id.  Replies and timeouts come back     *)
(* through the event channel and find their request by its id.  A redirect *)
(* answers what is pending, starts the ids again and drains the channel.   *)
(*                                                                         *)
(* run() is seen as the connect (the first one and that of a redirect),    *)
(* the loop, the time between the loop and the return, and the return.     *)
(***************************************************************************)
EXTENDS Naturals, Sequences

CONSTANTS
  Requests,       \* calls of send_rpc_request that want a reply
  Notifications,  \* calls of send_rpc_request with `notification`; send_message
                  \* and the URL getters are answered in the same way
  StatsCalls,     \* calls of get_stats
  Late,           \* may what was under way in a session arrive in the next one?
  MaxRedirects,   \* bound: redirects
  MaxQueue        \* bound: events that others than the timers may queue up

ASSUME RpcAssumption ==
  /\ Requests \cap Notifications = {}
  /\ Requests \cap StatsCalls = {}
  /\ Notifications \cap StatsCalls = {}
  /\ Late \in BOOLEAN
  /\ {MaxRedirects, MaxQueue} \subseteq Nat

Calls == Requests \cup Notifications \cup StatsCalls

VARIABLES
  phase,      \* where run() is: "loop", "connect", "closing" or "over"
  session,    \* 1, plus one per redirect
  status,     \* per call: what its caller knows
  commands,   \* command_rx, oldest first
  pending,    \* pending_rpc_responses
  counter,    \* rpc_id_counter
  sleeping,   \* timeout tasks in their sleep
  firing,     \* timeout tasks past their sleep and before their send
  events,     \* event_rx, oldest first
  announced,  \* sessions whose rpc channel libwebrtc has announced
  registered, \* session of the rpc channel in data_channels, 0 for none
  asked,      \* requests a server has got, with the channel they came on
  stats,      \* get_stats callbacks held by libwebrtc
  replied,    \* history: requests replied to
  elapsed     \* history: requests whose timeout has passed

runVars == <<phase, session>>
tableVars == <<pending, counter>>
taskVars == <<sleeping, firing>>
channelVars == <<announced, registered, asked>>
historyVars == <<replied, elapsed>>

vars == <<runVars, status, commands, tableVars, taskVars, events, channelVars,
          stats, historyVars>>

\* A request on its way.  The code knows it by its id alone; the call and the
\* session say whose it is.
Request == [id : Nat, call : Requests, session : Nat]

\* Mutated: the event does not say whose timeout it is.
TimeoutAnonymously(r) == [type |-> "RpcTimeout"]

Timeout(r) == [type |-> "RpcTimeout", request |-> r]
Reply(r, valid) == [type |-> "Reply", request |-> r, valid |-> valid]
Register(s) == [type |-> "Register", session |-> s]

Event ==
  [type : {"RpcTimeout"}, request : Request]
    \cup [type : {"Reply"}, request : Request, valid : BOOLEAN]
    \cup [type : {"Register"}, session : Nat]

\* What a caller still waiting may learn; "mistimed" and "misdelivered" are
\* another request's timeout and reply.
Answer == {"ok", "failed", "response", "violation", "timeout", "redirected",
           "commandTimeout", "missing", "refused", "mistimed", "misdelivered"}

Init ==
  /\ phase = "connect"
  /\ session = 1
  /\ status = [c \in Calls |-> "idle"]
  /\ commands = <<>>
  /\ pending = {}
  /\ counter = 0
  /\ sleeping = {}
  /\ firing = {}
  /\ events = <<>>
  /\ announced = {}
  /\ registered = 0
  /\ asked = {}
  /\ stats = {}
  /\ replied = {}
  /\ elapsed = {}

Waiting == {c \in Calls : status[c] \in {"queued", "sent"}}

\* The oneshots of the calls in S carry an answer, for those who still wait for it.
Settle(S, answer) ==
  status' = [c \in Calls |-> IF c \in S \cap Waiting THEN answer ELSE status[c]]

CallsOf(R) == {r.call : r \in R}

-----------------------------------------------------------------------------
(* Callers, libwebrtc, servers and timeout tasks.                          *)

\* send_command: the command is queued, or command_rx is closed.
SendCommand ==
  /\ \E c \in Calls :
       /\ status[c] = "idle"
       /\ IF phase \in {"loop", "connect"}
            THEN /\ status' = [status EXCEPT ![c] = "queued"]
                 /\ commands' = Append(commands, c)
            ELSE /\ status' = [status EXCEPT ![c] = "refused"]
                 /\ UNCHANGED commands
  /\ UNCHANGED <<runVars, tableVars, taskVars, events, channelVars, stats,
                 historyVars>>

\* send_command: the caller of get_stats gives up.
CommandTimesOut ==
  /\ \E c \in StatsCalls \cap Waiting : Settle({c}, "commandTimeout")
  /\ UNCHANGED <<runVars, commands, tableVars, taskVars, events, channelVars,
                 stats, historyVars>>

\* libwebrtc calls a get_stats callback; once run() is over it may drop it instead.
StatsReport ==
  /\ \E c \in stats :
       /\ stats' = stats \ {c}
       /\ \/ Settle({c}, "ok")
          \/ phase = "over" /\ Settle({c}, "missing")
  /\ UNCHANGED <<runVars, commands, tableVars, taskVars, events, channelVars,
                 historyVars>>

\* on_data_channel, for the `rpc` channel of a session.
ChannelArrives ==
  /\ phase # "over"
  /\ Len(events) < MaxQueue
  /\ \E s \in 1..session :
       /\ s \notin announced
       /\ Late \/ (s = session /\ phase # "connect")
       /\ announced' = announced \cup {s}
       /\ events' = Append(events, Register(s))
  /\ UNCHANGED <<runVars, status, commands, tableVars, taskVars, registered,
                 asked, stats, historyVars>>

\* A server replies to a request, well or badly formed, once or again; only the
\* observer of the registered channel hears it.
ServerReplies ==
  /\ phase # "over"
  /\ Len(events) < MaxQueue
  /\ \E a \in asked, valid \in BOOLEAN :
       /\ a.channel = registered
       /\ events' = Append(events, Reply(a.request, valid))
       /\ replied' = replied \cup {a.request.call}
  /\ UNCHANGED <<runVars, status, commands, tableVars, taskVars, channelVars,
                 stats, elapsed>>

\* A timeout task wakes up; from here on abort() does not stop it any more.
SleepEnds ==
  /\ \E r \in sleeping :
       /\ sleeping' = sleeping \ {r}
       /\ firing' = firing \cup {r}
       /\ elapsed' = elapsed \cup {r.call}
  /\ UNCHANGED <<runVars, status, commands, tableVars, events, channelVars, stats,
                 replied>>

\* A timeout task posts RpcTimeout; nobody gets it once run() is over.
TimeoutPosts ==
  /\ \E r \in firing :
       /\ firing' = firing \ {r}
       /\ events' = IF phase = "over" THEN events ELSE Append(events, Timeout(r))
  /\ UNCHANGED <<runVars, status, commands, tableVars, sleeping, channelVars,
                 stats, historyVars>>

-----------------------------------------------------------------------------
(* The command branch of the loop.                                         *)

TakeCommand(c) ==
  /\ phase = "loop"
  /\ commands # <<>>
  /\ Head(commands) = c
  /\ commands' = Tail(commands)

\* build_rpc_message: a request takes the next id.
NextId == counter + 1

\* Mutated: every timeout task is aborted.
AbortAll(R) == sleeping' = {}

\* PendingRpcRequest::drop, for the entries in R.
Abort(R) == sleeping' = sleeping \ R

\* SendRpcRequest: the request is sent on the registered channel and put into the
\* table, in the place of an entry with that id, and its timeout task is spawned;
\* or sending fails, and the id is spent all the same.
HandleRequest ==
  /\ \E c \in Requests :
       /\ TakeCommand(c)
       /\ counter' = NextId
       /\ \/ LET r == [id |-> NextId, call |-> c, session |-> session]
                 displaced == {p \in pending : p.id = r.id}
             IN /\ registered # 0
                /\ pending' = (pending \ displaced) \cup {r}
                /\ sleeping' = (sleeping \ displaced) \cup {r}
                /\ asked' = asked \cup {[request |-> r, channel |-> registered]}
                /\ status' = [d \in Calls |->
                     CASE d = c -> "sent"
                       [] d # c /\ d \in CallsOf(displaced) -> "missing"
                       [] OTHER -> status[d]]
          \/ /\ Settle({c}, "failed")
             /\ UNCHANGED <<pending, sleeping, asked>>
  /\ UNCHANGED <<runVars, firing, events, announced, registered, stats,
                 historyVars>>

\* SendRpcRequest with `notification`: no id, no entry.
HandleNotification ==
  /\ \E c \in Notifications :
       /\ TakeCommand(c)
       /\ \/ registered # 0 /\ Settle({c}, "ok")
          \/ Settle({c}, "failed")
  /\ UNCHANGED <<runVars, tableVars, taskVars, events, channelVars, stats,
                 historyVars>>

\* GetStats: the callback will answer, the loop goes on.
HandleGetStats ==
  /\ \E c \in StatsCalls :
       /\ TakeCommand(c)
       /\ stats' = stats \cup {c}
       /\ Settle({c}, "sent")
  /\ UNCHANGED <<runVars, tableVars, taskVars, events, channelVars, historyVars>>

-----------------------------------------------------------------------------
(* The event branch of the loop.                                           *)

TakeEvent(type) ==
  /\ phase = "loop"
  /\ events # <<>>
  /\ Head(events).type = type
  /\ events' = Tail(events)

\* The entries in R leave the table with an answer.
Remove(R, answer) ==
  /\ pending' = pending \ R
  /\ Abort(R)
  /\ Settle(CallsOf(R), answer)

Found(r) == {p \in pending : p.id = r.id}

\* RpcTimeout
HandleTimeout ==
  /\ TakeEvent("RpcTimeout")
  /\ LET r == Head(events).request
     IN Remove(Found(r), IF Found(r) \subseteq {r} THEN "timeout" ELSE "mistimed")
  /\ UNCHANGED <<runVars, commands, counter, firing, channelVars, stats, historyVars>>

\* A message on the `rpc` channel whose id can be trusted: a response, or a
\* violation of the protocol.
HandleReply ==
  /\ TakeEvent("Reply")
  /\ LET r == Head(events).request
     IN Remove(Found(r), CASE ~(Found(r) \subseteq {r}) -> "misdelivered"
                           [] Found(r) \subseteq {r} /\ Head(events).valid -> "response"
                           [] OTHER -> "violation")
  /\ UNCHANGED <<runVars, commands, counter, firing, channelVars, stats, historyVars>>

\* DataChannelRegister, for the `rpc` channel.
HandleRegister ==
  /\ TakeEvent("Register")
  /\ registered' = Head(events).session
  /\ UNCHANGED <<runVars, status, commands, tableVars, taskVars, announced, asked,
                 stats, historyVars>>

-----------------------------------------------------------------------------
(* The redirect and the end.                                               *)

\* Mutated: the ids start again while requests of the old session are pending.
RedirectKeepingPending ==
  /\ phase = "loop"
  /\ session <= MaxRedirects
  /\ session' = session + 1
  /\ phase' = "connect"
  /\ counter' = 0
  /\ registered' = 0
  /\ asked' = {}
  /\ events' = <<>>
  /\ UNCHANGED <<status, commands, pending, taskVars, announced, stats, historyVars>>

\* What is pending is answered, the ids start again, the old channels go with
\* their observers and the event channel is drained.
Redirect ==
  /\ phase = "loop"
  /\ session <= MaxRedirects
  /\ session' = session + 1
  /\ phase' = "connect"
  /\ Remove(pending, "redirected")
  /\ counter' = 0
  /\ registered' = 0
  /\ asked' = {}
  /\ events' = <<>>
  /\ UNCHANGED <<commands, firing, announced, stats, historyVars>>

\* connect_websocket has returned.  Unless Late, the timeout tasks that abort()
\* did not stop have posted by then.
Connected ==
  /\ phase = "connect"
  /\ Late \/ firing = {}
  /\ phase' = "loop"
  /\ UNCHANGED <<session, status, commands, tableVars, taskVars, events, channelVars,
                 stats, historyVars>>

Queued == {commands[i] : i \in 1..Len(commands)}

\* The loop is left: the command channel is closed, its commands are dropped.
LeaveLoop ==
  /\ phase \in {"loop", "connect"}
  /\ phase' = "closing"
  /\ Settle(Queued, "missing")
  /\ commands' = <<>>
  /\ UNCHANGED <<session, tableVars, taskVars, events, channelVars, stats,
                 historyVars>>

\* wait_data_channels_close: none of these events counts there.
CloseWait ==
  /\ phase = "closing"
  /\ events # <<>>
  /\ events' = Tail(events)
  /\ UNCHANGED <<runVars, status, commands, tableVars, taskVars, channelVars, stats,
                 historyVars>>

\* Mutated: run() returns without its table.
ReturnKeepingPending ==
  /\ phase # "over"
  /\ phase' = "over"
  /\ Settle(Queued, "missing")
  /\ commands' = <<>>
  /\ events' = <<>>
  /\ UNCHANGED <<session, tableVars, taskVars, channelVars, stats, historyVars>>

\* run() returns, by a `?` or at its end: the connection is dropped with all that
\* waits in it.
Return ==
  /\ phase # "over"
  /\ phase' = "over"
  /\ pending' = {}
  /\ Abort(pending)
  /\ Settle(Queued \cup CallsOf(pending), "missing")
  /\ commands' = <<>>
  /\ events' = <<>>
  /\ UNCHANGED <<session, counter, firing, channelVars, stats, historyVars>>

-----------------------------------------------------------------------------
HandleCommand ==
  \/ HandleRequest
  \/ HandleNotification
  \/ HandleGetStats

HandleEvent ==
  \/ HandleTimeout
  \/ HandleReply
  \/ HandleRegister

Environment ==
  \/ SendCommand
  \/ CommandTimesOut
  \/ StatsReport
  \/ ChannelArrives
  \/ ServerReplies
  \/ SleepEnds
  \/ TimeoutPosts

Next ==
  \/ Environment
  \/ HandleCommand
  \/ HandleEvent
  \/ Redirect
  \/ Connected
  \/ LeaveLoop
  \/ CloseWait
  \/ Return

Spec == Init /\ [][Next]_vars

\* Sleeps end, select! is fair to its branches, the connect has a deadline (it
\* succeeds or run() fails), what follows the loop has deadlines too.  The server,
\* libwebrtc's callbacks and the end of the loop are owed by nobody.
Fairness ==
  /\ WF_vars(SleepEnds)
  /\ WF_vars(TimeoutPosts)
  /\ WF_vars(CommandTimesOut)
  /\ WF_vars(HandleCommand)
  /\ WF_vars(HandleEvent)
  /\ WF_vars(Connected \/ (phase = "connect" /\ Return))
  /\ WF_vars(phase = "closing" /\ Return)

FairSpec == Spec /\ Fairness

-----------------------------------------------------------------------------
(* Properties.                                                             *)

\* Every variable stays in its range; the ids of the table are those handed out.
TypeOK ==
  /\ phase \in {"loop", "connect", "closing", "over"}
  /\ session \in Nat
  /\ status \in [Calls -> Answer \cup {"idle", "queued", "sent"}]
  /\ commands \in Seq(Calls)
  /\ pending \subseteq Request
  /\ counter \in Nat
  /\ sleeping \subseteq Request
  /\ firing \subseteq Request
  /\ events \in Seq(Event)
  /\ announced \subseteq Nat
  /\ registered \in Nat
  /\ asked \subseteq [request : Request, channel : Nat]
  /\ stats \subseteq StatsCalls
  /\ replied \subseteq Requests
  /\ elapsed \subseteq Requests

\* A request whose caller waits for the reply is in the table, under an id of its
\* own, whatever timeouts, replies and redirects come in between: no entry is lost,
\* overwritten or left behind.
SentIsPending ==
  /\ \A c \in Requests : status[c] = "sent" <=> c \in CallsOf(pending)
  /\ \A p, q \in pending : p.id = q.id \/ p.call = q.call => p = q

\* While the loop runs, the timeout of every pending request is still to come: its
\* task sleeps or is about to post, or its event is queued.
TimeoutIsPending ==
  phase \in {"loop", "connect"} =>
    \A p \in pending : \/ p \in sleeping \cup firing
                       \/ \E i \in 1..Len(events) : events[i] = Timeout(p)

\* Whatever it was, a call is answered: with its reply, its timeout, an error of
\* the redirect, or the end of run().
CallAnswered ==
  \A c \in Calls : status[c] \in {"queued", "sent"} ~> status[c] \notin {"queued", "sent"}

\* The doc of send_rpc_request: RpcTimeout is the passing of options.timeout, of
\* that very request.
TimeoutIsOwn == \A c \in Calls : status[c] # "mistimed"

\* The refinement mapping: what the contract sees of the calls.
Seen == [c \in Calls |-> IF c \in Waiting THEN "waiting" ELSE status[c]]

Ended == phase \in {"closing", "over"}

Contract == INSTANCE RpcContract WITH status <- Seen, ended <- Ended

\* The handle's promise: one answer per call; replies and timeouts answer their own
\* request although only ids travel and ids start again with every redirect; only
\* the end leaves a call without an answer.
ImplementsContract == Contract!Spec
=============================================================================
