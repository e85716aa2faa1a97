-------------------------- MODULE RpcSession_proofs --------------------------
(***************************************************************************)
(* Theorems about RpcSession, for any calls, redirects and queue length.   *)
(***************************************************************************)
EXTENDS RpcSession, TLAPS

-----------------------------------------------------------------------------
(* Types.                                                                  *)

Status == Answer \cup {"idle", "queued", "sent"}

\* Settle leaves status a function of the calls.
LEMMA SettleType ==
  ASSUME TypeOK, NEW S, NEW answer \in Status, Settle(S, answer)
  PROVE  status' \in [Calls -> Status]
<1>1. status \in [Calls -> Status]
  BY DEF TypeOK, Status
<1> QED
  BY <1>1 DEF Settle

\* Sequences stay sequences.
LEMMA SeqType ==
  ASSUME NEW T, NEW s \in Seq(T)
  PROVE  /\ \A e \in T : Append(s, e) \in Seq(T)
         /\ s # <<>> => Head(s) \in T /\ Tail(s) \in Seq(T)
  OBVIOUS

\* What the events carry.
LEMMA EventType ==
  /\ \A r \in Request : Timeout(r) \in Event
  /\ \A r \in Request, valid \in BOOLEAN : Reply(r, valid) \in Event
  /\ \A s \in Nat : Register(s) \in Event
  /\ \A e \in Event : /\ e.type \in {"RpcTimeout", "Reply"} => e.request \in Request
                      /\ e.type = "Register" => e.session \in Nat
  BY DEF Timeout, Reply, Register, Event

LEMMA TypeInit == Init => TypeOK
  BY RpcAssumption DEF Init, TypeOK, Calls, Event, Request

LEMMA TypeStep == TypeOK /\ [Next]_vars => TypeOK'
<1> SUFFICES ASSUME TypeOK, [Next]_vars
             PROVE  TypeOK'
  OBVIOUS
<1> USE DEF runVars, tableVars, taskVars, channelVars, historyVars
<1>T. status \in [Calls -> Status] /\ commands \in Seq(Calls) /\ events \in Seq(Event)
  BY DEF TypeOK, Status
<1>S. ASSUME status' \in [Calls -> Status],
             commands' \in Seq(Calls),
             events' \in Seq(Event),
             phase' \in {"loop", "connect", "closing", "over"},
             session' \in Nat, counter' \in Nat, registered' \in Nat,
             pending' \subseteq Request, sleeping' \subseteq Request,
             firing' \subseteq Request, announced' \subseteq Nat,
             asked' \subseteq [request : Request, channel : Nat],
             stats' \subseteq StatsCalls,
             replied' \subseteq Requests, elapsed' \subseteq Requests
      PROVE  TypeOK'
  BY <1>S DEF TypeOK, Status
<1>R. \A r \in Request : r.id \in Nat /\ r.call \in Requests /\ r.session \in Nat
  BY DEF Request
<1>E. events # <<>> => Head(events) \in Event /\ Tail(events) \in Seq(Event)
  BY <1>T, SeqType
<1>C. commands # <<>> => Head(commands) \in Calls /\ Tail(commands) \in Seq(Calls)
  BY <1>T, SeqType
<1>1. CASE SendCommand
  <2>1. status' \in [Calls -> Status] /\ commands' \in Seq(Calls)
    <3>1. PICK c \in Calls :
            \/ /\ status' = [status EXCEPT ![c] = "queued"]
               /\ commands' = Append(commands, c)
            \/ /\ status' = [status EXCEPT ![c] = "refused"]
               /\ UNCHANGED commands
      BY <1>1 DEF SendCommand
    <3>2. status' \in [Calls -> Status]
      BY <3>1, <1>T DEF Status, Answer
    <3>3. commands' \in Seq(Calls)
      BY <3>1, <1>T, SeqType
    <3> QED BY <3>2, <3>3
  <2> QED
    BY <2>1, <1>1, <1>S, <1>T DEF SendCommand, TypeOK
<1>2. CASE CommandTimesOut
  <2>1. status' \in [Calls -> Status]
    BY <1>2, SettleType DEF CommandTimesOut, Status, Answer
  <2> QED
    BY <2>1, <1>2, <1>S, <1>T DEF CommandTimesOut, TypeOK
<1>3. CASE StatsReport
  <2>1. status' \in [Calls -> Status]
    BY <1>3, SettleType DEF StatsReport, Status, Answer
  <2>2. stats' \subseteq StatsCalls
    BY <1>3 DEF StatsReport, TypeOK
  <2> QED
    BY <2>1, <2>2, <1>3, <1>S, <1>T DEF StatsReport, TypeOK
<1>4. CASE ChannelArrives
  <2>1. PICK s \in 1..session : /\ announced' = announced \cup {s}
                                /\ events' = Append(events, Register(s))
    BY <1>4 DEF ChannelArrives
  <2>2. s \in Nat
    BY DEF TypeOK
  <2>3. events' \in Seq(Event)
    BY <2>1, <2>2, <1>T, SeqType, EventType
  <2>4. announced' \subseteq Nat
    BY <2>1, <2>2 DEF TypeOK
  <2> QED
    BY <2>3, <2>4, <1>4, <1>S, <1>T DEF ChannelArrives, TypeOK
<1>5. CASE ServerReplies
  <2>1. PICK a \in asked, valid \in BOOLEAN :
          /\ events' = Append(events, Reply(a.request, valid))
          /\ replied' = replied \cup {a.request.call}
    BY <1>5 DEF ServerReplies
  <2>2. a.request \in Request
    BY DEF TypeOK
  <2>3. events' \in Seq(Event)
    BY <2>1, <2>2, <1>T, SeqType, EventType
  <2>4. replied' \subseteq Requests
    BY <2>1, <2>2, <1>R DEF TypeOK
  <2> QED
    BY <2>3, <2>4, <1>5, <1>S, <1>T DEF ServerReplies, TypeOK
<1>6. CASE SleepEnds
  <2>1. PICK r \in sleeping : /\ sleeping' = sleeping \ {r}
                              /\ firing' = firing \cup {r}
                              /\ elapsed' = elapsed \cup {r.call}
    BY <1>6 DEF SleepEnds
  <2>2. sleeping' \subseteq Request /\ firing' \subseteq Request /\ elapsed' \subseteq Requests
    BY <2>1, <1>R DEF TypeOK
  <2> QED
    BY <2>2, <1>6, <1>S, <1>T DEF SleepEnds, TypeOK
<1>7. CASE TimeoutPosts
  <2>1. PICK r \in firing :
          /\ firing' = firing \ {r}
          /\ events' = IF phase = "over" THEN events ELSE Append(events, Timeout(r))
    BY <1>7 DEF TimeoutPosts
  <2>2. r \in Request /\ firing' \subseteq Request
    BY <2>1 DEF TypeOK
  <2>3. events' \in Seq(Event)
    BY <2>1, <2>2, <1>T, SeqType, EventType
  <2> QED
    BY <2>2, <2>3, <1>7, <1>S, <1>T DEF TimeoutPosts, TypeOK
<1>8. CASE HandleRequest
  <2>1. PICK c \in Requests :
          /\ TakeCommand(c)
          /\ counter' = NextId
          /\ \/ LET r == [id |-> NextId, call |-> c, session |-> session]
                    displaced == {p \in pending : p.id = r.id}
                IN /\ registered # 0
                   /\ pending' = (pending \ displaced) \cup {r}
                   /\ sleeping' = (sleeping \ displaced) \cup {r}
                   /\ asked' = asked \cup {[request |-> r, channel |-> registered]}
                   /\ status' = [d \in Calls |->
                        CASE d = c -> "sent"
                          [] d # c /\ d \in CallsOf(displaced) -> "missing"
                          [] OTHER -> status[d]]
             \/ /\ Settle({c}, "failed")
                /\ UNCHANGED <<pending, sleeping, asked>>
    BY <1>8 DEF HandleRequest
  <2>2. commands' \in Seq(Calls)
    BY <2>1, <1>C DEF TakeCommand
  <2>3. counter' \in Nat
    BY <2>1 DEF NextId, TypeOK
  <2>4. CASE Settle({c}, "failed") /\ UNCHANGED <<pending, sleeping, asked>>
    <3>1. status' \in [Calls -> Status]
      BY <2>4, SettleType DEF Status, Answer
    <3> QED
      BY <3>1, <2>2, <2>3, <2>4, <1>8, <1>S, <1>T DEF HandleRequest, TypeOK
  <2>5. CASE ~(Settle({c}, "failed") /\ UNCHANGED <<pending, sleeping, asked>>)
    <3> DEFINE r == [id |-> NextId, call |-> c, session |-> session]
    <3> DEFINE displaced == {p \in pending : p.id = r.id}
    <3>1. /\ pending' = (pending \ displaced) \cup {r}
          /\ sleeping' = (sleeping \ displaced) \cup {r}
          /\ asked' = asked \cup {[request |-> r, channel |-> registered]}
          /\ status' = [d \in Calls |->
               CASE d = c -> "sent"
                 [] d # c /\ d \in CallsOf(displaced) -> "missing"
                 [] OTHER -> status[d]]
      BY <2>1, <2>5
    <3>2. r \in Request
      BY DEF Request, NextId, TypeOK
    <3>3. status' \in [Calls -> Status]
      <4>1. \A d \in Calls : status[d] \in Status
        BY <1>T
      <4>2. "sent" \in Status /\ "missing" \in Status
        BY DEF Status, Answer
      <4> HIDE DEF displaced, r
      <4> QED BY <3>1, <4>1, <4>2
    <3>4. asked' \subseteq [request : Request, channel : Nat]
      <4> HIDE DEF r
      <4> QED BY <3>1, <3>2 DEF TypeOK
    <3>5. pending' \subseteq Request /\ sleeping' \subseteq Request
      <4> HIDE DEF r, displaced
      <4> QED BY <3>1, <3>2 DEF TypeOK
    <3> QED
      BY <3>3, <3>4, <3>5, <2>2, <2>3, <1>8, <1>S, <1>T DEF HandleRequest, TypeOK
  <2> QED BY <2>4, <2>5
<1>9. CASE HandleNotification
  <2>1. status' \in [Calls -> Status]
    BY <1>9, SettleType DEF HandleNotification, Status, Answer
  <2>2. commands' \in Seq(Calls)
    BY <1>9, <1>C DEF HandleNotification, TakeCommand
  <2> QED
    BY <2>1, <2>2, <1>9, <1>S, <1>T DEF HandleNotification, TypeOK
<1>10. CASE HandleGetStats
  <2>1. status' \in [Calls -> Status]
    BY <1>10, SettleType DEF HandleGetStats, Status, Answer
  <2>2. commands' \in Seq(Calls) /\ stats' \subseteq StatsCalls
    BY <1>10, <1>C DEF HandleGetStats, TakeCommand, TypeOK
  <2> QED
    BY <2>1, <2>2, <1>10, <1>S, <1>T DEF HandleGetStats, TypeOK
<1>A. ASSUME NEW R, NEW answer \in Status, Remove(R, answer)
      PROVE  status' \in [Calls -> Status] /\ pending' \subseteq Request /\ sleeping' \subseteq Request
  BY <1>A, SettleType DEF Remove, Abort, TypeOK
<1>11. CASE HandleTimeout
  <2>1. \E R : \E answer \in Status : Remove(R, answer)
    BY <1>11 DEF HandleTimeout, Status, Answer
  <2>2. events' \in Seq(Event)
    BY <1>11, <1>E DEF HandleTimeout, TakeEvent
  <2> QED
    BY <2>1, <2>2, <1>A, <1>11, <1>S, <1>T DEF HandleTimeout, TakeEvent, TypeOK
<1>12. CASE HandleReply
  <2>1. \E R : \E answer \in Status : Remove(R, answer)
    BY <1>12 DEF HandleReply, Status, Answer
  <2>2. events' \in Seq(Event)
    BY <1>12, <1>E DEF HandleReply, TakeEvent
  <2> QED
    BY <2>1, <2>2, <1>A, <1>12, <1>S, <1>T DEF HandleReply, TakeEvent, TypeOK
<1>13. CASE HandleRegister
  <2>1. events' \in Seq(Event) /\ registered' \in Nat
    BY <1>13, <1>E, EventType DEF HandleRegister, TakeEvent
  <2> QED
    BY <2>1, <1>13, <1>S, <1>T DEF HandleRegister, TypeOK
<1>14. CASE Redirect
  <2>1. "redirected" \in Status
    BY DEF Status, Answer
  <2>2. Remove(pending, "redirected")
    BY <1>14 DEF Redirect
  <2>3. status' \in [Calls -> Status] /\ pending' \subseteq Request /\ sleeping' \subseteq Request
    BY <2>1, <2>2, <1>A
  <2>4. session' \in Nat /\ counter' \in Nat /\ registered' \in Nat
    BY <1>14 DEF Redirect, TypeOK
  <2>5. events' \in Seq(Event) /\ asked' = {}
    BY <1>14 DEF Redirect
  <2> QED
    BY <2>3, <2>4, <2>5, <1>14, <1>S, <1>T DEF Redirect, TypeOK
<1>15. CASE Connected
  BY <1>15, <1>S, <1>T DEF Connected, TypeOK
<1>16. CASE LeaveLoop
  <2>1. status' \in [Calls -> Status]
    BY <1>16, SettleType DEF LeaveLoop, Status, Answer
  <2> QED
    BY <2>1, <1>16, <1>S, <1>T DEF LeaveLoop, TypeOK
<1>17. CASE CloseWait
  BY <1>17, <1>E, <1>S, <1>T DEF CloseWait, TypeOK
<1>18. CASE Return
  <2>1. status' \in [Calls -> Status]
    BY <1>18, SettleType DEF Return, Status, Answer
  <2> QED
    BY <2>1, <1>18, <1>S, <1>T DEF Return, Abort, TypeOK
<1>19. CASE UNCHANGED vars
  BY <1>19, <1>S, <1>T DEF vars, TypeOK
<1> QED
  BY <1>1, <1>2, <1>3, <1>4, <1>5, <1>6, <1>7, <1>8, <1>9, <1>10, <1>11, <1>12,
     <1>13, <1>14, <1>15, <1>16, <1>17, <1>18, <1>19
     DEF Next, Environment, HandleCommand, HandleEvent

\* The call table, the RPC table, the timeout tasks and both channels stay in
\* their types, for any calls and any number of redirects, late tasks included.
THEOREM TypeCorrect == Spec => []TypeOK
  BY TypeInit, TypeStep, PTL DEF Spec

-----------------------------------------------------------------------------
(* The table of pending requests.                                          *)

\* A queued request has not been handled yet, and is queued once.
QueuedOnce ==
  /\ \A i \in 1..Len(commands) :
       commands[i] \in Requests => status[commands[i]] = "queued"
  /\ \A i, j \in 1..Len(commands) :
       commands[i] \in Requests /\ commands[i] = commands[j] => i = j
  /\ stats \cap Requests = {}

\* What Settle makes of one call.
LEMMA SettleCall ==
  ASSUME NEW S, NEW answer, Settle(S, answer), NEW c \in Calls
  PROVE  /\ c \in S /\ status[c] \in {"queued", "sent"} => status'[c] = answer
         /\ c \notin S => status'[c] = status[c]
         /\ status[c] \notin {"queued", "sent"} => status'[c] = status[c]
  BY DEF Settle, Waiting

\* Answers are no states of a waiting call.
LEMMA Settled ==
  \A a \in Answer : a # "idle" /\ a # "queued" /\ a # "sent"
  BY DEF Answer

\* The head and the tail of a command channel.
LEMMA HeadTail ==
  ASSUME NEW T, NEW s \in Seq(T), s # <<>>
  PROVE  /\ 1 \in 1..Len(s) /\ Head(s) = s[1]
         /\ Len(Tail(s)) = Len(s) - 1
         /\ \A i \in 1..Len(Tail(s)) : Tail(s)[i] = s[i+1] /\ i+1 \in 1..Len(s)
  OBVIOUS

LEMMA Appended ==
  ASSUME NEW T, NEW s \in Seq(T), NEW e
  PROVE  /\ Len(Append(s, e)) = Len(s) + 1
         /\ \A i \in 1..Len(s) : Append(s, e)[i] = s[i]
         /\ Append(s, e)[Len(s) + 1] = e
         /\ Len(s) \in Nat
  OBVIOUS

LEMMA TableInit == Init => SentIsPending /\ QueuedOnce
<1> SUFFICES ASSUME Init PROVE SentIsPending /\ QueuedOnce
  OBVIOUS
<1>1. pending = {} /\ commands = <<>> /\ stats = {}
  BY DEF Init
<1>2. \A c \in Requests : status[c] = "idle"
  BY DEF Init, Calls
<1>3. QueuedOnce
  BY <1>1 DEF QueuedOnce
<1>4. SentIsPending
  BY <1>1, <1>2 DEF SentIsPending, CallsOf
<1> QED BY <1>3, <1>4

\* A step that leaves the table and the states of requests alone.
LEMMA TableKept ==
  ASSUME SentIsPending, pending' = pending,
         \A c \in Requests : status'[c] = "sent" <=> status[c] = "sent"
  PROVE  SentIsPending'
  BY DEF SentIsPending, CallsOf

LEMMA QueueKept ==
  ASSUME QueuedOnce, commands' = commands, stats' \subseteq stats,
         \A c \in Requests : status[c] = "queued" => status'[c] = "queued"
  PROVE  QueuedOnce'
  BY DEF QueuedOnce

\* The command at the head was queued, and no other place of the queue holds it.
LEMMA QueueTaken ==
  ASSUME TypeOK, QueuedOnce, NEW c \in Calls, TakeCommand(c),
         stats' \cap Requests = {},
         \A d \in Requests \ {c} : status[d] = "queued" => status'[d] = "queued"
  PROVE  /\ QueuedOnce'
         /\ c \in Requests => status[c] = "queued"
<1>1. commands \in Seq(Calls) /\ commands # <<>> /\ commands' = Tail(commands)
      /\ Head(commands) = c
  BY DEF TypeOK, TakeCommand
<1>2. /\ 1 \in 1..Len(commands) /\ commands[1] = c
      /\ Len(commands') = Len(commands) - 1
      /\ \A i \in 1..Len(commands') : commands'[i] = commands[i+1] /\ i+1 \in 1..Len(commands)
  BY <1>1, HeadTail
<1>3. c \in Requests => status[c] = "queued"
  BY <1>2 DEF QueuedOnce
<1>4. ASSUME NEW i \in 1..Len(commands'), commands'[i] \in Requests
      PROVE  commands'[i] # c /\ status'[commands'[i]] = "queued"
  <2>1. commands[i+1] \in Requests /\ status[commands[i+1]] = "queued" /\ commands'[i] = commands[i+1]
    BY <1>2, <1>4 DEF QueuedOnce
  <2>2. commands[i+1] # c
    <3>1. i + 1 # 1
      OBVIOUS
    <3> QED BY <3>1, <2>1, <1>2 DEF QueuedOnce
  <2> QED BY <2>1, <2>2
<1>5. ASSUME NEW i \in 1..Len(commands'), NEW j \in 1..Len(commands'),
             commands'[i] \in Requests, commands'[i] = commands'[j]
      PROVE  i = j
  <2>1. i + 1 = j + 1
    BY <1>2, <1>5 DEF QueuedOnce
  <2> QED BY <2>1
<1> QED BY <1>3, <1>4, <1>5 DEF QueuedOnce

\* Removing entries with an answer keeps the table and the states of requests
\* in step.
LEMMA TableRemoved ==
  ASSUME TypeOK, SentIsPending, QueuedOnce, NEW R, R \subseteq pending,
         NEW answer \in Answer,
         pending' = pending \ R, Settle(CallsOf(R), answer)
  PROVE  /\ SentIsPending'
         /\ \A c \in Requests : status[c] = "queued" => status'[c] = "queued"
<1>1. \A r \in pending : r.call \in Requests
  BY DEF TypeOK, Request
<1>2. ASSUME NEW c \in Requests
      PROVE  /\ c \in CallsOf(R) => status[c] = "sent" /\ status'[c] = answer
             /\ c \notin CallsOf(R) => status'[c] = status[c]
  <2>1. c \in Calls
    BY DEF Calls
  <2>2. c \in CallsOf(R) => status[c] = "sent"
    BY DEF CallsOf, SentIsPending
  <2> QED BY <2>1, <2>2, SettleCall
<1>3. \A c \in Requests : c \in CallsOf(pending') <=> c \in CallsOf(pending) /\ c \notin CallsOf(R)
  BY DEF CallsOf, SentIsPending
<1>4. \A c \in Requests : status'[c] = "sent" <=> c \in CallsOf(pending')
  BY <1>2, <1>3, Settled DEF SentIsPending
<1>5. \A p, q \in pending' : p.id = q.id \/ p.call = q.call => p = q
  BY DEF SentIsPending
<1>6. SentIsPending'
  BY <1>4, <1>5 DEF SentIsPending, CallsOf
<1>7. \A c \in Requests : status[c] = "queued" => status'[c] = "queued"
  BY <1>2
<1> QED BY <1>6, <1>7

LEMMA TableStep ==
  ASSUME TypeOK, SentIsPending, QueuedOnce, [Next]_vars
  PROVE  SentIsPending' /\ QueuedOnce'
<1> USE DEF runVars, tableVars, taskVars, channelVars, historyVars
<1>D. /\ \A c \in Requests : c \in Calls /\ c \notin Notifications /\ c \notin StatsCalls
      /\ \A c \in StatsCalls : c \in Calls /\ c \notin Requests
      /\ \A c \in Notifications : c \in Calls /\ c \notin Requests
  BY RpcAssumption DEF Calls
<1>1. CASE SendCommand
  <2>1. PICK c \in Calls :
          /\ status[c] = "idle"
          /\ \/ /\ status' = [status EXCEPT ![c] = "queued"]
                /\ commands' = Append(commands, c)
             \/ /\ status' = [status EXCEPT ![c] = "refused"]
                /\ UNCHANGED commands
    BY <1>1 DEF SendCommand
  <2>2. status \in [Calls -> Status] /\ commands \in Seq(Calls)
    BY DEF TypeOK, Status
  <2>3. \A d \in Requests : d # c => status'[d] = status[d]
    BY <2>1, <2>2, <1>D
  <2>4. status'[c] # "sent"
    BY <2>1, <2>2
  <2>5. SentIsPending'
    <3>1. pending' = pending
      BY <1>1 DEF SendCommand
    <3>2. \A d \in Requests : status'[d] = "sent" <=> status[d] = "sent"
      BY <2>1, <2>3, <2>4
    <3> QED BY <3>1, <3>2, TableKept
  <2>6. stats' = stats
    BY <1>1 DEF SendCommand
  <2>7. CASE commands' = commands
    BY <2>1, <2>3, <2>5, <2>6, <2>7, QueueKept
  <2>8. CASE status' = [status EXCEPT ![c] = "queued"] /\ commands' = Append(commands, c)
    <3>1. /\ Len(commands') = Len(commands) + 1
          /\ \A i \in 1..Len(commands) : commands'[i] = commands[i]
          /\ commands'[Len(commands) + 1] = c
          /\ Len(commands) \in Nat
      BY <2>8, <2>2, Appended
    <3>2. \A i \in 1..Len(commands) : commands[i] \in Requests =>
            commands[i] # c /\ status'[commands[i]] = "queued"
      BY <2>1, <2>3 DEF QueuedOnce
    <3>3. status'[c] = "queued"
      BY <2>8, <2>2
    <3>4. \A i \in 1..Len(commands') : i \in 1..Len(commands) \/ i = Len(commands) + 1
      BY <3>1
    <3>5. \A i \in 1..Len(commands') :
            commands'[i] \in Requests => status'[commands'[i]] = "queued"
      BY <3>1, <3>2, <3>3, <3>4
    <3>6. \A i, j \in 1..Len(commands') :
            commands'[i] \in Requests /\ commands'[i] = commands'[j] => i = j
      BY <3>1, <3>2, <3>4 DEF QueuedOnce
    <3> QED BY <2>5, <2>6, <3>5, <3>6 DEF QueuedOnce
  <2> QED BY <2>1, <2>5, <2>7, <2>8
<1>S. ASSUME NEW S, NEW answer, Settle(S, answer), NEW c \in Requests, c \notin S
      PROVE  status'[c] = status[c]
  BY <1>S, <1>D, SettleCall
<1>2. CASE CommandTimesOut
  <2>1. \A c \in Requests : status'[c] = status[c]
    BY <1>2, <1>S, <1>D DEF CommandTimesOut
  <2> QED
    BY <2>1, <1>2, TableKept, QueueKept DEF CommandTimesOut
<1>3. CASE StatsReport
  <2>1. stats \cap Requests = {}
    BY DEF QueuedOnce
  <2>2. \A c \in Requests : status'[c] = status[c]
    BY <2>1, <1>3, <1>S DEF StatsReport
  <2>3. stats' \subseteq stats /\ pending' = pending /\ commands' = commands
    BY <1>3 DEF StatsReport
  <2> QED
    BY <2>2, <2>3, TableKept, QueueKept
<1>4. CASE ChannelArrives
  BY <1>4, TableKept, QueueKept DEF ChannelArrives
<1>5. CASE ServerReplies
  BY <1>5, TableKept, QueueKept DEF ServerReplies
<1>6. CASE SleepEnds
  BY <1>6, TableKept, QueueKept DEF SleepEnds
<1>7. CASE TimeoutPosts
  BY <1>7, TableKept, QueueKept DEF TimeoutPosts
<1>8. CASE HandleRequest
  <2>1. PICK c \in Requests :
          /\ TakeCommand(c)
          /\ \/ LET r == [id |-> NextId, call |-> c, session |-> session]
                    displaced == {p \in pending : p.id = r.id}
                IN /\ pending' = (pending \ displaced) \cup {r}
                   /\ status' = [d \in Calls |->
                        CASE d = c -> "sent"
                          [] d # c /\ d \in CallsOf(displaced) -> "missing"
                          [] OTHER -> status[d]]
             \/ Settle({c}, "failed") /\ UNCHANGED pending
    BY <1>8 DEF HandleRequest
  <2>2. stats' \cap Requests = {}
    BY <1>8 DEF HandleRequest, QueuedOnce
  <2>3. c \in Calls
    BY <1>D
  <2>4. status[c] = "queued"
    <3>1. commands \in Seq(Calls) /\ commands # <<>> /\ Head(commands) = c
      BY <2>1 DEF TypeOK, TakeCommand
    <3>2. 1 \in 1..Len(commands) /\ commands[1] = c
      BY <3>1, HeadTail
    <3> QED BY <3>2 DEF QueuedOnce
  <2>5. CASE Settle({c}, "failed") /\ UNCHANGED pending
    <3>1. \A d \in Requests \ {c} : status'[d] = status[d]
      BY <2>5, <1>S
    <3>2. status'[c] = "failed"
      BY <2>5, <2>3, <2>4, SettleCall
    <3>3. \A d \in Requests : status'[d] = "sent" <=> status[d] = "sent"
      BY <3>1, <3>2, <2>4
    <3> QED
      BY <3>1, <3>3, <2>1, <2>2, <2>3, <2>5, TableKept, QueueTaken
  <2>6. CASE ~(Settle({c}, "failed") /\ UNCHANGED pending)
    <3> DEFINE r == [id |-> NextId, call |-> c, session |-> session]
    <3> DEFINE displaced == {p \in pending : p.id = r.id}
    <3>1. /\ pending' = (pending \ displaced) \cup {r}
          /\ status' = [d \in Calls |->
               CASE d = c -> "sent"
                 [] d # c /\ d \in CallsOf(displaced) -> "missing"
                 [] OTHER -> status[d]]
      BY <2>1, <2>6
    <3>2. r.call = c /\ r.id = NextId
      OBVIOUS
    <3>3. \A p \in pending : p.call # c
      BY <2>4 DEF SentIsPending, CallsOf
    <3>4. \A p \in pending : p.id = r.id <=> p \in displaced
      OBVIOUS
    <3>5. \A d \in Calls : /\ d = c => status'[d] = "sent"
                           /\ d # c /\ d \in CallsOf(displaced) => status'[d] = "missing"
                           /\ d # c /\ d \notin CallsOf(displaced) => status'[d] = status[d]
      <4> HIDE DEF displaced, r
      <4> QED BY <3>1
    <3>6. \A d \in CallsOf(displaced) : d \in CallsOf(pending)
      BY DEF CallsOf
    <3>7. \A d \in Requests : status[d] = "queued" => d \notin CallsOf(pending)
      BY DEF SentIsPending
    <3>8. \A d \in Requests \ {c} : status[d] = "queued" => status'[d] = "queued"
      <4> HIDE DEF displaced
      <4> QED BY <3>5, <3>6, <3>7, <1>D
    <3>9. \A d : d \in CallsOf(pending') <=>
                   d = c \/ (d \in CallsOf(pending) /\ d \notin CallsOf(displaced))
      <4>1. \A p, q \in pending : p.call = q.call => p = q
        BY DEF SentIsPending
      <4>2. \A p \in displaced : p \in pending
        OBVIOUS
      <4> HIDE DEF displaced, r
      <4> QED BY <4>1, <4>2, <3>1, <3>2 DEF CallsOf
    <3>10. \A d \in Requests : status'[d] = "sent" <=> d \in CallsOf(pending')
      <4>1. \A d \in Requests : d \in Calls
        BY <1>D
      <4>2. \A d \in Requests : status[d] = "sent" <=> d \in CallsOf(pending)
        BY DEF SentIsPending
      <4> HIDE DEF displaced, r
      <4> QED BY <4>1, <4>2, <3>5, <3>9
    <3>11. \A p, q \in pending' : p.id = q.id \/ p.call = q.call => p = q
      <4>1. \A p, q \in pending : p.id = q.id \/ p.call = q.call => p = q
        BY DEF SentIsPending
      <4> HIDE DEF displaced, r
      <4> QED BY <4>1, <3>1, <3>2, <3>3, <3>4
    <3>12. SentIsPending'
      BY <3>10, <3>11 DEF SentIsPending, CallsOf
    <3> QED
      BY <3>8, <3>12, <2>1, <2>2, <2>3, QueueTaken
  <2> QED BY <2>5, <2>6
<1>9. CASE HandleNotification
  <2>1. PICK c \in Notifications : TakeCommand(c) /\ \E answer \in Answer : Settle({c}, answer)
    BY <1>9 DEF HandleNotification, Answer
  <2>2. \A d \in Requests : status'[d] = status[d]
    BY <2>1, <1>S, <1>D
  <2>3. pending' = pending /\ stats' \cap Requests = {}
    BY <1>9 DEF HandleNotification, QueuedOnce
  <2>4. \A d \in Requests \ {c} : status[d] = "queued" => status'[d] = "queued"
    BY <2>2
  <2>5. c \in Calls
    BY <1>D
  <2>6. QueuedOnce'
    BY <2>1, <2>3, <2>4, <2>5, QueueTaken
  <2> QED
    BY <2>2, <2>3, <2>6, TableKept
<1>10. CASE HandleGetStats
  <2>1. PICK c \in StatsCalls : /\ TakeCommand(c)
                                /\ stats' = stats \cup {c}
                                /\ Settle({c}, "sent")
    BY <1>10 DEF HandleGetStats
  <2>2. \A d \in Requests : status'[d] = status[d]
    BY <2>1, <1>S, <1>D
  <2>3. pending' = pending /\ stats' \cap Requests = {}
    BY <2>1, <1>10, <1>D DEF HandleGetStats, QueuedOnce
  <2>4. \A d \in Requests \ {c} : status[d] = "queued" => status'[d] = "queued"
    BY <2>2
  <2>5. c \in Calls
    BY <1>D
  <2>6. QueuedOnce'
    BY <2>1, <2>3, <2>4, <2>5, QueueTaken
  <2> QED
    BY <2>2, <2>3, <2>6, TableKept
<1>R. ASSUME NEW R, R \subseteq pending, NEW answer \in Answer, Remove(R, answer),
             commands' = commands, stats' = stats
      PROVE  SentIsPending' /\ QueuedOnce'
  <2>1. /\ SentIsPending'
        /\ \A c \in Requests : status[c] = "queued" => status'[c] = "queued"
    BY <1>R, TableRemoved DEF Remove
  <2> QED BY <2>1, <1>R, QueueKept
<1>11. CASE HandleTimeout
  <2>1. PICK R : R \subseteq pending /\ \E answer \in Answer : Remove(R, answer)
    BY <1>11 DEF HandleTimeout, Answer, Found
  <2> QED
    BY <2>1, <1>11, <1>R DEF HandleTimeout
<1>12. CASE HandleReply
  <2>1. PICK R : R \subseteq pending /\ \E answer \in Answer : Remove(R, answer)
    BY <1>12 DEF HandleReply, Answer, Found
  <2> QED
    BY <2>1, <1>12, <1>R DEF HandleReply
<1>13. CASE HandleRegister
  BY <1>13, TableKept, QueueKept DEF HandleRegister
<1>14. CASE Redirect
  <2>1. Remove(pending, "redirected") /\ "redirected" \in Answer
    BY <1>14 DEF Redirect, Answer
  <2> QED
    BY <2>1, <1>14, <1>R DEF Redirect
<1>15. CASE Connected
  BY <1>15, TableKept, QueueKept DEF Connected
<1>16. CASE LeaveLoop
  <2>1. Settle(Queued, "missing")
    BY <1>16 DEF LeaveLoop
  <2>2. commands' = <<>> /\ stats' = stats /\ pending' = pending
    BY <1>16 DEF LeaveLoop
  <2>3. QueuedOnce'
    BY <2>2 DEF QueuedOnce
  <2>4. \A c \in Requests : c \in Queued => status[c] = "queued"
    BY DEF Queued, QueuedOnce
  <2>5. \A c \in Requests : status'[c] = "sent" <=> status[c] = "sent"
    BY <2>1, <2>4, <1>D, SettleCall
  <2> QED
    BY <2>2, <2>3, <2>5, TableKept
<1>17. CASE CloseWait
  BY <1>17, TableKept, QueueKept DEF CloseWait
<1>18. CASE Return
  <2>1. Settle(Queued \cup CallsOf(pending), "missing")
    BY <1>18 DEF Return
  <2>2. commands' = <<>> /\ stats' = stats /\ pending' = {}
    BY <1>18 DEF Return
  <2>3. QueuedOnce'
    BY <2>2 DEF QueuedOnce
  <2>4. \A c \in Requests : status'[c] # "sent"
    <3>1. \A c \in Requests : status[c] = "sent" => c \in CallsOf(pending)
      BY DEF SentIsPending
    <3> QED BY <3>1, <2>1, <1>D, SettleCall
  <2> QED
    BY <2>2, <2>3, <2>4 DEF SentIsPending, CallsOf
<1>19. CASE UNCHANGED vars
  BY <1>19, TableKept, QueueKept DEF vars
<1> QED
  BY <1>1, <1>2, <1>3, <1>4, <1>5, <1>6, <1>7, <1>8, <1>9, <1>10, <1>11, <1>12,
     <1>13, <1>14, <1>15, <1>16, <1>17, <1>18, <1>19
     DEF Next, Environment, HandleCommand, HandleEvent

\* A request whose caller waits for its reply is in the table under an id and for a
\* call of its own, whatever replies, timeouts and redirects do; late tasks included.
THEOREM SentStaysPending == Spec => []SentIsPending
<1>1. Init => TypeOK /\ SentIsPending /\ QueuedOnce
  BY TypeInit, TableInit
<1>2. TypeOK /\ SentIsPending /\ QueuedOnce /\ [Next]_vars
        => TypeOK' /\ SentIsPending' /\ QueuedOnce'
  BY TypeStep, TableStep
<1> QED
  BY <1>1, <1>2, PTL DEF Spec


-----------------------------------------------------------------------------
(* The timeout of a pending request is still to come.                      *)

\* Where a timeout that is to come may be.
ToCome(p) == \/ p \in sleeping \cup firing
             \/ \E i \in 1..Len(events) : events[i] = Timeout(p)

LEMMA TimeoutInit == Init => TimeoutIsPending
  BY DEF Init, TimeoutIsPending

\* Nothing but the head leaves the queue, and a head of another kind is no timeout.
LEMMA EventTaken ==
  ASSUME TypeOK, events # <<>>, events' = Tail(events), NEW e, e # Head(events),
         \E i \in 1..Len(events) : events[i] = e
  PROVE  \E i \in 1..Len(events') : events'[i] = e
<1>1. PICK i \in 1..Len(events) : events[i] = e
  OBVIOUS
<1>2. events \in Seq(Event)
  BY DEF TypeOK
<1>3. Head(events) = events[1] /\ Len(events') = Len(events) - 1
      /\ \A j \in 1..Len(events') : events'[j] = events[j+1]
  BY <1>2, HeadTail
<1>4. i # 1
  BY <1>1, <1>3
<1>5. i - 1 \in 1..Len(events') /\ (i - 1) + 1 = i
  BY <1>2, <1>3, <1>4
<1> QED BY <1>1, <1>3, <1>5

LEMMA EventAdded ==
  ASSUME TypeOK, NEW f, events' = Append(events, f)
  PROVE  /\ \A i \in 1..Len(events) : i \in 1..Len(events') /\ events'[i] = events[i]
         /\ \A i \in 1..Len(events') : i \in 1..Len(events) \/ (i = Len(events) + 1 /\ events'[i] = f)
         /\ Len(events) + 1 \in 1..Len(events') /\ events'[Len(events) + 1] = f
<1>1. events \in Seq(Event)
  BY DEF TypeOK
<1> QED BY <1>1, Appended

LEMMA TimeoutStep ==
  ASSUME TypeOK, TimeoutIsPending, [Next]_vars
  PROVE  TimeoutIsPending'
<1> USE DEF runVars, tableVars, taskVars, channelVars, historyVars
<1>K. ASSUME phase' \in {"loop", "connect"} => phase \in {"loop", "connect"},
             \A p \in pending' : p \in pending,
             \A p \in pending' : ToCome(p) => ToCome(p)'
      PROVE  TimeoutIsPending'
  BY <1>K DEF TimeoutIsPending, ToCome
<1>1. CASE SendCommand
  BY <1>1, <1>K DEF SendCommand, ToCome
<1>2. CASE CommandTimesOut
  BY <1>2, <1>K DEF CommandTimesOut, ToCome
<1>3. CASE StatsReport
  BY <1>3, <1>K DEF StatsReport, ToCome
<1>4. CASE ChannelArrives
  <2>1. PICK s : events' = Append(events, Register(s))
    BY <1>4 DEF ChannelArrives
  <2>2. \A p : ToCome(p) => ToCome(p)'
    BY <2>1, <1>4, EventAdded DEF ToCome, ChannelArrives
  <2> QED BY <2>2, <1>4, <1>K DEF ChannelArrives
<1>5. CASE ServerReplies
  <2>1. PICK e : events' = Append(events, e)
    BY <1>5 DEF ServerReplies
  <2>2. \A p : ToCome(p) => ToCome(p)'
    BY <2>1, <1>5, EventAdded DEF ToCome, ServerReplies
  <2> QED BY <2>2, <1>5, <1>K DEF ServerReplies
<1>6. CASE SleepEnds
  <2>1. \A p : ToCome(p) => ToCome(p)'
    BY <1>6 DEF ToCome, SleepEnds
  <2> QED BY <2>1, <1>6, <1>K DEF SleepEnds
<1>7. CASE TimeoutPosts
  <2>1. PICK r \in firing :
          /\ firing' = firing \ {r}
          /\ events' = IF phase = "over" THEN events ELSE Append(events, Timeout(r))
    BY <1>7 DEF TimeoutPosts
  <2>2. CASE phase = "over"
    BY <2>2, <1>7 DEF TimeoutPosts, TimeoutIsPending
  <2>3. CASE phase # "over"
    <3>1. events' = Append(events, Timeout(r))
      BY <2>1, <2>3
    <3>2. \A p : ToCome(p) => ToCome(p)'
      BY <2>1, <3>1, <1>7, EventAdded DEF ToCome, TimeoutPosts
    <3> QED BY <3>2, <1>7, <1>K DEF TimeoutPosts
  <2> QED BY <2>2, <2>3
<1>8. CASE HandleRequest
  <2>1. CASE UNCHANGED <<pending, sleeping>>
    BY <2>1, <1>8, <1>K DEF HandleRequest, ToCome
  <2>2. CASE ~UNCHANGED <<pending, sleeping>>
    <3>1. PICK r, displaced : /\ pending' = (pending \ displaced) \cup {r}
                              /\ sleeping' = (sleeping \ displaced) \cup {r}
      BY <2>2, <1>8 DEF HandleRequest
    <3>2. firing' = firing /\ events' = events /\ phase' = phase
      BY <1>8 DEF HandleRequest
    <3>3. \A p \in pending' : p = r \/ (p \in pending /\ p \notin displaced)
      BY <3>1
    <3>4. \A p \in pending' : ToCome(p) => ToCome(p)'
      BY <3>1, <3>2, <3>3 DEF ToCome
    <3>5. ToCome(r)'
      BY <3>1 DEF ToCome
    <3> QED BY <3>2, <3>3, <3>4, <3>5 DEF TimeoutIsPending, ToCome
  <2> QED BY <2>1, <2>2
<1>9. CASE HandleNotification
  BY <1>9, <1>K DEF HandleNotification, ToCome
<1>10. CASE HandleGetStats
  BY <1>10, <1>K DEF HandleGetStats, ToCome
<1>H. ASSUME NEW R, pending' = pending \ R, Abort(R), firing' = firing, phase' = phase,
             events # <<>>, events' = Tail(events),
             \A p \in pending' : Timeout(p) # Head(events)
      PROVE  TimeoutIsPending'
  <2>1. \A p \in pending' : ToCome(p) => ToCome(p)'
    BY <1>H, EventTaken DEF ToCome, Abort
  <2> QED BY <2>1, <1>H, <1>K
<1>11. CASE HandleTimeout
  <2> DEFINE r == Head(events).request
  <2>1. \A p \in pending \ Found(r) : Timeout(p) # Head(events)
    <3>1. ASSUME NEW p, Timeout(p) = Head(events) PROVE p = r
      BY <3>1 DEF Timeout
    <3>2. r \in pending => r \in Found(r)
      BY DEF Found
    <3> QED BY <3>1, <3>2
  <2>2. /\ pending' = pending \ Found(r) /\ Abort(Found(r))
        /\ events # <<>> /\ events' = Tail(events)
        /\ firing' = firing /\ phase' = phase
    BY <1>11 DEF HandleTimeout, TakeEvent, Remove
  <2> QED BY <2>1, <2>2, <1>H
<1>12. CASE HandleReply
  <2> DEFINE r == Head(events).request
  <2>1. /\ pending' = pending \ Found(r) /\ Abort(Found(r))
        /\ events # <<>> /\ events' = Tail(events) /\ Head(events).type = "Reply"
        /\ firing' = firing /\ phase' = phase
    BY <1>12 DEF HandleReply, TakeEvent, Remove
  <2>2. \A p : Timeout(p) # Head(events)
    BY <2>1 DEF Timeout
  <2> QED BY <2>1, <2>2, <1>H
<1>13. CASE HandleRegister
  <2>1. /\ pending' = pending \ {} /\ Abort({})
        /\ events # <<>> /\ events' = Tail(events) /\ Head(events).type = "Register"
        /\ firing' = firing /\ phase' = phase
    BY <1>13 DEF HandleRegister, TakeEvent, Abort
  <2>2. \A p : Timeout(p) # Head(events)
    BY <2>1 DEF Timeout
  <2> QED BY <2>1, <2>2, <1>H
<1>14. CASE Redirect
  BY <1>14 DEF Redirect, Remove, TimeoutIsPending
<1>15. CASE Connected
  BY <1>15, <1>K DEF Connected, ToCome
<1>16. CASE LeaveLoop
  BY <1>16 DEF LeaveLoop, TimeoutIsPending
<1>17. CASE CloseWait
  BY <1>17 DEF CloseWait, TimeoutIsPending
<1>18. CASE Return
  BY <1>18 DEF Return, TimeoutIsPending
<1>19. CASE UNCHANGED vars
  BY <1>19, <1>K DEF vars, ToCome
<1> QED
  BY <1>1, <1>2, <1>3, <1>4, <1>5, <1>6, <1>7, <1>8, <1>9, <1>10, <1>11, <1>12,
     <1>13, <1>14, <1>15, <1>16, <1>17, <1>18, <1>19
     DEF Next, Environment, HandleCommand, HandleEvent

\* While the loop may go on, no request waits without a timeout on its way to it:
\* whatever is aborted belongs to a request that is answered.
THEOREM TimeoutStaysPending == Spec => []TimeoutIsPending
<1>1. Init => TypeOK /\ TimeoutIsPending
  BY TypeInit, TimeoutInit
<1>2. TypeOK /\ TimeoutIsPending /\ [Next]_vars => TypeOK' /\ TimeoutIsPending'
  BY TypeStep, TimeoutStep
<1> QED
  BY <1>1, <1>2, PTL DEF Spec


-----------------------------------------------------------------------------
(* What an id stands for, when nothing of a session is late in the next.   *)

Active == phase \in {"connect", "loop"}

\* Request r is of session s and no other entry of the table P, whose ids go up to n,
\* has its id.
IsOwn(r, s, n, P) ==
  /\ r.session = s
  /\ r.id <= n
  /\ \A p \in P : p.id = r.id => p = r

Own(r) == IsOwn(r, session, counter, pending)

\* The table holds requests of this session; tasks that sleep are theirs.
TableCurrent ==
  /\ \A p \in pending : p.session = session /\ p.id <= counter
  /\ sleeping \subseteq pending

\* A connect begins with nothing but timeouts of tasks that were not stopped.
ConnectIsClean ==
  phase = "connect" =>
    /\ pending = {} /\ asked = {} /\ registered = 0
    /\ \A i \in 1..Len(events) : events[i].type = "RpcTimeout"

TasksOwn == phase = "loop" => \A r \in firing : Own(r)

AskedOwn == Active => \A a \in asked : Own(a.request)

RepliesOwn ==
  Active => \A i \in 1..Len(events) :
              events[i].type = "Reply" => Own(events[i].request)

\* A timeout of the old session is handled before a request can be sent in the new
\* one: the channel's registration is behind it.
TimeoutsOwn ==
  Active => \A i \in 1..Len(events) :
              events[i].type = "RpcTimeout" =>
                \/ Own(events[i].request)
                \/ /\ pending = {} /\ registered = 0
                   /\ \A j \in 1..Len(events) : events[j].type = "Register" => i < j

IdInv ==
  /\ TableCurrent
  /\ ConnectIsClean
  /\ TasksOwn
  /\ AskedOwn
  /\ RepliesOwn
  /\ TimeoutsOwn

\* What is on its way has happened.
HistoryInv ==
  /\ \A r \in firing : r.call \in elapsed
  /\ \A a \in asked : status[a.request.call] # "idle"
  /\ \A i \in 1..Len(events) :
       /\ events[i].type = "RpcTimeout" => events[i].request.call \in elapsed
       /\ events[i].type = "Reply" => events[i].request.call \in replied


LEMMA EventKind ==
  /\ \A r : Timeout(r).type = "RpcTimeout" /\ Timeout(r).request = r
  /\ \A r, valid : Reply(r, valid).type = "Reply" /\ Reply(r, valid).request = r
  /\ \A s : Register(s).type = "Register"
  BY DEF Timeout, Reply, Register

\* What is left of the queue when its head is taken, one place earlier.
LEMMA EventsAfterHead ==
  ASSUME TypeOK, events # <<>>, events' = Tail(events)
  PROVE  /\ 1 \in 1..Len(events) /\ Head(events) = events[1]
         /\ \A i \in 1..Len(events') : i+1 \in 1..Len(events) /\ events'[i] = events[i+1] /\ 1 < i+1
<1>1. events \in Seq(Event)
  BY DEF TypeOK
<1> QED BY <1>1, HeadTail

\* A smaller table and later ids take nothing from a request.
LEMMA OwnKept ==
  ASSUME NEW r \in Request, NEW s, NEW n \in Nat, NEW m \in Nat, n <= m,
         NEW P, NEW Q, Q \subseteq P, IsOwn(r, s, n, P)
  PROVE  IsOwn(r, s, m, Q)
  BY DEF IsOwn, Request

\* A new request with a new id takes nothing from the others and has its own.
LEMMA OwnAdded ==
  ASSUME NEW r \in Request, NEW s, NEW n \in Nat, NEW P, NEW Q, NEW new \in Request,
         new.id = n + 1, Q \subseteq P \cup {new}, IsOwn(r, s, n, P)
  PROVE  IsOwn(r, s, n + 1, Q)
  BY DEF IsOwn, Request

LEMMA IdInit == Init => IdInv
  BY DEF Init, IdInv, TableCurrent, ConnectIsClean, TasksOwn, AskedOwn, RepliesOwn,
         TimeoutsOwn, Active

\* Taking the head of the queue, with a table that only shrinks.
LEMMA IdTaken ==
  ASSUME TypeOK, IdInv, phase = "loop", events # <<>>, events' = Tail(events),
         UNCHANGED <<phase, session, counter, firing, asked>>,
         pending' \subseteq pending, sleeping' \subseteq pending',
         \/ registered' = registered
         \/ Head(events).type = "Register"
  PROVE  IdInv'
<1>1. /\ 1 \in 1..Len(events) /\ Head(events) = events[1]
      /\ \A i \in 1..Len(events') : i+1 \in 1..Len(events) /\ events'[i] = events[i+1] /\ 1 < i+1
  BY EventsAfterHead
<1>2. /\ \A r \in firing : r \in Request
      /\ \A a \in asked : a.request \in Request
      /\ \A i \in 1..Len(events) : events[i] \in Event
      /\ counter \in Nat
  BY DEF TypeOK
<1>3. \A r \in Request : IsOwn(r, session, counter, pending) => IsOwn(r, session', counter', pending')
  BY <1>2, OwnKept
<1>4. TableCurrent'
  BY DEF IdInv, TableCurrent
<1>5. ConnectIsClean'
  BY DEF ConnectIsClean
<1>6. TasksOwn'
  BY <1>2, <1>3 DEF IdInv, TasksOwn, Own
<1>7. AskedOwn'
  BY <1>2, <1>3 DEF IdInv, AskedOwn, Active, Own
<1>8. \A i \in 1..Len(events) : events[i].type \in {"RpcTimeout", "Reply"} => events[i].request \in Request
  BY <1>2, EventType
<1>9. RepliesOwn'
  <2> SUFFICES ASSUME NEW i \in 1..Len(events'), events'[i].type = "Reply"
               PROVE  IsOwn(events'[i].request, session', counter', pending')
    BY DEF RepliesOwn, Own
  <2>1. IsOwn(events[i+1].request, session, counter, pending)
    BY <1>1 DEF IdInv, RepliesOwn, Active, Own
  <2> QED BY <2>1, <1>1, <1>3, <1>8
<1>10. TimeoutsOwn'
  <2> SUFFICES ASSUME NEW i \in 1..Len(events'), events'[i].type = "RpcTimeout"
               PROVE  \/ IsOwn(events'[i].request, session', counter', pending')
                      \/ /\ pending' = {} /\ registered' = 0
                         /\ \A j \in 1..Len(events') : events'[j].type = "Register" => i < j
    BY DEF TimeoutsOwn, Own
  <2>1. i+1 \in 1..Len(events) /\ events[i+1] = events'[i] /\ 1 < i+1 /\ ~(i+1 < 1)
    BY <1>1
  <2>2. \/ IsOwn(events[i+1].request, session, counter, pending)
        \/ /\ pending = {} /\ registered = 0
           /\ \A j \in 1..Len(events) : events[j].type = "Register" => i+1 < j
    BY <2>1 DEF IdInv, TimeoutsOwn, Active, Own
  <2>3. CASE IsOwn(events[i+1].request, session, counter, pending)
    BY <2>1, <2>3, <1>3, <1>8
  <2>4. CASE /\ pending = {} /\ registered = 0
             /\ \A j \in 1..Len(events) : events[j].type = "Register" => i+1 < j
    <3>1. registered' = 0
      BY <2>1, <2>4, <1>1
    <3>2. ASSUME NEW j \in 1..Len(events'), events'[j].type = "Register"
          PROVE  i < j
      <4>1. i+1 < j+1
        BY <2>4, <3>2, <1>1
      <4> QED BY <4>1
    <3> QED BY <3>1, <3>2, <2>4
  <2> QED BY <2>2, <2>3, <2>4
<1> QED
  BY <1>4, <1>5, <1>6, <1>7, <1>9, <1>10 DEF IdInv

\* An event that joins the queue, with the table as it was.
LEMMA IdAdded ==
  ASSUME TypeOK, IdInv, NEW e, events' = Append(events, e),
         UNCHANGED <<phase, session, counter, pending, sleeping, registered, asked>>,
         firing' \subseteq firing,
         phase = "connect" => e.type = "RpcTimeout",
         Active /\ e.type = "Reply" => Own(e.request),
         phase = "loop" /\ e.type = "RpcTimeout" => Own(e.request)
  PROVE  IdInv'
<1>1. /\ \A i \in 1..Len(events) : i \in 1..Len(events') /\ events'[i] = events[i]
      /\ \A i \in 1..Len(events') : i \in 1..Len(events) \/ (i = Len(events) + 1 /\ events'[i] = e)
  BY EventAdded
<1>2. TableCurrent' /\ TasksOwn' /\ AskedOwn'
  BY DEF IdInv, TableCurrent, TasksOwn, AskedOwn, Active, Own
<1>3. ConnectIsClean'
  BY <1>1 DEF IdInv, ConnectIsClean
<1>4. RepliesOwn'
  BY <1>1 DEF IdInv, RepliesOwn, Active, Own
<1>5. TimeoutsOwn'
  <2> SUFFICES ASSUME Active, NEW i \in 1..Len(events'), events'[i].type = "RpcTimeout"
               PROVE  \/ IsOwn(events'[i].request, session, counter, pending)
                      \/ /\ pending = {} /\ registered = 0
                         /\ \A j \in 1..Len(events') : events'[j].type = "Register" => i < j
    BY DEF TimeoutsOwn, Own, Active
  <2>1. CASE phase = "connect"
    <3>1. \A j \in 1..Len(events') : events'[j].type = "RpcTimeout"
      BY <2>1, <1>3 DEF ConnectIsClean
    <3> QED BY <3>1, <2>1 DEF IdInv, ConnectIsClean
  <2>2. CASE phase = "loop" /\ i \notin 1..Len(events)
    BY <2>2, <1>1 DEF Own
  <2>3. CASE phase = "loop" /\ i \in 1..Len(events)
    <3>1. \/ IsOwn(events[i].request, session, counter, pending)
          \/ /\ pending = {} /\ registered = 0
             /\ \A j \in 1..Len(events) : events[j].type = "Register" => i < j
      BY <2>3, <1>1 DEF IdInv, TimeoutsOwn, Active, Own
    <3>2. \A j \in 1..Len(events') : j \notin 1..Len(events) => i < j
      BY <2>3, <1>1
    <3> QED BY <3>1, <3>2, <2>3, <1>1
  <2> QED BY <2>1, <2>2, <2>3 DEF Active
<1> QED
  BY <1>2, <1>3, <1>4, <1>5 DEF IdInv


\* Leaving the loop: nobody looks at ids any more.
LEMMA IdLeft ==
  ASSUME IdInv, phase' \in {"closing", "over"},
         UNCHANGED <<session, counter>>,
         pending' \subseteq pending, sleeping' \subseteq pending'
  PROVE  IdInv'
  BY DEF IdInv, TableCurrent, ConnectIsClean, TasksOwn, AskedOwn, RepliesOwn,
         TimeoutsOwn, Active

\* A step that concerns no id.
LEMMA IdKept ==
  ASSUME IdInv,
         UNCHANGED <<phase, session, counter, pending, sleeping, firing, events,
                     registered, asked>>
  PROVE  IdInv'
  BY DEF IdInv, TableCurrent, ConnectIsClean, TasksOwn, AskedOwn, RepliesOwn,
         TimeoutsOwn, Active, Own

LEMMA IdStep ==
  ASSUME ~Late, TypeOK, SentIsPending, IdInv, [Next]_vars
  PROVE  IdInv'
<1> USE DEF runVars, tableVars, taskVars, channelVars, historyVars
<1>T. /\ sleeping \subseteq pending /\ pending \subseteq Request
      /\ \A a \in asked : a.request \in Request
      /\ counter \in Nat
      /\ firing \subseteq Request
      /\ phase \in {"connect", "loop", "closing", "over"}
  BY DEF IdInv, TableCurrent, TypeOK
<1>1. CASE SendCommand
  BY <1>1, IdKept DEF SendCommand
<1>2. CASE CommandTimesOut
  BY <1>2, IdKept DEF CommandTimesOut
<1>3. CASE StatsReport
  BY <1>3, IdKept DEF StatsReport
<1>4. CASE ChannelArrives
  <2>1. PICK s : phase # "connect" /\ events' = Append(events, Register(s))
    BY <1>4 DEF ChannelArrives
  <2>2. UNCHANGED <<phase, session, counter, pending, sleeping, firing, registered, asked>>
    BY <1>4 DEF ChannelArrives
  <2>3. Register(s).type = "Register"
    BY EventKind
  <2> QED BY <2>1, <2>2, <2>3, IdAdded
<1>5. CASE ServerReplies
  <2>1. PICK a \in asked, valid \in BOOLEAN : events' = Append(events, Reply(a.request, valid))
    BY <1>5 DEF ServerReplies
  <2>2. UNCHANGED <<phase, session, counter, pending, sleeping, firing, registered, asked>>
    BY <1>5 DEF ServerReplies
  <2>3. Reply(a.request, valid).type = "Reply" /\ Reply(a.request, valid).request = a.request
    BY EventKind
  <2>4. phase # "connect"
    BY DEF IdInv, ConnectIsClean
  <2>5. Active => Own(a.request)
    BY DEF IdInv, AskedOwn
  <2> QED BY <2>1, <2>2, <2>3, <2>4, <2>5, IdAdded
<1>6. CASE SleepEnds
  <2>1. PICK r \in sleeping : /\ sleeping' = sleeping \ {r}
                              /\ firing' = firing \cup {r}
    BY <1>6 DEF SleepEnds
  <2>2. UNCHANGED <<phase, session, counter, pending, events, registered, asked>>
    BY <1>6 DEF SleepEnds
  <2>3. phase # "connect"
    BY <1>T DEF IdInv, ConnectIsClean
  <2>4. phase \in {"closing", "over"} => IdInv'
    BY <2>1, <2>2, <1>T, IdLeft
  <2>5. CASE phase = "loop"
    <3>1. TableCurrent' /\ ConnectIsClean' /\ AskedOwn' /\ RepliesOwn' /\ TimeoutsOwn'
      BY <2>1, <2>2, <2>5 DEF IdInv, TableCurrent, ConnectIsClean, AskedOwn, RepliesOwn,
            TimeoutsOwn, Active, Own
    <3>2. Own(r)
      <4>1. r \in pending /\ r.session = session /\ r.id <= counter
        BY <1>T DEF IdInv, TableCurrent
      <4>2. \A p \in pending : p.id = r.id => p = r
        BY <4>1 DEF SentIsPending
      <4> QED BY <4>1, <4>2 DEF Own, IsOwn
    <3>3. TasksOwn'
      BY <3>2, <2>1, <2>2, <2>5 DEF IdInv, TasksOwn, Own
    <3> QED BY <3>1, <3>3 DEF IdInv
  <2> QED BY <2>3, <2>4, <2>5, <1>T
<1>7. CASE TimeoutPosts
  <2>1. PICK r \in firing :
          /\ firing' = firing \ {r}
          /\ events' = IF phase = "over" THEN events ELSE Append(events, Timeout(r))
    BY <1>7 DEF TimeoutPosts
  <2>2. UNCHANGED <<phase, session, counter, pending, sleeping, registered, asked>>
    BY <1>7 DEF TimeoutPosts
  <2>3. CASE phase = "over"
    BY <2>2, <2>3, <1>T, IdLeft
  <2>4. CASE phase # "over"
    <3>1. Timeout(r).type = "RpcTimeout" /\ Timeout(r).request = r
      BY EventKind
    <3>2. phase = "loop" => Own(r)
      BY DEF IdInv, TasksOwn
    <3>3. events' = Append(events, Timeout(r)) /\ firing' \subseteq firing
      BY <2>1, <2>4
    <3> QED BY <2>2, <3>1, <3>2, <3>3, IdAdded
  <2> QED BY <2>3, <2>4
<1>9. CASE HandleNotification
  BY <1>9, IdKept DEF HandleNotification
<1>10. CASE HandleGetStats
  BY <1>10, IdKept DEF HandleGetStats
<1>11. CASE HandleTimeout
  <2>1. PICK R : pending' = pending \ R /\ sleeping' = sleeping \ R
    BY <1>11 DEF HandleTimeout, Remove, Abort
  <2>2. /\ phase = "loop" /\ events # <<>> /\ events' = Tail(events)
        /\ UNCHANGED <<phase, session, counter, firing, asked, registered>>
    BY <1>11 DEF HandleTimeout, TakeEvent
  <2> QED BY <2>1, <2>2, <1>T, IdTaken
<1>12. CASE HandleReply
  <2>1. PICK R : pending' = pending \ R /\ sleeping' = sleeping \ R
    BY <1>12 DEF HandleReply, Remove, Abort
  <2>2. /\ phase = "loop" /\ events # <<>> /\ events' = Tail(events)
        /\ UNCHANGED <<phase, session, counter, firing, asked, registered>>
    BY <1>12 DEF HandleReply, TakeEvent
  <2> QED BY <2>1, <2>2, <1>T, IdTaken
<1>13. CASE HandleRegister
  <2>1. /\ phase = "loop" /\ events # <<>> /\ events' = Tail(events)
        /\ Head(events).type = "Register"
        /\ UNCHANGED <<phase, session, counter, firing, asked, pending, sleeping>>
    BY <1>13 DEF HandleRegister, TakeEvent
  <2> QED BY <2>1, <1>T, IdTaken
<1>14. CASE Redirect
  <2>1. /\ phase' = "connect" /\ pending' = {} /\ sleeping' = {} /\ registered' = 0
        /\ asked' = {} /\ events' = <<>>
    BY <1>14, <1>T DEF Redirect, Remove, Abort
  <2> QED
    BY <2>1 DEF IdInv, TableCurrent, ConnectIsClean, TasksOwn, AskedOwn, RepliesOwn,
                TimeoutsOwn, Active
<1>15. CASE Connected
  <2>1. /\ phase = "connect" /\ firing = {} /\ phase' = "loop"
        /\ UNCHANGED <<session, counter, pending, sleeping, firing, events, registered, asked>>
    BY <1>15 DEF Connected
  <2> QED
    BY <2>1 DEF IdInv, TableCurrent, ConnectIsClean, TasksOwn, AskedOwn, RepliesOwn,
                TimeoutsOwn, Active, Own
<1>16. CASE LeaveLoop
  BY <1>16, <1>T, IdLeft DEF LeaveLoop
<1>17. CASE CloseWait
  BY <1>17, <1>T, IdLeft DEF CloseWait
<1>18. CASE Return
  BY <1>18, <1>T, IdLeft DEF Return, Abort
<1>19. CASE UNCHANGED vars
  BY <1>19, IdKept DEF vars
<1>8. CASE HandleRequest
  <2>0. /\ phase = "loop" /\ counter' = counter + 1
        /\ UNCHANGED <<phase, session, firing, events, registered>>
    BY <1>8 DEF HandleRequest, TakeCommand, NextId
  <2>E. \A i \in 1..Len(events) :
          events[i].type \in {"RpcTimeout", "Reply"} => events[i].request \in Request
    <3>1. \A i \in 1..Len(events) : events[i] \in Event
      BY DEF TypeOK
    <3> QED BY <3>1, EventType
  <2>C. ConnectIsClean'
    BY <2>0 DEF ConnectIsClean
  <2>1. CASE UNCHANGED <<pending, sleeping, asked>>
    <3>1. \A q \in Request : Own(q) => IsOwn(q, session', counter', pending')
      BY <2>0, <2>1, <1>T, OwnKept DEF Own
    <3>2. TableCurrent'
      BY <2>0, <2>1, <1>T DEF IdInv, TableCurrent, Request
    <3>3. TasksOwn' /\ AskedOwn'
      BY <3>1, <2>0, <2>1, <1>T DEF IdInv, TasksOwn, AskedOwn, Active, Own
    <3>4. RepliesOwn'
      BY <3>1, <2>0, <2>E DEF IdInv, RepliesOwn, Active, Own
    <3>5. TimeoutsOwn'
      BY <3>1, <2>0, <2>1, <2>E DEF IdInv, TimeoutsOwn, Active, Own
    <3> QED BY <2>C, <3>2, <3>3, <3>4, <3>5 DEF IdInv
  <2>2. CASE ~UNCHANGED <<pending, sleeping, asked>>
    <3>1. PICK r, displaced, channel :
            /\ r \in Request /\ r.id = counter + 1 /\ r.session = session
            /\ registered # 0
            /\ pending' = (pending \ displaced) \cup {r}
            /\ sleeping' = (sleeping \ displaced) \cup {r}
            /\ asked' = asked \cup {[request |-> r, channel |-> channel]}
      <4>1. PICK c \in Requests :
              LET r == [id |-> NextId, call |-> c, session |-> session]
                  displaced == {p \in pending : p.id = r.id}
              IN /\ registered # 0
                 /\ pending' = (pending \ displaced) \cup {r}
                 /\ sleeping' = (sleeping \ displaced) \cup {r}
                 /\ asked' = asked \cup {[request |-> r, channel |-> registered]}
        BY <1>8, <2>2 DEF HandleRequest
      <4> DEFINE new == [id |-> NextId, call |-> c, session |-> session]
      <4>2. new \in Request /\ new.id = counter + 1 /\ new.session = session
        BY DEF Request, NextId, TypeOK
      <4> QED BY <4>1, <4>2
    <3>2. \A q \in Request : Own(q) => IsOwn(q, session', counter', pending')
      <4>1. pending' \subseteq pending \cup {r}
        BY <3>1
      <4> QED BY <4>1, <3>1, <2>0, <1>T, OwnAdded DEF Own
    <3>3. TableCurrent'
      BY <2>0, <3>1, <1>T DEF IdInv, TableCurrent, Request
    <3>4. IsOwn(r, session', counter', pending')
      <4>1. \A p \in pending : p.id <= counter /\ p.id \in Nat
        BY <1>T DEF IdInv, TableCurrent, Request
      <4>2. \A p \in pending : p.id # r.id
        BY <4>1, <3>1, <1>T
      <4> QED BY <4>2, <3>1, <2>0, <1>T DEF IsOwn
    <3>5. TasksOwn'
      BY <3>2, <2>0, <1>T DEF IdInv, TasksOwn, Own
    <3>6. AskedOwn'
      <4>1. \A a \in asked' : a.request = r \/ (a \in asked /\ a.request \in Request)
        BY <3>1, <1>T
      <4>2. Active => \A a \in asked : Own(a.request)
        BY DEF IdInv, AskedOwn
      <4> QED BY <4>1, <4>2, <3>2, <3>4, <2>0 DEF AskedOwn, Active, Own
    <3>7. RepliesOwn'
      BY <3>2, <2>0, <2>E DEF IdInv, RepliesOwn, Active, Own
    <3>8. TimeoutsOwn'
      BY <3>1, <3>2, <2>0, <2>E DEF IdInv, TimeoutsOwn, Active, Own
    <3> QED BY <2>C, <3>3, <3>5, <3>6, <3>7, <3>8 DEF IdInv
  <2> QED BY <2>1, <2>2
<1> QED
  BY <1>1, <1>2, <1>3, <1>4, <1>5, <1>6, <1>7, <1>8, <1>9, <1>10, <1>11, <1>12,
     <1>13, <1>14, <1>15, <1>16, <1>17, <1>18, <1>19
     DEF Next, Environment, HandleCommand, HandleEvent


-----------------------------------------------------------------------------
(* What is on its way has happened.                                        *)

\* A call that was made stays made.
LEMMA MadeOnce ==
  ASSUME TypeOK, [Next]_vars
  PROVE  \A c \in Calls : status[c] # "idle" => status'[c] # "idle"
<1>S. ASSUME NEW S, NEW answer, answer # "idle", Settle(S, answer)
      PROVE  \A c \in Calls : status[c] # "idle" => status'[c] # "idle"
  BY <1>S, SettleCall
<1>U. CASE UNCHANGED status
  BY <1>U
<1>1. CASE SendCommand
  <2>1. status \in [Calls -> Status]
    BY DEF TypeOK, Status
  <2> QED BY <2>1, <1>1, <1>U DEF SendCommand
<1>2. CASE CommandTimesOut
  BY <1>2, <1>S DEF CommandTimesOut
<1>3. CASE StatsReport
  BY <1>3, <1>S DEF StatsReport
<1>4. CASE HandleRequest
  <2>1. CASE \E c : Settle({c}, "failed")
    BY <2>1, <1>S
  <2>2. CASE ~ \E c : Settle({c}, "failed")
    <3>1. PICK c \in Requests :
            LET r == [id |-> NextId, call |-> c, session |-> session]
                displaced == {p \in pending : p.id = r.id}
            IN status' = [d \in Calls |->
                 CASE d = c -> "sent"
                   [] d # c /\ d \in CallsOf(displaced) -> "missing"
                   [] OTHER -> status[d]]
      BY <2>2, <1>4 DEF HandleRequest
    <3>2. \A d \in Calls : status'[d] \in {"sent", "missing"} \/ status'[d] = status[d]
      BY <3>1
    <3> QED BY <3>2
  <2> QED BY <2>1, <2>2
<1>5. CASE HandleNotification
  BY <1>5, <1>S DEF HandleNotification
<1>6. CASE HandleGetStats
  BY <1>6, <1>S DEF HandleGetStats
<1>7. CASE HandleTimeout
  BY <1>7, <1>S DEF HandleTimeout, Remove
<1>8. CASE HandleReply
  BY <1>8, <1>S DEF HandleReply, Remove
<1>9. CASE Redirect
  BY <1>9, <1>S DEF Redirect, Remove
<1>10. CASE LeaveLoop
  BY <1>10, <1>S DEF LeaveLoop
<1>11. CASE Return
  BY <1>11, <1>S DEF Return
<1>12. CASE ChannelArrives \/ ServerReplies \/ SleepEnds \/ TimeoutPosts
            \/ HandleRegister \/ Connected \/ CloseWait \/ UNCHANGED vars
  BY <1>12, <1>U DEF ChannelArrives, ServerReplies, SleepEnds, TimeoutPosts,
                     HandleRegister, Connected, CloseWait, vars
<1> QED
  BY <1>1, <1>2, <1>3, <1>4, <1>5, <1>6, <1>7, <1>8, <1>9, <1>10, <1>11, <1>12
     DEF Next, Environment, HandleCommand, HandleEvent

LEMMA HistoryInit == Init => HistoryInv
  BY DEF Init, HistoryInv

\* A queued event whose story has happened.
Happened(e, E, R) == /\ e.type = "RpcTimeout" => e.request.call \in E
                     /\ e.type = "Reply" => e.request.call \in R

LEMMA HistoryStep ==
  ASSUME TypeOK, HistoryInv, TableCurrent, SentIsPending, [Next]_vars
  PROVE  HistoryInv'
<1> USE DEF runVars, tableVars, taskVars, channelVars, historyVars
<1>A. \A a \in asked : a.request.call \in Calls /\ a.request.call \in Requests
  BY DEF TypeOK, Request, Calls
<1>B. \A a \in asked : status'[a.request.call] # "idle"
  BY <1>A, MadeOnce DEF HistoryInv
<1>H. \A i \in 1..Len(events) : Happened(events[i], elapsed, replied)
  BY DEF HistoryInv, Happened
<1>K. ASSUME \A r \in firing' : r.call \in elapsed',
             \A a \in asked' : status'[a.request.call] # "idle",
             \A i \in 1..Len(events') : Happened(events'[i], elapsed', replied')
      PROVE  HistoryInv'
  BY <1>K DEF HistoryInv, Happened
<1>E. ASSUME elapsed \subseteq elapsed', replied \subseteq replied'
      PROVE  \A e : Happened(e, elapsed, replied) => Happened(e, elapsed', replied')
  BY <1>E DEF Happened
<1>T. ASSUME events # <<>>, events' = Tail(events), UNCHANGED <<elapsed, replied>>
      PROVE  \A i \in 1..Len(events') : Happened(events'[i], elapsed', replied')
  BY <1>T, <1>H, EventsAfterHead DEF Happened
<1>P. ASSUME NEW e, events' = Append(events, e), elapsed \subseteq elapsed',
             replied \subseteq replied', Happened(e, elapsed', replied')
      PROVE  \A i \in 1..Len(events') : Happened(events'[i], elapsed', replied')
  <2>1. \A i \in 1..Len(events') : events'[i] = e \/ \E j \in 1..Len(events) : events'[i] = events[j]
    BY <1>P, EventAdded
  <2> QED BY <2>1, <1>P, <1>E, <1>H DEF Happened
<1>U. ASSUME UNCHANGED <<events, firing, elapsed, replied>>, asked' \subseteq asked
      PROVE  HistoryInv'
  BY <1>U, <1>B DEF HistoryInv
<1>1. CASE SendCommand
  BY <1>1, <1>U DEF SendCommand
<1>2. CASE CommandTimesOut
  BY <1>2, <1>U DEF CommandTimesOut
<1>3. CASE StatsReport
  BY <1>3, <1>U DEF StatsReport
<1>4. CASE ChannelArrives
  <2>1. PICK s : events' = Append(events, Register(s))
    BY <1>4 DEF ChannelArrives
  <2>2. UNCHANGED <<firing, asked, elapsed, replied>>
    BY <1>4 DEF ChannelArrives
  <2>3. Happened(Register(s), elapsed', replied')
    BY EventKind DEF Happened
  <2>4. \A i \in 1..Len(events') : Happened(events'[i], elapsed', replied')
    BY <2>1, <2>2, <2>3, <1>P
  <2> QED BY <2>2, <2>4, <1>B, <1>K DEF HistoryInv
<1>5. CASE ServerReplies
  <2>1. PICK a \in asked, valid \in BOOLEAN :
          /\ events' = Append(events, Reply(a.request, valid))
          /\ replied' = replied \cup {a.request.call}
    BY <1>5 DEF ServerReplies
  <2>2. UNCHANGED <<firing, asked, elapsed>>
    BY <1>5 DEF ServerReplies
  <2>3. Happened(Reply(a.request, valid), elapsed', replied')
    BY <2>1, EventKind DEF Happened
  <2>4. \A i \in 1..Len(events') : Happened(events'[i], elapsed', replied')
    BY <2>1, <2>2, <2>3, <1>P
  <2> QED BY <2>2, <2>4, <1>B, <1>K DEF HistoryInv
<1>6. CASE SleepEnds
  <2>1. PICK r \in sleeping : /\ firing' = firing \cup {r}
                              /\ elapsed' = elapsed \cup {r.call}
    BY <1>6 DEF SleepEnds
  <2>2. UNCHANGED <<events, asked, replied>>
    BY <1>6 DEF SleepEnds
  <2>3. \A i \in 1..Len(events') : Happened(events'[i], elapsed', replied')
    BY <2>1, <2>2, <1>E, <1>H DEF Happened
  <2>4. \A q \in firing' : q.call \in elapsed'
    BY <2>1 DEF HistoryInv
  <2> QED BY <2>2, <2>3, <2>4, <1>B, <1>K
<1>7. CASE TimeoutPosts
  <2>1. PICK r \in firing :
          /\ firing' = firing \ {r}
          /\ events' = IF phase = "over" THEN events ELSE Append(events, Timeout(r))
    BY <1>7 DEF TimeoutPosts
  <2>2. UNCHANGED <<asked, elapsed, replied>>
    BY <1>7 DEF TimeoutPosts
  <2>3. Happened(Timeout(r), elapsed', replied')
    BY <2>2, EventKind DEF Happened, HistoryInv
  <2>4. CASE events' = events
    <3>1. \A i \in 1..Len(events') : Happened(events'[i], elapsed', replied')
      BY <2>2, <2>4, <1>H DEF Happened
    <3> QED BY <3>1, <2>1, <2>2, <1>B, <1>K DEF HistoryInv
  <2>5. CASE events' = Append(events, Timeout(r))
    <3>1. \A i \in 1..Len(events') : Happened(events'[i], elapsed', replied')
      BY <2>2, <2>3, <2>5, <1>P
    <3> QED BY <3>1, <2>1, <2>2, <1>B, <1>K DEF HistoryInv
  <2> QED BY <2>1, <2>4, <2>5
<1>8. CASE HandleRequest
  <2>1. UNCHANGED <<firing, events, elapsed, replied>>
    BY <1>8 DEF HandleRequest
  <2>2. CASE asked' = asked
    BY <2>1, <2>2, <1>U
  <2>3. CASE asked' # asked
    <3>1. PICK c, r, channel, displaced :
            /\ c \in Requests /\ r.call = c
            /\ asked' = asked \cup {[request |-> r, channel |-> channel]}
            /\ status' = [d \in Calls |->
                 CASE d = c -> "sent"
                   [] d # c /\ d \in CallsOf(displaced) -> "missing"
                   [] OTHER -> status[d]]
      <4>1. PICK c \in Requests :
              LET r == [id |-> NextId, call |-> c, session |-> session]
                  displaced == {p \in pending : p.id = r.id}
              IN /\ asked' = asked \cup {[request |-> r, channel |-> registered]}
                 /\ status' = [d \in Calls |->
                      CASE d = c -> "sent"
                        [] d # c /\ d \in CallsOf(displaced) -> "missing"
                        [] OTHER -> status[d]]
        BY <1>8, <2>3 DEF HandleRequest
      <4>2. [id |-> NextId, call |-> c, session |-> session].call = c
        OBVIOUS
      <4> QED BY ZenonT(30), <4>1, <4>2
    <3>2. c \in Calls
      BY <3>1 DEF Calls
    <3>3. status'[c] = "sent"
      BY <3>1, <3>2
    <3>4. \A a \in asked' : a \in asked \/ a.request.call = c
      BY <3>1
    <3>5. \A a \in asked' : status'[a.request.call] # "idle"
      BY <3>3, <3>4, <1>B
    <3> QED BY <3>5, <2>1 DEF HistoryInv
  <2> QED BY <2>2, <2>3
<1>9. CASE HandleNotification
  BY <1>9, <1>U DEF HandleNotification
<1>10. CASE HandleGetStats
  BY <1>10, <1>U DEF HandleGetStats
<1>X. ASSUME events # <<>>, events' = Tail(events),
             UNCHANGED <<firing, asked, elapsed, replied>>
      PROVE  HistoryInv'
  <2>1. \A i \in 1..Len(events') : Happened(events'[i], elapsed', replied')
    BY <1>X, <1>T
  <2> QED BY <2>1, <1>X, <1>B, <1>K DEF HistoryInv
<1>11. CASE HandleTimeout
  BY <1>11, <1>X DEF HandleTimeout, TakeEvent
<1>12. CASE HandleReply
  BY <1>12, <1>X DEF HandleReply, TakeEvent
<1>13. CASE HandleRegister
  BY <1>13, <1>X DEF HandleRegister, TakeEvent
<1>14. CASE Redirect
  BY <1>14, <1>K DEF Redirect, HistoryInv
<1>15. CASE Connected
  BY <1>15, <1>U DEF Connected
<1>16. CASE LeaveLoop
  BY <1>16, <1>U DEF LeaveLoop
<1>17. CASE CloseWait
  BY <1>17, <1>X DEF CloseWait
<1>18. CASE Return
  BY <1>18, <1>B, <1>K DEF Return, HistoryInv
<1>19. CASE UNCHANGED vars
  BY <1>19, <1>U DEF vars
<1> QED
  BY <1>1, <1>2, <1>3, <1>4, <1>5, <1>6, <1>7, <1>8, <1>9, <1>10, <1>11, <1>12,
     <1>13, <1>14, <1>15, <1>16, <1>17, <1>18, <1>19
     DEF Next, Environment, HandleCommand, HandleEvent


-----------------------------------------------------------------------------
(* The contract with the callers.                                          *)

LEMMA StatusValue ==
  ASSUME TypeOK
  PROVE  \A c \in Calls : status[c] \in Answer \cup {"idle", "queued", "sent"} /\ status[c] # "waiting"
  BY DEF TypeOK, Answer

\* Who waits, for the contract.
LEMMA WaitingSeen ==
  ASSUME TypeOK
  PROVE  Contract!Waiting = Waiting
<1>1. \A c \in Calls : Seen[c] = IF c \in Waiting THEN "waiting" ELSE status[c]
  BY DEF Seen
<1>2. \A c \in Calls : Seen[c] = "waiting" <=> c \in Waiting
  BY <1>1, StatusValue
<1> QED BY <1>2 DEF Contract!Waiting, Waiting

\* A settled call is seen with its answer.
LEMMA SettleSeen ==
  ASSUME TypeOK, NEW S, NEW answer \in Answer, Settle(S, answer)
  PROVE  /\ Contract!Settle(S \cap Waiting, answer)
         /\ S \cap Waiting \in SUBSET Contract!Waiting
<1>1. answer # "queued" /\ answer # "sent"
  BY Settled
<1>2. ASSUME NEW c \in Calls
      PROVE  Seen'[c] = IF c \in S \cap Waiting THEN answer ELSE Seen[c]
  <2>1. status'[c] = IF c \in S \cap Waiting THEN answer ELSE status[c]
    BY DEF Settle
  <2>2. c \in Waiting <=> status[c] \in {"queued", "sent"}
    BY DEF Waiting
  <2>3. c \in Waiting' <=> status'[c] \in {"queued", "sent"}
    BY DEF Waiting
  <2>4. Seen[c] = IF c \in Waiting THEN "waiting" ELSE status[c]
    BY DEF Seen
  <2>5. Seen'[c] = IF c \in Waiting' THEN "waiting" ELSE status'[c]
    BY DEF Seen
  <2>6. CASE c \in S \cap Waiting
    BY <2>1, <2>3, <2>5, <2>6, <1>1
  <2>7. CASE c \notin S \cap Waiting
    BY <2>1, <2>2, <2>3, <2>4, <2>5, <2>7
  <2> QED BY <2>6, <2>7
<1>3. Seen' = [c \in Calls |-> IF c \in S \cap Waiting THEN answer ELSE Seen[c]]
  BY <1>2 DEF Seen
<1>4. S \cap Waiting \in SUBSET Contract!Waiting
  BY WaitingSeen
<1> QED BY <1>3, <1>4 DEF Contract!Settle

\* A call that goes on waiting is seen as before.
LEMMA SeenKept ==
  ASSUME \A c \in Calls :
           status'[c] = status[c] \/ (status[c] \in {"queued", "sent"} /\ status'[c] \in {"queued", "sent"})
  PROVE  Seen' = Seen
<1>1. \A c \in Calls : c \in Waiting' <=> c \in Waiting
  BY DEF Waiting
<1>2. \A c \in Calls : c \notin Waiting => status'[c] = status[c]
  BY DEF Waiting
<1> QED BY <1>1, <1>2 DEF Seen

LEMMA ContractInit == Init => Contract!Init
<1> SUFFICES ASSUME Init PROVE Contract!Init
  OBVIOUS
<1>1. status = [c \in Calls |-> "idle"] /\ replied = {} /\ elapsed = {} /\ phase = "connect"
  BY DEF Init
<1>2. Waiting = {}
  BY <1>1 DEF Waiting
<1>3. Seen = [c \in Calls |-> "idle"]
  BY <1>1, <1>2 DEF Seen
<1>4. Ended = FALSE
  BY <1>1 DEF Ended
<1> QED BY <1>1, <1>3, <1>4 DEF Contract!Init

LEMMA ContractStep ==
  ASSUME ~Late, TypeOK, SentIsPending, QueuedOnce, IdInv, HistoryInv, [Next]_vars
  PROVE  [Contract!Next]_(Contract!vars)
<1> USE DEF runVars, tableVars, taskVars, channelVars, historyVars
<1>V. /\ "commandTimeout" \in Answer /\ "ok" \in Answer /\ "failed" \in Answer
      /\ "redirected" \in Answer /\ "missing" \in Answer /\ "response" \in Answer
      /\ "violation" \in Answer /\ "timeout" \in Answer
  BY DEF Answer
<1>U. ASSUME UNCHANGED <<Seen, replied, elapsed, Ended>>
      PROVE  [Contract!Next]_(Contract!vars)
  BY <1>U DEF Contract!vars
<1>Q. ASSUME UNCHANGED <<status, replied, elapsed>>, Ended' = Ended
      PROVE  [Contract!Next]_(Contract!vars)
  <2>1. Seen' = Seen
    BY <1>Q DEF Seen, Waiting
  <2> QED BY <2>1, <1>Q, <1>U
<1>A. ASSUME NEW S, NEW answer \in {"ok", "failed", "commandTimeout", "redirected"},
             Settle(S, answer), UNCHANGED <<replied, elapsed>>, Ended' = Ended
      PROVE  [Contract!Next]_(Contract!vars)
  <2>1. answer \in Answer
    BY <1>V
  <2>2. /\ Contract!Settle(S \cap Waiting, answer)
        /\ S \cap Waiting \in SUBSET Contract!Waiting
    BY <2>1, <1>A, SettleSeen
  <2>3. Contract!AnswerCalls(S \cap Waiting, answer)
    BY <2>2, <1>A DEF Contract!AnswerCalls
  <2> QED BY <2>2, <2>3 DEF Contract!Next, Contract!Answers
<1>E. ASSUME NEW S, Settle(S, "missing"), UNCHANGED <<replied, elapsed>>, Ended'
      PROVE  [Contract!Next]_(Contract!vars)
  <2>1. /\ Contract!Settle(S \cap Waiting, "missing")
        /\ S \cap Waiting \in SUBSET Contract!Waiting
    BY <1>E, <1>V, SettleSeen
  <2>2. Contract!End(S \cap Waiting)
    BY <2>1, <1>E DEF Contract!End, Ended
  <2> QED BY <2>1, <2>2 DEF Contract!Next
<1>1. CASE SendCommand
  <2>1. PICK c \in Calls :
          /\ status[c] = "idle"
          /\ IF phase \in {"loop", "connect"}
               THEN status' = [status EXCEPT ![c] = "queued"]
               ELSE status' = [status EXCEPT ![c] = "refused"]
    BY <1>1 DEF SendCommand
  <2>2. UNCHANGED <<phase, replied, elapsed>>
    BY <1>1 DEF SendCommand
  <2>3. status \in [Calls -> Status] /\ phase \in {"loop", "connect", "closing", "over"}
    BY DEF TypeOK, Status
  <2>4. Ended <=> phase \notin {"loop", "connect"}
    BY <2>3 DEF Ended
  <2>5. \A d \in Calls : d # c => status'[d] = status[d]
    BY <2>1, <2>3
  <2>6. status'[c] = IF Ended THEN "refused" ELSE "queued"
    BY <2>1, <2>3, <2>4
  <2>7. c \notin Waiting /\ Seen[c] = "idle"
    BY <2>1 DEF Waiting, Seen
  <2>8. ASSUME NEW d \in Calls
        PROVE  Seen'[d] = IF d = c THEN IF Ended THEN "refused" ELSE "waiting" ELSE Seen[d]
    <3>1. Seen[d] = IF status[d] \in {"queued", "sent"} THEN "waiting" ELSE status[d]
      BY DEF Seen, Waiting
    <3>2. Seen'[d] = IF status'[d] \in {"queued", "sent"} THEN "waiting" ELSE status'[d]
      BY DEF Seen, Waiting
    <3> QED BY <3>1, <3>2, <2>5, <2>6
  <2>9. Seen' = [Seen EXCEPT ![c] = IF Ended THEN "refused" ELSE "waiting"]
    BY <2>8 DEF Seen
  <2>10. UNCHANGED <<replied, elapsed, Ended>>
    BY <2>2 DEF Ended
  <2>11. Contract!Place(c)
    BY <2>7, <2>9, <2>10 DEF Contract!Place
  <2> QED BY <2>11 DEF Contract!Next
<1>2. CASE CommandTimesOut
  BY <1>2, <1>A DEF CommandTimesOut, Ended
<1>3. CASE StatsReport
  <2>1. PICK c \in stats : Settle({c}, "ok") \/ (phase = "over" /\ Settle({c}, "missing"))
    BY <1>3 DEF StatsReport
  <2>2. UNCHANGED <<phase, replied, elapsed>>
    BY <1>3 DEF StatsReport
  <2>3. CASE Settle({c}, "ok")
    BY <2>2, <2>3, <1>A DEF Ended
  <2>4. CASE phase = "over" /\ Settle({c}, "missing")
    BY <2>2, <2>4, <1>E DEF Ended
  <2> QED BY <2>1, <2>3, <2>4
<1>4. CASE ChannelArrives
  BY <1>4, <1>Q DEF ChannelArrives, Ended
<1>5. CASE ServerReplies
  <2>1. PICK a \in asked : replied' = replied \cup {a.request.call}
    BY <1>5 DEF ServerReplies
  <2>2. UNCHANGED <<phase, status, elapsed>>
    BY <1>5 DEF ServerReplies
  <2>3. a.request.call \in Requests
    BY DEF TypeOK, Request
  <2>4. status[a.request.call] # "idle"
    BY DEF HistoryInv
  <2>5. Seen[a.request.call] # "idle"
    BY <2>3, <2>4 DEF Seen, Calls
  <2>6. UNCHANGED <<Seen, Ended>>
    BY <2>2 DEF Seen, Waiting, Ended
  <2>7. Contract!Reply
    BY <2>1, <2>2, <2>3, <2>5, <2>6 DEF Contract!Reply
  <2> QED BY <2>7 DEF Contract!Next
<1>6. CASE SleepEnds
  <2>1. PICK r \in sleeping : elapsed' = elapsed \cup {r.call}
    BY <1>6 DEF SleepEnds
  <2>2. UNCHANGED <<phase, status, replied>>
    BY <1>6 DEF SleepEnds
  <2>3. r \in pending /\ r.call \in Requests
    BY DEF TypeOK, Request, IdInv, TableCurrent
  <2>4. status[r.call] = "sent"
    BY <2>3 DEF SentIsPending, CallsOf
  <2>5. Seen[r.call] # "idle"
    BY <2>3, <2>4 DEF Seen, Calls
  <2>6. UNCHANGED <<Seen, Ended>>
    BY <2>2 DEF Seen, Waiting, Ended
  <2>7. Contract!Elapse
    BY <2>1, <2>2, <2>3, <2>5, <2>6 DEF Contract!Elapse
  <2> QED BY <2>7 DEF Contract!Next
<1>7. CASE TimeoutPosts
  BY <1>7, <1>Q DEF TimeoutPosts, Ended
<1>8. CASE HandleRequest
  <2>1. UNCHANGED <<phase, replied, elapsed>>
    BY <1>8 DEF HandleRequest, TakeCommand
  <2>2. CASE \E c : Settle({c}, "failed")
    BY <2>1, <2>2, <1>A DEF Ended
  <2>3. CASE ~ \E c : Settle({c}, "failed")
    <3>1. PICK c \in Requests :
            /\ TakeCommand(c)
            /\ LET r == [id |-> NextId, call |-> c, session |-> session]
                   displaced == {p \in pending : p.id = r.id}
               IN status' = [d \in Calls |->
                    CASE d = c -> "sent"
                      [] d # c /\ d \in CallsOf(displaced) -> "missing"
                      [] OTHER -> status[d]]
      BY <2>3, <1>8 DEF HandleRequest
    <3> DEFINE r == [id |-> NextId, call |-> c, session |-> session]
    <3> DEFINE displaced == {p \in pending : p.id = r.id}
    <3>2. \A p \in pending : p.id <= counter /\ p.id \in Nat
      BY DEF IdInv, TableCurrent, TypeOK, Request
    <3>3. r.id = counter + 1 /\ counter \in Nat
      BY DEF NextId, TypeOK
    <3>4. \A p \in pending : p.id # r.id
      BY <3>2, <3>3
    <3>5. CallsOf(displaced) = {}
      BY <3>4 DEF CallsOf
    <3>6. \A d \in Calls : status'[d] = IF d = c THEN "sent" ELSE status[d]
      <4> HIDE DEF displaced, r
      <4>1. status' = [d \in Calls |->
              CASE d = c -> "sent"
                [] d # c /\ d \in CallsOf(displaced) -> "missing"
                [] OTHER -> status[d]]
        BY <3>1 DEF displaced, r
      <4> QED BY <4>1, <3>5
    <3>7. status[c] = "queued"
      <4>1. commands \in Seq(Calls) /\ commands # <<>> /\ Head(commands) = c
        BY <3>1 DEF TypeOK, TakeCommand
      <4>2. 1 \in 1..Len(commands) /\ commands[1] = c
        BY <4>1, HeadTail
      <4> QED BY <4>2 DEF QueuedOnce
    <3>8. Seen' = Seen
      BY <3>6, <3>7, SeenKept
    <3> QED BY <3>8, <2>1, <1>U DEF Ended
  <2> QED BY <2>2, <2>3
<1>9. CASE HandleNotification
  <2>1. UNCHANGED <<phase, replied, elapsed>>
    BY <1>9 DEF HandleNotification, TakeCommand
  <2>2. \E c : Settle({c}, "ok") \/ Settle({c}, "failed")
    BY <1>9 DEF HandleNotification
  <2> QED BY <2>1, <2>2, <1>A DEF Ended
<1>10. CASE HandleGetStats
  <2>1. PICK c \in StatsCalls : Settle({c}, "sent")
    BY <1>10 DEF HandleGetStats
  <2>2. UNCHANGED <<phase, replied, elapsed>>
    BY <1>10 DEF HandleGetStats, TakeCommand
  <2>3. \A d \in Calls :
          status'[d] = status[d] \/ (status[d] \in {"queued", "sent"} /\ status'[d] \in {"queued", "sent"})
    BY <2>1 DEF Settle, Waiting
  <2>4. Seen' = Seen
    BY <2>3, SeenKept
  <2> QED BY <2>2, <2>4, <1>U DEF Ended
<1>F. ASSUME events # <<>>
      PROVE  1 \in 1..Len(events) /\ Head(events) = events[1] /\ Head(events) \in Event
  <2>1. events \in Seq(Event)
    BY DEF TypeOK
  <2> QED BY <2>1, <1>F, HeadTail
<1>G. ASSUME NEW r, Own(r)
      PROVE  /\ Found(r) \subseteq {r}
             /\ CallsOf(Found(r)) \subseteq {r.call}
  BY <1>G DEF Own, IsOwn, Found, CallsOf
<1>11. CASE HandleTimeout
  <2> DEFINE r == Head(events).request
  <2>1. /\ phase = "loop" /\ events # <<>> /\ Head(events).type = "RpcTimeout"
        /\ Settle(CallsOf(Found(r)), IF Found(r) \subseteq {r} THEN "timeout" ELSE "mistimed")
        /\ UNCHANGED <<phase, replied, elapsed>>
    BY <1>11 DEF HandleTimeout, TakeEvent, Remove
  <2>2. Own(r) \/ pending = {}
    BY <2>1, <1>F DEF IdInv, TimeoutsOwn, Active
  <2>3. Found(r) \subseteq {r} /\ CallsOf(Found(r)) \subseteq {r.call}
    <3>1. CASE Own(r)
      BY <3>1, <1>G
    <3>2. CASE pending = {}
      BY <3>2 DEF Found, CallsOf
    <3> QED BY <2>2, <3>1, <3>2
  <2>4. r.call \in elapsed
    BY <2>1, <1>F DEF HistoryInv
  <2> DEFINE S == CallsOf(Found(r)) \cap Waiting
  <2>5. Settle(CallsOf(Found(r)), "timeout")
    BY <2>1, <2>3
  <2>6. Contract!Settle(S, "timeout") /\ S \in SUBSET Contract!Waiting
    BY <2>5, <1>V, SettleSeen
  <2>7. S \subseteq elapsed
    BY <2>3, <2>4
  <2> HIDE DEF S
  <2>8. Contract!AnswerCalls(S, "timeout")
    BY <2>1, <2>6 DEF Contract!AnswerCalls, Ended
  <2> QED BY <2>6, <2>7, <2>8 DEF Contract!Next
<1>12. CASE HandleReply
  <2> DEFINE r == Head(events).request
  <2> DEFINE valid == Head(events).valid
  <2>1. /\ phase = "loop" /\ events # <<>> /\ Head(events).type = "Reply"
        /\ Settle(CallsOf(Found(r)),
                  CASE ~(Found(r) \subseteq {r}) -> "misdelivered"
                    [] Found(r) \subseteq {r} /\ valid -> "response"
                    [] OTHER -> "violation")
        /\ UNCHANGED <<phase, replied, elapsed>>
    BY <1>12 DEF HandleReply, TakeEvent, Remove
  <2>2. Own(r)
    BY <2>1, <1>F DEF IdInv, RepliesOwn, Active
  <2>3. Found(r) \subseteq {r} /\ CallsOf(Found(r)) \subseteq {r.call}
    BY <2>2, <1>G
  <2>4. r.call \in replied
    BY <2>1, <1>F DEF HistoryInv
  <2>5. valid \in BOOLEAN
    BY <2>1, <1>F DEF Event
  <2> DEFINE S == CallsOf(Found(r)) \cap Waiting
  <2>6. PICK answer \in {"response", "violation"} : Settle(CallsOf(Found(r)), answer)
    BY <2>1, <2>3, <2>5
  <2>7. Contract!Settle(S, answer) /\ S \in SUBSET Contract!Waiting
    <3>1. answer \in Answer
      BY <1>V
    <3> QED BY <3>1, <2>6, SettleSeen
  <2>8. S \subseteq replied
    BY <2>3, <2>4
  <2> HIDE DEF S
  <2>9. Contract!AnswerCalls(S, answer)
    BY <2>1, <2>7 DEF Contract!AnswerCalls, Ended
  <2> QED BY <2>7, <2>8, <2>9 DEF Contract!Next
<1>13. CASE HandleRegister
  BY <1>13, <1>Q DEF HandleRegister, Ended
<1>14. CASE Redirect
  BY <1>14, <1>A DEF Redirect, Remove, Ended
<1>15. CASE Connected
  BY <1>15, <1>Q DEF Connected, Ended
<1>16. CASE LeaveLoop
  BY <1>16, <1>E DEF LeaveLoop, Ended
<1>17. CASE CloseWait
  BY <1>17, <1>Q DEF CloseWait, Ended
<1>18. CASE Return
  BY <1>18, <1>E DEF Return, Ended
<1>19. CASE UNCHANGED vars
  BY <1>19, <1>Q DEF vars, Ended
<1> QED
  BY <1>1, <1>2, <1>3, <1>4, <1>5, <1>6, <1>7, <1>8, <1>9, <1>10, <1>11, <1>12,
     <1>13, <1>14, <1>15, <1>16, <1>17, <1>18, <1>19
     DEF Next, Environment, HandleCommand, HandleEvent

\* When nothing of a session arrives in the next one, the ids do their work: each call
\* gets one answer, replies and timeouts answer their own request, and only the end of
\* run() leaves a call without an answer, for any number of calls and redirects.
THEOREM SessionImplementsContract ==
  ASSUME ~Late PROVE Spec => ImplementsContract
<1> DEFINE Inv == TypeOK /\ SentIsPending /\ QueuedOnce /\ IdInv /\ HistoryInv
<1>1. Init => Inv
  BY TypeInit, TableInit, IdInit, HistoryInit
<1>2. Inv /\ [Next]_vars => Inv'
  BY TypeStep, TableStep, IdStep, HistoryStep DEF IdInv
<1>3. Inv /\ [Next]_vars => [Contract!Next]_(Contract!vars)
  BY ContractStep
<1> HIDE DEF Inv
<1> QED
  BY <1>1, <1>2, <1>3, ContractInit, PTL DEF Spec, ImplementsContract, Contract!Spec
=============================================================================
