--------------------------- MODULE WebSocketTimers ---------------------------
(***************************************************************************)
(* TimerManager of src/connection.rs: the timers that the WebSocket        *)
(* library asks for are tasks of the runtime, which sleep and then send    *)
(* their id to run() over a bounded channel.  A redirect replaces library, *)
(* manager and channel; the return of run() drops them.                    *)
(*                                                                         *)
(* abort ends a task that sleeps or waits for room.  One that is being     *)
(* polled goes on to its next await.  When a timer has slept long enough   *)
(* is left open.                                                           *)
(***************************************************************************)
EXTENDS Naturals, Sequences

CONSTANTS
  TimerIds,       \* Ping, PongTimeout, CloseTimeout
  Capacity,       \* of the channel; 16
  SettingsMax,    \* bound: timers set
  ConnectionsMax  \* bound: connections, the redirected ones included

ASSUME TimersAssumption ==
  /\ {Capacity, SettingsMax} \subseteq Nat
  /\ ConnectionsMax \in Nat \ {0}

VARIABLES
  phase,          \* run(): "loop", "reconnecting", "closing" or "returned"
  connection,     \* the number of the WebSocket connection
  settings,       \* the number of timers set so far
  handles,        \* per id: ping, pong_timeout, close_timeout; 0 for None
  tasks,          \* the tasks: [number, id, connection, at, aborted]
  timerRx         \* the channel of the connection: [id, connection]

timerVars == <<phase, connection, settings, handles, tasks, timerRx>>

Tasks == [number : 1..SettingsMax, id : TimerIds, connection : 1..ConnectionsMax,
          at : {"sleeping", "sending"}, aborted : BOOLEAN]

TimersInit ==
  /\ phase = "loop"
  /\ connection = 1
  /\ settings = 0
  /\ handles = [id \in TimerIds |-> 0]
  /\ tasks = {}
  /\ timerRx = <<>>

-----------------------------------------------------------------------------
\* What JoinHandle::abort leaves of the tasks with these numbers: those that are being
\* polled, for as long as that takes.
AfterAbort(numbers) ==
  LET hit == {t \in tasks : t.number \in numbers}
      polled == {[t EXCEPT !.aborted = TRUE] : t \in {t \in hit : t.at = "sending"}}
  IN  {(tasks \ hit) \cup rest : rest \in SUBSET polled}

NewTask(id) ==
  [number |-> settings + 1, id |-> id, connection |-> connection,
   at |-> "sleeping", aborted |-> FALSE]

\* Mutated: the timer that the id had is left alone.
SetTimerOver(id) ==
  /\ phase \in {"loop", "closing"}
  /\ settings < SettingsMax
  /\ settings' = settings + 1
  /\ handles' = [handles EXCEPT ![id] = settings + 1]
  /\ tasks' = tasks \cup {NewTask(id)}
  /\ UNCHANGED <<phase, connection, timerRx>>

\* set_timer, which first clears the timer that the id has.
SetTimer(id) ==
  /\ phase \in {"loop", "closing"}
  /\ settings < SettingsMax
  /\ settings' = settings + 1
  /\ handles' = [handles EXCEPT ![id] = settings + 1]
  /\ \E rest \in AfterAbort({handles[id]}) : tasks' = rest \cup {NewTask(id)}
  /\ UNCHANGED <<phase, connection, timerRx>>

\* clear_timer
ClearTimer(id) ==
  /\ phase \in {"loop", "closing"}
  /\ handles[id] # 0
  /\ handles' = [handles EXCEPT ![id] = 0]
  /\ tasks' \in AfterAbort({handles[id]})
  /\ UNCHANGED <<phase, connection, settings, timerRx>>

\* A task has slept.
Wake(t) ==
  /\ t.at = "sleeping"
  /\ tasks' = (tasks \ {t}) \cup {[t EXCEPT !.at = "sending"]}
  /\ UNCHANGED <<phase, connection, settings, handles, timerRx>>

\* Its send: into the channel when there is room, to nobody if the channel is gone.
\* A task that was aborted ends where it would have to wait.
Expire(t) ==
  /\ t.at = "sending"
  /\ tasks' = tasks \ {t}
  /\ LET open == t.connection = connection /\ phase # "returned"
     IN  \/ open /\ Len(timerRx) < Capacity
            /\ timerRx' = Append(timerRx, [id |-> t.id, connection |-> t.connection])
         \/ (~open \/ t.aborted) /\ UNCHANGED timerRx
  /\ UNCHANGED <<phase, connection, settings, handles>>

\* The timer_rx branch of the loop; what handle_timer asks for is set and cleared by
\* the flush after it.
HandleTimer ==
  /\ phase = "loop"
  /\ timerRx # <<>>
  /\ timerRx' = Tail(timerRx)
  /\ UNCHANGED <<phase, connection, settings, handles, tasks>>

\* All timers go with their manager: TimerManager::drop.
DropManager ==
  /\ handles' = [id \in TimerIds |-> 0]
  /\ tasks' \in AfterAbort({handles[id] : id \in TimerIds})
  /\ timerRx' = <<>>
  /\ UNCHANGED settings

\* A redirect awaits the new connection, with the old timers still there.
BeginRedirect ==
  /\ phase = "loop"
  /\ connection < ConnectionsMax
  /\ phase' = "reconnecting"
  /\ UNCHANGED <<connection, settings, handles, tasks, timerRx>>

\* The new connection has its own manager and channel.
Redirected ==
  /\ phase = "reconnecting"
  /\ phase' = "loop"
  /\ connection' = connection + 1
  /\ DropManager

\* The loop ends; close_websocket_handshake sets and clears timers, but hears none.
LeaveLoop ==
  /\ phase = "loop"
  /\ phase' = "closing"
  /\ UNCHANGED <<connection, settings, handles, tasks, timerRx>>

\* run() returns, from wherever it is.
Return ==
  /\ phase # "returned"
  /\ phase' = "returned"
  /\ UNCHANGED connection
  /\ DropManager

TimersNext ==
  \/ \E id \in TimerIds : SetTimer(id) \/ ClearTimer(id)
  \/ \E t \in tasks : Wake(t) \/ Expire(t)
  \/ HandleTimer
  \/ BeginRedirect \/ Redirected \/ LeaveLoop \/ Return

TimersSpec == TimersInit /\ [][TimersNext]_timerVars

-----------------------------------------------------------------------------
(* Properties                                                              *)

\* Each variable holds a value of its type.
TimersTypeOK ==
  /\ phase \in {"loop", "reconnecting", "closing", "returned"}
  /\ connection \in 1..ConnectionsMax
  /\ settings \in 0..SettingsMax
  /\ handles \in [TimerIds -> 0..SettingsMax]
  /\ tasks \subseteq Tasks
  /\ timerRx \in Seq([id : TimerIds, connection : 1..ConnectionsMax])
  /\ Len(timerRx) <= Capacity

\* Whatever is set, cleared, redirected and aborted in between: a task that is not being
\* aborted is the one its id's handle aborts, so that none can outlive clear_timer, its
\* connection or run(); and run() hears no timer of an earlier connection.
TimersAreHeld ==
  /\ \A t \in tasks : t.aborted \/ (handles[t.id] = t.number /\ t.connection = connection)
  /\ \A i \in DOMAIN timerRx : timerRx[i].connection = connection
  /\ phase = "returned" => timerRx = <<>> /\ \A t \in tasks : t.aborted
=============================================================================
