------------------------------ MODULE MediaPath ------------------------------
(***************************************************************************)
(* The media path monitor of SoraConnection::run (MediaPathMonitor and its *)
(* grace timers, src/connection.rs): PeerConnection state changes reach    *)
(* run() through the unbounded event channel; a Disconnected observed      *)
(* after the first Connected spawns a task that sleeps for                 *)
(* disconnected_grace_period and then sends its generation through the     *)
(* same channel.  A redirect drains the channel, feeding only the state    *)
(* changes to the monitor, and then reconnects while nothing is received.  *)
(***************************************************************************)
EXTENDS Naturals, Sequences

CONSTANTS
  MaxChanges,   \* bound: PeerConnection state changes in a behaviour
  MaxRedirects  \* bound: redirect messages in a behaviour

ASSUME BoundsAssumption == MaxChanges \in Nat /\ MaxRedirects \in Nat

VARIABLES
  pcState,     \* libwebrtc: the PeerConnection's state
  connected,   \* MediaPathMonitor.connected
  generation,  \* MediaPathMonitor.generation
  graceTimer,  \* MediaPathMonitor.grace_timer_generation, NoTimer for None
  sleeping,    \* generations of the spawned tasks still in their sleep
  events,      \* event_rx, oldest first
  loop,        \* where run() is, or how it ended
  changes,     \* PeerConnection state changes so far
  redirects    \* redirects so far

vars == <<pcState, connected, generation, graceTimer, sleeping, events, loop,
          changes, redirects>>

NoTimer == 0

PeerConnectionState ==
  {"New", "Connecting", "Connected", "Disconnected", "Failed", "Closed"}

ConnectionChange(s) == [type |-> "ConnectionChange", state |-> s]
DisconnectedTimeout(g) == [type |-> "Timeout", generation |-> g]

Active == loop \in {"running", "draining", "reconnecting"}

Init ==
  /\ pcState = "New"
  /\ connected = FALSE
  /\ generation = 0
  /\ graceTimer = NoTimer
  /\ sleeping = {}
  /\ events = <<>>
  /\ loop = "running"
  /\ changes = 0
  /\ redirects = 0

-----------------------------------------------------------------------------
(* The environment: libwebrtc's threads and the tokio timer tasks.         *)

\* PeerConnectionObserver.on_connection_change, whatever run() is doing.  The
\* state aggregates all ICE and DTLS transports, so any other state may come
\* next; Closed is final.
PcChanges ==
  /\ Active
  /\ changes < MaxChanges
  /\ pcState # "Closed"
  /\ \E s \in PeerConnectionState \ {pcState} :
       /\ pcState' = s
       /\ events' = Append(events, ConnectionChange(s))
  /\ changes' = changes + 1
  /\ UNCHANGED <<connected, generation, graceTimer, sleeping, loop, redirects>>

\* Mutated: the timeout is sent without its generation.
GraceTimerFiresAnonymously ==
  /\ Active
  /\ \E g \in sleeping : sleeping' = sleeping \ {g}
  /\ events' = Append(events, [type |-> "Timeout"])
  /\ UNCHANGED <<pcState, connected, generation, graceTimer, loop, changes,
                 redirects>>

\* The task of spawn_disconnected_grace_timer wakes up and sends its generation.
GraceTimerFires ==
  /\ Active
  /\ \E g \in sleeping :
       /\ sleeping' = sleeping \ {g}
       /\ events' = Append(events, DisconnectedTimeout(g))
  /\ UNCHANGED <<pcState, connected, generation, graceTimer, loop, changes,
                 redirects>>

-----------------------------------------------------------------------------
(* The monitor.                                                            *)

\* Mutated: a second Disconnected takes the running timer for its own.
HandleMediaPathStateKeepingGrace(s) ==
  LET established == connected \/ s = "Connected" IN
  /\ connected' = established
  /\ IF established /\ s = "Disconnected"
       THEN /\ generation' = generation + 1
            /\ graceTimer' = generation + 1
            /\ sleeping' = IF graceTimer = NoTimer
                             THEN sleeping \cup {generation + 1} ELSE sleeping
       ELSE /\ graceTimer' = IF established /\ s \in {"Connected", "Connecting"}
                               THEN NoTimer ELSE graceTimer
            /\ UNCHANGED <<generation, sleeping>>
  /\ loop' = IF established /\ s = "Failed" THEN "failed" ELSE loop

\* handle_media_path_state: MediaPathMonitor::observe, the spawn of the grace
\* timer and the loop's reaction to `true`.
HandleMediaPathState(s) ==
  LET established == connected \/ s = "Connected" IN
  /\ connected' = established
  /\ IF established /\ s = "Disconnected"
       THEN /\ generation' = generation + 1
            /\ graceTimer' = generation + 1
            /\ sleeping' = sleeping \cup {generation + 1}
       ELSE /\ graceTimer' = IF established /\ s \in {"Connected", "Connecting"}
                               THEN NoTimer ELSE graceTimer
            /\ UNCHANGED <<generation, sleeping>>
  /\ loop' = IF established /\ s = "Failed" THEN "failed" ELSE loop

\* The ConnectionChange branch of the event loop.
HandleConnectionChange ==
  /\ loop = "running"
  /\ events # <<>>
  /\ Head(events).type = "ConnectionChange"
  /\ events' = Tail(events)
  /\ HandleMediaPathState(Head(events).state)
  /\ UNCHANGED <<pcState, changes, redirects>>

\* Mutated: any timeout ends the connection while a grace period runs.
HandleTimeoutAnyGeneration ==
  /\ loop = "running"
  /\ events # <<>>
  /\ Head(events).type = "Timeout"
  /\ events' = Tail(events)
  /\ loop' = IF graceTimer # NoTimer THEN "timedOut" ELSE loop
  /\ UNCHANGED <<pcState, connected, generation, graceTimer, sleeping,
                 changes, redirects>>

\* The PeerConnectionDisconnectedTimeout branch (should_terminate_on_timeout).
HandleTimeout ==
  /\ loop = "running"
  /\ events # <<>>
  /\ Head(events).type = "Timeout"
  /\ events' = Tail(events)
  /\ loop' = IF graceTimer = Head(events).generation THEN "timedOut" ELSE loop
  /\ UNCHANGED <<pcState, connected, generation, graceTimer, sleeping,
                 changes, redirects>>

-----------------------------------------------------------------------------
(* The redirect.                                                           *)

\* A redirect message was polled: the loop turns to resetting the session.
Redirect ==
  /\ loop = "running"
  /\ redirects < MaxRedirects
  /\ redirects' = redirects + 1
  /\ loop' = "draining"
  /\ UNCHANGED <<pcState, connected, generation, graceTimer, sleeping, events,
                 changes>>

\* One turn of `while let Ok(event) = self.event_rx.try_recv()`: a state change
\* reaches the monitor, every other event is dropped.
DrainOne ==
  /\ loop = "draining"
  /\ events # <<>>
  /\ events' = Tail(events)
  /\ IF Head(events).type = "ConnectionChange"
       THEN HandleMediaPathState(Head(events).state)
       ELSE UNCHANGED <<connected, generation, graceTimer, sleeping, loop>>
  /\ UNCHANGED <<pcState, changes, redirects>>

\* The channel is empty: run() closes the old WebSocket and awaits
\* connect_websocket, receiving nothing meanwhile.
DrainEnds ==
  /\ loop = "draining"
  /\ events = <<>>
  /\ loop' = "reconnecting"
  /\ UNCHANGED <<pcState, connected, generation, graceTimer, sleeping, events,
                 changes, redirects>>

\* connect_websocket(...).await? succeeds, or run() returns its error.
Reconnect ==
  /\ loop = "reconnecting"
  /\ loop' \in {"running", "aborted"}
  /\ UNCHANGED <<pcState, connected, generation, graceTimer, sleeping, events,
                 changes, redirects>>

Next ==
  \/ PcChanges
  \/ GraceTimerFires
  \/ HandleConnectionChange
  \/ HandleTimeout
  \/ Redirect
  \/ DrainOne
  \/ DrainEnds
  \/ Reconnect

Spec == Init /\ [][Next]_vars

\* run() is scheduled, spawned sleeps end and the reconnect has a deadline; the
\* network owes nothing.
Fairness ==
  /\ WF_vars(GraceTimerFires)
  /\ WF_vars(HandleConnectionChange \/ HandleTimeout)
  /\ WF_vars(DrainOne \/ DrainEnds)
  /\ WF_vars(Reconnect)

FairSpec == Spec /\ Fairness

-----------------------------------------------------------------------------
(* Properties.                                                             *)

Queued(g) == \E i \in 1..Len(events) : events[i] = DisconnectedTimeout(g)

Event == [type : {"ConnectionChange"}, state : PeerConnectionState]
           \cup [type : {"Timeout"}, generation : Nat]

\* Every variable stays in its range.
TypeOK ==
  /\ pcState \in PeerConnectionState
  /\ connected \in BOOLEAN
  /\ generation \in Nat
  /\ graceTimer \in Nat
  /\ sleeping \subseteq Nat
  /\ events \in Seq(Event)
  /\ loop \in {"running", "draining", "reconnecting", "failed", "timedOut",
               "aborted"}
  /\ changes \in Nat
  /\ redirects \in Nat

\* A generation is handed out once: one task or one queued timeout bears it, and
\* none bears a generation not handed out yet, so a timer of an outage that is
\* over can never be taken for the timer of the current one.
GenerationsUnique ==
  /\ graceTimer \in {NoTimer, generation}
  /\ \A g \in sleeping : g \in 1..generation /\ ~Queued(g)
  /\ \A i, j \in 1..Len(events) :
       /\ events[i].type = "Timeout"
       => /\ events[i].generation \in 1..generation
          /\ events[i] = events[j] => i = j

\* While no redirect has drained the channel, the monitor that waits out an
\* outage has its timer asleep or its timeout queued: the outage cannot be
\* forgotten.
GraceIsPending ==
  (Active /\ redirects = 0 /\ graceTimer # NoTimer)
    => (graceTimer \in sleeping \/ Queued(graceTimer))

\* SKILL.md: a connection that stays Disconnected longer than
\* disconnected_grace_period ends.  An armed grace period ends with the
\* connection, or with the observation of a recovered path.
OutageEnds == (graceTimer # NoTimer) ~> (~Active \/ graceTimer = NoTimer)

\* The same, for the connections that are not redirected.
OutageEndsUnlessRedirected ==
  (graceTimer # NoTimer) ~> (~Active \/ graceTimer = NoTimer \/ redirects > 0)

\* The refinement mapping: what the contract sees of the monitor.
ObservedPath ==
  IF ~connected THEN "unestablished"
  ELSE IF graceTimer # NoTimer THEN "down" ELSE "up"

OutageGrace ==
  IF graceTimer = NoTimer THEN "none"
  ELSE IF graceTimer \in sleeping THEN "running"
  ELSE IF Queued(graceTimer) \/ loop = "timedOut" THEN "expired"
  ELSE "lost"

Outcome == IF Active THEN "no" ELSE loop

Contract == INSTANCE MediaPathContract
              WITH path <- ObservedPath, grace <- OutageGrace, over <- Outcome

\* The generations implement one grace period per outage: a timeout ends the
\* connection only when the sleep of the latest Disconnected has elapsed and no
\* recovery was observed after it.
ImplementsContract == Contract!Spec
=============================================================================
