-------------------------- MODULE SmallParts_proofs --------------------------
(***************************************************************************)
(* Proofs about the monitor of the media path, the example application and *)
(* what the end-to-end tests drive a connection with, for any changes,     *)
(* redirects, tracks, events and connections and any bounds.               *)
(*                                                                         *)
(* That a timeout taken from the channel belongs to the current outage is  *)
(* decided by comparing generations, which says something only because no  *)
(* two timers ever bear the same one; that sinks follow the tracks rests   *)
(* on what the last event of each track says that is still on its way to   *)
(* main(); that a cut is clean on what had to happen before the way up of  *)
(* a connection ended.  Each part is proved alone; at the end the parts    *)
(* are put together.                                                       *)
(***************************************************************************)
EXTENDS MCSmallParts, CodecSelection_proofs, FiniteSetTheorems, TLAPS

Sequence == INSTANCE SequenceTheorems

-----------------------------------------------------------------------------
(* The channel of the media path monitor                                   *)

\* Sending on the unbounded channel: the new event comes last, the others keep
\* their places.
LEMMA SendFacts ==
  ASSUME NEW s \in Seq(Event), NEW e \in Event
  PROVE  /\ Append(s, e) \in Seq(Event)
         /\ Len(Append(s, e)) = Len(s) + 1
         /\ \A i \in 1..Len(s) : Append(s, e)[i] = s[i]
         /\ Append(s, e)[Len(s) + 1] = e
  OBVIOUS

\* Receiving from the channel: the oldest event leaves, the others move up.
LEMMA ReceiveFacts ==
  ASSUME NEW s \in Seq(Event), s # <<>>
  PROVE  /\ Head(s) \in Event
         /\ Head(s) = s[1]
         /\ Tail(s) \in Seq(Event)
         /\ Len(s) \in Nat \ {0}
         /\ Len(Tail(s)) = Len(s) - 1
         /\ \A i \in 1..Len(Tail(s)) : Tail(s)[i] = s[i + 1]
  OBVIOUS

-----------------------------------------------------------------------------
(* Type correctness of the monitor                                         *)

\* The monitor either arms a grace period under a generation of its own, or
\* starts no timer and at most disarms the one that runs.
LEMMA MonitorCases ==
  ASSUME NEW s, HandleMediaPathState(s)
  PROVE  \/ /\ generation' = generation + 1
            /\ graceTimer' = generation + 1
            /\ sleeping' = sleeping \cup {generation + 1}
         \/ /\ generation' = generation
            /\ graceTimer' \in {NoTimer, graceTimer}
            /\ sleeping' = sleeping
  BY Zenon DEF HandleMediaPathState

\* What the monitor does to one observed state keeps every variable in range.
LEMMA HandleMediaPathStateType ==
  ASSUME TypeOK, NEW s \in PeerConnectionState, HandleMediaPathState(s)
  PROVE  /\ connected' \in BOOLEAN
         /\ generation' \in Nat
         /\ graceTimer' \in Nat
         /\ sleeping' \subseteq Nat
         /\ loop' \in {loop, "failed"}
<1>1. connected' \in BOOLEAN
  BY Zenon DEF TypeOK, HandleMediaPathState
<1>2. loop' \in {loop, "failed"}
  BY Zenon DEF HandleMediaPathState
<1>3. generation' \in Nat
  BY MonitorCases DEF TypeOK
<1>4. graceTimer' \in Nat
  BY MonitorCases DEF TypeOK, NoTimer
<1>5. ASSUME NEW g \in sleeping' PROVE g \in Nat
  <2>1. g \in sleeping \/ g = generation + 1
    <3>1. sleeping' = sleeping \/ sleeping' = sleeping \cup {generation + 1}
      BY MonitorCases
    <3> QED BY <1>5, <3>1, Zenon
  <2>2. sleeping \subseteq Nat /\ generation \in Nat
    BY DEF TypeOK
  <2>3. generation + 1 \in Nat
    BY <2>2
  <2> QED BY <2>1, <2>2, <2>3, Zenon
<1> QED BY <1>1, <1>2, <1>3, <1>4, <1>5

LEMMA TypeStep == TypeOK /\ [Next]_vars => TypeOK'
<1> SUFFICES ASSUME TypeOK, [Next]_vars PROVE TypeOK'
  OBVIOUS
<1>1. CASE PcChanges
  <2>1. PICK s \in PeerConnectionState :
          pcState' = s /\ events' = Append(events, ConnectionChange(s))
    BY <1>1 DEF PcChanges
  <2>2. ConnectionChange(s) \in Event
    BY DEF ConnectionChange, Event
  <2>3. events' \in Seq(Event)
    BY <2>1, <2>2, SendFacts DEF TypeOK
  <2> QED BY <1>1, <2>1, <2>3 DEF TypeOK, PcChanges
<1>2. CASE GraceTimerFires
  <2>1. PICK g \in sleeping :
          sleeping' = sleeping \ {g} /\ events' = Append(events, DisconnectedTimeout(g))
    BY <1>2 DEF GraceTimerFires
  <2>2. DisconnectedTimeout(g) \in Event
    BY DEF DisconnectedTimeout, Event, TypeOK
  <2>3. events' \in Seq(Event)
    BY <2>1, <2>2, SendFacts DEF TypeOK
  <2> QED BY <1>2, <2>1, <2>3 DEF TypeOK, GraceTimerFires
<1>3. CASE HandleConnectionChange
  <2>1. /\ Head(events) \in Event
        /\ events' \in Seq(Event)
    BY <1>3, ReceiveFacts DEF TypeOK, HandleConnectionChange
  <2>2. Head(events).state \in PeerConnectionState
    BY <1>3, <2>1 DEF HandleConnectionChange, Event
  <2> QED BY <1>3, <2>1, <2>2, HandleMediaPathStateType
          DEF TypeOK, HandleConnectionChange
<1>4. CASE HandleTimeout
  BY <1>4, ReceiveFacts DEF TypeOK, HandleTimeout
<1>5. CASE Redirect
  BY <1>5 DEF TypeOK, Redirect
<1>6. CASE DrainOne
  <2>1. /\ Head(events) \in Event
        /\ events' \in Seq(Event)
    BY <1>6, ReceiveFacts DEF TypeOK, DrainOne
  <2>2. CASE Head(events).type = "ConnectionChange"
    <3>1. Head(events).state \in PeerConnectionState
      BY <2>1, <2>2 DEF Event
    <3> QED BY <1>6, <2>1, <2>2, <3>1, HandleMediaPathStateType DEF TypeOK, DrainOne
  <2>3. CASE Head(events).type # "ConnectionChange"
    BY <1>6, <2>1, <2>3 DEF TypeOK, DrainOne
  <2> QED BY <2>2, <2>3
<1>7. CASE DrainEnds
  BY <1>7 DEF TypeOK, DrainEnds
<1>8. CASE Reconnect
  BY <1>8 DEF TypeOK, Reconnect
<1>9. CASE UNCHANGED vars
  BY <1>9 DEF TypeOK, vars
<1> QED BY <1>1, <1>2, <1>3, <1>4, <1>5, <1>6, <1>7, <1>8, <1>9 DEF Next

LEMMA TypeInit == Init => TypeOK
<1>1. Init => events = <<>> /\ connected \in BOOLEAN
  BY Zenon DEF Init
<1>2. Init => /\ pcState \in PeerConnectionState
              /\ generation \in Nat /\ graceTimer \in Nat /\ sleeping \subseteq Nat
              /\ loop \in {"running", "draining", "reconnecting", "failed",
                          "timedOut", "aborted"}
              /\ changes \in Nat /\ redirects \in Nat
  BY DEF Init, PeerConnectionState, NoTimer
<1>3. <<>> \in Seq(Event)
  OBVIOUS
<1> QED BY <1>1, <1>2, <1>3, Zenon DEF TypeOK

\* Every reachable state of the monitor, its timers and the channel is in range.
THEOREM TypeCorrect == Spec => []TypeOK
  BY TypeInit, TypeStep, PTL DEF Spec

-----------------------------------------------------------------------------
(* Generations                                                             *)

\* The three parts of GenerationsUnique.
TimerIsLatest == graceTimer \in {NoTimer, generation}
SleepersUnqueued == \A g \in sleeping : g \in 1..generation /\ ~Queued(g)
TimeoutsDistinct ==
  \A i, j \in 1..Len(events) :
    events[i].type = "Timeout"
    => /\ events[i].generation \in 1..generation
       /\ events[i] = events[j] => i = j

LEMMA GenerationsUniqueParts ==
  GenerationsUnique <=> TimerIsLatest /\ SleepersUnqueued /\ TimeoutsDistinct
  BY DEF GenerationsUnique, TimerIsLatest, SleepersUnqueued, TimeoutsDistinct

\* Receiving an event queues nothing, and the timeouts left stay distinct.
LEMMA ReceiveKeepsTimeouts ==
  ASSUME TypeOK, TimeoutsDistinct, events # <<>>, events' = Tail(events),
         generation' \in {generation, generation + 1}
  PROVE  /\ \A g : Queued(g)' => Queued(g)
         /\ TimeoutsDistinct'
<1>1. /\ Len(events') = Len(events) - 1
      /\ Len(events) \in Nat \ {0}
      /\ \A i \in 1..Len(events') : events'[i] = events[i + 1] /\ i + 1 \in 1..Len(events)
  BY ReceiveFacts DEF TypeOK
<1>2. \A g : Queued(g)' => Queued(g)
  BY <1>1 DEF Queued, DisconnectedTimeout
<1>3. ASSUME NEW i \in 1..Len(events'), NEW j \in 1..Len(events'),
             events'[i].type = "Timeout"
      PROVE  /\ events'[i].generation \in 1..generation'
             /\ events'[i] = events'[j] => i = j
  <2>1. /\ events[i + 1].generation \in 1..generation
        /\ events[i + 1] = events[j + 1] => i + 1 = j + 1
    BY <1>1, <1>3 DEF TimeoutsDistinct
  <2>2. 1..generation \subseteq 1..generation'
    BY DEF TypeOK
  <2> QED BY <1>1, <2>1, <2>2
<1> QED BY <1>2, <1>3 DEF TimeoutsDistinct

\* A generation not handed out yet is borne by no queued timeout.
LEMMA NextGenerationUnqueued ==
  ASSUME TypeOK, TimeoutsDistinct
  PROVE  ~Queued(generation + 1)
<1> SUFFICES ASSUME Queued(generation + 1) PROVE FALSE
  OBVIOUS
<1>1. PICK i \in 1..Len(events) : events[i] = DisconnectedTimeout(generation + 1)
  BY DEF Queued
<1>2. events[i].type = "Timeout" /\ events[i].generation = generation + 1
  BY <1>1 DEF DisconnectedTimeout
<1>3. generation + 1 \in 1..generation
  BY <1>2 DEF TimeoutsDistinct
<1> QED BY <1>3 DEF TypeOK

\* The monitor, fed with the event just received, keeps generations unique.
LEMMA MonitorKeepsGenerations ==
  ASSUME TypeOK, GenerationsUnique, events # <<>>, events' = Tail(events),
         NEW s, HandleMediaPathState(s)
  PROVE  GenerationsUnique'
<1>1. TimerIsLatest /\ SleepersUnqueued /\ TimeoutsDistinct
  BY GenerationsUniqueParts
<1>2. CASE /\ generation' = generation + 1
           /\ graceTimer' = generation + 1
           /\ sleeping' = sleeping \cup {generation + 1}
  <2>1. (\A g : Queued(g)' => Queued(g)) /\ TimeoutsDistinct'
    BY <1>1, <1>2, ReceiveKeepsTimeouts
  <2>2. TimerIsLatest'
    BY <1>2 DEF TimerIsLatest
  <2>3. ASSUME NEW g \in sleeping' PROVE g \in 1..generation' /\ ~Queued(g)'
    <3>1. CASE g \in sleeping
      BY <1>1, <1>2, <2>1, <3>1 DEF SleepersUnqueued, TypeOK
    <3>2. CASE g = generation + 1
      BY <1>1, <1>2, <2>1, <3>2, NextGenerationUnqueued DEF TypeOK
    <3> QED BY <1>2, <2>3, <3>1, <3>2
  <2>4. SleepersUnqueued'
    BY <2>3, Zenon DEF SleepersUnqueued
  <2> QED BY <2>1, <2>2, <2>4
          DEF GenerationsUnique, TimerIsLatest, SleepersUnqueued, TimeoutsDistinct
<1>3. CASE /\ generation' = generation
           /\ graceTimer' \in {NoTimer, graceTimer}
           /\ sleeping' = sleeping
  <2>1. (\A g : Queued(g)' => Queued(g)) /\ TimeoutsDistinct'
    BY <1>1, <1>3, ReceiveKeepsTimeouts
  <2>2. TimerIsLatest'
    BY <1>1, <1>3 DEF TimerIsLatest
  <2>3. SleepersUnqueued'
    BY <1>1, <1>3, <2>1 DEF SleepersUnqueued
  <2> QED BY <2>1, <2>2, <2>3
          DEF GenerationsUnique, TimerIsLatest, SleepersUnqueued, TimeoutsDistinct
<1> QED BY <1>2, <1>3, MonitorCases
LEMMA GenerationsStep == TypeOK /\ GenerationsUnique /\ [Next]_vars => GenerationsUnique'
<1> SUFFICES ASSUME TypeOK, GenerationsUnique, [Next]_vars PROVE GenerationsUnique'
  OBVIOUS
<1>0. TimerIsLatest /\ SleepersUnqueued /\ TimeoutsDistinct
  BY GenerationsUniqueParts
<1>1. CASE PcChanges
  <2>1. PICK s \in PeerConnectionState : events' = Append(events, ConnectionChange(s))
    BY <1>1 DEF PcChanges
  <2>2. /\ Len(events') = Len(events) + 1 /\ Len(events) \in Nat
        /\ \A i \in 1..Len(events) : events'[i] = events[i]
        /\ events'[Len(events) + 1].type = "ConnectionChange"
    <3>1. ConnectionChange(s) \in Event
      BY DEF ConnectionChange, Event
    <3> QED BY <2>1, <3>1, SendFacts DEF TypeOK, ConnectionChange
  <2>3. \A g : Queued(g)' => Queued(g)
    BY <2>2 DEF Queued, DisconnectedTimeout
  <2>4. TimeoutsDistinct'
    <3>1. generation' = generation
      BY <1>1 DEF PcChanges
    <3> QED BY <1>0, <2>2, <3>1 DEF TimeoutsDistinct
  <2>5. TimerIsLatest' /\ SleepersUnqueued'
    BY <1>0, <1>1, <2>3 DEF TimerIsLatest, SleepersUnqueued, PcChanges
  <2> QED BY <2>4, <2>5
          DEF GenerationsUnique, TimerIsLatest, SleepersUnqueued, TimeoutsDistinct
<1>2. CASE GraceTimerFires
  <2>1. PICK g \in sleeping :
          sleeping' = sleeping \ {g} /\ events' = Append(events, DisconnectedTimeout(g))
    BY <1>2 DEF GraceTimerFires
  <2>2. /\ Len(events') = Len(events) + 1 /\ Len(events) \in Nat
        /\ \A i \in 1..Len(events) : events'[i] = events[i]
        /\ events'[Len(events) + 1] = DisconnectedTimeout(g)
    <3>1. DisconnectedTimeout(g) \in Event
      BY DEF DisconnectedTimeout, Event, TypeOK
    <3> QED BY <2>1, <3>1, SendFacts DEF TypeOK
  <2>3. generation' = generation /\ graceTimer' = graceTimer
    BY <1>2 DEF GraceTimerFires
  <2>4. g \in 1..generation /\ \A i \in 1..Len(events) : events[i] # DisconnectedTimeout(g)
    BY <1>0 DEF SleepersUnqueued, Queued
  <2>5. TimeoutsDistinct'
    BY <1>0, <2>2, <2>3, <2>4 DEF TimeoutsDistinct, DisconnectedTimeout
  <2>6. ASSUME NEW h \in sleeping' PROVE h \in 1..generation' /\ ~Queued(h)'
    <3>1. h \in sleeping /\ h # g
      BY <2>1, <2>6
    <3>2. h \in 1..generation /\ ~Queued(h)
      BY <1>0, <3>1 DEF SleepersUnqueued
    <3>3. DisconnectedTimeout(h) # DisconnectedTimeout(g)
      BY <3>1 DEF DisconnectedTimeout
    <3> QED BY <2>2, <2>3, <3>2, <3>3 DEF Queued
  <2>7. TimerIsLatest'
    BY <1>0, <2>3 DEF TimerIsLatest
  <2> QED BY <2>5, <2>6, <2>7
          DEF GenerationsUnique, TimerIsLatest, SleepersUnqueued, TimeoutsDistinct
<1>3. CASE HandleConnectionChange
  BY <1>3, MonitorKeepsGenerations DEF HandleConnectionChange
<1>4. CASE HandleTimeout
  <2>1. (\A g : Queued(g)' => Queued(g)) /\ TimeoutsDistinct'
    BY <1>0, <1>4, ReceiveKeepsTimeouts DEF HandleTimeout
  <2> QED BY <1>0, <1>4, <2>1
          DEF HandleTimeout, GenerationsUnique, TimerIsLatest, SleepersUnqueued,
              TimeoutsDistinct
<1>5. CASE DrainOne
  <2>1. CASE Head(events).type = "ConnectionChange"
    BY <1>5, <2>1, MonitorKeepsGenerations DEF DrainOne
  <2>2. CASE Head(events).type # "ConnectionChange"
    <3>1. (\A g : Queued(g)' => Queued(g)) /\ TimeoutsDistinct'
      BY <1>0, <1>5, <2>2, ReceiveKeepsTimeouts DEF DrainOne
    <3> QED BY <1>0, <1>5, <2>2, <3>1
            DEF DrainOne, GenerationsUnique, TimerIsLatest, SleepersUnqueued,
                TimeoutsDistinct
  <2> QED BY <2>1, <2>2
<1>6. CASE Redirect \/ DrainEnds \/ Reconnect \/ UNCHANGED vars
  BY <1>6 DEF Redirect, DrainEnds, Reconnect, vars, GenerationsUnique, Queued
<1> QED BY <1>1, <1>2, <1>3, <1>4, <1>5, <1>6 DEF Next

-----------------------------------------------------------------------------
(* The rest of its inductive invariant                                     *)

\* A grace period runs only after establishment, and the loop leaves its normal
\* course only for a redirect.
GraceAfterConnected ==
  /\ graceTimer # NoTimer => connected
  /\ loop \in {"draining", "reconnecting"} => redirects > 0

\* Sending adds one event to what is queued, receiving takes the head away.
LEMMA SendQueued ==
  ASSUME TypeOK, NEW e \in Event, events' = Append(events, e), NEW g
  PROVE  Queued(g)' <=> Queued(g) \/ e = DisconnectedTimeout(g)
<1>1. /\ Len(events') = Len(events) + 1 /\ Len(events) \in Nat
      /\ \A i \in 1..Len(events) : events'[i] = events[i]
      /\ events'[Len(events) + 1] = e
  BY SendFacts DEF TypeOK
<1> QED BY <1>1 DEF Queued

LEMMA ReceiveQueued ==
  ASSUME TypeOK, events # <<>>, events' = Tail(events), NEW g,
         Head(events) # DisconnectedTimeout(g)
  PROVE  Queued(g)' <=> Queued(g)
<1>1. /\ Len(events') = Len(events) - 1 /\ Len(events) \in Nat \ {0}
      /\ Head(events) = events[1]
      /\ \A i \in 1..Len(events') : events'[i] = events[i + 1]
  BY ReceiveFacts DEF TypeOK
<1>2. ASSUME Queued(g)' PROVE Queued(g)
  <2>1. PICK i \in 1..Len(events') : events'[i] = DisconnectedTimeout(g)
    BY <1>2 DEF Queued, DisconnectedTimeout
  <2>2. i + 1 \in 1..Len(events) /\ events[i + 1] = DisconnectedTimeout(g)
    BY <1>1, <2>1
  <2> QED BY <2>2 DEF Queued
<1>3. ASSUME Queued(g) PROVE Queued(g)'
  <2>1. PICK i \in 1..Len(events) : events[i] = DisconnectedTimeout(g)
    BY <1>3 DEF Queued
  <2>2. i # 1
    BY <1>1, <2>1
  <2>3. i - 1 \in 1..Len(events') /\ events'[i - 1] = events[i]
    BY <1>1, <2>1, <2>2
  <2> QED BY <2>1, <2>3 DEF Queued, DisconnectedTimeout
<1> QED BY <1>2, <1>3

\* The timeout received was queued once only.
LEMMA ReceiveTimeout ==
  ASSUME TypeOK, TimeoutsDistinct, events # <<>>, events' = Tail(events),
         NEW g, Head(events).type = "Timeout", Head(events).generation = g
  PROVE  /\ g \in 1..generation
         /\ Head(events) = DisconnectedTimeout(g)
         /\ Queued(g)
         /\ ~Queued(g)'
<1>1. /\ Head(events) \in Event /\ Head(events) = events[1]
      /\ Len(events') = Len(events) - 1 /\ Len(events) \in Nat \ {0}
      /\ \A i \in 1..Len(events') : events'[i] = events[i + 1]
  BY ReceiveFacts DEF TypeOK
<1>2. Head(events) = DisconnectedTimeout(g)
  BY <1>1 DEF Event, DisconnectedTimeout
<1>3. 1 \in 1..Len(events)
  BY <1>1
<1>4. g \in 1..generation
  BY <1>1, <1>3 DEF TimeoutsDistinct
<1>5. Queued(g)
  BY <1>1, <1>2, <1>3 DEF Queued
<1>6. ASSUME NEW i \in 1..Len(events'), events'[i] = DisconnectedTimeout(g)
      PROVE  FALSE
  <2>1. i + 1 \in 1..Len(events) /\ events[i + 1] = events[1]
    BY <1>1, <1>2, <1>6
  <2>2. 1 = i + 1
    BY <1>1, <1>3, <2>1 DEF TimeoutsDistinct
  <2> QED BY <2>2
<1>7. ~Queued(g)'
  BY <1>6 DEF Queued, DisconnectedTimeout
<1> QED BY <1>2, <1>4, <1>5, <1>7

LEMMA GraceAfterConnectedStep ==
  TypeOK /\ GraceAfterConnected /\ [Next]_vars => GraceAfterConnected'
<1> SUFFICES ASSUME TypeOK, GraceAfterConnected, [Next]_vars PROVE GraceAfterConnected'
  OBVIOUS
<1>1. ASSUME NEW s, HandleMediaPathState(s) PROVE graceTimer' # NoTimer => connected'
  BY <1>1, Zenon DEF GraceAfterConnected, HandleMediaPathState
<1>2. ASSUME NEW s, HandleMediaPathState(s)
      PROVE  loop' \in {"draining", "reconnecting"} => loop' = loop
  BY <1>2, Zenon DEF HandleMediaPathState
<1>3. CASE HandleConnectionChange
  BY <1>1, <1>2, <1>3 DEF HandleConnectionChange, GraceAfterConnected
<1>4. CASE DrainOne
  BY <1>1, <1>2, <1>4 DEF DrainOne, GraceAfterConnected
<1>5. CASE Redirect
  BY <1>5 DEF Redirect, GraceAfterConnected, TypeOK
<1>6. CASE PcChanges \/ GraceTimerFires \/ HandleTimeout \/ DrainEnds \/ Reconnect
             \/ UNCHANGED vars
  BY <1>6 DEF PcChanges, GraceTimerFires, HandleTimeout, DrainEnds, Reconnect, vars,
              GraceAfterConnected
<1> QED BY <1>3, <1>4, <1>5, <1>6 DEF Next

Inv == TypeOK /\ GenerationsUnique /\ GraceAfterConnected

LEMMA InvInit == Init => Inv
<1>1. Init => TypeOK
  BY TypeInit
<1>2. Init => GenerationsUnique
  BY DEF Init, GenerationsUnique, NoTimer
<1>3. Init => GraceAfterConnected
  BY DEF Init, GraceAfterConnected, NoTimer
<1> QED BY <1>1, <1>2, <1>3 DEF Inv

LEMMA InvInductive == Spec => []Inv
  BY InvInit, TypeStep, GenerationsStep, GraceAfterConnectedStep, PTL DEF Spec, Inv

\* No two timers ever bear one generation, so a stale timeout is always told
\* from that of the current outage.
THEOREM GenerationsAreUnique == Spec => []GenerationsUnique
  BY InvInductive, PTL DEF Inv
-----------------------------------------------------------------------------
(* No outage is forgotten without a redirect                               *)

LEMMA GracePendingStep ==
  Inv /\ GraceIsPending /\ [Next]_vars => GraceIsPending'
<1> SUFFICES ASSUME Inv, GraceIsPending, [Next]_vars,
                    Active', redirects' = 0, graceTimer' # NoTimer
             PROVE  graceTimer' \in sleeping' \/ Queued(graceTimer)'
  BY DEF GraceIsPending
<1>0. TypeOK /\ TimeoutsDistinct /\ GraceAfterConnected
  BY GenerationsUniqueParts DEF Inv
<1>1. CASE PcChanges
  <2>1. PICK s \in PeerConnectionState : events' = Append(events, ConnectionChange(s))
    BY <1>1 DEF PcChanges
  <2>2. ConnectionChange(s) \in Event
    BY DEF ConnectionChange, Event
  <2>3. \A g : Queued(g) => Queued(g)'
    BY <1>0, <2>1, <2>2, SendQueued
  <2> QED BY <1>1, <2>3 DEF PcChanges, GraceIsPending, Queued
<1>2. CASE GraceTimerFires
  <2>1. PICK g \in sleeping :
          sleeping' = sleeping \ {g} /\ events' = Append(events, DisconnectedTimeout(g))
    BY <1>2 DEF GraceTimerFires
  <2>2. DisconnectedTimeout(g) \in Event
    BY <1>0 DEF DisconnectedTimeout, Event, TypeOK
  <2>3. \A h : Queued(h) \/ h = g => Queued(h)'
    BY <1>0, <2>1, <2>2, SendQueued
  <2> QED BY <1>2, <2>1, <2>3 DEF GraceTimerFires, GraceIsPending, Queued
<1>3. CASE HandleConnectionChange
  <2>1. \A g : Head(events) # DisconnectedTimeout(g)
    BY <1>3 DEF HandleConnectionChange, DisconnectedTimeout
  <2>2. \A g : Queued(g) => Queued(g)'
    BY <1>0, <1>3, <2>1, ReceiveQueued DEF HandleConnectionChange
  <2>3. Active /\ redirects = 0
    BY <1>3 DEF HandleConnectionChange, Active
  <2>4. CASE graceTimer' = generation + 1 /\ sleeping' = sleeping \cup {generation + 1}
    BY <2>4
  <2>5. CASE graceTimer' \in {NoTimer, graceTimer} /\ sleeping' = sleeping
    <3>1. graceTimer' = graceTimer
      BY <2>5
    <3> QED BY <2>2, <2>3, <2>5, <3>1 DEF GraceIsPending, Queued
  <2> QED BY <1>3, <2>4, <2>5, MonitorCases DEF HandleConnectionChange
<1>4. CASE HandleTimeout
  <2>1. Head(events) \in Event
    BY <1>0, <1>4, ReceiveFacts DEF TypeOK, HandleTimeout
  <2>2. graceTimer # Head(events).generation
    BY <1>4 DEF HandleTimeout, Active
  <2>3. \A g : g # Head(events).generation => Head(events) # DisconnectedTimeout(g)
    BY DEF DisconnectedTimeout
  <2>4. \A g : g # Head(events).generation => (Queued(g) => Queued(g)')
    BY <1>0, <1>4, <2>3, ReceiveQueued DEF HandleTimeout
  <2> QED BY <1>4, <2>2, <2>4 DEF HandleTimeout, GraceIsPending, Active, Queued
<1>5. CASE Redirect \/ DrainOne \/ DrainEnds \/ Reconnect
  BY <1>0, <1>5
     DEF Redirect, DrainOne, DrainEnds, Reconnect, GraceAfterConnected, TypeOK
<1>6. CASE UNCHANGED vars
  BY <1>6 DEF vars, GraceIsPending, Queued, Active
<1> QED BY <1>1, <1>2, <1>3, <1>4, <1>5, <1>6 DEF Next

\* While the channel has not been drained by a redirect, an armed grace period
\* has its timer asleep or its timeout queued.
THEOREM GraceNeverForgotten == Spec => []GraceIsPending
<1>1. Init => GraceIsPending
  BY DEF Init, GraceIsPending
<1> QED BY <1>1, InvInductive, GracePendingStep, PTL DEF Spec
-----------------------------------------------------------------------------
(* The refinement of the contract of the monitor                           *)

\* A step that changes neither the monitor nor what bears the current
\* generation changes nothing the contract sees.
LEMMA SameView ==
  ASSUME graceTimer' = graceTimer, connected' = connected, loop' = loop,
         graceTimer \in sleeping' <=> graceTimer \in sleeping,
         graceTimer # NoTimer => (Queued(graceTimer)' <=> Queued(graceTimer))
  PROVE  UNCHANGED <<ObservedPath, OutageGrace, Outcome>>
<1>1. ObservedPath' = ObservedPath
  BY Zenon DEF ObservedPath
<1>2. Outcome' = Outcome
  BY DEF Outcome, Active
<1>3. OutageGrace' = OutageGrace
  BY Zenon DEF OutageGrace
<1> QED BY <1>1, <1>2, <1>3

\* The monitor, fed with one state, makes one step of the contract.
LEMMA MonitorRefines ==
  ASSUME Inv, loop \in {"running", "draining"}, events # <<>>,
         events' = Tail(events), Head(events).type = "ConnectionChange",
         NEW s \in PeerConnectionState, HandleMediaPathState(s)
  PROVE  [Contract!Next]_Contract!vars
<1>0. /\ TypeOK /\ GraceAfterConnected /\ Active
      /\ (graceTimer # NoTimer => connected)
      /\ connected \in BOOLEAN
  BY DEF Inv, GraceAfterConnected, Active, TypeOK
<1>1. Outcome = "no"
  BY <1>0 DEF Outcome
<1>2. \A g : Queued(g)' <=> Queued(g)
  <2>1. \A g : Head(events) # DisconnectedTimeout(g)
    BY DEF DisconnectedTimeout
  <2> QED BY <1>0, <2>1, ReceiveQueued
<1>3. loop # "timedOut"
  OBVIOUS
<1>4. CASE ~(connected \/ s = "Connected")
  <2>1. /\ connected' = connected /\ loop' = loop /\ sleeping' = sleeping
        /\ graceTimer' = graceTimer
    <3>1. s # "Connected" /\ ~connected /\ ~connected'
      BY <1>4, Zenon DEF HandleMediaPathState
    <3>2. connected' = connected
      BY <1>0, <1>4, Zenon DEF HandleMediaPathState
    <3>3. loop' = loop /\ sleeping' = sleeping /\ graceTimer' = graceTimer
      BY <1>4, Zenon DEF HandleMediaPathState
    <3> QED BY <3>2, <3>3
  <2>2. UNCHANGED <<ObservedPath, OutageGrace, Outcome>>
    BY <1>2, <2>1, SameView DEF Queued
  <2> QED BY <2>2 DEF Contract!vars
<1>5. CASE (connected \/ s = "Connected") /\ s \in {"Connected", "Connecting"}
  <2>1. connected' /\ loop' = loop /\ graceTimer' = NoTimer
    BY <1>5, Zenon DEF HandleMediaPathState
  <2>2. ObservedPath' = "up"
    BY <2>1, Zenon DEF ObservedPath
  <2>3. OutageGrace' = "none"
    BY <2>1, Zenon DEF OutageGrace
  <2>4. Outcome' = Outcome
    BY <2>1 DEF Outcome, Active
  <2> QED BY <1>1, <2>2, <2>3, <2>4 DEF Contract!Next, Contract!SeeUp
<1>6. CASE connected /\ s = "Disconnected"
  <2>1. /\ connected' /\ loop' = loop
        /\ graceTimer' = generation + 1 /\ sleeping' = sleeping \cup {generation + 1}
    BY <1>6, Zenon DEF HandleMediaPathState
  <2>2. graceTimer' # NoTimer
    BY <1>0, <2>1 DEF TypeOK, NoTimer
  <2>3. graceTimer' \in sleeping'
    BY <2>1
  <2>4. ObservedPath' = "down"
    BY <2>1, <2>2, Zenon DEF ObservedPath
  <2>5. OutageGrace' = "running"
    BY <2>2, <2>3, Zenon DEF OutageGrace
  <2>6. Outcome' = Outcome
    BY <2>1 DEF Outcome, Active
  <2>7. ObservedPath # "unestablished"
    BY <1>6 DEF ObservedPath
  <2> QED BY <1>1, <2>4, <2>5, <2>6, <2>7 DEF Contract!Next, Contract!SeeDown
<1>7. CASE connected /\ s \in {"Failed", "New", "Closed"}
  <2>1. /\ connected' = connected /\ sleeping' = sleeping /\ graceTimer' = graceTimer
        /\ loop' = IF s = "Failed" THEN "failed" ELSE loop
    BY <1>0, <1>7, Zenon DEF HandleMediaPathState
  <2>2. CASE s = "Failed"
    <3>1. ObservedPath' = ObservedPath
      BY <2>1, Zenon DEF ObservedPath
    <3>2. OutageGrace' = OutageGrace
      BY <1>2, <1>3, <2>1, <2>2 DEF OutageGrace, Queued
    <3>3. Outcome' = "failed"
      BY <2>1, <2>2 DEF Outcome, Active
    <3>4. ObservedPath # "unestablished"
      BY <1>7 DEF ObservedPath
    <3> QED BY <1>1, <3>1, <3>2, <3>3, <3>4 DEF Contract!Next, Contract!SeeFailed
  <2>3. CASE s # "Failed"
    <3>1. UNCHANGED <<ObservedPath, OutageGrace, Outcome>>
      BY <1>2, <2>1, <2>3, SameView DEF Queued
    <3> QED BY <3>1 DEF Contract!vars
  <2> QED BY <2>2, <2>3
<1> QED BY <1>4, <1>5, <1>6, <1>7 DEF PeerConnectionState

LEMMA StepRefines == Inv /\ [Next]_vars => [Contract!Next]_Contract!vars
<1> SUFFICES ASSUME Inv, [Next]_vars PROVE [Contract!Next]_Contract!vars
  OBVIOUS
<1>0. TypeOK /\ TimerIsLatest /\ SleepersUnqueued /\ TimeoutsDistinct /\ GraceAfterConnected
  BY GenerationsUniqueParts DEF Inv
<1> USE DEF Contract!vars
<1>1. CASE PcChanges
  <2>1. PICK s \in PeerConnectionState : events' = Append(events, ConnectionChange(s))
    BY <1>1 DEF PcChanges
  <2>2. ConnectionChange(s) \in Event
    BY DEF ConnectionChange, Event
  <2>3. \A g : Queued(g)' <=> Queued(g)
    <3>1. \A g : ConnectionChange(s) # DisconnectedTimeout(g)
      BY DEF ConnectionChange, DisconnectedTimeout
    <3> QED BY <1>0, <2>1, <2>2, <3>1, SendQueued
  <2> QED BY <1>1, <2>3, SameView DEF PcChanges, Queued
<1>2. CASE GraceTimerFires
  <2>1. PICK g \in sleeping :
          sleeping' = sleeping \ {g} /\ events' = Append(events, DisconnectedTimeout(g))
    BY <1>2 DEF GraceTimerFires
  <2>2. /\ graceTimer' = graceTimer /\ connected' = connected /\ loop' = loop
        /\ Active
    BY <1>2 DEF GraceTimerFires
  <2>3. DisconnectedTimeout(g) \in Event
    BY <1>0 DEF DisconnectedTimeout, Event, TypeOK
  <2>4. \A h : Queued(h)' <=> Queued(h) \/ h = g
    <3>1. \A h : DisconnectedTimeout(g) = DisconnectedTimeout(h) <=> h = g
      BY DEF DisconnectedTimeout
    <3> QED BY <1>0, <2>1, <2>3, <3>1, SendQueued
  <2>5. CASE graceTimer = g
    <3>1. g # NoTimer
      BY <1>0 DEF SleepersUnqueued, NoTimer, TypeOK
    <3>2. OutageGrace = "running"
      BY <2>5, <3>1 DEF OutageGrace
    <3>3. OutageGrace' = "expired"
      BY <2>1, <2>2, <2>4, <2>5, <3>1 DEF OutageGrace, Queued
    <3>4. ObservedPath' = ObservedPath
      BY <2>2, Zenon DEF ObservedPath
    <3>5. Outcome' = Outcome /\ Outcome = "no"
      BY <2>2 DEF Outcome, Active
    <3> QED BY <3>2, <3>3, <3>4, <3>5 DEF Contract!Next, Contract!GraceElapses
  <2>6. CASE graceTimer # g
    BY <2>1, <2>2, <2>4, <2>6, SameView DEF Queued
  <2> QED BY <2>5, <2>6
<1>3. CASE HandleConnectionChange
  <2>1. Head(events).state \in PeerConnectionState
    BY <1>0, <1>3, ReceiveFacts DEF TypeOK, HandleConnectionChange, Event
  <2> QED BY <1>3, <2>1, MonitorRefines DEF HandleConnectionChange
<1>4. ASSUME loop \in {"running", "draining"}, events # <<>>, events' = Tail(events),
             Head(events).type # "ConnectionChange",
             UNCHANGED <<connected, graceTimer, sleeping>>
      PROVE  \/ /\ Head(events).generation # graceTimer
                /\ Queued(graceTimer)' <=> Queued(graceTimer)
             \/ /\ Head(events).generation = graceTimer
                /\ graceTimer \notin sleeping /\ graceTimer # NoTimer
                /\ Queued(graceTimer) /\ ~Queued(graceTimer)'
  <2>1. Head(events).type = "Timeout"
    BY <1>0, <1>4, ReceiveFacts DEF TypeOK, Event
  <2>2. CASE Head(events).generation = graceTimer
    <3>1. graceTimer \in 1..generation /\ Queued(graceTimer)
      BY <1>0, <1>4, <2>1, <2>2, ReceiveTimeout
    <3>2. \A g : g = graceTimer => ~Queued(g)'
      BY <1>0, <1>4, <2>1, <2>2, ReceiveTimeout
    <3>3. ~Queued(graceTimer)'
      BY <1>4, <3>2 DEF Queued
    <3> QED BY <1>0, <2>2, <3>1, <3>3 DEF SleepersUnqueued, NoTimer, TypeOK
  <2>3. CASE Head(events).generation # graceTimer
    <3>1. \A g : g = graceTimer => Head(events) # DisconnectedTimeout(g)
      BY <2>3 DEF DisconnectedTimeout
    <3>2. \A g : g = graceTimer => (Queued(g)' <=> Queued(g))
      BY <1>0, <1>4, <3>1, ReceiveQueued
    <3> QED BY <1>4, <2>3, <3>2 DEF Queued
  <2> QED BY <2>2, <2>3
<1>5. CASE HandleTimeout
  <2>1. /\ loop = "running" /\ events # <<>> /\ events' = Tail(events)
        /\ Head(events).type # "ConnectionChange"
        /\ UNCHANGED <<connected, graceTimer, sleeping>>
        /\ loop' = IF graceTimer = Head(events).generation THEN "timedOut" ELSE loop
    BY <1>5 DEF HandleTimeout
  <2>2. CASE Head(events).generation = graceTimer
    <3>1. graceTimer \notin sleeping /\ graceTimer # NoTimer /\ Queued(graceTimer)
      BY <1>4, <2>1, <2>2
    <3>2. OutageGrace = "expired" /\ OutageGrace' = "expired"
      BY <2>1, <2>2, <3>1 DEF OutageGrace
    <3>3. connected
      BY <1>0, <3>1 DEF GraceAfterConnected
    <3>4. ObservedPath = "down"
      BY <3>1, <3>3 DEF ObservedPath
    <3>5. ObservedPath' = ObservedPath
      BY <2>1, Zenon DEF ObservedPath
    <3>6. Outcome = "no" /\ Outcome' = "timedOut"
      BY <2>1, <2>2 DEF Outcome, Active
    <3> QED BY <3>2, <3>4, <3>5, <3>6 DEF Contract!Next, Contract!GiveUp
  <2>3. CASE Head(events).generation # graceTimer
    <3>1. Queued(graceTimer)' <=> Queued(graceTimer)
      BY <1>4, <2>1, <2>3
    <3> QED BY <2>1, <2>3, <3>1, SameView
  <2> QED BY <2>2, <2>3
<1>6. CASE DrainOne
  <2>1. CASE Head(events).type = "ConnectionChange"
    <3>1. Head(events).state \in PeerConnectionState
      BY <1>0, <1>6, <2>1, ReceiveFacts DEF TypeOK, DrainOne, Event
    <3> QED BY <1>6, <2>1, <3>1, MonitorRefines DEF DrainOne
  <2>2. CASE Head(events).type # "ConnectionChange"
    <3>1. /\ loop = "draining" /\ events # <<>> /\ events' = Tail(events)
          /\ UNCHANGED <<connected, graceTimer, sleeping, loop>>
      BY <1>6, <2>2 DEF DrainOne
    <3>2. CASE Head(events).generation = graceTimer
      <4>1. /\ graceTimer \notin sleeping /\ graceTimer # NoTimer
            /\ Queued(graceTimer) /\ ~Queued(graceTimer)'
        BY <1>4, <2>2, <3>1, <3>2
      <4>2. OutageGrace = "expired" /\ OutageGrace' = "lost"
        BY <3>1, <4>1 DEF OutageGrace
      <4>3. ObservedPath' = ObservedPath
        BY <3>1, Zenon DEF ObservedPath
      <4>4. Outcome = "no" /\ Outcome' = Outcome
        BY <3>1 DEF Outcome, Active
      <4> QED BY <4>2, <4>3, <4>4 DEF Contract!Next, Contract!LoseExpiry
    <3>3. CASE Head(events).generation # graceTimer
      <4>1. Queued(graceTimer)' <=> Queued(graceTimer)
        BY <1>4, <2>2, <3>1, <3>3
      <4> QED BY <3>1, <4>1, SameView
    <3> QED BY <3>2, <3>3
  <2> QED BY <2>1, <2>2
<1>7. CASE Redirect \/ DrainEnds \/ Reconnect
  <2>1. /\ UNCHANGED <<connected, graceTimer, sleeping, events>>
        /\ Active /\ loop # "timedOut" /\ loop' # "timedOut"
        /\ Active' \/ loop' = "aborted"
    BY <1>7 DEF Redirect, DrainEnds, Reconnect, Active
  <2>2. ObservedPath' = ObservedPath
    BY <2>1, Zenon DEF ObservedPath
  <2>3. OutageGrace' = OutageGrace
    BY <2>1 DEF OutageGrace, Queued
  <2>4. Outcome = "no" /\ Outcome' \in {"no", "aborted"}
    BY <2>1 DEF Outcome
  <2> QED BY <2>2, <2>3, <2>4 DEF Contract!Next, Contract!Abort
<1>8. CASE UNCHANGED vars
  BY <1>8, SameView DEF vars, Queued
<1> QED BY <1>1, <1>2, <1>3, <1>5, <1>6, <1>7, <1>8 DEF Next

\* The monitor with its generations implements one grace period per outage.
THEOREM MonitorImplementsContract == Spec => ImplementsContract
<1>1. Init => Contract!Init
  BY DEF Init, Contract!Init, ObservedPath, OutageGrace, Outcome, Active
<1> QED BY <1>1, InvInductive, StepRefines, PTL
        DEF Spec, ImplementsContract, Contract!Spec

-----------------------------------------------------------------------------
(* The example application                                                 *)

\* Before main() has a connection, and if it gets none, nothing is shown.
RestsBefore ==
  /\ main \in {"starting", "failing"} => run = "none" /\ ~rendererError
  /\ run = "none" =>
       /\ main \in {"starting", "failing", "returned"}
       /\ remote = {} /\ appEvents = <<>> /\ tracks = {} /\ sinks = {}

\* Each track that is known has its sink while the connection is up, and no other has.
SinksAreKnown ==
  /\ sinks \subseteq tracks
  /\ run = "running" => sinks = tracks
  /\ main \in {"ending", "returned"} => sinks = {}

IsLastOf(t, i) == appEvents[i][2] = t /\ \A j \in DOMAIN appEvents : j > i => appEvents[j][2] # t

\* The last event of a track that is on its way tells whether the connection has it; of a
\* track without one main() knows it already.
EventsTell ==
  run = "running" => \A t \in Tracks :
    /\ \A i \in DOMAIN appEvents : IsLastOf(t, i) => (appEvents[i][1] = "added" <=> t \in remote)
    /\ (\A i \in DOMAIN appEvents : appEvents[i][2] # t) => (t \in tracks <=> t \in remote)

\* A success is the one of run().
SuccessWasOfRun == result = "ok" => run = "ended" /\ runResult = "ok"

\* An error of the renderer ends the loop, and is the result as soon as the sinks are gone.
RendererIsFirst ==
  /\ main = "looping" => ~rendererError
  /\ result = "renderer error" => main \in {"ending", "returned"}
  /\ main \in {"ending", "returned"} => (rendererError <=> result = "renderer error")

SumomoInv ==
  /\ SumomoTypeOK /\ RestsBefore /\ SinksAreKnown /\ EventsTell
  /\ SuccessWasOfRun /\ RendererIsFirst

\* Nothing is shown.
LEMMA SumomoStarts == SumomoInit => SumomoInv
<1> SUFFICES ASSUME SumomoInit PROVE SumomoInv
  OBVIOUS
<1>1. SumomoTypeOK
  <2>1. capturer \in [at : {"none", "capturing", "ended"}, stop : BOOLEAN]
    BY DEF SumomoInit
  <2>2. renderer \in [texture : FrameSizes \cup {NoTexture}, running : BOOLEAN]
    BY DEF SumomoInit
  <2>3. /\ frames \in Seq(FrameSizes) /\ Len(frames) <= FrameCapacity
        /\ appEvents \in Seq({"added", "removed"} \X Tracks) /\ Len(appEvents) <= MaxEvents
    BY SumomoAssumption DEF SumomoInit, FrameCapacity
  <2> QED BY <2>1, <2>2, <2>3 DEF SumomoInit, SumomoTypeOK
<1>2. RestsBefore /\ SinksAreKnown /\ SuccessWasOfRun /\ RendererIsFirst
  BY DEF SumomoInit, RestsBefore, SinksAreKnown, SuccessWasOfRun, RendererIsFirst
<1>3. EventsTell
  BY DEF SumomoInit, EventsTell
<1> QED BY <1>1, <1>2, <1>3 DEF SumomoInv

\* The connection is built, or is not.
LEMMA StartsKeep ==
  ASSUME SumomoInv, StartRun \/ StartRunFails
  PROVE  SumomoInv'
<1>1. SumomoTypeOK'
  <2>0. SumomoTypeOK
    BY DEF SumomoInv
  <2>1. capturer' \in [at : {"none", "capturing", "ended"}, stop : BOOLEAN]
    <3>1. PICK sends, stop \in BOOLEAN :
                 capturer' = [at |-> IF sends THEN "capturing" ELSE "none", stop |-> stop]
      BY DEF StartRun, StartRunFails
    <3>2. CASE sends
      BY <3>1, <3>2
    <3>3. CASE ~sends
      BY <3>1, <3>3
    <3> QED BY <3>2, <3>3
  <2>2. /\ renderer' \in [texture : FrameSizes \cup {NoTexture}, running : BOOLEAN]
        /\ rendererError' \in BOOLEAN
    BY <2>0 DEF SumomoTypeOK, StartRun, StartRunFails, showVars
  <2>3. frames' \in Seq(FrameSizes) /\ Len(frames') <= FrameCapacity
    BY <2>0 DEF SumomoTypeOK, FrameCapacity, StartRun, StartRunFails, showVars
  <2>4. /\ UNCHANGED appEvents
        /\ remote' \subseteq Tracks
        /\ tracks' \subseteq Tracks
        /\ sinks' \subseteq Tracks
    BY <2>0 DEF SumomoTypeOK, StartRun, StartRunFails, trackVars
  <2>5. main' \in {"starting", "failing", "looping", "asking", "disconnecting", "joining",
                     "removing", "ending", "returned", "panicked"}
    BY <2>0 DEF SumomoTypeOK, StartRun, StartRunFails, runVars
  <2>6. run' \in {"none", "running", "leaving", "dropping", "ended", "aborted"}
    BY <2>0 DEF SumomoTypeOK, StartRun, StartRunFails, runVars
  <2>7. runResult' \in {"none", "ok", "error", "panic"}
    BY <2>0 DEF SumomoTypeOK, StartRun, StartRunFails, runVars
  <2>8. runHandle' \in {"fresh", "read"}
    BY <2>0 DEF SumomoTypeOK, StartRun, StartRunFails, runVars
  <2>9. command' \in {"none", "sent", "done", "refused"}
    BY <2>0 DEF SumomoTypeOK, StartRun, StartRunFails, runVars
  <2>10. duration' \in {"none", "waiting", "elapsed"}
    BY <2>0 DEF SumomoTypeOK, StartRun, StartRunFails, runVars
  <2>11. result' \in {"none", "ok", "error", "renderer error"}
    BY <2>0 DEF SumomoTypeOK, StartRun, StartRunFails, runVars
  <2> QED BY <2>0, <2>1, <2>2, <2>3, <2>4, <2>5, <2>6, <2>7, <2>8, <2>9, <2>10,
       <2>11 DEF SumomoTypeOK
<1>2. RestsBefore'
  BY DEF SumomoInv, RestsBefore, StartRun, StartRunFails,
         runVars, trackVars, showVars
<1>3. SinksAreKnown'
  BY DEF SumomoInv, RestsBefore, SinksAreKnown, StartRun, StartRunFails,
         runVars, trackVars, showVars
<1>4. EventsTell'
  BY DEF SumomoInv, RestsBefore, IsLastOf, EventsTell, StartRun, StartRunFails,
         runVars, trackVars, showVars
<1>5. SuccessWasOfRun'
  BY DEF SumomoInv, RestsBefore, SuccessWasOfRun, StartRun, StartRunFails,
         runVars, trackVars, showVars
<1>6. RendererIsFirst'
  <2>1. rendererError' = rendererError /\ result' = result /\ main = "starting"
    BY DEF StartRun, StartRunFails, showVars
  <2>2. main' \in {"looping", "failing"}
    BY DEF StartRun, StartRunFails
  <2>3. ~rendererError /\ result # "renderer error"
    BY <2>1 DEF SumomoInv, RestsBefore, RendererIsFirst
  <2> QED BY <2>1, <2>2, <2>3 DEF RendererIsFirst
<1> QED BY <1>1, <1>2, <1>3, <1>4, <1>5, <1>6 DEF SumomoInv

\* The run task and the capturer.
LEMMA TaskKeeps ==
  ASSUME SumomoInv, CaptureLoopEnds \/ RunLeaves \/ RunReturns \/ RunEnds
  PROVE  SumomoInv'
<1>1. SumomoTypeOK'
  <2>0. SumomoTypeOK
    BY DEF SumomoInv
  <2>1. capturer' \in [at : {"none", "capturing", "ended"}, stop : BOOLEAN]
    BY <2>0 DEF SumomoTypeOK, CaptureLoopEnds, RunLeaves, RunReturns, RunEnds,
         CapturerStopped, runVars
  <2>2. /\ renderer' \in [texture : FrameSizes \cup {NoTexture}, running : BOOLEAN]
        /\ rendererError' \in BOOLEAN
    BY <2>0 DEF SumomoTypeOK, CaptureLoopEnds, RunLeaves, RunReturns, RunEnds,
         CapturerStopped, showVars
  <2>3. frames' \in Seq(FrameSizes) /\ Len(frames') <= FrameCapacity
    BY <2>0 DEF SumomoTypeOK, FrameCapacity, CaptureLoopEnds, RunLeaves, RunReturns, RunEnds,
         CapturerStopped, showVars
  <2>4. /\ UNCHANGED appEvents
        /\ remote' \subseteq Tracks
        /\ tracks' \subseteq Tracks
        /\ sinks' \subseteq Tracks
    BY <2>0 DEF SumomoTypeOK, CaptureLoopEnds, RunLeaves, RunReturns, RunEnds,
         CapturerStopped, trackVars
  <2>5. main' \in {"starting", "failing", "looping", "asking", "disconnecting", "joining",
                     "removing", "ending", "returned", "panicked"}
    BY <2>0 DEF SumomoTypeOK, CaptureLoopEnds, RunLeaves, RunReturns, RunEnds,
         CapturerStopped, runVars
  <2>6. run' \in {"none", "running", "leaving", "dropping", "ended", "aborted"}
    BY <2>0 DEF SumomoTypeOK, CaptureLoopEnds, RunLeaves, RunReturns, RunEnds,
         CapturerStopped, runVars
  <2>7. runResult' \in {"none", "ok", "error", "panic"}
    BY <2>0 DEF SumomoTypeOK, CaptureLoopEnds, RunLeaves, RunReturns, RunEnds,
         CapturerStopped, runVars
  <2>8. runHandle' \in {"fresh", "read"}
    BY <2>0 DEF SumomoTypeOK, CaptureLoopEnds, RunLeaves, RunReturns, RunEnds,
         CapturerStopped, runVars
  <2>9. command' \in {"none", "sent", "done", "refused"}
    BY <2>0 DEF SumomoTypeOK, CaptureLoopEnds, RunLeaves, RunReturns, RunEnds,
         CapturerStopped, runVars
  <2>10. duration' \in {"none", "waiting", "elapsed"}
    BY <2>0 DEF SumomoTypeOK, CaptureLoopEnds, RunLeaves, RunReturns, RunEnds,
         CapturerStopped, runVars
  <2>11. result' \in {"none", "ok", "error", "renderer error"}
    BY <2>0 DEF SumomoTypeOK, CaptureLoopEnds, RunLeaves, RunReturns, RunEnds,
         CapturerStopped, runVars
  <2> QED BY <2>0, <2>1, <2>2, <2>3, <2>4, <2>5, <2>6, <2>7, <2>8, <2>9, <2>10,
       <2>11 DEF SumomoTypeOK
<1>2. RestsBefore'
  BY DEF SumomoInv, RestsBefore, CaptureLoopEnds, RunLeaves, RunReturns, RunEnds,
         CapturerStopped,
         runVars, trackVars, showVars
<1>3. SinksAreKnown'
  BY DEF SumomoInv, RestsBefore, SinksAreKnown, CaptureLoopEnds, RunLeaves, RunReturns, RunEnds,
         CapturerStopped,
         runVars, trackVars, showVars
<1>4. EventsTell'
  BY DEF SumomoInv, RestsBefore, IsLastOf, EventsTell, CaptureLoopEnds, RunLeaves, RunReturns,
       RunEnds,
         CapturerStopped,
         runVars, trackVars, showVars
<1>5. SuccessWasOfRun'
  BY DEF SumomoInv, RestsBefore, SuccessWasOfRun, CaptureLoopEnds, RunLeaves, RunReturns,
       RunEnds,
         CapturerStopped,
         runVars, trackVars, showVars
<1>6. RendererIsFirst'
  <2>1. rendererError' = rendererError /\ result' = result /\ main' = main
    BY DEF CaptureLoopEnds, RunLeaves, RunReturns, RunEnds, showVars
  <2> QED BY <2>1 DEF SumomoInv, RendererIsFirst
<1> QED BY <1>1, <1>2, <1>3, <1>4, <1>5, <1>6 DEF SumomoInv

\* The loop of main(), all but its events.
LEMMA LoopKeeps ==
  ASSUME SumomoInv, RunHandleReady \/ DurationElapses \/ ReceiveFrame \/ WindowClosed
  PROVE  SumomoInv'
<1>1. SumomoTypeOK'
  <2>0. SumomoTypeOK
    BY DEF SumomoInv
  <2>1. capturer' \in [at : {"none", "capturing", "ended"}, stop : BOOLEAN]
    BY <2>0 DEF SumomoTypeOK, RunHandleReady, DurationElapses, ReceiveFrame, WindowClosed,
         MainLoops, RenderFrame, runVars
  <2>2. /\ renderer' \in [texture : FrameSizes \cup {NoTexture}, running : BOOLEAN]
        /\ frames' \in Seq(FrameSizes) /\ Len(frames') <= FrameCapacity
    <3>0. /\ renderer \in [texture : FrameSizes \cup {NoTexture}, running : BOOLEAN]
          /\ frames \in Seq(FrameSizes) /\ Len(frames) <= FrameCapacity
      BY <2>0 DEF SumomoTypeOK
    <3>1. CASE ReceiveFrame
      <4>1. /\ Head(frames) \in FrameSizes /\ Tail(frames) \in Seq(FrameSizes)
            /\ Len(Tail(frames)) <= FrameCapacity
        BY <3>0, <3>1 DEF ReceiveFrame, FrameCapacity
      <4>2. renderer' = renderer \/ renderer' = [renderer EXCEPT !.texture = Head(frames)]
        BY <3>1 DEF ReceiveFrame, RenderFrame
      <4>3. frames' = Tail(frames)
        BY <3>1 DEF ReceiveFrame
      <4> QED BY <3>0, <4>1, <4>2, <4>3
    <3>2. CASE RunHandleReady \/ DurationElapses \/ WindowClosed
      <4>1. renderer' = renderer \/ renderer' = [renderer EXCEPT !.running = FALSE]
        BY <3>2 DEF RunHandleReady, DurationElapses, WindowClosed, showVars
      <4>2. frames' = frames
        BY <3>2 DEF RunHandleReady, DurationElapses, WindowClosed, showVars
      <4> QED BY <3>0, <4>1, <4>2
    <3> QED BY <3>1, <3>2
  <2>3. rendererError' \in BOOLEAN
    <3>1. rendererError' = rendererError \/ rendererError' = TRUE \/ rendererError' = FALSE
      BY DEF RunHandleReady, DurationElapses, ReceiveFrame, WindowClosed, RenderFrame, showVars
    <3> QED BY <2>0, <3>1 DEF SumomoTypeOK
  <2>4. /\ UNCHANGED appEvents
        /\ remote' \subseteq Tracks
        /\ tracks' \subseteq Tracks
        /\ sinks' \subseteq Tracks
    BY <2>0 DEF SumomoTypeOK, RunHandleReady, DurationElapses, ReceiveFrame, WindowClosed,
         MainLoops, RenderFrame, trackVars
  <2>5. main' \in {"starting", "failing", "looping", "asking", "disconnecting", "joining",
                     "removing", "ending", "returned", "panicked"}
    BY <2>0 DEF SumomoTypeOK, RunHandleReady, DurationElapses, ReceiveFrame, WindowClosed,
         MainLoops, RenderFrame, runVars
  <2>6. run' \in {"none", "running", "leaving", "dropping", "ended", "aborted"}
    BY <2>0 DEF SumomoTypeOK, RunHandleReady, DurationElapses, ReceiveFrame, WindowClosed,
         MainLoops, RenderFrame, runVars
  <2>7. runResult' \in {"none", "ok", "error", "panic"}
    BY <2>0 DEF SumomoTypeOK, RunHandleReady, DurationElapses, ReceiveFrame, WindowClosed,
         MainLoops, RenderFrame, runVars
  <2>8. runHandle' \in {"fresh", "read"}
    BY <2>0 DEF SumomoTypeOK, RunHandleReady, DurationElapses, ReceiveFrame, WindowClosed,
         MainLoops, RenderFrame, runVars
  <2>9. command' \in {"none", "sent", "done", "refused"}
    BY <2>0 DEF SumomoTypeOK, RunHandleReady, DurationElapses, ReceiveFrame, WindowClosed,
         MainLoops, RenderFrame, runVars
  <2>10. duration' \in {"none", "waiting", "elapsed"}
    BY <2>0 DEF SumomoTypeOK, RunHandleReady, DurationElapses, ReceiveFrame, WindowClosed,
         MainLoops, RenderFrame, runVars
  <2>11. result' \in {"none", "ok", "error", "renderer error"}
    BY <2>0 DEF SumomoTypeOK, RunHandleReady, DurationElapses, ReceiveFrame, WindowClosed,
         MainLoops, RenderFrame, runVars
  <2> QED BY <2>0, <2>1, <2>2, <2>3, <2>4, <2>5, <2>6, <2>7, <2>8, <2>9, <2>10,
       <2>11 DEF SumomoTypeOK
<1>2. RestsBefore'
  BY DEF SumomoInv, RestsBefore, RunHandleReady, DurationElapses, ReceiveFrame, WindowClosed,
         MainLoops, RenderFrame,
         runVars, trackVars, showVars
<1>3. SinksAreKnown'
  BY DEF SumomoInv, RestsBefore, SinksAreKnown, RunHandleReady, DurationElapses, ReceiveFrame,
       WindowClosed,
         MainLoops, RenderFrame,
         runVars, trackVars, showVars
<1>4. EventsTell'
  BY DEF SumomoInv, RestsBefore, IsLastOf, EventsTell, RunHandleReady, DurationElapses,
       ReceiveFrame, WindowClosed,
         MainLoops, RenderFrame,
         runVars, trackVars, showVars
<1>5. SuccessWasOfRun'
  BY DEF SumomoInv, RestsBefore, SuccessWasOfRun, RunHandleReady, DurationElapses,
       ReceiveFrame, WindowClosed,
         MainLoops, RenderFrame,
         runVars, trackVars, showVars
<1>6. RendererIsFirst'
  BY DEF SumomoInv, RestsBefore, RendererIsFirst, RunHandleReady, DurationElapses,
       ReceiveFrame, WindowClosed,
         MainLoops, RenderFrame,
         runVars, trackVars, showVars
<1> QED BY <1>1, <1>2, <1>3, <1>4, <1>5, <1>6 DEF SumomoInv

\* The shutdown.
LEMMA ShutdownKeeps ==
  ASSUME SumomoInv, ShutdownConnection \/ Disconnected \/ JoinRun \/ ShutdownDeadlinePasses
  PROVE  SumomoInv'
<1>1. SumomoTypeOK'
  <2>0. SumomoTypeOK
    BY DEF SumomoInv
  <2>1. capturer' \in [at : {"none", "capturing", "ended"}, stop : BOOLEAN]
    BY <2>0 DEF SumomoTypeOK, ShutdownConnection, Disconnected, JoinRun, ShutdownDeadlinePasses,
         FromRun, runVars
  <2>2. /\ renderer' \in [texture : FrameSizes \cup {NoTexture}, running : BOOLEAN]
        /\ rendererError' \in BOOLEAN
    BY <2>0 DEF SumomoTypeOK, ShutdownConnection, Disconnected, JoinRun, ShutdownDeadlinePasses,
         FromRun, showVars
  <2>3. frames' \in Seq(FrameSizes) /\ Len(frames') <= FrameCapacity
    BY <2>0 DEF SumomoTypeOK, FrameCapacity, ShutdownConnection, Disconnected, JoinRun,
         ShutdownDeadlinePasses,
         FromRun, showVars
  <2>4. /\ UNCHANGED appEvents
        /\ remote' \subseteq Tracks
        /\ tracks' \subseteq Tracks
        /\ sinks' \subseteq Tracks
    BY <2>0 DEF SumomoTypeOK, ShutdownConnection, Disconnected, JoinRun, ShutdownDeadlinePasses,
         FromRun, trackVars
  <2>5. main' \in {"starting", "failing", "looping", "asking", "disconnecting", "joining",
                     "removing", "ending", "returned", "panicked"}
    BY <2>0 DEF SumomoTypeOK, ShutdownConnection, Disconnected, JoinRun, ShutdownDeadlinePasses,
         FromRun, runVars
  <2>6. run' \in {"none", "running", "leaving", "dropping", "ended", "aborted"}
    BY <2>0 DEF SumomoTypeOK, ShutdownConnection, Disconnected, JoinRun, ShutdownDeadlinePasses,
         FromRun, runVars
  <2>7. runResult' \in {"none", "ok", "error", "panic"}
    BY <2>0 DEF SumomoTypeOK, ShutdownConnection, Disconnected, JoinRun, ShutdownDeadlinePasses,
         FromRun, runVars
  <2>8. runHandle' \in {"fresh", "read"}
    BY <2>0 DEF SumomoTypeOK, ShutdownConnection, Disconnected, JoinRun, ShutdownDeadlinePasses,
         FromRun, runVars
  <2>9. command' \in {"none", "sent", "done", "refused"}
    BY <2>0 DEF SumomoTypeOK, ShutdownConnection, Disconnected, JoinRun, ShutdownDeadlinePasses,
         FromRun, runVars
  <2>10. duration' \in {"none", "waiting", "elapsed"}
    BY <2>0 DEF SumomoTypeOK, ShutdownConnection, Disconnected, JoinRun, ShutdownDeadlinePasses,
         FromRun, runVars
  <2>11. result' \in {"none", "ok", "error", "renderer error"}
    BY <2>0 DEF SumomoTypeOK, ShutdownConnection, Disconnected, JoinRun, ShutdownDeadlinePasses,
         FromRun, runVars
  <2> QED BY <2>0, <2>1, <2>2, <2>3, <2>4, <2>5, <2>6, <2>7, <2>8, <2>9, <2>10,
       <2>11 DEF SumomoTypeOK
<1>2. RestsBefore'
  BY DEF SumomoInv, RestsBefore, ShutdownConnection, Disconnected, JoinRun,
       ShutdownDeadlinePasses,
         FromRun,
         runVars, trackVars, showVars
<1>3. SinksAreKnown'
  BY DEF SumomoInv, RestsBefore, SinksAreKnown, ShutdownConnection, Disconnected, JoinRun,
       ShutdownDeadlinePasses,
         FromRun,
         runVars, trackVars, showVars
<1>4. EventsTell'
  BY DEF SumomoInv, RestsBefore, IsLastOf, EventsTell, ShutdownConnection, Disconnected,
       JoinRun, ShutdownDeadlinePasses,
         FromRun,
         runVars, trackVars, showVars
<1>5. SuccessWasOfRun'
  BY DEF SumomoInv, RestsBefore, SuccessWasOfRun, ShutdownConnection, Disconnected, JoinRun,
       ShutdownDeadlinePasses,
         FromRun,
         runVars, trackVars, showVars
<1>6. RendererIsFirst'
  BY DEF SumomoInv, RestsBefore, RendererIsFirst, ShutdownConnection, Disconnected, JoinRun,
       ShutdownDeadlinePasses,
         FromRun,
         runVars, trackVars, showVars
<1> QED BY <1>1, <1>2, <1>3, <1>4, <1>5, <1>6 DEF SumomoInv

\* The end of main().
LEMMA EndKeeps ==
  ASSUME SumomoInv, RemoveSinks \/ Returns
  PROVE  SumomoInv'
<1>1. SumomoTypeOK'
  <2>0. SumomoTypeOK
    BY DEF SumomoInv
  <2>1. capturer' \in [at : {"none", "capturing", "ended"}, stop : BOOLEAN]
    BY <2>0 DEF SumomoTypeOK, RemoveSinks, Returns,
         CapturerStopped, runVars
  <2>2. /\ renderer' \in [texture : FrameSizes \cup {NoTexture}, running : BOOLEAN]
        /\ rendererError' \in BOOLEAN
    BY <2>0 DEF SumomoTypeOK, RemoveSinks, Returns,
         CapturerStopped, showVars
  <2>3. frames' \in Seq(FrameSizes) /\ Len(frames') <= FrameCapacity
    BY <2>0 DEF SumomoTypeOK, FrameCapacity, RemoveSinks, Returns,
         CapturerStopped, showVars
  <2>4. /\ UNCHANGED appEvents
        /\ remote' \subseteq Tracks
        /\ tracks' \subseteq Tracks
        /\ sinks' \subseteq Tracks
    BY <2>0 DEF SumomoTypeOK, RemoveSinks, Returns,
         CapturerStopped, trackVars
  <2>5. main' \in {"starting", "failing", "looping", "asking", "disconnecting", "joining",
                     "removing", "ending", "returned", "panicked"}
    BY <2>0 DEF SumomoTypeOK, RemoveSinks, Returns,
         CapturerStopped, runVars
  <2>6. run' \in {"none", "running", "leaving", "dropping", "ended", "aborted"}
    BY <2>0 DEF SumomoTypeOK, RemoveSinks, Returns,
         CapturerStopped, runVars
  <2>7. runResult' \in {"none", "ok", "error", "panic"}
    BY <2>0 DEF SumomoTypeOK, RemoveSinks, Returns,
         CapturerStopped, runVars
  <2>8. runHandle' \in {"fresh", "read"}
    BY <2>0 DEF SumomoTypeOK, RemoveSinks, Returns,
         CapturerStopped, runVars
  <2>9. command' \in {"none", "sent", "done", "refused"}
    BY <2>0 DEF SumomoTypeOK, RemoveSinks, Returns,
         CapturerStopped, runVars
  <2>10. duration' \in {"none", "waiting", "elapsed"}
    BY <2>0 DEF SumomoTypeOK, RemoveSinks, Returns,
         CapturerStopped, runVars
  <2>11. result' \in {"none", "ok", "error", "renderer error"}
    BY <2>0 DEF SumomoTypeOK, RemoveSinks, Returns,
         CapturerStopped, runVars
  <2> QED BY <2>0, <2>1, <2>2, <2>3, <2>4, <2>5, <2>6, <2>7, <2>8, <2>9, <2>10,
       <2>11 DEF SumomoTypeOK
<1>2. RestsBefore'
  BY DEF SumomoInv, RestsBefore, RemoveSinks, Returns,
         CapturerStopped,
         runVars, trackVars, showVars
<1>3. SinksAreKnown'
  BY DEF SumomoInv, RestsBefore, SinksAreKnown, RemoveSinks, Returns,
         CapturerStopped,
         runVars, trackVars, showVars
<1>4. EventsTell'
  BY DEF SumomoInv, RestsBefore, IsLastOf, EventsTell, RemoveSinks, Returns,
         CapturerStopped,
         runVars, trackVars, showVars
<1>5. SuccessWasOfRun'
  BY DEF SumomoInv, RestsBefore, SuccessWasOfRun, RemoveSinks, Returns,
         CapturerStopped,
         runVars, trackVars, showVars
<1>6. RendererIsFirst'
  <2>1. rendererError' = rendererError
    BY DEF RemoveSinks, Returns, showVars
  <2>2. CASE RemoveSinks
    <3>1. main' = "ending" /\ main = "removing" /\ result # "renderer error"
      BY <2>2 DEF RemoveSinks, SumomoInv, RendererIsFirst
    <3>2. result' = IF rendererError THEN "renderer error" ELSE result
      BY <2>2 DEF RemoveSinks
    <3> QED BY <2>1, <3>1, <3>2 DEF RendererIsFirst
  <2>3. CASE Returns /\ main = "failing"
    <3>1. main' = "returned" /\ result' = "error" /\ ~rendererError
      BY <2>3 DEF Returns, SumomoInv, RestsBefore
    <3> QED BY <2>1, <3>1 DEF RendererIsFirst
  <2>4. CASE Returns /\ main = "ending"
    <3>1. main' = "returned" /\ result' = result
      BY <2>4 DEF Returns
    <3> QED BY <2>1, <2>4, <3>1 DEF SumomoInv, RendererIsFirst
  <2> QED BY <2>2, <2>3, <2>4 DEF Returns
<1> QED BY <1>1, <1>2, <1>3, <1>4, <1>5, <1>6 DEF SumomoInv

\* What the callbacks add to the events is the last of its track.
LEMMA EventIsAppended ==
  ASSUME SumomoTypeOK, EventsTell, run = "running",
         NEW t \in Tracks, NEW kind \in {"added", "removed"},
         appEvents' = Append(appEvents, <<kind, t>>),
         kind = "added" <=> t \in remote',
         \A u \in Tracks : u # t => (u \in remote' <=> u \in remote),
         tracks' = tracks
  PROVE  EventsTell'
<1> DEFINE n == Len(appEvents)
<1>1. /\ n \in Nat /\ DOMAIN appEvents = 1..n /\ DOMAIN appEvents' = 1..(n + 1)
      /\ \A i \in 1..n : appEvents'[i] = appEvents[i]
      /\ appEvents'[n + 1] = <<kind, t>>
  <2> DEFINE E == {"added", "removed"} \X Tracks
  <2>1. appEvents \in Seq(E) /\ <<kind, t>> \in E
    BY DEF SumomoTypeOK
  <2> HIDE DEF E
  <2>2. \A e \in E : appEvents' = Append(appEvents, e) =>
          /\ DOMAIN appEvents' = 1..(n + 1)
          /\ \A i \in 1..n : appEvents'[i] = appEvents[i]
          /\ appEvents'[n + 1] = e
    BY <2>1
  <2>3. n \in Nat /\ DOMAIN appEvents = 1..n
    BY <2>1
  <2> QED BY <2>1, <2>2, <2>3
<1> SUFFICES ASSUME NEW u \in Tracks
             PROVE  /\ \A i \in DOMAIN appEvents' :
                          IsLastOf(u, i)' => (appEvents'[i][1] = "added" <=> u \in remote')
                    /\ (\A i \in DOMAIN appEvents' : appEvents'[i][2] # u)
                         => (u \in tracks' <=> u \in remote')
  BY DEF EventsTell, IsLastOf
<1> HIDE DEF n
<1>2. CASE u = t
  <2>1. ASSUME NEW i \in 1..(n + 1), IsLastOf(u, i)' PROVE i = n + 1
    BY <2>1, <1>1, <1>2 DEF IsLastOf
  <2> QED BY <2>1, <1>1, <1>2
<1>3. CASE u # t
  <2>1. ASSUME NEW i \in 1..(n + 1), IsLastOf(u, i)' PROVE i \in 1..n /\ IsLastOf(u, i)
    BY <2>1, <1>1, <1>3 DEF IsLastOf
  <2>2. \A i \in 1..n : IsLastOf(u, i) => (appEvents[i][1] = "added" <=> u \in remote)
    BY <1>1 DEF EventsTell
  <2>3. ASSUME NEW i \in 1..(n + 1), IsLastOf(u, i)'
        PROVE  appEvents'[i][1] = "added" <=> u \in remote'
    <3>1. i \in 1..n /\ IsLastOf(u, i)
      BY <2>1, <2>3
    <3> QED BY <3>1, <2>2, <1>1, <1>3
  <2>4. (\A i \in 1..n : appEvents[i][2] # u) => (u \in tracks <=> u \in remote)
    BY <1>1 DEF EventsTell
  <2>5. (\A i \in 1..(n + 1) : appEvents'[i][2] # u) => (\A i \in 1..n : appEvents[i][2] # u)
    BY <1>1
  <2> QED BY <2>3, <2>4, <2>5, <1>1, <1>3
<1> QED BY <1>2, <1>3

\* What main() takes from them leaves the others in place, and is known from then on.
LEMMA EventIsTaken ==
  ASSUME SumomoTypeOK, EventsTell, run = "running", appEvents # <<>>,
         appEvents' = Tail(appEvents), remote' = remote,
         \A u \in Tracks : u # Head(appEvents)[2] => (u \in tracks' <=> u \in tracks),
         Head(appEvents)[2] \in tracks' <=> Head(appEvents)[1] = "added"
  PROVE  EventsTell'
<1> DEFINE n == Len(appEvents)
<1>1. /\ n \in Nat /\ n # 0 /\ DOMAIN appEvents = 1..n /\ DOMAIN appEvents' = 1..(n - 1)
      /\ \A i \in 1..(n - 1) : appEvents'[i] = appEvents[i + 1]
      /\ Head(appEvents) = appEvents[1]
  <2> DEFINE E == {"added", "removed"} \X Tracks
  <2>1. appEvents \in Seq(E)
    BY DEF SumomoTypeOK
  <2> HIDE DEF E
  <2> QED BY <2>1
<1> SUFFICES ASSUME NEW u \in Tracks
             PROVE  /\ \A i \in DOMAIN appEvents' :
                          IsLastOf(u, i)' => (appEvents'[i][1] = "added" <=> u \in remote')
                    /\ (\A i \in DOMAIN appEvents' : appEvents'[i][2] # u)
                         => (u \in tracks' <=> u \in remote')
  BY DEF EventsTell, IsLastOf
<1> HIDE DEF n
<1>2. \A i \in 1..n : IsLastOf(u, i) => (appEvents[i][1] = "added" <=> u \in remote)
  BY <1>1 DEF EventsTell
<1>3. (\A i \in 1..n : appEvents[i][2] # u) => (u \in tracks <=> u \in remote)
  BY <1>1 DEF EventsTell
<1>4. ASSUME NEW i \in 1..(n - 1), IsLastOf(u, i)'
      PROVE  appEvents'[i][1] = "added" <=> u \in remote'
  <2>1. appEvents'[i][2] = u /\ \A j \in 1..(n - 1) : j > i => appEvents'[j][2] # u
    BY <1>4, <1>1 DEF IsLastOf
  <2>2. ASSUME NEW j \in 1..n, j > i + 1 PROVE appEvents[j][2] # u
    <3>1. j - 1 \in 1..(n - 1) /\ j - 1 > i /\ (j - 1) + 1 = j
      BY <2>2, <1>1
    <3> QED BY <3>1, <2>1, <1>1
  <2>3. i + 1 \in 1..n /\ IsLastOf(u, i + 1)
    BY <2>1, <2>2, <1>1 DEF IsLastOf
  <2> QED BY <2>3, <1>1, <1>2
<1>5. ASSUME \A i \in 1..(n - 1) : appEvents'[i][2] # u PROVE u \in tracks' <=> u \in remote'
  <2>1. ASSUME NEW j \in 1..n, j > 1 PROVE appEvents[j][2] # u
    <3>1. j - 1 \in 1..(n - 1) /\ (j - 1) + 1 = j
      BY <2>1, <1>1
    <3> QED BY <3>1, <1>5, <1>1
  <2>2. 1 \in 1..n
    BY <1>1
  <2>3. CASE appEvents[1][2] = u
    <3>1. IsLastOf(u, 1)
      BY <2>1, <2>3, <1>1 DEF IsLastOf
    <3> QED BY <3>1, <2>2, <2>3, <1>1, <1>2
  <2>4. CASE appEvents[1][2] # u
    <3>1. \A j \in 1..n : appEvents[j][2] # u
      BY <2>1, <2>4, <1>1
    <3> QED BY <3>1, <2>4, <1>1, <1>3
  <2> QED BY <2>3, <2>4
<1> QED BY <1>4, <1>5, <1>1

\* What is shown and where main() and the run task are is typed as long as it stays.
LEMMA PlacesStayTyped ==
  ASSUME SumomoTypeOK,
         UNCHANGED <<main, run, runResult, runHandle, capturer, command, renderer, rendererError,
                     duration, result>>,
         remote' \subseteq Tracks, tracks' \subseteq Tracks, sinks' \subseteq Tracks,
         appEvents' \in Seq({"added", "removed"} \X Tracks), Len(appEvents') <= MaxEvents,
         frames' \in Seq(FrameSizes), Len(frames') <= FrameCapacity
  PROVE  SumomoTypeOK'
<1>1. capturer' \in [at : {"none", "capturing", "ended"}, stop : BOOLEAN]
  BY DEF SumomoTypeOK
<1>2. renderer' \in [texture : FrameSizes \cup {NoTexture}, running : BOOLEAN]
  BY DEF SumomoTypeOK
<1>3. rendererError' \in BOOLEAN
  BY DEF SumomoTypeOK
<1>4. main' \in {"starting", "failing", "looping", "asking", "disconnecting", "joining",
              "removing", "ending", "returned", "panicked"}
  BY DEF SumomoTypeOK
<1>5. run' \in {"none", "running", "leaving", "dropping", "ended", "aborted"}
  BY DEF SumomoTypeOK
<1>6. runResult' \in {"none", "ok", "error", "panic"}
  BY DEF SumomoTypeOK
<1>7. runHandle' \in {"fresh", "read"}
  BY DEF SumomoTypeOK
<1>8. command' \in {"none", "sent", "done", "refused"}
  BY DEF SumomoTypeOK
<1>9. duration' \in {"none", "waiting", "elapsed"}
  BY DEF SumomoTypeOK
<1>10. result' \in {"none", "ok", "error", "renderer error"}
  BY DEF SumomoTypeOK
<1> QED BY <1>1, <1>2, <1>3, <1>4, <1>5, <1>6, <1>7, <1>8, <1>9, <1>10 DEF SumomoTypeOK

\* The callbacks.
LEMMA CallbacksKeep ==
  ASSUME SumomoInv, NEW t \in Tracks, OnTrack(t) \/ OnRemoveTrack(t) \/ OnFrame(t)
  PROVE  SumomoInv'
<1>0. SumomoTypeOK /\ EventsTell
  BY DEF SumomoInv
<1>1. UNCHANGED <<main, run, runResult, runHandle, capturer, command, tracks, sinks, renderer,
                  rendererError, duration, result>>
  BY DEF OnTrack, OnRemoveTrack, OnFrame, runVars, trackVars, showVars
<1>2. remote' \subseteq Tracks /\ appEvents' \in Seq({"added", "removed"} \X Tracks)
      /\ Len(appEvents') <= MaxEvents
  <2>1. CASE \E kind \in {"added", "removed"} :
               /\ appEvents' = Append(appEvents, <<kind, t>>) /\ Len(appEvents) < MaxEvents
    <3> PICK kind \in {"added", "removed"} :
               /\ appEvents' = Append(appEvents, <<kind, t>>) /\ Len(appEvents) < MaxEvents
      BY <2>1
    <3> DEFINE E == {"added", "removed"} \X Tracks
    <3>1. <<kind, t>> \in E /\ appEvents \in Seq(E)
      BY <1>0 DEF SumomoTypeOK
    <3>2. remote' \subseteq Tracks
      BY <1>0 DEF OnTrack, OnRemoveTrack, OnFrame, trackVars, SumomoTypeOK
    <3> HIDE DEF E
    <3>3. \A e \in E : Append(appEvents, e) \in Seq(E) /\ Len(Append(appEvents, e)) = Len(appEvents) + 1
      BY <3>1
    <3>4. /\ appEvents' \in Seq(E)
          /\ Len(appEvents') = Len(appEvents) + 1
          /\ Len(appEvents) \in Nat
      BY <3>1, <3>3
    <3>5. Len(appEvents') <= MaxEvents
      BY <3>4, SumomoAssumption
    <3> QED BY <3>2, <3>4, <3>5 DEF E
  <2>2. CASE UNCHANGED <<remote, appEvents>>
    BY <2>2, <1>0 DEF SumomoTypeOK
  <2> QED BY <2>1, <2>2 DEF OnTrack, OnRemoveTrack, OnFrame, trackVars
<1>3. frames' \in Seq(FrameSizes) /\ Len(frames') <= FrameCapacity
  <2>1. CASE UNCHANGED frames
    BY <2>1, <1>0 DEF SumomoTypeOK
  <2>2. CASE OnFrame(t)
    <3>1. frames \in Seq(FrameSizes)
      BY <1>0 DEF SumomoTypeOK
    <3>2. PICK size \in FrameSizes : frames' = Append(frames, size)
      BY <2>2 DEF OnFrame
    <3>3. frames' \in Seq(FrameSizes) /\ Len(frames') = Len(frames) + 1 /\ Len(frames) \in Nat
      BY <3>1, <3>2
    <3> QED BY <2>2, <3>3 DEF OnFrame, FrameCapacity
  <2> QED BY <2>1, <2>2 DEF OnTrack, OnRemoveTrack, showVars
<1>4. SumomoTypeOK'
  <2>1. tracks' \subseteq Tracks /\ sinks' \subseteq Tracks
    BY <1>0, <1>1 DEF SumomoTypeOK
  <2> QED BY <2>1, <1>0, <1>1, <1>2, <1>3, PlacesStayTyped
<1>5. EventsTell'
  <2>1. CASE OnTrack(t)
    <3>1. appEvents' = Append(appEvents, <<"added", t>>) /\ run = "running"
      BY <2>1 DEF OnTrack
    <3>2. "added" = "added" <=> t \in remote'
      BY <2>1 DEF OnTrack
    <3>3. \A u \in Tracks : u # t => (u \in remote' <=> u \in remote)
      BY <2>1 DEF OnTrack
    <3> QED BY <3>1, <3>2, <3>3, <1>0, <1>1, EventIsAppended
  <2>2. CASE OnRemoveTrack(t)
    <3>1. appEvents' = Append(appEvents, <<"removed", t>>) /\ run = "running"
      BY <2>2 DEF OnRemoveTrack
    <3>2. "removed" = "added" <=> t \in remote'
      BY <2>2 DEF OnRemoveTrack
    <3>3. \A u \in Tracks : u # t => (u \in remote' <=> u \in remote)
      BY <2>2 DEF OnRemoveTrack
    <3> QED BY <3>1, <3>2, <3>3, <1>0, <1>1, EventIsAppended
  <2>3. CASE OnFrame(t)
    BY <2>3, <1>0, <1>1 DEF OnFrame, trackVars, EventsTell, IsLastOf
  <2> QED BY <2>1, <2>2, <2>3
<1>6. RestsBefore'
  <2>1. run = "running" \/ UNCHANGED trackVars
    BY DEF OnTrack, OnRemoveTrack, OnFrame
  <2> QED BY <1>1, <2>1 DEF SumomoInv, RestsBefore, trackVars
<1>7. SinksAreKnown' /\ SuccessWasOfRun' /\ RendererIsFirst'
  BY <1>1 DEF SumomoInv, SinksAreKnown, SuccessWasOfRun, RendererIsFirst
<1> QED BY <1>4, <1>5, <1>6, <1>7 DEF SumomoInv

\* main() follows an event.
LEMMA ReceiveEventKeeps ==
  ASSUME SumomoInv, ReceiveEvent PROVE SumomoInv'
<1>0. SumomoTypeOK /\ EventsTell /\ SinksAreKnown
  BY DEF SumomoInv
<1>1. UNCHANGED <<main, run, runResult, runHandle, capturer, command, remote, frames, renderer,
                  rendererError, duration, result>>
  BY DEF ReceiveEvent, runVars, showVars
<1>2. /\ main = "looping" /\ appEvents # <<>> /\ appEvents' = Tail(appEvents)
  BY DEF ReceiveEvent, MainLoops
<1>3. /\ Head(appEvents) \in {"added", "removed"} \X Tracks
      /\ appEvents' \in Seq({"added", "removed"} \X Tracks) /\ Len(appEvents') <= MaxEvents
  <2> DEFINE E == {"added", "removed"} \X Tracks
  <2>1. appEvents \in Seq(E) /\ Len(appEvents) <= MaxEvents
    BY <1>0 DEF SumomoTypeOK
  <2> HIDE DEF E
  <2>2. Head(appEvents) \in E /\ Tail(appEvents) \in Seq(E) /\ Len(Tail(appEvents)) <= MaxEvents
    BY <2>1, <1>2, SumomoAssumption
  <2> QED BY <2>2, <1>2 DEF E
<1> DEFINE kind == Head(appEvents)[1]
           t == Head(appEvents)[2]
<1>4. kind \in {"added", "removed"} /\ t \in Tracks
  BY <1>3
<1>5. \/ kind = "added" /\ HandleOnTrackEvent(t)
      \/ kind # "added" /\ HandleOnRemoveTrackEvent(t)
  BY DEF ReceiveEvent
<1> HIDE DEF kind, t
<1>6. /\ tracks' = IF kind = "added" THEN tracks \cup {t} ELSE tracks \ {t}
      /\ sinks' \subseteq tracks'
      /\ run = "running" => sinks' = tracks'
  BY <1>0, <1>4, <1>5 DEF HandleOnTrackEvent, HandleOnRemoveTrackEvent, SinksAreKnown
<1>7. tracks' \subseteq Tracks /\ sinks' \subseteq Tracks
  BY <1>0, <1>4, <1>6 DEF SumomoTypeOK
<1>8. SumomoTypeOK'
  <2>1. /\ remote' \subseteq Tracks /\ frames' \in Seq(FrameSizes)
        /\ Len(frames') <= FrameCapacity
    BY <1>0, <1>1 DEF SumomoTypeOK
  <2> QED BY <2>1, <1>0, <1>1, <1>3, <1>7, PlacesStayTyped
<1>9. RestsBefore'
  BY <1>1, <1>2 DEF SumomoInv, RestsBefore
<1>10. SinksAreKnown'
  BY <1>1, <1>2, <1>6 DEF SinksAreKnown
<1>11. SuccessWasOfRun' /\ RendererIsFirst'
  BY <1>1 DEF SumomoInv, SuccessWasOfRun, RendererIsFirst
<1>12. EventsTell'
  <2>1. CASE run = "running"
    <3>1. \A u \in Tracks : u # Head(appEvents)[2] => (u \in tracks' <=> u \in tracks)
      BY <1>6 DEF t
    <3>2. Head(appEvents)[2] \in tracks' <=> Head(appEvents)[1] = "added"
      BY <1>6 DEF t, kind
    <3> QED BY <2>1, <3>1, <3>2, <1>0, <1>1, <1>2, EventIsTaken
  <2>2. CASE run # "running"
    BY <2>2, <1>1 DEF EventsTell
  <2> QED BY <2>1, <2>2
<1> QED BY <1>8, <1>9, <1>10, <1>11, <1>12 DEF SumomoInv

\* SumomoInv is inductive.
LEMMA SumomoSteps == SumomoInv /\ [SumomoNext]_sumomoVars => SumomoInv'
<1> SUFFICES ASSUME SumomoInv, [SumomoNext]_sumomoVars PROVE SumomoInv'
  OBVIOUS
<1>1. CASE UNCHANGED sumomoVars
  <2>0. SumomoTypeOK
    BY DEF SumomoInv
  <2>1. UNCHANGED <<main, run, runResult, runHandle, capturer, command, remote, appEvents, tracks,
                    sinks, frames, renderer, rendererError, duration, result>>
    BY <1>1 DEF sumomoVars
  <2>2. /\ remote' \subseteq Tracks /\ tracks' \subseteq Tracks /\ sinks' \subseteq Tracks
        /\ appEvents' \in Seq({"added", "removed"} \X Tracks) /\ Len(appEvents') <= MaxEvents
        /\ frames' \in Seq(FrameSizes) /\ Len(frames') <= FrameCapacity
    BY <2>0, <2>1 DEF SumomoTypeOK
  <2>3. SumomoTypeOK'
    BY <2>0, <2>1, <2>2, PlacesStayTyped
  <2>4. RestsBefore' /\ SinksAreKnown' /\ SuccessWasOfRun' /\ RendererIsFirst'
    BY <2>1 DEF SumomoInv, RestsBefore, SinksAreKnown, SuccessWasOfRun, RendererIsFirst
  <2>5. EventsTell'
    BY <2>1 DEF SumomoInv, EventsTell, IsLastOf
  <2> QED BY <2>3, <2>4, <2>5 DEF SumomoInv
<1>2. CASE MainNext
  BY <1>2, StartsKeep, LoopKeeps, ReceiveEventKeeps, ShutdownKeeps, EndKeeps DEF MainNext
<1>3. CASE CaptureLoopEnds \/ RunLeaves \/ RunReturns \/ RunEnds
  BY <1>3, TaskKeeps
<1>4. CASE \E t \in Tracks : OnTrack(t) \/ OnRemoveTrack(t) \/ OnFrame(t)
  BY <1>4, CallbacksKeep
<1> QED BY <1>1, <1>2, <1>3, <1>4 DEF SumomoNext

\* SumomoInv holds of every behaviour.
LEMMA SumomoInvHolds == SumomoSpec => []SumomoInv
BY SumomoStarts, SumomoSteps, PTL DEF SumomoSpec

\* A track has a sink as the events tell, and none is left at the end.
LEMMA SinksFollow == SumomoInv => SinksFollowTracks
<1> SUFFICES ASSUME SumomoInv PROVE SinksFollowTracks
  OBVIOUS
<1>1. ASSUME run = "running", appEvents = <<>> PROVE sinks = remote
  <2>1. tracks \subseteq Tracks /\ remote \subseteq Tracks
    BY DEF SumomoInv, SumomoTypeOK
  <2>2. \A t \in Tracks : t \in tracks <=> t \in remote
    BY <1>1 DEF SumomoInv, EventsTell
  <2>3. sinks = tracks
    BY <1>1 DEF SumomoInv, SinksAreKnown
  <2> QED BY <2>1, <2>2, <2>3
<1> QED BY <1>1 DEF SumomoInv, SinksAreKnown, SinksFollowTracks

\* main() returns the first error.
LEMMA ExitIsFirstError == SumomoInv => ExitTellsFirstError
BY DEF SumomoInv, SuccessWasOfRun, RendererIsFirst, ExitTellsFirstError

-----------------------------------------------------------------------------
(* The test connection                                                     *)

TestTyped ==
  /\ task \in {"running", "leaving", "closed", "ended"}
  /\ taskResult \in {"none", "reason", "error"} /\ stored \in {"none", "reason", "error"}
  /\ posted \in Seq(Events) /\ queue \in Seq(Events) /\ log \in Seq(Events)
  /\ Len(posted) <= PostedMax
  /\ joined \in BOOLEAN
  /\ call \in [at : CallPlaces, wanted : SUBSET Events]
  /\ calls \in 0..CallsMax
  /\ outcome \in Outcomes

\* The task has a result from the moment it has dropped its variables.
ResultIsOfEnd == taskResult = "none" <=> task \in {"running", "leaving"}

\* The result of the task is known when it has been read, and only then.
JoinIsRead ==
  /\ reads = IF joined THEN 1 ELSE 0
  /\ joined => task = "ended" /\ stored = taskResult
  /\ ~joined => stored = "none"

\* What is read is read by a call.
CallsAreCounted == joined \/ call.at # "idle" => calls # 0

\* Whoever was told a result was told it of the ended task.
ToldWasRead == outcome \in {"reason", "timeout with error"} => joined

TestInv ==
  /\ TestTyped /\ ResultIsOfEnd /\ JoinIsRead /\ CallsAreCounted /\ ToldWasRead
  /\ EventsAreLogged

\* An event that is posted is the last.
LEMMA AppendIsLast ==
  ASSUME NEW s \in Seq(Events), NEW t \in Seq(Events), NEW e \in Events
  PROVE  Append(s \o t, e) = s \o Append(t, e)
<1>1. Append(s \o t, e) \in Seq(Events) /\ s \o Append(t, e) \in Seq(Events)
  OBVIOUS
<1>2. Len(Append(s \o t, e)) = Len(s \o Append(t, e))
  OBVIOUS
<1>3. \A i \in 1..Len(Append(s \o t, e)) : Append(s \o t, e)[i] = (s \o Append(t, e))[i]
  OBVIOUS
<1> QED BY <1>1, <1>2, <1>3, Sequence!SeqEqual

\* An event that goes from the channel to the log stays where it was.
LEMMA HeadMoves ==
  ASSUME NEW s \in Seq(Events), NEW t \in Seq(Events), t # <<>>
  PROVE  Append(s, Head(t)) \o Tail(t) = s \o t
<1>0. /\ Head(t) \in Events
      /\ Tail(t) \in Seq(Events)
      /\ Len(t) # 0
      /\ Len(Tail(t)) = Len(t) - 1
      /\ Len(t) \in Nat
  OBVIOUS
<1>1. Append(s, Head(t)) \o Tail(t) \in Seq(Events) /\ s \o t \in Seq(Events)
  BY <1>0
<1>2. Len(Append(s, Head(t)) \o Tail(t)) = Len(s \o t)
  BY <1>0
<1>3. \A i \in 1..Len(s \o t) : (Append(s, Head(t)) \o Tail(t))[i] = (s \o t)[i]
  BY <1>0
<1> QED BY <1>1, <1>2, <1>3, Sequence!SeqEqual

\* Nothing follows.
LEMMA EmptyAfter ==
  ASSUME NEW S, NEW s \in Seq(S) PROVE s \o <<>> = s
OBVIOUS

\* Nothing has been posted and nobody has asked.
LEMMA TestStarts == TestInit => TestInv
<1> SUFFICES ASSUME TestInit PROVE TestInv
  OBVIOUS
<1>1. <<>> \in Seq(Events) /\ Len(<<>>) = 0 /\ <<>> \o <<>> = <<>>
  OBVIOUS
<1>2. NoCall \in [at : CallPlaces, wanted : SUBSET Events] /\ NoCall.at = "idle"
  BY DEF NoCall, CallPlaces
<1>3. TestTyped
  <2>1. /\ posted \in Seq(Events) /\ queue \in Seq(Events) /\ log \in Seq(Events)
        /\ Len(posted) <= PostedMax /\ calls \in 0..CallsMax
    BY <1>1, TestAssumption DEF TestInit
  <2>2. call \in [at : CallPlaces, wanted : SUBSET Events]
    BY <1>2 DEF TestInit
  <2> QED BY <2>1, <2>2 DEF TestInit, TestTyped, Outcomes
<1>4. ResultIsOfEnd /\ JoinIsRead /\ CallsAreCounted /\ ToldWasRead
  BY <1>2 DEF TestInit, ResultIsOfEnd, JoinIsRead, CallsAreCounted, ToldWasRead
<1>5. EventsAreLogged
  BY <1>1 DEF TestInit, EventsAreLogged
<1> QED BY <1>3, <1>4, <1>5 DEF TestInv

\* The result is stored once, of a task that has ended.
LEMMA StoreKeeps ==
  ASSUME TestInv, Store, Stored, UNCHANGED <<task, taskResult>>, calls # 0, UNCHANGED calls
  PROVE  /\ JoinIsRead' /\ joined' = TRUE /\ stored' = taskResult
         /\ taskResult \in {"reason", "error"}
<1>1. CASE joined
  <2>1. task = "ended" /\ stored = taskResult /\ reads = 1 /\ joined = TRUE
    BY <1>1 DEF TestInv, TestTyped, JoinIsRead
  <2>2. UNCHANGED <<stored, joined, reads>>
    BY <1>1 DEF Store, joinVars
  <2> QED BY <2>1, <2>2 DEF JoinIsRead, TestInv, TestTyped, ResultIsOfEnd
<1>2. CASE ~joined
  <2>1. task = "ended" /\ reads = 0
    BY <1>2 DEF Stored, TestInv, JoinIsRead
  <2>2. joined' = TRUE /\ stored' = taskResult /\ reads' = reads + 1
    BY <1>2 DEF Store
  <2> QED BY <2>1, <2>2 DEF JoinIsRead, TestInv, TestTyped, ResultIsOfEnd
<1> QED BY <1>1, <1>2

\* A wait that is over reads the result if there is one.
LEMMA TimeoutKeeps ==
  ASSUME TestInv, TimeoutOrRunTaskError, UNCHANGED <<task, taskResult>>, calls # 0, UNCHANGED calls
  PROVE  /\ JoinIsRead' /\ call' = NoCall /\ outcome' \in {"timeout", "timeout with error"}
         /\ outcome' = "timeout with error" => joined'
         /\ stored' \in {"none", "reason", "error"} /\ joined' \in BOOLEAN
<1>1. CASE task = "ended"
  <2>1. Store /\ Stored
    BY <1>1 DEF TimeoutOrRunTaskError, Stored
  <2> QED BY <2>1, StoreKeeps DEF TimeoutOrRunTaskError, Return
<1>2. CASE task # "ended"
  BY <1>2 DEF TimeoutOrRunTaskError, Return, TestInv, TestTyped, JoinIsRead, joinVars
<1> QED BY <1>1, <1>2

\* What happens to the events: nothing, one is posted, all are collected, one is received.
LEMMA QueueKeeps ==
  ASSUME TestInv,
         \/ UNCHANGED <<posted, queue, log>>
         \/ \E e \in Events : Len(posted) < PostedMax /\ posted' = Append(posted, e)
                               /\ queue' = Append(queue, e) /\ UNCHANGED log
         \/ CollectPendingEvents /\ UNCHANGED posted
         \/ /\ queue # <<>> /\ UNCHANGED posted
            /\ queue' = Tail(queue) /\ log' = Append(log, Head(queue))
  PROVE  /\ posted' \in Seq(Events) /\ queue' \in Seq(Events) /\ log' \in Seq(Events)
         /\ Len(posted') <= PostedMax /\ EventsAreLogged'
<1>t. /\ posted \in Seq(Events) /\ queue \in Seq(Events) /\ log \in Seq(Events)
      /\ Len(posted) <= PostedMax /\ posted = log \o queue
  BY DEF TestInv, TestTyped, EventsAreLogged
<1>1. CASE UNCHANGED <<posted, queue, log>>
  BY <1>1, <1>t DEF EventsAreLogged
<1>2. CASE \E e \in Events : Len(posted) < PostedMax /\ posted' = Append(posted, e)
                               /\ queue' = Append(queue, e) /\ UNCHANGED log
  <2> PICK e \in Events : Len(posted) < PostedMax /\ posted' = Append(posted, e)
                               /\ queue' = Append(queue, e) /\ UNCHANGED log
    BY <1>2
  <2>1. posted' = log \o queue'
    <3>1. Append(log \o queue, e) = log \o Append(queue, e)
      BY <1>t, AppendIsLast
    <3>2. posted' = Append(log \o queue, e) /\ queue' = Append(queue, e)
      BY <1>t
    <3> QED BY <3>1, <3>2, Zenon
  <2>2. posted' \in Seq(Events) /\ Len(posted') <= PostedMax /\ queue' \in Seq(Events)
    BY <1>t, TestAssumption
  <2> QED BY <1>t, <2>1, <2>2 DEF EventsAreLogged
<1>3. CASE CollectPendingEvents /\ UNCHANGED posted
  BY <1>3, <1>t, EmptyAfter DEF CollectPendingEvents, EventsAreLogged
<1>4. CASE /\ queue # <<>> /\ UNCHANGED posted
           /\ queue' = Tail(queue) /\ log' = Append(log, Head(queue))
  <2>1. log' \o queue' = log \o queue
    BY <1>4, <1>t, HeadMoves
  <2>2. queue' \in Seq(Events) /\ log' \in Seq(Events)
    BY <1>4, <1>t
  <2> QED BY <1>4, <1>t, <2>1, <2>2 DEF EventsAreLogged
<1> QED BY <1>1, <1>2, <1>3, <1>4

\* The task's own steps.
LEMMA TestTaskKeeps ==
  ASSUME TestInv, (\E e \in Events : Post(e)) \/ TaskLeaves \/ ChannelCloses \/ TaskEnds
  PROVE  TestInv'
<1>q. /\ posted' \in Seq(Events) /\ queue' \in Seq(Events) /\ log' \in Seq(Events)
      /\ Len(posted') <= PostedMax /\ EventsAreLogged'
  <2>1. CASE \E e \in Events : Post(e)
    <3>1. \E e \in Events : Len(posted) < PostedMax /\ posted' = Append(posted, e)
                               /\ queue' = Append(queue, e) /\ UNCHANGED log
      BY <2>1 DEF Post
    <3> QED BY <3>1, QueueKeeps
  <2>2. CASE TaskLeaves \/ ChannelCloses \/ TaskEnds
    <3>1. UNCHANGED <<posted, queue, log>>
      BY <2>2 DEF TaskLeaves, ChannelCloses, TaskEnds
    <3> QED BY <3>1, QueueKeeps
  <2> QED BY <2>1, <2>2
<1>1. UNCHANGED <<joinVars, call, calls, outcome>>
  BY DEF Post, TaskLeaves, ChannelCloses, TaskEnds
<1>2. /\ task' \in {"running", "leaving", "closed", "ended"}
      /\ taskResult' \in {"none", "reason", "error"}
      /\ ResultIsOfEnd'
      /\ task = "ended" => task' = "ended" /\ taskResult' = taskResult
  BY DEF Post, TaskLeaves, ChannelCloses, TaskEnds, TestInv, TestTyped, ResultIsOfEnd
<1> QED
  BY <1>q, <1>1, <1>2
  DEF TestInv, TestTyped, JoinIsRead, CallsAreCounted, ToldWasRead, joinVars

\* Calls that begin, or that go on without reading the result of the task.
LEMMA CallsKeep ==
  ASSUME TestInv, NEW w \in SUBSET Events,
         \/ CountEvents \/ Poll \/ Polled \/ NoEvent \/ WaitForEvent(w) \/ WaitForRunFinished
         \/ NotFinishedInTime \/ DisconnectAndWait \/ Acknowledge \/ RefuseRequest
  PROVE  TestInv'
<1>q. /\ posted' \in Seq(Events) /\ queue' \in Seq(Events) /\ log' \in Seq(Events)
      /\ Len(posted') <= PostedMax /\ EventsAreLogged'
  <2>1. CASE CountEvents \/ WaitForEvent(w)
    <3>1. CollectPendingEvents /\ UNCHANGED posted
      BY <2>1 DEF CountEvents, WaitForEvent, taskVars
    <3> QED BY <3>1, QueueKeeps
  <2>2. CASE \/ Poll \/ Polled \/ NoEvent \/ WaitForRunFinished
             \/ NotFinishedInTime \/ DisconnectAndWait \/ Acknowledge \/ RefuseRequest
    <3>1. UNCHANGED <<posted, queue, log>>
      BY <2>2
      DEF Poll, Polled, NoEvent, WaitForRunFinished, NotFinishedInTime, DisconnectAndWait,
          Acknowledge, RefuseRequest, taskVars
    <3> QED BY <3>1, QueueKeeps
  <2> QED BY <2>1, <2>2
<1>1. UNCHANGED joinVars
  BY DEF CountEvents, WaitForEvent, Poll, Polled, NoEvent, WaitForRunFinished,
         NotFinishedInTime, DisconnectAndWait, Acknowledge, RefuseRequest
<1>2. /\ task' \in {"running", "leaving", "closed", "ended"}
      /\ taskResult' \in {"none", "reason", "error"}
      /\ ResultIsOfEnd'
      /\ task = "ended" => task' = "ended" /\ taskResult' = taskResult
  BY DEF CountEvents, WaitForEvent, Poll, Polled, NoEvent, WaitForRunFinished,
         NotFinishedInTime, DisconnectAndWait, Acknowledge, RefuseRequest, taskVars,
         TestInv, TestTyped, ResultIsOfEnd
<1>3. /\ call' \in [at : CallPlaces, wanted : SUBSET Events]
      /\ outcome' \in Outcomes
      /\ outcome' # outcome => outcome' \in {"ok", "timeout", "error"}
  <2>0. call \in [at : CallPlaces, wanted : SUBSET Events] /\ outcome \in Outcomes
    BY DEF TestInv, TestTyped
  <2>1. NoCall \in [at : CallPlaces, wanted : SUBSET Events]
    BY DEF NoCall, CallPlaces
  <2>2. \A p \in CallPlaces, v \in SUBSET Events :
          [at |-> p, wanted |-> v] \in [at : CallPlaces, wanted : SUBSET Events]
    OBVIOUS
  <2>3. \A p \in CallPlaces :
          [call EXCEPT !.at = p] \in [at : CallPlaces, wanted : SUBSET Events]
    BY <2>0
  <2>4. {"idle", "receiving", "storing", "finishing", "asking", "refused", "polling"} = CallPlaces
    BY DEF CallPlaces
  <2>5. call' \in [at : CallPlaces, wanted : SUBSET Events]
    <3>1. \/ call' = call \/ call' = NoCall
          \/ \E p \in CallPlaces : call' = [call EXCEPT !.at = p]
          \/ \E p \in CallPlaces, v \in SUBSET Events : call' = [at |-> p, wanted |-> v]
      BY <2>4
      DEF CountEvents, WaitForEvent, Poll, Polled, NoEvent, WaitForRunFinished,
          NotFinishedInTime, DisconnectAndWait, Acknowledge, RefuseRequest, Return
    <3> QED BY <3>1, <2>0, <2>1, <2>2, <2>3
  <2>6. \/ outcome' = outcome \/ outcome' \in {"ok", "timeout", "error"}
    BY DEF CountEvents, WaitForEvent, Poll, Polled, NoEvent, WaitForRunFinished,
           NotFinishedInTime, DisconnectAndWait, Acknowledge, RefuseRequest, Return
  <2> QED BY <2>0, <2>5, <2>6 DEF Outcomes
<1>4. calls' \in 0..CallsMax /\ (calls' # 0 \/ (calls' = calls /\ ~joined /\ call.at = "idle"))
  <2>1. CASE Call
    BY <2>1, TestAssumption DEF Call, TestInv, TestTyped
  <2>2. CASE UNCHANGED calls
    BY <2>2 DEF TestInv, TestTyped, CallsAreCounted
  <2> QED
    BY <2>1, <2>2
    DEF CountEvents, WaitForEvent, Poll, Polled, NoEvent, WaitForRunFinished,
        NotFinishedInTime, DisconnectAndWait, Acknowledge, RefuseRequest
<1>5. call.at # "idle" => calls' # 0
  BY <1>4
<1>6. call.at = "idle" => Call
  BY DEF CountEvents, WaitForEvent, Poll, Polled, NoEvent, WaitForRunFinished,
         NotFinishedInTime, DisconnectAndWait, Acknowledge, RefuseRequest
<1>7. CallsAreCounted'
  <2>1. CASE Call
    <3>1. calls' # 0
      BY <2>1, TestAssumption DEF Call, TestInv, TestTyped
    <3> QED BY <3>1 DEF CallsAreCounted
  <2>2. CASE ~Call
    BY <2>2, <1>5, <1>6 DEF CallsAreCounted
  <2> QED BY <2>1, <2>2
<1> QED
  BY <1>q, <1>1, <1>2, <1>3, <1>4, <1>7
  DEF TestInv, TestTyped, JoinIsRead, ToldWasRead, joinVars

\* Calls that read it.
LEMMA ReadsKeep ==
  ASSUME TestInv, StoreAndReturn \/ FinishedInTime \/ StoreAfterRefusal
  PROVE  TestInv'
<1>1. Store /\ Stored /\ UNCHANGED <<task, taskResult, posted, queue, log, calls>> /\ calls # 0
  BY DEF StoreAndReturn, FinishedInTime, StoreAfterRefusal, TestInv, CallsAreCounted, taskVars
<1>2. /\ JoinIsRead' /\ joined' = TRUE /\ stored' = taskResult
      /\ taskResult \in {"reason", "error"}
  BY <1>1, StoreKeeps
<1>q. /\ posted' \in Seq(Events) /\ queue' \in Seq(Events) /\ log' \in Seq(Events)
      /\ Len(posted') <= PostedMax /\ EventsAreLogged'
  BY <1>1, QueueKeeps
<1>3. call' = NoCall /\ outcome' \in Outcomes
  BY <1>2 DEF StoreAndReturn, FinishedInTime, StoreAfterRefusal, Return, Outcomes
<1> QED
  BY <1>q, <1>1, <1>2, <1>3
  DEF TestInv, TestTyped, ResultIsOfEnd, CallsAreCounted, ToldWasRead, NoCall, CallPlaces

\* A call receives an event.
LEMMA ReceiveKeeps ==
  ASSUME TestInv, ReceivePosted PROVE TestInv'
<1>1. /\ UNCHANGED <<task, taskResult, posted, calls>> /\ calls # 0
      /\ queue # <<>> /\ queue' = Tail(queue) /\ log' = Append(log, Head(queue))
  BY DEF ReceivePosted, TestInv, CallsAreCounted, taskVars
<1>q. /\ posted' \in Seq(Events) /\ queue' \in Seq(Events) /\ log' \in Seq(Events)
      /\ Len(posted') <= PostedMax /\ EventsAreLogged'
  BY <1>1, QueueKeeps
<1>2. CASE TimeoutOrRunTaskError
  <2>1. /\ JoinIsRead' /\ call' = NoCall /\ outcome' \in {"timeout", "timeout with error"}
        /\ outcome' = "timeout with error" => joined'
        /\ stored' \in {"none", "reason", "error"} /\ joined' \in BOOLEAN
    BY <1>1, <1>2, TimeoutKeeps
  <2> QED
    BY <1>q, <1>1, <2>1
    DEF TestInv, TestTyped, ResultIsOfEnd, CallsAreCounted, ToldWasRead, NoCall, CallPlaces,
        Outcomes
<1>3. CASE (Return("ok") \/ UNCHANGED <<call, outcome>>) /\ UNCHANGED joinVars
  <2>1. JoinIsRead' /\ UNCHANGED <<stored, joined, reads>>
    BY <1>1, <1>3 DEF TestInv, JoinIsRead, joinVars
  <2>2. \/ call' = call /\ outcome' = outcome
        \/ call' = [at |-> "idle", wanted |-> {}] /\ outcome' = "ok"
    BY <1>3 DEF Return, NoCall
  <2>3. /\ call' \in [at : CallPlaces, wanted : SUBSET Events] /\ outcome' \in Outcomes
        /\ ToldWasRead'
    <3>1. call' \in [at : CallPlaces, wanted : SUBSET Events]
      BY <2>2 DEF TestInv, TestTyped, CallPlaces
    <3>2. outcome' \in Outcomes
      BY <2>2 DEF TestInv, TestTyped, Outcomes
    <3>3. ToldWasRead'
      BY <2>1, <2>2 DEF TestInv, ToldWasRead
    <3> QED BY <3>1, <3>2, <3>3
  <2> QED
    <3>1. stored' \in {"none", "reason", "error"} /\ joined' \in BOOLEAN /\ CallsAreCounted'
      BY <1>1, <2>1 DEF TestInv, TestTyped, CallsAreCounted
    <3>2. ResultIsOfEnd'
      BY <1>1 DEF TestInv, ResultIsOfEnd
    <3> QED BY <1>q, <1>1, <2>1, <2>3, <3>1, <3>2 DEF TestInv, TestTyped
<1> QED BY <1>2, <1>3 DEF ReceivePosted

\* TestInv is inductive.
LEMMA TestSteps == TestInv /\ [TestNext]_testVars => TestInv'
<1> SUFFICES ASSUME TestInv, [TestNext]_testVars PROVE TestInv'
  OBVIOUS
<1>1. CASE UNCHANGED testVars
  BY <1>1
  DEF testVars, TestInv, TestTyped, ResultIsOfEnd, JoinIsRead, CallsAreCounted, ToldWasRead,
      EventsAreLogged
<1>2. CASE TestNext
  <2>1. {} \in SUBSET Events
    OBVIOUS
  <2> QED BY <1>2, <2>1, TestTaskKeeps, CallsKeep, ReadsKeep, ReceiveKeeps DEF TestNext
<1> QED BY <1>1, <1>2

\* TestInv holds of every behaviour.
LEMMA TestInvHolds == TestSpec => []TestInv
BY TestStarts, TestSteps, PTL DEF TestSpec

\* Log and channel hold no more than was posted, and there is no read without a call.
LEMMA LoggedIsWithin == TestInv => TestTypeOK
<1> SUFFICES ASSUME TestInv PROVE TestTypeOK
  OBVIOUS
<1>1. posted \in Seq(Events) /\ queue \in Seq(Events) /\ log \in Seq(Events)
  BY DEF TestInv, TestTyped
<1>2. Len(posted) = Len(log) + Len(queue) /\ Len(log) \in Nat /\ Len(queue) \in Nat
  <2>1. posted = log \o queue
    BY DEF TestInv, EventsAreLogged
  <2> QED BY <1>1, <2>1
<1>3. Len(log) <= PostedMax /\ Len(queue) <= PostedMax /\ Len(posted) <= PostedMax
  BY <1>2, TestAssumption DEF TestInv, TestTyped
<1>4. reads \in 0..CallsMax
  BY TestAssumption DEF TestInv, TestTyped, JoinIsRead, CallsAreCounted
<1> QED BY <1>1, <1>3, <1>4 DEF TestInv, TestTyped, TestTypeOK

\* The result was read at most once, by whoever was told it.
LEMMA ReadOnce == TestInv => ResultIsReadOnce
<1> SUFFICES ASSUME TestInv PROVE ResultIsReadOnce
  OBVIOUS
<1>1. reads <= 1
  <2>1. reads = 0 \/ reads = 1
    BY DEF TestInv, JoinIsRead
  <2> QED BY <2>1
<1> QED BY <1>1 DEF TestInv, JoinIsRead, ToldWasRead, ResultIsReadOnce

-----------------------------------------------------------------------------
(* The proxy                                                               *)

Handled(l) == link[l] \in {"decoding", "connecting", "relaying"}

\* The counter is the number of connections that are handled.
ActiveIsCounted == active = Cardinality({l \in Links : Handled(l)})

\* No more is read than was sent.
TakenWasSent ==
  \A l \in Links : client[l].taken <= client[l].sent /\ server[l].taken <= server[l].sent

\* The way up ends only at the end of what the client sends, or because an end was reset.
UpEndsAtTheEnd ==
  \A l \in Links : up[l] = "ended" => AtEnd("client", l) \/ server[l].at = "reset"

\* Only a relay passes an end on, and it is over only when its way up is.
EofComesFromRelay ==
  \A l \in Links : eof[l] # {} =>
    /\ link[l] \in {"relaying", "done"}
    /\ link[l] = "done" => up[l] = "ended"

ProxyInv ==
  ProxyTypeOK /\ ActiveIsCounted /\ TakenWasSent /\ UpEndsAtTheEnd /\ EofComesFromRelay

\* One more byte sent,
LEMMA SentIsTyped ==
  ASSUME NEW f \in [Links -> Sockets], NEW l \in Links, f[l].sent < BytesEach
  PROVE  [f EXCEPT ![l].sent = @ + 1] \in [Links -> Sockets]
<1>1. f[l] \in Sockets
  OBVIOUS
<1>2. [f[l] EXCEPT !.sent = @ + 1] \in Sockets
  BY <1>1, ProxyAssumption DEF Sockets
<1> QED BY <1>2

\* one more read,
LEMMA TakenIsTyped ==
  ASSUME NEW f \in [Links -> Sockets], NEW l \in Links, f[l].taken < f[l].sent
  PROVE  [f EXCEPT ![l].taken = @ + 1] \in [Links -> Sockets]
<1>1. f[l] \in Sockets
  OBVIOUS
<1>2. [f[l] EXCEPT !.taken = @ + 1] \in Sockets
  BY <1>1, ProxyAssumption DEF Sockets
<1> QED BY <1>2

\* and an end: a socket stays one.
LEMMA EndIsTyped ==
  ASSUME NEW f \in [Links -> Sockets], NEW l \in Links, NEW how \in {"ended", "reset"}
  PROVE  [f EXCEPT ![l].at = how] \in [Links -> Sockets]
<1>1. f[l] \in Sockets
  OBVIOUS
<1>2. [f[l] EXCEPT !.at = how] \in Sockets
  BY <1>1 DEF Sockets
<1> QED BY <1>2

\* Bytes are counted.
LEMMA BytesAreNumbers ==
  ASSUME NEW f \in [Links -> Sockets]
  PROVE  \A k \in Links : f[k].sent \in Nat /\ f[k].taken \in Nat
BY ProxyAssumption DEF Sockets

\* No connection has been accepted.
LEMMA ProxyStarts == ProxyInit => ProxyInv
<1> SUFFICES ASSUME ProxyInit PROVE ProxyInv
  OBVIOUS
<1> USE DEF ProxyInit
<1>1. {l \in Links : Handled(l)} = {}
  BY DEF Handled
<1>2. ActiveIsCounted
  BY <1>1, FS_EmptySet DEF ActiveIsCounted
<1>3. Cardinality(Links) \in Nat
  BY ProxyAssumption, FS_CardinalityType
<1>4. Unused \in Sockets
  BY ProxyAssumption DEF Unused, Sockets
<1>5. ProxyTypeOK
  <2>1. active \in 0..Cardinality(Links)
    BY <1>3
  <2>2. client \in [Links -> Sockets] /\ server \in [Links -> Sockets]
    BY <1>4
  <2>3. eof \in [Links -> SUBSET {"client", "server"}]
    OBVIOUS
  <2> QED BY <2>1, <2>2, <2>3 DEF ProxyTypeOK, LinkPlaces, Relays
<1>6. TakenWasSent /\ UpEndsAtTheEnd /\ EofComesFromRelay
  BY DEF TakenWasSent, UpEndsAtTheEnd, EofComesFromRelay, Unused
<1> HIDE DEF ProxyInit
<1> QED BY <1>2, <1>5, <1>6 DEF ProxyInv

\* There are no more connections handled than there are.
LEMMA CountIsWithin ==
  ASSUME NEW S, S \subseteq Links PROVE Cardinality(S) \in 0..Cardinality(Links)
<1>1. Cardinality(S) <= Cardinality(Links) /\ IsFiniteSet(S)
  BY ProxyAssumption, FS_Subset
<1>2. Cardinality(S) \in Nat /\ Cardinality(Links) \in Nat
  BY <1>1, ProxyAssumption, FS_CardinalityType
<1> QED BY <1>1, <1>2

\* What a step of one connection does to its places.
LEMMA CountKeeps ==
  ASSUME ProxyInv, NEW l \in Links,
         \/ Accept(l) \/ ConnectFails(l) \/ RelayEnds(l)
         \/ /\ UNCHANGED active
            /\ link' \in [Links -> LinkPlaces]
            /\ \A k \in Links : Handled(k) <=> Handled(k)'
  PROVE  ActiveIsCounted' /\ active' \in 0..Cardinality(Links)
<1> DEFINE S == {k \in Links : Handled(k)}
           T == {k \in Links : Handled(k)'}
<1>t. link \in [Links -> LinkPlaces] /\ active = Cardinality(S)
  BY DEF ProxyInv, ProxyTypeOK, ActiveIsCounted
<1>f. IsFiniteSet(S) /\ Cardinality(S) \in Nat
  <2>1. S \subseteq Links
    OBVIOUS
  <2>2. IsFiniteSet(S)
    BY <2>1, ProxyAssumption, FS_Subset
  <2> QED BY <2>2, FS_CardinalityType
<1>1. active' = Cardinality(T)
  <2>1. CASE Accept(l)
    <3>1. T = S \cup {l} /\ l \notin S
      BY <2>1, <1>t DEF Accept, Handled
    <3>2. Cardinality(T) = Cardinality(S) + 1
      BY <3>1, <1>f, FS_AddElement
    <3> QED BY <3>2, <2>1, <1>t DEF Accept
  <2>2. CASE ConnectFails(l) \/ RelayEnds(l)
    <3>1. T = S \ {l} /\ l \in S
      BY <2>2, <1>t DEF ConnectFails, RelayEnds, Over, Handled
    <3>2. Cardinality(T) = Cardinality(S) - 1
      BY <3>1, <1>f, FS_RemoveElement
    <3> QED BY <3>2, <2>2, <1>t DEF ConnectFails, RelayEnds, Over
  <2>3. CASE UNCHANGED active /\ (\A k \in Links : Handled(k) <=> Handled(k)')
    <3>1. T = S
      BY <2>3
    <3> QED BY <3>1, <2>3, <1>t
  <2> QED BY <2>1, <2>2, <2>3
<1>2. T \subseteq Links
  OBVIOUS
<1> QED BY <1>1, <1>2, CountIsWithin DEF ActiveIsCounted

\* What the two ends do.
LEMMA SocketsKeep ==
  ASSUME ProxyInv, NEW l \in Links, NEW side \in {"client", "server"},
         \/ Send(l, side) \/ \E how \in {"ended", "reset"} : Ends(l, side, how)
  PROVE  ProxyInv'
<1> USE DEF ProxyInv, ProxyTypeOK
<1>t. client \in [Links -> Sockets] /\ server \in [Links -> Sockets]
  OBVIOUS
<1>1. client' \in [Links -> Sockets] /\ server' \in [Links -> Sockets]
  <2>1. CASE Send(l, side)
    <3>1. client[l].sent < BytesEach => [client EXCEPT ![l].sent = @ + 1] \in [Links -> Sockets]
      BY <1>t, SentIsTyped
    <3>2. server[l].sent < BytesEach => [server EXCEPT ![l].sent = @ + 1] \in [Links -> Sockets]
      BY <1>t, SentIsTyped
    <3> QED BY <2>1, <1>t, <3>1, <3>2 DEF Send, Socket
  <2>2. CASE \E how \in {"ended", "reset"} : Ends(l, side, how)
    <3> PICK how \in {"ended", "reset"} : Ends(l, side, how)
      BY <2>2
    <3>1. [client EXCEPT ![l].at = how] \in [Links -> Sockets]
      BY <1>t, EndIsTyped
    <3>2. [server EXCEPT ![l].at = how] \in [Links -> Sockets]
      BY <1>t, EndIsTyped
    <3> QED BY <1>t, <3>1, <3>2 DEF Ends
  <2> QED BY <2>1, <2>2
<1>u. UNCHANGED <<link, up, down, eof, shutdown, accepting, active>>
  BY DEF Send, Ends
<1>2. ActiveIsCounted' /\ active' \in 0..Cardinality(Links)
  <2>1. \A k \in Links : Handled(k) <=> Handled(k)'
    BY <1>u DEF Handled
  <2> QED BY <1>u, <2>1, CountKeeps
<1>3. TakenWasSent'
  <2>1. TakenWasSent
    OBVIOUS
  <2>2. CASE Send(l, side)
    <3>1. \A k \in Links : /\ client[k].sent \in Nat /\ client[k].taken \in Nat
                           /\ server[k].sent \in Nat /\ server[k].taken \in Nat
      BY <1>t, BytesAreNumbers
    <3>2. \A k \in Links : client[k].taken = client'[k].taken /\ client[k].sent <= client'[k].sent
      <4>1. CASE UNCHANGED client
        BY <4>1, <3>1
      <4>2. CASE client' = [client EXCEPT ![l].sent = @ + 1]
        BY <4>2, <1>t, <3>1 DEF Sockets
      <4> QED BY <4>1, <4>2, <2>2 DEF Send
    <3>3. \A k \in Links : server[k].taken = server'[k].taken /\ server[k].sent <= server'[k].sent
      <4>1. CASE UNCHANGED server
        BY <4>1, <3>1
      <4>2. CASE server' = [server EXCEPT ![l].sent = @ + 1]
        BY <4>2, <1>t, <3>1 DEF Sockets
      <4> QED BY <4>1, <4>2, <2>2 DEF Send
    <3>4. \A k \in Links : client'[k].sent \in Nat /\ server'[k].sent \in Nat
      BY <1>1, BytesAreNumbers
    <3> QED BY <2>1, <3>1, <3>2, <3>3, <3>4 DEF TakenWasSent
  <2>3. CASE \E how \in {"ended", "reset"} : Ends(l, side, how)
    BY <2>1, <2>3, <1>t DEF Ends, Socket, Sockets, TakenWasSent
  <2> QED BY <2>2, <2>3
<1>4. UpEndsAtTheEnd'
  <2>1. UpEndsAtTheEnd
    OBVIOUS
  <2>2. CASE Send(l, side)
    BY <2>1, <2>2, <1>t DEF Send, Socket, Sockets, UpEndsAtTheEnd, AtEnd
  <2>3. CASE \E how \in {"ended", "reset"} : Ends(l, side, how)
    BY <2>1, <2>3, <1>t DEF Ends, Socket, Sockets, UpEndsAtTheEnd, AtEnd
  <2> QED BY <2>2, <2>3
<1>5. EofComesFromRelay'
  BY <1>u DEF EofComesFromRelay
<1> QED BY <1>1, <1>2, <1>3, <1>4, <1>5, <1>u

\* What the relay does.
LEMMA RelaysKeep ==
  ASSUME ProxyInv, NEW l \in Links,
         RelayUp(l) \/ RelayDown(l) \/ RelayUpEnds(l) \/ RelayDownEnds(l) \/ Cut(l)
  PROVE  ProxyInv'
<1> USE DEF ProxyInv, ProxyTypeOK
<1>t. client \in [Links -> Sockets] /\ server \in [Links -> Sockets]
  OBVIOUS
<1>u. UNCHANGED <<link, shutdown, accepting, active>> /\ link[l] = "relaying"
  BY DEF RelayUp, RelayDown, RelayUpEnds, RelayDownEnds, Cut
<1>1. client' \in [Links -> Sockets]
  <2>1. CASE \/ UNCHANGED client
             \/ /\ client[l].taken < client[l].sent
                /\ client' = [client EXCEPT ![l].taken = @ + 1]
    BY <2>1, <1>t, TakenIsTyped
  <2> QED BY <2>1 DEF RelayUp, RelayDown, RelayUpEnds, RelayDownEnds, Cut
<1>2. server' \in [Links -> Sockets]
  <2>1. CASE \/ UNCHANGED server
             \/ /\ server[l].taken < server[l].sent
                /\ server' = [server EXCEPT ![l].taken = @ + 1]
    BY <2>1, <1>t, TakenIsTyped
  <2> QED BY <2>1 DEF RelayUp, RelayDown, RelayUpEnds, RelayDownEnds, Cut
<1>3. up' \in [Links -> Relays] /\ down' \in [Links -> Relays]
  BY DEF RelayUp, RelayDown, RelayUpEnds, RelayDownEnds, Cut, Relays
<1>4. eof' \in [Links -> SUBSET {"client", "server"}]
  <2>1. CASE UNCHANGED eof
    BY <2>1
  <2>2. CASE \E s \in {"client", "server"} : eof' = [eof EXCEPT ![l] = @ \cup {s}]
    BY <2>2
  <2> QED BY <2>1, <2>2 DEF RelayUp, RelayDown, RelayUpEnds, RelayDownEnds, Cut
<1>5. ActiveIsCounted' /\ active' \in 0..Cardinality(Links)
  <2>1. \A k \in Links : Handled(k) <=> Handled(k)'
    BY <1>u DEF Handled
  <2> QED BY <1>u, <2>1, CountKeeps
<1>6. TakenWasSent'
  <2>1. TakenWasSent
    OBVIOUS
  <2> QED
    <3>1. \A k \in Links : /\ client[k].sent \in Nat /\ client[k].taken \in Nat
                           /\ server[k].sent \in Nat /\ server[k].taken \in Nat
      BY <1>t, BytesAreNumbers
    <3>2. \A k \in Links : client'[k].taken <= client'[k].sent
      BY <2>1, <1>t, <3>1
      DEF RelayUp, RelayDown, RelayUpEnds, RelayDownEnds, Cut, Sockets, TakenWasSent
    <3>3. \A k \in Links : server'[k].taken <= server'[k].sent
      BY <2>1, <1>t, <3>1
      DEF RelayUp, RelayDown, RelayUpEnds, RelayDownEnds, Cut, Sockets, TakenWasSent
    <3> QED BY <3>2, <3>3 DEF TakenWasSent
<1>7. UpEndsAtTheEnd'
  <2>1. UpEndsAtTheEnd /\ TakenWasSent
    OBVIOUS
  <2>2. CASE RelayUp(l)
    BY <2>1, <2>2, <1>t DEF RelayUp, Sockets, UpEndsAtTheEnd, TakenWasSent, AtEnd, Socket
  <2>3. CASE RelayUpEnds(l)
    BY <2>1, <2>3, <1>t DEF RelayUpEnds, Sockets, UpEndsAtTheEnd, TakenWasSent, AtEnd, Socket
  <2>4. CASE RelayDown(l) \/ RelayDownEnds(l) \/ Cut(l)
    BY <2>1, <2>4, <1>t
    DEF RelayDown, RelayDownEnds, Cut, Sockets, UpEndsAtTheEnd, AtEnd, Socket
  <2> QED BY <2>2, <2>3, <2>4
<1>8. EofComesFromRelay'
  BY <1>u DEF RelayUp, RelayDown, RelayUpEnds, RelayDownEnds, Cut, EofComesFromRelay
<1> QED BY <1>1, <1>2, <1>3, <1>4, <1>5, <1>6, <1>7, <1>8, <1>u

\* Where a connection is.
LEMMA PlacesKeep ==
  ASSUME ProxyInv, NEW l \in Links,
         Accept(l) \/ DecodeConnectRequest(l) \/ Connect(l) \/ ConnectFails(l) \/ RelayEnds(l)
  PROVE  ProxyInv'
<1> USE DEF ProxyInv, ProxyTypeOK
<1>u. UNCHANGED <<up, down, client, server, eof, shutdown, accepting>>
  BY DEF Accept, DecodeConnectRequest, Connect, ConnectFails, RelayEnds, Over
<1>1. link' \in [Links -> LinkPlaces]
  BY DEF Accept, DecodeConnectRequest, Connect, ConnectFails, RelayEnds, Over, LinkPlaces
<1>2. ActiveIsCounted' /\ active' \in 0..Cardinality(Links)
  <2>1. CASE Accept(l) \/ ConnectFails(l) \/ RelayEnds(l)
    BY <2>1, CountKeeps
  <2>2. CASE DecodeConnectRequest(l) \/ Connect(l)
    <3>1. (\A k \in Links : Handled(k) <=> Handled(k)') /\ UNCHANGED active
      BY <2>2 DEF Handled, DecodeConnectRequest, Connect
    <3> QED BY <3>1, <1>1, CountKeeps
  <2> QED BY <2>1, <2>2
<1>3. TakenWasSent' /\ UpEndsAtTheEnd'
  BY <1>u DEF TakenWasSent, UpEndsAtTheEnd, AtEnd, Socket
<1>4. EofComesFromRelay'
  BY <1>u DEF Accept, DecodeConnectRequest, Connect, ConnectFails, RelayEnds, Over,
       EofComesFromRelay
<1> QED BY <1>1, <1>2, <1>3, <1>4, <1>u

\* ProxyInv is inductive.
LEMMA ProxySteps == ProxyInv /\ [ProxyNext]_proxyVars => ProxyInv'
<1> SUFFICES ASSUME ProxyInv, [ProxyNext]_proxyVars PROVE ProxyInv'
  OBVIOUS
<1>1. CASE DropConnections \/ DropHarness \/ UNCHANGED proxyVars
  BY <1>1
  DEF DropConnections, DropHarness, proxyVars, ProxyInv, ProxyTypeOK, ActiveIsCounted, Handled,
      TakenWasSent, UpEndsAtTheEnd, EofComesFromRelay, AtEnd, Socket
<1>2. ASSUME NEW l \in Links, LinkNext(l) PROVE ProxyInv'
  BY <1>2, SocketsKeep, RelaysKeep, PlacesKeep DEF LinkNext
<1> QED BY <1>1, <1>2 DEF ProxyNext

\* ProxyInv holds of every behaviour.
LEMMA ProxyInvHolds == ProxySpec => []ProxyInv
BY ProxyStarts, ProxySteps, PTL DEF ProxySpec

\* The way up of a connection that is over was read to its end.
LEMMA CutsAreClean == ProxyInv => CutIsClean
BY DEF ProxyInv, UpEndsAtTheEnd, EofComesFromRelay, CutIsClean, AtEnd, Socket

-----------------------------------------------------------------------------
(* All of them                                                             *)

\* The example application's state is of its type: places, events, frames and results.
THEOREM SumomoTypeCorrect == SumomoSpec => []SumomoTypeOK
<1>1. SumomoInv => SumomoTypeOK
  BY DEF SumomoInv
<1> QED
  BY <1>1, SumomoInvHolds, PTL

\* The test connection's state is of its type, and its bounds are kept.
THEOREM TestTypeCorrect == TestSpec => []TestTypeOK
BY TestInvHolds, LoggedIsWithin, PTL

\* The proxy's state is of its type; its counter counts the connections it handles, so that
\* it is never below zero nor above their number.
THEOREM ProxyTypeCorrect == ProxySpec => [](ProxyTypeOK /\ ActiveIsCounted)
<1>1. ProxyInv => ProxyTypeOK /\ ActiveIsCounted
  BY DEF ProxyInv
<1> QED
  BY <1>1, ProxyInvHolds, PTL

\* Tracks are shown as the connection has them once main() has followed the events, and what
\* was posted to a test is logged in its order: for any tracks, events and bounds.
THEOREM CallbacksFollowed == SumomoSpec /\ TestSpec => []CallbacksAreFollowed
<1>1. TestInv => EventsAreLogged
  BY DEF TestInv
<1>2. SinksFollowTracks /\ EventsAreLogged => CallbacksAreFollowed
  BY DEF CallbacksAreFollowed
<1> QED
  BY <1>1, <1>2, SinksFollow, SumomoInvHolds, TestInvHolds, PTL

\* Sumomo exits with the first error, a task's result is read once and told to every later
\* call, and a cut leaves no byte of the client unread: for any connections and bounds.
THEOREM EndsTold == SumomoSpec /\ TestSpec /\ ProxySpec => []EndsAreTold
<1>1. ExitTellsFirstError /\ ResultIsReadOnce /\ CutIsClean => EndsAreTold
  BY DEF EndsAreTold
<1> QED
  BY <1>1, ExitIsFirstError, ReadOnce, CutsAreClean, SumomoInvHolds, TestInvHolds,
     ProxyInvHolds, PTL

-----------------------------------------------------------------------------
(* The parts in one                                                        *)

\* The part p is the one that runs.
Runs(p) == part = p

\* The monitor rests in a state in which it may begin.
LEMMA MonitorRuns == PartSpec => Spec
<1>1. PartInit => Init
  BY DEF PartInit
<1>2. [PartNext]_partVars => [Next]_vars
  BY DEF PartNext, partVars, monitorVars
<1> QED BY <1>1, <1>2, PTL DEF PartSpec, Spec

\* So does the test connection.
LEMMA TestRuns == PartSpec => TestSpec
<1>1. PartInit => TestInit
  BY DEF PartInit
<1>2. [PartNext]_partVars => [TestNext]_testVars
  BY DEF PartNext, partVars, applicationVars
<1> QED BY <1>1, <1>2, PTL DEF PartSpec, TestSpec

\* So does the proxy.
LEMMA ProxyRuns == PartSpec => ProxySpec
<1>1. PartInit => ProxyInit
  BY DEF PartInit
<1>2. [PartNext]_partVars => [ProxyNext]_proxyVars
  BY DEF PartNext, partVars, applicationVars
<1> QED BY <1>1, <1>2, PTL DEF PartSpec, ProxySpec

\* The example application runs as it does by itself, or rests.
LEMMA SumomoRuns == PartSpec => SumomoSpec \/ [](~Runs("sumomo") /\ SumomoRests)
<1>1. PartInit => (Runs("sumomo") /\ SumomoInit) \/ (~Runs("sumomo") /\ SumomoRests)
  BY DEF Runs, PartInit
<1>2. Runs("sumomo") /\ [PartNext]_partVars => Runs("sumomo")' /\ [SumomoNext]_sumomoVars
  BY DEF Runs, PartNext, partVars, applicationVars
<1>3. ~Runs("sumomo") /\ SumomoRests /\ [PartNext]_partVars => ~Runs("sumomo")' /\ SumomoRests'
  BY DEF Runs, PartNext, partVars, applicationVars, sumomoVars, SumomoRests
<1> QED BY <1>1, <1>2, <1>3, PTL DEF PartSpec, SumomoSpec

\* Who rests shows nothing and has told its error.
LEMMA SumomoRestsSafe ==
  SumomoRests => SinksFollowTracks /\ ExitTellsFirstError
BY DEF SumomoRests, SinksFollowTracks, ExitTellsFirstError

\* Whichever part runs: no outage is forgotten without a redirect, tracks are shown as the
\* connection has them and what was posted is logged in its order, and ends are told as they
\* were.
THEOREM SmallPartsAreSafe ==
  PartSpec => [](GraceIsPending /\ CallbacksAreFollowed /\ EndsAreTold)
<1>1. PartSpec => []GraceIsPending
  BY MonitorRuns, GraceNeverForgotten, PTL
<1>2. PartSpec => [](SinksFollowTracks /\ ExitTellsFirstError)
  BY SumomoRuns, SumomoRestsSafe, SinksFollow, ExitIsFirstError, SumomoInvHolds, PTL
<1>3. PartSpec => [](EventsAreLogged /\ ResultIsReadOnce)
  <2>1. TestInv => EventsAreLogged
    BY DEF TestInv
  <2> QED BY <2>1, TestRuns, TestInvHolds, ReadOnce, PTL
<1>4. PartSpec => []CutIsClean
  BY ProxyRuns, ProxyInvHolds, CutsAreClean, PTL
<1>5. SinksFollowTracks /\ EventsAreLogged => CallbacksAreFollowed
  BY DEF CallbacksAreFollowed
<1>6. ExitTellsFirstError /\ ResultIsReadOnce /\ CutIsClean => EndsAreTold
  BY DEF EndsAreTold
<1> QED BY <1>1, <1>2, <1>3, <1>4, <1>5, <1>6, PTL

\* So does the selection of codecs.
LEMMA SelectionRuns == PartSpec => SelectionSpec \/ [](~Runs("selection") /\ SelectionRests)
<1>1. PartInit => (Runs("selection") /\ SelectionInit) \/ (~Runs("selection") /\ SelectionRests)
  BY DEF Runs, PartInit
<1>2. Runs("selection") /\ [PartNext]_partVars => Runs("selection")' /\ [SelectionNext]_selectionVars
  BY DEF Runs, PartNext, partVars
<1>3. ~Runs("selection") /\ SelectionRests /\ [PartNext]_partVars
        => ~Runs("selection")' /\ SelectionRests'
  BY DEF Runs, PartNext, partVars, selectionVars, SelectionRests
<1> QED BY <1>1, <1>2, <1>3, PTL DEF PartSpec, SelectionSpec

\* Who was refused built nothing, has no context and does not connect.
LEMMA SelectionRestsSafe == SelectionRests => CodecsAreAsChosen
<1>1. ASSUME step = "refused"
      PROVE  /\ SelectionIsAsTold /\ AdvertisedIsMade /\ AudioAdvertisedIsMade
             /\ ConnectAsksForWhatIsSent
  <2>1. step # "built" /\ step # "connecting" /\ step \notin {"created", "created edited"}
    BY <1>1
  <2>2. SelectionIsAsTold
    BY <2>1, Zenon DEF SelectionIsAsTold
  <2>3. AdvertisedIsMade
    BY <2>1, Zenon DEF AdvertisedIsMade
  <2>4. AudioAdvertisedIsMade
    BY <2>1, Zenon DEF AudioAdvertisedIsMade
  <2>5. ConnectAsksForWhatIsSent
    BY <2>1, Zenon DEF ConnectAsksForWhatIsSent
  <2> QED BY <2>2, <2>3, <2>4, <2>5
<1> QED BY <1>1 DEF SelectionRests, CodecsAreAsChosen

\* Whichever part runs, from any command line and on any machine: the codecs of a context
\* are those told, what it offers is made, and a connection asks for what is sent.
THEOREM CodecsChosen == PartSpec => []CodecsAreAsChosen
<1>1. SelectionIsAsTold /\ AdvertisedIsMade /\ AudioAdvertisedIsMade /\ ConnectAsksForWhatIsSent
        => CodecsAreAsChosen
  BY DEF CodecsAreAsChosen
<1> QED
  BY <1>1, SelectionRuns, SelectionRestsSafe, SelectionIsSafe, PTL

\* Whichever part runs, its variables hold values of their types.
THEOREM PartTypesCorrect == PartSpec => []PartTypeOK
<1>1. PartSpec => []TypeOK
  BY MonitorRuns, TypeCorrect, PTL
<1>2. PartSpec => [](Runs("selection") => SelectionTypeOK)
  BY SelectionRuns, SelectionTypeCorrect, PTL
<1>3. PartSpec => [](Runs("sumomo") => SumomoTypeOK)
  BY SumomoRuns, SumomoTypeCorrect, PTL
<1>4. PartSpec => []TestTypeOK
  BY TestRuns, TestTypeCorrect, PTL
<1>5. PartSpec => [](ProxyTypeOK /\ ActiveIsCounted)
  BY ProxyRuns, ProxyTypeCorrect, PTL
<1>6. TypeOK /\ (Runs("selection") => SelectionTypeOK) /\ (Runs("sumomo") => SumomoTypeOK)
        /\ TestTypeOK /\ ProxyTypeOK => PartTypeOK
  BY Zenon DEF PartTypeOK, Runs
<1> QED BY <1>1, <1>2, <1>3, <1>4, <1>5, <1>6, PTL
==============================================================================
