--------------------------- MODULE CameraRequests ---------------------------
(***************************************************************************)
(* What the libcamera capturer promises those it lends frames to: the      *)
(* buffer of a request is either the camera's to write to or lent to the   *)
(* holders of its frame to read, never both, and it is lent once at a time.*)
(*                                                                         *)
(* A session is one run of the capture thread, with its own buffers.       *)
(***************************************************************************)
EXTENDS Naturals

CONSTANTS
  Cookies,     \* the requests of a session, one per buffer
  Holders,     \* places that keep a reference to a native frame
  Sinks,       \* those of them that a new frame is given to
  SessionsMax  \* bound: sessions

ASSUME RequestsAssumption == SessionsMax \in Nat /\ Sinks \subseteq Holders

VARIABLES
  session,    \* the number of the last session
  queued,     \* requests of it that the camera has
  references  \* references to frames: [session, cookie, holder]

requestVars == <<session, queued, references>>

References == [session : 1..SessionsMax, cookie : Cookies, holder : Holders]

\* Requests of the session whose frames somebody holds.
Lent == {r.cookie : r \in {r \in references : r.session = session}}

RequestsInit ==
  /\ session = 0
  /\ queued = {}
  /\ references = {}

BeginSession ==
  /\ session < SessionsMax
  /\ session' = session + 1
  /\ queued' = {}
  /\ UNCHANGED references

\* Requests are queued to the camera.
Queue ==
  /\ session > 0
  /\ \E new \in SUBSET (Cookies \ Lent) : queued' = queued \cup new
  /\ UNCHANGED <<session, references>>

\* The camera completes requests, or stops.
Complete ==
  /\ queued' \in SUBSET queued
  /\ UNCHANGED <<session, references>>

\* The frame of a request that the camera has completed is given to sinks.
Lend ==
  /\ session > 0
  /\ \E cookie \in Cookies \ (queued \cup Lent), holders \in (SUBSET Sinks) \ {{}} :
       references' = references \cup
         {[session |-> session, cookie |-> cookie, holder |-> h] : h \in holders}
  /\ UNCHANGED <<session, queued>>

\* Holders give frames on and drop them.
PassOn ==
  /\ references' \in SUBSET {[r EXCEPT !.holder = h] : r \in references, h \in Holders}
  /\ UNCHANGED <<session, queued>>

RequestsNext == BeginSession \/ Queue \/ Complete \/ Lend \/ PassOn

RequestsSpec == RequestsInit /\ [][RequestsNext]_requestVars
=============================================================================
