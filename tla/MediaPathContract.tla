-------------------------- MODULE MediaPathContract --------------------------
(***************************************************************************)
(* What the media path monitor of SoraConnection::run promises, with no    *)
(* event queue, no timer tasks and no generations: a connection whose      *)
(* media path was once established ends when the path is seen to fail, or  *)
(* when it is seen to go down and the grace period of THAT outage elapses  *)
(* before the path is seen to come back.                                   *)
(***************************************************************************)

VARIABLES
  path,   \* what run() has observed of the path
  grace,  \* the grace period of the current outage
  over    \* why the connection ended, "no" while it has not

vars == <<path, grace, over>>

PathStates == {"unestablished", "up", "down"}
GraceStates == {"none", "running", "expired", "lost"}
Outcomes == {"no", "failed", "timedOut", "aborted"}

Init ==
  /\ path = "unestablished"
  /\ grace = "none"
  /\ over = "no"

\* Connected establishes the path; later Connected and Connecting end an outage.
SeeUp ==
  /\ over = "no"
  /\ path' = "up"
  /\ grace' = "none"
  /\ UNCHANGED over

\* Disconnected after establishment starts a fresh grace period.
SeeDown ==
  /\ over = "no"
  /\ path # "unestablished"
  /\ path' = "down"
  /\ grace' = "running"
  /\ UNCHANGED over

SeeFailed ==
  /\ over = "no"
  /\ path # "unestablished"
  /\ over' = "failed"
  /\ UNCHANGED <<path, grace>>

GraceElapses ==
  /\ over = "no"
  /\ grace = "running"
  /\ grace' = "expired"
  /\ UNCHANGED <<path, over>>

GiveUp ==
  /\ over = "no"
  /\ path = "down"
  /\ grace = "expired"
  /\ over' = "timedOut"
  /\ UNCHANGED <<path, grace>>

\* A redirect may throw the expiry away: then nothing ends this outage but a
\* new observation.
LoseExpiry ==
  /\ over = "no"
  /\ grace = "expired"
  /\ grace' = "lost"
  /\ UNCHANGED <<path, over>>

\* The connection ends for a reason of its own (the redirect target is out of
\* reach).
Abort ==
  /\ over = "no"
  /\ over' = "aborted"
  /\ UNCHANGED <<path, grace>>

Next ==
  \/ SeeUp
  \/ SeeDown
  \/ SeeFailed
  \/ GraceElapses
  \/ GiveUp
  \/ LoseExpiry
  \/ Abort

Spec == Init /\ [][Next]_vars
=============================================================================
