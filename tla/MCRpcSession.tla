---------------------------- MODULE MCRpcSession ----------------------------
(***************************************************************************)
(* The RPC table with the calls of one application: two requests and a     *)
(* notification, or a request, a notification and a get_stats.  The other  *)
(* call is never made.                                                     *)
(***************************************************************************)
EXTENDS RpcSession

CONSTANTS r1, r2, n1, s1

VARIABLE made  \* the calls that the application makes

MCInit == Init /\ made \in {{r1, r2, n1}, {r1, n1, s1}}

MCNext ==
  /\ Next
  /\ \A c \in Calls \ made : status'[c] = "idle"
  /\ UNCHANGED made

MCSpec == MCInit /\ [][MCNext]_<<vars, made>> /\ Fairness
=============================================================================
