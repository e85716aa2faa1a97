-------------------------- MODULE ConnectionContract --------------------------
(***************************************************************************)
(* What one SoraConnection promises to the application that runs it, seen  *)
(* through the handler's DataChannel callbacks and the result of run():    *)
(*   - on_data_channel_open and on_data_channel_close alternate per label; *)
(*   - the first cause of the end that run() meets is the one it reports;  *)
(*   - run() returns Ok only when every open was followed by its close;    *)
(*   - nothing is called back once run() has returned.                     *)
(***************************************************************************)
EXTENDS Naturals

CONSTANTS
  Labels,  \* DataChannel labels
  Reasons  \* DisconnectReason

VARIABLES
  opens,   \* calls of on_data_channel_open per label
  closes,  \* calls of on_data_channel_close per label
  cause,   \* {} or {r}: the first cause of the end met so far
  result   \* "running", or what run() returned

vars == <<opens, closes, cause, result>>

Init ==
  /\ opens = [l \in Labels |-> 0]
  /\ closes = [l \in Labels |-> 0]
  /\ cause = {}
  /\ result = "running"

Opens(l) ==
  /\ opens[l] = closes[l]
  /\ opens' = [opens EXCEPT ![l] = @ + 1]
  /\ UNCHANGED <<closes, cause>>

\* The open channels in S are reported closed, and a cause may be met.
Closes(S) ==
  /\ \A l \in S : opens[l] = closes[l] + 1
  /\ closes' = [l \in Labels |-> IF l \in S THEN closes[l] + 1 ELSE closes[l]]
  /\ \/ cause' = cause
     \/ cause = {} /\ \E r \in Reasons : cause' = {r}
  /\ UNCHANGED opens

Returns ==
  /\ result' \in {"ok", "err"}
  /\ result' = "ok" => cause # {} /\ opens = closes
  /\ UNCHANGED <<opens, closes, cause>>

Next ==
  /\ result = "running"
  /\ \/ \E l \in Labels : Opens(l) /\ UNCHANGED result
     \/ \E S \in SUBSET Labels : Closes(S) /\ UNCHANGED result
     \/ Returns

Spec == Init /\ [][Next]_vars
=============================================================================
