----------------------------- MODULE RpcContract -----------------------------
(***************************************************************************)
(* What a SoraConnectionHandle promises to its callers: a call gets one    *)
(* answer; the answer of a request is a reply to that request or the end   *)
(* of its own timeout; only the end of the connection refuses a call or    *)
(* leaves it without an answer.                                            *)
(***************************************************************************)
CONSTANTS
  Calls,         \* calls of the handles, each made once
  Requests       \* those that are RPC requests

VARIABLES
  status,   \* per call: "idle", "waiting" or its answer
  replied,  \* requests the server has replied to
  elapsed,  \* requests whose timeout has passed
  ended     \* the connection takes no more calls

vars == <<status, replied, elapsed, ended>>

Waiting == {c \in Calls : status[c] = "waiting"}

\* Answers that a caller may get while the connection lasts.
Answers == {"ok", "failed", "commandTimeout", "redirected"}

Init ==
  /\ status = [c \in Calls |-> "idle"]
  /\ replied = {}
  /\ elapsed = {}
  /\ ended = FALSE

Place(c) ==
  /\ status[c] = "idle"
  /\ status' = [status EXCEPT ![c] = IF ended THEN "refused" ELSE "waiting"]
  /\ UNCHANGED <<replied, elapsed, ended>>

Reply ==
  /\ \E c \in Requests : status[c] # "idle" /\ replied' = replied \cup {c}
  /\ UNCHANGED <<status, elapsed, ended>>

Elapse ==
  /\ \E c \in Requests : status[c] # "idle" /\ elapsed' = elapsed \cup {c}
  /\ UNCHANGED <<status, replied, ended>>

Settle(S, answer) ==
  status' = [c \in Calls |-> IF c \in S THEN answer ELSE status[c]]

AnswerCalls(S, answer) ==
  /\ Settle(S, answer)
  /\ UNCHANGED <<replied, elapsed, ended>>

\* The end leaves the calls in S without an answer.
End(S) ==
  /\ ended' = TRUE
  /\ Settle(S, "missing")
  /\ UNCHANGED <<replied, elapsed>>

Next ==
  \/ \E c \in Calls : Place(c)
  \/ Reply
  \/ Elapse
  \/ \E S \in SUBSET Waiting :
       \/ \E answer \in Answers : AnswerCalls(S, answer)
       \/ S \subseteq replied /\ \E answer \in {"response", "violation"} :
                                   AnswerCalls(S, answer)
       \/ S \subseteq elapsed /\ AnswerCalls(S, "timeout")
       \/ End(S)

Spec == Init /\ [][Next]_vars
=============================================================================
