--------------------------- MODULE TestConnection ---------------------------
(***************************************************************************)
(* SoraTestConnection, through which the end-to-end tests drive a          *)
(* connection (e2e-tests/src/test_connection.rs): run() is a task whose    *)
(* callbacks are posted to a channel; a test waits for events, for         *)
(* statistics, or for the end of the task, each with a timeout.  Statistics *)
(* and a counter that another thread sets are one thing that may come true. *)
(***************************************************************************)
EXTENDS Naturals, Sequences, FiniteSets

LOCAL INSTANCE SequencesExt

CONSTANTS Events,     \* what callbacks report, as far as predicates tell it apart
          PostedMax,  \* bound: events posted
          CallsMax    \* bound: calls of the test

ASSUME TestAssumption == PostedMax \in Nat /\ CallsMax \in Nat

VARIABLES task,       \* the run task: "running", "leaving", "closed" (channel), "ended"
          taskResult, \* "none", "reason" or "error"; a panic is an error
          posted,     \* history of what the callbacks posted
          queue,      \* event_rx
          log,        \* event_log
          stored,     \* run_task_error_message or run_disconnect_reason; "none" before
          joined,     \* run_task_joined
          reads,      \* history: how often the JoinHandle gave its result
          call,       \* the call of the test that is under way
          calls,      \* history: calls made
          outcome     \* of the last call

testVars == <<task, taskResult, posted, queue, log, stored, joined, reads, call, calls, outcome>>
taskVars == <<task, taskResult, posted>>
joinVars == <<stored, joined, reads>>

CallPlaces == {"idle", "receiving", "storing", "finishing", "asking", "refused", "polling"}
Outcomes == {"none", "ok", "timeout", "timeout with error", "reason", "error"}

TestTypeOK ==
  /\ task \in {"running", "leaving", "closed", "ended"}
  /\ taskResult \in {"none", "reason", "error"} /\ stored \in {"none", "reason", "error"}
  /\ \A s \in {posted, queue, log} : s \in Seq(Events) /\ Len(s) <= PostedMax
  /\ joined \in BOOLEAN /\ reads \in 0..CallsMax
  /\ call \in [at : CallPlaces, wanted : SUBSET Events]
  /\ calls \in 0..CallsMax
  /\ outcome \in Outcomes

NoCall == [at |-> "idle", wanted |-> {}]

TestInit ==
  /\ task = "running" /\ taskResult = "none"
  /\ posted = <<>> /\ queue = <<>> /\ log = <<>>
  /\ stored = "none" /\ joined = FALSE /\ reads = 0
  /\ call = NoCall /\ calls = 0 /\ outcome = "none"

-----------------------------------------------------------------------------
(* The run task                                                            *)

Post(e) ==
  /\ task \in {"running", "leaving"} /\ Len(posted) < PostedMax
  /\ posted' = Append(posted, e) /\ queue' = Append(queue, e)
  /\ UNCHANGED <<task, taskResult, log, joinVars, call, calls, outcome>>

TaskLeaves ==
  /\ task = "running"
  /\ task' = "leaving"
  /\ UNCHANGED <<taskResult, posted, queue, log, joinVars, call, calls, outcome>>

\* The handler is dropped with run()'s variables, and with it the sender of the channel.
ChannelCloses ==
  /\ task \in {"running", "leaving"}
  /\ task' = "closed" /\ taskResult' \in {"reason", "error"}
  /\ UNCHANGED <<posted, queue, log, joinVars, call, calls, outcome>>

TaskEnds ==
  /\ task = "closed"
  /\ task' = "ended"
  /\ UNCHANGED <<taskResult, posted, queue, log, joinVars, call, calls, outcome>>

-----------------------------------------------------------------------------
(* Calls of the test                                                       *)

Return(result) == call' = NoCall /\ outcome' = result

\* store_run_task_error_message, once its await is over; a timeout around it cancels the
\* await and leaves the task to the next call.
Stored == joined \/ task = "ended"

\* Mutated: the task is awaited again.
StoreAlways == joined' = TRUE /\ stored' = taskResult /\ reads' = reads + 1

Store ==
  IF joined THEN UNCHANGED joinVars
  ELSE joined' = TRUE /\ stored' = taskResult /\ reads' = reads + 1

CollectPendingEvents == log' = log \o queue /\ queue' = <<>>

Call ==
  /\ call.at = "idle" /\ calls < CallsMax
  /\ calls' = calls + 1

\* events, has_event and count_events
CountEvents ==
  /\ Call
  /\ CollectPendingEvents
  /\ outcome' = "ok"
  /\ UNCHANGED <<taskVars, joinVars, call>>

\* wait_for_event and the waits for events of one kind, which give it a predicate.
WaitForEvent(wanted) ==
  /\ Call
  /\ CollectPendingEvents
  /\ IF ToSet(log') \cap wanted # {} THEN Return("ok")
     ELSE call' = [at |-> "receiving", wanted |-> wanted] /\ UNCHANGED outcome
  /\ UNCHANGED <<taskVars, joinVars>>

\* timeout_or_run_task_error: the result is read if there is one.
TimeoutOrRunTaskError ==
  /\ IF task = "ended" THEN Store ELSE UNCHANGED joinVars
  /\ Return(IF stored' = "error" THEN "timeout with error" ELSE "timeout")

\* Mutated: what was not waited for is not logged.
ReceivePostedMatching ==
  /\ call.at = "receiving" /\ queue # <<>>
  /\ queue' = Tail(queue)
  /\ \/ /\ Head(queue) \in call.wanted /\ log' = Append(log, Head(queue))
        /\ Return("ok") /\ UNCHANGED joinVars
     \/ Head(queue) \notin call.wanted /\ UNCHANGED <<log, call, outcome, joinVars>>
  /\ UNCHANGED <<taskVars, calls>>

\* The deadline may have passed when an event that was not waited for comes.
ReceivePosted ==
  /\ call.at = "receiving" /\ queue # <<>>
  /\ queue' = Tail(queue) /\ log' = Append(log, Head(queue))
  /\ \/ Head(queue) \in call.wanted /\ Return("ok") /\ UNCHANGED joinVars
     \/ Head(queue) \notin call.wanted /\ UNCHANGED <<call, outcome, joinVars>>
     \/ Head(queue) \notin call.wanted /\ TimeoutOrRunTaskError
  /\ UNCHANGED <<taskVars, calls>>

\* The channel is closed, or the timeout is over: the same branch for both.
NoEvent ==
  /\ call.at = "receiving" /\ queue = <<>>
  /\ call' = [call EXCEPT !.at = "storing"]
  /\ UNCHANGED <<taskVars, queue, log, joinVars, calls, outcome>>

StoreAndReturn ==
  /\ call.at = "storing" /\ Stored
  /\ Store
  /\ Return(IF stored' = "error" THEN "timeout with error" ELSE "timeout")
  /\ UNCHANGED <<taskVars, queue, log, calls>>

\* wait_stats and wait_for_atomic_usize: asked again and again until it is true, the time is
\* over or, for statistics, the connection does not answer any more.
Poll ==
  /\ Call
  /\ call' = [at |-> "polling", wanted |-> {}]
  /\ UNCHANGED <<taskVars, queue, log, joinVars, outcome>>

Polled ==
  /\ call.at = "polling"
  /\ \/ Return("ok")
     \/ Return("timeout")
     \/ task # "running" /\ Return("error")
  /\ UNCHANGED <<taskVars, queue, log, joinVars, calls>>

WaitForRunFinished ==
  /\ Call
  /\ call' = [at |-> "finishing", wanted |-> {}]
  /\ UNCHANGED <<taskVars, queue, log, joinVars, outcome>>

FinishedInTime ==
  /\ call.at = "finishing" /\ Stored
  /\ Store
  /\ Return(stored')
  /\ UNCHANGED <<taskVars, queue, log, calls>>

NotFinishedInTime ==
  /\ call.at = "finishing"
  /\ Return("error")
  /\ UNCHANGED <<taskVars, queue, log, joinVars, calls>>

\* disconnect_and_wait.  The request is acknowledged, or refused by a task that leaves.
DisconnectAndWait ==
  /\ Call
  /\ call' = [at |-> "asking", wanted |-> {}]
  /\ UNCHANGED <<taskVars, queue, log, joinVars, outcome>>

Acknowledge ==
  /\ call.at = "asking" /\ task = "running"
  /\ task' = "leaving"
  /\ call' = [call EXCEPT !.at = "finishing"]
  /\ UNCHANGED <<taskResult, posted, queue, log, joinVars, calls, outcome>>

RefuseRequest ==
  /\ call.at = "asking" /\ task \in {"closed", "ended"}
  /\ call' = [call EXCEPT !.at = "refused"]
  /\ UNCHANGED <<taskVars, queue, log, joinVars, calls, outcome>>

StoreAfterRefusal ==
  /\ call.at = "refused" /\ Stored
  /\ Store
  /\ Return("error")
  /\ UNCHANGED <<taskVars, queue, log, calls>>

TestNext ==
  \/ \E e \in Events : Post(e)
  \/ TaskLeaves \/ ChannelCloses \/ TaskEnds
  \/ CountEvents \/ Poll \/ Polled \/ ReceivePosted \/ NoEvent \/ StoreAndReturn
  \/ \E wanted \in SUBSET Events : WaitForEvent(wanted)
  \/ WaitForRunFinished \/ FinishedInTime \/ NotFinishedInTime
  \/ DisconnectAndWait \/ Acknowledge \/ RefuseRequest \/ StoreAfterRefusal

TestSpec == TestInit /\ [][TestNext]_testVars

-----------------------------------------------------------------------------
(* Properties                                                              *)

\* The task is awaited to its end at most once, through waits that are cancelled and repeated
\* ones, and its result is kept: whatever call ends after it is told the same.
ResultIsReadOnce ==
  /\ reads <= 1
  /\ joined => stored = taskResult
  /\ call.at = "idle" /\ outcome \in {"reason", "timeout with error"} => joined

\* Each event posted is in the log or still in the channel, in the order of the callbacks,
\* whichever waits have succeeded, failed or looked for something else.
EventsAreLogged == posted = log \o queue

\* "Since the channel closes only when the run task ends, its result is read directly" (the
\* comment at test_connection.rs:534): no wait for an event awaits a task that goes on.
OnlyTheEndedIsAwaited == call.at = "storing" => task \in {"closed", "ended"}
=============================================================================
