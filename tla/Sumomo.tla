------------------------------- MODULE Sumomo -------------------------------
(***************************************************************************)
(* The example application (examples/sumomo/src/main.rs, video.rs,         *)
(* raw_player_renderer.rs, fake.rs): main() runs a connection as a task,   *)
(* shows the tracks it receives and ends one or the other.  Both tasks are *)
(* on one thread; the frames of a track come from a thread of libwebrtc,   *)
(* and the capturer has a thread of its own, which the run task's end      *)
(* joins.  What run() does is in SoraConnection: here it ends by itself,   *)
(* or on a disconnect request that it acknowledges or is too late for.     *)
(***************************************************************************)
EXTENDS Naturals, Sequences, FiniteSets

CONSTANTS Tracks,      \* ids of the remote video tracks
          FrameSizes,
          NoTexture,
          MaxEvents    \* bound: events queued to main() at a time

ASSUME SumomoAssumption == MaxEvents \in Nat

FrameCapacity == 2

VARIABLES main,        \* where main() is
          run,         \* the run task: "none", "running", "leaving", "dropping", "ended", "aborted"
          runResult,   \* "none", "ok", "error" or "panic"
          runHandle,   \* its JoinHandle: "fresh", or "read" once its result has been taken
          capturer,    \* [at: "none", "capturing", "ended"; stop: whether it is told to end]
          command,     \* to disconnect: "none", "sent", "done", "refused"
          remote,      \* tracks that the connection has at the moment
          appEvents,   \* OnTrack and OnRemoveTrack on their way to main()
          tracks,      \* the tracks that main() knows
          sinks,       \* tracks with a sink, whose frames come
          frames,      \* sizes of the frames queued to main()
          renderer,    \* [texture, running]
          duration,    \* --duration: "none", "waiting", "elapsed"
          rendererError,
          result       \* of main(): "none", "ok", "error", "renderer error"

sumomoVars == <<main, run, runResult, runHandle, capturer, command, remote, appEvents, tracks,
                sinks, frames, renderer, duration, rendererError, result>>
runVars == <<run, runResult, runHandle, capturer, command>>
trackVars == <<remote, appEvents, tracks, sinks>>
showVars == <<frames, renderer, rendererError>>

SumomoTypeOK ==
  /\ main \in {"starting", "failing", "looping", "asking", "disconnecting", "joining",
               "removing", "ending", "returned", "panicked"}
  /\ run \in {"none", "running", "leaving", "dropping", "ended", "aborted"}
  /\ runResult \in {"none", "ok", "error", "panic"}
  /\ runHandle \in {"fresh", "read"}
  /\ capturer \in [at : {"none", "capturing", "ended"}, stop : BOOLEAN]
  /\ command \in {"none", "sent", "done", "refused"}
  /\ remote \subseteq Tracks /\ tracks \subseteq Tracks /\ sinks \subseteq Tracks
  /\ appEvents \in Seq({"added", "removed"} \X Tracks) /\ Len(appEvents) <= MaxEvents
  /\ frames \in Seq(FrameSizes) /\ Len(frames) <= FrameCapacity
  /\ renderer \in [texture : FrameSizes \cup {NoTexture}, running : BOOLEAN]
  /\ duration \in {"none", "waiting", "elapsed"}
  /\ rendererError \in BOOLEAN
  /\ result \in {"none", "ok", "error", "renderer error"}

SumomoInit ==
  /\ main = "starting"
  /\ run = "none" /\ runResult = "none" /\ runHandle = "fresh"
  /\ capturer = [at |-> "none", stop |-> FALSE]
  /\ command = "none"
  /\ remote = {} /\ appEvents = <<>> /\ tracks = {} /\ sinks = {}
  /\ frames = <<>>
  /\ renderer = [texture |-> NoTexture, running |-> TRUE]
  /\ duration \in {"none", "waiting"}
  /\ rendererError = FALSE
  /\ result = "none"

\* main() moves only while no drop of a capturer blocks the thread.
Free == run # "dropping"

-----------------------------------------------------------------------------
(* The capturer                                                            *)

\* The thread looks at stop once per frame.
CaptureLoopEnds ==
  /\ capturer.at = "capturing" /\ capturer.stop
  /\ capturer' = [capturer EXCEPT !.at = "ended"]
  /\ UNCHANGED <<main, run, runResult, runHandle, command, trackVars, showVars, duration, result>>

\* stop(): drop sets stop and joins the thread.
CapturerStopped == [capturer EXCEPT !.stop = TRUE]
CapturerJoined == capturer.at # "capturing"

-----------------------------------------------------------------------------
(* The run task                                                            *)

\* build_and_run_connection.  The capturer may have started when a later step fails.
StartRun ==
  /\ main = "starting"
  /\ \E sends \in BOOLEAN : capturer' = [at |-> IF sends THEN "capturing" ELSE "none", stop |-> FALSE]
  /\ main' = "looping" /\ run' = "running"
  /\ UNCHANGED <<runResult, runHandle, command, trackVars, showVars, duration, result>>

StartRunFails ==
  /\ main = "starting"
  /\ \E sends \in BOOLEAN : capturer' = [at |-> IF sends THEN "capturing" ELSE "none", stop |-> TRUE]
  /\ main' = "failing"
  /\ UNCHANGED <<run, runResult, runHandle, command, trackVars, showVars, duration, result>>

\* run() ends by itself, or on the disconnect request.
RunLeaves ==
  /\ run = "running"
  /\ run' = "leaving"
  /\ command' = IF command = "sent" THEN "done" ELSE command
  /\ UNCHANGED <<main, runResult, runHandle, capturer, trackVars, showVars, duration, result>>

\* A command that comes while it leaves is refused when it returns.  The capturer is
\* dropped with the task's other variables.
RunReturns ==
  /\ run = "leaving"
  /\ run' = "dropping"
  /\ runResult' \in {"ok", "error", "panic"}
  /\ command' = IF command = "sent" THEN "refused" ELSE command
  /\ capturer' = CapturerStopped
  /\ remote' = {} /\ sinks' = {}
  /\ UNCHANGED <<main, runHandle, appEvents, tracks, showVars, duration, result>>

RunEnds ==
  /\ run = "dropping" /\ CapturerJoined
  /\ run' = "ended"
  /\ UNCHANGED <<main, runResult, runHandle, capturer, command, trackVars, showVars, duration, result>>

\* AppEventHandler: on_track and on_remove_track.
OnTrack(t) ==
  /\ run = "running" /\ t \notin remote /\ Len(appEvents) < MaxEvents
  /\ remote' = remote \cup {t}
  /\ appEvents' = Append(appEvents, <<"added", t>>)
  /\ UNCHANGED <<main, runVars, tracks, sinks, showVars, duration, result>>

OnRemoveTrack(t) ==
  /\ run = "running" /\ t \in remote /\ Len(appEvents) < MaxEvents
  /\ remote' = remote \ {t}
  /\ appEvents' = Append(appEvents, <<"removed", t>>)
  /\ UNCHANGED <<main, runVars, tracks, sinks, showVars, duration, result>>

\* VideoFrameSinkHandler: a frame that finds the channel full is dropped.
OnFrame(t) ==
  /\ t \in sinks /\ run \in {"running", "leaving"}
  /\ Len(frames) < FrameCapacity
  /\ \E size \in FrameSizes : frames' = Append(frames,       size)
  /\ UNCHANGED <<main, runVars, trackVars, renderer, rendererError, duration, result>>

-----------------------------------------------------------------------------
(* The loop of main()                                                      *)

MainLoops == main = "looping" /\ Free

\* The select! takes the result of the JoinHandle.
RunHandleReady ==
  /\ MainLoops /\ run = "ended"
  /\ runHandle' = "read"
  /\ main' = "asking"
  /\ UNCHANGED <<run, runResult, capturer, command, trackVars, showVars, duration, result>>

DurationElapses ==
  /\ MainLoops /\ duration = "waiting"
  /\ duration' = "elapsed"
  /\ main' = "asking"
  /\ UNCHANGED <<runVars, trackVars, showVars, result>>

\* handle_on_track_event: what is known is kept.
HandleOnTrackEvent(t) ==
  IF t \in tracks THEN UNCHANGED <<tracks, sinks>>
  ELSE /\ tracks' = tracks \cup {t}
       /\ sinks' = IF run = "ended" THEN sinks ELSE sinks \cup {t}

\* Mutated: the entry goes, the sink stays.
HandleOnRemoveTrackEventKeeping(t) == tracks' = tracks \ {t} /\ UNCHANGED sinks

HandleOnRemoveTrackEvent(t) == tracks' = tracks \ {t} /\ sinks' = sinks \ ({t} \cap tracks)

ReceiveEvent ==
  /\ MainLoops /\ appEvents # <<>>
  /\ appEvents' = Tail(appEvents)
  /\ IF Head(appEvents)[1] = "added" THEN HandleOnTrackEvent(Head(appEvents)[2])
     ELSE HandleOnRemoveTrackEvent(Head(appEvents)[2])
  /\ UNCHANGED <<main, runVars, remote, showVars, duration, result>>

\* render_frame: a texture of another size is replaced; each call of SDL may fail, and so
\* may the terminal's output.
RenderFrame(size) ==
  \/ rendererError' = FALSE /\ main' = main /\ renderer' = [renderer EXCEPT !.texture = size]
  \/ /\ rendererError' = TRUE /\ main' = "asking"
     /\ \/ UNCHANGED renderer
        \/ renderer' = [renderer EXCEPT !.texture = size]

ReceiveFrame ==
  /\ MainLoops /\ frames # <<>>
  /\ frames' = Tail(frames)
  /\ RenderFrame(Head(frames))
  /\ UNCHANGED <<runVars, trackVars, duration, result>>

\* poll_events and is_running: the window is closed.
WindowClosed ==
  /\ MainLoops
  /\ renderer' = [renderer EXCEPT !.running = FALSE]
  /\ main' = "asking"
  /\ UNCHANGED <<runVars, trackVars, frames, rendererError, duration, result>>

-----------------------------------------------------------------------------
(* Its end                                                                 *)

FromRun(outcome) == IF outcome = "ok" THEN "ok" ELSE "error"

\* shutdown_connection, up to its first await.
ShutdownConnection ==
  /\ main = "asking" /\ Free
  /\ \/ /\ run = "ended" /\ runHandle = "read"
        /\ main' = "panicked"  \* a JoinHandle is polled after completion
        /\ UNCHANGED <<runHandle, command, result>>
     \/ /\ run = "ended" /\ runHandle = "fresh"
        /\ main' = "removing" /\ runHandle' = "read" /\ result' = FromRun(runResult)
        /\ UNCHANGED command
     \/ /\ run # "ended"
        /\ main' = "disconnecting" /\ command' = "sent"
        /\ UNCHANGED <<runHandle, result>>
  /\ UNCHANGED <<run, runResult, capturer, trackVars, showVars, duration>>

Disconnected ==
  /\ main = "disconnecting" /\ Free
  /\ \/ command = "done" /\ main' = "joining" /\ UNCHANGED result
     \/ command = "refused" /\ main' = "removing" /\ result' = "error"
  /\ UNCHANGED <<runVars, trackVars, showVars, duration>>

JoinRun ==
  /\ main = "joining" /\ run = "ended"
  /\ main' = "removing" /\ runHandle' = "read" /\ result' = FromRun(runResult)
  /\ UNCHANGED <<run, runResult, capturer, command, trackVars, showVars, duration>>

\* Mutated: only the disconnect request is within the deadline.
ShutdownDeadlinePassesDisconnecting ==
  /\ main = "disconnecting" /\ Free
  /\ main' = "removing" /\ result' = "error"
  /\ UNCHANGED <<runVars, trackVars, showVars, duration>>

ShutdownDeadlinePasses ==
  /\ main \in {"disconnecting", "joining"} /\ Free
  /\ main' = "removing" /\ result' = "error"
  /\ UNCHANGED <<runVars, trackVars, showVars, duration>>

\* Mutated: an error of the shutdown hides the renderer's.
RemoveSinksLastError ==
  /\ main = "removing" /\ Free
  /\ sinks' = sinks \ tracks
  /\ result' = IF result = "ok" /\ rendererError THEN "renderer error" ELSE result
  /\ main' = "ending"
  /\ capturer' = IF run = "ended" THEN capturer ELSE CapturerStopped
  /\ run' = IF run = "ended" THEN run ELSE "aborted"
  /\ UNCHANGED <<runResult, runHandle, command, remote, appEvents, tracks, showVars, duration>>

\* The sinks are removed, the first error is reported, and the runtime drops a task that
\* has not ended.
RemoveSinks ==
  /\ main = "removing" /\ Free
  /\ sinks' = sinks \ tracks
  /\ result' = IF rendererError THEN "renderer error" ELSE result
  /\ main' = "ending"
  /\ capturer' = IF run = "ended" THEN capturer ELSE CapturerStopped
  /\ run' = IF run = "ended" THEN run ELSE "aborted"
  /\ UNCHANGED <<runResult, runHandle, command, remote, appEvents, tracks, showVars, duration>>

Returns ==
  /\ main \in {"failing", "ending"} /\ CapturerJoined
  /\ main' = "returned"
  /\ result' = IF main = "failing" THEN "error" ELSE result
  /\ UNCHANGED <<runVars, trackVars, showVars, duration>>

MainNext ==
  \/ StartRun \/ StartRunFails
  \/ RunHandleReady \/ DurationElapses \/ ReceiveEvent \/ ReceiveFrame \/ WindowClosed
  \/ ShutdownConnection \/ Disconnected \/ JoinRun \/ ShutdownDeadlinePasses \/ RemoveSinks \/ Returns

SumomoNext ==
  \/ MainNext
  \/ CaptureLoopEnds
  \/ RunLeaves \/ RunReturns \/ RunEnds
  \/ \E t \in Tracks : OnTrack(t) \/ OnRemoveTrack(t) \/ OnFrame(t)

\* The runtime polls main() and its timers go off, and the capturer's thread goes on.
\* Of run() only the end of its task is sure, once it has returned.
SumomoFairness ==
  /\ WF_sumomoVars(ShutdownConnection \/ Disconnected \/ JoinRun \/ ShutdownDeadlinePasses
                     \/ RemoveSinks \/ Returns)
  /\ WF_sumomoVars(CaptureLoopEnds)
  /\ WF_sumomoVars(RunEnds)

SumomoSpec == SumomoInit /\ [][SumomoNext]_sumomoVars /\ SumomoFairness

-----------------------------------------------------------------------------
(* Properties                                                              *)

\* While the connection is up, a track has a sink exactly if main() has not been told or is
\* still to be told that it is gone; and no sink outlives main().
SinksFollowTracks ==
  /\ main = "looping" /\ run = "running" /\ appEvents = <<>> => sinks = remote
  /\ main \in {"ending", "returned"} => sinks = {}

\* main() is successful only if run() was and every frame was shown; an error of the
\* renderer, which comes first, is not hidden by one of the shutdown that follows it.
ExitTellsFirstError ==
  main = "returned" =>
    /\ result = "ok" => run = "ended" /\ runResult = "ok"
    /\ rendererError <=> result = "renderer error"

\* Once main() leaves its loop it ends, whatever run() and the server do.
MainEnds ==
  []<>(main \notin {"asking", "disconnecting", "joining", "removing", "ending"})

\* "shutdown_connection also returns the result when run() completed first, because of the
\* server" (the comment at main.rs:771): it does not panic.
ServerEndIsReported == main # "panicked"
=============================================================================
