----------------------------- MODULE Applications -----------------------------
(***************************************************************************)
(* What uses the library, side by side: the example application, and the   *)
(* test connection and the proxy of the end-to-end tests.  They share no   *)
(* state.                                                                  *)
(***************************************************************************)
EXTENDS Sumomo, TestConnection, ForwardProxy

\* What the callbacks of a connection report is followed, in their order, by main() of sumomo
\* and by the log of a test.
CallbacksAreFollowed == SinksFollowTracks /\ EventsAreLogged

\* An end is told as it was: by the exit of sumomo, by a test's connection however often it is
\* asked, and by the proxy to the client that it cuts off.
EndsAreTold == ExitTellsFirstError /\ ResultIsReadOnce /\ CutIsClean
=============================================================================
