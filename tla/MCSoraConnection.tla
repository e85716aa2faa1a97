--------------------------- MODULE MCSoraConnection ---------------------------
(***************************************************************************)
(* Two instances of run() in one model: two DataChannels without a         *)
(* redirect, opening and closing in any order; and one channel with a      *)
(* redirect at any time, so that channels and events of the old session    *)
(* linger.  Where the server has redirected, two channels are not offered. *)
(***************************************************************************)
EXTENDS SoraConnection

CONSTANTS sig, msg

RedirectSent ==
  \/ session > 1
  \/ \E i \in DOMAIN net : net[i] = "redirect"
  \/ \E i \in DOMAIN wsEvents : wsEvents[i] = "redirect"
  \/ control \in {"redirect", "reconnect"}

OneOrTheOther == ~(RedirectSent /\ configured = {sig, msg})
=============================================================================
