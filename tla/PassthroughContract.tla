------------------------- MODULE PassthroughContract -------------------------
(***************************************************************************)
(* What MP4 passthrough promises a receiver, whatever is lost on the way   *)
(* to the encoder: a delta sample is sent only right after the sample that *)
(* comes before it in the file, so that a receiver can always decode it.   *)
(* A key frame may be sent at any time.                                    *)
(***************************************************************************)
EXTENDS Naturals

CONSTANTS
  Capturers,
  Samples(_),   \* indexes of the samples of a file
  KeyFrames(_)  \* those of its sync samples

VARIABLES
  file,   \* the file that is played
  sent    \* per capturer: index of the last sample sent, 0 at first

vars == <<file, sent>>

Init == sent = [c \in Capturers |-> 0]

\* Capturer c sends sample i of the file.
Send(c, i) ==
  /\ \/ i \in KeyFrames(file)
     \/ sent[c] > 0 /\ i = sent[c] + 1
  /\ sent' = [sent EXCEPT ![c] = i]
  /\ UNCHANGED file

Next == \E c \in Capturers, i \in Samples(file) : Send(c, i)

Spec == Init /\ [][Next]_vars
=============================================================================
