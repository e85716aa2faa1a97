-------------------------------- MODULE Lists --------------------------------
(***************************************************************************)
(* What iterators of the standard library do with a list.                  *)
(***************************************************************************)
EXTENDS SequencesExt

\* Iterator::filter and Vec::retain: the elements that pass the test, in their order.
Kept(s, Test(_)) == FlattenSeq([i \in DOMAIN s |-> IF Test(s[i]) THEN <<s[i]>> ELSE <<>>])
=============================================================================
