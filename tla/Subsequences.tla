------------------------------ MODULE Subsequences ------------------------------
(* The one helper the community modules lack in a form that can be reasoned  *)
(* about: SelectSeq is built into the prover and cannot be expanded there.   *)
EXTENDS SequencesExt

\* The elements of s at the positions I, in order.
SubseqAt(s, I) == FlattenSeq([i \in DOMAIN s |-> IF i \in I THEN <<s[i]>> ELSE <<>>])
=============================================================================
