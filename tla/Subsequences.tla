---------------------------- MODULE Subsequences ----------------------------
(* The elements of a sequence that are picked out, in their order.          *)
EXTENDS SequencesExt

\* The elements of s at the places K.
Kept(s, K) == FlattenSeq([k \in DOMAIN s |-> IF k \in K THEN <<s[k]>> ELSE <<>>])
=============================================================================
