------------------------------ MODULE Selection ------------------------------
(***************************************************************************)
(* The elements of a sequence that belong to a set, in their order: what   *)
(* SelectSeq does with a test, built on FlattenSeq, which proofs can       *)
(* unfold.                                                                 *)
(***************************************************************************)
EXTENDS Sequences, SequencesExt

Among(s, S) == FlattenSeq([k \in DOMAIN s |-> IF s[k] \in S THEN <<s[k]>> ELSE <<>>])
=============================================================================
