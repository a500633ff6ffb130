------------------------------- MODULE Select -------------------------------
(* A loop over a slice that keeps some of its elements: what SelectSeq does
   with a test, with a set in its place, and in terms the proofs can follow. *)
EXTENDS Sequences, SequencesExt

(* The elements of q that are in S, in their order. *)
Only(q, S) == FlattenSeq([i \in DOMAIN q |-> IF q[i] \in S THEN <<q[i]>> ELSE <<>>])
=============================================================================
