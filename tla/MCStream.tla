------------------------------ MODULE MCStream ------------------------------
(* Instances of Stream for TLC. *)
EXTENDS Stream, TLC

(* Clients are interchangeable. *)
Symmetry == Permutations(Conns)

============================================================================
