------------------------------- MODULE MCHub -------------------------------
(* Instances of Hub for TLC. *)
EXTENDS Hub, TLC

(* Clients are interchangeable. *)
Symmetry == Permutations(Conns)

============================================================================
