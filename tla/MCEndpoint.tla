----------------------------- MODULE MCEndpoint -----------------------------
(* Instances of Endpoint for TLC. *)
EXTENDS Endpoint, TLC

(* Processes of one kind are interchangeable. *)
Symmetry == Permutations(Daemons) \union Permutations(Sessions)

============================================================================
