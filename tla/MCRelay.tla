------------------------------ MODULE MCRelay ------------------------------
(* Instances of Relay for TLC. *)
EXTENDS Relay, TLC

(* Connections are interchangeable, and so are tokens. *)
Symmetry == Permutations(Peers) \union Permutations(Tokens)

============================================================================
