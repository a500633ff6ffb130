------------------------------ MODULE MCSercon ------------------------------
(* Instances of Sercon for TLC. *)
EXTENDS Sercon

(* Two waits for one pattern with something between them. *)
TwoWaits == {<<"send", "wait", "wait">>, <<"wait", "sleep", "wait", "send">>}

=============================================================================
