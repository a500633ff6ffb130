----------------------------- MODULE MCPortLog -----------------------------
(* Instances of PortLog for TLC. *)
EXTENDS PortLog

(* One byte or two, with and without a line end among them. *)
ShortChunks == {<<FALSE>>, <<TRUE>>, <<FALSE, TRUE>>, <<TRUE, FALSE>>}

============================================================================
