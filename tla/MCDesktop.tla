----------------------------- MODULE MCDesktop -----------------------------
(* Instances of Desktop for TLC. *)
EXTENDS Desktop

MCFirstFiles == {NoFile, Content(<<K1, Blank>>, FALSE)}
MCPastes == {<<>>, <<K2>>, <<Remark>>}
=============================================================================
