------------------------------- MODULE MCKeys -------------------------------
EXTENDS Keys

MCFirstFiles == {NoFile, Content(<<K1, Blank>>, FALSE)}
MCPastes == {<<>>, <<K2>>, <<Remark>>}
=============================================================================
