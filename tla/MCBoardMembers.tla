--------------------------- MODULE MCBoardMembers ---------------------------
(* Instances of BoardMembers for TLC.                                      *)
EXTENDS BoardMembers

SomeGrants == {{"admin", "editor"}, {"viewer"}}
=============================================================================
