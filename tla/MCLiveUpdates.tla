--------------------------- MODULE MCLiveUpdates ---------------------------
(* Instances of LiveUpdates for TLC.                                       *)
EXTENDS LiveUpdates

CONSTANTS c1, c2, u1, u2

\* Two tabs of one user.
TwoTabs == [c \in Clients |-> u1]
=============================================================================
