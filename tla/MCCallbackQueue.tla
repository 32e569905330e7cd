-------------------------- MODULE MCCallbackQueue --------------------------
(* Instances of CallbackQueue for TLC.                                     *)
EXTENDS CallbackQueue

\* Mentions: executing each even callback enqueues the next odd one, as adding
\* the mentioned user to the board does.
FromMentions == [f \in Callbacks |-> IF f % 2 = 0 THEN f - 1 ELSE NoCallback]
=============================================================================
