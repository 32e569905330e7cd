--------------------------- MODULE AbstractHistory ---------------------------
(***************************************************************************)
(* What an undo manager promises about the order of commands: a past and a *)
(* future.  A new command ends the past and empties the future; undo moves *)
(* the last command of the past to the front of the future, redo moves the *)
(* first command of the future to the end of the past.  Nothing else ever  *)
(* changes, reorders or loses a command.                                   *)
(***************************************************************************)
EXTENDS Sequences, SequencesExt

VARIABLES
    past,     \* the commands that are done, oldest first
    future    \* the commands that were undone, the next to redo first

Init == past = <<>> /\ future = <<>>

\* A command is done.
Do ==
    /\ past' # <<>>
    /\ Front(past') = past
    /\ future' = <<>>

\* The last command is undone.
Back ==
    /\ past # <<>>
    /\ past' = Front(past)
    /\ future' = <<Last(past)>> \o future

\* The next command is redone.
Forth ==
    /\ future # <<>>
    /\ past' = Append(past, Head(future))
    /\ future' = Tail(future)

Next == Do \/ Back \/ Forth

Spec == Init /\ [][Next]_<<past, future>>
=============================================================================
