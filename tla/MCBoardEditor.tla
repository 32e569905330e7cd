---------------------------- MODULE MCBoardEditor ----------------------------
(* Two parts of one run: the edits of one board, and the boards that are    *)
(* made, copied, deleted and undone.                                        *)
EXTENDS BoardEditor, BoardLifecycle

TwoNames == {1001, 1002}
CheckedTypes == {"select", "multiSelect", "person", "text"}

VARIABLE part
MCInit == \/ part = "edits" /\ Init /\ LifeStart(FALSE, 0)
          \/ /\ part = "boards" /\ LifeInit
             /\ cardProperties = <<>> /\ cards = <<>> /\ views = <<>>
             /\ edits = 0 /\ done = Nothing
MCNext == /\ \/ part = "edits" /\ Next /\ UNCHANGED lifeVars
             \/ part = "boards" /\ LifeNext /\ UNCHANGED vars
          /\ UNCHANGED part
MCSpec == MCInit /\ [][MCNext]_<<vars, lifeVars, part>>
==============================================================================
