---------------------------- MODULE MCBlockStore ----------------------------
(* Instances of BlockStore for TLC: a card with a text block under it.     *)
EXTENDS BlockStore

CONSTANTS card, text, extra, t1, t2

OneCard == [b \in {card, text} |-> [parent |-> IF b = card THEN Board ELSE card, title |-> t1]]
RowsToInsert == {[parent |-> card, title |-> t2]}
TwoPatches == {[parent |-> Board, title |-> Keep], [parent |-> Keep, title |-> t2]}
=============================================================================
