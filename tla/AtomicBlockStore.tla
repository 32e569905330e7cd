-------------------------- MODULE AtomicBlockStore --------------------------
(***************************************************************************)
(* What the Store interface (server/services/store/store.go) promises for  *)
(* the blocks of one board: each method marked @withTransaction happens    *)
(* completely or not at all.  Tables blocks and blocks_history, and the    *)
(* board's own row in boards.                                              *)
(***************************************************************************)
EXTENDS BlockRows, Naturals, Sequences

VARIABLES
    blocks,     \* table blocks: a function from the blocks that have a row
    history,    \* table blocks_history: the entries of each block, by insert_at
    live        \* has the board a row in table boards

vars == <<blocks, history, live>>

Latest(b) == history[b][Len(history[b])]
Deleted(b) == history[b] # <<>> /\ Latest(b).deleted

Children(scope) == {b \in DOMAIN blocks : InScope(blocks[b], scope)}
Doomed(scope) == {b \in Blocks : Deleted(b) /\ InScope(Latest(b), scope)}

TypeOK ==
    /\ DOMAIN blocks \subseteq Blocks
    /\ blocks \in [DOMAIN blocks -> Rows]
    /\ history \in [Blocks -> Seq(Entries)]
    /\ live \in BOOLEAN

Init ==
    /\ blocks = InitialRows
    /\ history = [b \in Blocks |-> IF b \in DOMAIN InitialRows
                                   THEN <<Entry(InitialRows[b], FALSE)>> ELSE <<>>]
    /\ live = TRUE

\* The rows of the blocks in S become f; what they were is recorded.
Write(S, f) ==
    /\ blocks' = [b \in DOMAIN blocks \cup S |-> IF b \in S THEN f[b] ELSE blocks[b]]
    /\ history' = [b \in Blocks |-> IF b \in S THEN Append(history[b], Entry(f[b], FALSE))
                                    ELSE history[b]]

Remove(S) ==
    /\ blocks' = [b \in DOMAIN blocks \ S |-> blocks[b]]
    /\ history' = [b \in Blocks |-> IF b \in S THEN Append(history[b], Entry(blocks[b], TRUE))
                                    ELSE history[b]]

InsertBlock(b, row) ==
    /\ live
    /\ history[b] = <<>>
    /\ Write({b}, [c \in {b} |-> row])
    /\ UNCHANGED live

PatchBlocks(S, patch) ==
    /\ live
    /\ S # {} /\ S \subseteq DOMAIN blocks
    /\ Write(S, [b \in S |-> Patched(blocks[b], patch)])
    /\ UNCHANGED live

\* Files are soft-deleted in the table FileInfo; without it the method fails.
DeleteBlock(b) ==
    LET S == {b} \cup Children(b) IN
    /\ live
    /\ b \in DOMAIN blocks
    /\ HasFileInfo \/ S \cap Files = {}
    /\ Remove(S)
    /\ UNCHANGED live

UndeleteBlock(b) ==
    LET S == {b} \cup Doomed(b) IN
    /\ live
    /\ Deleted(b)
    /\ Write(S, [c \in S |-> RowOf(Latest(c))])
    /\ UNCHANGED live

DeleteBoard ==
    /\ live
    /\ HasFileInfo \/ DOMAIN blocks \cap Files = {}
    /\ Remove(DOMAIN blocks)
    /\ live' = FALSE

\* Everything ever deleted from the board comes back with it.
UndeleteBoard ==
    LET S == Doomed(Board) IN
    /\ ~live
    /\ Write(S, [c \in S |-> RowOf(Latest(c))])
    /\ live' = TRUE

Next ==
    \/ \E b \in Blocks : DeleteBlock(b) \/ UndeleteBlock(b)
    \/ \E b \in Blocks, row \in Rows : InsertBlock(b, row)
    \/ \E S \in SUBSET Blocks, patch \in Patches : PatchBlocks(S, patch)
    \/ DeleteBoard \/ UndeleteBoard

Spec == Init /\ [][Next]_vars

-----------------------------------------------------------------------------
(* Properties.                                                             *)

\* The history tells the table: a block has a row exactly when its last entry
\* is not a deletion, and that entry is the row.
HistoryMatchesTable ==
    \A b \in Blocks :
        /\ b \in DOMAIN blocks <=> history[b] # <<>> /\ ~Latest(b).deleted
        /\ b \in DOMAIN blocks => RowOf(Latest(b)) = blocks[b]

\* A deleted board has no blocks left.
NoBlocksWithoutBoard == ~live => DOMAIN blocks = {}
=============================================================================
