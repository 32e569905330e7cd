------------------------------ MODULE BlockRows ------------------------------
(***************************************************************************)
(* The rows of the tables blocks and blocks_history: what the properties   *)
(* tell apart of a block is its parent, its content and its deletion.      *)
(***************************************************************************)
CONSTANTS
    Blocks,         \* identifiers of blocks
    Board,          \* the board, the parent of its cards
    Titles,         \* contents of a block
    Keep,           \* what a patch gives for a field it leaves alone
    Files,          \* the blocks whose fields name a file
    HasFileInfo,    \* has the database the table FileInfo
    InitialRows     \* the rows the board starts with

Parents == Blocks \cup {Board}
Rows == [parent : Parents, title : Titles]
Patches == [parent : Parents \cup {Keep}, title : Titles \cup {Keep}]
Entries == [parent : Parents, title : Titles, deleted : BOOLEAN]

ASSUME KeepAssumption == Keep \notin Parents \cup Titles
ASSUME BoardAssumption == Board \notin Blocks
ASSUME TitlesAssumption == Titles # {}
ASSUME FilesAssumption == Files \subseteq Blocks
ASSUME HasFileInfoAssumption == HasFileInfo \in BOOLEAN
ASSUME InitialRowsAssumption ==
    /\ DOMAIN InitialRows \subseteq Blocks
    /\ InitialRows \in [DOMAIN InitialRows -> Rows]

\* The entry of the history for a row, and the row an entry restores.
Entry(row, deleted) == [parent |-> row.parent, title |-> row.title, deleted |-> deleted]
RowOf(e) == [parent |-> e.parent, title |-> e.title]

\* BlockPatch.Patch.
Patched(row, patch) ==
    [parent |-> IF patch.parent = Keep THEN row.parent ELSE patch.parent,
     title |-> IF patch.title = Keep THEN row.title ELSE patch.title]


\* The scope of a statement on children: those of a parent, all for the board.
InScope(row, scope) == scope = Board \/ row.parent = scope
=============================================================================
