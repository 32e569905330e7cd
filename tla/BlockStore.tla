----------------------------- MODULE BlockStore -----------------------------
(***************************************************************************)
(* The requests that write the blocks of one board, statement by statement *)
(* (server/services/store/sqlstore/blocks.go, board.go).  A method marked  *)
(* @withTransaction runs in a transaction on Postgres and MySQL, and as    *)
(* separate statements on SQLite (public_methods.go).                      *)
(***************************************************************************)
EXTENDS BlockRows, Naturals, Sequences, FiniteSets

CONSTANTS
    Transactional,  \* dbType # model.SqliteDBType
    Requests,       \* request goroutines; each serves one request at a time
    NewRows,        \* the rows clients insert
    SomePatches,    \* the patches clients send
    MaxRequests,    \* bound on the requests served
    MaxFaults       \* bound on the crashes and failing statements

VARIABLES
    blocks,         \* table blocks
    history,        \* table blocks_history
    live,           \* the board's row in table boards
    boardDeleted,   \* is the last entry of table boards_history a deletion
    saved,          \* the four tables when the last transaction or request ended
    pc,             \* the statement each request is at
    req,            \* the request it serves and what it has read
    served,
    faults

tables == <<blocks, history, live, boardDeleted>>
vars == <<tables, saved, pc, req, served, faults>>

Atomic == INSTANCE AtomicBlockStore WITH
    blocks <- saved.blocks, history <- saved.history, live <- saved.live
AtomicSpec == Atomic!Spec
Now == INSTANCE AtomicBlockStore

\* The statements of concurrent transactions are not modelled.
ASSUME OneTransaction == Transactional => \A r, s \in Requests : r = s
ASSUME NewRowsAssumption == NewRows \subseteq Rows
ASSUME SomePatchesAssumption == SomePatches \subseteq Patches

NoRow == [parent |-> Board, title |-> CHOOSE t \in Titles : TRUE]
NoPatch == [parent |-> Keep, title |-> Keep]
Idle == [op |-> "none", todo |-> <<>>, row |-> NoRow, patch |-> NoPatch, existed |-> FALSE]

Ops == {"insert", "patch", "patchBatch", "delete", "undelete", "deleteBoard", "undeleteBoard"}
Steps == {"idle", "check", "read", "exists", "writeRow", "writeHistory",
          "readDoomed", "recordDelete", "deleteFile", "deleteRow",
          "readBoard", "recordBoardDelete", "deleteBoardRow",
          "recordChildren", "deleteChildrenFiles", "deleteChildren",
          "readHistory", "recordLive", "restoreRow",
          "readBoardHistory", "recordBoardLive", "restoreBoardRow",
          "restoreChildren", "recordRestored"}

TypeOK ==
    /\ Now!TypeOK
    /\ boardDeleted \in BOOLEAN
    /\ Atomic!TypeOK
    /\ saved.boardDeleted \in BOOLEAN
    /\ pc \in [Requests -> Steps]
    /\ req \in [Requests -> [op : Ops \cup {"none"}, todo : Seq(Blocks), row : Rows,
                             patch : Patches, existed : BOOLEAN]]
    /\ served \in Nat
    /\ faults \in Nat

Tables == [blocks |-> blocks, history |-> history, live |-> live, boardDeleted |-> boardDeleted]

Init ==
    /\ Now!Init
    /\ boardDeleted = FALSE
    /\ saved = Tables
    /\ pc = [r \in Requests |-> "idle"]
    /\ req = [r \in Requests |-> Idle]
    /\ served = 0
    /\ faults = 0

-----------------------------------------------------------------------------
(* How a request goes on and ends.                                         *)

Goto(r, step) ==
    /\ pc' = [pc EXCEPT ![r] = step]
    /\ UNCHANGED <<req, saved, served, faults>>

\* The transaction, if there is one, commits and the request ends.
Finish(r) ==
    /\ pc' = [pc EXCEPT ![r] = "idle"]
    /\ req' = [req EXCEPT ![r] = Idle]
    /\ saved' = Tables'
    /\ UNCHANGED <<served, faults>>

\* Mutant: the transaction commits although a statement failed.
RollbackNever == UNCHANGED tables

\* An error: a transaction rolls back, separate statements stay.
Rollback ==
    IF Transactional
    THEN /\ blocks' = saved.blocks /\ history' = saved.history
         /\ live' = saved.live /\ boardDeleted' = saved.boardDeleted
    ELSE UNCHANGED tables

Fail(r) ==
    /\ Rollback
    /\ Finish(r)

Block(r) == Head(req[r].todo)
At(r, step) == pc[r] = step

Record(b, row, deleted) == history' = [history EXCEPT ![b] = Append(@, Entry(row, deleted))]

-----------------------------------------------------------------------------
(* Arrival, and what api/blocks.go, api/boards.go and the App check first. *)

\* GenerateBlockIDs gives every inserted block an identifier never used.
Unused(b) == history[b] = <<>> /\ \A q \in Requests : \A i \in 1..Len(req[q].todo) : req[q].todo[i] # b

Batches == {<<b>> : b \in Blocks} \cup {<<b, c>> : b, c \in Blocks}

Begin(r, op, todo, row, patch) ==
    /\ pc[r] = "idle"
    /\ served < MaxRequests
    /\ served' = served + 1
    /\ pc' = [pc EXCEPT ![r] = "check"]
    /\ req' = [req EXCEPT ![r] = [op |-> op, todo |-> todo, row |-> row, patch |-> patch,
                                  existed |-> FALSE]]
    /\ UNCHANGED <<tables, saved, faults>>

Arrive(r) ==
    \/ \E todo \in Batches, row \in NewRows :
          /\ \A i \in 1..Len(todo) : Unused(todo[i])
          /\ Len(todo) = 2 => todo[1] # todo[2]
          /\ Begin(r, "insert", todo, row, NoPatch)
    \/ \E b \in Blocks, patch \in SomePatches : Begin(r, "patch", <<b>>, NoRow, patch)
    \/ \E todo \in Batches, patch \in SomePatches :
          /\ Len(todo) = 2 /\ todo[1] # todo[2]
          /\ Begin(r, "patchBatch", todo, NoRow, patch)
    \/ \E b \in Blocks, op \in {"delete", "undelete"} : Begin(r, op, <<b>>, NoRow, NoPatch)
    \/ \E op \in {"deleteBoard", "undeleteBoard"} : Begin(r, op, <<>>, NoRow, NoPatch)

Accepted(q) ==
    /\ q.op \notin {"patchBatch", "undeleteBoard"} => live
    /\ q.op \in {"patch", "patchBatch", "delete"} =>
          \A i \in 1..Len(q.todo) : q.todo[i] \in DOMAIN blocks
    /\ q.op = "undelete" => history[Head(q.todo)] # <<>>

FirstStep(op) ==
    CASE op = "insert" -> "exists"
      [] op \in {"patch", "patchBatch"} -> "read"
      [] op = "delete" -> "readDoomed"
      [] op = "undelete" -> "readHistory"
      [] op = "deleteBoard" -> "readBoard"
      [] op = "undeleteBoard" -> "readBoardHistory"

Check(r) ==
    /\ At(r, "check")
    /\ UNCHANGED tables
    /\ IF Accepted(req[r]) THEN Goto(r, FirstStep(req[r].op)) ELSE Finish(r)

-----------------------------------------------------------------------------
(* patchBlocks, patchBlock and insertBlock.                                *)

Read(r) ==
    /\ At(r, "read")
    /\ IF Block(r) \in DOMAIN blocks
       THEN /\ req' = [req EXCEPT ![r].row = Patched(blocks[Block(r)], req[r].patch)]
            /\ pc' = [pc EXCEPT ![r] = "exists"]
            /\ UNCHANGED <<tables, saved, served, faults>>
       ELSE Fail(r)

Exists(r) ==
    /\ At(r, "exists")
    /\ req' = [req EXCEPT ![r].existed = Block(r) \in DOMAIN blocks]
    /\ pc' = [pc EXCEPT ![r] = "writeRow"]
    /\ UNCHANGED <<tables, saved, served, faults>>

\* An update of a row that is gone changes nothing; an insert of one that is
\* there violates the primary key.
WriteRow(r) ==
    /\ At(r, "writeRow")
    /\ IF ~req[r].existed /\ Block(r) \in DOMAIN blocks
       THEN Fail(r)
       ELSE /\ blocks' = [b \in DOMAIN blocks \cup (IF req[r].existed THEN {} ELSE {Block(r)}) |->
                            IF b = Block(r) THEN req[r].row ELSE blocks[b]]
            /\ Goto(r, "writeHistory")
            /\ UNCHANGED <<history, live, boardDeleted>>

\* App.InsertBlocks calls InsertBlock for each block, a transaction each;
\* PatchBlocks is one transaction.
NextBlock(r) ==
    /\ req' = [req EXCEPT ![r].todo = Tail(@)]
    /\ pc' = [pc EXCEPT ![r] = IF req[r].op = "insert" THEN "exists" ELSE "read"]
    /\ saved' = IF req[r].op = "insert" THEN Tables' ELSE saved
    /\ UNCHANGED <<served, faults>>

WriteHistory(r) ==
    /\ At(r, "writeHistory")
    /\ Record(Block(r), req[r].row, FALSE)
    /\ UNCHANGED <<blocks, live, boardDeleted>>
    /\ IF Len(req[r].todo) > 1 THEN NextBlock(r) ELSE Finish(r)

-----------------------------------------------------------------------------
(* deleteBlockAndChildren and deleteBoardAndChildren.                      *)

ReadDoomed(r) ==
    /\ At(r, "readDoomed")
    /\ UNCHANGED tables
    /\ IF Block(r) \in DOMAIN blocks
       THEN /\ req' = [req EXCEPT ![r].row = blocks[Block(r)]]
            /\ pc' = [pc EXCEPT ![r] = "recordDelete"]
            /\ UNCHANGED <<saved, served, faults>>
       ELSE Finish(r)

RecordDelete(r) ==
    /\ At(r, "recordDelete")
    /\ Record(Block(r), req[r].row, TRUE)
    /\ Goto(r, IF Block(r) \in Files THEN "deleteFile" ELSE "deleteRow")
    /\ UNCHANGED <<blocks, live, boardDeleted>>

\* UPDATE FileInfo, a table of the Mattermost server.
SoftDeleteFiles(r, step) ==
    IF HasFileInfo THEN Goto(r, step) /\ UNCHANGED tables ELSE Fail(r)

DeleteFile(r) == At(r, "deleteFile") /\ SoftDeleteFiles(r, "deleteRow")

DeleteRow(r) ==
    /\ At(r, "deleteRow")
    /\ blocks' = [b \in DOMAIN blocks \ {Block(r)} |-> blocks[b]]
    /\ Goto(r, "recordChildren")
    /\ UNCHANGED <<history, live, boardDeleted>>

ReadBoard(r) ==
    /\ At(r, "readBoard")
    /\ IF live THEN Goto(r, "recordBoardDelete") /\ UNCHANGED tables ELSE Fail(r)

RecordBoardDelete(r) ==
    /\ At(r, "recordBoardDelete")
    /\ boardDeleted' = TRUE
    /\ Goto(r, "deleteBoardRow")
    /\ UNCHANGED <<blocks, history, live>>

DeleteBoardRow(r) ==
    /\ At(r, "deleteBoardRow")
    /\ live' = FALSE
    /\ Goto(r, "recordChildren")
    /\ UNCHANGED <<blocks, history, boardDeleted>>

Scope(r) == IF req[r].todo = <<>> THEN Board ELSE Block(r)

RecordChildren(r) ==
    /\ At(r, "recordChildren")
    /\ history' = [b \in Blocks |-> IF b \in Now!Children(Scope(r))
                                    THEN Append(history[b], Entry(blocks[b], TRUE))
                                    ELSE history[b]]
    /\ Goto(r, "deleteChildrenFiles")
    /\ UNCHANGED <<blocks, live, boardDeleted>>

DeleteChildrenFiles(r) ==
    /\ At(r, "deleteChildrenFiles")
    /\ IF Now!Children(Scope(r)) \cap Files = {}
       THEN Goto(r, "deleteChildren") /\ UNCHANGED tables
       ELSE SoftDeleteFiles(r, "deleteChildren")

DeleteChildren(r) ==
    /\ At(r, "deleteChildren")
    /\ blocks' = [b \in DOMAIN blocks \ Now!Children(Scope(r)) |-> blocks[b]]
    /\ UNCHANGED <<history, live, boardDeleted>>
    /\ Finish(r)

-----------------------------------------------------------------------------
(* undeleteBlock, undeleteBoard and undeleteBlockChildren.                 *)

ReadHistory(r) ==
    /\ At(r, "readHistory")
    /\ UNCHANGED tables
    /\ IF Now!Deleted(Block(r))
       THEN /\ req' = [req EXCEPT ![r].row = RowOf(Now!Latest(Block(r)))]
            /\ pc' = [pc EXCEPT ![r] = "recordLive"]
            /\ UNCHANGED <<saved, served, faults>>
       ELSE Finish(r)

RecordLive(r) ==
    /\ At(r, "recordLive")
    /\ Record(Block(r), req[r].row, FALSE)
    /\ Goto(r, "restoreRow")
    /\ UNCHANGED <<blocks, live, boardDeleted>>

RestoreRow(r) ==
    /\ At(r, "restoreRow")
    /\ IF Block(r) \in DOMAIN blocks
       THEN Fail(r)
       ELSE /\ blocks' = [b \in DOMAIN blocks \cup {Block(r)} |->
                            IF b = Block(r) THEN req[r].row ELSE blocks[b]]
            /\ Goto(r, "restoreChildren")
            /\ UNCHANGED <<history, live, boardDeleted>>

ReadBoardHistory(r) ==
    /\ At(r, "readBoardHistory")
    /\ UNCHANGED tables
    /\ IF boardDeleted THEN Goto(r, "recordBoardLive") ELSE Finish(r)

RecordBoardLive(r) ==
    /\ At(r, "recordBoardLive")
    /\ boardDeleted' = FALSE
    /\ Goto(r, "restoreBoardRow")
    /\ UNCHANGED <<blocks, history, live>>

RestoreBoardRow(r) ==
    /\ At(r, "restoreBoardRow")
    /\ IF live
       THEN Fail(r)
       ELSE /\ live' = TRUE
            /\ Goto(r, "restoreChildren")
            /\ UNCHANGED <<blocks, history, boardDeleted>>

\* The entries of b the subquery groups, and the one with the last insert_at.
Grouped(b, scope) == {i \in 1..Len(history[b]) : InScope(history[b][i], scope)}

\* Mutant: the first insert_at instead of the last.
FirstGrouped(b, scope) == CHOOSE i \in Grouped(b, scope) : \A j \in Grouped(b, scope) : i <= j

LastGrouped(b, scope) == CHOOSE i \in Grouped(b, scope) : \A j \in Grouped(b, scope) : j <= i

Restorable(scope) ==
    {b \in Blocks : Grouped(b, scope) # {} /\ history[b][LastGrouped(b, scope)].deleted}

Restored(b, scope) == RowOf(history[b][LastGrouped(b, scope)])

RestoreChildren(r) ==
    /\ At(r, "restoreChildren")
    /\ LET S == Restorable(Scope(r)) IN
       IF S \cap DOMAIN blocks # {}
       THEN Fail(r)
       ELSE /\ blocks' = [b \in DOMAIN blocks \cup S |->
                            IF b \in S THEN Restored(b, Scope(r)) ELSE blocks[b]]
            /\ Goto(r, "recordRestored")
            /\ UNCHANGED <<history, live, boardDeleted>>

\* The same query again, for the history.
RecordRestored(r) ==
    /\ At(r, "recordRestored")
    /\ history' = [b \in Blocks |-> IF b \in Restorable(Scope(r))
                                    THEN Append(history[b], Entry(Restored(b, Scope(r)), FALSE))
                                    ELSE history[b]]
    /\ UNCHANGED <<blocks, live, boardDeleted>>
    /\ Finish(r)

-----------------------------------------------------------------------------
(* Faults.                                                                 *)

\* A statement fails: the database is unreachable, or an entry of the same
\* block has the same insert_at.
StatementFails(r) ==
    /\ pc[r] # "idle"
    /\ faults < MaxFaults
    /\ Rollback
    /\ pc' = [pc EXCEPT ![r] = "idle"]
    /\ req' = [req EXCEPT ![r] = Idle]
    /\ saved' = Tables'
    /\ faults' = faults + 1
    /\ UNCHANGED served

Crash ==
    /\ faults < MaxFaults
    /\ Rollback
    /\ pc' = [r \in Requests |-> "idle"]
    /\ req' = [r \in Requests |-> Idle]
    /\ saved' = Tables'
    /\ faults' = faults + 1
    /\ UNCHANGED served

Request(r) ==
    \/ Arrive(r) \/ Check(r)
    \/ Read(r) \/ Exists(r) \/ WriteRow(r) \/ WriteHistory(r)
    \/ ReadDoomed(r) \/ RecordDelete(r) \/ DeleteFile(r) \/ DeleteRow(r)
    \/ ReadBoard(r) \/ RecordBoardDelete(r) \/ DeleteBoardRow(r)
    \/ RecordChildren(r) \/ DeleteChildrenFiles(r) \/ DeleteChildren(r)
    \/ ReadHistory(r) \/ RecordLive(r) \/ RestoreRow(r)
    \/ ReadBoardHistory(r) \/ RecordBoardLive(r) \/ RestoreBoardRow(r)
    \/ RestoreChildren(r) \/ RecordRestored(r)
    \/ StatementFails(r)

Next == (\E r \in Requests : Request(r)) \/ Crash

Spec == Init /\ [][Next]_vars

-----------------------------------------------------------------------------
(* Properties.                                                             *)

\* Each request takes effect completely or not at all, as the interface says:
\* what the tables are when a request ends follows the atomic specification.
ImplementsAtomic == AtomicSpec

\* When no request is under way the history tells the table, of the blocks
\* and of the board.
HistoryMatchesTable == TypeOK /\ Atomic!HistoryMatchesTable /\ saved.boardDeleted = ~saved.live

\* When no request is under way a deleted board has no blocks left
\* (storetests/blocks.go:1238).
NoBlocksWithoutBoard == Atomic!NoBlocksWithoutBoard

\* A request that takes a block out of the table leaves in the history the row
\* it had, and one that brings it back restores that row, and with a card every
\* block last deleted under it: an undo loses nothing.  (What is under a block
\* of a card does not come back with the card: children are restored one level
\* deep.)
LeavesItsRow(b) ==
    b \in DOMAIN saved.blocks \ DOMAIN saved'.blocks =>
        saved'.history[b] # <<>> /\
        saved'.history[b][Len(saved'.history[b])] = Entry(saved.blocks[b], TRUE)

ComesBackWhole(b) ==
    b \in DOMAIN saved'.blocks \ DOMAIN saved.blocks /\ saved.history[b] # <<>> =>
        /\ saved'.blocks[b] = RowOf(saved.history[b][Len(saved.history[b])])
        /\ saved'.blocks[b].parent = Board =>
              \A c \in Blocks \ DOMAIN saved.blocks :
                  /\ saved.history[c] # <<>>
                  /\ saved.history[c][Len(saved.history[c])].parent = b
                  => c \in DOMAIN saved'.blocks

UndoRestores == [][\A b \in Blocks : LeavesItsRow(b) /\ ComesBackWhole(b)]_saved
=============================================================================
