-------------------------- MODULE BlockStore_proof --------------------------
(***************************************************************************)
(* Proofs about BlockStore: the types for any number of requests with and  *)
(* without transactions, and, with transactions, that a request takes      *)
(* effect completely or not at all.                                        *)
(***************************************************************************)
EXTENDS BlockStore, WellFoundedInduction, TLAPS

-----------------------------------------------------------------------------
(* Types.                                                                  *)

BlockOps == {"insert", "patch", "patchBatch", "delete", "undelete"}
BlockSteps == {"read", "exists", "writeRow", "writeHistory", "readDoomed", "recordDelete",
               "deleteFile", "deleteRow", "readHistory", "recordLive", "restoreRow"}

\* The instances speak of the same rows and entries.
LEMMA SameRows ==
    /\ Now!Rows = Rows /\ Now!Entries = Entries
    /\ Atomic!Rows = Rows /\ Atomic!Entries = Entries /\ Atomic!Patches = Patches
BY DEF Now!Rows, Rows, Now!Entries, Entries, Atomic!Rows, Atomic!Entries, Atomic!Patches, Patches,
       Now!Parents, Atomic!Parents, Parents

\* A request that is at a statement on one block has one left to do.
Placed(r) ==
    /\ pc[r] # "idle" => req[r].op \in Ops
    /\ req[r].op \in BlockOps => req[r].todo # <<>>
    /\ pc[r] \in BlockSteps => req[r].op \in BlockOps

Stored == Now!TypeOK /\ boardDeleted \in BOOLEAN
SavedTyped == Atomic!TypeOK /\ saved.boardDeleted \in BOOLEAN

Asked == [op : Ops \cup {"none"}, todo : Seq(Blocks), row : Rows, patch : Patches, existed : BOOLEAN]

Controlled ==
    /\ pc \in [Requests -> Steps]
    /\ req \in [Requests -> Asked]
    /\ served \in Nat
    /\ faults \in Nat
    /\ \A r \in Requests : Placed(r)

TInv == Stored /\ SavedTyped /\ Controlled

LEMMA TInvIsTyped == TInv => TypeOK
BY DEF TInv, TypeOK, Stored, SavedTyped, Controlled, Asked

\* A row an entry restores, and the entry of a row, are what they should be.
LEMMA EntryTyped ==
    ASSUME NEW row \in Rows, NEW d \in BOOLEAN
    PROVE  Entry(row, d) \in Entries
BY DEF Rows, Entries, Entry

LEMMA RowTyped ==
    ASSUME NEW e \in Entries
    PROVE  RowOf(e) \in Rows
BY DEF Rows, Entries, RowOf

LEMMA PatchTyped ==
    ASSUME NEW row \in Rows, NEW patch \in Patches
    PROVE  Patched(row, patch) \in Rows
BY DEF Rows, Patches, Patched

LEMMA NoRowTyped == NoRow \in Rows
BY TitlesAssumption DEF NoRow, Rows, Parents

LEMMA NoPatchTyped == NoPatch \in Patches
BY DEF NoPatch, Patches

LEMMA IdleTyped == Idle \in Asked
<1>1. <<>> \in Seq(Blocks)
  OBVIOUS
<1> QED BY <1>1, NoRowTyped, NoPatchTyped DEF Idle, Asked

\* A request ends.
LEMMA FinishTyped ==
    ASSUME Controlled, NEW r \in Requests, Finish(r)
    PROVE  Controlled' /\ saved' = Tables'
<1>1. pc' = [pc EXCEPT ![r] = "idle"] /\ req' = [req EXCEPT ![r] = Idle]
  BY DEF Finish
<1>2. pc' \in [Requests -> Steps] /\ req' \in [Requests -> Asked]
  BY <1>1, IdleTyped DEF Controlled, Steps
<1>3. ASSUME NEW q \in Requests PROVE Placed(q)'
  <2>1. CASE q = r
    BY <2>1, <1>1, <1>2 DEF Placed, Controlled, Idle, BlockOps, BlockSteps
  <2>2. CASE q # r
    BY <2>2, <1>1 DEF Placed, Controlled
  <2> QED BY <2>1, <2>2
<1> QED BY <1>2, <1>3 DEF Finish, Controlled

LEMMA GotoTyped ==
    ASSUME Controlled, NEW r \in Requests, NEW step \in Steps, Goto(r, step),
           req[r].op \in Ops, step \in BlockSteps => req[r].op \in BlockOps
    PROVE  Controlled' /\ saved' = saved
<1>1. pc' = [pc EXCEPT ![r] = step] /\ req' = req
  BY DEF Goto
<1>2. ASSUME NEW q \in Requests PROVE Placed(q)'
  <2>1. CASE q = r
    BY <2>1, <1>1 DEF Placed, Controlled
  <2>2. CASE q # r
    BY <2>2, <1>1 DEF Placed, Controlled
  <2> QED BY <2>1, <2>2
<1> QED BY <1>1, <1>2 DEF Goto, Controlled

\* A request goes on with what it has read.
LEMMA ReadTyped ==
    ASSUME Controlled, NEW r \in Requests, NEW step \in Steps, NEW q \in Asked,
           pc' = [pc EXCEPT ![r] = step], req' = [req EXCEPT ![r] = q],
           UNCHANGED <<served, faults>>,
           q.op \in Ops, q.op \in BlockOps => q.todo # <<>>,
           step \in BlockSteps => q.op \in BlockOps
    PROVE  Controlled'
<1>1. ASSUME NEW p \in Requests PROVE Placed(p)'
  <2>1. CASE p = r
    BY <2>1 DEF Placed, Controlled
  <2>2. CASE p # r
    BY <2>2 DEF Placed, Controlled
  <2> QED BY <2>1, <2>2
<1> QED BY <1>1 DEF Controlled

LEMMA RollbackTyped ==
    ASSUME Stored, SavedTyped, Rollback
    PROVE  Stored'
<1>1. CASE Transactional
  <2>1. /\ blocks' = saved.blocks /\ history' = saved.history
        /\ live' = saved.live /\ boardDeleted' = saved.boardDeleted
    BY <1>1 DEF Rollback
  <2>2. Now!TypeOK'
    BY <2>1, SameRows DEF SavedTyped, Now!TypeOK, Atomic!TypeOK
  <2> QED BY <2>1, <2>2 DEF Stored, SavedTyped
<1>2. CASE ~Transactional
  BY <1>2 DEF Stored, Rollback, Now!TypeOK, tables
<1> QED BY <1>1, <1>2

LEMMA SavedIsTyped ==
    ASSUME SavedTyped, Stored', saved' = saved \/ saved' = Tables'
    PROVE  SavedTyped'
<1>1. CASE saved' = saved
  BY <1>1 DEF SavedTyped, Atomic!TypeOK
<1>2. CASE saved' = Tables'
  <2>1. /\ saved'.blocks = blocks' /\ saved'.history = history'
        /\ saved'.live = live' /\ saved'.boardDeleted = boardDeleted'
    BY <1>2 DEF Tables
  <2>2. Atomic!TypeOK'
    BY <2>1, SameRows DEF Stored, Now!TypeOK, Atomic!TypeOK
  <2> QED BY <2>1, <2>2 DEF Stored, SavedTyped
<1> QED BY <1>1, <1>2

LEMMA ExistedTyped ==
    ASSUME NEW q \in Asked, NEW e \in BOOLEAN
    PROVE  /\ [q EXCEPT !.existed = e] \in Asked
           /\ [q EXCEPT !.existed = e].op = q.op
           /\ [q EXCEPT !.existed = e].todo = q.todo
BY DEF Asked

LEMMA TInvInitially == Init => TInv
<1> SUFFICES ASSUME Init PROVE TInv
  OBVIOUS
<1>1. ASSUME NEW b \in Blocks PROVE history[b] \in Seq(Entries)
  <2>1. CASE b \in DOMAIN InitialRows
    <3> DEFINE e == Entry(InitialRows[b], FALSE)
    <3>1. history[b] = <<e>>
      BY <2>1 DEF Init, Now!Init, Now!Entry, Entry
    <3>2. e \in Entries
      BY <2>1, InitialRowsAssumption, EntryTyped
    <3> HIDE DEF e
    <3> QED BY <3>1, <3>2
  <2>2. CASE b \notin DOMAIN InitialRows
    BY <2>2 DEF Init, Now!Init
  <2> QED BY <2>1, <2>2
<1>2. Stored
  <2>1. history \in [Blocks -> Seq(Entries)]
    BY <1>1 DEF Init, Now!Init
  <2>2. DOMAIN blocks \subseteq Blocks /\ blocks \in [DOMAIN blocks -> Rows]
    BY InitialRowsAssumption DEF Init, Now!Init
  <2> QED BY <2>1, <2>2, SameRows DEF Stored, Init, Now!Init, Now!TypeOK
<1>3. SavedTyped
  <2>1. /\ saved.blocks = blocks /\ saved.history = history
        /\ saved.live = live /\ saved.boardDeleted = boardDeleted
    BY DEF Init, Tables
  <2>2. Atomic!TypeOK
    BY <1>2, <2>1, SameRows DEF Stored, Now!TypeOK, Atomic!TypeOK
  <2> QED BY <1>2, <2>1, <2>2 DEF Stored, SavedTyped
<1>4. Controlled
  <2>1. req \in [Requests -> Asked] /\ pc \in [Requests -> Steps]
    BY IdleTyped DEF Init, Steps
  <2> QED BY <2>1 DEF Init, Controlled, Placed, Idle, BlockOps, BlockSteps
<1> QED BY <1>2, <1>3, <1>4 DEF TInv

-----------------------------------------------------------------------------
(* Each statement keeps the types.                                         *)

\* What a step does to the saved tables and to the request.
Kept == Controlled' /\ (saved' = saved \/ saved' = Tables')

LEMMA TInvFrom ==
    ASSUME TInv, Stored', Kept
    PROVE  TInv'
BY SavedIsTyped DEF TInv, Kept

LEMMA FailTyped ==
    ASSUME TInv, NEW r \in Requests, Fail(r)
    PROVE  TInv'
BY FinishTyped, RollbackTyped, TInvFrom DEF TInv, Fail, Kept

LEMMA TablesStay ==
    ASSUME Stored, UNCHANGED tables
    PROVE  Stored'
BY DEF Stored, tables, Now!TypeOK

\* An entry is appended to the history of one block, or of each block of a set.
LEMMA AppendTyped ==
    ASSUME NEW h \in Seq(Entries), NEW e \in Entries
    PROVE  Append(h, e) \in Seq(Entries)
OBVIOUS

LEMMA RecordTyped ==
    ASSUME Stored, NEW b \in Blocks, NEW row \in Rows, NEW d \in BOOLEAN, Record(b, row, d),
           UNCHANGED <<blocks, live, boardDeleted>>
    PROVE  Stored'
<1>1. history \in [Blocks -> Seq(Entries)] /\ history[b] \in Seq(Entries)
  BY SameRows DEF Stored, Now!TypeOK
<1>2. Append(history[b], Entry(row, d)) \in Seq(Entries)
  BY <1>1, EntryTyped, AppendTyped
<1>3. history' \in [Blocks -> Seq(Entries)]
  BY <1>1, <1>2 DEF Record
<1> QED BY <1>3, SameRows DEF Stored, Now!TypeOK

LEMMA RecordAllTyped ==
    ASSUME Stored, NEW S \in SUBSET Blocks, NEW f, \A b \in S : f[b] \in Entries,
           history' = [b \in Blocks |-> IF b \in S THEN Append(history[b], f[b]) ELSE history[b]],
           UNCHANGED <<blocks, live, boardDeleted>>
    PROVE  Stored'
<1>1. history \in [Blocks -> Seq(Entries)]
  BY SameRows DEF Stored, Now!TypeOK
<1>2. ASSUME NEW b \in Blocks PROVE history'[b] \in Seq(Entries)
  <2>1. CASE b \in S
    BY <1>1, <2>1, AppendTyped
  <2>2. CASE b \notin S
    BY <1>1, <2>2
  <2> QED BY <2>1, <2>2
<1>3. history' \in [Blocks -> Seq(Entries)]
  BY <1>2
<1> QED BY <1>3, SameRows DEF Stored, Now!TypeOK

\* Rows are put, and rows are taken out.
LEMMA PutTyped ==
    ASSUME Stored, NEW S \in SUBSET Blocks, NEW f, \A b \in S : f[b] \in Rows,
           NEW T \in SUBSET Blocks, T \subseteq DOMAIN blocks \cup S,
           blocks' = [b \in T |-> IF b \in S THEN f[b] ELSE blocks[b]],
           UNCHANGED <<history, live, boardDeleted>>
    PROVE  Stored'
<1>1. \A b \in DOMAIN blocks : blocks[b] \in Rows
  BY SameRows DEF Stored, Now!TypeOK
<1>2. \A b \in T : blocks'[b] \in Rows
  BY <1>1
<1>3. DOMAIN blocks' = T /\ blocks' \in [T -> Rows]
  BY <1>2
<1> QED BY <1>3, SameRows DEF Stored, Now!TypeOK

LEMMA TakeTyped ==
    ASSUME Stored, NEW T \in SUBSET DOMAIN blocks, blocks' = [b \in T |-> blocks[b]],
           UNCHANGED <<history, live, boardDeleted>>
    PROVE  Stored'
<1>1. DOMAIN blocks' = T /\ \A b \in T : blocks'[b] \in Rows
  BY SameRows DEF Stored, Now!TypeOK
<1>2. blocks' \in [T -> Rows]
  BY <1>1
<1> QED BY <1>1, <1>2, SameRows DEF Stored, Now!TypeOK

LEMMA RequestTyped ==
    ASSUME TInv, NEW r \in Requests
    PROVE  /\ req[r] \in Asked
           /\ req[r].todo \in Seq(Blocks) /\ req[r].row \in Rows /\ req[r].patch \in Patches
           /\ Placed(r)
           /\ pc[r] \in Steps
           /\ pc[r] \in BlockSteps => req[r].todo # <<>> /\ Block(r) \in Blocks
<1>1. req[r] \in Asked /\ Placed(r) /\ pc[r] \in Steps
  BY DEF TInv, Controlled
<1>2. req[r].todo \in Seq(Blocks) /\ req[r].row \in Rows /\ req[r].patch \in Patches
  BY <1>1 DEF Asked
<1>3. req[r].todo # <<>> => Head(req[r].todo) \in Blocks
  BY <1>2
<1> QED BY <1>1, <1>2, <1>3 DEF Placed, Block

LEMMA StoredTyped ==
    ASSUME Stored
    PROVE  /\ DOMAIN blocks \subseteq Blocks
           /\ \A b \in DOMAIN blocks : blocks[b] \in Rows
           /\ \A b \in Blocks : history[b] \in Seq(Entries)
BY SameRows DEF Stored, Now!TypeOK

\* What a request reads before it goes on.
LEMMA ReadsTyped ==
    ASSUME TInv, NEW r \in Requests, Stored', NEW step \in Steps, NEW q \in Asked,
           pc' = [pc EXCEPT ![r] = step], req' = [req EXCEPT ![r] = q],
           saved' = saved \/ saved' = Tables', UNCHANGED <<served, faults>>,
           q.op = req[r].op, q.op \in Ops, q.op \in BlockOps => q.todo # <<>>,
           step \in BlockSteps => q.op \in BlockOps
    PROVE  TInv'
<1>1. Controlled'
  BY ReadTyped DEF TInv
<1> QED BY <1>1, TInvFrom DEF Kept

LEMMA GoesTyped ==
    ASSUME TInv, NEW r \in Requests, Stored', NEW step \in Steps, Goto(r, step),
           pc[r] # "idle", step \in BlockSteps => req[r].op \in BlockOps
    PROVE  TInv'
<1>1. req[r].op \in Ops
  BY RequestTyped DEF Placed
<1>2. Controlled' /\ saved' = saved
  BY <1>1, GotoTyped DEF TInv
<1> QED BY <1>2, TInvFrom DEF Kept

LEMMA EndsTyped ==
    ASSUME TInv, NEW r \in Requests, Stored', Finish(r)
    PROVE  TInv'
BY FinishTyped, TInvFrom DEF TInv, Kept

LEMMA BeginTyped ==
    ASSUME TInv, NEW r \in Requests, NEW op \in Ops, NEW todo \in Seq(Blocks),
           op \in BlockOps => todo # <<>>,
           NEW row \in Rows, NEW patch \in Patches, Begin(r, op, todo, row, patch)
    PROVE  TInv'
<1> DEFINE q == [op |-> op, todo |-> todo, row |-> row, patch |-> patch, existed |-> FALSE]
<1>1. q \in Asked
  BY DEF Asked
<1>2. /\ pc' = [pc EXCEPT ![r] = "check"] /\ req' = [req EXCEPT ![r] = q]
      /\ q.op = op /\ q.todo = todo
      /\ served' = served + 1 /\ UNCHANGED <<tables, saved, faults>>
  BY DEF Begin
<1> HIDE DEF q
<1>3. ASSUME NEW p \in Requests PROVE Placed(p)'
  <2>1. CASE p = r
    <3>1. pc'[p] = "check" /\ req'[p] = q
      BY <2>1, <1>2 DEF TInv, Controlled
    <3> QED BY <3>1, <1>2 DEF Placed, BlockSteps
  <2>2. CASE p # r
    BY <2>2, <1>2 DEF Placed, TInv, Controlled
  <2> QED BY <2>1, <2>2
<1>4. Controlled'
  BY <1>1, <1>2, <1>3 DEF TInv, Controlled, Steps
<1> QED BY <1>2, <1>4, TablesStay, TInvFrom DEF TInv, Kept

LEMMA BatchTyped ==
    ASSUME NEW todo \in Batches
    PROVE  todo \in Seq(Blocks) /\ todo # <<>>
<1>1. CASE \E b \in Blocks : todo = <<b>>
  <2>1. \A b \in Blocks : <<b>> \in Seq(Blocks) /\ <<b>> # <<>>
    OBVIOUS
  <2> QED BY <1>1, <2>1
<1>2. CASE \E b, c \in Blocks : todo = <<b, c>>
  <2>1. \A b, c \in Blocks : <<b, c>> \in Seq(Blocks) /\ <<b, c>> # <<>>
    OBVIOUS
  <2> QED BY <1>2, <2>1
<1> QED BY <1>1, <1>2 DEF Batches

LEMMA ArriveTyped ==
    ASSUME TInv, NEW r \in Requests, Arrive(r)
    PROVE  TInv'
<1> USE NoRowTyped, NoPatchTyped, BatchTyped
<1>1. \A b \in Blocks : <<b>> \in Seq(Blocks) /\ <<b>> # <<>>
  OBVIOUS
<1>2. <<>> \in Seq(Blocks)
  OBVIOUS
<1>3. ASSUME NEW todo \in Batches, NEW row \in NewRows, Begin(r, "insert", todo, row, NoPatch)
      PROVE  TInv'
  BY <1>3, NewRowsAssumption, BeginTyped DEF Ops
<1>4. ASSUME NEW b \in Blocks, NEW patch \in SomePatches, Begin(r, "patch", <<b>>, NoRow, patch)
      PROVE  TInv'
  BY <1>1, <1>4, SomePatchesAssumption, BeginTyped DEF Ops
<1>5. ASSUME NEW todo \in Batches, NEW patch \in SomePatches,
             Begin(r, "patchBatch", todo, NoRow, patch)
      PROVE  TInv'
  BY <1>5, SomePatchesAssumption, BeginTyped DEF Ops
<1>6. ASSUME NEW b \in Blocks, NEW op \in {"delete", "undelete"},
             Begin(r, op, <<b>>, NoRow, NoPatch)
      PROVE  TInv'
  BY <1>1, <1>6, BeginTyped DEF Ops
<1>7. ASSUME NEW op \in {"deleteBoard", "undeleteBoard"}, Begin(r, op, <<>>, NoRow, NoPatch)
      PROVE  TInv'
  <2>1. op \in Ops /\ op \notin BlockOps
    BY DEF Ops, BlockOps
  <2> QED BY <1>2, <1>7, <2>1, BeginTyped
<1> QED BY <1>3, <1>4, <1>5, <1>6, <1>7 DEF Arrive

LEMMA CheckTyped ==
    ASSUME TInv, NEW r \in Requests, Check(r)
    PROVE  TInv'
<1>1. Stored' /\ pc[r] = "check"
  BY TablesStay DEF TInv, Check, At
<1>2. CASE Goto(r, FirstStep(req[r].op))
  <2>1. req[r].op \in Ops
    BY <1>1, RequestTyped DEF Placed
  <2>2. /\ FirstStep(req[r].op) \in Steps
        /\ FirstStep(req[r].op) \in BlockSteps => req[r].op \in BlockOps
    BY <2>1 DEF FirstStep, Ops, Steps, BlockOps, BlockSteps
  <2> QED BY <1>1, <1>2, <2>2, GoesTyped
<1>3. CASE Finish(r)
  BY <1>1, <1>3, EndsTyped
<1> QED BY <1>2, <1>3 DEF Check

\* patchBlocks, patchBlock and insertBlock.
LEMMA PatchStepsTyped ==
    ASSUME TInv, NEW r \in Requests,
           Read(r) \/ Exists(r) \/ WriteRow(r) \/ WriteHistory(r)
    PROVE  TInv'
<1>0. Stored /\ pc[r] \in BlockSteps
  BY DEF TInv, Read, Exists, WriteRow, WriteHistory, At, BlockSteps
<1>1. /\ req[r] \in Asked /\ req[r].op \in BlockOps /\ req[r].op \in Ops
      /\ req[r].todo # <<>> /\ Block(r) \in Blocks
      /\ req[r].todo \in Seq(Blocks) /\ req[r].row \in Rows
  BY <1>0, RequestTyped DEF Placed, BlockSteps
<1>2. CASE Read(r)
  <2>1. CASE Fail(r)
    BY <2>1, FailTyped
  <2>2. CASE ~Fail(r)
    <3> DEFINE row == Patched(blocks[Block(r)], req[r].patch)
               q == [req[r] EXCEPT !.row = row]
    <3>1. row \in Rows
      BY <1>0, <1>2, <2>2, StoredTyped, RequestTyped, PatchTyped DEF Read
    <3>2. /\ req' = [req EXCEPT ![r] = q] /\ pc' = [pc EXCEPT ![r] = "exists"]
          /\ UNCHANGED <<tables, saved, served, faults>>
      BY <1>2, <2>2 DEF Read
    <3>3. q \in Asked /\ q.op = req[r].op /\ q.todo = req[r].todo
      BY <1>1, <3>1 DEF Asked
    <3> HIDE DEF row, q
    <3> QED BY <1>0, <1>1, <3>2, <3>3, TablesStay, ReadsTyped DEF Steps
  <2> QED BY <2>1, <2>2
<1>3. CASE Exists(r)
  <2> DEFINE q == [req[r] EXCEPT !.existed = Block(r) \in DOMAIN blocks]
  <2>1. /\ req' = [req EXCEPT ![r] = q] /\ pc' = [pc EXCEPT ![r] = "writeRow"]
        /\ UNCHANGED <<tables, saved, served, faults>>
    BY <1>3 DEF Exists
  <2>2. q \in Asked /\ q.op = req[r].op /\ q.todo = req[r].todo
    <3>1. (Block(r) \in DOMAIN blocks) \in BOOLEAN
      OBVIOUS
    <3> QED BY <1>1, <3>1, ExistedTyped
  <2> HIDE DEF q
  <2> QED BY <1>0, <1>1, <2>1, <2>2, TablesStay, ReadsTyped DEF Steps
<1>4. CASE WriteRow(r)
  <2>1. CASE Fail(r)
    BY <2>1, FailTyped
  <2>2. CASE ~Fail(r)
    <3> DEFINE T == DOMAIN blocks \cup (IF req[r].existed THEN {} ELSE {Block(r)})
               f == [b \in {Block(r)} |-> req[r].row]
    <3>1. /\ blocks' = [b \in T |-> IF b \in {Block(r)} THEN f[b] ELSE blocks[b]]
          /\ Goto(r, "writeHistory")
          /\ UNCHANGED <<history, live, boardDeleted>>
      BY <1>4, <2>2 DEF WriteRow
    <3>2. T \in SUBSET Blocks /\ T \subseteq DOMAIN blocks \cup {Block(r)}
          /\ \A b \in {Block(r)} : f[b] \in Rows
      BY <1>0, <1>1, StoredTyped
    <3> HIDE DEF T, f
    <3>3. Stored'
      BY <1>0, <1>1, <3>1, <3>2, PutTyped
    <3> QED BY <1>0, <1>1, <3>1, <3>3, GoesTyped DEF Steps, BlockSteps
  <2> QED BY <2>1, <2>2
<1>5. CASE WriteHistory(r)
  <2>1. Stored'
    BY <1>0, <1>1, <1>5, RecordTyped DEF WriteHistory
  <2>2. CASE Finish(r)
    BY <2>1, <2>2, EndsTyped
  <2>3. CASE Len(req[r].todo) > 1 /\ NextBlock(r)
    <3> DEFINE q == [req[r] EXCEPT !.todo = Tail(@)]
               step == IF req[r].op = "insert" THEN "exists" ELSE "read"
    <3>1. /\ req' = [req EXCEPT ![r] = q] /\ pc' = [pc EXCEPT ![r] = step]
          /\ saved' = saved \/ saved' = Tables'
          /\ UNCHANGED <<served, faults>>
      BY <2>3 DEF NextBlock
    <3>2. Tail(req[r].todo) \in Seq(Blocks) /\ Tail(req[r].todo) # <<>>
      BY <1>1, <2>3
    <3>3. q \in Asked /\ q.op = req[r].op /\ q.todo = Tail(req[r].todo)
      BY <1>1, <3>2 DEF Asked
    <3>4. step \in Steps
      BY DEF Steps
    <3> HIDE DEF q, step
    <3> QED BY <1>1, <2>1, <3>1, <3>2, <3>3, <3>4, ReadsTyped
  <2> QED BY <1>5, <2>2, <2>3 DEF WriteHistory
<1> QED BY <1>2, <1>3, <1>4, <1>5

LEMMA SoftDeleteTyped ==
    ASSUME TInv, NEW r \in Requests, NEW step \in Steps, SoftDeleteFiles(r, step),
           pc[r] # "idle", step \in BlockSteps => req[r].op \in BlockOps
    PROVE  TInv'
<1>1. CASE Fail(r)
  BY <1>1, FailTyped
<1>2. CASE Goto(r, step) /\ UNCHANGED tables
  BY <1>2, TablesStay, GoesTyped DEF TInv
<1> QED BY <1>1, <1>2 DEF SoftDeleteFiles

LEMMA ChildrenTyped ==
    ASSUME TInv, NEW r \in Requests
    PROVE  /\ Now!Children(Scope(r)) \subseteq DOMAIN blocks
           /\ Now!Children(Scope(r)) \in SUBSET Blocks
BY StoredTyped DEF TInv, Now!Children

\* deleteBlockAndChildren and deleteBoardAndChildren.
LEMMA DeleteStepsTyped ==
    ASSUME TInv, NEW r \in Requests,
           \/ ReadDoomed(r) \/ RecordDelete(r) \/ DeleteFile(r) \/ DeleteRow(r)
           \/ ReadBoard(r) \/ RecordBoardDelete(r) \/ DeleteBoardRow(r)
           \/ RecordChildren(r) \/ DeleteChildrenFiles(r) \/ DeleteChildren(r)
    PROVE  TInv'
<1>0. Stored
  BY DEF TInv
<1>1. /\ req[r] \in Asked /\ req[r].row \in Rows
      /\ pc[r] \in BlockSteps => req[r].op \in BlockOps /\ req[r].todo # <<>> /\ Block(r) \in Blocks
  BY RequestTyped DEF Placed
<1>2. CASE ReadDoomed(r)
  <2>1. Stored' /\ pc[r] = "readDoomed"
    BY <1>0, <1>2, TablesStay DEF ReadDoomed, At
  <2>2. CASE Finish(r)
    BY <2>1, <2>2, EndsTyped
  <2>3. CASE ~Finish(r)
    <3> DEFINE q == [req[r] EXCEPT !.row = blocks[Block(r)]]
    <3>1. /\ req' = [req EXCEPT ![r] = q] /\ pc' = [pc EXCEPT ![r] = "recordDelete"]
          /\ UNCHANGED <<saved, served, faults>>
          /\ Block(r) \in DOMAIN blocks
      BY <1>2, <2>3 DEF ReadDoomed
    <3>2. q \in Asked /\ q.op = req[r].op /\ q.todo = req[r].todo
      BY <1>0, <1>1, <3>1, StoredTyped DEF Asked
    <3>3. req[r].op \in Ops
      BY <2>1, RequestTyped DEF Placed
    <3> HIDE DEF q
    <3> QED BY <1>1, <2>1, <3>1, <3>2, <3>3, ReadsTyped DEF Steps, BlockSteps
  <2> QED BY <2>2, <2>3
<1>3. CASE RecordDelete(r)
  <2>1. pc[r] \in BlockSteps /\ pc[r] # "idle"
    BY <1>3 DEF RecordDelete, At, BlockSteps
  <2>2. Stored'
    BY <1>0, <1>1, <1>3, <2>1, RecordTyped DEF RecordDelete
  <2> QED BY <1>1, <1>3, <2>1, <2>2, GoesTyped DEF RecordDelete, Steps
<1>4. CASE DeleteFile(r)
  BY <1>1, <1>4, SoftDeleteTyped DEF DeleteFile, At, Steps, BlockSteps
<1>5. CASE DeleteRow(r)
  <2>1. pc[r] \in BlockSteps /\ pc[r] # "idle"
    BY <1>5 DEF DeleteRow, At, BlockSteps
  <2>2. Stored'
    BY <1>0, <1>5, TakeTyped DEF DeleteRow
  <2> QED BY <1>1, <1>5, <2>1, <2>2, GoesTyped DEF DeleteRow, Steps, BlockSteps
<1>6. CASE ReadBoard(r)
  <2>1. CASE Fail(r)
    BY <2>1, FailTyped
  <2>2. CASE Goto(r, "recordBoardDelete") /\ UNCHANGED tables /\ pc[r] = "readBoard"
    BY <1>0, <2>2, TablesStay, GoesTyped DEF Steps, BlockSteps
  <2> QED BY <1>6, <2>1, <2>2 DEF ReadBoard, At
<1>7. CASE RecordBoardDelete(r)
  <2>1. Stored'
    BY <1>0, <1>7 DEF RecordBoardDelete, Stored, Now!TypeOK
  <2> QED BY <1>7, <2>1, GoesTyped DEF RecordBoardDelete, At, Steps, BlockSteps
<1>8. CASE DeleteBoardRow(r)
  <2>1. Stored'
    BY <1>0, <1>8 DEF DeleteBoardRow, Stored, Now!TypeOK
  <2> QED BY <1>8, <2>1, GoesTyped DEF DeleteBoardRow, At, Steps, BlockSteps
<1>9. CASE RecordChildren(r)
  <2> DEFINE S == Now!Children(Scope(r))
             f == [b \in S |-> Entry(blocks[b], TRUE)]
  <2>1. S \in SUBSET Blocks /\ \A b \in S : f[b] \in Entries
    BY <1>0, ChildrenTyped, StoredTyped, EntryTyped
  <2>2. history' = [b \in Blocks |-> IF b \in S THEN Append(history[b], f[b]) ELSE history[b]]
    BY <1>9 DEF RecordChildren
  <2> HIDE DEF S, f
  <2>3. Stored'
    BY <1>0, <1>9, <2>1, <2>2, RecordAllTyped DEF RecordChildren
  <2> QED BY <1>9, <2>3, GoesTyped DEF RecordChildren, At, Steps, BlockSteps
<1>10. CASE DeleteChildrenFiles(r)
  <2>1. CASE SoftDeleteFiles(r, "deleteChildren")
    BY <1>10, <2>1, SoftDeleteTyped DEF DeleteChildrenFiles, At, Steps, BlockSteps
  <2>2. CASE Goto(r, "deleteChildren") /\ UNCHANGED tables
    BY <1>0, <1>10, <2>2, TablesStay, GoesTyped DEF DeleteChildrenFiles, At, Steps, BlockSteps
  <2> QED BY <1>10, <2>1, <2>2 DEF DeleteChildrenFiles
<1>11. CASE DeleteChildren(r)
  <2>1. Stored'
    BY <1>0, <1>11, TakeTyped DEF DeleteChildren
  <2> QED BY <1>11, <2>1, EndsTyped DEF DeleteChildren
<1> QED BY <1>2, <1>3, <1>4, <1>5, <1>6, <1>7, <1>8, <1>9, <1>10, <1>11

\* undeleteBlock, undeleteBoard and undeleteBlockChildren.
LEMMA GreatestExists ==
    ASSUME NEW n \in Nat, NEW G \in SUBSET (1..n), G # {}
    PROVE  \E i \in G : \A j \in G : j <= i
<1> DEFINE T == {n - i : i \in G}
<1>1. T \subseteq Nat /\ T # {}
  <2>1. \A i \in G : n - i \in Nat
    OBVIOUS
  <2> QED BY <2>1
<1>2. PICK x \in T : \A y \in T : ~ (<<y, x>> \in OpToRel(<, Nat))
  BY <1>1, NatLessThanWellFounded, WFMin
<1>3. \A y \in T : ~(y < x)
  BY <1>1, <1>2 DEF OpToRel
<1>4. PICK i \in G : x = n - i
  OBVIOUS
<1>5. \A j \in G : j <= i
  BY <1>3, <1>4
<1> QED BY <1>5

\* The entry a restoration takes is the last of those its query groups.
LEMMA LastGroupedIsLast ==
    ASSUME Stored, NEW b \in Blocks, NEW scope, Grouped(b, scope) # {}
    PROVE  /\ LastGrouped(b, scope) \in Grouped(b, scope)
           /\ \A j \in Grouped(b, scope) : j <= LastGrouped(b, scope)
           /\ LastGrouped(b, scope) \in 1..Len(history[b])
           /\ history[b][LastGrouped(b, scope)] \in Entries
<1>1. history[b] \in Seq(Entries) /\ Len(history[b]) \in Nat
  BY StoredTyped
<1>2. Grouped(b, scope) \in SUBSET (1..Len(history[b]))
  BY DEF Grouped
<1>3. \E i \in Grouped(b, scope) : \A j \in Grouped(b, scope) : j <= i
  BY <1>1, <1>2, GreatestExists
<1>4. /\ LastGrouped(b, scope) \in Grouped(b, scope)
      /\ \A j \in Grouped(b, scope) : j <= LastGrouped(b, scope)
  BY <1>3 DEF LastGrouped
<1> QED BY <1>1, <1>2, <1>4

LEMMA RestoredTyped ==
    ASSUME Stored, NEW scope
    PROVE  /\ Restorable(scope) \in SUBSET Blocks
           /\ \A b \in Restorable(scope) : Restored(b, scope) \in Rows
<1>1. ASSUME NEW b \in Restorable(scope) PROVE Restored(b, scope) \in Rows
  <2>1. b \in Blocks /\ Grouped(b, scope) # {}
    BY DEF Restorable
  <2>2. history[b][LastGrouped(b, scope)] \in Entries
    BY <2>1, LastGroupedIsLast
  <2> QED BY <2>2, RowTyped DEF Restored
<1> QED BY <1>1 DEF Restorable

LEMMA LatestTyped ==
    ASSUME Stored, NEW b \in Blocks, Now!Deleted(b)
    PROVE  RowOf(Now!Latest(b)) \in Rows
<1>1. history[b] \in Seq(Entries) /\ history[b] # <<>>
  BY StoredTyped DEF Now!Deleted
<1>2. history[b][Len(history[b])] \in Entries
  BY <1>1
<1> QED BY <1>2, RowTyped DEF Now!Latest

LEMMA RestoreStepsTyped ==
    ASSUME TInv, NEW r \in Requests,
           \/ ReadHistory(r) \/ RecordLive(r) \/ RestoreRow(r)
           \/ ReadBoardHistory(r) \/ RecordBoardLive(r) \/ RestoreBoardRow(r)
           \/ RestoreChildren(r) \/ RecordRestored(r)
    PROVE  TInv'
<1>0. Stored
  BY DEF TInv
<1>1. /\ req[r] \in Asked /\ req[r].row \in Rows
      /\ pc[r] \in BlockSteps => req[r].op \in BlockOps /\ req[r].todo # <<>> /\ Block(r) \in Blocks
  BY RequestTyped DEF Placed
<1>2. CASE ReadHistory(r)
  <2>1. Stored' /\ pc[r] = "readHistory" /\ Block(r) \in Blocks
    BY <1>0, <1>1, <1>2, TablesStay DEF ReadHistory, At, BlockSteps
  <2>2. CASE Finish(r)
    BY <2>1, <2>2, EndsTyped
  <2>3. CASE ~Finish(r)
    <3> DEFINE q == [req[r] EXCEPT !.row = RowOf(Now!Latest(Block(r)))]
    <3>1. /\ req' = [req EXCEPT ![r] = q] /\ pc' = [pc EXCEPT ![r] = "recordLive"]
          /\ UNCHANGED <<saved, served, faults>>
          /\ Now!Deleted(Block(r))
      BY <1>2, <2>3 DEF ReadHistory
    <3>2. RowOf(Now!Latest(Block(r))) \in Rows
      BY <1>0, <2>1, <3>1, LatestTyped
    <3>3. q \in Asked /\ q.op = req[r].op /\ q.todo = req[r].todo
      BY <1>1, <3>2 DEF Asked
    <3>4. req[r].op \in Ops
      BY <2>1, RequestTyped DEF Placed
    <3> HIDE DEF q
    <3> QED BY <1>1, <2>1, <3>1, <3>3, <3>4, ReadsTyped DEF Steps, BlockSteps
  <2> QED BY <2>2, <2>3
<1>3. CASE RecordLive(r)
  <2>1. pc[r] \in BlockSteps /\ pc[r] # "idle"
    BY <1>3 DEF RecordLive, At, BlockSteps
  <2>2. Stored'
    BY <1>0, <1>1, <1>3, <2>1, RecordTyped DEF RecordLive
  <2> QED BY <1>1, <1>3, <2>1, <2>2, GoesTyped DEF RecordLive, Steps
<1>4. CASE RestoreRow(r)
  <2>0. pc[r] \in BlockSteps /\ pc[r] # "idle"
    BY <1>4 DEF RestoreRow, At, BlockSteps
  <2>1. CASE Fail(r)
    BY <2>1, FailTyped
  <2>2. CASE ~Fail(r)
    <3> DEFINE T == DOMAIN blocks \cup {Block(r)}
               f == [b \in {Block(r)} |-> req[r].row]
    <3>1. /\ blocks' = [b \in T |-> IF b \in {Block(r)} THEN f[b] ELSE blocks[b]]
          /\ Goto(r, "restoreChildren")
          /\ UNCHANGED <<history, live, boardDeleted>>
      BY <1>4, <2>2 DEF RestoreRow
    <3>2. T \in SUBSET Blocks /\ T \subseteq DOMAIN blocks \cup {Block(r)}
          /\ \A b \in {Block(r)} : f[b] \in Rows
      BY <1>0, <1>1, <2>0, StoredTyped
    <3> HIDE DEF T, f
    <3>3. Stored'
      BY <1>0, <1>1, <2>0, <3>1, <3>2, PutTyped
    <3> QED BY <1>0, <1>1, <2>0, <3>1, <3>3, GoesTyped DEF Steps
  <2> QED BY <2>1, <2>2
<1>5. CASE ReadBoardHistory(r)
  <2>1. Stored'
    BY <1>0, <1>5, TablesStay DEF ReadBoardHistory
  <2>2. CASE Finish(r)
    BY <2>1, <2>2, EndsTyped
  <2>3. CASE Goto(r, "recordBoardLive")
    BY <1>5, <2>1, <2>3, GoesTyped DEF ReadBoardHistory, At, Steps, BlockSteps
  <2> QED BY <1>5, <2>2, <2>3 DEF ReadBoardHistory
<1>6. CASE RecordBoardLive(r)
  <2>1. Stored'
    BY <1>0, <1>6 DEF RecordBoardLive, Stored, Now!TypeOK
  <2> QED BY <1>6, <2>1, GoesTyped DEF RecordBoardLive, At, Steps, BlockSteps
<1>7. CASE RestoreBoardRow(r)
  <2>1. CASE Fail(r)
    BY <2>1, FailTyped
  <2>2. CASE ~Fail(r)
    <3>1. Stored'
      BY <1>0, <1>7, <2>2 DEF RestoreBoardRow, Stored, Now!TypeOK
    <3> QED BY <1>7, <2>2, <3>1, GoesTyped DEF RestoreBoardRow, At, Steps, BlockSteps
  <2> QED BY <2>1, <2>2
<1>8. CASE RestoreChildren(r)
  <2>1. CASE Fail(r)
    BY <2>1, FailTyped
  <2>2. CASE ~Fail(r)
    <3> DEFINE S == Restorable(Scope(r))
               T == DOMAIN blocks \cup S
               f == [b \in S |-> Restored(b, Scope(r))]
    <3>1. /\ blocks' = [b \in T |-> IF b \in S THEN f[b] ELSE blocks[b]]
          /\ Goto(r, "recordRestored")
          /\ UNCHANGED <<history, live, boardDeleted>>
      BY <1>8, <2>2 DEF RestoreChildren
    <3>2. S \in SUBSET Blocks /\ T \in SUBSET Blocks /\ T \subseteq DOMAIN blocks \cup S
          /\ \A b \in S : f[b] \in Rows
      BY <1>0, StoredTyped, RestoredTyped
    <3> HIDE DEF S, T, f
    <3>3. Stored'
      BY <1>0, <3>1, <3>2, PutTyped
    <3> QED BY <1>8, <3>1, <3>3, GoesTyped DEF RestoreChildren, At, Steps, BlockSteps
  <2> QED BY <2>1, <2>2
<1>9. CASE RecordRestored(r)
  <2> DEFINE S == Restorable(Scope(r))
             f == [b \in S |-> Entry(Restored(b, Scope(r)), FALSE)]
  <2>1. S \in SUBSET Blocks /\ \A b \in S : f[b] \in Entries
    BY <1>0, RestoredTyped, EntryTyped
  <2>2. history' = [b \in Blocks |-> IF b \in S THEN Append(history[b], f[b]) ELSE history[b]]
    BY <1>9 DEF RecordRestored
  <2> HIDE DEF S, f
  <2>3. Stored'
    BY <1>0, <1>9, <2>1, <2>2, RecordAllTyped DEF RecordRestored
  <2> QED BY <1>9, <2>3, EndsTyped DEF RecordRestored
<1> QED BY <1>2, <1>3, <1>4, <1>5, <1>6, <1>7, <1>8, <1>9

LEMMA TInvInductive == TInv /\ [Next]_vars => TInv'
<1> SUFFICES ASSUME TInv, [Next]_vars PROVE TInv'
  OBVIOUS
<1>0. Stored /\ SavedTyped /\ Controlled
  BY DEF TInv
<1>1. ASSUME NEW r \in Requests, Request(r) PROVE TInv'
  <2>1. CASE StatementFails(r)
    <3>1. Stored'
      BY <1>0, <2>1, RollbackTyped DEF StatementFails
    <3>2. req' \in [Requests -> Asked] /\ pc' \in [Requests -> Steps]
      BY <1>0, <2>1, IdleTyped DEF StatementFails, Controlled, Steps
    <3>3. ASSUME NEW q \in Requests PROVE Placed(q)'
      BY <1>0, <2>1 DEF StatementFails, Controlled, Placed, Idle, BlockOps, BlockSteps
    <3>4. Controlled'
      BY <1>0, <2>1, <3>2, <3>3 DEF StatementFails, Controlled
    <3> QED BY <2>1, <3>1, <3>4, TInvFrom DEF StatementFails, Kept
  <2> QED BY <1>1, <2>1, ArriveTyped, CheckTyped, PatchStepsTyped, DeleteStepsTyped,
             RestoreStepsTyped DEF Request
<1>2. CASE Crash
  <2>1. Stored'
    BY <1>0, <1>2, RollbackTyped DEF Crash
  <2>2. req' \in [Requests -> Asked] /\ pc' \in [Requests -> Steps]
    BY <1>2, IdleTyped DEF Crash, Steps
  <2>3. ASSUME NEW q \in Requests PROVE Placed(q)'
    BY <1>2 DEF Crash, Placed, Idle, BlockOps, BlockSteps
  <2>4. Controlled'
    BY <1>0, <1>2, <2>2, <2>3 DEF Crash, Controlled
  <2> QED BY <1>2, <2>1, <2>4, TInvFrom DEF Crash, Kept
<1>3. CASE UNCHANGED vars
  BY <1>0, <1>3 DEF vars, tables, TInv, Stored, SavedTyped, Controlled, Placed, Now!TypeOK,
                    Atomic!TypeOK
<1> QED BY <1>1, <1>2, <1>3 DEF Next

\* The tables, what was saved of them and the requests keep their types,
\* with transactions and without, for any number of requests.
THEOREM TypeCorrect == Spec => []TypeOK
BY TInvInitially, TInvInductive, TInvIsTyped, PTL DEF Spec

-----------------------------------------------------------------------------
(* With transactions: what the tables are while a request is under way,    *)
(* told by what they were when the last one ended.                         *)

Past == INSTANCE AtomicBlockStore_proof WITH
    blocks <- saved.blocks, history <- saved.history, live <- saved.live

Put(B, S, f) == [b \in DOMAIN B \cup S |-> IF b \in S THEN f[b] ELSE B[b]]
Without(B, S) == [b \in DOMAIN B \ S |-> B[b]]
Noted(H, S, f, d) == [b \in Blocks |-> IF b \in S THEN Append(H[b], Entry(f[b], d)) ELSE H[b]]

Last(h) == h[Len(h)]
Gone(H) == {b \in Blocks : H[b] # <<>> /\ Last(H[b]).deleted}
GoneUnder(H, scope) == {b \in Gone(H) : InScope(Last(H[b]), scope)}
Returning(H) == [b \in Gone(H) |-> RowOf(Last(H[b]))]
Under(B, scope) == {b \in DOMAIN B : InScope(B[b], scope)}
Patching(B, patch) == [b \in DOMAIN B |-> Patched(B[b], patch)]

Distinct(todo) == \A i, j \in 1..Len(todo) : todo[i] = todo[j] => i = j
FilesGo(S) == HasFileInfo \/ S \cap Files = {}

BoardIs(l, d) == live = l /\ boardDeleted = d
Clean(s) == blocks = s.blocks /\ history = s.history /\ BoardIs(s.live, s.boardDeleted)

Inserting(p, q, s) ==
    LET b == Head(q.todo) IN
    /\ q.op = "insert" /\ s.live /\ BoardIs(s.live, s.boardDeleted)
    /\ Distinct(q.todo)
    /\ \A i \in 1..Len(q.todo) : s.history[q.todo[i]] = <<>>
    /\ history = s.history
    /\ \/ p = "exists" /\ blocks = s.blocks
       \/ p = "writeRow" /\ blocks = s.blocks /\ ~q.existed
       \/ p = "writeHistory" /\ blocks = Put(s.blocks, {b}, [c \in {b} |-> q.row])

PatchingAll(p, q, s) ==
    LET b == Head(q.todo)
        f == Patching(s.blocks, q.patch)
    IN
    /\ q.op \in {"patch", "patchBatch"} /\ s.live /\ BoardIs(s.live, s.boardDeleted)
    /\ Distinct(q.todo)
    /\ \A i \in 1..Len(q.todo) : q.todo[i] \in DOMAIN s.blocks
    /\ \E D \in SUBSET DOMAIN s.blocks :
          /\ \A i \in 1..Len(q.todo) : q.todo[i] \notin D
          /\ history = Noted(s.history, D, f, FALSE)
          /\ \/ p = "read" /\ blocks = Put(s.blocks, D, f)
             \/ p = "exists" /\ blocks = Put(s.blocks, D, f) /\ q.row = f[b]
             \/ p = "writeRow" /\ blocks = Put(s.blocks, D, f) /\ q.row = f[b] /\ q.existed
             \/ p = "writeHistory" /\ blocks = Put(s.blocks, D \cup {b}, f) /\ q.row = f[b]

Deleting(p, q, s) ==
    LET b == Head(q.todo)
        C == Under(Without(s.blocks, {b}), b)
    IN
    /\ q.op = "delete" /\ s.live /\ BoardIs(s.live, s.boardDeleted)
    /\ \/ p = "readDoomed" /\ Clean(s)
       \/ /\ b \in DOMAIN s.blocks
          /\ \/ p = "recordDelete" /\ Clean(s) /\ q.row = s.blocks[b]
             \/ /\ history = Noted(s.history, {b}, s.blocks, TRUE)
                /\ \/ p = "deleteFile" /\ blocks = s.blocks
                   \/ p = "deleteRow" /\ blocks = s.blocks /\ FilesGo({b})
                   \/ p = "recordChildren" /\ blocks = Without(s.blocks, {b}) /\ FilesGo({b})
             \/ /\ history = Noted(s.history, {b} \cup C, s.blocks, TRUE)
                /\ blocks = Without(s.blocks, {b})
                /\ \/ p = "deleteChildrenFiles" /\ FilesGo({b})
                   \/ p = "deleteChildren" /\ FilesGo({b} \cup C)

DeletingBoard(p, q, s) ==
    /\ q.op = "deleteBoard" /\ q.todo = <<>>
    /\ \/ p = "readBoard" /\ Clean(s)
       \/ /\ s.live /\ blocks = s.blocks
          /\ \/ p = "recordBoardDelete" /\ Clean(s)
             \/ p = "deleteBoardRow" /\ history = s.history /\ BoardIs(TRUE, TRUE)
             \/ p = "recordChildren" /\ history = s.history /\ BoardIs(FALSE, TRUE)
             \/ /\ history = Noted(s.history, DOMAIN s.blocks, s.blocks, TRUE)
                /\ BoardIs(FALSE, TRUE)
                /\ \/ p = "deleteChildrenFiles"
                   \/ p = "deleteChildren" /\ FilesGo(DOMAIN s.blocks)

Undeleting(p, q, s) ==
    LET b == Head(q.todo)
        f == Returning(s.history)
    IN
    /\ q.op = "undelete" /\ s.live /\ BoardIs(s.live, s.boardDeleted)
    /\ \/ p = "readHistory" /\ Clean(s)
       \/ /\ b \in Gone(s.history)
          /\ \/ p = "recordLive" /\ Clean(s) /\ q.row = f[b]
             \/ /\ history = Noted(s.history, {b}, f, FALSE)
                /\ q.row = f[b]
                /\ \/ p = "restoreRow" /\ blocks = s.blocks
                   \/ p = "restoreChildren" /\ blocks = Put(s.blocks, {b}, f)
                   \/ /\ p = "recordRestored"
                      /\ blocks = Put(s.blocks, {b} \cup GoneUnder(s.history, b), f)

UndeletingBoard(p, q, s) ==
    /\ q.op = "undeleteBoard" /\ q.todo = <<>> /\ history = s.history
    /\ \/ p = "readBoardHistory" /\ Clean(s)
       \/ /\ ~s.live
          /\ \/ p = "recordBoardLive" /\ Clean(s)
             \/ p = "restoreBoardRow" /\ blocks = s.blocks /\ BoardIs(FALSE, FALSE)
             \/ p = "restoreChildren" /\ blocks = s.blocks /\ BoardIs(TRUE, FALSE)
             \/ /\ p = "recordRestored" /\ BoardIs(TRUE, FALSE)
                /\ blocks = Put(s.blocks, Gone(s.history), Returning(s.history))

Arrived(p, q, s) ==
    /\ p = "check" /\ Clean(s) /\ Distinct(q.todo)
    /\ q.op = "insert" => \A i \in 1..Len(q.todo) : s.history[q.todo[i]] = <<>>
    /\ q.op \in {"deleteBoard", "undeleteBoard"} => q.todo = <<>>

UnderWay(p, q, s) ==
    \/ p = "idle" /\ Clean(s)
    \/ Arrived(p, q, s)
    \/ Inserting(p, q, s) \/ PatchingAll(p, q, s)
    \/ Deleting(p, q, s) \/ DeletingBoard(p, q, s)
    \/ Undeleting(p, q, s) \/ UndeletingBoard(p, q, s)

\* What holds of the tables when no request is under way.
Committed == Past!Inv /\ Past!DeletionsUndone /\ saved.boardDeleted = ~saved.live

SInv == TInv /\ Committed /\ \A r \in Requests : UnderWay(pc[r], req[r], saved)

LEMMA CommittedFacts ==
    ASSUME Committed
    PROVE  /\ DOMAIN saved.blocks \subseteq Blocks
           /\ \A b \in DOMAIN saved.blocks : saved.blocks[b] \in Rows
           /\ \A b \in Blocks : saved.history[b] \in Seq(Entries) /\ Past!Undone(saved.history[b])
           /\ saved.history = [b \in Blocks |-> saved.history[b]]
           /\ saved.blocks = [b \in DOMAIN saved.blocks |-> saved.blocks[b]]
           /\ \A b \in Blocks : b \in DOMAIN saved.blocks <=>
                                    saved.history[b] # <<>> /\ ~Last(saved.history[b]).deleted
           /\ \A b \in DOMAIN saved.blocks : RowOf(Last(saved.history[b])) = saved.blocks[b]
           /\ ~saved.live => DOMAIN saved.blocks = {}
           /\ saved.boardDeleted = ~saved.live
BY DEF Committed, Past!Inv, Past!TypeOK, Past!HistoryMatchesTable, Past!NoBlocksWithoutBoard,
       Past!DeletionsUndone, Past!Latest, Past!RowOf, RowOf, Last, Past!Rows, Rows, Past!Parents,
       Parents, Past!Entries, Entries

LEMMA SavedFields ==
    ASSUME saved' = Tables'
    PROVE  /\ saved'.blocks = blocks' /\ saved'.history = history'
           /\ saved'.live = live' /\ saved'.boardDeleted = boardDeleted'
BY DEF Tables

LEMMA CleanAfter ==
    ASSUME saved' = Tables'
    PROVE  Clean(saved)'
BY SavedFields DEF Clean, BoardIs

\* A step of the atomic store, or none.
Outcome == [Atomic!Next]_(Atomic!vars) /\ (saved.boardDeleted = ~saved.live)'

LEMMA Stutter ==
    ASSUME Committed, saved' = saved
    PROVE  Outcome
BY CommittedFacts DEF Outcome, Atomic!vars

LEMMA WrittenRows ==
    ASSUME saved' = Tables', NEW S, NEW f, NEW g, \A b \in S : f[b] = g[b],
           blocks' = Put(saved.blocks, S, f), history' = Noted(saved.history, S, f, FALSE)
    PROVE  Atomic!Write(S, g)
<1>1. saved'.blocks = blocks' /\ saved'.history = history'
  BY SavedFields
<1>2. blocks' = [b \in DOMAIN saved.blocks \cup S |-> IF b \in S THEN g[b] ELSE saved.blocks[b]]
  BY DEF Put
<1>3. history' = [b \in Blocks |-> IF b \in S THEN Append(saved.history[b], Entry(g[b], FALSE))
                                   ELSE saved.history[b]]
  BY DEF Noted
<1> QED BY <1>1, <1>2, <1>3 DEF Atomic!Write, Atomic!Entry, Entry

LEMMA RemovedRows ==
    ASSUME saved' = Tables', NEW S,
           blocks' = Without(saved.blocks, S),
           history' = Noted(saved.history, S, saved.blocks, TRUE)
    PROVE  Atomic!Remove(S)
<1>1. saved'.blocks = blocks' /\ saved'.history = history'
  BY SavedFields
<1> QED BY <1>1 DEF Without, Noted, Atomic!Remove, Atomic!Entry, Entry

Going(r) == UnderWay(pc[r], req[r], saved)

LEMMA EndedGoing ==
    ASSUME TInv, NEW r \in Requests, Finish(r)
    PROVE  Going(r)' /\ saved' = Tables'
<1>1. pc'[r] = "idle" /\ saved' = Tables'
  BY DEF Finish, TInv, Controlled
<1> QED BY <1>1, CleanAfter DEF Going, UnderWay

LEMMA RolledBack ==
    ASSUME Transactional, Committed, Rollback, saved' = Tables'
    PROVE  Outcome
<1>1. /\ saved'.blocks = saved.blocks /\ saved'.history = saved.history
      /\ saved'.live = saved.live /\ saved'.boardDeleted = saved.boardDeleted
  BY SavedFields DEF Rollback
<1> QED BY <1>1, CommittedFacts DEF Outcome, Atomic!vars

LEMMA FailedGoing ==
    ASSUME Transactional, TInv, Committed, NEW r \in Requests, Fail(r)
    PROVE  Going(r)' /\ Outcome
BY EndedGoing, RolledBack DEF Fail

LEMMA GotoGoing ==
    ASSUME TInv, NEW r \in Requests, NEW step, Goto(r, step)
    PROVE  pc'[r] = step /\ req'[r] = req[r] /\ saved' = saved
BY DEF Goto, TInv, Controlled

LEMMA TodoFacts ==
    ASSUME NEW todo \in Seq(Blocks), todo # <<>>
    PROVE  /\ Len(todo) \in Nat \ {0}
           /\ Head(todo) = todo[1] /\ Head(todo) \in Blocks
           /\ \A i \in 1..Len(todo) : todo[i] \in Blocks
           /\ Tail(todo) \in Seq(Blocks) /\ Len(Tail(todo)) = Len(todo) - 1
           /\ \A i \in 1..Len(Tail(todo)) : Tail(todo)[i] = todo[i + 1] /\ i + 1 \in 1..Len(todo)
OBVIOUS

\* What is left of distinct blocks does not hold the first, and is distinct.
LEMMA RestIsDistinct ==
    ASSUME NEW todo \in Seq(Blocks), todo # <<>>, Distinct(todo)
    PROVE  /\ Distinct(Tail(todo))
           /\ \A i \in 1..Len(Tail(todo)) :
                 Tail(todo)[i] # Head(todo) /\ \E j \in 1..Len(todo) : Tail(todo)[i] = todo[j]
<1>1. /\ Len(todo) \in Nat \ {0} /\ Head(todo) = todo[1] /\ Len(Tail(todo)) = Len(todo) - 1
      /\ \A i \in 1..Len(Tail(todo)) : Tail(todo)[i] = todo[i + 1] /\ i + 1 \in 1..Len(todo)
  BY TodoFacts
<1>2. Distinct(Tail(todo))
  BY <1>1 DEF Distinct
<1>3. ASSUME NEW i \in 1..Len(Tail(todo))
      PROVE  Tail(todo)[i] # Head(todo) /\ \E j \in 1..Len(todo) : Tail(todo)[i] = todo[j]
  <2>1. Tail(todo)[i] = todo[i + 1] /\ i + 1 \in 1..Len(todo) /\ i + 1 # 1
    BY <1>1
  <2>2. todo[i + 1] # todo[1]
    BY <1>1, <2>1 DEF Distinct
  <2> QED BY <1>1, <2>1, <2>2
<1> QED BY <1>2, <1>3

\* insertBlocks: each block is inserted completely or not at all.
LEMMA InsertGoing ==
    ASSUME Transactional, TInv, Committed, NEW r \in Requests, Inserting(pc[r], req[r], saved),
           Exists(r) \/ WriteRow(r) \/ WriteHistory(r)
    PROVE  Going(r)' /\ Outcome
<1> DEFINE b == Block(r)
<1>0. /\ req[r] \in Asked /\ req[r].todo \in Seq(Blocks) /\ req[r].todo # <<>> /\ b \in Blocks
      /\ req[r].row \in Rows
  BY RequestTyped DEF Exists, WriteRow, WriteHistory, At, BlockSteps
<1>1. /\ req[r].op = "insert" /\ saved.live /\ live = saved.live
      /\ boardDeleted = saved.boardDeleted
      /\ Distinct(req[r].todo) /\ history = saved.history
      /\ \A i \in 1..Len(req[r].todo) : saved.history[req[r].todo[i]] = <<>>
      /\ b = Head(req[r].todo)
  BY DEF Inserting, BoardIs, Block
<1>2. saved.history[b] = <<>> /\ b \notin DOMAIN saved.blocks
  <2> HIDE DEF b
  <2>1. 1 \in 1..Len(req[r].todo) /\ b = req[r].todo[1]
    BY <1>0, <1>1, TodoFacts
  <2>2. saved.history[b] = <<>>
    BY <1>1, <2>1
  <2> QED BY <1>0, <2>2, CommittedFacts
<1>3. CASE Exists(r)
  <2> DEFINE q == [req[r] EXCEPT !.existed = FALSE]
  <2>1. blocks = saved.blocks
    BY <1>3 DEF Inserting, Exists, At
  <2>2. /\ pc'[r] = "writeRow" /\ req'[r] = q /\ saved' = saved
        /\ UNCHANGED <<blocks, history, live, boardDeleted>>
    <3>1. (b \in DOMAIN blocks) = FALSE
      BY <1>2, <2>1
    <3>2. req' = [req EXCEPT ![r].existed = b \in DOMAIN blocks]
      BY <1>3 DEF Exists
    <3>3. req' = [req EXCEPT ![r].existed = FALSE]
      BY <3>1, <3>2, Zenon
    <3>4. req'[r] = q
      BY <3>3 DEF TInv, Controlled
    <3> QED BY <1>3, <3>4 DEF Exists, tables, TInv, Controlled
  <2>3. q.op = req[r].op /\ q.todo = req[r].todo /\ q.existed = FALSE
    BY <1>0 DEF Asked
  <2> HIDE DEF q
  <2>4. Inserting(pc[r], req[r], saved)'
    BY <1>1, <2>1, <2>2, <2>3 DEF Inserting, BoardIs
  <2> QED BY <2>2, <2>4, Stutter DEF Going, UnderWay
<1>4. CASE WriteRow(r)
  <2>1. blocks = saved.blocks /\ req[r].existed = FALSE
    BY <1>4, <1>0 DEF Inserting, WriteRow, At, Asked
  <2>2. /\ Goto(r, "writeHistory") /\ UNCHANGED <<history, live, boardDeleted>>
        /\ blocks' = [c \in DOMAIN blocks \cup {b} |-> IF c = b THEN req[r].row ELSE blocks[c]]
    BY <1>2, <1>4, <2>1 DEF WriteRow
  <2>3. blocks' = Put(saved.blocks, {b}, [c \in {b} |-> req[r].row])
    BY <2>1, <2>2 DEF Put
  <2>4. pc'[r] = "writeHistory" /\ req'[r] = req[r] /\ saved' = saved
    BY <2>2, GotoGoing
  <2>5. blocks' = Put(saved.blocks, {Head(req[r].todo)}, [c \in {Head(req[r].todo)} |-> req[r].row])
    BY <2>3 DEF Block
  <2>6. Inserting(pc[r], req[r], saved)'
    BY <1>1, <2>2, <2>5, <2>4 DEF Inserting, BoardIs
  <2> QED BY <2>4, <2>6, Stutter DEF Going, UnderWay
<1>5. CASE WriteHistory(r)
  <2> DEFINE f == [c \in {b} |-> req[r].row]
  <2>1. blocks = Put(saved.blocks, {b}, f)
    BY <1>1, <1>5 DEF Inserting, WriteHistory, At
  <2>2. /\ UNCHANGED <<blocks, live, boardDeleted>>
        /\ history' = [history EXCEPT ![b] = Append(@, Entry(req[r].row, FALSE))]
    BY <1>5, SMTT(40) DEF WriteHistory, Record
  <2>3. history' = Noted(saved.history, {b}, f, FALSE)
    BY <1>0, <1>1, <2>2, CommittedFacts DEF Noted
  <2>4. saved' = Tables'
    BY <1>1, <1>5 DEF WriteHistory, Finish, NextBlock
  <2>5. Outcome
    <3>1. Atomic!Write({b}, f)
      BY <2>1, <2>2, <2>3, <2>4, WrittenRows
    <3>2. saved'.live = saved.live /\ saved'.boardDeleted = saved.boardDeleted
      BY <1>1, <2>2, <2>4, SavedFields
    <3>3. Atomic!InsertBlock(b, req[r].row)
      BY <1>1, <1>2, <3>1, <3>2 DEF Atomic!InsertBlock
    <3>4. Atomic!Next
      BY <1>0, <3>3, SameRows DEF Atomic!Next
    <3> QED BY <3>2, <3>4, CommittedFacts DEF Outcome
  <2>6. CASE Finish(r)
    BY <2>5, <2>6, EndedGoing
  <2>7. CASE NextBlock(r)
    <3> DEFINE q == [req[r] EXCEPT !.todo = Tail(@)]
    <3>1. pc'[r] = "exists" /\ req'[r] = q
      BY <1>1, <2>7 DEF NextBlock, TInv, Controlled
    <3>2. q.op = "insert" /\ q.todo = Tail(req[r].todo)
      BY <1>0, <1>1 DEF Asked
    <3> HIDE DEF q
    <3>3. /\ Distinct(q.todo)
          /\ \A i \in 1..Len(q.todo) : q.todo[i] # b /\ \E j \in 1..Len(req[r].todo) :
                                                            q.todo[i] = req[r].todo[j]
      BY <1>0, <1>1, <3>2, RestIsDistinct
    <3>4. \A c \in Blocks : c # b => history'[c] = saved.history[c]
      BY <2>3 DEF Noted
    <3>5. /\ saved'.blocks = blocks' /\ saved'.history = history'
          /\ saved'.live = live' /\ saved'.boardDeleted = boardDeleted'
      BY <2>4, SavedFields
    <3>6. \A i \in 1..Len(q.todo) : saved'.history[q.todo[i]] = <<>>
      <4> SUFFICES ASSUME NEW i \in 1..Len(q.todo) PROVE saved'.history[q.todo[i]] = <<>>
        OBVIOUS
      <4>1. PICK j \in 1..Len(req[r].todo) : q.todo[i] = req[r].todo[j]
        BY <3>3
      <4>2. req[r].todo[j] \in Blocks
        BY <1>0, <4>1, TodoFacts
      <4>3. q.todo[i] # b /\ q.todo[i] \in Blocks /\ saved.history[q.todo[i]] = <<>>
        BY <1>1, <3>3, <4>1, <4>2
      <4> QED BY <3>4, <3>5, <4>3
    <3>7. Inserting(pc[r], req[r], saved)'
      <4>1. /\ req'[r].op = "insert" /\ saved'.live
            /\ live' = saved'.live /\ boardDeleted' = saved'.boardDeleted
            /\ history' = saved'.history /\ blocks' = saved'.blocks
        BY <1>1, <2>2, <3>1, <3>2, <3>5
      <4>2. /\ Distinct(req'[r].todo)
            /\ \A i \in 1..Len(req'[r].todo) : saved'.history[req'[r].todo[i]] = <<>>
        BY <3>1, <3>3, <3>6
      <4> QED BY <3>1, <4>1, <4>2 DEF Inserting, BoardIs
    <3> QED BY <2>5, <3>7 DEF Going, UnderWay
  <2> QED BY <1>5, <2>6, <2>7 DEF WriteHistory
<1> QED BY <1>3, <1>4, <1>5

LEMMA PutMore ==
    ASSUME NEW B, NEW D \in SUBSET DOMAIN B, NEW b \in DOMAIN B, NEW f
    PROVE  [c \in DOMAIN Put(B, D, f) |-> IF c = b THEN f[b] ELSE Put(B, D, f)[c]]
           = Put(B, D \cup {b}, f)
BY DEF Put

\* patchBlocks: all the blocks are patched or none.
LEMMA PatchGoing ==
    ASSUME Transactional, TInv, Committed, NEW r \in Requests, PatchingAll(pc[r], req[r], saved),
           Read(r) \/ Exists(r) \/ WriteRow(r) \/ WriteHistory(r)
    PROVE  Going(r)' /\ Outcome
<1> DEFINE b == Block(r)
           f == Patching(saved.blocks, req[r].patch)
<1>0. /\ req[r] \in Asked /\ req[r].todo \in Seq(Blocks) /\ req[r].todo # <<>> /\ b \in Blocks
      /\ req[r].row \in Rows /\ req[r].patch \in Patches
  BY RequestTyped DEF Read, Exists, WriteRow, WriteHistory, At, BlockSteps
<1>1. /\ req[r].op \in {"patch", "patchBatch"} /\ saved.live /\ live = saved.live
      /\ boardDeleted = saved.boardDeleted
      /\ Distinct(req[r].todo)
      /\ \A i \in 1..Len(req[r].todo) : req[r].todo[i] \in DOMAIN saved.blocks
      /\ b = Head(req[r].todo)
  BY DEF PatchingAll, BoardIs, Block
<1>2. PICK D \in SUBSET DOMAIN saved.blocks :
         /\ \A i \in 1..Len(req[r].todo) : req[r].todo[i] \notin D
         /\ history = Noted(saved.history, D, f, FALSE)
         /\ \/ pc[r] = "read" /\ blocks = Put(saved.blocks, D, f)
            \/ pc[r] = "exists" /\ blocks = Put(saved.blocks, D, f) /\ req[r].row = f[b]
            \/ /\ pc[r] = "writeRow" /\ blocks = Put(saved.blocks, D, f) /\ req[r].row = f[b]
               /\ req[r].existed
            \/ pc[r] = "writeHistory" /\ blocks = Put(saved.blocks, D \cup {b}, f) /\ req[r].row = f[b]
  BY DEF PatchingAll, Block
<1>3. b \in DOMAIN saved.blocks /\ b \notin D
  BY <1>0, <1>1, <1>2, TodoFacts
<1>4. f[b] = Patched(saved.blocks[b], req[r].patch)
  BY <1>3 DEF Patching
\* The invariant in the next state, the request and its next step given.
<1>5. ASSUME NEW q \in Asked, NEW E \in SUBSET DOMAIN saved.blocks,
             req'[r] = q, saved' = saved, q.op = req[r].op, q.patch = req[r].patch,
             UNCHANGED <<live, boardDeleted>>,
             Distinct(q.todo),
             \A i \in 1..Len(q.todo) : q.todo[i] \in DOMAIN saved.blocks /\ q.todo[i] \notin E,
             history' = Noted(saved.history, E, f, FALSE),
             \/ pc'[r] = "read" /\ blocks' = Put(saved.blocks, E, f)
             \/ pc'[r] = "exists" /\ blocks' = Put(saved.blocks, E, f) /\ q.row = f[Head(q.todo)]
             \/ /\ pc'[r] = "writeRow" /\ blocks' = Put(saved.blocks, E, f)
                /\ q.row = f[Head(q.todo)] /\ q.existed
             \/ /\ pc'[r] = "writeHistory" /\ blocks' = Put(saved.blocks, E \cup {Head(q.todo)}, f)
                /\ q.row = f[Head(q.todo)]
      PROVE  Going(r)' /\ Outcome
  <2>1. Patching(saved'.blocks, req'[r].patch) = f
    BY <1>5, SMTT(40)
  <2> HIDE DEF f
  <2>2. PatchingAll(pc[r], req[r], saved)'
    BY <1>1, <1>5, <2>1 DEF PatchingAll, BoardIs
  <2> QED BY <1>5, <2>2, Stutter DEF Going, UnderWay
<1> HIDE DEF f
<1>6. CASE Read(r)
  <2> DEFINE q == [req[r] EXCEPT !.row = f[b]]
  <2>1. blocks = Put(saved.blocks, D, f)
    BY <1>2, <1>6 DEF Read, At
  <2>2. b \in DOMAIN blocks /\ blocks[b] = saved.blocks[b]
    BY <1>3, <2>1 DEF Put
  <2>3. /\ pc'[r] = "exists" /\ req'[r] = q /\ saved' = saved
        /\ UNCHANGED <<blocks, history, live, boardDeleted>>
    BY <1>4, <1>6, <2>2 DEF Read, tables, TInv, Controlled
  <2>4. /\ q \in Asked /\ q.op = req[r].op /\ q.todo = req[r].todo /\ q.patch = req[r].patch
        /\ q.row = f[b]
    <3>1. f[b] \in Rows
      BY <1>0, <1>3, <1>4, CommittedFacts, PatchTyped
    <3> QED BY <1>0, <3>1 DEF Asked
  <2> HIDE DEF q
  <2> QED BY <1>1, <1>2, <1>5, <2>1, <2>3, <2>4
<1>7. CASE Exists(r)
  <2> DEFINE q == [req[r] EXCEPT !.existed = TRUE]
  <2>1. blocks = Put(saved.blocks, D, f) /\ req[r].row = f[b]
    BY <1>2, <1>7 DEF Exists, At
  <2>2. (b \in DOMAIN blocks) = TRUE
    BY <1>3, <2>1 DEF Put
  <2>3. req' = [req EXCEPT ![r].existed = b \in DOMAIN blocks]
    BY <1>7 DEF Exists
  <2>4. req' = [req EXCEPT ![r].existed = TRUE]
    BY <2>2, <2>3, Zenon
  <2>5. req'[r] = q
    BY <2>4 DEF TInv, Controlled
  <2>6. /\ pc'[r] = "writeRow" /\ saved' = saved
        /\ UNCHANGED <<blocks, history, live, boardDeleted>>
    BY <1>7 DEF Exists, tables, TInv, Controlled
  <2>7. q.patch = req[r].patch /\ q.row = req[r].row /\ q.existed = TRUE
    BY <1>0 DEF Asked
  <2>8. q \in Asked /\ q.op = req[r].op /\ q.todo = req[r].todo
    BY <1>0, ExistedTyped
  <2> HIDE DEF q
  <2> QED BY <1>1, <1>2, <1>5, <2>1, <2>5, <2>6, <2>7, <2>8
<1>8. CASE WriteRow(r)
  <2>1. blocks = Put(saved.blocks, D, f) /\ req[r].row = f[b] /\ req[r].existed
    BY <1>2, <1>8 DEF WriteRow, At
  <2>2. /\ Goto(r, "writeHistory") /\ UNCHANGED <<history, live, boardDeleted>>
        /\ blocks' = [c \in DOMAIN blocks |-> IF c = b THEN f[b] ELSE blocks[c]]
    <3>1. DOMAIN blocks \cup {} = DOMAIN blocks
      OBVIOUS
    <3> QED BY <1>8, <2>1, <3>1 DEF WriteRow
  <2>3. blocks' = Put(saved.blocks, D \cup {b}, f)
    BY <1>3, <2>1, <2>2, PutMore
  <2>4. pc'[r] = "writeHistory" /\ req'[r] = req[r] /\ saved' = saved
    BY <2>2, GotoGoing
  <2> QED BY <1>0, <1>1, <1>2, <1>5, <2>1, <2>2, <2>3, <2>4
<1>9. CASE WriteHistory(r)
  <2> DEFINE E == D \cup {b}
  <2>1. blocks = Put(saved.blocks, E, f) /\ req[r].row = f[b]
    BY <1>2, <1>9 DEF WriteHistory, At
  <2>2. /\ UNCHANGED <<blocks, live, boardDeleted>>
        /\ history' = [history EXCEPT ![b] = Append(@, Entry(f[b], FALSE))]
    BY <1>9, <2>1 DEF WriteHistory, Record
  <2>3. history' = Noted(saved.history, E, f, FALSE)
    <3>1. [Noted(saved.history, D, f, FALSE) EXCEPT ![b] = Append(@, Entry(f[b], FALSE))]
          = Noted(saved.history, E, f, FALSE)
      BY <1>0, <1>3 DEF Noted
    <3> QED BY <1>2, <2>2, <3>1
  <2>4. E \in SUBSET DOMAIN saved.blocks /\ E # {}
    BY <1>3
  <2>5. CASE Finish(r)
    <3>1. Going(r)' /\ saved' = Tables'
      BY <2>5, EndedGoing
    <3> DEFINE g == [c \in E |-> Atomic!Patched(saved.blocks[c], req[r].patch)]
    <3>2. \A c \in E : f[c] = g[c]
      BY <2>4 DEF f, Patching, Patched, Atomic!Patched
    <3>3. Atomic!Write(E, g)
      <4> HIDE DEF E, g
      <4>1. blocks' = Put(saved.blocks, E, f) /\ saved' = Tables'
        BY <2>1, <2>2, <3>1
      <4> QED BY ONLY <2>3, <3>2, <4>1, WrittenRows
    <3>4. saved'.live = saved.live /\ saved'.boardDeleted = saved.boardDeleted
      BY <1>1, <2>2, <3>1, SavedFields
    <3>5. Atomic!PatchBlocks(E, req[r].patch)
      BY <1>1, <2>4, <3>3, <3>4 DEF Atomic!PatchBlocks
    <3>6. Atomic!Next
      <4>1. E \in SUBSET Blocks
        BY <2>4, CommittedFacts, SMTT(40)
      <4> QED BY <1>0, <3>5, <4>1, SameRows DEF Atomic!Next
    <3> QED BY <3>1, <3>4, <3>6, CommittedFacts DEF Outcome
  <2>6. CASE NextBlock(r) /\ Len(req[r].todo) > 1
    <3> DEFINE q == [req[r] EXCEPT !.todo = Tail(@)]
    <3>1. pc'[r] = "read" /\ req'[r] = q /\ saved' = saved
      BY <1>1, <2>6 DEF NextBlock, TInv, Controlled
    <3>2. Tail(req[r].todo) \in Seq(Blocks)
      BY <1>0
    <3>3. /\ q \in Asked /\ q.op = req[r].op /\ q.patch = req[r].patch
          /\ q.todo = Tail(req[r].todo)
      BY <1>0, <3>2 DEF Asked
    <3> HIDE DEF q
    <3>4. /\ Distinct(q.todo)
          /\ \A i \in 1..Len(q.todo) : q.todo[i] # b /\ \E j \in 1..Len(req[r].todo) :
                                                            q.todo[i] = req[r].todo[j]
      <4>1. /\ Distinct(Tail(req[r].todo))
            /\ \A i \in 1..Len(Tail(req[r].todo)) :
                  /\ Tail(req[r].todo)[i] # b
                  /\ \E j \in 1..Len(req[r].todo) : Tail(req[r].todo)[i] = req[r].todo[j]
        BY <1>0, <1>1, RestIsDistinct
      <4> QED BY <3>3, <4>1
    <3>5. \A i \in 1..Len(q.todo) : q.todo[i] \in DOMAIN saved.blocks /\ q.todo[i] \notin E
      BY <1>1, <1>2, <3>4
    <3> HIDE DEF E
    <3> QED BY <1>1, <1>5, <2>1, <2>2, <2>3, <2>4, <3>1, <3>3, <3>4, <3>5
  <2> QED BY <1>9, <2>5, <2>6 DEF WriteHistory
<1> QED BY <1>6, <1>7, <1>8, <1>9

\* A request that ends before it has written changes nothing.
LEMMA CleanFinish ==
    ASSUME TInv, Committed, NEW r \in Requests, Clean(saved), UNCHANGED tables, Finish(r)
    PROVE  Going(r)' /\ Outcome
<1>1. Going(r)' /\ saved' = Tables'
  BY EndedGoing
<1>2. /\ saved'.blocks = saved.blocks /\ saved'.history = saved.history
      /\ saved'.live = saved.live /\ saved'.boardDeleted = saved.boardDeleted
  BY <1>1, SavedFields DEF Clean, BoardIs, tables
<1> QED BY <1>1, <1>2, CommittedFacts DEF Outcome, Atomic!vars

\* deleteBlock: the block and what is under it go together.
LEMMA DeleteGoing ==
    ASSUME Transactional, TInv, Committed, NEW r \in Requests, Deleting(pc[r], req[r], saved),
           \/ ReadDoomed(r) \/ RecordDelete(r) \/ DeleteFile(r) \/ DeleteRow(r)
           \/ RecordChildren(r) \/ DeleteChildrenFiles(r) \/ DeleteChildren(r)
    PROVE  Going(r)' /\ Outcome
<1> DEFINE b == Block(r)
           C == Under(Without(saved.blocks, {b}), b)
           H1 == Noted(saved.history, {b}, saved.blocks, TRUE)
           H2 == Noted(saved.history, {b} \cup C, saved.blocks, TRUE)
<1>0. req[r] \in Asked
  BY RequestTyped
<1>1. /\ req[r].op = "delete" /\ saved.live /\ live = saved.live
      /\ boardDeleted = saved.boardDeleted
      /\ b = Head(req[r].todo)
  BY DEF Deleting, BoardIs, Block
<1>2. \/ pc[r] = "readDoomed" /\ Clean(saved)
      \/ /\ b \in DOMAIN saved.blocks
         /\ \/ pc[r] = "recordDelete" /\ Clean(saved) /\ req[r].row = saved.blocks[b]
            \/ /\ history = H1
               /\ \/ pc[r] = "deleteFile" /\ blocks = saved.blocks
                  \/ pc[r] = "deleteRow" /\ blocks = saved.blocks /\ FilesGo({b})
                  \/ pc[r] = "recordChildren" /\ blocks = Without(saved.blocks, {b}) /\ FilesGo({b})
            \/ /\ history = H2
               /\ blocks = Without(saved.blocks, {b})
               /\ \/ pc[r] = "deleteChildrenFiles" /\ FilesGo({b})
                  \/ pc[r] = "deleteChildren" /\ FilesGo({b} \cup C)
  BY DEF Deleting, Block
<1>3. ASSUME NEW step, Goto(r, step), UNCHANGED <<live, boardDeleted>>, b \in DOMAIN saved.blocks,
             \/ /\ history' = H1
                /\ \/ step = "deleteFile" /\ blocks' = saved.blocks
                   \/ step = "deleteRow" /\ blocks' = saved.blocks /\ FilesGo({b})
                   \/ step = "recordChildren" /\ blocks' = Without(saved.blocks, {b}) /\ FilesGo({b})
             \/ /\ history' = H2
                /\ blocks' = Without(saved.blocks, {b})
                /\ \/ step = "deleteChildrenFiles" /\ FilesGo({b})
                   \/ step = "deleteChildren" /\ FilesGo({b} \cup C)
      PROVE  Going(r)' /\ Outcome
  <2>1. pc'[r] = step /\ req'[r] = req[r] /\ saved' = saved
    BY <1>3, GotoGoing
  <2>2. Deleting(pc[r], req[r], saved)'
    BY <1>1, <1>3, <2>1 DEF Deleting, BoardIs
  <2> QED BY <2>1, <2>2, Stutter DEF Going, UnderWay
<1>4. b \in DOMAIN saved.blocks => b \in Blocks
  BY CommittedFacts
<1>5. /\ pc[r] \in {"recordChildren", "deleteChildrenFiles", "deleteChildren"} =>
            Now!Children(Scope(r)) = C
      /\ b \notin C
  <2>1. ASSUME pc[r] \in {"recordChildren", "deleteChildrenFiles", "deleteChildren"}
        PROVE  Now!Children(Scope(r)) = C
    <3>1. Scope(r) = b
      BY <1>1, RequestTyped DEF Scope, Placed, BlockOps
    <3>2. blocks = Without(saved.blocks, {b})
      BY <1>2, <2>1
    <3> QED BY <3>1, <3>2 DEF Now!Children, Under, Now!InScope, InScope
  <2> QED BY <2>1 DEF Under, Without
<1>6. CASE ReadDoomed(r)
  <2>1. Clean(saved) /\ UNCHANGED tables
    BY <1>2, <1>6 DEF ReadDoomed, At
  <2>2. CASE Finish(r)
    BY <2>1, <2>2, CleanFinish
  <2>3. CASE ~Finish(r)
    <3> DEFINE q == [req[r] EXCEPT !.row = blocks[b]]
    <3>1. /\ pc'[r] = "recordDelete" /\ req'[r] = q /\ saved' = saved /\ b \in DOMAIN blocks
      BY <1>6, <2>3 DEF ReadDoomed, TInv, Controlled
    <3>2. q.op = "delete" /\ q.todo = req[r].todo /\ q.row = blocks[b]
      BY <1>0, <1>1 DEF Asked
    <3> HIDE DEF q
    <3>3. blocks = saved.blocks /\ Clean(saved)'
      BY <2>1, <3>1 DEF Clean, BoardIs, tables
    <3>4. Deleting(pc[r], req[r], saved)'
      BY <1>1, <2>1, <3>1, <3>2, <3>3 DEF Deleting, BoardIs, tables
    <3> QED BY <3>1, <3>4, Stutter DEF Going, UnderWay
  <2> QED BY <2>2, <2>3
<1> HIDE DEF C
<1>7. CASE RecordDelete(r)
  <2>1. /\ b \in DOMAIN saved.blocks /\ blocks = saved.blocks /\ history = saved.history
        /\ req[r].row = saved.blocks[b]
    BY <1>2, <1>7 DEF RecordDelete, At, Clean
  <2>2. /\ UNCHANGED <<blocks, live, boardDeleted>>
        /\ history' = [history EXCEPT ![b] = Append(@, Entry(saved.blocks[b], TRUE))]
        /\ Goto(r, IF b \in Files THEN "deleteFile" ELSE "deleteRow")
    BY <1>7, <2>1 DEF RecordDelete, Record
  <2>3. history' = H1
    BY <1>4, <2>1, <2>2, CommittedFacts DEF Noted
  <2>4. b \notin Files => FilesGo({b})
    BY DEF FilesGo
  <2> HIDE DEF H1
  <2> QED BY <1>3, <2>1, <2>2, <2>3, <2>4
<1>8. CASE DeleteFile(r)
  <2>1. b \in DOMAIN saved.blocks /\ history = H1 /\ blocks = saved.blocks
    BY <1>2, <1>8 DEF DeleteFile, At
  <2>2. CASE Fail(r)
    BY <2>2, FailedGoing
  <2>3. CASE HasFileInfo /\ Goto(r, "deleteRow") /\ UNCHANGED tables
    <3>1. FilesGo({b})
      BY <2>3 DEF FilesGo
    <3> HIDE DEF H1
    <3> QED BY <1>3, <2>1, <2>3, <3>1 DEF tables
  <2> QED BY <1>8, <2>2, <2>3 DEF DeleteFile, SoftDeleteFiles
<1>9. CASE DeleteRow(r)
  <2>1. b \in DOMAIN saved.blocks /\ history = H1 /\ blocks = saved.blocks /\ FilesGo({b})
    BY <1>2, <1>9 DEF DeleteRow, At
  <2>2. /\ blocks' = Without(saved.blocks, {b}) /\ Goto(r, "recordChildren")
        /\ UNCHANGED <<history, live, boardDeleted>>
    BY <1>9, <2>1 DEF DeleteRow, Without
  <2> HIDE DEF H1
  <2> QED BY <1>3, <2>1, <2>2
<1>10. CASE RecordChildren(r)
  <2>1. /\ b \in DOMAIN saved.blocks /\ history = H1 /\ blocks = Without(saved.blocks, {b})
        /\ FilesGo({b})
    BY <1>2, <1>10 DEF RecordChildren, At
  <2>2. /\ history' = [c \in Blocks |-> IF c \in C THEN Append(history[c], Entry(blocks[c], TRUE))
                                        ELSE history[c]]
        /\ Goto(r, "deleteChildrenFiles") /\ UNCHANGED <<blocks, live, boardDeleted>>
    BY <1>5, <1>10 DEF RecordChildren, At
  <2>3. \A c \in C : blocks[c] = saved.blocks[c]
    BY <2>1 DEF C, Under, Without
  <2>4. history' = H2
    <3>1. [c \in Blocks |-> IF c \in C THEN Append(H1[c], Entry(blocks[c], TRUE)) ELSE H1[c]] = H2
      BY <1>4, <1>5, <2>1, <2>3 DEF Noted
    <3> QED BY <2>1, <2>2, <3>1
  <2> HIDE DEF H1, H2
  <2> QED BY <1>3, <2>1, <2>2, <2>4
<1>11. CASE DeleteChildrenFiles(r)
  <2>1. /\ b \in DOMAIN saved.blocks /\ history = H2 /\ blocks = Without(saved.blocks, {b})
        /\ FilesGo({b})
    BY <1>2, <1>11 DEF DeleteChildrenFiles, At
  <2>2. CASE Fail(r)
    BY <2>2, FailedGoing
  <2>3. CASE ~Fail(r)
    <3>1. Goto(r, "deleteChildren") /\ UNCHANGED tables /\ (HasFileInfo \/ C \cap Files = {})
      BY <1>5, <1>11, <2>3 DEF DeleteChildrenFiles, SoftDeleteFiles, At
    <3>2. FilesGo({b} \cup C)
      BY <2>1, <3>1 DEF FilesGo
    <3> HIDE DEF H2
    <3> QED BY <1>3, <2>1, <3>1, <3>2 DEF tables
  <2> QED BY <2>2, <2>3
<1>12. CASE DeleteChildren(r)
  <2>1. /\ b \in DOMAIN saved.blocks /\ history = H2 /\ blocks = Without(saved.blocks, {b})
        /\ FilesGo({b} \cup C)
    BY <1>2, <1>12 DEF DeleteChildren, At
  <2>2. /\ blocks' = [c \in DOMAIN blocks \ C |-> blocks[c]]
        /\ UNCHANGED <<history, live, boardDeleted>> /\ Finish(r)
    BY <1>5, <1>12 DEF DeleteChildren, At
  <2>3. blocks' = Without(saved.blocks, {b} \cup C)
    BY <2>1, <2>2 DEF Without
  <2>4. Going(r)' /\ saved' = Tables'
    BY <2>2, EndedGoing
  <2>5. {b} \cup C = {b} \cup Atomic!Children(b)
    BY DEF C, Under, Without, Atomic!Children, Atomic!InScope, InScope
  <2>6. Atomic!Remove({b} \cup C)
    <3>1. history' = H2
      BY <2>1, <2>2
    <3> QED BY <2>3, <2>4, <3>1, RemovedRows
  <2>7. saved'.live = saved.live /\ saved'.boardDeleted = saved.boardDeleted
    BY <1>1, <2>2, <2>4, SavedFields
  <2>8. Atomic!DeleteBlock(b)
    BY <1>1, <2>1, <2>5, <2>6, <2>7 DEF Atomic!DeleteBlock, FilesGo
  <2>9. Atomic!Next
    BY <1>4, <2>1, <2>8 DEF Atomic!Next
  <2> QED BY <2>4, <2>7, <2>9, CommittedFacts DEF Outcome
<1> QED BY <1>6, <1>7, <1>8, <1>9, <1>10, <1>11, <1>12

\* deleteBoard: the board and all its blocks go together.
LEMMA DeleteBoardGoing ==
    ASSUME Transactional, TInv, Committed, NEW r \in Requests, DeletingBoard(pc[r], req[r], saved),
           \/ ReadBoard(r) \/ RecordBoardDelete(r) \/ DeleteBoardRow(r)
           \/ RecordChildren(r) \/ DeleteChildrenFiles(r) \/ DeleteChildren(r)
    PROVE  Going(r)' /\ Outcome
<1> DEFINE S == DOMAIN saved.blocks
           H == Noted(saved.history, S, saved.blocks, TRUE)
<1>1. req[r].op = "deleteBoard" /\ req[r].todo = <<>>
  BY DEF DeletingBoard
<1>2. \/ pc[r] = "readBoard" /\ Clean(saved)
      \/ /\ saved.live /\ blocks = saved.blocks
         /\ \/ pc[r] = "recordBoardDelete" /\ Clean(saved)
            \/ pc[r] = "deleteBoardRow" /\ history = saved.history /\ BoardIs(TRUE, TRUE)
            \/ pc[r] = "recordChildren" /\ history = saved.history /\ BoardIs(FALSE, TRUE)
            \/ /\ history = H /\ BoardIs(FALSE, TRUE)
               /\ \/ pc[r] = "deleteChildrenFiles"
                  \/ pc[r] = "deleteChildren" /\ FilesGo(S)
  BY DEF DeletingBoard
<1>3. ASSUME NEW step, Goto(r, step), saved.live, blocks' = saved.blocks,
             \/ step = "recordBoardDelete" /\ Clean(saved)'
             \/ step = "deleteBoardRow" /\ history' = saved.history /\ BoardIs(TRUE, TRUE)'
             \/ step = "recordChildren" /\ history' = saved.history /\ BoardIs(FALSE, TRUE)'
             \/ /\ history' = H /\ BoardIs(FALSE, TRUE)'
                /\ \/ step = "deleteChildrenFiles"
                   \/ step = "deleteChildren" /\ FilesGo(S)
      PROVE  Going(r)' /\ Outcome
  <2>1. pc'[r] = step /\ req'[r] = req[r] /\ saved' = saved
    BY <1>3, GotoGoing
  <2>2. DeletingBoard(pc[r], req[r], saved)'
    BY <1>1, <1>3, <2>1 DEF DeletingBoard
  <2> QED BY <2>1, <2>2, Stutter DEF Going, UnderWay
<1>4. /\ Scope(r) = Board
      /\ saved.live /\ blocks = saved.blocks => Now!Children(Scope(r)) = S
  BY <1>1 DEF Scope, Now!Children, Now!InScope
<1>5. CASE ReadBoard(r)
  <2>1. Clean(saved)
    BY <1>2, <1>5 DEF ReadBoard, At
  <2>2. CASE Fail(r)
    BY <2>2, FailedGoing
  <2>3. CASE live /\ Goto(r, "recordBoardDelete") /\ UNCHANGED tables
    <3>1. saved' = saved
      BY <2>3, GotoGoing
    <3>2. Clean(saved)' /\ saved.live /\ blocks' = saved.blocks
      BY <2>1, <2>3, <3>1 DEF Clean, BoardIs, tables
    <3> QED BY <1>3, <2>3, <3>2
  <2> QED BY <1>5, <2>2, <2>3 DEF ReadBoard
<1>6. CASE RecordBoardDelete(r)
  <2>1. saved.live /\ blocks = saved.blocks /\ Clean(saved)
    BY <1>2, <1>6 DEF RecordBoardDelete, At
  <2>2. /\ boardDeleted' = TRUE /\ Goto(r, "deleteBoardRow") /\ UNCHANGED <<blocks, history, live>>
    BY <1>6 DEF RecordBoardDelete
  <2>3. live = TRUE
    BY <2>1 DEF Clean, BoardIs, TInv, Stored, Now!TypeOK
  <2>4. BoardIs(TRUE, TRUE)' /\ history' = saved.history /\ blocks' = saved.blocks
    BY <2>1, <2>2, <2>3 DEF Clean, BoardIs
  <2> QED BY <1>3, <2>1, <2>2, <2>4
<1>7. CASE DeleteBoardRow(r)
  <2>1. saved.live /\ blocks = saved.blocks /\ history = saved.history /\ BoardIs(TRUE, TRUE)
    BY <1>2, <1>7 DEF DeleteBoardRow, At
  <2>2. /\ live' = FALSE /\ Goto(r, "recordChildren") /\ UNCHANGED <<blocks, history, boardDeleted>>
    BY <1>7 DEF DeleteBoardRow
  <2>3. BoardIs(FALSE, TRUE)' /\ history' = saved.history /\ blocks' = saved.blocks
    BY <2>1, <2>2 DEF BoardIs
  <2> QED BY <1>3, <2>1, <2>2, <2>3
<1>8. CASE RecordChildren(r)
  <2>1. saved.live /\ blocks = saved.blocks /\ history = saved.history /\ BoardIs(FALSE, TRUE)
    BY <1>2, <1>8 DEF RecordChildren, At
  <2>2. /\ history' = [c \in Blocks |-> IF c \in S THEN Append(saved.history[c], Entry(saved.blocks[c], TRUE))
                                        ELSE saved.history[c]]
        /\ Goto(r, "deleteChildrenFiles") /\ UNCHANGED <<blocks, live, boardDeleted>>
    BY <1>4, <1>8, <2>1 DEF RecordChildren
  <2>3. history' = H /\ BoardIs(FALSE, TRUE)' /\ blocks' = saved.blocks
    BY <2>1, <2>2 DEF Noted, BoardIs
  <2> HIDE DEF H
  <2> QED BY <1>3, <2>1, <2>2, <2>3
<1>9. CASE DeleteChildrenFiles(r)
  <2>1. saved.live /\ blocks = saved.blocks /\ history = H /\ BoardIs(FALSE, TRUE)
    BY <1>2, <1>9 DEF DeleteChildrenFiles, At
  <2>2. CASE Fail(r)
    BY <2>2, FailedGoing
  <2>3. CASE ~Fail(r)
    <3>1. Goto(r, "deleteChildren") /\ UNCHANGED tables /\ (HasFileInfo \/ S \cap Files = {})
      BY <1>4, <1>9, <2>1, <2>3 DEF DeleteChildrenFiles, SoftDeleteFiles
    <3>2. FilesGo(S) /\ BoardIs(FALSE, TRUE)' /\ history' = H /\ blocks' = saved.blocks
      BY <2>1, <3>1 DEF FilesGo, BoardIs, tables
    <3> HIDE DEF H
    <3> QED BY <1>3, <2>1, <3>1, <3>2
  <2> QED BY <2>2, <2>3
<1>10. CASE DeleteChildren(r)
  <2>1. saved.live /\ blocks = saved.blocks /\ history = H /\ BoardIs(FALSE, TRUE) /\ FilesGo(S)
    BY <1>2, <1>10 DEF DeleteChildren, At
  <2>2. /\ blocks' = [c \in S \ S |-> blocks[c]]
        /\ UNCHANGED <<history, live, boardDeleted>> /\ Finish(r)
    BY <1>4, <1>10, <2>1 DEF DeleteChildren
  <2>3. blocks' = Without(saved.blocks, S) /\ history' = H
    BY <2>1, <2>2 DEF Without
  <2>4. Going(r)' /\ saved' = Tables'
    BY <2>2, EndedGoing
  <2>5. Atomic!Remove(DOMAIN saved.blocks)
    BY <2>3, <2>4, RemovedRows
  <2>6. saved'.live = FALSE /\ saved'.boardDeleted = TRUE
    BY <2>1, <2>2, <2>4, SavedFields DEF BoardIs
  <2>7. Atomic!DeleteBoard
    BY <2>1, <2>5, <2>6 DEF Atomic!DeleteBoard, FilesGo
  <2>8. Atomic!Next
    BY <2>7 DEF Atomic!Next
  <2> QED BY <2>4, <2>6, <2>8 DEF Outcome
<1> QED BY <1>5, <1>6, <1>7, <1>8, <1>9, <1>10

\* The query for what to restore groups the entries under one parent: since a
\* deletion is only followed by the row it took, it finds the blocks whose last
\* entry of all is a deletion.
LEMMA RestorableAreGone ==
    ASSUME Stored, \A b \in Blocks : Past!Undone(history[b]), NEW scope
    PROVE  /\ Restorable(scope) = GoneUnder(history, scope)
           /\ \A b \in Restorable(scope) : Restored(b, scope) = RowOf(Last(history[b]))
<1>1. ASSUME NEW b \in Blocks, b \in Restorable(scope)
      PROVE  b \in GoneUnder(history, scope) /\ Restored(b, scope) = RowOf(Last(history[b]))
  <2> DEFINE h == history[b]
             k == LastGrouped(b, scope)
  <2>1. /\ h \in Seq(Entries) /\ Grouped(b, scope) # {} /\ h[k].deleted
        /\ Past!Undone(h)
    BY <1>1, StoredTyped DEF Restorable
  <2>2. /\ k \in Grouped(b, scope) /\ k \in 1..Len(h)
        /\ \A j \in Grouped(b, scope) : j <= k
    BY <2>1, LastGroupedIsLast
  <2>3. Len(h) \in Nat /\ InScope(h[k], scope)
    BY <2>1, <2>2 DEF Grouped
  <2> HIDE DEF h, k
  <2>4. ASSUME k # Len(h) PROVE FALSE
    <3>1. k \in 1..(Len(h) - 1) /\ k + 1 \in 1..Len(h)
      BY <2>2, <2>3, <2>4
    <3>2. Past!RowOf(h[k + 1]) = Past!RowOf(h[k])
      BY <2>1, <3>1 DEF Past!Undone
    <3>3. h[k + 1].parent = h[k].parent
      BY <3>2 DEF Past!RowOf
    <3>4. k + 1 \in Grouped(b, scope)
      BY <2>3, <3>1, <3>3 DEF Grouped, InScope, h
    <3> QED BY <2>2, <2>3, <3>1, <3>4
  <2>5. k = Len(h) /\ h # <<>>
    BY <2>2, <2>4
  <2> QED BY <2>1, <2>3, <2>5 DEF GoneUnder, Gone, Last, Restored, h, k
<1>2. ASSUME NEW b \in GoneUnder(history, scope) PROVE b \in Restorable(scope)
  <2> DEFINE h == history[b]
             k == LastGrouped(b, scope)
  <2>1. /\ b \in Blocks /\ h # <<>> /\ h[Len(h)].deleted /\ InScope(h[Len(h)], scope)
        /\ h \in Seq(Entries)
    BY StoredTyped DEF GoneUnder, Gone, Last
  <2>2. Len(h) \in Nat \ {0}
    BY <2>1
  <2>3. Len(h) \in Grouped(b, scope)
    BY <2>1, <2>2 DEF Grouped
  <2>4. k \in 1..Len(h) /\ \A j \in Grouped(b, scope) : j <= k
    BY <2>1, <2>3, LastGroupedIsLast
  <2> HIDE DEF h, k
  <2>5. k = Len(h)
    BY <2>2, <2>3, <2>4
  <2> QED BY <2>1, <2>3, <2>5 DEF Restorable, h, k
<1>3. Restorable(scope) \subseteq Blocks /\ GoneUnder(history, scope) \subseteq Blocks
  BY DEF Restorable, GoneUnder, Gone
<1> QED BY <1>1, <1>2, <1>3

\* A row that comes back keeps the history so.
LEMMA ReturnKeepsUndone ==
    ASSUME NEW h \in Seq(Entries), Past!Undone(h), h # <<>>
    PROVE  Past!Undone(Append(h, Entry(RowOf(Last(h)), FALSE)))
<1> DEFINE e == Entry(RowOf(Last(h)), FALSE)
           g == Append(h, e)
<1>0. e \in Entries
  <2>1. Last(h) \in Entries
    BY DEF Last
  <2> QED BY <2>1, RowTyped, EntryTyped
<1>1. /\ Len(g) = Len(h) + 1 /\ Len(h) \in Nat
      /\ \A i \in 1..Len(h) : g[i] = h[i]
      /\ g[Len(h) + 1] = e
  <2> HIDE DEF e
  <2> QED BY <1>0
<1>2. ~e.deleted /\ Past!RowOf(e) = Past!RowOf(h[Len(h)])
  BY DEF Entry, RowOf, Past!RowOf, Last
<1> HIDE DEF g, e
<1>3. ASSUME NEW i \in 1..(Len(g) - 1), g[i].deleted
      PROVE  ~g[i + 1].deleted /\ Past!RowOf(g[i + 1]) = Past!RowOf(g[i])
  <2>1. CASE i = Len(h)
    BY <1>1, <1>2, <1>3, <2>1
  <2>2. CASE i # Len(h)
    <3>1. i \in 1..(Len(h) - 1) /\ g[i] = h[i] /\ g[i + 1] = h[i + 1]
      BY <1>1, <1>3, <2>2
    <3> QED BY <1>3, <3>1 DEF Past!Undone
  <2> QED BY <2>1, <2>2
<1> QED BY <1>3 DEF Past!Undone, g, e

\* undeleteBlock: the block comes back with what was last deleted under it.
LEMMA UndeleteGoing ==
    ASSUME Transactional, TInv, Committed, NEW r \in Requests, Undeleting(pc[r], req[r], saved),
           \/ ReadHistory(r) \/ RecordLive(r) \/ RestoreRow(r)
           \/ RestoreChildren(r) \/ RecordRestored(r)
    PROVE  Going(r)' /\ Outcome
<1> DEFINE b == Block(r)
           f == Returning(saved.history)
           H == Noted(saved.history, {b}, f, FALSE)
           G == GoneUnder(saved.history, b)
<1>0. req[r] \in Asked /\ Stored
  BY RequestTyped DEF TInv
<1>1. /\ req[r].op = "undelete" /\ saved.live /\ live = saved.live
      /\ boardDeleted = saved.boardDeleted
      /\ b = Head(req[r].todo)
  BY DEF Undeleting, BoardIs, Block
<1>2. \/ pc[r] = "readHistory" /\ Clean(saved)
      \/ /\ b \in Gone(saved.history)
         /\ \/ pc[r] = "recordLive" /\ Clean(saved) /\ req[r].row = f[b]
            \/ /\ history = H /\ req[r].row = f[b]
               /\ \/ pc[r] = "restoreRow" /\ blocks = saved.blocks
                  \/ pc[r] = "restoreChildren" /\ blocks = Put(saved.blocks, {b}, f)
                  \/ pc[r] = "recordRestored" /\ blocks = Put(saved.blocks, {b} \cup G, f)
  BY DEF Undeleting, Block
<1>3. ASSUME NEW step, Goto(r, step), UNCHANGED <<live, boardDeleted>>,
             b \in Gone(saved.history), history' = H, req[r].row = f[b],
             \/ step = "restoreRow" /\ blocks' = saved.blocks
             \/ step = "restoreChildren" /\ blocks' = Put(saved.blocks, {b}, f)
             \/ step = "recordRestored" /\ blocks' = Put(saved.blocks, {b} \cup G, f)
      PROVE  Going(r)' /\ Outcome
  <2>1. pc'[r] = step /\ req'[r] = req[r] /\ saved' = saved
    BY <1>3, GotoGoing
  <2>2. Undeleting(pc[r], req[r], saved)'
    BY <1>1, <1>3, <2>1 DEF Undeleting, BoardIs
  <2> QED BY <2>1, <2>2, Stutter DEF Going, UnderWay
<1>4. /\ b \in Gone(saved.history) =>
            b \in Blocks /\ saved.history[b] # <<>> /\ f[b] = RowOf(Last(saved.history[b]))
      /\ \A c \in G : c \in Blocks /\ f[c] = RowOf(Last(saved.history[c]))
  BY DEF Gone, GoneUnder, Returning
\* What the query finds once the block's own entry is written.
<1>5. ASSUME b \in Gone(saved.history), history = H
      PROVE  /\ Restorable(Scope(r)) = G \ {b}
             /\ \A c \in G \ {b} : Restored(c, Scope(r)) = f[c] /\ history[c] = saved.history[c]
  <2>1. Scope(r) = b
    BY <1>1, RequestTyped DEF Scope, Placed, BlockOps
  <2>2. history[b] = Append(saved.history[b], Entry(f[b], FALSE))
        /\ \A c \in Blocks \ {b} : history[c] = saved.history[c]
    BY <1>4, <1>5 DEF Noted
  <2>3. \A c \in Blocks : Past!Undone(history[c])
    <3>1. Past!Undone(history[b])
      <4>1. /\ saved.history[b] \in Seq(Entries) /\ Past!Undone(saved.history[b])
            /\ saved.history[b] # <<>>
        BY <1>4, <1>5, CommittedFacts
      <4>2. history[b] = Append(saved.history[b], Entry(RowOf(Last(saved.history[b])), FALSE))
        BY <1>4, <1>5, <2>2
      <4> QED BY <4>1, <4>2, ReturnKeepsUndone
    <3> QED BY <2>2, <3>1, CommittedFacts
  <2>4. b \notin Gone(history)
    <3> DEFINE e == Entry(f[b], FALSE)
    <3>1. e.deleted = FALSE /\ saved.history[b] \in Seq(Entries)
      BY <1>4, <1>5, CommittedFacts DEF Entry
    <3>2. history[b] = Append(saved.history[b], e)
      BY <2>2
    <3> HIDE DEF e
    <3>3. Last(history[b]) = e
      BY <3>1, <3>2 DEF Last
    <3> QED BY <3>1, <3>3 DEF Gone
  <2>5. GoneUnder(history, b) = G \ {b}
    BY <2>2, <2>4 DEF GoneUnder, Gone
  <2>6. /\ Restorable(b) = GoneUnder(history, b)
        /\ \A c \in Restorable(b) : Restored(c, b) = RowOf(Last(history[c]))
    BY <1>0, <2>3, RestorableAreGone
  <2>7. \A c \in G \ {b} : Restored(c, b) = f[c] /\ history[c] = saved.history[c]
    BY <1>4, <2>2, <2>5, <2>6
  <2> QED BY <2>1, <2>5, <2>6, <2>7
<1>6. CASE ReadHistory(r)
  <2>1. Clean(saved) /\ UNCHANGED tables
    BY <1>2, <1>6 DEF ReadHistory, At
  <2>2. CASE Finish(r)
    BY <2>1, <2>2, CleanFinish
  <2>3. CASE ~Finish(r)
    <3> DEFINE row == RowOf(Now!Latest(b))
               q == [req[r] EXCEPT !.row = row]
    <3>1. /\ pc'[r] = "recordLive" /\ req'[r] = q /\ saved' = saved /\ Now!Deleted(b)
      BY <1>6, <2>3 DEF ReadHistory, TInv, Controlled
    <3>2. q.op = "undelete" /\ q.todo = req[r].todo /\ q.row = row
      BY <1>0, <1>1 DEF Asked
    <3>3. b \in Blocks
      BY <1>6, RequestTyped DEF ReadHistory, At, BlockSteps
    <3>4. b \in Gone(saved.history) /\ row = f[b]
      BY <2>1, <3>1, <3>3 DEF Gone, Returning, Last, Clean, Now!Deleted, Now!Latest
    <3> HIDE DEF row, q
    <3>5. Clean(saved)'
      BY <2>1, <3>1 DEF Clean, BoardIs, tables
    <3>6. Undeleting(pc[r], req[r], saved)'
      BY <1>1, <2>1, <3>1, <3>2, <3>4, <3>5 DEF Undeleting, BoardIs, tables
    <3> QED BY <3>1, <3>6, Stutter DEF Going, UnderWay
  <2> QED BY <2>2, <2>3
<1> HIDE DEF f, G
<1>7. CASE RecordLive(r)
  <2>1. /\ b \in Gone(saved.history) /\ blocks = saved.blocks /\ history = saved.history
        /\ req[r].row = f[b]
    BY <1>2, <1>7 DEF RecordLive, At, Clean
  <2>2. /\ UNCHANGED <<blocks, live, boardDeleted>>
        /\ history' = [history EXCEPT ![b] = Append(@, Entry(f[b], FALSE))]
        /\ Goto(r, "restoreRow")
    BY <1>7, <2>1 DEF RecordLive, Record
  <2>3. history' = H
    BY <1>4, <2>1, <2>2, CommittedFacts DEF Noted
  <2> HIDE DEF H
  <2> QED BY <1>3, <2>1, <2>2, <2>3
<1>8. CASE RestoreRow(r)
  <2>1. b \in Gone(saved.history) /\ history = H /\ req[r].row = f[b] /\ blocks = saved.blocks
    BY <1>2, <1>8 DEF RestoreRow, At
  <2>2. CASE Fail(r)
    BY <2>2, FailedGoing
  <2>3. CASE ~Fail(r)
    <3>1. /\ blocks' = [c \in DOMAIN blocks \cup {b} |-> IF c = b THEN req[r].row ELSE blocks[c]]
          /\ Goto(r, "restoreChildren") /\ UNCHANGED <<history, live, boardDeleted>>
      BY <1>8, <2>3 DEF RestoreRow
    <3>2. blocks' = Put(saved.blocks, {b}, f)
      BY <2>1, <3>1 DEF Put
    <3> HIDE DEF H
    <3> QED BY <1>3, <2>1, <3>1, <3>2
  <2> QED BY <2>2, <2>3
<1>9. CASE RestoreChildren(r)
  <2>1. /\ b \in Gone(saved.history) /\ history = H /\ req[r].row = f[b]
        /\ blocks = Put(saved.blocks, {b}, f)
    BY <1>2, <1>9 DEF RestoreChildren, At
  <2>2. CASE Fail(r)
    BY <2>2, FailedGoing
  <2>3. CASE ~Fail(r)
    <3> DEFINE S == G \ {b}
    <3>1. /\ blocks' = [c \in DOMAIN blocks \cup S |-> IF c \in S THEN f[c] ELSE blocks[c]]
          /\ Goto(r, "recordRestored") /\ UNCHANGED <<history, live, boardDeleted>>
      <4>1. /\ Restorable(Scope(r)) = S
            /\ \A c \in S : Restored(c, Scope(r)) = f[c]
        BY <1>5, <2>1
      <4>2. /\ blocks' = [c \in DOMAIN blocks \cup S |->
                            IF c \in S THEN Restored(c, Scope(r)) ELSE blocks[c]]
            /\ Goto(r, "recordRestored") /\ UNCHANGED <<history, live, boardDeleted>>
        BY <1>9, <2>3, <4>1 DEF RestoreChildren
      <4> QED BY <4>1, <4>2
    <3>2. blocks' = Put(saved.blocks, {b} \cup G, f)
      BY <2>1, <3>1 DEF Put
    <3> HIDE DEF H
    <3> QED BY <1>3, <2>1, <3>1, <3>2
  <2> QED BY <2>2, <2>3
<1>10. CASE RecordRestored(r)
  <2> DEFINE S == {b} \cup G
  <2>1. /\ b \in Gone(saved.history) /\ history = H /\ req[r].row = f[b]
        /\ blocks = Put(saved.blocks, S, f)
    BY <1>2, <1>10 DEF RecordRestored, At
  <2>2. /\ history' = [c \in Blocks |-> IF c \in G \ {b} THEN Append(history[c], Entry(f[c], FALSE))
                                        ELSE history[c]]
        /\ UNCHANGED <<blocks, live, boardDeleted>> /\ Finish(r)
    BY <1>5, <1>10, <2>1 DEF RecordRestored
  <2>3. history' = Noted(saved.history, S, f, FALSE)
    BY <1>4, <2>1, <2>2 DEF Noted
  <2>4. Going(r)' /\ saved' = Tables'
    BY <2>2, EndedGoing
  <2> DEFINE g == [c \in S |-> Atomic!RowOf(Atomic!Latest(c))]
  <2>5. \A c \in S : f[c] = g[c]
    BY <1>4, <2>1 DEF Atomic!RowOf, RowOf, Atomic!Latest, Last
  <2>6. S = {b} \cup Atomic!Doomed(b) /\ Atomic!Deleted(b)
    BY <2>1 DEF G, GoneUnder, Gone, Atomic!Doomed, Atomic!Deleted, Atomic!Latest, Last,
                Atomic!InScope, InScope
  <2>7. Atomic!Write(S, g)
    <3> HIDE DEF S, g
    <3>1. blocks' = Put(saved.blocks, S, f)
      BY <2>1, <2>2
    <3> QED BY ONLY <2>3, <2>4, <2>5, <3>1, WrittenRows
  <2>8. saved'.live = saved.live /\ saved'.boardDeleted = saved.boardDeleted
    BY <1>1, <2>2, <2>4, SavedFields
  <2>9. Atomic!UndeleteBlock(b)
    BY <1>1, <2>6, <2>7, <2>8 DEF Atomic!UndeleteBlock
  <2>10. Atomic!Next
    BY <1>4, <2>1, <2>9 DEF Atomic!Next
  <2> QED BY <2>4, <2>8, <2>10, CommittedFacts DEF Outcome
<1> QED BY <1>6, <1>7, <1>8, <1>9, <1>10

\* undeleteBoard: the board comes back with everything ever deleted from it.
LEMMA UndeleteBoardGoing ==
    ASSUME Transactional, TInv, Committed, NEW r \in Requests, UndeletingBoard(pc[r], req[r], saved),
           \/ ReadBoardHistory(r) \/ RecordBoardLive(r) \/ RestoreBoardRow(r)
           \/ RestoreChildren(r) \/ RecordRestored(r)
    PROVE  Going(r)' /\ Outcome
<1> DEFINE f == Returning(saved.history)
           G == Gone(saved.history)
<1>0. Stored
  BY DEF TInv
<1>1. req[r].op = "undeleteBoard" /\ req[r].todo = <<>> /\ history = saved.history
  BY DEF UndeletingBoard
<1>2. \/ pc[r] = "readBoardHistory" /\ Clean(saved)
      \/ /\ ~saved.live
         /\ \/ pc[r] = "recordBoardLive" /\ Clean(saved)
            \/ pc[r] = "restoreBoardRow" /\ blocks = saved.blocks /\ BoardIs(FALSE, FALSE)
            \/ pc[r] = "restoreChildren" /\ blocks = saved.blocks /\ BoardIs(TRUE, FALSE)
            \/ /\ pc[r] = "recordRestored" /\ BoardIs(TRUE, FALSE)
               /\ blocks = Put(saved.blocks, G, f)
  BY DEF UndeletingBoard
<1>3. ASSUME NEW step, Goto(r, step), ~saved.live, history' = saved.history,
             \/ step = "recordBoardLive" /\ Clean(saved)'
             \/ step = "restoreBoardRow" /\ blocks' = saved.blocks /\ BoardIs(FALSE, FALSE)'
             \/ step = "restoreChildren" /\ blocks' = saved.blocks /\ BoardIs(TRUE, FALSE)'
             \/ /\ step = "recordRestored" /\ BoardIs(TRUE, FALSE)'
                /\ blocks' = Put(saved.blocks, G, f)
      PROVE  Going(r)' /\ Outcome
  <2>1. pc'[r] = step /\ req'[r] = req[r] /\ saved' = saved
    BY <1>3, GotoGoing
  <2>2. UndeletingBoard(pc[r], req[r], saved)'
    BY <1>1, <1>3, <2>1 DEF UndeletingBoard
  <2> QED BY <2>1, <2>2, Stutter DEF Going, UnderWay
<1>4. /\ Restorable(Scope(r)) = G
      /\ \A c \in G : c \in Blocks /\ Restored(c, Scope(r)) = f[c]
                      /\ f[c] = RowOf(Last(saved.history[c]))
  <2>1. Scope(r) = Board
    BY <1>1 DEF Scope
  <2>2. \A c \in Blocks : Past!Undone(history[c])
    BY <1>1, CommittedFacts
  <2>3. GoneUnder(history, Board) = G
    BY <1>1 DEF GoneUnder, InScope
  <2>4. /\ Restorable(Board) = G
        /\ \A c \in G : Restored(c, Board) = RowOf(Last(history[c]))
    BY <1>0, <2>2, <2>3, RestorableAreGone
  <2>5. \A c \in G : c \in Blocks /\ f[c] = RowOf(Last(saved.history[c]))
    BY DEF Gone, Returning
  <2> QED BY <1>1, <2>1, <2>4, <2>5
<1>5. CASE ReadBoardHistory(r)
  <2>1. Clean(saved) /\ UNCHANGED tables
    BY <1>2, <1>5 DEF ReadBoardHistory, At
  <2>2. CASE Finish(r)
    BY <2>1, <2>2, CleanFinish
  <2>3. CASE boardDeleted /\ Goto(r, "recordBoardLive")
    <3>1. saved' = saved
      BY <2>3, GotoGoing
    <3>2. Clean(saved)' /\ ~saved.live /\ history' = saved.history
      BY <1>1, <2>1, <2>3, <3>1, CommittedFacts DEF Clean, BoardIs, tables
    <3> QED BY <1>3, <2>3, <3>2
  <2> QED BY <1>5, <2>2, <2>3 DEF ReadBoardHistory
<1> HIDE DEF f, G
<1>6. CASE RecordBoardLive(r)
  <2>1. ~saved.live /\ Clean(saved)
    BY <1>2, <1>6 DEF RecordBoardLive, At
  <2>2. /\ boardDeleted' = FALSE /\ Goto(r, "restoreBoardRow") /\ UNCHANGED <<blocks, history, live>>
    BY <1>6 DEF RecordBoardLive
  <2>3. live = FALSE
    BY <2>1 DEF Clean, BoardIs, TInv, Stored, Now!TypeOK
  <2>4. BoardIs(FALSE, FALSE)' /\ history' = saved.history /\ blocks' = saved.blocks
    BY <2>1, <2>2, <2>3 DEF Clean, BoardIs
  <2> QED BY <1>3, <2>1, <2>2, <2>4
<1>7. CASE RestoreBoardRow(r)
  <2>1. ~saved.live /\ blocks = saved.blocks /\ BoardIs(FALSE, FALSE)
    BY <1>2, <1>7 DEF RestoreBoardRow, At
  <2>2. /\ live' = TRUE /\ Goto(r, "restoreChildren") /\ UNCHANGED <<blocks, history, boardDeleted>>
    BY <1>7, <2>1 DEF RestoreBoardRow, BoardIs
  <2>3. BoardIs(TRUE, FALSE)' /\ history' = saved.history /\ blocks' = saved.blocks
    BY <1>1, <2>1, <2>2 DEF BoardIs
  <2> QED BY <1>3, <2>1, <2>2, <2>3
<1>8. CASE RestoreChildren(r)
  <2>1. ~saved.live /\ blocks = saved.blocks /\ BoardIs(TRUE, FALSE)
    BY <1>2, <1>8 DEF RestoreChildren, At
  <2>2. CASE Fail(r)
    BY <2>2, FailedGoing
  <2>3. CASE ~Fail(r)
    <3>1. /\ blocks' = [c \in DOMAIN blocks \cup G |-> IF c \in G THEN Restored(c, Scope(r))
                                                       ELSE blocks[c]]
          /\ Goto(r, "recordRestored") /\ UNCHANGED <<history, live, boardDeleted>>
      BY <1>4, <1>8, <2>3 DEF RestoreChildren
    <3>2. blocks' = Put(saved.blocks, G, f)
      BY <1>4, <2>1, <3>1 DEF Put
    <3>3. BoardIs(TRUE, FALSE)' /\ history' = saved.history
      BY <1>1, <2>1, <3>1 DEF BoardIs
    <3> QED BY <1>3, <2>1, <3>1, <3>2, <3>3
  <2> QED BY <2>2, <2>3
<1>9. CASE RecordRestored(r)
  <2>1. ~saved.live /\ BoardIs(TRUE, FALSE) /\ blocks = Put(saved.blocks, G, f)
    BY <1>2, <1>9 DEF RecordRestored, At
  <2>2. /\ history' = [c \in Blocks |-> IF c \in G THEN Append(history[c], Entry(Restored(c, Scope(r)), FALSE))
                                        ELSE history[c]]
        /\ UNCHANGED <<blocks, live, boardDeleted>> /\ Finish(r)
    BY <1>4, <1>9 DEF RecordRestored
  <2>3. history' = Noted(saved.history, G, f, FALSE) /\ blocks' = Put(saved.blocks, G, f)
    BY <1>1, <1>4, <2>1, <2>2 DEF Noted
  <2>4. Going(r)' /\ saved' = Tables'
    BY <2>2, EndedGoing
  <2> DEFINE g == [c \in G |-> Atomic!RowOf(Atomic!Latest(c))]
  <2>5. \A c \in G : f[c] = g[c]
    BY <1>4 DEF Atomic!RowOf, RowOf, Atomic!Latest, Last
  <2>6. G = Atomic!Doomed(Board)
    BY DEF G, Gone, Atomic!Doomed, Atomic!Deleted, Atomic!Latest, Last, Atomic!InScope
  <2>7. Atomic!Write(G, g)
    <3> HIDE DEF g
    <3> QED BY ONLY <2>3, <2>4, <2>5, WrittenRows
  <2>8. saved'.live = TRUE /\ saved'.boardDeleted = FALSE
    BY <2>1, <2>2, <2>4, SavedFields DEF BoardIs
  <2>9. Atomic!UndeleteBoard
    BY <2>1, <2>6, <2>7, <2>8 DEF Atomic!UndeleteBoard
  <2>10. Atomic!Next
    BY <2>9 DEF Atomic!Next
  <2> QED BY <2>4, <2>8, <2>10 DEF Outcome
<1> QED BY <1>5, <1>6, <1>7, <1>8, <1>9

\* A request arrives when the tables are those of the last one.
LEMMA ArriveGoing ==
    ASSUME TInv, Committed, NEW r \in Requests, Going(r), Arrive(r)
    PROVE  Going(r)' /\ Outcome
<1>1. pc[r] = "idle"
  BY DEF Arrive, Begin
<1>2. Clean(saved)
  BY <1>1 DEF Going, UnderWay, Arrived, Inserting, PatchingAll, Deleting, DeletingBoard,
              Undeleting, UndeletingBoard
<1>3. ASSUME NEW op, NEW todo, NEW row, NEW patch, Begin(r, op, todo, row, patch), Distinct(todo),
             op = "insert" => \A i \in 1..Len(todo) : history[todo[i]] = <<>>,
             op \in {"deleteBoard", "undeleteBoard"} => todo = <<>>
      PROVE  Going(r)' /\ Outcome
  <2> DEFINE q == [op |-> op, todo |-> todo, row |-> row, patch |-> patch, existed |-> FALSE]
  <2>1. /\ pc'[r] = "check" /\ req'[r] = q /\ saved' = saved /\ UNCHANGED tables
        /\ q.op = op /\ q.todo = todo
    BY <1>3 DEF Begin, TInv, Controlled
  <2> HIDE DEF q
  <2>2. Clean(saved)' /\ history = saved.history
    BY <1>2, <2>1 DEF Clean, BoardIs, tables
  <2>3. Arrived(pc[r], req[r], saved)'
    BY <1>3, <2>1, <2>2 DEF Arrived
  <2> QED BY <2>1, <2>3, Stutter DEF Going, UnderWay
<1>4. \A b : Distinct(<<b>>)
  BY DEF Distinct
<1>5. Distinct(<<>>)
  BY DEF Distinct
<1>6. ASSUME NEW todo \in Batches, Len(todo) = 2 => todo[1] # todo[2] PROVE Distinct(todo)
  <2>1. CASE \E b \in Blocks : todo = <<b>>
    BY <1>4, <2>1
  <2>2. CASE \E b, c \in Blocks : todo = <<b, c>>
    <3>1. Len(todo) = 2
      BY <2>2
    <3> QED BY <1>6, <3>1 DEF Distinct
  <2> QED BY <2>1, <2>2 DEF Batches
<1>7. ASSUME NEW todo \in Batches, NEW row \in NewRows,
             \A i \in 1..Len(todo) : Unused(todo[i]), Len(todo) = 2 => todo[1] # todo[2],
             Begin(r, "insert", todo, row, NoPatch)
      PROVE  Going(r)' /\ Outcome
  BY <1>3, <1>6, <1>7 DEF Unused
<1>8. ASSUME NEW b \in Blocks, NEW patch \in SomePatches, Begin(r, "patch", <<b>>, NoRow, patch)
      PROVE  Going(r)' /\ Outcome
  BY <1>3, <1>4, <1>8
<1>9. ASSUME NEW todo \in Batches, NEW patch \in SomePatches, Len(todo) = 2 /\ todo[1] # todo[2],
             Begin(r, "patchBatch", todo, NoRow, patch)
      PROVE  Going(r)' /\ Outcome
  BY <1>3, <1>6, <1>9
<1>10. ASSUME NEW b \in Blocks, NEW op \in {"delete", "undelete"},
              Begin(r, op, <<b>>, NoRow, NoPatch)
       PROVE  Going(r)' /\ Outcome
  BY <1>3, <1>4, <1>10
<1>11. ASSUME NEW op \in {"deleteBoard", "undeleteBoard"}, Begin(r, op, <<>>, NoRow, NoPatch)
       PROVE  Going(r)' /\ Outcome
  BY <1>3, <1>5, <1>11
<1> QED BY <1>7, <1>8, <1>9, <1>10, <1>11 DEF Arrive

\* Each operation starts from the tables of the last request, on a board and
\* blocks that are there.
LEMMA CheckGoing ==
    ASSUME TInv, Committed, NEW r \in Requests, Going(r), Check(r)
    PROVE  Going(r)' /\ Outcome
<1>1. pc[r] = "check" /\ UNCHANGED tables
  BY DEF Check, At
<1>2. Arrived(pc[r], req[r], saved)
  BY <1>1 DEF Going, UnderWay, Inserting, PatchingAll, Deleting, DeletingBoard, Undeleting,
              UndeletingBoard
<1>3. /\ Clean(saved) /\ Distinct(req[r].todo)
      /\ req[r].op = "insert" => \A i \in 1..Len(req[r].todo) : saved.history[req[r].todo[i]] = <<>>
      /\ req[r].op \in {"deleteBoard", "undeleteBoard"} => req[r].todo = <<>>
  BY <1>2 DEF Arrived
<1>4. CASE Finish(r)
  BY <1>1, <1>3, <1>4, CleanFinish
<1>5. CASE Accepted(req[r]) /\ Goto(r, FirstStep(req[r].op))
  <2>1. pc'[r] = FirstStep(req[r].op) /\ req'[r] = req[r] /\ saved' = saved
    BY <1>5, GotoGoing
  <2>2. req[r].op \in Ops /\ (req[r].op \in BlockOps => req[r].todo # <<>>) /\ req[r].todo \in Seq(Blocks)
    BY <1>1, RequestTyped DEF Placed
  <2>3. /\ blocks' = saved.blocks /\ history' = saved.history /\ live' = saved.live
        /\ boardDeleted' = saved.boardDeleted /\ blocks = saved.blocks /\ live = saved.live
    BY <1>1, <1>3 DEF Clean, BoardIs, tables
  <2>4. BoardIs(saved.live, saved.boardDeleted)' /\ Clean(saved)'
    BY <2>1, <2>3 DEF Clean, BoardIs
  <2>5. CASE req[r].op = "insert"
    <3>1. pc'[r] = "exists" /\ saved.live
      BY <1>5, <2>1, <2>3, <2>5 DEF FirstStep, Accepted
    <3>2. Inserting(pc[r], req[r], saved)'
      BY <1>3, <2>1, <2>3, <2>4, <2>5, <3>1 DEF Inserting
    <3> QED BY <2>1, <3>2, Stutter DEF Going, UnderWay
  <2>6. CASE req[r].op \in {"patch", "patchBatch"}
    <3>1. pc'[r] = "read" /\ \A i \in 1..Len(req[r].todo) : req[r].todo[i] \in DOMAIN saved.blocks
      BY <1>5, <2>1, <2>3, <2>6 DEF FirstStep, Accepted
    <3>2. saved.live
      <4>1. Len(req[r].todo) \in Nat \ {0}
        BY <2>2, <2>6, TodoFacts DEF BlockOps
      <4>2. req[r].todo[1] \in DOMAIN saved.blocks
        BY <3>1, <4>1
      <4> QED BY <4>2, CommittedFacts
    <3> DEFINE f == Patching(saved.blocks, req[r].patch)
    <3>3. Noted(saved.history, {}, f, FALSE) = saved.history /\ Put(saved.blocks, {}, f) = saved.blocks
      BY CommittedFacts DEF Noted, Put
    <3>4. Patching(saved'.blocks, req'[r].patch) = f
      BY <2>1
    <3> HIDE DEF f
    <3>5. PatchingAll(pc[r], req[r], saved)'
      <4>1. {} \in SUBSET DOMAIN saved'.blocks /\ \A i \in 1..Len(req'[r].todo) : req'[r].todo[i] \notin {}
        OBVIOUS
      <4>2. history' = Noted(saved'.history, {}, f, FALSE) /\ blocks' = Put(saved'.blocks, {}, f)
        BY <2>1, <2>3, <3>3
      <4> QED BY <1>3, <2>1, <2>4, <2>6, <3>1, <3>2, <3>4, <4>1, <4>2 DEF PatchingAll
    <3> QED BY <2>1, <3>5, Stutter DEF Going, UnderWay
  <2>7. CASE req[r].op = "delete"
    <3>1. pc'[r] = "readDoomed" /\ saved.live
      BY <1>5, <2>1, <2>3, <2>7 DEF FirstStep, Accepted
    <3>2. Deleting(pc[r], req[r], saved)'
      BY <2>1, <2>4, <2>7, <3>1 DEF Deleting
    <3> QED BY <2>1, <3>2, Stutter DEF Going, UnderWay
  <2>8. CASE req[r].op = "undelete"
    <3>1. pc'[r] = "readHistory" /\ saved.live
      BY <1>5, <2>1, <2>3, <2>8 DEF FirstStep, Accepted
    <3>2. Undeleting(pc[r], req[r], saved)'
      BY <2>1, <2>4, <2>8, <3>1 DEF Undeleting
    <3> QED BY <2>1, <3>2, Stutter DEF Going, UnderWay
  <2>9. CASE req[r].op = "deleteBoard"
    <3>1. pc'[r] = "readBoard"
      BY <2>1, <2>9 DEF FirstStep
    <3>2. DeletingBoard(pc[r], req[r], saved)'
      BY <1>3, <2>1, <2>4, <2>9, <3>1 DEF DeletingBoard
    <3> QED BY <2>1, <3>2, Stutter DEF Going, UnderWay
  <2>10. CASE req[r].op = "undeleteBoard"
    <3>1. pc'[r] = "readBoardHistory"
      BY <2>1, <2>10 DEF FirstStep
    <3>2. UndeletingBoard(pc[r], req[r], saved)'
      BY <1>3, <2>1, <2>3, <2>4, <2>10, <3>1 DEF UndeletingBoard
    <3> QED BY <2>1, <3>2, Stutter DEF Going, UnderWay
  <2> QED BY <2>2, <2>5, <2>6, <2>7, <2>8, <2>9, <2>10 DEF Ops
<1> QED BY <1>4, <1>5 DEF Check

LEMMA StepGoing ==
    ASSUME Transactional, TInv, Committed, NEW r \in Requests, Going(r), Request(r)
    PROVE  Going(r)' /\ Outcome
<1>1. CASE Arrive(r)
  BY <1>1, ArriveGoing
<1>2. CASE Check(r)
  BY <1>2, CheckGoing
<1>3. CASE StatementFails(r)
  <2>1. pc'[r] = "idle" /\ Rollback /\ saved' = Tables'
    BY <1>3 DEF StatementFails, TInv, Controlled
  <2> QED BY <2>1, RolledBack, CleanAfter DEF Going, UnderWay
<1>4. CASE Read(r) \/ Exists(r) \/ WriteRow(r) \/ WriteHistory(r)
  <2>1. pc[r] \in {"read", "exists", "writeRow", "writeHistory"}
    BY <1>4 DEF Read, Exists, WriteRow, WriteHistory, At
  <2>2. Inserting(pc[r], req[r], saved) \/ PatchingAll(pc[r], req[r], saved)
    BY <2>1 DEF Going, UnderWay, Arrived, Deleting, DeletingBoard, Undeleting, UndeletingBoard
  <2>3. CASE PatchingAll(pc[r], req[r], saved)
    BY <1>4, <2>3, PatchGoing
  <2>4. CASE Inserting(pc[r], req[r], saved)
    <3>1. ~Read(r)
      BY <2>4 DEF Inserting, Read, At
    <3> QED BY <1>4, <2>4, <3>1, InsertGoing
  <2> QED BY <2>2, <2>3, <2>4
<1>5. CASE \/ ReadDoomed(r) \/ RecordDelete(r) \/ DeleteFile(r) \/ DeleteRow(r)
           \/ ReadBoard(r) \/ RecordBoardDelete(r) \/ DeleteBoardRow(r)
           \/ RecordChildren(r) \/ DeleteChildrenFiles(r) \/ DeleteChildren(r)
  <2>1. pc[r] \in {"readDoomed", "recordDelete", "deleteFile", "deleteRow", "readBoard",
                   "recordBoardDelete", "deleteBoardRow", "recordChildren",
                   "deleteChildrenFiles", "deleteChildren"}
    BY <1>5 DEF ReadDoomed, RecordDelete, DeleteFile, DeleteRow, ReadBoard, RecordBoardDelete,
                DeleteBoardRow, RecordChildren, DeleteChildrenFiles, DeleteChildren, At
  <2>2. Deleting(pc[r], req[r], saved) \/ DeletingBoard(pc[r], req[r], saved)
    BY <2>1 DEF Going, UnderWay, Arrived, Inserting, PatchingAll, Undeleting, UndeletingBoard
  <2>3. CASE Deleting(pc[r], req[r], saved)
    <3>1. ~ReadBoard(r) /\ ~RecordBoardDelete(r) /\ ~DeleteBoardRow(r)
      BY <2>3 DEF Deleting, ReadBoard, RecordBoardDelete, DeleteBoardRow, At
    <3> QED BY <1>5, <2>3, <3>1, DeleteGoing
  <2>4. CASE DeletingBoard(pc[r], req[r], saved)
    <3>1. ~ReadDoomed(r) /\ ~RecordDelete(r) /\ ~DeleteFile(r) /\ ~DeleteRow(r)
      BY <2>4 DEF DeletingBoard, ReadDoomed, RecordDelete, DeleteFile, DeleteRow, At
    <3> QED BY <1>5, <2>4, <3>1, DeleteBoardGoing
  <2> QED BY <2>2, <2>3, <2>4
<1>6. CASE \/ ReadHistory(r) \/ RecordLive(r) \/ RestoreRow(r)
           \/ ReadBoardHistory(r) \/ RecordBoardLive(r) \/ RestoreBoardRow(r)
           \/ RestoreChildren(r) \/ RecordRestored(r)
  <2>1. pc[r] \in {"readHistory", "recordLive", "restoreRow", "readBoardHistory",
                   "recordBoardLive", "restoreBoardRow", "restoreChildren", "recordRestored"}
    BY <1>6 DEF ReadHistory, RecordLive, RestoreRow, ReadBoardHistory, RecordBoardLive,
                RestoreBoardRow, RestoreChildren, RecordRestored, At
  <2>2. Undeleting(pc[r], req[r], saved) \/ UndeletingBoard(pc[r], req[r], saved)
    BY <2>1 DEF Going, UnderWay, Arrived, Inserting, PatchingAll, Deleting, DeletingBoard
  <2>3. CASE Undeleting(pc[r], req[r], saved)
    <3>1. ~ReadBoardHistory(r) /\ ~RecordBoardLive(r) /\ ~RestoreBoardRow(r)
      BY <2>3 DEF Undeleting, ReadBoardHistory, RecordBoardLive, RestoreBoardRow, At
    <3> QED BY <1>6, <2>3, <3>1, UndeleteGoing
  <2>4. CASE UndeletingBoard(pc[r], req[r], saved)
    <3>1. ~ReadHistory(r) /\ ~RecordLive(r) /\ ~RestoreRow(r)
      BY <2>4 DEF UndeletingBoard, ReadHistory, RecordLive, RestoreRow, At
    <3> QED BY <1>6, <2>4, <3>1, UndeleteBoardGoing
  <2> QED BY <2>2, <2>3, <2>4
<1> QED BY <1>1, <1>2, <1>3, <1>4, <1>5, <1>6 DEF Request

-----------------------------------------------------------------------------
(* The atomic store's own proofs, of the saved tables.                     *)

LEMMA SameStep == [Atomic!Next]_(Atomic!vars) => [Past!Next]_(Past!vars)
<1> USE DEF Atomic!Parents, Past!Parents, Atomic!Rows, Past!Rows, Atomic!Patches, Past!Patches,
            Atomic!Entry, Past!Entry, Atomic!RowOf, Past!RowOf, Atomic!Patched, Past!Patched,
            Atomic!InScope, Past!InScope, Atomic!Latest, Past!Latest, Atomic!Deleted, Past!Deleted,
            Atomic!Children, Past!Children, Atomic!Doomed, Past!Doomed, Atomic!Write, Past!Write,
            Atomic!Remove, Past!Remove, Atomic!vars, Past!vars
<1>1. \A b \in Blocks : Atomic!DeleteBlock(b) => Past!DeleteBlock(b)
  BY DEF Atomic!DeleteBlock, Past!DeleteBlock
<1>2. \A b \in Blocks : Atomic!UndeleteBlock(b) => Past!UndeleteBlock(b)
  BY DEF Atomic!UndeleteBlock, Past!UndeleteBlock
<1>3. \A b \in Blocks, row \in Atomic!Rows : Atomic!InsertBlock(b, row) => Past!InsertBlock(b, row)
  BY DEF Atomic!InsertBlock, Past!InsertBlock
<1>4. \A S \in SUBSET Blocks, patch \in Atomic!Patches :
         Atomic!PatchBlocks(S, patch) => Past!PatchBlocks(S, patch)
  BY DEF Atomic!PatchBlocks, Past!PatchBlocks
<1>5. Atomic!DeleteBoard => Past!DeleteBoard
  <2>1. \A S : Atomic!Remove(S) => Past!Remove(S)
    BY Zenon
  <2> HIDE DEF Atomic!Remove, Past!Remove
  <2> QED BY <2>1 DEF Atomic!DeleteBoard, Past!DeleteBoard
<1>6. Atomic!UndeleteBoard => Past!UndeleteBoard
  BY DEF Atomic!UndeleteBoard, Past!UndeleteBoard
<1> QED BY <1>1, <1>2, <1>3, <1>4, <1>5, <1>6 DEF Atomic!Next, Past!Next

LEMMA CommittedKept ==
    ASSUME Committed, Outcome
    PROVE  Committed'
<1> USE KeepAssumption, BoardAssumption, TitlesAssumption, FilesAssumption,
        HasFileInfoAssumption, InitialRowsAssumption
<1> USE DEF Past!Parents, Past!Rows, Parents, Rows
<1>1. [Past!Next]_(Past!vars)
  BY SameStep DEF Outcome
<1>2. Past!Inv'
  BY <1>1, Past!Inductive, Zenon DEF Committed
<1>3. Past!DeletionsUndone'
  BY <1>1, Past!UndoneKept, Zenon DEF Committed
<1> QED BY <1>2, <1>3 DEF Committed, Outcome

LEMMA SavedInitially == Init => Atomic!Init
BY DEF Init, Tables, Now!Init, Atomic!Init, Now!Entry, Atomic!Entry

LEMMA CommittedInitially == Init => Committed
<1> SUFFICES ASSUME Init PROVE Committed
  OBVIOUS
<1> USE KeepAssumption, BoardAssumption, TitlesAssumption, FilesAssumption,
        HasFileInfoAssumption, InitialRowsAssumption
<1> USE DEF Past!Parents, Past!Rows, Parents, Rows
<1>1. Past!Init
  BY SavedInitially DEF Atomic!Init, Past!Init, Atomic!Entry, Past!Entry
<1>2. Past!Inv
  BY <1>1, Past!Initially, Zenon
<1>3. Past!DeletionsUndone
  BY <1>1, Past!UndoneInitially, Zenon
<1>4. saved.boardDeleted = ~saved.live
  BY DEF Init, Tables, Now!Init
<1> QED BY <1>2, <1>3, <1>4 DEF Committed

-----------------------------------------------------------------------------
(* The theorems.                                                           *)

LEMMA SInvInitially == Init => SInv
<1> SUFFICES ASSUME Init, NEW r \in Requests PROVE UnderWay(pc[r], req[r], saved)
  BY TInvInitially, CommittedInitially DEF SInv
<1> QED BY DEF Init, Tables, UnderWay, Clean, BoardIs

LEMMA SInvInductive ==
    ASSUME Transactional
    PROVE  SInv /\ [Next]_vars => SInv' /\ Outcome
<1> SUFFICES ASSUME SInv, [Next]_vars PROVE SInv' /\ Outcome
  OBVIOUS
<1>0. TInv /\ Committed /\ \A r \in Requests : Going(r)
  BY DEF SInv, Going
<1>1. TInv'
  BY <1>0, TInvInductive
<1>2. (\A r \in Requests : Going(r)') /\ Outcome
  <2>1. ASSUME NEW r \in Requests, Request(r) PROVE (\A q \in Requests : Going(q)') /\ Outcome
    <3>1. Going(r)' /\ Outcome
      BY <1>0, <2>1, StepGoing
    <3>2. \A q \in Requests : q = r
      BY OneTransaction
    <3> QED BY <3>1, <3>2
  <2>2. CASE Crash
    <3>1. Rollback /\ saved' = Tables'
      BY <2>2 DEF Crash
    <3>2. ASSUME NEW q \in Requests PROVE Going(q)'
      <4>1. pc'[q] = "idle"
        BY <2>2 DEF Crash
      <4> QED BY <3>1, <4>1, CleanAfter DEF Going, UnderWay
    <3> QED BY <1>0, <3>1, <3>2, RolledBack
  <2>3. CASE UNCHANGED vars
    <3>1. /\ pc' = pc /\ req' = req /\ saved' = saved
          /\ blocks' = blocks /\ history' = history /\ live' = live /\ boardDeleted' = boardDeleted
      BY <2>3 DEF vars, tables
    <3>2. ASSUME NEW q \in Requests PROVE Going(q)'
      <4>1. Clean(saved) => Clean(saved)'
        BY <3>1 DEF Clean, BoardIs
      <4>2. Arrived(pc[q], req[q], saved) => Arrived(pc[q], req[q], saved)'
        BY <3>1, <4>1 DEF Arrived
      <4>3. Inserting(pc[q], req[q], saved) => Inserting(pc[q], req[q], saved)'
        BY <3>1, SMTT(40) DEF Inserting, BoardIs
      <4>4. PatchingAll(pc[q], req[q], saved) => PatchingAll(pc[q], req[q], saved)'
        BY <3>1 DEF PatchingAll, BoardIs
      <4>5. Deleting(pc[q], req[q], saved) => Deleting(pc[q], req[q], saved)'
        BY <3>1, <4>1 DEF Deleting, BoardIs
      <4>6. DeletingBoard(pc[q], req[q], saved) => DeletingBoard(pc[q], req[q], saved)'
        BY <3>1, <4>1 DEF DeletingBoard, BoardIs
      <4>7. Undeleting(pc[q], req[q], saved) => Undeleting(pc[q], req[q], saved)'
        BY <3>1, <4>1 DEF Undeleting, BoardIs
      <4>8. UndeletingBoard(pc[q], req[q], saved) => UndeletingBoard(pc[q], req[q], saved)'
        BY <3>1, <4>1 DEF UndeletingBoard, BoardIs
      <4> QED BY <1>0, <3>1, <4>1, <4>2, <4>3, <4>4, <4>5, <4>6, <4>7, <4>8 DEF Going, UnderWay
    <3> QED BY <1>0, <3>1, <3>2, Stutter
  <2> QED BY <2>1, <2>2, <2>3 DEF Next
<1>3. Committed'
  BY <1>0, <1>2, CommittedKept
<1> QED BY <1>1, <1>2, <1>3 DEF SInv, Going

\* With transactions every request takes effect completely or not at all: the
\* tables as they are whenever one ends follow the atomic store, statement by
\* statement, for any blocks, patches, failures and crashes.
THEOREM TransactionsAreAtomic ==
    ASSUME Transactional
    PROVE  Spec => ImplementsAtomic
<1>1. SInv /\ [Next]_vars => [Atomic!Next]_(Atomic!vars)
  BY SInvInductive DEF Outcome
<1> QED BY <1>1, SInvInitially, SInvInductive, SavedInitially, PTL
        DEF Spec, ImplementsAtomic, AtomicSpec, Atomic!Spec

\* With transactions the history tells the table, of the blocks and of the
\* board, whenever no request is under way.
THEOREM HistoryTellsTables ==
    ASSUME Transactional
    PROVE  Spec => []HistoryMatchesTable
<1>1. SInv => HistoryMatchesTable
  <2> SUFFICES ASSUME SInv PROVE HistoryMatchesTable
    OBVIOUS
  <2>1. Atomic!HistoryMatchesTable
    BY CommittedFacts DEF SInv, Atomic!HistoryMatchesTable, Atomic!Latest, Last, Atomic!RowOf, RowOf
  <2>2. saved.boardDeleted = ~saved.live
    BY CommittedFacts DEF SInv
  <2> QED BY <2>1, <2>2, TInvIsTyped DEF SInv, HistoryMatchesTable
<1> QED BY <1>1, SInvInitially, SInvInductive, PTL DEF Spec

\* With transactions a deleted board has no block left, whatever was done to it.
THEOREM BoardTakesItsBlocks ==
    ASSUME Transactional
    PROVE  Spec => []NoBlocksWithoutBoard
<1>1. SInv => NoBlocksWithoutBoard
  BY CommittedFacts DEF SInv, NoBlocksWithoutBoard, Atomic!NoBlocksWithoutBoard
<1> QED BY <1>1, SInvInitially, SInvInductive, PTL DEF Spec

-----------------------------------------------------------------------------
(* What a deletion and an undo do to the tables.                           *)

LEMMA RemovalLeavesRows ==
    ASSUME Committed, NEW S \in SUBSET DOMAIN saved.blocks, Atomic!Remove(S), NEW b \in Blocks
    PROVE  LeavesItsRow(b) /\ ComesBackWhole(b)
<1>1. /\ DOMAIN saved'.blocks = DOMAIN saved.blocks \ S
      /\ b \in S => saved'.history[b] = Append(saved.history[b], Entry(saved.blocks[b], TRUE))
  BY DEF Atomic!Remove, Atomic!Entry, Entry
<1>2. b \notin DOMAIN saved'.blocks \ DOMAIN saved.blocks
  BY <1>1
<1>3. ASSUME b \in DOMAIN saved.blocks \ DOMAIN saved'.blocks
      PROVE  /\ saved'.history[b] # <<>>
             /\ saved'.history[b][Len(saved'.history[b])] = Entry(saved.blocks[b], TRUE)
  <2> DEFINE e == Entry(saved.blocks[b], TRUE)
             h == saved.history[b]
  <2>1. h \in Seq(Entries) /\ e \in Entries
    BY <1>1, <1>3, CommittedFacts, EntryTyped
  <2>2. saved'.history[b] = Append(h, e)
    BY <1>1, <1>3
  <2> HIDE DEF e, h
  <2>3. Append(h, e) # <<>> /\ Append(h, e)[Len(Append(h, e))] = e
    BY <2>1
  <2> QED BY <2>2, <2>3 DEF e
<1> QED BY <1>2, <1>3 DEF LeavesItsRow, ComesBackWhole

LEMMA WritingLeavesRows ==
    ASSUME NEW S \in SUBSET Blocks, NEW f, Atomic!Write(S, f), NEW b \in Blocks
    PROVE  /\ LeavesItsRow(b)
           /\ DOMAIN saved'.blocks = DOMAIN saved.blocks \cup S
           /\ b \in S => saved'.blocks[b] = f[b]
<1>1. /\ DOMAIN saved'.blocks = DOMAIN saved.blocks \cup S
      /\ b \in S => saved'.blocks[b] = f[b]
  BY DEF Atomic!Write
<1> QED BY <1>1 DEF LeavesItsRow

LEMMA OutcomeLosesNothing ==
    ASSUME Committed, Outcome, NEW b \in Blocks
    PROVE  LeavesItsRow(b) /\ ComesBackWhole(b)
<1>1. ASSUME NEW c \in Blocks, Atomic!DeleteBlock(c) PROVE LeavesItsRow(b) /\ ComesBackWhole(b)
  <2>1. Atomic!Remove({c} \cup Atomic!Children(c)) /\ {c} \cup Atomic!Children(c) \subseteq DOMAIN saved.blocks
    BY <1>1 DEF Atomic!DeleteBlock, Atomic!Children
  <2> QED BY <2>1, RemovalLeavesRows
<1>2. CASE Atomic!DeleteBoard
  BY <1>2, RemovalLeavesRows DEF Atomic!DeleteBoard
<1>3. ASSUME NEW c \in Blocks, NEW row, Atomic!InsertBlock(c, row)
      PROVE  LeavesItsRow(b) /\ ComesBackWhole(b)
  <2>1. Atomic!Write({c}, [d \in {c} |-> row]) /\ saved.history[c] = <<>>
    BY <1>3 DEF Atomic!InsertBlock
  <2>2. LeavesItsRow(b) /\ DOMAIN saved'.blocks = DOMAIN saved.blocks \cup {c}
    BY <2>1, WritingLeavesRows
  <2> QED BY <2>1, <2>2 DEF ComesBackWhole
<1>4. ASSUME NEW S \in SUBSET Blocks, NEW patch, Atomic!PatchBlocks(S, patch)
      PROVE  LeavesItsRow(b) /\ ComesBackWhole(b)
  <2>1. /\ Atomic!Write(S, [c \in S |-> Atomic!Patched(saved.blocks[c], patch)])
        /\ S \subseteq DOMAIN saved.blocks
    BY <1>4 DEF Atomic!PatchBlocks
  <2>2. LeavesItsRow(b) /\ DOMAIN saved'.blocks = DOMAIN saved.blocks \cup S
    BY <2>1, WritingLeavesRows
  <2> QED BY <2>1, <2>2 DEF ComesBackWhole
\* What comes back are the rows of the last entries, and with a card all that
\* was last under it.
<1>5. ASSUME NEW S \in SUBSET Blocks, \A c \in S : Atomic!Deleted(c),
             Atomic!Write(S, [c \in S |-> Atomic!RowOf(Atomic!Latest(c))]),
             \A c \in S, d \in Blocks :
                 Atomic!Latest(c).parent = Board /\ Atomic!Deleted(d) /\ Atomic!Latest(d).parent = c
                 => d \in S
      PROVE  LeavesItsRow(b) /\ ComesBackWhole(b)
  <2>1. /\ LeavesItsRow(b) /\ DOMAIN saved'.blocks = DOMAIN saved.blocks \cup S
        /\ b \in S => saved'.blocks[b] = Atomic!RowOf(Atomic!Latest(b))
    BY <1>5, WritingLeavesRows
  <2>2. ASSUME b \in S PROVE saved'.blocks[b] = RowOf(Last(saved.history[b]))
    BY <2>1, <2>2 DEF Atomic!RowOf, RowOf, Atomic!Latest, Last
  <2>3. ASSUME b \in S, saved'.blocks[b].parent = Board, NEW c \in Blocks \ DOMAIN saved.blocks,
               saved.history[c] # <<>>, Last(saved.history[c]).parent = b
        PROVE  c \in DOMAIN saved'.blocks
    <3>1. Atomic!Deleted(c) /\ Atomic!Latest(c).parent = b
      BY <2>3, CommittedFacts DEF Atomic!Deleted, Atomic!Latest, Last
    <3>2. Atomic!Latest(b).parent = Board
      BY <2>1, <2>3 DEF Atomic!RowOf
    <3> QED BY <1>5, <2>1, <2>3, <3>1, <3>2
  <2> QED BY <2>1, <2>2, <2>3 DEF ComesBackWhole, Last
<1>6. ASSUME NEW c \in Blocks, Atomic!UndeleteBlock(c) PROVE LeavesItsRow(b) /\ ComesBackWhole(b)
  <2> DEFINE S == {c} \cup Atomic!Doomed(c)
  <2>1. /\ S \in SUBSET Blocks /\ \A d \in S : Atomic!Deleted(d)
        /\ Atomic!Write(S, [d \in S |-> Atomic!RowOf(Atomic!Latest(d))])
    BY <1>6 DEF Atomic!UndeleteBlock, Atomic!Doomed
  <2>2. ASSUME NEW d \in S, NEW e \in Blocks, Atomic!Latest(d).parent = Board, Atomic!Deleted(e),
               Atomic!Latest(e).parent = d
        PROVE  e \in S
    <3>1. d = c
      BY <2>2, BoardAssumption DEF Atomic!Doomed, Atomic!InScope
    <3> QED BY <2>2, <3>1 DEF Atomic!Doomed, Atomic!InScope
  <2> HIDE DEF S
  <2> QED BY <1>5, <2>1, <2>2
<1>7. CASE Atomic!UndeleteBoard
  <2> DEFINE S == Atomic!Doomed(Board)
  <2>1. /\ S \in SUBSET Blocks /\ \A d \in S : Atomic!Deleted(d)
        /\ Atomic!Write(S, [d \in S |-> Atomic!RowOf(Atomic!Latest(d))])
    BY <1>7 DEF Atomic!UndeleteBoard, Atomic!Doomed
  <2>2. \A e \in Blocks : Atomic!Deleted(e) => e \in S
    BY DEF Atomic!Doomed, Atomic!InScope
  <2> HIDE DEF S
  <2> QED BY <1>5, <2>1, <2>2
<1>8. CASE UNCHANGED Atomic!vars
  BY <1>8 DEF Atomic!vars, LeavesItsRow, ComesBackWhole
<1> QED BY <1>1, <1>2, <1>3, <1>4, <1>6, <1>7, <1>8 DEF Outcome, Atomic!Next

\* With transactions no request loses a row: what leaves the table stays in
\* the history, and what comes back is that row, with all that was last deleted
\* under a card.
THEOREM UndoLosesNothing ==
    ASSUME Transactional
    PROVE  Spec => UndoRestores
<1>1. SInv /\ [Next]_vars => [\A b \in Blocks : LeavesItsRow(b) /\ ComesBackWhole(b)]_saved
  BY SInvInductive, OutcomeLosesNothing DEF SInv
<1> QED BY <1>1, SInvInitially, SInvInductive, PTL DEF Spec, UndoRestores
=============================================================================
