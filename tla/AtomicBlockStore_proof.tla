----------------------- MODULE AtomicBlockStore_proof -----------------------
(***************************************************************************)
(* Proofs about AtomicBlockStore, for every set of blocks, every initial   *)
(* board and every history.  The three properties are inductive together:  *)
(* a write and a removal keep the history in step with the table, and the  *)
(* board goes only with all its blocks.                                    *)
(***************************************************************************)
EXTENDS AtomicBlockStore, SequenceTheorems, TLAPS

Inv == TypeOK /\ HistoryMatchesTable /\ NoBlocksWithoutBoard

\* What follows a deletion is the row it took.
Undone(h) ==
    \A i \in 1..(Len(h) - 1) :
        h[i].deleted => ~h[i + 1].deleted /\ RowOf(h[i + 1]) = RowOf(h[i])

DeletionsUndone == \A b \in Blocks : Undone(history[b])

\* An appended entry is the last one.
LEMMA AppendedIsLast ==
    ASSUME NEW S, NEW h \in Seq(S), NEW e \in S, NEW g, g = Append(h, e)
    PROVE  /\ g \in Seq(S)
           /\ g # <<>>
           /\ g[Len(g)] = e
OBVIOUS

LEMMA Singleton ==
    ASSUME NEW S, NEW e \in S
    PROVE  /\ <<e>> \in Seq(S)
           /\ <<e>> # <<>>
           /\ <<e>>[Len(<<e>>)] = e
OBVIOUS

\* The last entry of a history that is not empty is an entry.
LEMMA LastIsEntry ==
    ASSUME NEW S, NEW h \in Seq(S), h # <<>>
    PROVE  h[Len(h)] \in S
OBVIOUS

\* A row survives its entry in the history.
LEMMA EntryKeepsRow ==
    ASSUME NEW row \in Rows, NEW d \in BOOLEAN
    PROVE  /\ Entry(row, d) \in Entries
           /\ RowOf(Entry(row, d)) = row
           /\ Entry(row, d).deleted = d
BY DEF Rows, Entries, Entry, RowOf

\* Patching a row gives a row (BlockPatch.Patch).
LEMMA PatchedIsRow ==
    ASSUME NEW row \in Rows, NEW patch \in Patches
    PROVE  Patched(row, patch) \in Rows
BY DEF Rows, Patches, Patched

\* Writing rows keeps the history in step with the table (insertBlock,
\* undeleteBlock, undeleteBlockChildren).
LEMMA WriteKeeps ==
    ASSUME TypeOK, HistoryMatchesTable, NEW S \in SUBSET Blocks,
           NEW f, \A b \in S : f[b] \in Rows, Write(S, f), live' \in BOOLEAN
    PROVE  TypeOK' /\ HistoryMatchesTable'
<1>1. /\ DOMAIN blocks' = DOMAIN blocks \cup S
      /\ \A b \in DOMAIN blocks' : blocks'[b] = IF b \in S THEN f[b] ELSE blocks[b]
      /\ \A b \in DOMAIN blocks : blocks[b] \in Rows
  BY DEF Write, TypeOK
<1>2. \A b \in Blocks : history'[b] = IF b \in S THEN Append(history[b], Entry(f[b], FALSE))
                                      ELSE history[b]
  BY DEF Write
<1>3. ASSUME NEW b \in Blocks
      PROVE  /\ history'[b] \in Seq(Entries)
             /\ b \in S => /\ history'[b] # <<>>
                           /\ ~Latest(b)'.deleted
                           /\ RowOf(Latest(b)') = f[b]
             /\ b \notin S => history'[b] = history[b] /\ Latest(b)' = Latest(b)
  <2>1. history[b] \in Seq(Entries)
    BY DEF TypeOK
  <2>2. CASE b \in S
    <3>1. Entry(f[b], FALSE) \in Entries /\ RowOf(Entry(f[b], FALSE)) = f[b]
          /\ Entry(f[b], FALSE).deleted = FALSE
      BY <2>2, EntryKeepsRow
    <3>2. /\ history'[b] \in Seq(Entries) /\ history'[b] # <<>>
          /\ history'[b][Len(history'[b])] = Entry(f[b], FALSE)
      <4> DEFINE e == Entry(f[b], FALSE)
      <4>1. history'[b] = Append(history[b], e) /\ e \in Entries
        BY <2>2, <1>2, <3>1
      <4> HIDE DEF e
      <4>2. /\ history'[b] \in Seq(Entries) /\ history'[b] # <<>>
            /\ history'[b][Len(history'[b])] = e
        BY <2>1, <4>1, AppendedIsLast
      <4> QED BY <4>2 DEF e
    <3> QED BY <2>2, <3>1, <3>2 DEF Latest
  <2>3. CASE b \notin S
    BY <2>1, <2>3, <1>2 DEF Latest
  <2> QED BY <2>2, <2>3
<1>4. TypeOK'
  <2>1. history' \in [Blocks -> Seq(Entries)]
    BY <1>3 DEF Write
  <2>2. DOMAIN blocks' \subseteq Blocks /\ blocks' \in [DOMAIN blocks' -> Rows]
    <3>1. \A b \in DOMAIN blocks' : blocks'[b] \in Rows
      BY <1>1
    <3> QED BY <1>1, <3>1 DEF Write, TypeOK
  <2> QED BY <2>1, <2>2 DEF TypeOK
<1>5. HistoryMatchesTable'
  <2> SUFFICES ASSUME NEW b \in Blocks
               PROVE  /\ b \in DOMAIN blocks' <=> history'[b] # <<>> /\ ~Latest(b)'.deleted
                      /\ b \in DOMAIN blocks' => RowOf(Latest(b)') = blocks'[b]
    BY DEF HistoryMatchesTable, RowOf
  <2>1. CASE b \in S
    BY <2>1, <1>1, <1>3
  <2>2. CASE b \notin S
    BY <2>2, <1>1, <1>3 DEF HistoryMatchesTable
  <2> QED BY <2>1, <2>2
<1> QED BY <1>4, <1>5

\* Removing rows keeps the history in step with the table
\* (deleteBlockAndChildren, deleteBlockChildren).
LEMMA RemoveKeeps ==
    ASSUME TypeOK, HistoryMatchesTable, NEW S \in SUBSET DOMAIN blocks, Remove(S),
           live' \in BOOLEAN
    PROVE  TypeOK' /\ HistoryMatchesTable'
<1>1. /\ DOMAIN blocks' = DOMAIN blocks \ S
      /\ \A b \in DOMAIN blocks' : blocks'[b] = blocks[b]
      /\ \A b \in DOMAIN blocks : blocks[b] \in Rows
  BY DEF Remove, TypeOK
<1>2. \A b \in Blocks : history'[b] = IF b \in S THEN Append(history[b], Entry(blocks[b], TRUE))
                                      ELSE history[b]
  BY DEF Remove
<1>3. ASSUME NEW b \in Blocks
      PROVE  /\ history'[b] \in Seq(Entries)
             /\ b \in S => history'[b] # <<>> /\ Latest(b)'.deleted
             /\ b \notin S => history'[b] = history[b] /\ Latest(b)' = Latest(b)
  <2>1. history[b] \in Seq(Entries)
    BY DEF TypeOK
  <2>2. CASE b \in S
    <3>1. Entry(blocks[b], TRUE) \in Entries /\ Entry(blocks[b], TRUE).deleted = TRUE
      BY <2>2, <1>1, EntryKeepsRow
    <3>2. /\ history'[b] \in Seq(Entries) /\ history'[b] # <<>>
          /\ history'[b][Len(history'[b])] = Entry(blocks[b], TRUE)
      <4> DEFINE e == Entry(blocks[b], TRUE)
      <4>1. history'[b] = Append(history[b], e) /\ e \in Entries
        BY <2>2, <1>2, <3>1
      <4> HIDE DEF e
      <4>2. /\ history'[b] \in Seq(Entries) /\ history'[b] # <<>>
            /\ history'[b][Len(history'[b])] = e
        BY <2>1, <4>1, AppendedIsLast
      <4> QED BY <4>2 DEF e
    <3> QED BY <2>2, <3>1, <3>2 DEF Latest
  <2>3. CASE b \notin S
    BY <2>1, <2>3, <1>2 DEF Latest
  <2> QED BY <2>2, <2>3
<1>4. TypeOK'
  <2>1. history' \in [Blocks -> Seq(Entries)]
    BY <1>3 DEF Remove
  <2>2. DOMAIN blocks' \subseteq Blocks /\ blocks' \in [DOMAIN blocks' -> Rows]
    <3>1. \A b \in DOMAIN blocks' : blocks'[b] \in Rows
      BY <1>1
    <3> QED BY <1>1, <3>1 DEF Remove, TypeOK
  <2> QED BY <2>1, <2>2 DEF TypeOK
<1>5. HistoryMatchesTable'
  <2> SUFFICES ASSUME NEW b \in Blocks
               PROVE  /\ b \in DOMAIN blocks' <=> history'[b] # <<>> /\ ~Latest(b)'.deleted
                      /\ b \in DOMAIN blocks' => RowOf(Latest(b)') = blocks'[b]
    BY DEF HistoryMatchesTable, RowOf
  <2>1. CASE b \in S
    BY <2>1, <1>1, <1>3
  <2>2. CASE b \notin S
    BY <2>2, <1>1, <1>3 DEF HistoryMatchesTable
  <2> QED BY <2>1, <2>2
<1> QED BY <1>4, <1>5

\* What a deletion recorded can be written back.
LEMMA RestoredIsRow ==
    ASSUME TypeOK, NEW b \in Blocks, Deleted(b)
    PROVE  RowOf(Latest(b)) \in Rows
<1>1. Latest(b) \in Entries
  BY LastIsEntry DEF TypeOK, Deleted, Latest
<1> QED BY <1>1 DEF Entries, Rows, RowOf

LEMMA Initially == Init => Inv
<1> SUFFICES ASSUME Init PROVE Inv
  OBVIOUS
<1> USE InitialRowsAssumption
<1>1. \A b \in DOMAIN InitialRows : InitialRows[b] \in Rows
  OBVIOUS
<1>2. ASSUME NEW b \in Blocks
      PROVE  /\ history[b] \in Seq(Entries)
             /\ b \in DOMAIN blocks <=> history[b] # <<>> /\ ~Latest(b).deleted
             /\ b \in DOMAIN blocks => RowOf(Latest(b)) = blocks[b]
  <2>1. CASE b \in DOMAIN InitialRows
    <3>1. /\ Entry(InitialRows[b], FALSE) \in Entries
          /\ RowOf(Entry(InitialRows[b], FALSE)) = InitialRows[b]
          /\ ~Entry(InitialRows[b], FALSE).deleted
      BY <2>1, <1>1, EntryKeepsRow
    <3>2. history[b] = <<Entry(InitialRows[b], FALSE)>>
      BY <2>1 DEF Init
    <3>3. /\ history[b] \in Seq(Entries) /\ history[b] # <<>>
          /\ Latest(b) = Entry(InitialRows[b], FALSE)
      BY <3>1, <3>2, Singleton DEF Latest
    <3> QED BY <2>1, <3>1, <3>3 DEF Init
  <2>2. CASE b \notin DOMAIN InitialRows
    BY <2>2 DEF Init
  <2> QED BY <2>1, <2>2
<1>3. TypeOK
  <2>1. history \in [Blocks -> Seq(Entries)]
    BY <1>2 DEF Init
  <2> QED BY <2>1 DEF TypeOK, Init
<1> QED BY <1>2, <1>3 DEF Inv, HistoryMatchesTable, NoBlocksWithoutBoard, Init

LEMMA Inductive == Inv /\ [Next]_vars => Inv'
<1> SUFFICES ASSUME Inv, [Next]_vars PROVE Inv'
  OBVIOUS
<1> USE DEF Inv
<1>1. ASSUME NEW b \in Blocks, DeleteBlock(b) PROVE Inv'
  <2> DEFINE S == {b} \cup Children(b)
  <2>1. S \in SUBSET DOMAIN blocks /\ Remove(S) /\ live' = live /\ live
    BY <1>1 DEF DeleteBlock, Children
  <2>2. TypeOK' /\ HistoryMatchesTable'
    BY <2>1, RemoveKeeps DEF TypeOK
  <2> QED BY <2>1, <2>2 DEF NoBlocksWithoutBoard
<1>2. ASSUME NEW b \in Blocks, UndeleteBlock(b) PROVE Inv'
  <2> DEFINE S == {b} \cup Doomed(b)
             f == [c \in S |-> RowOf(Latest(c))]
  <2>1. S \in SUBSET Blocks /\ Write(S, f) /\ live' = live /\ live
    BY <1>2 DEF UndeleteBlock, Doomed
  <2>2. \A c \in S : f[c] \in Rows
    <3>1. \A c \in S : c \in Blocks /\ Deleted(c)
      BY <1>2 DEF UndeleteBlock, Doomed
    <3> QED BY <3>1, RestoredIsRow
  <2>3. TypeOK' /\ HistoryMatchesTable'
    <3> HIDE DEF S, f
    <3> QED BY <2>1, <2>2, WriteKeeps DEF TypeOK
  <2> QED BY <2>1, <2>3 DEF NoBlocksWithoutBoard
<1>3. ASSUME NEW b \in Blocks, NEW row \in Rows, InsertBlock(b, row) PROVE Inv'
  <2> DEFINE f == [c \in {b} |-> row]
  <2>1. Write({b}, f) /\ live' = live /\ live
    BY <1>3 DEF InsertBlock
  <2>2. \A c \in {b} : f[c] \in Rows
    OBVIOUS
  <2>3. TypeOK' /\ HistoryMatchesTable'
    <3> HIDE DEF f
    <3> QED BY <2>1, <2>2, WriteKeeps DEF TypeOK
  <2> QED BY <2>1, <2>3 DEF NoBlocksWithoutBoard
<1>4. ASSUME NEW S \in SUBSET Blocks, NEW patch \in Patches, PatchBlocks(S, patch) PROVE Inv'
  <2> DEFINE f == [b \in S |-> Patched(blocks[b], patch)]
  <2>1. Write(S, f) /\ live' = live /\ live
    BY <1>4 DEF PatchBlocks
  <2>2. \A c \in S : f[c] \in Rows
    <3>1. \A c \in S : blocks[c] \in Rows
      BY <1>4 DEF PatchBlocks, TypeOK
    <3> QED BY <3>1, PatchedIsRow
  <2>3. TypeOK' /\ HistoryMatchesTable'
    <3> HIDE DEF f
    <3> QED BY <2>1, <2>2, WriteKeeps DEF TypeOK
  <2> QED BY <2>1, <2>3 DEF NoBlocksWithoutBoard
<1>5. CASE DeleteBoard
  <2>1. Remove(DOMAIN blocks) /\ live' = FALSE
    BY <1>5 DEF DeleteBoard
  <2>2. TypeOK' /\ HistoryMatchesTable'
    BY <2>1, RemoveKeeps DEF TypeOK
  <2>3. DOMAIN blocks' = {}
    BY <2>1 DEF Remove
  <2> QED BY <2>2, <2>3 DEF NoBlocksWithoutBoard
<1>6. CASE UndeleteBoard
  <2> DEFINE S == Doomed(Board)
             f == [c \in S |-> RowOf(Latest(c))]
  <2>1. S \in SUBSET Blocks /\ Write(S, f) /\ live' = TRUE
    BY <1>6 DEF UndeleteBoard, Doomed
  <2>2. \A c \in S : f[c] \in Rows
    BY RestoredIsRow DEF Doomed
  <2>3. TypeOK' /\ HistoryMatchesTable'
    <3> HIDE DEF S, f
    <3> QED BY <2>1, <2>2, WriteKeeps DEF TypeOK
  <2> QED BY <2>1, <2>3 DEF NoBlocksWithoutBoard
<1>7. CASE UNCHANGED vars
  BY <1>7 DEF vars, TypeOK, HistoryMatchesTable, NoBlocksWithoutBoard, Latest
<1> QED BY <1>1, <1>2, <1>3, <1>4, <1>5, <1>6, <1>7 DEF Next

LEMMA InvHolds == Spec => []Inv
BY Initially, Inductive, PTL DEF Spec

\* The tables keep their types.
THEOREM TypeCorrect == Spec => []TypeOK
BY InvHolds, PTL DEF Inv

\* Whatever is inserted, patched, deleted and restored, the history of every
\* block tells its row.
THEOREM HistoryTellsTable == Spec => []HistoryMatchesTable
BY InvHolds, PTL DEF Inv

\* A deleted board never has a block in the table.
THEOREM BoardTakesBlocks == Spec => []NoBlocksWithoutBoard
BY InvHolds, PTL DEF Inv

-----------------------------------------------------------------------------
(* A deletion is only ever followed by the row it took, so the last entry  *)
(* of a block under some parent is a deletion only if it is the last.      *)

LEMMA AppendKeepsUndone ==
    ASSUME NEW h \in Seq(Entries), Undone(h), NEW e \in Entries,
           h # <<>> /\ h[Len(h)].deleted => ~e.deleted /\ RowOf(e) = RowOf(h[Len(h)])
    PROVE  Undone(Append(h, e))
<1> DEFINE g == Append(h, e)
<1>1. /\ Len(g) = Len(h) + 1 /\ Len(h) \in Nat
      /\ \A i \in 1..Len(h) : g[i] = h[i]
      /\ g[Len(h) + 1] = e
  OBVIOUS
<1> HIDE DEF g
<1>2. SUFFICES ASSUME NEW i \in 1..(Len(g) - 1), g[i].deleted
               PROVE  ~g[i + 1].deleted /\ RowOf(g[i + 1]) = RowOf(g[i])
  BY DEF Undone, g
<1>3. CASE i = Len(h)
  <2>1. h # <<>>
    BY <1>1, <1>2, <1>3
  <2> QED BY <1>1, <1>2, <1>3, <2>1
<1>4. CASE i # Len(h)
  <2>1. i \in 1..(Len(h) - 1) /\ g[i] = h[i] /\ g[i + 1] = h[i + 1]
    BY <1>1, <1>2, <1>4
  <2> QED BY <2>1, <1>2 DEF Undone
<1> QED BY <1>3, <1>4

LEMMA WriteKeepsUndone ==
    ASSUME TypeOK, DeletionsUndone, NEW S \in SUBSET Blocks,
           NEW f, \A b \in S : f[b] \in Rows, Write(S, f),
           \A b \in S : Deleted(b) => f[b] = RowOf(Latest(b))
    PROVE  DeletionsUndone'
<1> SUFFICES ASSUME NEW b \in Blocks PROVE Undone(history'[b])
  BY DEF DeletionsUndone, Undone, RowOf
<1>1. history[b] \in Seq(Entries) /\ Undone(history[b])
  BY DEF TypeOK, DeletionsUndone
<1>2. CASE b \in S
  <2> DEFINE e == Entry(f[b], FALSE)
  <2>1. e \in Entries /\ RowOf(e) = f[b] /\ ~e.deleted
    BY <1>2, EntryKeepsRow
  <2>2. history'[b] = Append(history[b], e)
    BY <1>2 DEF Write
  <2>3. history[b] # <<>> /\ history[b][Len(history[b])].deleted =>
           RowOf(e) = RowOf(history[b][Len(history[b])])
    BY <1>2, <2>1 DEF Deleted, Latest
  <2> HIDE DEF e
  <2> QED BY <1>1, <2>1, <2>2, <2>3, AppendKeepsUndone
<1>3. CASE b \notin S
  BY <1>1, <1>3 DEF Write
<1> QED BY <1>2, <1>3

LEMMA RemoveKeepsUndone ==
    ASSUME TypeOK, HistoryMatchesTable, DeletionsUndone,
           NEW S \in SUBSET DOMAIN blocks, Remove(S)
    PROVE  DeletionsUndone'
<1> SUFFICES ASSUME NEW b \in Blocks PROVE Undone(history'[b])
  BY DEF DeletionsUndone, Undone, RowOf
<1>1. history[b] \in Seq(Entries) /\ Undone(history[b])
  BY DEF TypeOK, DeletionsUndone
<1>2. CASE b \in S
  <2> DEFINE e == Entry(blocks[b], TRUE)
  <2>1. blocks[b] \in Rows
    BY <1>2 DEF TypeOK
  <2>2. e \in Entries
    BY <2>1, EntryKeepsRow
  <2>3. history'[b] = Append(history[b], e)
    BY <1>2 DEF Remove
  <2>4. ~history[b][Len(history[b])].deleted
    BY <1>2 DEF HistoryMatchesTable, Latest
  <2> HIDE DEF e
  <2> QED BY <1>1, <2>2, <2>3, <2>4, AppendKeepsUndone
<1>3. CASE b \notin S
  BY <1>1, <1>3 DEF Remove
<1> QED BY <1>2, <1>3

LEMMA UndoneInitially == Init => DeletionsUndone
<1> SUFFICES ASSUME Init, NEW b \in Blocks PROVE Undone(history[b])
  BY DEF DeletionsUndone
<1> DEFINE e == Entry(InitialRows[b], FALSE)
<1>1. history[b] = <<>> \/ history[b] = <<e>>
  BY DEF Init
<1> HIDE DEF e
<1>2. Len(history[b]) = 0 \/ Len(history[b]) = 1
  <2>1. Len(<<e>>) = 1 /\ Len(<<>>) = 0
    OBVIOUS
  <2> QED BY <1>1, <2>1
<1> QED BY <1>2 DEF Undone

LEMMA UndoneKept == Inv /\ DeletionsUndone /\ [Next]_vars => DeletionsUndone'
<1> SUFFICES ASSUME Inv, DeletionsUndone, [Next]_vars PROVE DeletionsUndone'
  OBVIOUS
<1> USE DEF Inv
<1>1. ASSUME NEW b \in Blocks, DeleteBlock(b) PROVE DeletionsUndone'
  <2> DEFINE S == {b} \cup Children(b)
  <2>1. S \in SUBSET DOMAIN blocks /\ Remove(S)
    BY <1>1 DEF DeleteBlock, Children
  <2> HIDE DEF S
  <2> QED BY <2>1, RemoveKeepsUndone
<1>2. ASSUME NEW b \in Blocks, UndeleteBlock(b) PROVE DeletionsUndone'
  <2> DEFINE S == {b} \cup Doomed(b)
             f == [c \in S |-> RowOf(Latest(c))]
  <2>1. S \in SUBSET Blocks /\ Write(S, f)
    BY <1>2 DEF UndeleteBlock, Doomed
  <2>2. \A c \in S : f[c] \in Rows /\ f[c] = RowOf(Latest(c))
    <3>1. \A c \in S : c \in Blocks /\ Deleted(c)
      BY <1>2 DEF UndeleteBlock, Doomed
    <3> QED BY <3>1, RestoredIsRow
  <2> HIDE DEF S, f
  <2> QED BY <2>1, <2>2, WriteKeepsUndone
<1>3. ASSUME NEW b \in Blocks, NEW row \in Rows, InsertBlock(b, row) PROVE DeletionsUndone'
  <2> DEFINE f == [c \in {b} |-> row]
  <2>1. Write({b}, f) /\ ~Deleted(b)
    BY <1>3 DEF InsertBlock, Deleted
  <2>2. \A c \in {b} : f[c] \in Rows /\ ~Deleted(c)
    BY <2>1
  <2> HIDE DEF f
  <2> QED BY <2>1, <2>2, WriteKeepsUndone
<1>4. ASSUME NEW S \in SUBSET Blocks, NEW patch \in Patches, PatchBlocks(S, patch)
      PROVE  DeletionsUndone'
  <2> DEFINE f == [b \in S |-> Patched(blocks[b], patch)]
  <2>1. Write(S, f) /\ S \subseteq DOMAIN blocks
    BY <1>4 DEF PatchBlocks
  <2>2. \A c \in S : f[c] \in Rows /\ ~Deleted(c)
    <3>1. \A c \in S : blocks[c] \in Rows
      BY <2>1 DEF TypeOK
    <3>2. \A c \in S : ~Deleted(c)
      BY <2>1 DEF HistoryMatchesTable, Deleted
    <3> QED BY <3>1, <3>2, PatchedIsRow
  <2> HIDE DEF f
  <2> QED BY <2>1, <2>2, WriteKeepsUndone
<1>5. CASE DeleteBoard
  BY <1>5, RemoveKeepsUndone DEF DeleteBoard
<1>6. CASE UndeleteBoard
  <2> DEFINE S == Doomed(Board)
             f == [c \in S |-> RowOf(Latest(c))]
  <2>1. S \in SUBSET Blocks /\ Write(S, f)
    BY <1>6 DEF UndeleteBoard, Doomed
  <2>2. \A c \in S : f[c] \in Rows /\ f[c] = RowOf(Latest(c))
    BY RestoredIsRow DEF Doomed
  <2> HIDE DEF S, f
  <2> QED BY <2>1, <2>2, WriteKeepsUndone
<1>7. CASE UNCHANGED vars
  BY <1>7 DEF vars, DeletionsUndone, Undone
<1> QED BY <1>1, <1>2, <1>3, <1>4, <1>5, <1>6, <1>7 DEF Next

\* A deletion recorded in the history is the last entry of its block, or is
\* followed by the row it took: undelete never brings back another.
THEOREM DeletionsAreUndone == Spec => []DeletionsUndone
BY Initially, Inductive, UndoneInitially, UndoneKept, PTL DEF Spec
=============================================================================
