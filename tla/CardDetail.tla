------------------------------- MODULE CardDetail -------------------------------
(***************************************************************************)
(* A card as its dialog shows and edits it: title, content blocks, comments*)
(* and attachments.  Modelled are the dialog's components, old editor and  *)
(* new (featureFlags.newBoardsEditor), the client's store of the card and  *)
(* its blocks, the requests they send one after the other with what they   *)
(* knew when the user acted, the server's handling, and the broadcasts,    *)
(* which the notifier's workers send in any order and the client merges.   *)
(*                                                                         *)
(* Of a text only its presence matters.  Undo is in UndoManager.           *)
(***************************************************************************)
EXTENDS ContentOrder, FiniteSets

CONSTANTS
    Titles,    \* titles a card may have
    MaxActs    \* bound: what the user and another user do

Contents == {"text", "checkbox", "image"}
Kinds == Contents \cup {"comment", "attachment"}
ASSUME CardDetailAssumption == Titles # {} /\ MaxActs \in Nat

VARIABLES
    newEditor,  \* featureFlags.newBoardsEditor
    row,        \* server: the card's title and contentOrder
    blocks,     \* server: the blocks of the card, ids are positions
    pool,       \* blockChangeNotifier: broadcasts enqueued
    news,       \* broadcasts sent and not yet given to the store
    card,       \* store: the card
    lists,      \* store: contentsByCard, commentsByCard, attachmentsByCard
    scripts,    \* what operations of the user still have to do, and what they know
    title,      \* CardDetail: the title as typed
    active,     \* CheckboxElement: the state of each box shown, by its place
    lastAdded,  \* CardDetailProvider: lastAddedBlock
    uploading,  \* placeholders of attachments whose upload has not ended
    typed,      \* history: the title was typed and not saved
    drop,       \* history: the last drop of the old editor
    mishaps,    \* history: what makes a client differ, or content be lost
    acts        \* bounded: what the users did

server == <<row, blocks>>
transit == <<pool, news, scripts, uploading>>
client == <<card, lists, title, active, lastAdded>>
history == <<typed, drop, mishaps>>
vars == <<newEditor, server, transit, client, history, acts>>
-----------------------------------------------------------------------------
Card == 0
Live(id) == id \in DOMAIN blocks /\ blocks[id].live
LiveOf(kinds) == {id \in DOMAIN blocks : blocks[id].live /\ blocks[id].kind \in kinds}
News(id, val) == [id |-> id, val |-> val]
Dead == [kind |-> "unknown", value |-> FALSE, live |-> FALSE]   \* BroadcastBlockDelete tells only the id
Position(at, id) == SelectInSeq(at, LAMBDA b : b.id = id)
IdsOf(list) == {list.at[i].id : i \in DOMAIN list.at}
ValueIn(list, id) == list.at[Position(list.at, id)].val
NoList == [has |-> FALSE, at |-> <<>>]    \* the store has no list for the card
ListOf(s) == [has |-> s # <<>>, at |-> s]
NoDrop == [old |-> <<>>, new |-> <<>>, src |-> <<0, 0>>, dst |-> <<0, 0>>, to |-> "none"]

\* What the dialog shows of the store: the new editor shows the first of a row.
Display(c, l) == Shown(c.order, IdsOf(l.contents))
ShownIds == LET d == Display(card, lists)
            IN IF newEditor THEN {d[x].ids[1] : x \in {y \in DOMAIN d : d[y].ids # <<>>}} ELSE ToSet(Ids(d))
Boxes(c, l) ==
    LET d == Display(c, l)
        at(p) == <<p[1], d[p[1]].row, At(d, p)>>
    IN IF newEditor THEN {} ELSE {at(p) : p \in {q \in Places(d) : ValueIn(l.contents, At(d, q)).kind = "checkbox"}}

TypeOK ==
    /\ newEditor \in BOOLEAN
    /\ row.title \in Titles /\ card.title \in Titles /\ title \in Titles
    /\ \A id \in DOMAIN blocks : /\ blocks[id].kind \in Kinds
                                 /\ blocks[id].value \in BOOLEAN /\ blocks[id].live \in BOOLEAN
    /\ ToSet(Ids(row.order)) \subseteq DOMAIN blocks
    /\ \A l \in DOMAIN lists : lists[l].has \in BOOLEAN /\ (lists[l].at # <<>> => lists[l].has)
    /\ DOMAIN active = Boxes(card, lists) /\ \A p \in DOMAIN active : active[p] \in BOOLEAN

\* A card at rest as loadBoardData brings it: empty, or with contents, a
\* comment and an attachment.
Loaded(kinds) == ListOf(SetToSortSeq({News(id, blocks[id]) : id \in LiveOf(kinds)}, LAMBDA a, b : a.id < b.id))
Init ==
    /\ newEditor \in BOOLEAN
    /\ row \in [title : {CHOOSE t \in Titles : TRUE},
                order : {<<>>, <<Single(1), Single(2), Single(3)>>, <<Row(<<1, 2>>), Single(3)>>}]
    /\ blocks = IF row.order = <<>> THEN <<>>
                ELSE [id \in 1..5 |-> [kind |-> <<"text", "checkbox", "text", "comment", "attachment">>[id],
                                       value |-> FALSE, live |-> TRUE]]
    /\ card = row
    \* contents hold every block that is not a board, a view or a comment
    /\ lists = [contents |-> Loaded(Contents \cup {"attachment"}), comments |-> Loaded({"comment"}),
                attachments |-> Loaded({"attachment"})]
    /\ title = row.title /\ active = [p \in Boxes(card, lists) |-> FALSE] /\ lastAdded = [id |-> New, auto |-> FALSE]
    /\ pool = <<>> /\ news = <<>> /\ scripts = <<>> /\ uploading = {}
    /\ typed = FALSE /\ drop = NoDrop /\ mishaps = {} /\ acts = 0
-----------------------------------------------------------------------------
(* The reducers.  Each returns the new list and whether it returned early, *)
(* with the rest of the updates unread.                                    *)

Put(list, x) == [list EXCEPT !.at = IF Position(@, x.id) = 0 THEN Append(@, x) ELSE [@ EXCEPT ![Position(@, x.id)] = x]]
DroppedFrom(list, id) == [list EXCEPT !.at = SelectSeq(@, LAMBDA b : b.id # id)]
Went(list, stop) == [list |-> list, stop |-> stop]

RemoveFrom(list, x) == IF x.id \in IdsOf(list) THEN Went(DroppedFrom(list, x.id), FALSE) ELSE Went(list, TRUE)
\* Mutant: a content that is known is added again.
UpdateContentTwice(list, x) ==
    IF ~x.val.live THEN RemoveFrom(list, x) ELSE Went([has |-> TRUE, at |-> Append(list.at, x)], ~list.has)
UpdateContent(list, x) ==
    CASE ~x.val.live -> RemoveFrom(list, x)
      [] ~list.has   -> Went(ListOf(<<x>>), TRUE)
      [] OTHER       -> Went(Put(list, x), FALSE)
UpdateComment(list, x) ==
    CASE ~x.val.live -> RemoveFrom(list, x)
      [] ~list.has   -> Went(ListOf(<<x>>), TRUE)
      [] OTHER       -> Went(Put(list, x), x.id \in IdsOf(list))
UpdateAttachment(list, x) ==
    CASE ~x.val.live             -> RemoveFrom(list, x)
      [] ~list.has               -> Went(ListOf(<<x>>), TRUE)
      [] x.id \in IdsOf(list)    -> Went(list, FALSE)
      [] OTHER                   -> Went(Put(list, x), FALSE)

Reduced(Op(_, _), list, batch) ==
    FoldLeft(LAMBDA acc, x : IF acc.stop THEN [acc EXCEPT !.cut = TRUE]
                             ELSE [list |-> Op(acc.list, x).list, stop |-> Op(acc.list, x).stop, cut |-> FALSE],
             [list |-> list, stop |-> FALSE, cut |-> FALSE], batch)
Only(batch, kinds) == SelectSeq(batch, LAMBDA x : x.id # Card /\ (x.val.kind \in kinds \/ ~x.val.live))

\* incrementalBlockUpdate and updateAllBoardsAndBlocks: comments, attachments, contents.
UpdateLists(l, batch, contents) ==
    LET c == Reduced(UpdateContent, l.contents, Only(batch, contents))
        m == Reduced(UpdateComment, l.comments, Only(batch, {"comment"}))
        a == Reduced(UpdateAttachment, l.attachments, Only(batch, {"attachment"}))
    IN [lists |-> [contents |-> c.list, comments |-> m.list, attachments |-> a.list], cut |-> c.cut \/ m.cut \/ a.cut]
UpdateCards(c, batch) ==
    FoldLeft(LAMBDA acc, x : IF x.id = Card THEN x.val ELSE acc, c, batch)
\* queueUpdateNotification: only the last update of a block is kept, where it came.
Queued(batch) == FoldLeft(LAMBDA acc, x : Append(SelectSeq(acc, LAMBDA y : y.id # x.id), x), <<>>, batch)

-----------------------------------------------------------------------------
(* What the components do when the store has changed.                      *)

\* Mutant: the title shown is only replaced while it is the old one being edited.
TitleEffectOfTheServer(c) == IF title = c.title THEN title ELSE card.title
\* CardDetail's effect: a title that is not being edited follows the card's.
TitleEffect(c) == IF title = card.title THEN c.title ELSE title
\* CheckboxElement's effect, and its first state where it is mounted.
ActiveEffect(c, l) ==
    [p \in Boxes(c, l) |-> IF p \in DOMAIN active /\ ValueIn(lists.contents, p[3]).value = ValueIn(l.contents, p[3]).value
                           THEN active[p] ELSE ValueIn(l.contents, p[3]).value]
Rendered(c, l) ==
    /\ card' = c /\ lists' = l
    /\ title' = IF c.title = card.title THEN title ELSE TitleEffect(c)
    /\ active' = ActiveEffect(c, l)

Mishap(name, happened) == IF happened THEN {name} ELSE {}

\* WSClient.flushUpdateNotifications, after the first n broadcasts in the queue.
Flush(n) ==
    /\ LET batch == Queued(SubSeq(news, 1, n))
           u == UpdateLists(lists, batch, Contents)
       IN /\ Rendered(UpdateCards(card, batch), u.lists)
          /\ mishaps' = mishaps \cup Mishap("cut", u.cut) \cup Mishap("merged", Len(batch) < n)
    /\ news' = SubSeq(news, n + 1, Len(news))
    /\ UNCHANGED <<newEditor, server, pool, scripts, uploading, lastAdded, typed, drop, acts>>

\* A worker of the notifier sends a broadcast, maybe before an older one.
Send(i) ==
    /\ news' = Append(news, pool[i]) /\ pool' = RemoveAt(pool, i)
    /\ mishaps' = mishaps \cup Mishap("swapped", \E j \in 1..(i - 1) : pool[j].id = pool[i].id)
    /\ UNCHANGED <<newEditor, server, scripts, uploading, client, typed, drop, acts>>
-----------------------------------------------------------------------------
(* What an operation still has to do.  A script is a sequence of requests  *)
(* and of what the client does with their answers; it keeps the card as it *)
(* was when the user acted.                                                *)

Insert(kind, n) == [do |-> "insert", kind |-> kind, n |-> n]
Write(order) == [do |-> "order", order |-> order]
Delete(id) == [do |-> "delete", id |-> id]

NewId == Len(blocks) + 1
Done(i, new) ==
    scripts' = IF Len(scripts[i].steps) = 1 THEN RemoveAt(scripts, i)
               ELSE [scripts EXCEPT ![i].steps = Tail(@), ![i].new = new]
Step(i, do) == scripts[i].steps[1].do = do

\* InsertBlocksAndNotify broadcasts before it answers.
ServeInsert(i) ==
    /\ Step(i, "insert")
    /\ LET t == scripts[i].steps[1]
           b == [kind |-> t.kind, value |-> FALSE, live |-> TRUE]
           ids == [k \in 1..t.n |-> Len(blocks) + k]
       IN /\ blocks' = blocks \o [k \in 1..t.n |-> b]
          /\ news' = news \o [k \in 1..t.n |-> News(ids[k], b)]
          /\ Done(i, ids)
    /\ UNCHANGED <<newEditor, row, pool, uploading, client, history, acts>>

PatchCard(r) == row' = r /\ pool' = Append(pool, News(Card, r))
PatchBlock(id, b) == blocks' = [blocks EXCEPT ![id] = b] /\ pool' = Append(pool, News(id, IF b.live THEN b ELSE Dead))

\* The whole order is written, as the client that acted knew it.
ServeOrder(i) ==
    /\ Step(i, "order")
    /\ PatchCard([row EXCEPT !.order = Fill(scripts[i].steps[1].order, scripts[i].new)])
    /\ mishaps' = mishaps \cup Mishap("over", scripts[i].card.order # row.order)
    /\ Done(i, scripts[i].new)
    /\ UNCHANGED <<newEditor, blocks, news, uploading, client, typed, drop, acts>>
ServeTitle(i) ==
    /\ Step(i, "title")
    /\ PatchCard([row EXCEPT !.title = scripts[i].steps[1].title])
    /\ Done(i, <<>>)
    /\ UNCHANGED <<newEditor, blocks, news, uploading, client, history, acts>>

\* Deleting what is gone, or editing it, fails.
ServeDelete(i) ==
    /\ Step(i, "delete")
    /\ LET id == scripts[i].steps[1].id
       IN IF Live(id) THEN PatchBlock(id, [blocks[id] EXCEPT !.live = FALSE]) ELSE UNCHANGED <<blocks, pool>>
    /\ Done(i, <<>>)
    /\ UNCHANGED <<newEditor, row, news, uploading, client, history, acts>>
\* The patch holds the fields that differ from the block shown, maybe none.
ServeValue(i) ==
    /\ Step(i, "value")
    /\ LET t == scripts[i].steps[1]
       IN IF Live(t.id) THEN PatchBlock(t.id, [blocks[t.id] EXCEPT !.value = IF t.new = t.old THEN @ ELSE t.new])
          ELSE UNCHANGED <<blocks, pool>>
    /\ Done(i, <<>>)
    /\ UNCHANGED <<newEditor, row, news, uploading, client, history, acts>>

\* App.MoveContentBlock, with the card as the server has it; rows stay as they are.
Moved(order, id, dst, where) ==
    FlattenSeq([x \in DOMAIN order |->
       CASE order[x] = Single(dst) -> IF where = "after" THEN <<order[x], Single(id)>> ELSE <<Single(id), order[x]>>
         [] order[x] = Single(id)  -> <<>>
         [] OTHER                  -> <<order[x]>>])
ServeMove(i) ==
    /\ Step(i, "move")
    /\ LET t == scripts[i].steps[1]
       IN IF Live(t.id) /\ Live(t.dst) /\ {Single(t.id), Single(t.dst)} \subseteq ToSet(row.order)
          THEN PatchCard([row EXCEPT !.order = Moved(@, t.id, t.dst, t.where)])
          ELSE UNCHANGED <<row, pool>>
    /\ Done(i, <<>>)
    /\ UNCHANGED <<newEditor, blocks, news, uploading, client, history, acts>>

\* setLastAddedBlock.
SetLastAdded(i) ==
    /\ Step(i, "last")
    /\ lastAdded' = [id |-> scripts[i].new[1], auto |-> scripts[i].steps[1].auto]
    /\ Done(i, <<>>)
    /\ UNCHANGED <<newEditor, server, pool, news, uploading, card, lists, title, active, history, acts>>
\* addBlockNewEditor: the card as it was, with the new order, replaces the store's.
AdoptCard(i) ==
    /\ Step(i, "card")
    /\ LET s == scripts[i]
           b == [kind |-> s.steps[1].kind, value |-> FALSE, live |-> TRUE]
           c == [s.card EXCEPT !.order = Fill(s.steps[1].order, s.new)]
       IN /\ Rendered(c, [lists EXCEPT !.contents = UpdateContent(@, News(s.new[1], b)).list])
          /\ mishaps' = mishaps \cup Mishap("clobbered", c # row \/ b # blocks[s.new[1]])
    /\ Done(i, <<>>)
    /\ UNCHANGED <<newEditor, server, pool, news, uploading, lastAdded, typed, drop, acts>>
\* insertBlocks: what the server returned goes to the store before the order is written.
AdoptBlocks(i) ==
    /\ Step(i, "blocks")
    /\ LET s == scripts[i]
           new == [k \in DOMAIN s.new |-> News(s.new[k], [kind |-> "image", value |-> FALSE, live |-> TRUE])]
           u == UpdateLists(lists, new, Contents \cup {"attachment"})
       IN /\ Rendered(card, u.lists)
          /\ mishaps' = mishaps \cup Mishap("cut", u.cut) \cup Mishap("clobbered", \E k \in DOMAIN s.new : ~Live(s.new[k]))
    /\ Done(i, scripts[i].new)
    /\ UNCHANGED <<newEditor, server, pool, news, uploading, lastAdded, typed, drop, acts>>

Continue(i) ==
    \/ ServeInsert(i) \/ ServeOrder(i) \/ ServeTitle(i) \/ ServeDelete(i) \/ ServeValue(i) \/ ServeMove(i)
    \/ SetLastAdded(i) \/ AdoptCard(i) \/ AdoptBlocks(i)
-----------------------------------------------------------------------------
(* What the user does in the dialog.                                       *)

Act == acts < MaxActs /\ acts' = acts + 1
Start(steps) == scripts' = Append(scripts, [card |-> card, steps |-> steps, new |-> <<>>])
Does(steps) ==
    /\ Act /\ Start(steps) /\ drop' = NoDrop
    /\ UNCHANGED <<newEditor, server, pool, news, uploading, client, typed, mishaps>>
OldEditor == ~newEditor
Here(p) == OldEditor /\ p \in Places(Display(card, lists))
IdAt(p) == At(Display(card, lists), p)

\* addBlock of CardDetailProvider and AddContentMenuItem.
Adding(kind, x) == <<Insert(kind, 1), Write(SpliceIn(card.order, x, Slot))>>
AddFromMenu(kind) ==
    /\ OldEditor
    /\ Does(Append(Adding(kind, Len(card.order) + 1), [do |-> "last", auto |-> FALSE]))
\* Enter in a checkbox adds another below it.
AddBelow(p) ==
    /\ Here(p) /\ ValueIn(lists.contents, IdAt(p)).kind = "checkbox"
    /\ Does(Append(Adding("checkbox", p[1] + 1), [do |-> "last", auto |-> TRUE]))
InsertAbove(p, kind) == Here(p) /\ Does(Adding(kind, p[1]))
\* The description of a card without content.
AddTextBlock ==
    /\ OldEditor /\ Display(card, lists) = <<>>
    /\ Does(Adding("text", Len(card.order) + 1))

MoveUp(p) == Here(p) /\ p[1] > 1 /\ Does(<<Write(ArrayMove(card.order, p[1], p[1] - 1))>>)
MoveDown(p) == Here(p) /\ p[1] < Len(card.order) /\ Does(<<Write(ArrayMove(card.order, p[1], p[1] + 1))>>)
DeleteFromMenu(p) ==
    /\ Here(p) /\ Fits(card.order, p)
    /\ Does(<<Delete(IdAt(p)), Write(Without(card.order, p))>>)
\* The checkbox just added, left empty: entry x of the order goes, a row as a whole.
DeleteEmptied(p) ==
    /\ Here(p) /\ IdAt(p) = lastAdded.id /\ lastAdded.auto
    /\ Act /\ Start(<<Delete(IdAt(p)), Write(RemoveAt(card.order, p[1]))>>) /\ drop' = NoDrop
    /\ mishaps' = mishaps \cup Mishap("row", card.order[p[1]].row)
    /\ UNCHANGED <<newEditor, server, pool, news, uploading, client, typed>>

\* moveBlock.  Left of the first of a row only; a row's own edges are no blocks.
Targets ==
    {<<p, "right">> : p \in Places(Display(card, lists))}
      \cup {<<p, "left">> : p \in {q \in Places(Display(card, lists)) : q[2] <= 1}}
      \cup {<<<<x, 0>>, "aboveRow">> : x \in DOMAIN Display(card, lists)}
      \cup {<<<<x, 0>>, "belowRow">> : x \in {Len(Display(card, lists))} \ {0}}
MoveBlock(p, target) ==
    LET dst == target[1]
        d == Display(card, lists)
        new == Rearranged(card.order, p, dst, target[2])
    IN /\ Here(p) /\ target \in Targets
       /\ Fits(card.order, p) /\ Fits(card.order, dst)
       /\ dst \in Places(d) => At(d, p) # At(d, dst)
       /\ Act /\ Start(<<Write(new)>>)
       /\ drop' = IF d = card.order THEN [old |-> d, new |-> new, src |-> p, dst |-> dst, to |-> target[2]] ELSE NoDrop
       /\ UNCHANGED <<newEditor, server, pool, news, uploading, client, typed, mishaps>>

\* useImagePaste: as many images as were uploaded, maybe none.
Paste(n) ==
    Does((IF n = 0 THEN <<>> ELSE <<Insert("image", n), [do |-> "blocks"]>>) \o <<Write(Append(card.order, Slot))>>)

\* CheckboxElement: the patch is made from the block as the store has it.
Toggle(p) ==
    /\ p \in DOMAIN active
    /\ Act /\ Start(<<[do |-> "value", id |-> p[3], new |-> ~active[p], old |-> ValueIn(lists.contents, p[3]).value]>>)
    /\ active' = [active EXCEPT ![p] = ~@] /\ drop' = NoDrop
    /\ UNCHANGED <<newEditor, server, pool, news, uploading, card, lists, title, lastAdded, typed, mishaps>>

\* The new editor: onBlockCreated, onBlockModified, onBlockMoved.
CreateBlock(kind, after) ==
    LET at == SelectInSeq(card.order, LAMBDA e : e = Single(after))
        order == IF at = 0 THEN Append(card.order, Slot) ELSE InsertAt(card.order, at + 1, Slot)
    IN /\ newEditor /\ after \in ShownIds \cup {New}
       /\ Does(<<Insert(kind, 1), Write(order), [do |-> "card", kind |-> kind, order |-> order]>>)
ModifyBlock(id) ==
    /\ newEditor /\ id \in ShownIds
    /\ LET b == ValueIn(lists.contents, id)
       IN \/ b.kind = "checkbox" /\ Does(<<[do |-> "value", id |-> id, new |-> ~b.value, old |-> b.value]>>)
          \/ b.kind = "text" /\ Does(<<Delete(id)>>)    \* the text was emptied
DropBlock(id, dst) ==
    LET pos(i) == SelectInSeq(Ids(Display(card, lists)), LAMBDA j : j = i)
    IN /\ newEditor /\ id # dst /\ {id, dst} \subseteq ShownIds /\ Single(id) \in ToSet(card.order)
       /\ Does(<<[do |-> "move", id |-> id, dst |-> dst, where |-> IF pos(id) > pos(dst) THEN "before" ELSE "after"]>>)

\* CommentsList, Comment, AttachmentElement.
SendComment == Does(<<Insert("comment", 1)>>)
DeleteComment(id) == id \in IdsOf(lists.comments) /\ Does(<<Delete(id)>>)
DeleteAttachment(id) == id \in IdsOf(lists.attachments) \ uploading /\ Does(<<Delete(id)>>)

\* CardDialog's addElement: a placeholder is in the store until the upload is answered.
Placeholder == 100 + acts
SelectAttachment ==
    /\ Act /\ uploading' = uploading \cup {Placeholder}
    /\ Rendered(card, [lists EXCEPT !.attachments =
          UpdateAttachment(@, News(Placeholder, [kind |-> "attachment", value |-> FALSE, live |-> TRUE])).list])
    /\ drop' = NoDrop
    /\ UNCHANGED <<newEditor, server, pool, news, scripts, lastAdded, typed, mishaps>>
\* A status other than 200 is not looked at: the placeholder stays.
UploadAnswered(id, fileId) ==
    /\ id \in uploading /\ uploading' = uploading \ {id}
    /\ Rendered(card, [lists EXCEPT !.attachments = RemoveFrom(@, News(id, Dead)).list])
    /\ IF fileId THEN Start(<<Insert("attachment", 1)>>) ELSE UNCHANGED scripts
    /\ UNCHANGED <<newEditor, server, pool, news, lastAdded, history, acts>>

\* The title: typed, saved when it loses the focus or the dialog closes, or given up.
TypeTitle(t) ==
    /\ Act /\ t # title /\ title' = t /\ typed' = TRUE /\ drop' = NoDrop
    /\ UNCHANGED <<newEditor, server, transit, card, lists, active, lastAdded, mishaps>>
SaveTitle ==
    /\ typed /\ typed' = FALSE
    /\ IF title = card.title THEN UNCHANGED scripts ELSE Start(<<[do |-> "title", title |-> title]>>)
    /\ UNCHANGED <<newEditor, server, pool, news, uploading, client, drop, mishaps, acts>>
CancelTitle ==
    /\ typed /\ typed' = FALSE /\ title' = card.title
    /\ UNCHANGED <<newEditor, server, transit, card, lists, active, lastAdded, drop, mishaps, acts>>

-----------------------------------------------------------------------------
(* Another user, whose client knows what the server has.                   *)

Another(r, b, sent, put) ==
    /\ Act /\ row' = r /\ blocks' = b /\ news' = news \o sent /\ pool' = pool \o put /\ drop' = NoDrop
    /\ UNCHANGED <<newEditor, scripts, uploading, client, typed, mishaps>>
Gone(id) == [blocks EXCEPT ![id].live = FALSE]
AnotherRenames(t) == LET r == [row EXCEPT !.title = t] IN t # row.title /\ Another(r, blocks, <<>>, <<News(Card, r)>>)
AnotherReorders == 
    LET r == [row EXCEPT !.order = Append(Tail(@), Head(@))]
    IN Len(row.order) > 1 /\ Another(r, blocks, <<>>, <<News(Card, r)>>)
AnotherComments ==
    LET b == [kind |-> "comment", value |-> FALSE, live |-> TRUE]
    IN Another(row, Append(blocks, b), <<News(NewId, b)>>, <<>>)
AnotherUncomments(id) == id \in LiveOf({"comment"}) /\ Another(row, Gone(id), <<>>, <<News(id, Dead)>>)
AnotherAdds ==
    LET b == [kind |-> "text", value |-> FALSE, live |-> TRUE]
        r == [row EXCEPT !.order = Append(@, Single(NewId))]
    IN Another(r, Append(blocks, b), <<News(NewId, b)>>, <<News(Card, r)>>)
AnotherDeletes(p) ==
    LET r == [row EXCEPT !.order = Without(@, p)]
        id == At(row.order, p)
    IN /\ p \in Places(row.order) /\ Live(id)
       /\ Another(r, Gone(id), <<>>, <<News(id, Dead), News(Card, r)>>)
AnotherToggles(id) ==
    LET b == [blocks[id] EXCEPT !.value = ~@]
    IN id \in LiveOf({"checkbox"}) /\ Another(row, [blocks EXCEPT ![id] = b], <<>>, <<News(id, b)>>)

Edits ==
    \/ \E kind \in {"text", "checkbox"} :
         AddFromMenu(kind) \/ (\E p \in Places(Display(card, lists)) : InsertAbove(p, kind))
           \/ (\E after \in ShownIds \cup {New} : CreateBlock(kind, after))
    \/ \E p \in Places(Display(card, lists)) :
         AddBelow(p) \/ MoveUp(p) \/ MoveDown(p) \/ DeleteFromMenu(p) \/ DeleteEmptied(p)
           \/ (\E target \in Targets : MoveBlock(p, target))
    \/ AddTextBlock
    \/ \E n \in 0..2 : Paste(n)
    \/ \E p \in DOMAIN active : Toggle(p)
    \/ \E id \in ShownIds : ModifyBlock(id) \/ (\E dst \in ShownIds : DropBlock(id, dst))
    \/ SendComment \/ SelectAttachment
    \/ \E id \in IdsOf(lists.comments) : DeleteComment(id)
    \/ \E id \in IdsOf(lists.attachments) : DeleteAttachment(id)
    \/ \E t \in Titles : TypeTitle(t)
AnotherActs ==
    \/ AnotherReorders \/ AnotherComments \/ AnotherAdds
    \/ \E t \in Titles : AnotherRenames(t)
    \/ \E id \in DOMAIN blocks : AnotherUncomments(id) \/ AnotherToggles(id)
    \/ \E p \in Places(row.order) : AnotherDeletes(p)
System ==
    \/ \E n \in DOMAIN news : Flush(n)
    \/ \E i \in DOMAIN pool : Send(i)
    \/ \E i \in DOMAIN scripts : Continue(i)
    \/ \E id \in uploading, fileId \in BOOLEAN : UploadAnswered(id, fileId)
    \/ SaveTitle \/ CancelTitle
Next == Edits \/ AnotherActs \/ System
Spec == Init /\ [][Next]_vars
-----------------------------------------------------------------------------
(* Properties.                                                             *)

Quiet == scripts = <<>> /\ pool = <<>> /\ news = <<>> /\ uploading = {}
NoneOf(names) == mishaps \cap names = {}

(* Once what was started is done, the card's order lists every content of  *)
(* the card once: an operation writes the whole order it knew, and places  *)
(* blocks by their position among those shown.  Excused are an order       *)
(* written over one its writer did not know, a client that lost blocks,    *)
(* and deleteElement taking a whole row.  Only the new editor leaves ids   *)
(* of deleted blocks.                                                      *)
ContentsStayListed ==
    TypeOK /\ (scripts = <<>> /\ NoneOf({"over", "cut", "row"}) =>
       /\ \A id \in LiveOf(Contents) : Times(row.order, id) = 1
       /\ OldEditor => \A id \in ToSet(Ids(row.order)) : Live(id))

(* A block that is dropped lands where the mark shows: directly left or    *)
(* right of the block in one row with it, or in a row of its own above or  *)
(* below, and all other blocks keep their order.                           *)
DragLandsWhereDropped ==
    drop # NoDrop =>
       LET id == At(drop.old, drop.src)
           dst == At(drop.old, drop.dst)
           at == CHOOSE p \in Places(drop.new) : At(drop.new, p) = id
           others == SelectSeq(drop.old[drop.dst[1]].ids, LAMBDA i : i # id)
       IN /\ IdsWithout(drop.new, id) = IdsWithout(drop.old, id) /\ Times(drop.new, id) = 1
          /\ CASE drop.to = "right"    -> at[2] > 1 /\ At(drop.new, <<at[1], at[2] - 1>>) = dst
               [] drop.to = "left"     -> drop.new[at[1]].ids[at[2] + 1] = dst
               [] drop.to = "aboveRow" -> at[2] = 0 /\ drop.new[at[1] + 1].ids = others
               [] drop.to = "belowRow" -> at[2] = 0 /\ drop.new[at[1] - 1].ids = others

(* When nothing is under way the store has the server's card, contents,    *)
(* comments and attachments, and so the badges count what is there.        *)
(* Excused are the mishaps: a reducer returned early, broadcasts overtook  *)
(* each other, a copy made before replaced a newer one.                    *)
Agrees(list, kinds) ==
    LET of == {id \in IdsOf(list) : ValueIn(list, id).kind \in kinds}
    IN of = LiveOf(kinds) /\ \A id \in of : ValueIn(list, id) = blocks[id] /\ Cardinality({i \in DOMAIN list.at : list.at[i].id = id}) = 1
StoreFollowsServer ==
    Quiet /\ NoneOf({"cut", "swapped", "clobbered"}) =>
       /\ card = row
       /\ Agrees(lists.contents, Contents) /\ Agrees(lists.comments, {"comment"}) /\ Agrees(lists.attachments, {"attachment"})

(* A dialog at rest shows the card's title and what its boxes are, whoever *)
(* changed them last, so that closing it writes nothing over another's     *)
(* change.  Excused are two changes of one block merged into one update,   *)
(* which the effects then do not see.                                      *)
DialogShowsServer ==
    Quiet /\ NoneOf({"cut", "swapped", "clobbered", "merged"}) =>
       /\ ~typed => title = row.title
       /\ \A p \in DOMAIN active : active[p] = blocks[p[3]].value

(* The two together: another user's changes reach the store, and with it   *)
(* the dialog.                                                             *)
CardFollowsServer == StoreFollowsServer /\ DialogShowsServer
=================================================================================
