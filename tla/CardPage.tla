------------------------------ MODULE CardPage ------------------------------
(***************************************************************************)
(* The page of a board in the web client: its cards are opened, selected,  *)
(* added, duplicated, made from templates and deleted, while answers and   *)
(* broadcasts of the server arrive.                                        *)
(*                                                                         *)
(* What a user starts is a script: requests, and what the client does with *)
(* their answers, with the page, the selection and the order of the view   *)
(* as they were when the user acted, as the closures of the components     *)
(* keep them.  Requests are handled in any order; broadcasts arrive in the *)
(* order the server made the changes.                                      *)
(*                                                                         *)
(* All cards pass the filters and are sorted by hand.  The loads of a page *)
(* are answered at once (Navigation has them late).  One request of all    *)
(* may fail: it does nothing at the server, and is refused or has no       *)
(* answer.                                                                 *)
(***************************************************************************)
EXTENDS Integers, Sequences, SequencesExt, FiniteSets

CONSTANTS Views,      \* the views of two boards
          BoardOf,    \* the board of each view
          TypeOf,     \* its type
          FirstCards, \* the cards there are at first, with their boards
          MaxActs,    \* what the user does is bounded by this
          MaxOthers   \* what other users do

ASSUME CardPageAssumption ==
    /\ Views \subseteq Nat \ {0} /\ 1 \in Views /\ DOMAIN BoardOf = Views
    /\ FirstCards \in Seq({BoardOf[v] : v \in Views})
    /\ TypeOf \in [Views -> {"board", "table", "gallery"}]
    /\ MaxActs \in Nat /\ MaxOthers \in Nat

VARIABLES page,      \* the address: board, view and open card
          current,   \* the open card according to the store
          selected,  \* selectedCardIds of the center panel
          asked,     \* the card whose deletion is to be confirmed
          stored,    \* the cards and templates in the store
          orders,    \* the cardOrder of each view in the store
          defaults,  \* the default template of each view
          rows,      \* the cards of the server
          orderRows, \* the cardOrder of each view at the server
          missed,    \* history: the additions it has only a part of
          scripts,   \* what is under way
          news,      \* broadcasts not yet arrived
          added,     \* the last addition, which can be undone
          mishaps,   \* what the properties excuse
          acts,      \* what the user may still do
          others     \* what other users did

address == <<page, current, selected, asked>>
store == <<stored, orders, defaults>>
server == <<rows, orderRows, missed>>
bounds == <<acts, others>>
pageVars == <<address, store, server, scripts, news, added, mishaps, bounds>>

NoCard == 0
NoView == 0
Ids == DOMAIN rows
Boards == {BoardOf[v] : v \in Views}
FirstView(b) == CHOOSE v \in Views : BoardOf[v] = b /\ \A w \in Views : BoardOf[w] = b => v <= w
LiveOn(b) == {c \in Ids : rows[c].live /\ rows[c].board = b}
Known(c) == c \in stored
Templates == {c \in stored : rows[c].template /\ rows[c].board = page.board}
HasView == page.view # NoView
\* Which component shows the view, and so what can be done with its cards.
Type == TypeOf[page.view]

\* getCurrentViewCardsSortedFilteredAndGrouped, sorted by hand: cards without a
\* place in the order come last.
Here == {c \in stored : rows[c].board = page.board /\ ~rows[c].template}
ShownCards ==
    LET order == SelectSeq(orders[page.view], LAMBDA c : c \in Here)
    IN order \o SetToSortSeq(Here \ ToSet(order), LAMBDA a, b : a < b)

\* getCurrentCard: templates are kept elsewhere.
CurrentCard == IF current \in stored /\ ~rows[current].template THEN current ELSE NoCard

Dialog == HasView /\ page.card # NoCard

FirstRow(b) == [board |-> b, to |-> NoView, template |-> FALSE, titled |-> TRUE, live |-> TRUE]
FirstTemplate == [FirstRow(BoardOf[1]) EXCEPT !.template = TRUE]
\* The template is the default of every view of its board, or of none: setDefaultTemplate
\* makes the other states.
Opened ==
    /\ rows = [c \in DOMAIN FirstCards |-> FirstRow(FirstCards[c])] \o <<FirstTemplate>>
    /\ orderRows = [v \in Views |-> SetToSeq({c \in DOMAIN FirstCards : FirstCards[c] = BoardOf[v]})]
    /\ page \in [board : Boards, view : Views, card : {NoCard}]
    /\ page.board = BoardOf[page.view]
    /\ stored = LiveOn(page.board) /\ orders = orderRows
    /\ \E c \in {NoCard, Len(rows)} : defaults = [v \in Views |-> IF BoardOf[v] = BoardOf[1] THEN c ELSE NoCard]
    /\ current = NoCard /\ selected = <<>> /\ asked = NoCard
    /\ scripts = <<>> /\ news = <<>> /\ added = <<>> /\ mishaps = {} /\ missed = {} /\ others = 0
Init == Opened /\ acts = MaxActs
-----------------------------------------------------------------------------
(* The address and the store.                                              *)

Mishap(name, happened) == IF happened THEN {name} ELSE {}
\* The card is being deleted, or it is and the store does not know it yet.
Doomed(c) == ~rows[c].live \/ \E i \in DOMAIN scripts : scripts[i].card = c /\ Contains(scripts[i].todo, "delete")

\* A change of the board loads its cards and views, which may be without an
\* addition that is not yet written.
GoTo(to, ids, lists, slip) ==
    /\ page' = to
    /\ stored' = IF to.board # page.board THEN LiveOn(to.board) ELSE ids
    /\ orders' = IF to.board # page.board THEN orderRows ELSE lists
    /\ mishaps' = mishaps \cup slip \cup Mishap("older", \E v \in Views : ~(ToSet(lists[v]) \subseteq ToSet(orders'[v])))

\* showCard of the workspace and of the center panel, as the closures that were
\* rendered at `at', with a selection or not, have it.
ShowCard(at, hadSelection, c, ids, lists) ==
    /\ GoTo([at EXCEPT !.card = c], ids, lists, Mishap("doomed", c # NoCard /\ Doomed(c)))
    /\ current' = c
    /\ selected' = IF hadSelection THEN <<>> ELSE selected
    /\ asked' = IF asked = page.card \/ at.board # page.board THEN NoCard ELSE asked
ShowHere(c) == ShowCard(page, selected # <<>>, c, stored, orders)

\* Mutant: a deleted card stays in the store.
UpdatedCardsKeepDeleted(n) == stored \cup {n.card}
\* updateCards
UpdatedCards(n) == IF n.live THEN stored \cup {n.card} ELSE stored \ {n.card}

\* updateCards and updateViews, for one broadcast.
Deliver ==
    /\ news # <<>> /\ news' = Tail(news)
    /\ LET n == Head(news)
       IN IF n.view # NoView
          THEN /\ orders' = [orders EXCEPT ![n.view] = n.order]
               /\ mishaps' = mishaps \cup Mishap("older", ~(ToSet(orders[n.view]) \subseteq ToSet(n.order)))
               /\ UNCHANGED <<stored, asked>>
          ELSE /\ stored' = UpdatedCards(n)
               /\ asked' = IF ~n.live /\ asked = n.card /\ page.card # asked THEN NoCard ELSE asked
               /\ UNCHANGED <<orders, mishaps>>
    /\ UNCHANGED <<page, current, selected, defaults, server, scripts, added, bounds>>
-----------------------------------------------------------------------------
(* The server.                                                             *)

CardNews(c, live) == [view |-> NoView, card |-> c, order |-> <<>>, live |-> live]
ViewNews(v, order) == [view |-> v, card |-> NoCard, order |-> order, live |-> TRUE]

Failed == mishaps \cap {"failed", "blank"} # {}
Step(i, name) == Head(scripts[i].todo) = name
Drop(i) == RemoveAt(scripts, i)
Done(i, s) == IF Len(s.todo) = 1 THEN Drop(i) ELSE [scripts EXCEPT ![i] = [s EXCEPT !.todo = Tail(@)]]

RowOf(s, titled) == [board |-> s.at.board, to |-> IF s.list THEN s.at.view ELSE NoView,
                     template |-> s.template, titled |-> titled, live |-> TRUE]
InsertBlock(i) ==
    /\ Step(i, "insert")
    /\ LET s == scripts[i]
           c == Len(rows) + 1
       IN /\ rows' = Append(rows, RowOf(s, FALSE))
          /\ scripts' = Done(i, [s EXCEPT !.new = c])
          /\ news' = Append(news, CardNews(c, TRUE))
    /\ UNCHANGED <<address, store, orderRows, missed, added, mishaps, bounds>>

\* The request of insertBlock fails, or that of duplicateBlock is not answered: the
\* handler throws before it does anything.
InsertFails(i) ==
    /\ Head(scripts[i].todo) \in {"insert", "duplicate"} /\ ~Failed
    /\ scripts' = Drop(i) /\ mishaps' = mishaps \cup {"failed"}
    /\ UNCHANGED <<address, store, server, news, added, bounds>>

\* duplicateBlock, and the patch of title and properties that follows it.
DuplicateBlock(i) ==
    /\ Step(i, "duplicate")
    /\ LET s == scripts[i]
           c == Len(rows) + 1
       IN /\ rows[s.card].live
          /\ rows' = Append(rows, RowOf(s, s.template \/ ~rows[s.card].template))
          /\ scripts' = Done(i, [s EXCEPT !.new = c])
          /\ news' = Append(news, CardNews(c, TRUE))
    /\ UNCHANGED <<address, store, orderRows, missed, added, mishaps, bounds>>

\* The card is gone or the request is refused: duplicateCard returns an empty id
\* and runs no callback, and what follows it goes on.
DuplicateFails(i) ==
    /\ Step(i, "duplicate")
    /\ LET s == scripts[i]
       IN /\ rows[s.card].live => ~Failed
          /\ scripts' = IF s.list THEN [scripts EXCEPT ![i].todo = <<"order">>, ![i].new = NoCard] ELSE Drop(i)
          /\ mishaps' = mishaps \cup {IF s.list THEN "blank" ELSE "failed"}
    /\ UNCHANGED <<address, store, server, news, added, bounds>>

\* The patch fails: the copy has the title of the card.  When there is no answer,
\* nothing that follows is done.
CopyPatchFails(i) ==
    /\ Step(i, "duplicate") /\ ~Failed
    /\ LET s == scripts[i]
           c == Len(rows) + 1
       IN /\ rows[s.card].live
          /\ rows' = Append(rows, RowOf(s, rows[s.card].titled))
          /\ news' = Append(news, CardNews(c, TRUE))
          /\ \/ scripts' = Drop(i) /\ missed' = missed \cup {[s EXCEPT !.list = FALSE, !.new = c]}
             \/ scripts' = Done(i, [s EXCEPT !.new = c]) /\ missed' = missed
    /\ mishaps' = mishaps \cup {"failed"}
    /\ UNCHANGED <<address, store, orderRows, added, bounds>>

\* changeViewCardOrder, with the order of the view when the user acted.
WriteOrder(i) ==
    /\ Step(i, "order")
    /\ LET s == scripts[i]
           order == Append(s.base, s.new)
           earlier == \E j \in 1 .. i - 1 : scripts[j].list /\ scripts[j].at.view = s.at.view
       IN /\ orderRows' = [orderRows EXCEPT ![s.at.view] = order]
          /\ news' = Append(news, ViewNews(s.at.view, order))
          /\ added' = <<s>> /\ scripts' = Drop(i)
          /\ mishaps' = mishaps \cup Mishap("crossed", earlier)
    /\ UNCHANGED <<address, store, rows, missed, bounds>>

DeleteBlock(i) ==
    /\ Step(i, "delete")
    /\ LET s == scripts[i]
       IN /\ rows' = [rows EXCEPT ![s.card].live = FALSE]
          /\ scripts' = Done(i, s)
          /\ news' = IF rows[s.card].live THEN Append(news, CardNews(s.card, FALSE)) ELSE news
    /\ UNCHANGED <<address, store, orderRows, missed, added, mishaps, bounds>>

\* The undo of an addition first puts the order of the view back.
PutOrderBack(i) ==
    /\ Step(i, "unorder")
    /\ LET s == scripts[i]
       IN /\ orderRows' = [orderRows EXCEPT ![s.at.view] = s.base]
          /\ news' = Append(news, ViewNews(s.at.view, s.base))
          /\ scripts' = Done(i, s)
          /\ mishaps' = mishaps \cup Mishap("undone", orderRows[s.at.view] \notin {s.base, Append(s.base, s.card)})
    /\ UNCHANGED <<address, store, rows, missed, added, bounds>>

\* The request for an order or a deletion fails.  Its answer is not looked at and
\* the script goes on; when there is none it ends, and of an addition only the
\* card is recorded to be undone.  The order in the store is not taken back.
RequestFails(i) ==
    /\ Head(scripts[i].todo) \in {"order", "delete", "unorder"} /\ ~Failed
    /\ LET s == scripts[i]
       IN /\ \E ends \in BOOLEAN :
                /\ scripts' = IF ends THEN Drop(i) ELSE Done(i, s)
                /\ added' = IF s.list THEN <<[s EXCEPT !.list = ~ends]>> ELSE added
          /\ missed' = IF Step(i, "unorder") THEN missed ELSE missed \cup {s}
    /\ mishaps' = mishaps \cup {"failed"}
    /\ UNCHANGED <<address, store, rows, orderRows, news, bounds>>

Serve(i) == \/ InsertBlock(i) \/ InsertFails(i) \/ DuplicateBlock(i) \/ DuplicateFails(i) \/ CopyPatchFails(i)
            \/ WriteOrder(i) \/ DeleteBlock(i) \/ PutOrderBack(i) \/ RequestFails(i)
-----------------------------------------------------------------------------
(* What the client does with the answers.                                  *)

\* Mutant: the view does not list the card before the server says so.
ListedLate(s, lists) == lists
\* updateView: the view as it was when the user acted, with the new card.
Listed(s, lists) == IF s.list THEN [lists EXCEPT ![s.at.view] = Append(s.base, s.new)] ELSE lists

\* The callback of insertBlock: the card is opened, or gets the focus.
CardAdded(i) ==
    /\ Step(i, "added")
    /\ LET s == scripts[i]
       IN /\ scripts' = Done(i, s)
          /\ IF s.show THEN ShowCard(s.at, s.hadSelection, s.new, stored \cup {s.new}, Listed(s, orders))
             ELSE UNCHANGED <<address, stored, orders, mishaps>>
    /\ UNCHANGED <<defaults, server, news, added, bounds>>

\* The same of duplicateCard, which puts the copies in the store.
CardCopied(i) ==
    /\ Step(i, "copied")
    /\ LET s == scripts[i]
       IN /\ scripts' = Done(i, s)
          /\ IF s.show THEN ShowCard(s.at, s.hadSelection, s.new, stored \cup {s.new}, Listed(s, orders))
             ELSE /\ stored' = stored \cup {s.new}
                  /\ mishaps' = mishaps \cup Mishap("doomed", Doomed(s.new))
                  /\ UNCHANGED <<address, orders>>
    /\ UNCHANGED <<defaults, server, news, added, bounds>>

\* onClose after a deletion in the dialog, and showCard(undefined) before an undo.
DialogClosed(i) ==
    /\ Step(i, "close")
    /\ scripts' = Done(i, scripts[i])
    /\ ShowCard(scripts[i].at, scripts[i].hadSelection, NoCard, stored, orders)
    /\ UNCHANGED <<defaults, server, news, added, bounds>>

Continue(i) == CardAdded(i) \/ CardCopied(i) \/ DialogClosed(i)
-----------------------------------------------------------------------------
(* What the user does.                                                     *)

Act == acts > 0 /\ acts' = acts - 1 /\ UNCHANGED others
Free == HasView /\ ~Dialog /\ asked = NoCard     \* no dialog covers the page
Still == UNCHANGED <<defaults, server, scripts, news, added>>
Looks == Still /\ Act
\* What only answers a dialog is not counted.
Answered == Still /\ UNCHANGED bounds

\* cardClicked: a plain click opens the card, but not in a table.
CardClicked(c) == Free /\ c \in Here /\ Type # "table" /\ Looks /\ ShowHere(c)
\* The button `Open' of a row, and `Edit' of a template.
OpenButton(c) == Free /\ c \in Here /\ Type = "table" /\ Looks /\ ShowHere(c)
EditCardTemplate(t) == Free /\ t \in Templates /\ Looks /\ ShowHere(t)
\* The close button, the escape key and the backdrop of the dialog.
CloseDialog == Dialog /\ asked = NoCard /\ Answered /\ ShowHere(NoCard)

Select(ids) == selected' = ids /\ Looks /\ UNCHANGED <<page, current, asked, stored, orders, mishaps>>
\* A click with shift.
ToggleSelected(c) ==
    /\ Free /\ c \in Here
    /\ Select(IF Contains(selected, c) THEN SelectSeq(selected, LAMBDA x : x # c) ELSE Append(selected, c))
\* A click with shift and control extends the selection from its last card, when
\* that is shown.
ExtendSelection(c) ==
    /\ Free /\ selected # <<>> /\ c \in Here
    /\ LET from == SelectInSeq(ShownCards, LAMBDA x : x = Last(selected))
           to == SelectInSeq(ShownCards, LAMBDA x : x = c)
           range == IF from = 0 THEN (IF to = Len(ShownCards) THEN <<c>> ELSE <<>>)
                    ELSE IF from < to THEN SubSeq(ShownCards, from, to) ELSE SubSeq(ShownCards, to, from)
       IN Select(selected \o SelectSeq(range, LAMBDA x : ~Contains(selected, x)))
\* The escape key and a click on the background.
ClearSelection == Free /\ selected # <<>> /\ Select(<<>>)

Script(todo, c, template, show, list) ==
    [todo |-> todo, card |-> c, template |-> template, show |-> show, list |-> list, at |-> page,
     hadSelection |-> selected # <<>>, base |-> IF list THEN orders[page.view] ELSE <<>>, new |-> NoCard]

\* An addition that does not know the outcome of another in its view, or no longer.
Blind == \/ \E i \in DOMAIN scripts : LET s == scripts[i] IN
               /\ s.list /\ s.at.view = page.view
               /\ \/ ~s.show \/ Head(s.todo) # "order"
                  \/ "older" \in mishaps /\ ~Contains(orders[page.view], s.new)
         \/ \E k \in DOMAIN news : news[k].view = page.view /\ news[k].order # orders[page.view]
         \/ \E i \in DOMAIN scripts : Head(scripts[i].todo) = "unorder"
Adds(new) == scripts' = scripts \o new /\ UNCHANGED <<defaults, server, news, added>>
Starts(new) == Adds(new) /\ Act
Runs(s) ==
    /\ Starts(<<s>>) /\ UNCHANGED <<address, stored, orders>>
    /\ mishaps' = mishaps \cup Mishap("blind", s.list /\ Blind)

\* addCard: the new cards of a table are not opened.
AddCard(show) == Runs(Script(<<"insert", "added", "order">>, NoCard, FALSE, show, TRUE))
\* addCardFromTemplate
AddCardFromTemplate(t) == Runs(Script(<<"duplicate", "copied", "order">>, t, FALSE, TRUE, TRUE))
\* addCardTemplate
AddCardTemplate == Free /\ Runs(Script(<<"insert", "added">>, NoCard, TRUE, TRUE, FALSE))

\* The button `New' of the header: the default template, when the board has it.
NewCardButton ==
    /\ Free
    /\ IF defaults[page.view] \in Templates THEN AddCardFromTemplate(defaults[page.view]) ELSE AddCard(TRUE)
\* `Empty card' of its menu, and a template of its menu.
EmptyCardButton == Free /\ AddCard(TRUE)
TemplateItem(t) == Free /\ t \in Templates /\ AddCardFromTemplate(t)
\* `+ New' of a column, of a table and of a gallery.
NewInColumn ==
    /\ Free /\ Type = "board"
    /\ IF defaults[page.view] \in Templates THEN AddCardFromTemplate(defaults[page.view]) ELSE AddCard(TRUE)
NewRow == Free /\ Type = "table" /\ AddCard(FALSE)
NewInGallery == Free /\ Type = "gallery" /\ AddCard(TRUE)

\* setDefaultTemplate and clearDefaultTemplate, which are taken as done at once.
SetDefault(t) ==
    /\ Free /\ t \in Templates \cup {NoCard} /\ t # defaults[page.view]
    /\ defaults' = [defaults EXCEPT ![page.view] = t]
    /\ Act /\ UNCHANGED <<address, stored, orders, server, scripts, news, added, mishaps>>

Deletion(c, closes) == Script(IF closes THEN <<"delete", "close">> ELSE <<"delete">>, c, FALSE, FALSE, FALSE)
\* `Delete' of a template, which other views may still have as default.
DeleteTemplate(t) ==
    /\ Free /\ t \in Templates
    /\ defaults' = [v \in Views |-> IF v = page.view /\ defaults[v] = t THEN NoCard ELSE defaults[v]]
    /\ scripts' = Append(scripts, Deletion(t, FALSE))
    /\ Act /\ UNCHANGED <<address, stored, orders, server, news, added, mishaps>>

\* The menu of a card: what has a title or contents is deleted after a question, and
\* in a gallery everything.
Ask(c) == asked = NoCard /\ asked' = c /\ Looks /\ UNCHANGED <<page, current, selected, stored, orders, mishaps>>
AskToDelete(c, closes) == IF rows[c].titled THEN Ask(c) ELSE asked = NoCard /\ Runs(Deletion(c, closes))
DuplicateFromMenu(c, show) == Free /\ Runs(Script(<<"duplicate", "copied">>, c, FALSE, show, FALSE))
KanbanCard(c) == /\ Free /\ Type = "board" /\ c \in Here
                 /\ AskToDelete(c, FALSE) \/ DuplicateFromMenu(c, TRUE)
TableRow(c) == /\ Free /\ Type = "table" /\ c \in Here
               /\ AskToDelete(c, FALSE) \/ DuplicateFromMenu(c, TRUE) \/ (c = Last(ShownCards) /\ AddCard(FALSE))
GalleryCard(c) == /\ Free /\ Type = "gallery" /\ c \in Here
                  /\ Ask(c) \/ DuplicateFromMenu(c, FALSE)

\* The question stays until its card goes; a second confirmation is left out.
Decides(new) == asked # NoCard /\ Adds(new) /\ UNCHANGED <<page, current, selected, stored, orders, mishaps, bounds>>
\* Mutant: a deletion in the dialog leaves it open.
ConfirmDeletionLeavesOpen == asked # NoCard /\ Known(asked) /\ ~Doomed(asked) /\ Decides(<<Deletion(asked, FALSE)>>) /\ UNCHANGED asked
ConfirmDeletion ==
    /\ asked # NoCard /\ Known(asked) /\ ~Doomed(asked)
    /\ Decides(<<Deletion(asked, asked = page.card)>>) /\ UNCHANGED asked
CancelDeletion == Decides(<<>>) /\ asked' = NoCard

\* The menu of the dialog.
DeleteFromDialog == Dialog /\ Known(page.card) /\ AskToDelete(page.card, TRUE)
MakeTemplate ==
    /\ Dialog /\ asked = NoCard /\ page.card = CurrentCard
    /\ Runs(Script(<<"duplicate", "copied">>, page.card, TRUE, TRUE, FALSE))

\* The keys act on the selected cards that are shown: their requests are sent
\* together and handled in any order, so that the order of the selection is lost.
SelectedShown == SetToSeq({c \in Here : Contains(selected, c)})
DeleteKey ==
    /\ Free /\ selected # <<>>
    /\ Starts([k \in DOMAIN SelectedShown |-> Deletion(SelectedShown[k], FALSE)])
    /\ selected' = <<>> /\ UNCHANGED <<page, current, asked, stored, orders, mishaps>>
DuplicateKey ==
    /\ Free /\ selected # <<>>
    /\ Starts([k \in DOMAIN SelectedShown |->
                  Script(<<"duplicate", "copied">>, SelectedShown[k], FALSE, FALSE, FALSE)])
    /\ selected' = <<>> /\ UNCHANGED <<page, current, asked, stored, orders, mishaps>>

\* The order is put back if its request was recorded, a callback closes the card,
\* and it is deleted unless it was made from a template: the undo of duplicateCard
\* finds no id in what duplicateCard returned.
UndoSteps(s) ==
    (IF s.list THEN <<"unorder">> ELSE <<>>) \o <<"close">> \o (IF s.card = NoCard THEN <<"delete">> ELSE <<>>)
\* The undo of the last addition.
UndoAddition ==
    /\ Free /\ scripts = <<>> /\ added # <<>> /\ added[1].new # NoCard
    /\ LET s == added[1]
       IN /\ scripts' = <<[s EXCEPT !.todo = UndoSteps(s), !.card = s.new, !.list = FALSE]>>
          /\ missed' = IF s.card = NoCard THEN missed ELSE missed \cup {[s EXCEPT !.list = FALSE]}
    /\ added' = <<>> /\ Act /\ UNCHANGED <<address, store, rows, orderRows, news, mishaps>>

\* showBoard and showView of the sidebar.
OpenView(v) ==
    /\ ~Dialog /\ asked = NoCard /\ v # page.view
    /\ GoTo([board |-> BoardOf[v], view |-> v, card |-> NoCard], stored, orders, {})
    /\ Looks /\ UNCHANGED <<current, selected, asked>>
\* The address changes and the store keeps its current card.
Leaves(to) ==
    /\ GoTo(to, stored, orders, Mishap("left", page.card # NoCard))
    /\ Looks /\ UNCHANGED <<current, selected, asked>>
\* selectBoard of the board switcher, which a key opens over any dialog: the id
\* of an open card takes the place of the view's.
SwitchBoard(b) ==
    /\ asked = NoCard /\ b # page.board
    /\ Leaves([board |-> b, view |-> IF page.card = NoCard THEN FirstView(b) ELSE NoView, card |-> NoCard])
\* The browser's button, after a card was opened.
Back == Dialog /\ asked = NoCard /\ Leaves([page EXCEPT !.card = NoCard])

AnotherActs ==
    /\ others < MaxOthers /\ others' = others + 1
    /\ \/ \E c \in LiveOn(page.board) :
             /\ rows' = [rows EXCEPT ![c].live = FALSE]
             /\ news' = Append(news, CardNews(c, FALSE)) /\ UNCHANGED orderRows
       \/ \E v \in Views :
             /\ Len(orderRows[v]) > 1
             /\ orderRows' = [orderRows EXCEPT ![v] = Reverse(@)]
             /\ news' = Append(news, ViewNews(v, orderRows'[v])) /\ UNCHANGED rows
    /\ mishaps' = mishaps \cup {"another"}
    /\ UNCHANGED <<address, store, scripts, missed, added, acts>>

Visits == \/ CloseDialog \/ Back
          \/ \E c \in Ids : CardClicked(c) \/ OpenButton(c)
          \/ \E v \in Views : OpenView(v)
          \/ \E b \in Boards : SwitchBoard(b)
Edits ==
    \/ \E c \in Ids : \/ EditCardTemplate(c) \/ ToggleSelected(c) \/ ExtendSelection(c)
                      \/ TemplateItem(c) \/ DeleteTemplate(c) \/ KanbanCard(c) \/ TableRow(c) \/ GalleryCard(c)
    \/ \E t \in Ids \cup {NoCard} : SetDefault(t)
    \/ ClearSelection \/ DeleteKey \/ DuplicateKey
    \/ AddCardTemplate \/ NewCardButton \/ EmptyCardButton \/ NewInColumn \/ NewRow \/ NewInGallery
    \/ ConfirmDeletion \/ CancelDeletion \/ DeleteFromDialog \/ MakeTemplate \/ UndoAddition
Answers == Deliver \/ \E i \in DOMAIN scripts : Serve(i) \/ Continue(i)

Next == Visits \/ Edits \/ AnotherActs \/ Answers
Spec == Init /\ [][Next]_pageVars
-----------------------------------------------------------------------------
(* Properties.                                                             *)

Quiet == scripts = <<>> /\ news = <<>>
NoneOf(names) == mishaps \cap names = {}

\* At rest the open card exists on the open board, unless someone else deleted
\* it or it was opened while the user's own deletion of it was under way.
\* (cardDialog.tsx, centerPanel.tsx: what opens and closes cards after an answer)
OpenCardExists ==
    Quiet /\ Dialog /\ NoneOf({"doomed", "another"}) =>
        rows[page.card].live /\ rows[page.card].board = page.board

\* At rest every card that was added in a view is in its order, unless the request
\* for that very order failed or the addition was undone in part; and nothing that is
\* no card is in it.  Excused are additions made without knowing the outcome of
\* another one, two orders handled in another order than sent, someone else who moved
\* cards, and a copy of a template that failed.
\* (centerPanel.tsx addCard and addCardFromTemplate: each writes the whole order)
AddedStaysListed ==
    Quiet /\ NoneOf({"blind", "crossed", "another", "blank", "undone"}) =>
        /\ \A c \in Ids : rows[c].live /\ rows[c].to # NoView =>
              c \in ToSet(orderRows[rows[c].to]) \/ \E s \in missed : s.new = c
        /\ \A v \in Views : NoCard \notin ToSet(orderRows[v])

\* The open card exists; and at rest the page shows the cards of the server, unless a
\* card was put in the store after its deletion, and the order the server has of each
\* view, or that of the one request that failed to write it.
\* (the callbacks of centerPanel.tsx and mutator.ts write the store besides broadcasts)
PageFollowsServer ==
    /\ OpenCardExists
    /\ Quiet => \A v \in Views : BoardOf[v] = page.board =>
          \/ orders[v] = orderRows[v]
          \/ \E s \in missed : s.list /\ s.at.view = v /\ orders[v] = Append(s.base, s.new)
    /\ Quiet /\ NoneOf({"doomed"}) => {c \in stored : rows[c].board = page.board} = LiveOn(page.board)
=============================================================================
