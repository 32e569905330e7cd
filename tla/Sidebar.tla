-------------------------------- MODULE Sidebar --------------------------------
(***************************************************************************)
(* The boards of one user of one team, and the categories the sidebar      *)
(* shows them in: the requests as the server handles them (app/category.go,*)
(* app/category_boards.go, app/boards.go), the broadcasts about them, and  *)
(* the user's web client (store/sidebar.ts, store/boards.ts, the sidebar's *)
(* components, pages/boardPage), which changes its store before, while and *)
(* after the server answers.                                               *)
(*                                                                         *)
(* Boards are private.  The order of categories and boards is left out, so *)
(* where the code takes the first that fits the model takes any.           *)
(*                                                                         *)
(* A drag to another category waits between its two dispatches for what is *)
(* no promise: the client goes on before it takes any other answer,        *)
(* message or event, while the server goes its way.                        *)
(***************************************************************************)
EXTENDS Naturals, FiniteSets

CONSTANTS
    Boards,
    Default,    \* the system category, which every user has
    Customs,    \* ids of categories the user creates
    None,       \* no board, no category
    MaxActs     \* bound: what the user and the admins of the boards do

Cats == {Default} \cup Customs
Names == {"Boards", "Other"}
ASSUME SidebarAssumption == /\ Default \notin Customs /\ Boards \cap Cats = {}
                            /\ None \notin Boards \cup Cats /\ MaxActs \in Nat

VARIABLES
    category,  \* table categories
    row,       \* table category_boards: the category of each board
    member,    \* table board_members: the boards of the user
    existing,  \* table boards
    reqs,      \* requests the server has not finished
    news,      \* broadcasts that have not reached the client, in any order
    queue,     \* WSClient.updatedData
    calls,     \* answers the client waits for
    side,      \* sidebar.categoryAttributes: what each category shown lists
    hidden,    \* sidebar.hiddenBoardIDs
    boards,    \* boards.boards
    mine,      \* boards.myBoardMemberships
    current,   \* boards.current
    drag,      \* what handleCategoryBoardDND still has to dispatch and send
    asked,     \* history: the name the user last gave to a category
    told,      \* history: what the client last heard of each membership
    raced,     \* history: two things about the same board or category overlapped
    acts       \* bounded: what the user and the admins did

server == <<category, row, member, existing>>
transit == <<reqs, news, queue, calls>>
store == <<side, hidden, boards, mine, current, drag>>
history == <<asked, told>>
vars == <<server, transit, store, history, raced, acts>>
-----------------------------------------------------------------------------
Live == {c \in Cats : category[c].state = "live"}
CalledBoards == {c \in Live : category[c].name = "Boards"}
RowsOf(c) == {b \in Boards : row[b].cat = c}
NoRow == [cat |-> None, hidden |-> FALSE]
Nil == [x \in {} |-> x]
NoQueue == [kind \in {"category", "boards", "board", "member", "order"} |-> Nil]

About(item, value) == [x \in {item} |-> value]

\* Nothing was dropped; or the user dropped a board over category to, and the
\* client has moved board moved there.
NoDrag == [board |-> None, moved |-> None, to |-> None, hidden |-> FALSE]

\* A broadcast: the new value of each item it tells about.
News(kind, new) == [kind |-> kind, new |-> new]
CategoryNews(c) == 
    News("category", About(c, [name |-> category'[c].name, deleted |-> category'[c].state = "deleted"]))

\* GetUserCategoryBoards, as the client stores it.
Categories ==
    [c \in Live |-> [name |-> category[c].name, in |-> RowsOf(c),
                     hid |-> {b \in RowsOf(c) : row[b].hidden}]]
HiddenIn(s) == UNION {s[c].hid : c \in DOMAIN s}

TypeOK ==
    /\ category \in [Cats -> [state : {"free", "live", "deleted"}, name : Names]]
    /\ row \in [Boards -> [cat : Cats \cup {None}, hidden : BOOLEAN]]
    /\ member \subseteq existing /\ existing \subseteq Boards
    /\ DOMAIN side \subseteq Cats
    /\ \A c \in DOMAIN side : /\ side[c].name \in Names
                              /\ side[c].in \subseteq Boards /\ side[c].hid \subseteq side[c].in
    /\ hidden \subseteq Boards /\ boards \subseteq Boards /\ mine \subseteq Boards
    /\ current \in Boards \cup {None}
    /\ drag = NoDrag \/ drag \in [board : Boards, moved : Boards, to : DOMAIN side, hidden : BOOLEAN]

\* Any server at rest, and a client that has loaded it.
Init ==
    /\ category \in [Cats -> [state : {"free", "live"}, name : Names]]
    /\ category[Default] = [state |-> "live", name |-> "Boards"]
    /\ \A c \in Cats : category[c].state = "free" => category[c].name = "Other"
    /\ existing \in SUBSET Boards
    /\ member \in SUBSET existing
    /\ row \in [Boards -> [cat : Live \cup {None}, hidden : BOOLEAN]]
    /\ \A b \in Boards : (row[b].cat = None) = (b \notin member) /\ (b \notin member => ~row[b].hidden)
    /\ reqs = {} /\ news = {} /\ queue = NoQueue /\ calls = {}
    /\ side = Categories /\ hidden = HiddenIn(Categories)
    /\ boards = member /\ mine = member /\ current = None /\ drag = NoDrag
    /\ asked = [c \in Cats |-> category[c].name] /\ told = [b \in Boards |-> b \in member]
    /\ raced = FALSE /\ acts = 0
-----------------------------------------------------------------------------
(* What overlaps.  Two broadcasts disagree when they tell different things *)
(* of one item; a request or an answer conflicts with whatever changes an  *)
(* item it depends on.  <<"there", c>> is that category c is there, which  *)
(* a broadcast of its boards depends on; that it goes is no matter then.   *)

Changes(x) ==
    IF "kind" \in DOMAIN x
    THEN CASE x.kind = "category"              -> DOMAIN x.new \cup {<<"there", c>> : c \in {d \in DOMAIN x.new : ~x.new[d].deleted}}
           [] x.kind = "boards"                -> DOMAIN x.new
           [] x.kind \in {"board", "member"}    -> {<<"member", b>> : b \in DOMAIN x.new}
           [] x.kind = "order"                  -> {}
    ELSE CASE x.op \in {"create", "update"}     -> {x.cat, <<"there", x.cat>>}
           [] x.op = "delete"                   -> {x.cat} \cup x.ids
           [] x.op \in {"move", "hide"}         -> {x.board}
           [] x.op = "deleteBoard"              -> {<<"member", x.board>>}
           [] x.op = "duplicate"                -> {x.new, <<"member", x.new>>}
           [] x.op = "members"                  -> {<<"member", b>> : b \in x.get \cup x.removed}
           [] x.op = "load"                     -> {<<"member", b>> : b \in Boards}
           [] x.op = "fetch"                    -> Cats \cup Boards
           [] x.op = "order"                    -> {}
DependsOn(x) ==
    IF "kind" \in DOMAIN x
    THEN CASE x.kind = "order"  -> Cats
           [] x.kind = "boards" -> {<<"there", x.new[b].cat>> : b \in DOMAIN x.new}
           [] OTHER             -> {}
    ELSE CASE x.op \in {"move", "hide"} -> {x.cat}
           [] x.op = "delete"           -> {x.to}
           [] x.op = "duplicate"        -> {x.cat, x.board}
           [] x.op = "order"            -> Cats
           [] OTHER                     -> {}
Conflicts(x, y) ==
    IF "kind" \in DOMAIN x /\ "kind" \in DOMAIN y /\ x.kind = y.kind
    THEN \E i \in DOMAIN x.new \cap DOMAIN y.new : x.new[i] # y.new[i]
    ELSE Changes(x) \cap (Changes(y) \cup DependsOn(y)) # {}

InFlight == reqs \cup calls \cup news \cup {News(kind, queue[kind]) : kind \in {k \in DOMAIN queue : queue[k] # Nil}}
Overlap == \E x, y \in InFlight : x # y /\ Conflicts(x, y)
Quiet == reqs = {} /\ news = {} /\ queue = NoQueue /\ calls = {} /\ drag = NoDrag
-----------------------------------------------------------------------------
(* The reducers of store/sidebar.ts. *)

\* Mutant: an update of a category that is deleted leaves it.
UpdateCategoriesDeletedStay(s, new) ==
    [c \in DOMAIN s \cup DOMAIN new |->
       CASE c \notin DOMAIN new -> s[c]
         [] c \notin DOMAIN s   -> [name |-> new[c].name, in |-> {}, hid |-> {}]
         [] OTHER               -> [s[c] EXCEPT !.name = new[c].name]]
\* A category the store does not have is shown, even when it is deleted.
UpdateCategories(s, new) ==
    [c \in (DOMAIN s \cup DOMAIN new) \ {d \in DOMAIN s \cap DOMAIN new : new[d].deleted} |->
       CASE c \notin DOMAIN new -> s[c]
         [] c \notin DOMAIN s   -> [name |-> new[c].name, in |-> {}, hid |-> {}]
         [] OTHER               -> [s[c] EXCEPT !.name = new[c].name]]

\* Mutant: the board is not taken out of other categories.
UpdateBoardCategoriesOthersStay(s, new) ==
    [c \in DOMAIN s |->
       LET put == {b \in DOMAIN new : new[b].cat = c}
       IN  [name |-> s[c].name, in |-> s[c].in \cup put,
            hid |-> (s[c].hid \ put) \cup {b \in put : new[b].hidden}]]
UpdateBoardCategories(s, new) ==
    [c \in DOMAIN s |->
       LET put == {b \in DOMAIN new : new[b].cat = c}
       IN  [name |-> s[c].name, in |-> (s[c].in \ DOMAIN new) \cup put,
            hid |-> (s[c].hid \ DOMAIN new) \cup {b \in put : new[b].hidden}]]
UpdateHiddenBoards(s, old, new) ==
    IF DOMAIN s = {} THEN old
    ELSE (old \ DOMAIN new) \cup {b \in DOMAIN new : new[b].hidden}

\* Categories the new order does not list are dropped.
UpdateCategoryOrder(s, order) ==
    IF DOMAIN order = {} THEN s ELSE [c \in DOMAIN s \cap DOMAIN order |-> s[c]]

\* Mutant: the effect runs when another board is shown, not when the
\* categories change.
SidebarEffectOnOpen ==
    LET named == {c \in DOMAIN side' : side'[c].name = "Boards"}
    IN  IF /\ current' # current /\ current' \in boards' /\ named # {}
           /\ \A c \in DOMAIN side' : current' \notin side'[c].in
        THEN {{[op |-> "move", board |-> current', cat |-> c]} : c \in named}
        ELSE {{}}
\* The effect of the Sidebar: the board shown gets a category.
SidebarEffect ==
    LET named == {c \in DOMAIN side' : side'[c].name = "Boards"}
    IN  IF /\ current' \in boards' /\ named # {}
           /\ \A c \in DOMAIN side' : current' \notin side'[c].in
        THEN {{[op |-> "move", board |-> current', cat |-> c]} : c \in named}
        ELSE {{}}
\* The requests r are sent, and the one of the effect.
Send(r) == \E effect \in SidebarEffect : reqs' = reqs \cup r \cup effect
-----------------------------------------------------------------------------
(* The user, who acts on what the sidebar shows, and the admins of boards. *)

ShownIn(c) == ((side[c].in \ side[c].hid) \cap boards) \cap mine
Act == acts < MaxActs /\ acts' = acts + 1
Request(r) ==
    /\ Act /\ reqs' = reqs \cup {r}
    /\ UNCHANGED <<server, news, queue, calls, store, told>>

CreateCategory(c, name) ==
    /\ category[c].state = "free" /\ \A r \in reqs : r.op = "create" => r.cat # c
    /\ Request([op |-> "create", cat |-> c, name |-> name])
    /\ asked' = [asked EXCEPT ![c] = name]

RenameCategory(c, name) ==
    /\ c \in DOMAIN side \cap Customs
    /\ Request([op |-> "update", cat |-> c, name |-> name])
    /\ asked' = [asked EXCEPT ![c] = name]

\* toggleCollapse sends the category as the client knows it.
ToggleCollapse(c) ==
    /\ c \in DOMAIN side
    /\ Request([op |-> "update", cat |-> c, name |-> side[c].name])
    /\ UNCHANGED asked

DeleteCategory(c) ==
    /\ c \in DOMAIN side \cap Customs
    /\ Request([op |-> "delete", step |-> "read", cat |-> c, ids |-> {}, to |-> None])
    /\ UNCHANGED asked

ReorderCategories ==
    /\ Request([op |-> "order", cats |-> DOMAIN side])
    /\ UNCHANGED asked

MoveBoard(b, from, to) ==
    /\ {from, to} \subseteq DOMAIN side /\ from # to /\ b \in ShownIn(from)
    /\ Request([op |-> "move", board |-> b, cat |-> to])
    /\ UNCHANGED asked

\* updateCategoryBoardsOrder sets what one category lists, and nothing else.
UpdateCategoryBoardsOrder(s, c, in, hid) ==
    [s EXCEPT ![c] = [name |-> s[c].name, in |-> in, hid |-> hid]]

\* handleCategoryBoardDND moves, in the store, the board at the index the drag
\* started from, which counts the boards shown only.  First it is added where
\* it is dropped; it leaves the other category after the await, in Drop.
Drag(b, m, from, to) ==
    /\ from # to /\ b \in ShownIn(from) /\ m \in side[from].in
    /\ Act
    /\ drag' = [board |-> b, moved |-> m, to |-> to, hidden |-> m \in side[from].hid]
    /\ side' = UpdateCategoryBoardsOrder(side, to, side[to].in \cup {m},
                    side[to].hid \cup (side[from].hid \cap {m}))
    /\ UNCHANGED <<hidden, boards, mine, current>> /\ Send({})
    /\ UNCHANGED <<server, news, queue, calls, history>>
AllShown(c) == side[c].in = ShownIn(c)
DragBoard(b, from, to) ==
    {from, to} \subseteq DOMAIN side /\ AllShown(from) /\ Drag(b, b, from, to)
DragAnother(b, m, from, to) ==
    {from, to} \subseteq DOMAIN side /\ ~AllShown(from) /\ m # b /\ Drag(b, m, from, to)

Drop ==
    /\ drag # NoDrag /\ drag' = NoDrag
    /\ LET new == About(drag.moved, [cat |-> drag.to, hidden |-> drag.hidden])
       IN  /\ side' = UpdateBoardCategories(side, new)
           /\ hidden' = UpdateHiddenBoards(side, hidden, new)
    /\ UNCHANGED <<boards, mine, current>>
    /\ Send({[op |-> "move", board |-> drag.board, cat |-> drag.to]})
    /\ UNCHANGED <<server, news, queue, calls, history, acts>>

\* A board hidden while it is open gives way to another one that is visible.
HideBoard(b, c) ==
    /\ c \in DOMAIN side /\ b \in ShownIn(c)
    /\ LET others == UNION {side[d].in \ side[d].hid : d \in DOMAIN side} \ {b}
       IN  \E next \in IF current = b /\ others # {} THEN others ELSE {None} :
             Request([op |-> "hide", board |-> b, cat |-> c, hide |-> TRUE, next |-> next])
    /\ UNCHANGED asked

NewLoad == [op |-> "load", boards |-> None, mine |-> None]
NewFetch == [op |-> "fetch", got |-> None]

\* The page of board b: everything is loaded again, and a hidden board is to be
\* shown again, in the category of the board that was open before.
CategoriesOf(b) == {c \in DOMAIN side : b \in side[c].in}
Unhiding(b) == IF b \in hidden THEN CategoriesOf(current) ELSE {}
ShowBoard(b, others, cats) ==
    /\ current' = b /\ UNCHANGED <<boards, mine, drag>>
    /\ calls' = others \cup {NewLoad}
    /\ Send({[op |-> "hide", board |-> b, cat |-> c, hide |-> FALSE, next |-> None] : c \in cats})

\* A board is opened from the sidebar, the switcher or a link.
OpenWith(b, cats) ==
    /\ Act /\ b \in boards /\ UNCHANGED <<side, hidden>>
    /\ ShowBoard(b, calls, cats)
    /\ UNCHANGED <<server, news, queue, history>>
OpenBoard(b) == Unhiding(b) \subseteq CategoriesOf(b) /\ OpenWith(b, Unhiding(b))
OpenHiddenBoard(b) == ~(Unhiding(b) \subseteq CategoriesOf(b)) /\ OpenWith(b, Unhiding(b))

DuplicateBoard(b, new, c) ==
    /\ c \in DOMAIN side /\ b \in ShownIn(c)
    /\ new \notin existing /\ row[new] = NoRow /\ \A r \in reqs : r.op # "duplicate"
    /\ Request([op |-> "duplicate", board |-> b, new |-> new, cat |-> c])
    /\ UNCHANGED asked

\* Another board of the category is shown next, hidden or not, and none when it
\* is the first of two: its index is 0.
DeleteBoard(b, c) ==
    /\ c \in DOMAIN side /\ b \in ShownIn(c)
    /\ LET others == ((side[c].in \cap boards) \cap mine) \ {b}
       IN  \E next \in others \cup IF Cardinality(others) > 1 THEN {} ELSE {None} :
             Request([op |-> "deleteBoard", board |-> b, next |-> next])
    /\ UNCHANGED asked

\* The page is loaded again; what was on the old connection may be lost.
Reload ==
    /\ Act
    /\ \E kept \in SUBSET news : news' = kept
    /\ queue' = NoQueue /\ calls' = {NewLoad, NewFetch}
    /\ side' = Nil /\ hidden' = {} /\ boards' = {} /\ mine' = {} /\ current' = None
    /\ UNCHANGED drag
    /\ told' = [b \in Boards |-> FALSE]
    /\ UNCHANGED <<server, reqs, asked>>
-----------------------------------------------------------------------------
(* The server. *)

\* What the client still does when its request is answered: it writes the new
\* category of a board, and shows the board next.
Answer(new, next) == [kind |-> "boards", new |-> new, next |-> next]
Done(r, sent) == reqs' = reqs \ {r} /\ news' = news \cup sent
Refuse(r) == Done(r, {}) /\ UNCHANGED server

HandleCreate(r) ==
    /\ r.op = "create"
    /\ category' = [category EXCEPT ![r.cat] = [state |-> "live", name |-> r.name]]
    /\ Done(r, {CategoryNews(r.cat)})
    /\ UNCHANGED <<row, member, existing, calls>>

\* The name of the system category is restored.
HandleUpdate(r) ==
    /\ r.op = "update" /\ UNCHANGED calls
    /\ IF r.cat \notin Live THEN Refuse(r)
       ELSE /\ category' = [category EXCEPT ![r.cat].name = IF r.cat = Default THEN @ ELSE r.name]
            /\ Done(r, {CategoryNews(r.cat)})
            /\ UNCHANGED <<row, member, existing>>

\* AddUpdateUserCategoryBoard: what the rows become, and the broadcast, of all
\* the category lists then; there is none when the category is not there.
RowsAfter(c, moved) == [b \in Boards |-> IF b \in moved THEN [row[b] EXCEPT !.cat = c] ELSE row[b]]
ContentNews(c, moved) ==
    LET listed == {b \in Boards : RowsAfter(c, moved)[b].cat = c}
    IN  IF moved = {} \/ c \notin Live THEN {}
        ELSE {News("boards", [b \in listed |-> [cat |-> c, hidden |-> row[b].hidden]])}

HandleMove(r) ==
    /\ r.op = "move"
    /\ row' = RowsAfter(r.cat, {r.board})
    /\ Done(r, ContentNews(r.cat, {r.board}))
    /\ UNCHANGED <<category, member, existing, calls>>

\* Mutant: the first category, whatever its name.
DefaultForAny(c) == Live
\* moveBoardsToDefaultCategory goes by the name: a custom category of that name
\* is found before the search ends.
DefaultFor(c) == IF category[c].name = "Boards" THEN {c} ELSE CalledBoards

\* DeleteCategory: the boards are read, moved, and the category is deleted.
ReadDeleted(r) ==
    /\ r.op = "delete" /\ r.step = "read" /\ UNCHANGED <<server, news, calls>>
    /\ IF r.cat \notin Live THEN reqs' = reqs \ {r}
       ELSE \E to \in DefaultFor(r.cat) :
              reqs' = (reqs \ {r}) \cup {[r EXCEPT !.step = "move", !.ids = RowsOf(r.cat), !.to = to]}
MoveDeleted(r) ==
    /\ r.op = "delete" /\ r.step = "move" /\ UNCHANGED <<category, member, existing, calls>>
    /\ row' = RowsAfter(r.to, r.ids)
    /\ news' = news \cup ContentNews(r.to, r.ids)
    /\ reqs' = (reqs \ {r}) \cup
               IF r.ids # {} /\ r.to \notin Live THEN {} ELSE {[r EXCEPT !.step = "row", !.ids = {}]}
DeleteRow(r) ==
    /\ r.op = "delete" /\ r.step = "row" /\ UNCHANGED <<row, member, existing, calls>>
    /\ category' = [category EXCEPT ![r.cat].state = "deleted"]
    /\ Done(r, {CategoryNews(r.cat)})

\* SetBoardVisibility broadcasts whether or not the row was there; the client
\* that hides a board changes its store when the answer comes.
HandleHide(r) ==
    /\ r.op = "hide"
    /\ row' = [row EXCEPT ![r.board].hidden = IF row[r.board].cat = r.cat THEN r.hide ELSE @]
    /\ LET told1 == News("boards", About(r.board, [cat |-> r.cat, hidden |-> r.hide]))
       IN  /\ Done(r, {told1})
           /\ calls' = calls \cup IF r.hide THEN {Answer(told1.new, r.next)} ELSE {}
    /\ UNCHANGED <<category, member, existing>>

HandleOrder(r) ==
    /\ r.op = "order" /\ UNCHANGED <<server, calls>>
    /\ Done(r, IF r.cats = Live THEN {News("order", [c \in r.cats |-> TRUE])} ELSE {})

\* The copy goes where the board it was copied from is.
HandleDuplicate(r) ==
    /\ r.op = "duplicate" /\ UNCHANGED category
    /\ IF r.board \notin existing THEN Refuse(r) /\ UNCHANGED calls
       ELSE \E to \in IF row[r.board].cat \in Live THEN {row[r.board].cat} ELSE CalledBoards :
              /\ existing' = existing \cup {r.new} /\ member' = member \cup {r.new}
              /\ row' = RowsAfter(to, {r.new})
              /\ Done(r, ContentNews(to, {r.new}) \cup
                         {News("board", About(r.new, TRUE)), News("member", About(r.new, TRUE))})
              /\ calls' = calls \cup {Answer(About(r.new, [cat |-> r.cat, hidden |-> FALSE]), r.new)}

HandleDeleteBoard(r) ==
    /\ r.op = "deleteBoard" /\ UNCHANGED <<category, row>>
    /\ calls' = calls \cup IF r.next = None THEN {} ELSE {Answer(Nil, r.next)}
    /\ existing' = existing \ {r.board} /\ member' = member \ {r.board}
    /\ Done(r, IF r.board \in existing THEN {News("board", About(r.board, FALSE))} ELSE {})

Handle ==
    /\ \E r \in reqs : \/ HandleCreate(r) \/ HandleUpdate(r) \/ HandleMove(r)
                       \/ ReadDeleted(r) \/ MoveDeleted(r) \/ DeleteRow(r)
                       \/ HandleHide(r) \/ HandleOrder(r)
                       \/ HandleDuplicate(r) \/ HandleDeleteBoard(r)
    /\ UNCHANGED <<queue, store, history, acts>>

\* AddMemberToBoard, of another user: the board goes to a category called
\* Boards, also when it has a row from before.
AddMember(b) ==
    /\ Act /\ b \in existing \ member
    /\ member' = member \cup {b}
    /\ \E to \in CalledBoards :
         /\ row' = RowsAfter(to, {b})
         /\ news' = news \cup ContentNews(to, {b}) \cup {News("member", About(b, TRUE))}
    /\ UNCHANGED <<category, existing, reqs, queue, calls, store, history>>

\* DeleteBoardMember, of another user: the row of category_boards stays.
RemoveMember(b) ==
    /\ Act /\ b \in member
    /\ member' = member \ {b}
    /\ news' = news \cup {News("member", About(b, FALSE))}
    /\ UNCHANGED <<category, row, existing, reqs, queue, calls, store, history>>
-----------------------------------------------------------------------------
(* The client's answers and updates. *)

\* queueUpdateNotification: an update replaces the one before of the same item.
Newer(new, old) == [i \in DOMAIN new \cup DOMAIN old |-> IF i \in DOMAIN new THEN new[i] ELSE old[i]]
Deliver(n) ==
    /\ n \in news /\ news' = news \ {n}
    /\ queue' = [queue EXCEPT ![n.kind] = IF n.kind = "order" THEN n.new ELSE Newer(n.new, @)]
    /\ UNCHANGED <<server, reqs, calls, store, history, acts>>

\* The boards of new memberships that the client does not have.
BoardsToGet(added, known) == added \ known

\* updateMembersEnsuringBoardsAndUsers asks for the boards it does not have;
\* if there are any, boards are added and removed when the answers are there.
Flush ==
    LET side1 == UpdateCategories(side, queue["category"])
        side2 == UpdateBoardCategories(side1, queue["boards"])
        boards1 == (boards \ DOMAIN queue["board"]) \cup {b \in DOMAIN queue["board"] : queue["board"][b]}
        added == {b \in DOMAIN queue["member"] : queue["member"][b]}
        removed == DOMAIN queue["member"] \ added
        get == BoardsToGet(added, boards1)
    IN  /\ queue # NoQueue /\ queue' = NoQueue
        /\ side' = UpdateCategoryOrder(side2, queue["order"])
        /\ hidden' = UpdateHiddenBoards(side1, hidden, queue["boards"])
        /\ boards' = IF get = {} THEN boards1 \ removed ELSE boards1
        /\ mine' = (mine \ removed) \cup added
        /\ calls' = calls \cup IF get = {} THEN {}
                               ELSE {[op |-> "members", get |-> get, removed |-> removed, got |-> None]}
        /\ told' = [b \in Boards |-> IF b \in DOMAIN queue["member"] THEN queue["member"][b] ELSE told[b]]
        /\ UNCHANGED <<current, drag>> /\ Send({})
        /\ UNCHANGED <<server, news, asked, acts>>

Answered(x, y) == calls' = (calls \ {x}) \cup y

\* The server answers a request of the client.
Reply(x) ==
    /\ x \in calls /\ "op" \in DOMAIN x
    /\ \/ /\ x.op = "members" /\ x.got = None
          /\ Answered(x, {[x EXCEPT !.got = x.get \cap member]})
       \/ /\ x.op = "fetch" /\ x.got = None
          /\ Answered(x, {[x EXCEPT !.got = Categories]})
       \/ /\ x.op = "load" /\ x.boards = None
          /\ Answered(x, {[x EXCEPT !.boards = member]})
       \/ /\ x.op = "load" /\ x.mine = None
          /\ Answered(x, {[x EXCEPT !.mine = member]})
    /\ UNCHANGED <<server, reqs, news, queue, store, history, acts>>

\* Mutant: the late answer writes the memberships again.
MembershipsAfterAnswer(x) == (mine \ x.removed) \cup x.get
\* updateMembersHandler: only a membership that is there is written again.
MembershipsAfter(x) == mine \ x.removed
EnsureBoards(x) ==
    /\ x \in calls /\ "op" \in DOMAIN x /\ x.op = "members" /\ x.got # None
    /\ Answered(x, {})
    /\ boards' = (boards \ x.removed) \cup x.got
    /\ mine' = MembershipsAfter(x)
    /\ UNCHANGED <<side, hidden, current, drag>> /\ Send({})
    /\ UNCHANGED <<server, news, queue, history, acts>>

FetchSidebarCategories(x) ==
    /\ x \in calls /\ "op" \in DOMAIN x /\ x.op = "fetch" /\ x.got # None
    /\ Answered(x, {})
    /\ side' = x.got /\ hidden' = HiddenIn(x.got)
    /\ UNCHANGED <<boards, mine, current, drag>> /\ Send({})
    /\ UNCHANGED <<server, news, queue, history, acts>>

InitialLoad(x) ==
    /\ x \in calls /\ "op" \in DOMAIN x /\ x.op = "load" /\ x.boards # None /\ x.mine # None
    /\ Answered(x, {})
    /\ boards' = x.boards /\ mine' = x.mine
    /\ told' = [b \in Boards |-> b \in x.mine]
    /\ UNCHANGED <<side, hidden, current, drag>> /\ Send({})
    /\ UNCHANGED <<server, news, queue, asked, acts>>

\* After a board was hidden or duplicated the client writes its category itself.
ApplyAnswer(x) ==
    /\ x \in calls /\ "kind" \in DOMAIN x
    /\ side' = UpdateBoardCategories(side, x.new)
    /\ hidden' = UpdateHiddenBoards(side, hidden, x.new)
    /\ IF x.next = None THEN Answered(x, {}) /\ UNCHANGED <<boards, mine, current, drag>> /\ Send({})
       ELSE ShowBoard(x.next, calls \ {x}, Unhiding(x.next))
    /\ UNCHANGED <<server, news, queue, history, acts>>
-----------------------------------------------------------------------------
Server == Handle \/ \E x \in calls : Reply(x)
\* Between the dispatches of a drag the client does nothing else.
Client ==
    \/ Drop
    \/ /\ drag = NoDrag
       /\ \/ Flush
          \/ \E n \in news : Deliver(n)
          \/ \E x \in calls : EnsureBoards(x) \/ FetchSidebarCategories(x) \/ InitialLoad(x) \/ ApplyAnswer(x)
System == Server \/ Client
\* What the header of a category and its menu offer.
CategoryMenu ==
    \/ \E c \in Customs, name \in Names : CreateCategory(c, name) \/ RenameCategory(c, name)
    \/ \E c \in Cats : ToggleCollapse(c) \/ DeleteCategory(c)
\* What the item of a board and its menu offer.
BoardItem ==
    \/ \E b \in Boards, from, to \in Cats : MoveBoard(b, from, to)
    \/ \E b \in Boards, c \in Cats : HideBoard(b, c) \/ DeleteBoard(b, c)
    \/ \E b \in Boards : OpenBoard(b)
    \/ \E b, new \in Boards, c \in Cats : DuplicateBoard(b, new, c)
User ==
    /\ drag = NoDrag
    /\ \/ CategoryMenu \/ BoardItem \/ ReorderCategories \/ Reload
       \/ \E b \in Boards, from, to \in Cats : DragBoard(b, from, to)
\* What goes wrong at once: another board is dragged, or shown where it is not.
Slip ==
    /\ drag = NoDrag
    /\ \/ \E b, m \in Boards, from, to \in Cats : DragAnother(b, m, from, to)
       \/ \E b \in Boards : OpenHiddenBoard(b)
Admins == \E b \in Boards : AddMember(b) \/ RemoveMember(b)

Next == \/ (System \/ User \/ Admins) /\ raced' = (raced \/ Overlap')
        \/ Slip /\ raced' = TRUE
Spec == Init /\ [][Next]_vars /\ WF_vars(System /\ raced' = (raced \/ Overlap'))
-----------------------------------------------------------------------------
\* The sidebar lists no board twice, whatever overlaps: not when the client
\* moves a board before, while and after the server does.  Only the board just
\* dropped is listed where it is dropped and where it was, until the second
\* dispatch of its drag.
Twice(c, d) == IF drag.to \in {c, d} THEN {drag.moved} ELSE {}
ListedOnce ==
    TypeOK /\ \A c, d \in DOMAIN side : c # d => side[c].in \cap side[d].in \subseteq Twice(c, d)

\* A board the client was told the user is no member of is not shown, however
\* late the answers to what it asked for it come.
RemovedIsNotShown == \A b \in boards \cap mine : told[b]

\* Every board of the user has a category that exists, unless requests about it
\* overlapped or the category deleted was itself called Boards.
BoardsKeepACategory ==
    \A b \in member : \/ row[b].cat \in Live \/ raced
                      \/ category[row[b].cat].name = "Boards"

\* Every board keeps a category and a board lost is not shown; and when nothing is on its way and nothing
\* overlapped, the client shows what the server has, its two records of hidden
\* boards agree, and each category has the name the user gave it last, although
\* folding it sends a name as well.
SidebarAgrees ==
    /\ BoardsKeepACategory
    /\ RemovedIsNotShown
    /\ Quiet /\ ~raced =>
          /\ side = Categories
          /\ boards \cap mine = member
          /\ \A c \in DOMAIN side : side[c].hid = side[c].in \cap hidden
          /\ \A c \in Live : category[c].name = asked[c]

\* A board that is open gets a category, also after its own was deleted with it.
OpenBoardGetsACategory ==
    \A b \in Boards :
      current = b /\ b \in boards ~> CategoriesOf(b) # {} \/ current # b \/ b \notin boards \/ raced
=============================================================================
