---------------------------- MODULE Sidebar_proof ----------------------------
(***************************************************************************)
(* Proofs about Sidebar, for any boards, categories and number of acts: no *)
(* board is listed twice, a board the client was told it has lost is not   *)
(* shown, and every board of the user keeps a category.                    *)
(***************************************************************************)
EXTENDS Sidebar, TLAPS

Kinds == {"category", "boards", "board", "member", "order"}

\* The requests of the client.
Requests ==
    [op : {"create"}, cat : Customs, name : Names]
      \cup [op : {"update"}, cat : Cats, name : Names]
      \cup [op : {"delete"}, step : {"read"}, cat : Customs, ids : SUBSET Boards, to : {None}]
      \cup [op : {"delete"}, step : {"move", "row"}, cat : Customs, ids : SUBSET Boards, to : Cats]
      \cup [op : {"order"}, cats : SUBSET Cats]
      \cup [op : {"move"}, board : Boards, cat : Cats]
      \cup [op : {"hide"}, board : Boards, cat : Cats, hide : BOOLEAN, next : Boards \cup {None}]
      \cup [op : {"deleteBoard"}, board : Boards, next : Boards \cup {None}]
      \cup [op : {"duplicate"}, board : Boards, new : Boards, cat : Cats]

\* What is told: of categories, of the places of boards, of boards and members.
NamesTold(f) == DOMAIN f \subseteq Cats /\ \A c \in DOMAIN f : f[c] \in [name : Names, deleted : BOOLEAN]
PlacesTold(f) == DOMAIN f \subseteq Boards /\ \A b \in DOMAIN f : f[b] \in [cat : Cats, hidden : BOOLEAN]
BoardsTold(f) == DOMAIN f \subseteq Boards /\ \A b \in DOMAIN f : f[b] \in BOOLEAN
Fits(kind, f) ==
    /\ kind = "category" => NamesTold(f)
    /\ kind = "boards" => PlacesTold(f)
    /\ kind \in {"board", "member"} => BoardsTold(f)
    /\ kind = "order" => DOMAIN f \subseteq Cats

\* A broadcast of a category tells of one.
IsNews(n) ==
    /\ DOMAIN n = {"kind", "new"} /\ n = News(n.kind, n.new) /\ n.kind \in Kinds /\ Fits(n.kind, n.new)
    /\ n.kind = "category" => \E c \in Cats, e \in [name : Names, deleted : BOOLEAN] : n.new = About(c, e)

\* The categories as a client lists them: no board is in two, or none but one.
ListsAny(s) ==
    /\ DOMAIN s \subseteq Cats
    /\ \A c \in DOMAIN s : /\ s[c] \in [name : Names, in : SUBSET Boards, hid : SUBSET Boards]
                           /\ s[c].hid \subseteq s[c].in
Lists(s) ==
    /\ ListsAny(s)
    /\ \A c, d \in DOMAIN s : c # d => s[c].in \cap s[d].in = {}
ListsBut(s, to, moved) ==
    /\ ListsAny(s)
    /\ \A c, d \in DOMAIN s :
          c # d => s[c].in \cap s[d].in \subseteq IF to \in {c, d} THEN {moved} ELSE {}

IsAnswer(x) == /\ DOMAIN x = {"kind", "new", "next"} /\ x.kind = "boards"
               /\ PlacesTold(x.new) /\ x.next \in Boards \cup {None}
IsFetch(x) == DOMAIN x = {"op", "got"} /\ x.op = "fetch" /\ (x.got # None => Lists(x.got))
IsLoad(x) == /\ DOMAIN x = {"op", "boards", "mine"} /\ x.op = "load"
             /\ x.boards # None => x.boards \subseteq Boards
             /\ x.mine # None => x.mine \subseteq Boards
IsMembers(x) == /\ DOMAIN x = {"op", "get", "removed", "got"} /\ x.op = "members"
                /\ x.get \subseteq Boards /\ x.removed \subseteq Boards
                /\ x.got # None => x.got \subseteq Boards
IsCall(x) == IsAnswer(x) \/ IsFetch(x) \/ IsLoad(x) \/ IsMembers(x)

\* The server, what is on its way, and the client.
ServerTyped ==
    /\ category \in [Cats -> [state : {"free", "live", "deleted"}, name : Names]]
    /\ row \in [Boards -> [cat : Cats \cup {None}, hidden : BOOLEAN]]
    /\ member \subseteq existing /\ existing \subseteq Boards
    /\ \A b \in member : row[b].cat # None
TransitTyped ==
    /\ reqs \subseteq Requests
    /\ \A n \in news : IsNews(n)
    /\ DOMAIN queue = Kinds /\ \A kind \in Kinds : Fits(kind, queue[kind])
    /\ \A x \in calls : IsCall(x)
\* A board waits for the second dispatch of its drag.
Dragged == /\ drag \in [board : Boards, moved : Boards, to : DOMAIN side, hidden : BOOLEAN]
           /\ ListsBut(side, drag.to, drag.moved)
StoreTyped ==
    /\ drag = NoDrag => Lists(side)
    /\ drag # NoDrag => Dragged
    /\ hidden \subseteq Boards /\ boards \subseteq Boards /\ mine \subseteq Boards
    /\ current \in Boards \cup {None}
    /\ told \in [Boards -> BOOLEAN]
    /\ \A b \in mine : told[b]
Typed == ServerTyped /\ TransitTyped /\ StoreTyped
-----------------------------------------------------------------------------
(* While nothing has overlapped.                                           *)

\* A broadcast that is to come about category c.
Announced(c) ==
    \/ c \in DOMAIN queue["category"]
    \/ \E n \in news : n.kind = "category" /\ c \in DOMAIN n.new

\* Broadcasts of categories tell what is true.
TellsLive(f) == \A c \in DOMAIN f : f[c].deleted <=> c \notin Live
NewsAreTrue ==
    /\ \A n \in news : n.kind = "category" => TellsLive(n.new)
    /\ TellsLive(queue["category"])

\* A category the client shows is there, or the client is going to hear of it; what
\* is being deleted, or has been, the client shows until it hears of that.
ShownAreLive == \A c \in DOMAIN side : c \in Live \/ Announced(c)
DeletedAreShown ==
    \A c \in Cats : (\E r \in reqs : r.op = "delete" /\ r.cat = c) \/ (Announced(c) /\ c \notin Live)
                       => c \in DOMAIN side
\* That a category is deleted is told once.
ToldOnce == \A n \in news : n.kind = "category" => \A c \in DOMAIN n.new : c \in Live \/ c \notin DOMAIN queue["category"]
FetchedAreLive == \A x \in calls : "op" \in DOMAIN x /\ x.op = "fetch" /\ x.got # None => DOMAIN x.got \subseteq Live

\* Boards go to categories that are there, or are called Boards.
CalledBoardsAt(c) == category[c].name = "Boards"
MovesAreLive == \A r \in reqs : r.op = "move" => r.cat \in Live
RowsAreLive == \A b \in Boards : row[b].cat # None => row[b].cat \in Live \/ CalledBoardsAt(row[b].cat)

\* A deletion leaves no row behind, except in a category called Boards.
LeavesNoRow(r) ==
    /\ r.step \in {"move", "row"} =>
          /\ CalledBoardsAt(r.to)
          /\ \A b \in Boards : row[b].cat = r.cat => CalledBoardsAt(r.cat) \/ (r.step = "move" /\ b \in r.ids)
DeletionsMoveRows == \A r \in reqs : r.op = "delete" => LeavesNoRow(r)

InStep == /\ ~Overlap /\ NewsAreTrue /\ ShownAreLive /\ DeletedAreShown /\ ToldOnce /\ FetchedAreLive
          /\ MovesAreLive /\ RowsAreLive /\ DeletionsMoveRows
Kept == Typed /\ (~raced => InStep)
-----------------------------------------------------------------------------
(* Operators.                                                              *)

LEMMA AboutOne ==
  ASSUME NEW i, NEW v
  PROVE  DOMAIN About(i, v) = {i} /\ About(i, v)[i] = v
BY DEF About

LEMMA NilTells ==
  /\ DOMAIN Nil = {}
  /\ \A kind : Fits(kind, Nil)
  /\ DOMAIN NoQueue = Kinds /\ \A kind \in Kinds : NoQueue[kind] = Nil
BY DEF Nil, NoQueue, Fits, NamesTold, PlacesTold, BoardsTold, Kinds

LEMMA CategorySets ==
  /\ Default \in Cats /\ Customs \subseteq Cats /\ None \notin Cats /\ None \notin Boards
  /\ \A c \in Cats : c \notin Boards
  /\ "Boards" \in Names /\ "Other" \in Names
BY SidebarAssumption DEF Cats, Names

\* What two tellings of one kind tell together.
LEMMA FitsNewer ==
  ASSUME NEW kind, NEW f, NEW g, Fits(kind, f), Fits(kind, g)
  PROVE  Fits(kind, Newer(f, g))
<1> DEFINE h == Newer(f, g)
<1>1. DOMAIN h = DOMAIN f \cup DOMAIN g
  BY DEF Newer
<1>2. \A i \in DOMAIN h : (i \in DOMAIN f /\ h[i] = f[i]) \/ (i \in DOMAIN g /\ h[i] = g[i])
  BY DEF Newer
<1> HIDE DEF h
<1>3. Fits(kind, h)
  BY <1>1, <1>2 DEF Fits, NamesTold, PlacesTold, BoardsTold
<1>4. QED BY <1>3 DEF h

\* The fields of the requests.
LEMMA RequestFields ==
  ASSUME NEW r \in Requests
  PROVE  /\ "op" \in DOMAIN r /\ "kind" \notin DOMAIN r
         /\ r.op \in {"create", "update", "delete", "order", "move", "hide", "deleteBoard", "duplicate"}
         /\ r.op \in {"create", "update"} => r.cat \in Cats /\ r.name \in Names
         /\ r.op = "delete" => /\ r \in [op : {"delete"}, step : {"read", "move", "row"}, cat : Customs,
                                         ids : SUBSET Boards, to : Cats \cup {None}]
                               /\ r.step \in {"move", "row"} => r.to \in Cats
         /\ r.op = "order" => r.cats \subseteq Cats
         /\ r.op = "move" => r.board \in Boards /\ r.cat \in Cats
         /\ r.op = "hide" => r.board \in Boards /\ r.cat \in Cats /\ r.hide \in BOOLEAN /\ r.next \in Boards \cup {None}
         /\ r.op = "deleteBoard" => r.board \in Boards /\ r.next \in Boards \cup {None}
         /\ r.op = "duplicate" => r.board \in Boards /\ r.new \in Boards /\ r.cat \in Cats
BY DEF Requests, Cats

\* The categories as the server lists them.
LEMMA CategoriesList == ServerTyped => Lists(Categories) /\ DOMAIN Categories = Live
<1> SUFFICES ASSUME ServerTyped PROVE Lists(Categories) /\ DOMAIN Categories = Live
  OBVIOUS
<1>1. DOMAIN Categories = Live /\ Live \subseteq Cats
  BY DEF Categories, Live
<1>2. \A c \in Live : Categories[c] = [name |-> category[c].name, in |-> RowsOf(c),
                                        hid |-> {b \in RowsOf(c) : row[b].hidden}]
  BY DEF Categories
<1>3. \A c \in Live : category[c].name \in Names
  BY DEF Live, ServerTyped
<1>4. \A c, d \in Live : RowsOf(c) \subseteq Boards /\ (c # d => RowsOf(c) \cap RowsOf(d) = {})
  BY DEF RowsOf
<1>5. Lists(Categories)
  BY <1>1, <1>2, <1>3, <1>4 DEF Lists, ListsAny
<1>6. QED BY <1>1, <1>5

LEMMA HiddenAreBoards ==
  ASSUME NEW s, Lists(s)
  PROVE  HiddenIn(s) \subseteq Boards
<1>1. \A c \in DOMAIN s : s[c].hid \subseteq Boards
  BY DEF Lists, ListsAny
<1>2. QED BY <1>1 DEF HiddenIn

\* The reducers list no board twice.
LEMMA ListsNames ==
  ASSUME NEW s, NEW f, Lists(s), NamesTold(f)
  PROVE  Lists(UpdateCategories(s, f))
<1> DEFINE u == UpdateCategories(s, f)
<1>1. /\ DOMAIN u = (DOMAIN s \cup DOMAIN f) \ {d \in DOMAIN s \cap DOMAIN f : f[d].deleted}
      /\ \A c \in DOMAIN u :
            /\ c \notin DOMAIN f => u[c] = s[c]
            /\ c \in DOMAIN f /\ c \notin DOMAIN s => u[c] = [name |-> f[c].name, in |-> {}, hid |-> {}]
            /\ c \in DOMAIN f /\ c \in DOMAIN s => u[c] = [s[c] EXCEPT !.name = f[c].name]
  BY DEF UpdateCategories
<1> HIDE DEF u
<1>2. \A c \in DOMAIN f : c \in Cats /\ f[c].name \in Names
  BY DEF NamesTold
<1>0. /\ DOMAIN s \subseteq Cats
      /\ \A c \in DOMAIN s : /\ s[c] \in [name : Names, in : SUBSET Boards, hid : SUBSET Boards]
                             /\ s[c].hid \subseteq s[c].in
  BY DEF Lists, ListsAny
<1>3. DOMAIN u \subseteq Cats
  BY <1>1, <1>2 DEF Lists, ListsAny
<1>4. ASSUME NEW c \in DOMAIN u
      PROVE  /\ u[c] \in [name : Names, in : SUBSET Boards, hid : SUBSET Boards]
             /\ \/ c \in DOMAIN s /\ u[c].in = s[c].in /\ u[c].hid = s[c].hid
                \/ u[c].in = {} /\ u[c].hid = {}
  <2>1. CASE c \notin DOMAIN f
    <3>1. c \in DOMAIN s /\ u[c] = s[c]
      BY <1>1, <2>1
    <3> QED BY <1>0, <3>1
  <2>2. CASE c \in DOMAIN f /\ c \notin DOMAIN s
    <3>1. u[c] = [name |-> f[c].name, in |-> {}, hid |-> {}]
      BY <1>1, <2>2
    <3> QED BY <1>2, <2>2, <3>1
  <2>3. CASE c \in DOMAIN f /\ c \in DOMAIN s
    <3>1. u[c] = [s[c] EXCEPT !.name = f[c].name]
      BY <1>1, <2>3
    <3>2. s[c] \in [name : Names, in : SUBSET Boards, hid : SUBSET Boards] /\ f[c].name \in Names
      BY <1>0, <1>2, <2>3
    <3>3. u[c] = [name |-> f[c].name, in |-> s[c].in, hid |-> s[c].hid]
      BY <3>1, <3>2
    <3> QED BY <2>3, <3>2, <3>3
  <2> QED BY <2>1, <2>2, <2>3
<1>5. Lists(u)
  BY <1>0, <1>3, <1>4 DEF Lists, ListsAny
<1>6. QED BY <1>5 DEF u

\* What is told twice is then listed once.
LEMMA ListsTold ==
  ASSUME NEW s, NEW f, ListsAny(s), PlacesTold(f),
         \A c, d \in DOMAIN s : c # d => s[c].in \cap s[d].in \subseteq DOMAIN f
  PROVE  /\ Lists(UpdateBoardCategories(s, f))
         /\ DOMAIN UpdateBoardCategories(s, f) = DOMAIN s
<1> DEFINE u == UpdateBoardCategories(s, f)
           put(c) == {b \in DOMAIN f : f[b].cat = c}
<1>1. /\ DOMAIN u = DOMAIN s
      /\ \A c \in DOMAIN s :
            u[c] = [name |-> s[c].name, in |-> (s[c].in \ DOMAIN f) \cup put(c),
                    hid |-> (s[c].hid \ DOMAIN f) \cup {b \in put(c) : f[b].hidden}]
  BY DEF UpdateBoardCategories
<1> HIDE DEF u
<1>2. /\ DOMAIN s \subseteq Cats
      /\ \A c \in DOMAIN s : /\ s[c] \in [name : Names, in : SUBSET Boards, hid : SUBSET Boards]
                             /\ s[c].hid \subseteq s[c].in
      /\ \A c, d \in DOMAIN s : c # d => s[c].in \cap s[d].in \subseteq DOMAIN f
  BY DEF ListsAny
<1>3. DOMAIN f \subseteq Boards
  BY DEF PlacesTold
<1>4. ASSUME NEW c \in DOMAIN u
      PROVE  /\ u[c] \in [name : Names, in : SUBSET Boards, hid : SUBSET Boards]
             /\ u[c].hid \subseteq u[c].in
  <2>1. s[c].name \in Names /\ s[c].in \subseteq Boards /\ s[c].hid \subseteq s[c].in
    BY <1>1, <1>2
  <2>2. put(c) \subseteq Boards /\ put(c) \subseteq DOMAIN f
    BY <1>3
  <2>3. u[c] = [name |-> s[c].name, in |-> (s[c].in \ DOMAIN f) \cup put(c),
                hid |-> (s[c].hid \ DOMAIN f) \cup {b \in put(c) : f[b].hidden}]
    BY <1>1
  <2> HIDE DEF put
  <2> QED BY <2>1, <2>2, <2>3
<1>5. ASSUME NEW c \in DOMAIN u, NEW d \in DOMAIN u, c # d PROVE u[c].in \cap u[d].in = {}
  <2>1. /\ u[c].in = (s[c].in \ DOMAIN f) \cup put(c)
        /\ u[d].in = (s[d].in \ DOMAIN f) \cup put(d)
    BY <1>1
  <2>2. s[c].in \cap s[d].in \subseteq DOMAIN f
    BY <1>1, <1>2, <1>5
  <2> QED BY <1>5, <2>1, <2>2
<1>6. Lists(u)
  BY <1>1, <1>2, <1>4, <1>5 DEF Lists, ListsAny
<1>7. QED BY <1>1, <1>6 DEF u

LEMMA ListsPlaces ==
  ASSUME NEW s, NEW f, Lists(s), PlacesTold(f)
  PROVE  /\ Lists(UpdateBoardCategories(s, f))
         /\ DOMAIN UpdateBoardCategories(s, f) = DOMAIN s
<1>1. ListsAny(s) /\ \A c, d \in DOMAIN s : c # d => s[c].in \cap s[d].in \subseteq DOMAIN f
  BY DEF Lists
<1>2. QED BY <1>1, ListsTold

LEMMA ListsOrdered ==
  ASSUME NEW s, NEW order, Lists(s)
  PROVE  /\ Lists(UpdateCategoryOrder(s, order))
         /\ DOMAIN UpdateCategoryOrder(s, order) \subseteq DOMAIN s
         /\ \A c \in DOMAIN s : c \in DOMAIN order \/ DOMAIN order = {} => c \in DOMAIN UpdateCategoryOrder(s, order)
<1>1. CASE DOMAIN order = {}
  BY <1>1 DEF UpdateCategoryOrder
<1>2. CASE DOMAIN order # {}
  <2> DEFINE u == UpdateCategoryOrder(s, order)
  <2>1. DOMAIN u = DOMAIN s \cap DOMAIN order /\ \A c \in DOMAIN u : u[c] = s[c]
    BY <1>2 DEF UpdateCategoryOrder
  <2> HIDE DEF u
  <2>2. /\ DOMAIN s \subseteq Cats
        /\ \A c \in DOMAIN s : /\ s[c] \in [name : Names, in : SUBSET Boards, hid : SUBSET Boards]
                               /\ s[c].hid \subseteq s[c].in
        /\ \A c, d \in DOMAIN s : c # d => s[c].in \cap s[d].in = {}
    BY DEF Lists, ListsAny
  <2>3. Lists(u)
    BY <2>1, <2>2 DEF Lists, ListsAny
  <2>4. \A c \in DOMAIN s : c \in DOMAIN order => c \in DOMAIN u
    BY <2>1
  <2> QED BY <1>2, <2>1, <2>3, <2>4 DEF u
<1>3. QED BY <1>1, <1>2

LEMMA HiddenStayBoards ==
  ASSUME NEW s, NEW old \in SUBSET Boards, NEW f, PlacesTold(f)
  PROVE  UpdateHiddenBoards(s, old, f) \subseteq Boards
BY DEF UpdateHiddenBoards, PlacesTold

LEMMA SideTyped ==
  /\ StoreTyped => ListsAny(side) /\ DOMAIN side \subseteq Cats
  /\ StoreTyped => \A c \in DOMAIN side : side[c].in \subseteq Boards /\ side[c].name \in Names
BY DEF StoreTyped, Dragged, Lists, ListsBut, ListsAny

\* The effect asks for a board the client shows and a category it knows.
EffectAsks(effect) ==
    effect # {} => \E c \in DOMAIN side' : effect = {[op |-> "move", board |-> current', cat |-> c]}

LEMMA EffectOf ==
  ASSUME NEW effect \in SidebarEffect
  PROVE  EffectAsks(effect) /\ (effect # {} => current' \in boards')
BY DEF SidebarEffect, EffectAsks

LEMMA EffectTyped ==
  ASSUME NEW effect \in SidebarEffect, StoreTyped'
  PROVE  effect \subseteq Requests
<1>1. EffectAsks(effect) /\ (effect # {} => current' \in boards')
  BY EffectOf
<1>2. DOMAIN side' \subseteq Cats /\ boards' \subseteq Boards
  <2>1. (StoreTyped => DOMAIN side \subseteq Cats)'
    BY SideTyped, PTL
  <2> QED BY <2>1 DEF StoreTyped
<1>3. \A b \in Boards, c \in Cats : [op |-> "move", board |-> b, cat |-> c] \in Requests
  BY DEF Requests
<1>4. QED BY <1>1, <1>2, <1>3 DEF EffectAsks
-----------------------------------------------------------------------------
(* Every step keeps the types, and lists no board twice.                   *)

LEMMA NewsFields ==
  ASSUME NEW kind \in Kinds, NEW f
  PROVE  /\ DOMAIN News(kind, f) = {"kind", "new"}
         /\ News(kind, f).kind = kind /\ News(kind, f).new = f
         /\ News(kind, f) = News(News(kind, f).kind, News(kind, f).new)
BY DEF News

\* The broadcasts the server makes.
LEMMA BoardNews ==
  ASSUME NEW kind \in {"board", "member"}, NEW b \in Boards, NEW v \in BOOLEAN
  PROVE  IsNews(News(kind, About(b, v)))
<1>1. BoardsTold(About(b, v))
  BY DEF About, BoardsTold
<1>2. Fits(kind, About(b, v))
  BY <1>1 DEF Fits
<1>3. QED BY <1>2, NewsFields DEF IsNews, Kinds

LEMMA PlaceNews ==
  ASSUME NEW b \in Boards, NEW c \in Cats, NEW h \in BOOLEAN
  PROVE  LET f == About(b, [cat |-> c, hidden |-> h])
         IN  PlacesTold(f) /\ IsNews(News("boards", f))
<1> DEFINE f == About(b, [cat |-> c, hidden |-> h])
<1>1. PlacesTold(f)
  BY DEF About, PlacesTold
<1> HIDE DEF f
<1>2. Fits("boards", f)
  BY <1>1 DEF Fits
<1>3. IsNews(News("boards", f))
  BY <1>2, NewsFields DEF IsNews, Kinds
<1>4. QED BY <1>1, <1>3 DEF f

LEMMA CategoryNewsTyped ==
  ASSUME NEW c \in Cats, ServerTyped'
  PROVE  /\ IsNews(CategoryNews(c))
         /\ CategoryNews(c).kind = "category"
         /\ DOMAIN CategoryNews(c).new = {c}
         /\ CategoryNews(c).new[c].deleted <=> category'[c].state = "deleted"
<1> DEFINE e == [name |-> category'[c].name, deleted |-> category'[c].state = "deleted"]
<1>1. category'[c].name \in Names
  BY DEF ServerTyped
<1>2. (category'[c].state = "deleted") \in BOOLEAN
  OBVIOUS
<1>3. e \in [name : Names, deleted : BOOLEAN]
  BY <1>1, <1>2
<1>4. e.deleted <=> category'[c].state = "deleted"
  OBVIOUS
<1>5. CategoryNews(c) = News("category", About(c, e))
  BY DEF CategoryNews
<1> HIDE DEF e
<1>6. DOMAIN About(c, e) = {c} /\ About(c, e)[c] = e
  BY AboutOne
<1>7. NamesTold(About(c, e))
  BY <1>3, <1>6 DEF NamesTold
<1>8. Fits("category", About(c, e))
  BY <1>7 DEF Fits
<1>9. /\ DOMAIN CategoryNews(c) = {"kind", "new"} /\ CategoryNews(c) = News(CategoryNews(c).kind, CategoryNews(c).new)
      /\ CategoryNews(c).kind = "category" /\ CategoryNews(c).new = About(c, e)
  BY <1>5, NewsFields DEF Kinds
<1>10. IsNews(CategoryNews(c))
  BY <1>3, <1>8, <1>9 DEF IsNews, Kinds
<1>11. QED BY <1>4, <1>6, <1>9, <1>10

LEMMA ContentNewsTyped ==
  ASSUME NEW c \in Cats, NEW moved \in SUBSET Boards, ServerTyped, NEW n \in ContentNews(c, moved)
  PROVE  IsNews(n) /\ n.kind = "boards"
<1> DEFINE listed == {b \in Boards : RowsAfter(c, moved)[b].cat = c}
           f == [b \in listed |-> [cat |-> c, hidden |-> row[b].hidden]]
<1>1. n = News("boards", f)
  BY DEF ContentNews
<1>2. \A b \in Boards : row[b].hidden \in BOOLEAN
  BY DEF ServerTyped
<1>3. PlacesTold(f)
  BY <1>2 DEF PlacesTold
<1> HIDE DEF f
<1>4. Fits("boards", f)
  BY <1>3 DEF Fits
<1>5. QED BY <1>1, <1>4, NewsFields DEF IsNews, Kinds

LEMMA RowsAfterTyped ==
  ASSUME NEW c \in Cats, NEW moved \in SUBSET Boards, ServerTyped
  PROVE  /\ RowsAfter(c, moved) \in [Boards -> [cat : Cats \cup {None}, hidden : BOOLEAN]]
         /\ \A b \in moved : RowsAfter(c, moved)[b].cat = c
         /\ \A b \in Boards \ moved : RowsAfter(c, moved)[b] = row[b]
<1>1. \A b \in Boards : row[b] \in [cat : Cats \cup {None}, hidden : BOOLEAN]
  BY DEF ServerTyped
<1>2. \A b \in Boards : [row[b] EXCEPT !.cat = c] \in [cat : Cats \cup {None}, hidden : BOOLEAN]
                        /\ [row[b] EXCEPT !.cat = c].cat = c
  BY <1>1
<1>3. QED BY <1>1, <1>2 DEF RowsAfter

\* A request that is done leaves typed requests and broadcasts.
LEMMA DoneTyped ==
  ASSUME TransitTyped, NEW r, NEW sent, Done(r, sent), \A n \in sent : IsNews(n)
  PROVE  reqs' \subseteq Requests /\ \A n \in news' : IsNews(n)
BY DEF TransitTyped, Done

LEMMA Same ==
  /\ UNCHANGED server /\ ServerTyped => ServerTyped'
  /\ UNCHANGED <<store, told>> /\ StoreTyped => StoreTyped'
  /\ UNCHANGED queue /\ TransitTyped => DOMAIN queue' = Kinds /\ \A kind \in Kinds : Fits(kind, queue'[kind])
BY DEF server, store, ServerTyped, StoreTyped, Dragged, TransitTyped

\* What the user asks for.
AskedFor(r) ==
    /\ r.op = "move" => r.cat \in DOMAIN side
    /\ r.op = "delete" => r.step = "read" /\ r.cat \in DOMAIN side

UserAsks ==
    \/ \E c \in Customs, name \in Names : CreateCategory(c, name) \/ RenameCategory(c, name)
    \/ \E c \in Cats : ToggleCollapse(c) \/ DeleteCategory(c)
    \/ ReorderCategories
    \/ \E b \in Boards, from, to \in Cats : MoveBoard(b, from, to)
    \/ \E b \in Boards, c \in Cats : HideBoard(b, c) \/ DeleteBoard(b, c)
    \/ \E b, new \in Boards, c \in Cats : DuplicateBoard(b, new, c)

LEMMA UserRequests ==
  ASSUME Typed, UserAsks
  PROVE  \E r \in Requests : Request(r) /\ AskedFor(r)
<1>0. /\ DOMAIN side \subseteq Cats
      /\ \A c \in DOMAIN side : side[c].in \subseteq Boards /\ side[c].name \in Names
  BY SideTyped DEF Typed
<1>1. CASE \E c \in Customs, name \in Names : CreateCategory(c, name)
  <2>1. PICK c \in Customs, name \in Names : CreateCategory(c, name)
    BY <1>1
  <2> DEFINE r == [op |-> "create", cat |-> c, name |-> name]
  <2>2. r \in Requests /\ AskedFor(r)
    BY DEF Requests, AskedFor
  <2> QED BY <2>1, <2>2 DEF CreateCategory
<1>2. CASE \E c \in Customs, name \in Names : RenameCategory(c, name)
  <2>1. PICK c \in Customs, name \in Names : RenameCategory(c, name)
    BY <1>2
  <2> DEFINE r == [op |-> "update", cat |-> c, name |-> name]
  <2>2. r \in Requests /\ AskedFor(r)
    BY CategorySets DEF Requests, AskedFor
  <2> QED BY <2>1, <2>2 DEF RenameCategory
<1>3. CASE \E c \in Cats : ToggleCollapse(c)
  <2>1. PICK c \in Cats : ToggleCollapse(c)
    BY <1>3
  <2> DEFINE r == [op |-> "update", cat |-> c, name |-> side[c].name]
  <2>2. side[c].name \in Names
    BY <1>0, <2>1 DEF ToggleCollapse
  <2>3. r \in Requests /\ AskedFor(r)
    BY <2>2 DEF Requests, AskedFor
  <2> QED BY <2>1, <2>3 DEF ToggleCollapse
<1>4. CASE \E c \in Cats : DeleteCategory(c)
  <2>1. PICK c \in Cats : DeleteCategory(c)
    BY <1>4
  <2> DEFINE r == [op |-> "delete", step |-> "read", cat |-> c, ids |-> {}, to |-> None]
  <2>2. r \in Requests /\ AskedFor(r)
    BY <2>1 DEF Requests, AskedFor, DeleteCategory
  <2> QED BY <2>1, <2>2 DEF DeleteCategory
<1>5. CASE ReorderCategories
  <2> DEFINE r == [op |-> "order", cats |-> DOMAIN side]
  <2>1. r \in Requests /\ AskedFor(r)
    BY <1>0 DEF Requests, AskedFor
  <2> QED BY <1>5, <2>1 DEF ReorderCategories
<1>6. CASE \E b \in Boards, from, to \in Cats : MoveBoard(b, from, to)
  <2>1. PICK b \in Boards, from \in Cats, to \in Cats : MoveBoard(b, from, to)
    BY <1>6
  <2> DEFINE r == [op |-> "move", board |-> b, cat |-> to]
  <2>2. r \in Requests /\ AskedFor(r)
    BY <2>1 DEF Requests, AskedFor, MoveBoard
  <2> QED BY <2>1, <2>2 DEF MoveBoard
<1>7. CASE \E b \in Boards, c \in Cats : HideBoard(b, c)
  <2>1. PICK b \in Boards, c \in Cats : HideBoard(b, c)
    BY <1>7
  <2>2. PICK next : /\ next \in (UNION {side[d].in \ side[d].hid : d \in DOMAIN side} \ {b}) \cup {None}
                    /\ Request([op |-> "hide", board |-> b, cat |-> c, hide |-> TRUE, next |-> next])
    BY <2>1 DEF HideBoard
  <2> DEFINE r == [op |-> "hide", board |-> b, cat |-> c, hide |-> TRUE, next |-> next]
  <2>3. next \in Boards \cup {None}
    BY <1>0, <2>2
  <2>4. r \in Requests /\ AskedFor(r)
    BY <2>3 DEF Requests, AskedFor
  <2> QED BY <2>2, <2>4
<1>8. CASE \E b \in Boards, c \in Cats : DeleteBoard(b, c)
  <2>1. PICK b \in Boards, c \in Cats : DeleteBoard(b, c)
    BY <1>8
  <2>2. PICK next : /\ next \in side[c].in \cup {None} /\ c \in DOMAIN side
                    /\ Request([op |-> "deleteBoard", board |-> b, next |-> next])
    BY <2>1 DEF DeleteBoard
  <2> DEFINE r == [op |-> "deleteBoard", board |-> b, next |-> next]
  <2>3. next \in Boards \cup {None}
    BY <1>0, <2>2
  <2>4. r \in Requests /\ AskedFor(r)
    BY <2>3 DEF Requests, AskedFor
  <2> QED BY <2>2, <2>4
<1>9. CASE \E b, new \in Boards, c \in Cats : DuplicateBoard(b, new, c)
  <2>1. PICK b \in Boards, new \in Boards, c \in Cats : DuplicateBoard(b, new, c)
    BY <1>9
  <2> DEFINE r == [op |-> "duplicate", board |-> b, new |-> new, cat |-> c]
  <2>2. r \in Requests /\ AskedFor(r)
    BY DEF Requests, AskedFor
  <2> QED BY <2>1, <2>2 DEF DuplicateBoard
<1>10. QED
  BY <1>1, <1>2, <1>3, <1>4, <1>5, <1>6, <1>7, <1>8, <1>9 DEF UserAsks

LEMMA RequestTyped ==
  ASSUME Typed, NEW r \in Requests, Request(r)
  PROVE  Typed'
<1>1. /\ reqs' = reqs \cup {r} /\ news' = news /\ calls' = calls /\ queue' = queue
      /\ UNCHANGED server /\ UNCHANGED <<store, told>>
  BY DEF Request
<1>2. TransitTyped'
  BY <1>1 DEF Typed, TransitTyped
<1>3. QED BY <1>1, <1>2, Same DEF Typed

\* What Send leaves in reqs: what was there, what it sends and what the effect asks.
LEMMA Sent ==
  ASSUME TransitTyped, StoreTyped', NEW R \in SUBSET Requests, Send(R)
  PROVE  /\ reqs' \subseteq Requests
         /\ \E effect : EffectAsks(effect) /\ reqs' = reqs \cup R \cup effect
<1>1. PICK effect \in SidebarEffect : reqs' = reqs \cup R \cup effect
  BY DEF Send
<1>2. effect \subseteq Requests /\ EffectAsks(effect)
  BY EffectTyped, EffectOf
<1>3. QED BY <1>1, <1>2 DEF TransitTyped

LEMMA NewCallsTyped == IsCall(NewLoad) /\ IsCall(NewFetch)
BY DEF NewLoad, NewFetch, IsCall, IsLoad, IsFetch

\* A board is added where it is dropped.
LEMMA CategoryTyped ==
  ASSUME NEW n \in Names, NEW i \in SUBSET Boards, NEW h \in SUBSET i
  PROVE  [name |-> n, in |-> i, hid |-> h] \in [name : Names, in : SUBSET Boards, hid : SUBSET Boards]
OBVIOUS

LEMMA ListsAdded ==
  ASSUME NEW s, Lists(s), NEW to \in DOMAIN s, NEW m \in Boards, NEW i, i = s[to].in \cup {m},
         NEW h, h \subseteq i,
         NEW t, DOMAIN t = DOMAIN s, \A c \in DOMAIN s : c # to => t[c] = s[c],
         t[to] = [name |-> s[to].name, in |-> i, hid |-> h]
  PROVE  ListsBut(t, to, m)
<1>1. /\ DOMAIN s \subseteq Cats
      /\ \A c \in DOMAIN s : /\ s[c] \in [name : Names, in : SUBSET Boards, hid : SUBSET Boards]
                             /\ s[c].hid \subseteq s[c].in
      /\ \A c, d \in DOMAIN s : c # d => s[c].in \cap s[d].in = {}
  BY DEF Lists, ListsAny
<1>2. /\ DOMAIN t = DOMAIN s
      /\ \A c \in DOMAIN s : c # to => t[c] = s[c]
  OBVIOUS
<1>3. t[to].in = i /\ t[to].hid = h
  OBVIOUS
<1>4. ListsAny(t)
  <2>1. s[to].name \in Names /\ s[to].in \subseteq Boards
    BY <1>1
  <2>2. t[to] \in [name : Names, in : SUBSET Boards, hid : SUBSET Boards] /\ t[to].hid \subseteq t[to].in
    BY <1>3, <2>1, CategoryTyped
  <2> QED BY <1>1, <1>2, <2>2 DEF ListsAny
<1>5. ASSUME NEW c \in DOMAIN t, NEW d \in DOMAIN t, c # d
      PROVE  t[c].in \cap t[d].in \subseteq IF to \in {c, d} THEN {m} ELSE {}
  <2>1. s[c].in \cap s[d].in = {}
    BY <1>1, <1>2, <1>5
  <2>2. CASE to = c
    <3>1. t[c].in = s[c].in \cup {m} /\ t[d] = s[d]
      BY <1>2, <1>3, <1>5, <2>2
    <3> QED BY <2>1, <2>2, <3>1
  <2>3. CASE to = d
    <3>1. t[d].in = s[d].in \cup {m} /\ t[c] = s[c]
      BY <1>2, <1>3, <1>5, <2>3
    <3> QED BY <2>1, <2>3, <3>1
  <2>4. CASE to \notin {c, d}
    BY <1>2, <2>1, <2>4
  <2> QED BY <2>2, <2>3, <2>4
<1>6. QED BY <1>2, <1>4, <1>5 DEF ListsBut

LEMMA DragTyped ==
  ASSUME Typed, drag = NoDrag, NEW b \in Boards, NEW m, NEW from, NEW to \in Cats,
         {from, to} \subseteq DOMAIN side, Drag(b, m, from, to)
  PROVE  Typed' /\ DOMAIN side' = DOMAIN side
<1> DEFINE h == side[from].hid \cap {m}
<1>1. Lists(side) /\ m \in Boards /\ to \in DOMAIN side /\ h \subseteq {m}
  BY DEF Typed, StoreTyped, Lists, ListsAny, Drag
<1>2. /\ drag' = [board |-> b, moved |-> m, to |-> to, hidden |-> m \in side[from].hid]
      /\ side' = UpdateCategoryBoardsOrder(side, to, side[to].in \cup {m}, side[to].hid \cup h)
      /\ UNCHANGED <<hidden, boards, mine, current>> /\ UNCHANGED <<server, news, queue, calls, history>>
      /\ Send({})
  BY DEF Drag
<1> HIDE DEF h
<1>3. ListsBut(side', to, m) /\ DOMAIN side' = DOMAIN side
  <2>1. PICK s, t, i, g : s = side /\ t = side' /\ i = s[to].in \cup {m} /\ g = s[to].hid \cup h
    OBVIOUS
  <2>2. t = [s EXCEPT ![to] = [name |-> s[to].name, in |-> i, hid |-> g]]
    BY <1>2, <2>1 DEF UpdateCategoryBoardsOrder
  <2>3. /\ DOMAIN t = DOMAIN s /\ \A c \in DOMAIN s : c # to => t[c] = s[c]
        /\ t[to] = [name |-> s[to].name, in |-> i, hid |-> g]
    BY <1>1, <2>1, <2>2
  <2>4. s[to].hid \subseteq s[to].in
    BY <1>1, <2>1 DEF Lists, ListsAny
  <2>5. g \subseteq i
    BY <1>1, <2>1, <2>4
  <2>6. ListsBut(t, to, m)
    BY <1>1, <2>1, <2>3, <2>5, ListsAdded
  <2> QED BY <2>1, <2>3, <2>6
<1>4. drag' \in [board : Boards, moved : Boards, to : DOMAIN side', hidden : BOOLEAN] /\ drag'.to = to /\ drag'.moved = m
  <2>1. (m \in side[from].hid) \in BOOLEAN
    OBVIOUS
  <2> QED BY <1>1, <1>2, <1>3, <2>1
<1>5. drag' # NoDrag
  BY <1>2, CategorySets DEF NoDrag
<1>6. StoreTyped'
  BY <1>2, <1>3, <1>4, <1>5 DEF Typed, StoreTyped, Dragged, history
<1>7. reqs' \subseteq Requests
  BY <1>2, <1>6, Sent DEF Typed
<1>8. TransitTyped'
  BY <1>2, <1>7 DEF Typed, TransitTyped
<1>9. ServerTyped'
  BY <1>2, Same DEF Typed
<1>10. QED BY <1>3, <1>6, <1>8, <1>9 DEF Typed

\* The second dispatch takes it out of the category where it was.
LEMMA DropTyped ==
  ASSUME Typed, Drop
  PROVE  Typed' /\ DOMAIN side' = DOMAIN side
<1> DEFINE e == [cat |-> drag.to, hidden |-> drag.hidden]
           f == About(drag.moved, e)
           r == [op |-> "move", board |-> drag.board, cat |-> drag.to]
<1>1. /\ drag \in [board : Boards, moved : Boards, to : DOMAIN side, hidden : BOOLEAN]
      /\ ListsBut(side, drag.to, drag.moved)
  BY DEF Drop, Typed, StoreTyped, Dragged
<1>2. DOMAIN side \subseteq Cats /\ ListsAny(side)
  BY SideTyped DEF Typed
<1>3. DOMAIN f = {drag.moved} /\ PlacesTold(f)
  <2>1. e \in [cat : Cats, hidden : BOOLEAN]
    BY <1>1, <1>2
  <2> HIDE DEF e
  <2>2. DOMAIN f = {drag.moved} /\ f[drag.moved] = e
    BY AboutOne
  <2> HIDE DEF f
  <2> QED BY <1>1, <2>1, <2>2 DEF PlacesTold
<1>4. /\ side' = UpdateBoardCategories(side, f)
      /\ hidden' = UpdateHiddenBoards(side, hidden, f)
      /\ UNCHANGED <<boards, mine, current>> /\ UNCHANGED <<server, news, queue, calls, history>>
      /\ Send({r}) /\ drag' = NoDrag
  BY DEF Drop
<1> HIDE DEF f
<1>5. Lists(side') /\ DOMAIN side' = DOMAIN side
  <2>1. \A c, d \in DOMAIN side : c # d => side[c].in \cap side[d].in \subseteq DOMAIN f
    BY <1>1, <1>3 DEF ListsBut
  <2> QED BY <1>2, <1>3, <1>4, <2>1, ListsTold
<1>6. hidden' \subseteq Boards
  BY <1>3, <1>4, HiddenStayBoards DEF Typed, StoreTyped
<1>7. StoreTyped'
  BY <1>4, <1>5, <1>6 DEF Typed, StoreTyped, history
<1>8. {r} \subseteq Requests
  BY <1>1, <1>2 DEF Requests
<1> HIDE DEF r
<1>9. reqs' \subseteq Requests
  BY <1>4, <1>7, <1>8, Sent DEF Typed
<1>10. TransitTyped'
  BY <1>4, <1>9 DEF Typed, TransitTyped
<1>11. ServerTyped'
  BY <1>4, Same DEF Typed
<1>12. QED BY <1>5, <1>7, <1>10, <1>11 DEF Typed

LEMMA HidesFit ==
  ASSUME NEW b \in Boards, NEW c \in Cats
  PROVE  [op |-> "hide", board |-> b, cat |-> c, hide |-> FALSE, next |-> None] \in Requests
<1>1. FALSE \in BOOLEAN /\ None \in Boards \cup {None}
  OBVIOUS
<1>2. \A h \in BOOLEAN, n \in Boards \cup {None} :
        [op |-> "hide", board |-> b, cat |-> c, hide |-> h, next |-> n] \in Requests
  BY DEF Requests
<1>3. QED BY <1>1, <1>2

\* The page of a board is shown, with what the store lists then.
LEMMA ShowTyped ==
  ASSUME Typed, drag = NoDrag, NEW b \in Boards, NEW others \in SUBSET calls, NEW cats \in SUBSET Cats, ShowBoard(b, others, cats),
         Lists(side'), hidden' \subseteq Boards, UNCHANGED <<server, news, queue, history>>
  PROVE  Typed'
<1>1. /\ current' = b /\ UNCHANGED <<boards, mine, drag>> /\ calls' = others \cup {NewLoad}
      /\ Send({[op |-> "hide", board |-> b, cat |-> c, hide |-> FALSE, next |-> None] : c \in cats})
  BY DEF ShowBoard
<1>2. StoreTyped'
  BY <1>1 DEF Typed, StoreTyped, history
<1>3. {[op |-> "hide", board |-> b, cat |-> c, hide |-> FALSE, next |-> None] : c \in cats} \subseteq Requests
  BY HidesFit
<1>4. reqs' \subseteq Requests
  BY <1>1, <1>2, <1>3, Sent DEF Typed
<1>5. \A x \in calls' : IsCall(x)
  BY <1>1, NewCallsTyped DEF Typed, TransitTyped
<1>6. TransitTyped'
  BY <1>4, <1>5 DEF Typed, TransitTyped
<1>7. ServerTyped'
  BY Same DEF Typed
<1>8. QED BY <1>2, <1>6, <1>7 DEF Typed

LEMMA UnhidingTyped == Typed => \A b : Unhiding(b) \subseteq Cats
BY SideTyped DEF Typed, Unhiding, CategoriesOf

LEMMA OpenTyped ==
  ASSUME Typed, drag = NoDrag, NEW b \in Boards, OpenWith(b, Unhiding(b))
  PROVE  Typed' /\ DOMAIN side' = DOMAIN side
<1>1. UNCHANGED <<side, hidden>> /\ ShowBoard(b, calls, Unhiding(b)) /\ UNCHANGED <<server, news, queue, history>>
  BY DEF OpenWith
<1>2. Lists(side') /\ hidden' \subseteq Boards
  BY <1>1 DEF Typed, StoreTyped
<1>3. Typed'
  BY <1>1, <1>2, UnhidingTyped, ShowTyped
<1>4. QED BY <1>1, <1>3

LEMMA ReloadTyped ==
  ASSUME Typed, drag = NoDrag, Reload
  PROVE  Typed'
<1>1. /\ news' \subseteq news /\ queue' = NoQueue /\ calls' = {NewLoad, NewFetch}
      /\ side' = Nil /\ hidden' = {} /\ boards' = {} /\ mine' = {} /\ current' = None
      /\ told' = [b \in Boards |-> FALSE]
      /\ UNCHANGED server /\ reqs' = reqs /\ drag' = drag
  BY DEF Reload
<1>2. Lists(Nil)
  BY DEF Lists, ListsAny, Nil
<1>3. StoreTyped'
  BY <1>1, <1>2 DEF StoreTyped
<1>4. \A kind \in Kinds : Fits(kind, queue'[kind])
  BY <1>1, NilTells
<1>5. TransitTyped'
  BY <1>1, <1>4, NewCallsTyped, NilTells DEF Typed, TransitTyped
<1>6. QED BY <1>1, <1>3, <1>5, Same DEF Typed

\* What the server does leaves the client and its queue alone.
LEMMA ServerStepTyped ==
  ASSUME Typed, ServerTyped', reqs' \subseteq Requests, \A n \in news' : IsNews(n), \A x \in calls' : IsCall(x),
         UNCHANGED <<queue, store, history>>
  PROVE  Typed'
<1>1. StoreTyped'
  BY Same DEF Typed, history
<1>2. DOMAIN queue' = Kinds /\ \A kind \in Kinds : Fits(kind, queue'[kind])
  BY Same DEF Typed
<1>3. TransitTyped'
  BY <1>2 DEF TransitTyped
<1>4. QED BY <1>1, <1>3 DEF Typed

LEMMA NamedCategory ==
  ASSUME ServerTyped, NEW c \in Cats, NEW e \in [state : {"free", "live", "deleted"}, name : Names],
         category' = [category EXCEPT ![c] = e], UNCHANGED <<row, member, existing>>
  PROVE  ServerTyped'
BY DEF ServerTyped

LEMMA HandleNamesTyped ==
  ASSUME Typed, NEW r \in reqs, HandleCreate(r) \/ HandleUpdate(r) \/ DeleteRow(r), UNCHANGED <<queue, store, history>>
  PROVE  Typed'
<1>0. r \in Requests /\ ServerTyped /\ TransitTyped
  BY DEF Typed, TransitTyped
<1>1. \A x \in calls : IsCall(x)
  BY <1>0 DEF TransitTyped
<1>2. CASE r.op = "update" /\ r.cat \notin Live
  <2>1. Refuse(r) /\ UNCHANGED calls
    BY <1>2 DEF HandleCreate, HandleUpdate, DeleteRow
  <2>2. ServerTyped'
    BY <1>0, <2>1, Same DEF Refuse
  <2>3. reqs' \subseteq Requests /\ \A n \in news' : IsNews(n)
    BY <1>0, <2>1, DoneTyped DEF Refuse
  <2> QED BY <1>1, <2>1, <2>2, <2>3, ServerStepTyped
<1>3. CASE ~(r.op = "update" /\ r.cat \notin Live)
  <2>1. r.cat \in Cats /\ (r.op \in {"create", "update"} => r.name \in Names)
    BY <1>0, RequestFields, CategorySets DEF HandleCreate, HandleUpdate, DeleteRow
  <2>2. category[r.cat] \in [state : {"free", "live", "deleted"}, name : Names]
    BY <1>0, <2>1 DEF ServerTyped
  <2>3. \E e \in [state : {"free", "live", "deleted"}, name : Names] : category' = [category EXCEPT ![r.cat] = e]
    <3>1. CASE HandleCreate(r)
      BY <2>1, <3>1 DEF HandleCreate
    <3>2. CASE HandleUpdate(r)
      <4> DEFINE e == [category[r.cat] EXCEPT !.name = IF r.cat = Default THEN @ ELSE r.name]
      <4>1. category' = [category EXCEPT ![r.cat] = e]
        BY <1>3, <3>2 DEF HandleUpdate
      <4>2. e \in [state : {"free", "live", "deleted"}, name : Names]
        BY <2>1, <2>2, <3>2 DEF HandleUpdate
      <4> HIDE DEF e
      <4> QED BY <4>1, <4>2
    <3>3. CASE DeleteRow(r)
      <4> DEFINE e == [category[r.cat] EXCEPT !.state = "deleted"]
      <4>1. category' = [category EXCEPT ![r.cat] = e]
        BY <3>3 DEF DeleteRow
      <4>2. e \in [state : {"free", "live", "deleted"}, name : Names]
        BY <2>2
      <4> HIDE DEF e
      <4> QED BY <4>1, <4>2
    <3> QED BY <3>1, <3>2, <3>3
  <2>4. UNCHANGED <<row, member, existing>> /\ calls' = calls /\ Done(r, {CategoryNews(r.cat)})
    BY <1>3 DEF HandleCreate, HandleUpdate, DeleteRow
  <2>5. ServerTyped'
    BY <1>0, <2>1, <2>3, <2>4, NamedCategory
  <2>6. IsNews(CategoryNews(r.cat))
    BY <2>1, <2>5, CategoryNewsTyped
  <2>7. reqs' \subseteq Requests /\ \A n \in news' : IsNews(n)
    BY <1>0, <2>4, <2>6, DoneTyped
  <2> QED BY <1>1, <2>4, <2>5, <2>7, ServerStepTyped
<1>4. QED BY <1>2, <1>3

\* Boards are put in a category.
LEMMA PlacedTyped ==
  ASSUME ServerTyped, NEW c \in Cats, NEW moved \in SUBSET Boards, row' = RowsAfter(c, moved),
         category' = category, existing' \subseteq Boards, member' \subseteq existing', member' \subseteq member \cup moved
  PROVE  ServerTyped'
<1>1. /\ row' \in [Boards -> [cat : Cats \cup {None}, hidden : BOOLEAN]]
      /\ \A b \in moved : row'[b].cat = c
      /\ \A b \in Boards \ moved : row'[b] = row[b]
  BY RowsAfterTyped
<1>2. \A b \in member' : row'[b].cat # None
  BY <1>1, CategorySets DEF ServerTyped
<1>3. QED BY <1>1, <1>2 DEF ServerTyped

LEMMA HandleMoveTyped ==
  ASSUME Typed, NEW r \in reqs, HandleMove(r), UNCHANGED <<queue, store, history>>
  PROVE  Typed'
<1>0. r \in Requests /\ ServerTyped /\ TransitTyped /\ \A x \in calls : IsCall(x)
  BY DEF Typed, TransitTyped
<1>1. /\ r.board \in Boards /\ r.cat \in Cats /\ row' = RowsAfter(r.cat, {r.board})
      /\ Done(r, ContentNews(r.cat, {r.board})) /\ UNCHANGED <<category, member, existing, calls>>
  BY <1>0, RequestFields DEF HandleMove
<1>2. ServerTyped'
  <2>1. /\ {r.board} \in SUBSET Boards
        /\ existing' \subseteq Boards /\ member' \subseteq existing' /\ member' \subseteq member \cup {r.board}
    BY <1>0, <1>1 DEF ServerTyped
  <2> QED BY <1>0, <1>1, <2>1, PlacedTyped
<1>3. \A n \in ContentNews(r.cat, {r.board}) : IsNews(n)
  BY <1>0, <1>1, ContentNewsTyped
<1>4. reqs' \subseteq Requests /\ \A n \in news' : IsNews(n)
  BY <1>0, <1>1, <1>3, DoneTyped
<1>5. QED BY <1>0, <1>1, <1>2, <1>4, ServerStepTyped

LEMMA DeletionsFit ==
  ASSUME NEW c \in Customs, NEW step \in {"move", "row"}, NEW ids \in SUBSET Boards, NEW to \in Cats
  PROVE  [op |-> "delete", step |-> step, cat |-> c, ids |-> ids, to |-> to] \in Requests
<1>1. [op |-> "delete", step |-> step, cat |-> c, ids |-> ids, to |-> to]
        \in [op : {"delete"}, step : {"move", "row"}, cat : Customs, ids : SUBSET Boards, to : Cats]
  OBVIOUS
<1>2. QED BY <1>1 DEF Requests

MovesOn(r, step, ids, to) == [r EXCEPT !.step = step, !.ids = ids, !.to = to]
LEMMA DeletionGoesOn ==
  ASSUME NEW r \in [op : {"delete"}, step : {"read", "move", "row"}, cat : Customs, ids : SUBSET Boards, to : Cats \cup {None}],
         NEW step \in {"read", "move", "row"}, NEW ids \in SUBSET Boards, NEW to \in Cats \cup {None}
  PROVE  /\ MovesOn(r, step, ids, to)
               = [op |-> "delete", step |-> step, cat |-> r.cat, ids |-> ids, to |-> to]
         /\ [r EXCEPT !.step = step, !.ids = ids] = [op |-> "delete", step |-> step, cat |-> r.cat, ids |-> ids, to |-> r.to]
<1>1. r.cat \in Customs /\ r.to \in Cats \cup {None} /\ r.op = "delete" /\ r.step \in {"read", "move", "row"} /\ r.ids \in SUBSET Boards
  OBVIOUS
<1>2. r = [op |-> "delete", step |-> r.step, cat |-> r.cat, ids |-> r.ids, to |-> r.to]
  OBVIOUS
<1> DEFINE r1 == [r EXCEPT !.step = step]
           r2 == [r1 EXCEPT !.ids = ids]
<1>3. r1 = [op |-> "delete", step |-> step, cat |-> r.cat, ids |-> r.ids, to |-> r.to]
  BY <1>2
<1>4. [r EXCEPT !.step = step, !.ids = ids] = r2 /\ MovesOn(r, step, ids, to) = [r2 EXCEPT !.to = to]
  BY DEF MovesOn
<1> HIDE DEF r1
<1>5. r2 = [op |-> "delete", step |-> step, cat |-> r.cat, ids |-> ids, to |-> r.to]
  BY <1>3
<1> HIDE DEF r2
<1>6. [r2 EXCEPT !.to = to] = [op |-> "delete", step |-> step, cat |-> r.cat, ids |-> ids, to |-> to]
  BY <1>5
<1>7. QED BY <1>4, <1>5, <1>6

LEMMA DefaultIsCategory ==
  ASSUME NEW c \in Cats, NEW to \in DefaultFor(c)
  PROVE  to \in Cats /\ category[to].name = "Boards"
BY DEF DefaultFor, CalledBoards, Live

LEMMA ReadDeletedTyped ==
  ASSUME Typed, NEW r \in reqs, ReadDeleted(r), UNCHANGED <<queue, store, history>>
  PROVE  /\ Typed'
         /\ \/ reqs' = reqs \ {r}
            \/ \E to \in DefaultFor(r.cat) :
                  reqs' = (reqs \ {r}) \cup {[op |-> "delete", step |-> "move", cat |-> r.cat, ids |-> RowsOf(r.cat), to |-> to]}
<1>0. r \in Requests /\ ServerTyped /\ TransitTyped /\ \A x \in calls : IsCall(x)
  BY DEF Typed, TransitTyped
<1>1. /\ r \in [op : {"delete"}, step : {"read", "move", "row"}, cat : Customs, ids : SUBSET Boards, to : Cats \cup {None}]
      /\ r.cat \in Cats /\ r.op = "delete" /\ UNCHANGED <<server, news, calls>>
  BY <1>0, RequestFields, CategorySets DEF ReadDeleted
<1>2. RowsOf(r.cat) \subseteq Boards
  BY DEF RowsOf
<1>3. /\ \A to \in Cats : [r EXCEPT !.step = "move", !.ids = RowsOf(r.cat), !.to = to]
                  = [op |-> "delete", step |-> "move", cat |-> r.cat, ids |-> RowsOf(r.cat), to |-> to]
      /\ \A to \in Cats : [op |-> "delete", step |-> "move", cat |-> r.cat, ids |-> RowsOf(r.cat), to |-> to] \in Requests
  <2>1. r.cat \in Customs
    BY <1>1
  <2>2. \A to \in Cats : [op |-> "delete", step |-> "move", cat |-> r.cat, ids |-> RowsOf(r.cat), to |-> to] \in Requests
    BY <1>2, <2>1, DeletionsFit
  <2>3. ASSUME NEW to \in Cats
        PROVE  [r EXCEPT !.step = "move", !.ids = RowsOf(r.cat), !.to = to]
                  = [op |-> "delete", step |-> "move", cat |-> r.cat, ids |-> RowsOf(r.cat), to |-> to]
    <3>1. "move" \in {"read", "move", "row"} /\ RowsOf(r.cat) \in SUBSET Boards /\ to \in Cats \cup {None}
      BY <1>2
    <3>2. r \in [op : {"delete"}, step : {"read", "move", "row"}, cat : Customs, ids : SUBSET Boards, to : Cats \cup {None}]
      BY <1>1
    <3>3. [r EXCEPT !.step = "move", !.ids = RowsOf(r.cat), !.to = to] = MovesOn(r, "move", RowsOf(r.cat), to)
      BY DEF MovesOn
    <3> QED BY <3>1, <3>2, <3>3, DeletionGoesOn
  <2> QED BY <2>2, <2>3
<1>4. \/ reqs' = reqs \ {r}
      \/ \E to \in DefaultFor(r.cat) :
            reqs' = (reqs \ {r}) \cup {[op |-> "delete", step |-> "move", cat |-> r.cat, ids |-> RowsOf(r.cat), to |-> to]}
  <2>1. \/ reqs' = reqs \ {r}
        \/ \E to \in DefaultFor(r.cat) :
              reqs' = (reqs \ {r}) \cup {[r EXCEPT !.step = "move", !.ids = RowsOf(r.cat), !.to = to]}
    BY DEF ReadDeleted
  <2>2. CASE reqs' = reqs \ {r}
    BY <2>2
  <2>3. CASE \E to \in DefaultFor(r.cat) :
               reqs' = (reqs \ {r}) \cup {[r EXCEPT !.step = "move", !.ids = RowsOf(r.cat), !.to = to]}
    <3>1. PICK to \in DefaultFor(r.cat) :
            reqs' = (reqs \ {r}) \cup {[r EXCEPT !.step = "move", !.ids = RowsOf(r.cat), !.to = to]}
      BY <2>3
    <3>2. to \in Cats
      BY <1>1, DefaultIsCategory
    <3> DEFINE moved == [op |-> "delete", step |-> "move", cat |-> r.cat, ids |-> RowsOf(r.cat), to |-> to]
               gone == [r EXCEPT !.step = "move", !.ids = RowsOf(r.cat), !.to = to]
    <3>3. gone = moved
      BY ONLY <1>3, <3>2
    <3>4. reqs' = (reqs \ {r}) \cup {gone}
      BY ONLY <3>1
    <3>5. \E x \in DefaultFor(r.cat) : x = to
      OBVIOUS
    <3> HIDE DEF gone
    <3>6. reqs' = (reqs \ {r}) \cup {moved}
      BY ONLY <3>3, <3>4
    <3> QED BY <3>5, <3>6
  <2> QED BY ONLY <2>1, <2>2, <2>3
<1>5. reqs' \subseteq Requests
  <2>1. reqs \subseteq Requests /\ \A to \in DefaultFor(r.cat) : to \in Cats
    BY <1>0, <1>1, DefaultIsCategory DEF TransitTyped
  <2>2. CASE reqs' = reqs \ {r}
    BY <2>1, <2>2
  <2>3. CASE reqs' # reqs \ {r}
    <3>1. PICK to \in DefaultFor(r.cat) :
            reqs' = (reqs \ {r}) \cup {[op |-> "delete", step |-> "move", cat |-> r.cat, ids |-> RowsOf(r.cat), to |-> to]}
      BY <1>4, <2>3
    <3> QED BY <1>3, <2>1, <3>1
  <2> QED BY <2>2, <2>3
<1>6. ServerTyped'
  BY <1>0, <1>1, Same
<1>7. Typed'
  BY <1>0, <1>1, <1>5, <1>6, ServerStepTyped DEF TransitTyped
<1>8. QED BY <1>4, <1>7

LEMMA MoveDeletedTyped ==
  ASSUME Typed, NEW r \in reqs, MoveDeleted(r), UNCHANGED <<queue, store, history>>
  PROVE  /\ Typed'
         /\ \/ reqs' = reqs \ {r}
            \/ reqs' = (reqs \ {r}) \cup {[op |-> "delete", step |-> "row", cat |-> r.cat, ids |-> {}, to |-> r.to]}
<1>0. r \in Requests /\ ServerTyped /\ TransitTyped /\ \A x \in calls : IsCall(x)
  BY DEF Typed, TransitTyped
<1>1. /\ r \in [op : {"delete"}, step : {"read", "move", "row"}, cat : Customs, ids : SUBSET Boards, to : Cats \cup {None}]
      /\ r.to \in Cats /\ r.op = "delete" /\ UNCHANGED <<category, member, existing, calls>>
      /\ row' = RowsAfter(r.to, r.ids) /\ news' = news \cup ContentNews(r.to, r.ids)
  BY <1>0, RequestFields DEF MoveDeleted
<1>2. /\ [r EXCEPT !.step = "row", !.ids = {}] = [op |-> "delete", step |-> "row", cat |-> r.cat, ids |-> {}, to |-> r.to]
      /\ [op |-> "delete", step |-> "row", cat |-> r.cat, ids |-> {}, to |-> r.to] \in Requests
  <2>1. r.cat \in Customs /\ {} \in SUBSET Boards
    BY <1>1
  <2>2. [op |-> "delete", step |-> "row", cat |-> r.cat, ids |-> {}, to |-> r.to] \in Requests
    BY <1>1, <2>1, DeletionsFit
  <2> QED BY <1>1, <2>2, DeletionGoesOn
<1>3. \/ reqs' = reqs \ {r}
      \/ reqs' = (reqs \ {r}) \cup {[op |-> "delete", step |-> "row", cat |-> r.cat, ids |-> {}, to |-> r.to]}
  BY <1>2 DEF MoveDeleted
<1>4. reqs' \subseteq Requests
  BY <1>2, <1>3 DEF Typed, TransitTyped
<1>5. ServerTyped'
  BY <1>0, <1>1, PlacedTyped DEF ServerTyped
<1>6. \A n \in news' : IsNews(n)
  BY <1>0, <1>1, ContentNewsTyped DEF TransitTyped
<1>7. Typed'
  BY <1>0, <1>1, <1>4, <1>5, <1>6, ServerStepTyped
<1>8. QED BY <1>3, <1>7

LEMMA AnswerTyped ==
  ASSUME NEW f, PlacesTold(f), NEW next \in Boards \cup {None}
  PROVE  IsCall(Answer(f, next))
BY DEF Answer, IsCall, IsAnswer

LEMMA HandleHideTyped ==
  ASSUME Typed, NEW r \in reqs, HandleHide(r), UNCHANGED <<queue, store, history>>
  PROVE  Typed'
<1> DEFINE f == About(r.board, [cat |-> r.cat, hidden |-> r.hide])
           told1 == News("boards", f)
<1>0. r \in Requests /\ ServerTyped /\ TransitTyped /\ \A x \in calls : IsCall(x)
  BY DEF Typed, TransitTyped
<1>1. /\ r.board \in Boards /\ r.cat \in Cats /\ r.hide \in BOOLEAN /\ r.next \in Boards \cup {None}
      /\ row' = [row EXCEPT ![r.board].hidden = IF row[r.board].cat = r.cat THEN r.hide ELSE @]
      /\ Done(r, {told1}) /\ UNCHANGED <<category, member, existing>>
      /\ calls' \subseteq calls \cup {Answer(told1.new, r.next)}
  BY <1>0, RequestFields DEF HandleHide
<1>2. PlacesTold(f) /\ IsNews(told1) /\ told1.new = f
  BY <1>1, PlaceNews, NewsFields DEF Kinds
<1> HIDE DEF f, told1
<1>3. ServerTyped'
  <2> DEFINE h == IF row[r.board].cat = r.cat THEN r.hide ELSE row[r.board].hidden
  <2>1. row[r.board] \in [cat : Cats \cup {None}, hidden : BOOLEAN]
    BY <1>0, <1>1 DEF ServerTyped
  <2>2. h \in BOOLEAN
    BY <1>1, <2>1
  <2>3. row' = [row EXCEPT ![r.board] = [row[r.board] EXCEPT !.hidden = h]]
    BY <1>1
  <2> HIDE DEF h
  <2>4. [row[r.board] EXCEPT !.hidden = h] = [cat |-> row[r.board].cat, hidden |-> h]
    BY <2>1
  <2>5. row' = [row EXCEPT ![r.board] = [cat |-> row[r.board].cat, hidden |-> h]]
    BY <2>3, <2>4
  <2>6. row' \in [Boards -> [cat : Cats \cup {None}, hidden : BOOLEAN]] /\ \A b \in Boards : row'[b].cat = row[b].cat
    BY <1>0, <1>1, <2>1, <2>2, <2>5 DEF ServerTyped
  <2> QED BY <1>0, <1>1, <2>6 DEF ServerTyped
<1>4. reqs' \subseteq Requests /\ \A n \in news' : IsNews(n)
  BY <1>0, <1>1, <1>2, DoneTyped
<1>5. \A x \in calls' : IsCall(x)
  BY <1>0, <1>1, <1>2, AnswerTyped
<1>6. QED BY <1>3, <1>4, <1>5, ServerStepTyped

LEMMA HandleOrderTyped ==
  ASSUME Typed, NEW r \in reqs, HandleOrder(r), UNCHANGED <<queue, store, history>>
  PROVE  Typed'
<1>0. r \in Requests /\ ServerTyped /\ TransitTyped /\ \A x \in calls : IsCall(x)
  BY DEF Typed, TransitTyped
<1> DEFINE f == [c \in r.cats |-> TRUE]
           sent == IF r.cats = Live THEN {News("order", f)} ELSE {}
<1>1. /\ r.cats \subseteq Cats /\ UNCHANGED <<server, calls>> /\ Done(r, sent)
  BY <1>0, RequestFields DEF HandleOrder
<1>2. DOMAIN f \subseteq Cats
  BY <1>1
<1> HIDE DEF f
<1>3. Fits("order", f)
  BY <1>2 DEF Fits
<1>4. \A n \in sent : IsNews(n)
  BY <1>3, NewsFields DEF IsNews, Kinds
<1> HIDE DEF sent
<1>5. reqs' \subseteq Requests /\ \A n \in news' : IsNews(n)
  BY <1>0, <1>1, <1>4, DoneTyped
<1>6. QED BY <1>0, <1>1, <1>5, Same, ServerStepTyped

LEMMA HandleDuplicateTyped ==
  ASSUME Typed, NEW r \in reqs, HandleDuplicate(r), UNCHANGED <<queue, store, history>>
  PROVE  Typed'
<1>0. /\ r \in Requests /\ ServerTyped /\ TransitTyped /\ \A x \in calls : IsCall(x)
      /\ member \subseteq existing /\ existing \subseteq Boards
  BY DEF Typed, TransitTyped, ServerTyped
<1>1. r.board \in Boards /\ r.new \in Boards /\ r.cat \in Cats /\ category' = category
  BY <1>0, RequestFields DEF HandleDuplicate
<1>2. CASE r.board \notin existing
  <2>1. Refuse(r) /\ UNCHANGED calls
    BY <1>2 DEF HandleDuplicate
  <2>2. ServerTyped'
    BY <1>0, <2>1, Same DEF Refuse
  <2>3. reqs' \subseteq Requests /\ \A n \in news' : IsNews(n)
    BY <1>0, <2>1, DoneTyped DEF Refuse
  <2> QED BY <1>0, <2>1, <2>2, <2>3, ServerStepTyped
<1>3. CASE r.board \in existing
  <2> DEFINE f == About(r.new, [cat |-> r.cat, hidden |-> FALSE])
             sent(to) == ContentNews(to, {r.new}) \cup
                         {News("board", About(r.new, TRUE)), News("member", About(r.new, TRUE))}
  <2>1. PICK to \in IF row[r.board].cat \in Live THEN {row[r.board].cat} ELSE CalledBoards :
           /\ existing' = existing \cup {r.new} /\ member' = member \cup {r.new}
           /\ row' = RowsAfter(to, {r.new}) /\ Done(r, sent(to))
           /\ calls' = calls \cup {Answer(f, r.new)}
    BY <1>3 DEF HandleDuplicate
  <2>2. to \in Cats
    BY <2>1 DEF CalledBoards, Live
  <2>3. PlacesTold(f)
    BY <1>1, PlaceNews
  <2> HIDE DEF f
  <2>4. ServerTyped'
    <3>1. /\ {r.new} \in SUBSET Boards
          /\ existing' \subseteq Boards /\ member' \subseteq existing' /\ member' \subseteq member \cup {r.new}
      BY <1>0, <1>1, <2>1
    <3> QED BY <1>0, <1>1, <2>1, <2>2, <3>1, PlacedTyped
  <2>5. \A n \in sent(to) : IsNews(n)
    BY <1>0, <1>1, <2>2, BoardNews, ContentNewsTyped
  <2> HIDE DEF sent
  <2>6. reqs' \subseteq Requests /\ \A n \in news' : IsNews(n)
    BY <1>0, <2>1, <2>5, DoneTyped
  <2>7. \A x \in calls' : IsCall(x)
    BY <1>0, <1>1, <2>1, <2>3, AnswerTyped
  <2> QED BY <2>4, <2>6, <2>7, ServerStepTyped
<1>4. QED BY <1>2, <1>3

LEMMA HandleDeleteBoardTyped ==
  ASSUME Typed, NEW r \in reqs, HandleDeleteBoard(r), UNCHANGED <<queue, store, history>>
  PROVE  Typed'
<1>0. r \in Requests /\ ServerTyped /\ TransitTyped /\ \A x \in calls : IsCall(x)
  BY DEF Typed, TransitTyped
<1> DEFINE sent == IF r.board \in existing THEN {News("board", About(r.board, FALSE))} ELSE {}
<1>1. /\ r.board \in Boards /\ r.next \in Boards \cup {None} /\ UNCHANGED <<category, row>>
      /\ calls' \subseteq calls \cup {Answer(Nil, r.next)}
      /\ existing' = existing \ {r.board} /\ member' = member \ {r.board} /\ Done(r, sent)
  BY <1>0, RequestFields DEF HandleDeleteBoard
<1>2. \A n \in sent : IsNews(n)
  BY <1>1, BoardNews
<1> HIDE DEF sent
<1>3. reqs' \subseteq Requests /\ \A n \in news' : IsNews(n)
  BY <1>0, <1>1, <1>2, DoneTyped
<1>4. PlacesTold(Nil)
  BY DEF PlacesTold, Nil
<1>5. \A x \in calls' : IsCall(x)
  BY <1>0, <1>1, <1>4, AnswerTyped
<1>6. ServerTyped'
  BY <1>0, <1>1 DEF ServerTyped
<1>7. QED BY <1>3, <1>5, <1>6, ServerStepTyped

LEMMA HandleTyped ==
  ASSUME Typed, Handle
  PROVE  Typed'
<1>1. PICK r \in reqs : \/ HandleCreate(r) \/ HandleUpdate(r) \/ HandleMove(r)
                        \/ ReadDeleted(r) \/ MoveDeleted(r) \/ DeleteRow(r)
                        \/ HandleHide(r) \/ HandleOrder(r)
                        \/ HandleDuplicate(r) \/ HandleDeleteBoard(r)
  BY DEF Handle
<1>2. UNCHANGED <<queue, store, history>>
  BY DEF Handle
<1>3. QED
  BY <1>1, <1>2, HandleNamesTyped, HandleMoveTyped, ReadDeletedTyped, MoveDeletedTyped, HandleHideTyped,
     HandleOrderTyped, HandleDuplicateTyped, HandleDeleteBoardTyped

LEMMA AddMemberTyped ==
  ASSUME Typed, NEW b \in Boards, AddMember(b)
  PROVE  Typed'
<1>0. ServerTyped /\ TransitTyped /\ member \subseteq existing /\ existing \subseteq Boards
  BY DEF Typed, ServerTyped
<1>1. PICK to \in CalledBoards :
         /\ row' = RowsAfter(to, {b})
         /\ news' = news \cup ContentNews(to, {b}) \cup {News("member", About(b, TRUE))}
  BY DEF AddMember
<1>2. /\ member' = member \cup {b} /\ b \in existing
      /\ UNCHANGED <<category, existing, reqs, queue, calls, store, history>>
  BY DEF AddMember
<1>3. to \in Cats
  BY DEF CalledBoards, Live
<1>4. ServerTyped'
  <2>1. /\ {b} \in SUBSET Boards
        /\ existing' \subseteq Boards /\ member' \subseteq existing' /\ member' \subseteq member \cup {b}
    BY <1>0, <1>2
  <2> QED BY <1>0, <1>1, <1>2, <1>3, <2>1, PlacedTyped
<1>5. \A n \in news' : IsNews(n)
  BY <1>0, <1>1, <1>3, BoardNews, ContentNewsTyped DEF TransitTyped
<1>6. QED BY <1>0, <1>2, <1>4, <1>5, ServerStepTyped DEF TransitTyped

LEMMA RemoveMemberTyped ==
  ASSUME Typed, NEW b \in Boards, RemoveMember(b)
  PROVE  Typed'
<1>1. /\ member' = member \ {b} /\ news' = news \cup {News("member", About(b, FALSE))}
      /\ UNCHANGED <<category, row, existing, reqs, queue, calls, store, history>>
  BY DEF RemoveMember
<1>2. ServerTyped'
  BY <1>1 DEF Typed, ServerTyped
<1>3. \A n \in news' : IsNews(n)
  BY <1>1, BoardNews DEF Typed, TransitTyped
<1>4. QED BY <1>1, <1>2, <1>3, ServerStepTyped DEF Typed, TransitTyped

LEMMA DeliverTyped ==
  ASSUME Typed, NEW n, Deliver(n)
  PROVE  Typed'
<1>0. TransitTyped /\ StoreTyped /\ ServerTyped
  BY DEF Typed
<1>1. /\ n \in news /\ news' = news \ {n}
      /\ queue' = [queue EXCEPT ![n.kind] = IF n.kind = "order" THEN n.new ELSE Newer(n.new, @)]
      /\ UNCHANGED <<server, reqs, calls, store, history>>
  BY DEF Deliver
<1>2. n.kind \in Kinds /\ Fits(n.kind, n.new) /\ DOMAIN queue = Kinds /\ Fits(n.kind, queue[n.kind])
  BY <1>0, <1>1 DEF TransitTyped, IsNews
<1> DEFINE now == IF n.kind = "order" THEN n.new ELSE Newer(n.new, queue[n.kind])
<1>3. Fits(n.kind, now)
  BY <1>2, FitsNewer
<1>4. queue' = [queue EXCEPT ![n.kind] = now]
  BY <1>1
<1> HIDE DEF now
<1>5. DOMAIN queue' = Kinds /\ \A kind \in Kinds : queue'[kind] = IF kind = n.kind THEN now ELSE queue[kind]
  BY <1>2, <1>4
<1>6. TransitTyped'
  BY <1>0, <1>1, <1>3, <1>5 DEF TransitTyped
<1>7. QED BY <1>0, <1>1, <1>6, Same DEF Typed, history

\* What the client stores of its queue.
Named == UpdateCategories(side, queue["category"])
Placed == UpdateBoardCategories(Named, queue["boards"])
LEMMA QueueTyped ==
  ASSUME Typed, drag = NoDrag
  PROVE  /\ NamesTold(queue["category"]) /\ PlacesTold(queue["boards"])
         /\ BoardsTold(queue["board"]) /\ BoardsTold(queue["member"]) /\ DOMAIN queue["order"] \subseteq Cats
         /\ Lists(Named) /\ Lists(Placed) /\ DOMAIN Placed = DOMAIN Named
<1>1. \A kind \in Kinds : Fits(kind, queue[kind])
  BY DEF Typed, TransitTyped
<1>2. /\ NamesTold(queue["category"]) /\ PlacesTold(queue["boards"])
      /\ BoardsTold(queue["board"]) /\ BoardsTold(queue["member"]) /\ DOMAIN queue["order"] \subseteq Cats
  BY <1>1 DEF Fits, Kinds
<1>3. Lists(Named)
  BY <1>2, ListsNames DEF Named, Typed, StoreTyped
<1>4. Lists(Placed) /\ DOMAIN Placed = DOMAIN Named
  BY <1>2, <1>3, ListsPlaces DEF Placed
<1>5. QED BY <1>2, <1>3, <1>4

LEMMA FlushTyped ==
  ASSUME Typed, drag = NoDrag, Flush
  PROVE  Typed' /\ side' = UpdateCategoryOrder(Placed, queue["order"])
<1> DEFINE added == {b \in DOMAIN queue["member"] : queue["member"][b]}
           removed == DOMAIN queue["member"] \ added
           boards1 == (boards \ DOMAIN queue["board"]) \cup {b \in DOMAIN queue["board"] : queue["board"][b]}
           get == BoardsToGet(added, boards1)
<1>1. /\ queue' = NoQueue
      /\ side' = UpdateCategoryOrder(Placed, queue["order"])
      /\ hidden' = UpdateHiddenBoards(Named, hidden, queue["boards"])
      /\ boards' \subseteq boards1
      /\ mine' = (mine \ removed) \cup added
      /\ calls' \subseteq calls \cup {[op |-> "members", get |-> get, removed |-> removed, got |-> None]}
      /\ told' = [b \in Boards |-> IF b \in DOMAIN queue["member"] THEN queue["member"][b] ELSE told[b]]
      /\ UNCHANGED <<current, drag>> /\ Send({}) /\ UNCHANGED <<server, news>>
  BY DEF Flush, Named, Placed
<1>2. /\ PlacesTold(queue["boards"]) /\ Lists(Placed)
      /\ DOMAIN queue["board"] \subseteq Boards
      /\ DOMAIN queue["member"] \subseteq Boards /\ \A b \in DOMAIN queue["member"] : queue["member"][b] \in BOOLEAN
  BY QueueTyped DEF BoardsTold
<1>3. /\ hidden \subseteq Boards /\ boards \subseteq Boards /\ mine \subseteq Boards /\ current \in Boards \cup {None}
      /\ told \in [Boards -> BOOLEAN] /\ \A b \in mine : told[b]
  BY DEF Typed, StoreTyped
<1>4. Lists(side') /\ hidden' \subseteq Boards
  BY <1>1, <1>2, <1>3, ListsOrdered, HiddenStayBoards
<1>5. boards' \subseteq Boards /\ mine' \subseteq Boards /\ get \subseteq Boards /\ removed \subseteq Boards
  BY <1>1, <1>2, <1>3 DEF BoardsToGet
<1>6. told' \in [Boards -> BOOLEAN] /\ \A b \in mine' : told'[b]
  <2>1. told' \in [Boards -> BOOLEAN]
    BY <1>1, <1>2, <1>3
  <2>2. ASSUME NEW b \in mine' PROVE told'[b]
    <3>1. CASE b \in DOMAIN queue["member"]
      <4>1. b \in added
        BY <1>1, <2>2, <3>1
      <4>2. queue["member"][b]
        BY <4>1
      <4>3. told'[b] = queue["member"][b]
        BY <1>1, <1>2, <3>1
      <4> QED BY <4>2, <4>3
    <3>2. CASE b \notin DOMAIN queue["member"]
      <4>1. b \in mine
        BY <1>1, <2>2, <3>2
      <4>2. told'[b] = told[b]
        BY <1>1, <1>3, <3>2, <4>1
      <4> QED BY <1>3, <4>1, <4>2
    <3> QED BY <3>1, <3>2
  <2> QED BY <2>1, <2>2
<1>7. StoreTyped'
  BY <1>1, <1>3, <1>4, <1>5, <1>6 DEF StoreTyped
<1>8. reqs' \subseteq Requests
  BY <1>1, <1>7, Sent DEF Typed
<1>9. \A x \in calls' : IsCall(x)
  <2> HIDE DEF get, removed
  <2>1. IsMembers([op |-> "members", get |-> get, removed |-> removed, got |-> None])
    BY <1>5 DEF IsMembers
  <2>2. \A x \in calls : IsCall(x)
    BY DEF Typed, TransitTyped
  <2> QED BY <1>1, <2>1, <2>2 DEF IsCall
<1>10. DOMAIN queue' = Kinds /\ \A kind \in Kinds : Fits(kind, queue'[kind])
  BY <1>1, NilTells
<1>11. TransitTyped'
  BY <1>1, <1>8, <1>9, <1>10 DEF Typed, TransitTyped
<1>12. QED BY <1>1, <1>7, <1>11, Same DEF Typed

\* What is answered goes; the rest of calls stays, and what comes is typed.
LEMMA AnsweredTyped ==
  ASSUME Typed, NEW x, NEW y, Answered(x, {y}), IsCall(y), UNCHANGED <<server, reqs, news, queue, store, history>>
  PROVE  Typed'
<1>1. \A z \in calls' : IsCall(z)
  BY DEF Answered, Typed, TransitTyped
<1>2. TransitTyped'
  BY <1>1 DEF Typed, TransitTyped
<1>3. QED BY <1>2, Same DEF Typed, history

\* The fields of what the client waits for.
LEMMA CallFields ==
  ASSUME NEW x, IsCall(x), "op" \in DOMAIN x
  PROVE  /\ "kind" \notin DOMAIN x /\ x.op \in {"fetch", "load", "members"}
         /\ x.op = "fetch" => IsFetch(x)
         /\ x.op = "load" => IsLoad(x)
         /\ x.op = "members" => IsMembers(x)
BY DEF IsCall, IsAnswer, IsFetch, IsLoad, IsMembers

LEMMA ReplyTyped ==
  ASSUME Typed, NEW x, Reply(x)
  PROVE  Typed'
<1>0. /\ x \in calls /\ IsCall(x) /\ "op" \in DOMAIN x
      /\ UNCHANGED <<server, reqs, news, queue, store, history>>
      /\ ServerTyped /\ member \subseteq Boards
  BY DEF Reply, Typed, TransitTyped, ServerTyped
<1>1. CASE x.op = "members"
  <2> DEFINE y == [x EXCEPT !.got = x.get \cap member]
  <2>1. Answered(x, {y}) /\ IsMembers(x)
    BY <1>0, <1>1, CallFields DEF Reply
  <2>2. IsMembers(y)
    BY <1>0, <2>1 DEF IsMembers
  <2> HIDE DEF y
  <2> QED BY <1>0, <2>1, <2>2, AnsweredTyped DEF IsCall
<1>2. CASE x.op = "fetch"
  <2> DEFINE y == [x EXCEPT !.got = Categories]
  <2>1. Answered(x, {y}) /\ IsFetch(x)
    BY <1>0, <1>2, CallFields DEF Reply
  <2>2. Lists(Categories)
    BY <1>0, CategoriesList
  <2>3. IsFetch(y)
    <3> HIDE DEF Categories
    <3> QED BY <2>1, <2>2 DEF IsFetch
  <2> HIDE DEF y
  <2> QED BY <1>0, <2>1, <2>3, AnsweredTyped DEF IsCall
<1>3. CASE x.op = "load"
  <2>1. IsLoad(x) /\ (Answered(x, {[x EXCEPT !.boards = member]}) \/ Answered(x, {[x EXCEPT !.mine = member]}))
    BY <1>0, <1>3, CallFields DEF Reply
  <2>2. IsLoad([x EXCEPT !.boards = member]) /\ IsLoad([x EXCEPT !.mine = member])
    BY <1>0, <2>1 DEF IsLoad
  <2> QED BY <1>0, <2>1, <2>2, AnsweredTyped DEF IsCall
<1>4. QED BY <1>0, <1>1, <1>2, <1>3, CallFields

\* The client takes an answer, and stores what it likes.
LEMMA TakenTyped ==
  ASSUME Typed, NEW x, Answered(x, {}), StoreTyped', Send({}), UNCHANGED <<server, news, queue>>
  PROVE  Typed'
<1>1. calls' \subseteq calls
  BY DEF Answered
<1>2. reqs' \subseteq Requests
  BY Sent DEF Typed
<1>3. TransitTyped'
  BY <1>1, <1>2 DEF Typed, TransitTyped
<1>4. QED BY <1>3, Same DEF Typed

LEMMA EnsureBoardsTyped ==
  ASSUME Typed, drag = NoDrag, NEW x, EnsureBoards(x)
  PROVE  Typed'
<1>1. /\ IsMembers(x) /\ x.got # None
      /\ boards' = (boards \ x.removed) \cup x.got /\ mine' = mine \ x.removed
      /\ UNCHANGED <<side, hidden, current, drag, told>> /\ Send({}) /\ Answered(x, {}) /\ UNCHANGED <<server, news, queue>>
  BY CallFields DEF EnsureBoards, MembershipsAfter, Typed, TransitTyped, history
<1>2. StoreTyped'
  BY <1>1 DEF Typed, StoreTyped, IsMembers
<1>3. QED BY <1>1, <1>2, TakenTyped

LEMMA FetchTyped ==
  ASSUME Typed, drag = NoDrag, NEW x, FetchSidebarCategories(x)
  PROVE  Typed'
<1>1. /\ IsFetch(x) /\ x.got # None /\ Lists(x.got)
      /\ side' = x.got /\ hidden' = HiddenIn(x.got)
      /\ UNCHANGED <<boards, mine, current, drag, told>> /\ Send({}) /\ Answered(x, {}) /\ UNCHANGED <<server, news, queue>>
  BY CallFields DEF FetchSidebarCategories, IsFetch, Typed, TransitTyped, history
<1>2. StoreTyped'
  BY <1>1, HiddenAreBoards DEF Typed, StoreTyped
<1>3. QED BY <1>1, <1>2, TakenTyped

LEMMA ToldOf ==
  ASSUME NEW S \in SUBSET Boards, NEW f, f = [b \in Boards |-> b \in S]
  PROVE  f \in [Boards -> BOOLEAN] /\ \A b \in S : f[b]
<1>1. \A b \in Boards : (b \in S) \in BOOLEAN
  OBVIOUS
<1>2. f \in [Boards -> BOOLEAN]
  BY <1>1, Zenon
<1>3. QED BY <1>2

LEMMA InitialLoadTyped ==
  ASSUME Typed, drag = NoDrag, NEW x, InitialLoad(x)
  PROVE  Typed'
<1>1. /\ IsLoad(x) /\ x.boards # None /\ x.mine # None
      /\ boards' = x.boards /\ mine' = x.mine /\ told' = [b \in Boards |-> b \in x.mine]
      /\ UNCHANGED <<side, hidden, current, drag>> /\ Send({}) /\ Answered(x, {}) /\ UNCHANGED <<server, news, queue>>
  BY CallFields DEF InitialLoad, Typed, TransitTyped
<1>2. x.boards \subseteq Boards /\ x.mine \subseteq Boards
  BY <1>1 DEF IsLoad
<1>3. told' \in [Boards -> BOOLEAN] /\ \A b \in x.mine : told'[b]
  BY <1>1, <1>2, ToldOf
<1>4. StoreTyped'
  BY <1>1, <1>2, <1>3 DEF Typed, StoreTyped
<1>5. QED BY <1>1, <1>4, TakenTyped

LEMMA ApplyAnswerTyped ==
  ASSUME Typed, drag = NoDrag, NEW x, ApplyAnswer(x)
  PROVE  Typed' /\ DOMAIN side' = DOMAIN side
<1>1. /\ x \in calls /\ IsAnswer(x)
      /\ side' = UpdateBoardCategories(side, x.new)
      /\ hidden' = UpdateHiddenBoards(side, hidden, x.new)
      /\ UNCHANGED <<server, news, queue, history>>
  BY DEF ApplyAnswer, Typed, TransitTyped, IsCall, IsFetch, IsLoad, IsMembers
<1>2. PlacesTold(x.new) /\ Lists(side) /\ hidden \in SUBSET Boards
  BY <1>1 DEF IsAnswer, Typed, StoreTyped
<1>3. Lists(side') /\ DOMAIN side' = DOMAIN side /\ hidden' \subseteq Boards
  BY <1>1, <1>2, ListsPlaces, HiddenStayBoards
<1>4. CASE x.next = None
  <2>1. Answered(x, {}) /\ UNCHANGED <<boards, mine, current, drag>> /\ Send({})
    BY <1>4 DEF ApplyAnswer
  <2>2. StoreTyped'
    BY <1>1, <1>3, <2>1 DEF Typed, StoreTyped, history
  <2> QED BY <1>1, <1>3, <2>1, <2>2, TakenTyped
<1>5. CASE x.next # None
  <2>1. ShowBoard(x.next, calls \ {x}, Unhiding(x.next)) /\ x.next \in Boards
    BY <1>1, <1>5 DEF ApplyAnswer, IsAnswer
  <2>2. calls \ {x} \in SUBSET calls /\ Unhiding(x.next) \in SUBSET Cats
    BY UnhidingTyped
  <2> QED BY <1>1, <1>3, <2>1, <2>2, ShowTyped
<1>6. QED BY <1>3, <1>4, <1>5

LEMMA InitTyped == Init => Typed
<1> SUFFICES ASSUME Init PROVE Typed
  OBVIOUS
<1>1. ServerTyped
  <2>1. category \in [Cats -> [state : {"free", "live", "deleted"}, name : Names]]
    BY DEF Init
  <2>2. row \in [Boards -> [cat : Cats \cup {None}, hidden : BOOLEAN]]
    <3>1. row \in [Boards -> [cat : Live \cup {None}, hidden : BOOLEAN]] /\ Live \subseteq Cats
      BY DEF Init, Live
    <3> QED BY <3>1
  <2>3. /\ member \subseteq existing /\ existing \subseteq Boards
        /\ \A b \in member : row[b].cat # None
    BY DEF Init
  <2> QED BY <2>1, <2>2, <2>3 DEF ServerTyped
<1>2. TransitTyped
  <2>1. reqs = {} /\ news = {} /\ queue = NoQueue /\ calls = {}
    BY DEF Init
  <2> QED BY <2>1, NilTells DEF TransitTyped
<1>3. StoreTyped
  <2>1. /\ side = Categories /\ hidden = HiddenIn(Categories)
        /\ boards = member /\ mine = member /\ current = None /\ told = [b \in Boards |-> b \in member]
        /\ member \subseteq Boards /\ drag = NoDrag
    BY DEF Init
  <2>2. Lists(Categories)
    BY <1>1, CategoriesList
  <2>3. told \in [Boards -> BOOLEAN] /\ \A b \in member : told[b]
    BY <2>1, ToldOf
  <2>4. HiddenIn(Categories) \subseteq Boards
    BY <2>2, HiddenAreBoards
  <2> HIDE DEF Categories
  <2> QED BY <2>1, <2>2, <2>3, <2>4 DEF StoreTyped
<1>4. QED BY <1>1, <1>2, <1>3 DEF Typed

\* Slip, and everything System, User and Admins do, with what they leave to raced and acts.
LEMMA NextTyped == Typed /\ [Next]_vars => Typed'
<1> SUFFICES ASSUME Typed, [Next]_vars PROVE Typed'
  OBVIOUS
<1>1. CASE System
  BY <1>1, HandleTyped, DropTyped, FlushTyped, DeliverTyped, ReplyTyped, EnsureBoardsTyped, FetchTyped,
     InitialLoadTyped, ApplyAnswerTyped DEF System, Server, Client
<1>2. CASE User
  <2>0. drag = NoDrag
    BY <1>2 DEF User
  <2>1. CASE UserAsks
    BY <2>1, UserRequests, RequestTyped
  <2>2. CASE \E b \in Boards, from, to \in Cats : DragBoard(b, from, to)
    BY <2>0, <2>2, DragTyped DEF DragBoard
  <2>3. CASE Reload
    BY <2>0, <2>3, ReloadTyped
  <2>4. CASE \E b \in Boards : OpenBoard(b)
    BY <2>0, <2>4, OpenTyped DEF OpenBoard
  <2> QED BY <1>2, <2>1, <2>2, <2>3, <2>4 DEF User, CategoryMenu, BoardItem, UserAsks
<1>3. CASE Slip
  BY <1>3, DragTyped, OpenTyped DEF Slip, DragAnother, OpenHiddenBoard
<1>6. CASE Admins
  BY <1>6, AddMemberTyped, RemoveMemberTyped DEF Admins
<1>4. CASE UNCHANGED vars
  <2>1. UNCHANGED server /\ UNCHANGED <<store, told>> /\ UNCHANGED <<reqs, news, queue, calls>>
    BY <1>4 DEF vars, transit, history
  <2>2. TransitTyped'
    BY <2>1 DEF Typed, TransitTyped
  <2> QED BY <2>1, <2>2, Same DEF Typed
<1>5. QED BY <1>1, <1>2, <1>3, <1>4, <1>6 DEF Next

\* Every step, whatever overlaps, keeps the types of what the server, the network
\* and the client hold, and with them that the client lists no board twice, but
\* for the board whose drag waits for its second dispatch.
THEOREM TypedAlways == Spec => []Typed
BY InitTyped, NextTyped, PTL DEF Spec

LEMMA TypedSaysTypeOK == Typed => TypeOK
<1> SUFFICES ASSUME Typed PROVE TypeOK
  OBVIOUS
<1>1. ListsAny(side) /\ (drag # NoDrag => drag \in [board : Boards, moved : Boards, to : DOMAIN side, hidden : BOOLEAN])
  BY SideTyped DEF Typed, StoreTyped, Dragged
<1>2. QED BY <1>1 DEF Typed, ServerTyped, StoreTyped, ListsAny, TypeOK

\* The sidebar lists no board twice, whatever overlaps, but for the board just
\* dropped, where it is dropped and where it was, between the two dispatches of
\* handleCategoryBoardDND: every reducer of store/sidebar.ts, every answer and
\* every drag keeps it so.
THEOREM BoardsListedOnce == Spec => []ListedOnce
<1>1. Typed => ListedOnce
  <2> SUFFICES ASSUME Typed PROVE ListedOnce
    OBVIOUS
  <2>1. ASSUME NEW c \in DOMAIN side, NEW d \in DOMAIN side, c # d
        PROVE  side[c].in \cap side[d].in \subseteq Twice(c, d)
    <3>1. CASE drag = NoDrag
      BY <2>1, <3>1 DEF Typed, StoreTyped, Lists
    <3>2. CASE drag # NoDrag
      BY <2>1, <3>2 DEF Typed, StoreTyped, Dragged, ListsBut, Twice
    <3> QED BY <3>1, <3>2
  <2> QED BY <2>1, TypedSaysTypeOK DEF ListedOnce
<1>2. QED BY <1>1, TypedAlways, PTL

\* A board the client was told the user is no member of is not shown, however late
\* the answers come (updateMembersEnsuringBoardsAndUsers, initialLoad).
THEOREM RemovedAreNotShown == Spec => []RemovedIsNotShown
<1>1. Typed => RemovedIsNotShown
  BY DEF Typed, StoreTyped, RemovedIsNotShown
<1>2. QED BY <1>1, TypedAlways, PTL
-----------------------------------------------------------------------------
(* What nothing overlapping says of what is on its way.                    *)

\* Request r names category c.
Concerns(r, c) ==
    \/ r.op \in {"create", "update", "delete", "move"} /\ r.cat = c
    \/ r.op = "delete" /\ r.to = c

Apart ==
    /\ \A c \in Cats, r \in reqs : Announced(c) => ~Concerns(r, c)
    /\ \A r, s \in reqs : r # s /\ r.op \in {"create", "update", "delete"} => ~Concerns(s, r.cat)
    /\ \A r, s \in reqs : r.op = "delete" /\ s.op = "duplicate" => s.board \notin r.ids
    /\ \A x \in calls : IsFetch(x) =>
          (\A c \in Cats : ~Announced(c)) /\ \A r \in reqs : r.op \notin {"create", "update", "delete"}
    /\ DOMAIN queue["order"] # {} =>
          (\A c \in Cats : ~Announced(c)) /\ \A r \in reqs : r.op \notin {"create", "update", "delete"}
    /\ \A n, m \in news : n.kind = "category" /\ m.kind = "category" /\ DOMAIN n.new \cap DOMAIN m.new # {} => n = m

LEMMA RequestChanges ==
  ASSUME NEW r \in Requests
  PROVE  /\ r.op \in {"create", "update", "delete"} => r.cat \in Changes(r)
         /\ r.op = "delete" => r.ids \subseteq Changes(r)
         /\ r.op = "duplicate" => r.board \in DependsOn(r)
         /\ \A c : Concerns(r, c) => c \in Changes(r) \cup DependsOn(r)
<1>1. "kind" \notin DOMAIN r /\ r.op \in {"create", "update", "delete", "order", "move", "hide", "deleteBoard", "duplicate"}
  BY RequestFields
<1>2. r.op \in {"create", "update"} => Changes(r) = {r.cat, <<"there", r.cat>>}
  BY <1>1 DEF Changes
<1>3. r.op = "delete" => Changes(r) = {r.cat} \cup r.ids /\ DependsOn(r) = {r.to}
  BY <1>1 DEF Changes, DependsOn
<1>4. r.op = "move" => DependsOn(r) = {r.cat}
  BY <1>1 DEF DependsOn
<1>5. r.op = "duplicate" => DependsOn(r) = {r.cat, r.board}
  BY <1>1 DEF DependsOn
<1>6. QED BY <1>2, <1>3, <1>4, <1>5 DEF Concerns

LEMMA OthersConflict ==
  ASSUME NEW x, NEW y, "kind" \notin DOMAIN x \/ "kind" \notin DOMAIN y \/ x.kind # y.kind,
         NEW c, c \in Changes(x), c \in Changes(y) \cup DependsOn(y)
  PROVE  Conflicts(x, y)
BY DEF Conflicts

\* The news of category c that is on its way.
NewsOf(c, n) == DOMAIN n = {"kind", "new"} /\ n.kind = "category" /\ c \in DOMAIN n.new

LEMMA NewsChange ==
  ASSUME NEW n, NEW c, NewsOf(c, n)
  PROVE  "kind" \in DOMAIN n /\ c \in Changes(n)
BY DEF NewsOf, Changes

LEMMA AnnouncedFlies == TransitTyped => \A c \in Cats : Announced(c) => \E n \in InFlight : NewsOf(c, n)
<1> SUFFICES ASSUME TransitTyped, NEW c \in Cats, Announced(c) PROVE \E n \in InFlight : NewsOf(c, n)
  OBVIOUS
<1>1. CASE \E n \in news : n.kind = "category" /\ c \in DOMAIN n.new
  <2>1. PICK n \in news : n.kind = "category" /\ c \in DOMAIN n.new
    BY <1>1
  <2>2. DOMAIN n = {"kind", "new"} /\ n \in InFlight
    BY DEF TransitTyped, IsNews, InFlight
  <2> QED BY <2>1, <2>2 DEF NewsOf
<1>2. CASE c \in DOMAIN queue["category"]
  <2> DEFINE n == News("category", queue["category"])
  <2>1. queue["category"] # Nil /\ "category" \in DOMAIN queue
    BY <1>2, NilTells DEF TransitTyped, Kinds
  <2>2. n \in InFlight
    BY <2>1 DEF InFlight
  <2>3. NewsOf(c, n)
    BY <1>2, NewsFields DEF NewsOf, Kinds
  <2> QED BY <2>2, <2>3
<1>3. QED BY <1>1, <1>2 DEF Announced

LEMMA Separate == TransitTyped /\ ~Overlap => Apart
<1> SUFFICES ASSUME TransitTyped, ~Overlap PROVE Apart
  OBVIOUS
<1>0. /\ \A x, y \in InFlight : x # y => ~Conflicts(x, y)
      /\ reqs \subseteq InFlight /\ calls \subseteq InFlight /\ news \subseteq InFlight
      /\ reqs \subseteq Requests /\ \A r \in reqs : "kind" \notin DOMAIN r
  BY RequestFields DEF Overlap, InFlight, TransitTyped
<1>1. \A c \in Cats, r \in reqs : Announced(c) => ~Concerns(r, c)
  <2> SUFFICES ASSUME NEW c \in Cats, NEW r \in reqs, Announced(c), Concerns(r, c) PROVE FALSE
    OBVIOUS
  <2>1. PICK n \in InFlight : NewsOf(c, n)
    BY AnnouncedFlies
  <2>2. "kind" \in DOMAIN n /\ c \in Changes(n) /\ "kind" \notin DOMAIN r /\ n # r
    BY <1>0, <2>1, NewsChange
  <2>3. c \in Changes(r) \cup DependsOn(r)
    BY <1>0, RequestChanges
  <2>4. Conflicts(n, r)
    BY <2>2, <2>3, OthersConflict
  <2> QED BY <1>0, <2>1, <2>2, <2>4
<1>2. \A r, s \in reqs : r # s /\ r.op \in {"create", "update", "delete"} => ~Concerns(s, r.cat)
  <2> SUFFICES ASSUME NEW r \in reqs, NEW s \in reqs, r # s, r.op \in {"create", "update", "delete"}, Concerns(s, r.cat)
               PROVE  FALSE
    OBVIOUS
  <2>1. r.cat \in Changes(r) /\ r.cat \in Changes(s) \cup DependsOn(s)
    BY <1>0, RequestChanges
  <2>2. Conflicts(r, s)
    BY <1>0, <2>1, OthersConflict
  <2> QED BY <1>0, <2>2
<1>3. \A r, s \in reqs : r.op = "delete" /\ s.op = "duplicate" => s.board \notin r.ids
  <2> SUFFICES ASSUME NEW r \in reqs, NEW s \in reqs, r.op = "delete", s.op = "duplicate", s.board \in r.ids PROVE FALSE
    OBVIOUS
  <2>1. s.board \in Changes(r) /\ s.board \in DependsOn(s) /\ r # s
    BY <1>0, RequestChanges
  <2>2. Conflicts(r, s)
    BY <1>0, <2>1, OthersConflict
  <2> QED BY <1>0, <2>1, <2>2
<1>4. ASSUME NEW x \in InFlight, "kind" \notin DOMAIN x \/ x.kind = "order",
             \/ Cats \subseteq Changes(x)
             \/ Cats \subseteq DependsOn(x),
             \A r \in reqs : r.op \in {"create", "update", "delete"} => r # x
      PROVE  (\A c \in Cats : ~Announced(c)) /\ \A r \in reqs : r.op \notin {"create", "update", "delete"}
  <2>1. ASSUME NEW c \in Cats, Announced(c) PROVE FALSE
    <3>1. PICK n \in InFlight : NewsOf(c, n)
      BY <2>1, AnnouncedFlies
    <3>2. "kind" \in DOMAIN n /\ n.kind = "category" /\ c \in Changes(n) /\ n # x
      BY <1>4, <3>1, NewsChange DEF NewsOf
    <3>3. Conflicts(n, x)
      BY <1>4, <3>2, OthersConflict
    <3> QED BY <1>0, <3>1, <3>2, <3>3
  <2>2. ASSUME NEW r \in reqs, r.op \in {"create", "update", "delete"} PROVE FALSE
    <3>1. r.cat \in Changes(r) /\ r.cat \in Cats
      BY <1>0, <2>2, RequestChanges, RequestFields, CategorySets
    <3>2. Conflicts(r, x)
      BY <1>0, <1>4, <3>1, OthersConflict
    <3> QED BY <1>0, <1>4, <2>2, <3>2
  <2> QED BY <2>1, <2>2
<1>5. ASSUME NEW x \in calls, IsFetch(x)
      PROVE  (\A c \in Cats : ~Announced(c)) /\ \A r \in reqs : r.op \notin {"create", "update", "delete"}
  <2>1. "kind" \notin DOMAIN x /\ x.op = "fetch"
    BY <1>5 DEF IsFetch
  <2>2. Cats \subseteq Changes(x)
    BY <2>1 DEF Changes
  <2>3. \A r \in reqs : r.op \in {"create", "update", "delete"} => r # x
    BY <2>1
  <2> QED BY <1>0, <1>4, <2>1, <2>2, <2>3
<1>6. ASSUME DOMAIN queue["order"] # {}
      PROVE  (\A c \in Cats : ~Announced(c)) /\ \A r \in reqs : r.op \notin {"create", "update", "delete"}
  <2> DEFINE x == News("order", queue["order"])
  <2>1. queue["order"] # Nil /\ "order" \in DOMAIN queue
    BY <1>6, NilTells DEF TransitTyped, Kinds
  <2>2. x \in InFlight
    BY <2>1 DEF InFlight
  <2>3. DOMAIN x = {"kind", "new"} /\ x.kind = "order"
    BY NewsFields DEF Kinds
  <2>4. Cats \subseteq DependsOn(x)
    BY <2>3 DEF DependsOn
  <2>5. \A r \in reqs : r # x
    BY <1>0, <2>3
  <2> HIDE DEF x
  <2> QED BY <1>4, <2>2, <2>3, <2>4, <2>5
<1>7. ASSUME NEW n \in news, NEW m \in news, n.kind = "category", m.kind = "category", DOMAIN n.new \cap DOMAIN m.new # {}
      PROVE  n = m
  <2>1. /\ DOMAIN n = {"kind", "new"} /\ DOMAIN m = {"kind", "new"}
        /\ \E c \in Cats, e \in [name : Names, deleted : BOOLEAN] : n.new = About(c, e)
        /\ \E c \in Cats, e \in [name : Names, deleted : BOOLEAN] : m.new = About(c, e)
    BY <1>7 DEF TransitTyped, IsNews
  <2>2. PICK c \in Cats, e \in [name : Names, deleted : BOOLEAN] : n.new = About(c, e)
    BY <2>1
  <2>3. PICK d \in Cats, f \in [name : Names, deleted : BOOLEAN] : m.new = About(d, f)
    BY <2>1
  <2>4. c = d /\ n.new[c] = e /\ m.new[c] = f /\ c \in DOMAIN n.new \cap DOMAIN m.new
    <3>1. DOMAIN n.new = {c} /\ n.new[c] = e /\ DOMAIN m.new = {d} /\ m.new[d] = f
      <4>1. DOMAIN About(c, e) = {c} /\ About(c, e)[c] = e /\ DOMAIN About(d, f) = {d} /\ About(d, f)[d] = f
        BY AboutOne
      <4> QED BY <2>2, <2>3, <4>1
    <3> QED BY <1>7, <3>1
  <2>5. n # m => e = f
    BY <1>0, <1>7, <2>1, <2>4 DEF Conflicts
  <2>6. ASSUME n # m PROVE FALSE
    <3>1. n.new = m.new /\ n.kind = m.kind
      BY <1>7, <2>2, <2>3, <2>4, <2>5, <2>6
    <3>2. IsNews(n) /\ IsNews(m)
      BY DEF TransitTyped
    <3>3. n = News(n.kind, n.new) /\ m = News(m.kind, m.new)
      BY <3>2 DEF IsNews
    <3>4. News(n.kind, n.new) = News(m.kind, m.new)
      BY <3>1
    <3> QED BY <2>6, <3>3, <3>4
  <2> QED BY <2>6
<1>8. QED BY <1>1, <1>2, <1>3, <1>5, <1>6, <1>7 DEF Apart

LEMMA SeparateNext == (TransitTyped /\ ~Overlap => Apart)'
BY Separate, PTL
-----------------------------------------------------------------------------
(* While nothing overlaps, every step keeps the client in step.            *)

NamesTell == {n \in news : n.kind = "category"}

\* The requests a step adds fit what the client shows.
FollowUps ==
    \A r \in reqs' \ reqs : /\ r.op = "move" => r.cat \in DOMAIN side'
                            /\ r.op = "delete" => r.step = "read" /\ r.cat \in DOMAIN side'
FetchesFollow ==
    \A x \in calls' \ calls : "op" \in DOMAIN x /\ x.op = "fetch" => x.got = None \/ DOMAIN x.got \subseteq Live'

LEMMA MovesFollow ==
  ASSUME TransitTyped', StoreTyped', ~Overlap', ShownAreLive', FollowUps, MovesAreLive, Live \subseteq Live'
  PROVE  MovesAreLive'
<1> SUFFICES ASSUME NEW r \in reqs', r.op = "move" PROVE r.cat \in Live'
  BY DEF MovesAreLive
<1>1. CASE r \in reqs
  BY <1>1 DEF MovesAreLive
<1>2. CASE r \notin reqs
  <2>0. (StoreTyped => DOMAIN side \subseteq Cats)'
    BY SideTyped, PTL
  <2>1. r.cat \in DOMAIN side' /\ r.cat \in Cats
    BY <1>2, <2>0 DEF FollowUps
  <2>2. r.cat \in Live' \/ Announced(r.cat)'
    BY <2>1 DEF ShownAreLive
  <2>3. Apart'
    BY SeparateNext
  <2>4. ~Announced(r.cat)'
    BY <2>1, <2>3 DEF Apart, Concerns
  <2> QED BY <2>2, <2>4
<1>3. QED BY <1>1, <1>2

LEMMA NamesStay ==
  ASSUME InStep, category' = category, queue'["category"] = queue["category"], NamesTell' = NamesTell,
         DOMAIN side' = DOMAIN side,
         \A r \in reqs' : r.op = "delete" =>
            r.cat \in DOMAIN side \/ \E s \in reqs : s.op = "delete" /\ s.cat = r.cat
  PROVE  NewsAreTrue' /\ ShownAreLive' /\ DeletedAreShown' /\ ToldOnce' /\ Live' = Live
<1>1. Live' = Live
  BY DEF Live
<1>2. \A c : Announced(c)' <=> Announced(c)
  BY DEF Announced, NamesTell
<1>3. NewsAreTrue'
  BY <1>1 DEF InStep, NewsAreTrue, TellsLive, NamesTell
<1>4. ShownAreLive'
  BY <1>1, <1>2 DEF InStep, ShownAreLive
<1>5. DeletedAreShown'
  BY <1>1, <1>2 DEF InStep, DeletedAreShown
<1>6. ToldOnce'
  BY <1>1 DEF InStep, ToldOnce, NamesTell
<1>7. QED BY <1>1, <1>3, <1>4, <1>5, <1>6

LEMMA RowsStay ==
  ASSUME InStep, category' = category, \A b \in Boards : row'[b].cat = row[b].cat,
         \A r \in reqs' \ reqs : r.op = "delete" => r.step = "read"
  PROVE  RowsAreLive' /\ DeletionsMoveRows'
<1>1. Live' = Live /\ \A c : CalledBoardsAt(c)' <=> CalledBoardsAt(c)
  BY DEF Live, CalledBoardsAt
<1>2. RowsAreLive'
  BY <1>1 DEF InStep, RowsAreLive
<1>3. DeletionsMoveRows'
  <2> SUFFICES ASSUME NEW r \in reqs', r.op = "delete" PROVE LeavesNoRow(r)'
    BY DEF DeletionsMoveRows
  <2>1. CASE r \in reqs
    BY <1>1, <2>1 DEF InStep, DeletionsMoveRows, LeavesNoRow
  <2>2. CASE r \notin reqs
    BY <2>2 DEF LeavesNoRow
  <2> QED BY <2>1, <2>2
<1>4. QED BY <1>2, <1>3

LEMMA FetchesStay ==
  ASSUME InStep, FetchesFollow, Live' = Live
  PROVE  FetchedAreLive'
BY DEF InStep, FetchesFollow, FetchedAreLive

\* A step that leaves the categories, those shown and the places of boards.
LEMMA Unmoved ==
  ASSUME InStep, Typed', ~Overlap', FollowUps, FetchesFollow, category' = category,
         queue'["category"] = queue["category"], NamesTell' = NamesTell,
         \A b \in Boards : row'[b].cat = row[b].cat, DOMAIN side' = DOMAIN side
  PROVE  InStep'
<1>1. NewsAreTrue' /\ ShownAreLive' /\ DeletedAreShown' /\ ToldOnce' /\ Live' = Live
  BY NamesStay DEF FollowUps
<1>2. RowsAreLive' /\ DeletionsMoveRows'
  BY RowsStay DEF FollowUps
<1>3. FetchedAreLive'
  BY <1>1, FetchesStay
<1>4. MovesAreLive'
  BY <1>1, MovesFollow DEF InStep, Typed
<1>5. QED BY <1>1, <1>2, <1>3, <1>4 DEF InStep

LEMMA SendsFollow ==
  ASSUME NEW R, Send(R), \A r \in R : r.op = "hide" \/ (r.op = "move" /\ r.cat \in DOMAIN side')
  PROVE  FollowUps
<1>1. PICK effect \in SidebarEffect : reqs' = reqs \cup R \cup effect
  BY DEF Send
<1>2. EffectAsks(effect)
  BY EffectOf
<1>3. \A r \in effect : r.op = "move" /\ r.cat \in DOMAIN side'
  BY <1>2 DEF EffectAsks
<1>4. QED BY <1>1, <1>3 DEF FollowUps

LEMMA UserInStep ==
  ASSUME Typed, InStep, ~Overlap', UserAsks
  PROVE  InStep'
<1>1. PICK r \in Requests : Request(r) /\ AskedFor(r)
  BY UserRequests
<1>2. /\ reqs' = reqs \cup {r} /\ news' = news /\ calls' = calls /\ queue' = queue
      /\ UNCHANGED server /\ UNCHANGED store
  BY <1>1 DEF Request
<1>3. Typed'
  BY <1>1, RequestTyped
<1>4. FollowUps /\ FetchesFollow /\ NamesTell' = NamesTell
  BY <1>1, <1>2 DEF FollowUps, FetchesFollow, NamesTell, AskedFor, store
<1>5. QED BY <1>2, <1>3, <1>4, Unmoved DEF server, store

LEMMA DragInStep ==
  ASSUME Typed, InStep, ~Overlap', drag = NoDrag, NEW b \in Boards, NEW from, NEW to \in Cats, DragBoard(b, from, to)
  PROVE  InStep'
<1>1. Typed' /\ DOMAIN side' = DOMAIN side /\ to \in DOMAIN side
  BY DragTyped DEF DragBoard
<1>2. UNCHANGED <<server, news, queue, calls>> /\ Send({})
  BY DEF DragBoard, Drag
<1>3. FollowUps
  BY <1>2, SendsFollow
<1>4. FetchesFollow /\ NamesTell' = NamesTell
  BY <1>2 DEF FetchesFollow, NamesTell
<1>5. QED BY <1>1, <1>2, <1>3, <1>4, Unmoved DEF server

LEMMA DropInStep ==
  ASSUME Typed, InStep, ~Overlap', Drop
  PROVE  InStep'
<1>1. Typed' /\ DOMAIN side' = DOMAIN side /\ drag.to \in DOMAIN side
  BY DropTyped DEF Drop, Typed, StoreTyped, Dragged
<1>2. UNCHANGED <<server, news, queue, calls>> /\ Send({[op |-> "move", board |-> drag.board, cat |-> drag.to]})
  BY DEF Drop
<1>3. FollowUps
  BY <1>1, <1>2, SendsFollow
<1>4. FetchesFollow /\ NamesTell' = NamesTell
  BY <1>2 DEF FetchesFollow, NamesTell
<1>5. QED BY <1>1, <1>2, <1>3, <1>4, Unmoved DEF server

LEMMA ShowFollows ==
  ASSUME NEW b, NEW others \in SUBSET calls, NEW cats, ShowBoard(b, others, cats)
  PROVE  FollowUps /\ FetchesFollow
<1>1. /\ calls' = others \cup {NewLoad}
      /\ Send({[op |-> "hide", board |-> b, cat |-> c, hide |-> FALSE, next |-> None] : c \in cats})
  BY DEF ShowBoard
<1>2. FollowUps
  <2> DEFINE R == {[op |-> "hide", board |-> b, cat |-> c, hide |-> FALSE, next |-> None] : c \in cats}
  <2>1. \A r \in R : r.op = "hide"
    OBVIOUS
  <2>2. Send(R)
    BY <1>1
  <2> HIDE DEF R
  <2> QED BY <2>1, <2>2, SendsFollow
<1>3. FetchesFollow
  BY <1>1 DEF FetchesFollow, NewLoad
<1>4. QED BY <1>2, <1>3

LEMMA OpenInStep ==
  ASSUME Typed, InStep, ~Overlap', drag = NoDrag, NEW b \in Boards, OpenBoard(b)
  PROVE  InStep'
<1>1. Typed' /\ DOMAIN side' = DOMAIN side
  BY OpenTyped DEF OpenBoard
<1>2. FollowUps /\ FetchesFollow /\ UNCHANGED <<server, news, queue>>
  BY ShowFollows DEF OpenBoard, OpenWith
<1>3. NamesTell' = NamesTell
  BY <1>2 DEF NamesTell
<1>4. QED BY <1>1, <1>2, <1>3, Unmoved DEF server

LEMMA ApplyAnswerInStep ==
  ASSUME Typed, InStep, ~Overlap', drag = NoDrag, NEW x, ApplyAnswer(x)
  PROVE  InStep'
<1>1. Typed' /\ DOMAIN side' = DOMAIN side
  BY ApplyAnswerTyped
<1>2. UNCHANGED <<server, news, queue>>
  BY DEF ApplyAnswer
<1>3. FollowUps /\ FetchesFollow
  <2>1. CASE x.next = None
    <3>1. Answered(x, {}) /\ Send({})
      BY <2>1 DEF ApplyAnswer
    <3>2. FollowUps
      BY <3>1, SendsFollow
    <3> QED BY <3>1, <3>2 DEF Answered, FetchesFollow
  <2>2. CASE x.next # None
    BY <2>2, ShowFollows DEF ApplyAnswer
  <2> QED BY <2>1, <2>2
<1>4. NamesTell' = NamesTell
  BY <1>2 DEF NamesTell
<1>5. QED BY <1>1, <1>2, <1>3, <1>4, Unmoved DEF server

LEMMA TakenInStep ==
  ASSUME Typed, InStep, ~Overlap', drag = NoDrag, NEW x, EnsureBoards(x) \/ InitialLoad(x)
  PROVE  InStep'
<1>1. Typed'
  BY EnsureBoardsTyped, InitialLoadTyped
<1>2. UNCHANGED <<server, news, queue, side>> /\ Answered(x, {}) /\ Send({})
  BY DEF EnsureBoards, InitialLoad
<1>3. FollowUps
  BY <1>2, SendsFollow
<1>4. FetchesFollow /\ NamesTell' = NamesTell
  BY <1>2 DEF Answered, FetchesFollow, NamesTell
<1>5. QED BY <1>1, <1>2, <1>3, <1>4, Unmoved DEF server

LEMMA ReplyInStep ==
  ASSUME Typed, InStep, ~Overlap', NEW x, Reply(x)
  PROVE  InStep'
<1>1. Typed' /\ UNCHANGED <<server, reqs, news, queue, store>> /\ ServerTyped
  BY ReplyTyped DEF Reply, Typed
<1>2. FollowUps /\ NamesTell' = NamesTell
  BY <1>1 DEF FollowUps, NamesTell
<1>3. IsCall(x) /\ "op" \in DOMAIN x
  BY DEF Reply, Typed, TransitTyped
<1>4. FetchesFollow
  <2>1. CASE x.op = "fetch"
    <3>1. Answered(x, {[x EXCEPT !.got = Categories]}) /\ IsFetch(x)
      BY <1>3, <2>1, CallFields DEF Reply
    <3>2. DOMAIN Categories = Live /\ Live' = Live
      BY <1>1, CategoriesList DEF server, Live
    <3> HIDE DEF Categories
    <3>3. [x EXCEPT !.got = Categories].got = Categories
      BY <3>1 DEF IsFetch
    <3> QED BY <3>1, <3>2, <3>3 DEF Answered, FetchesFollow
  <2>2. CASE x.op = "members"
    <3>1. Answered(x, {[x EXCEPT !.got = x.get \cap member]}) /\ IsMembers(x)
      BY <1>3, <2>2, CallFields DEF Reply
    <3>2. [x EXCEPT !.got = x.get \cap member].op = "members"
      BY <3>1 DEF IsMembers
    <3> QED BY <3>1, <3>2 DEF Answered, FetchesFollow
  <2>3. CASE x.op = "load"
    <3>1. IsLoad(x) /\ (Answered(x, {[x EXCEPT !.boards = member]}) \/ Answered(x, {[x EXCEPT !.mine = member]}))
      BY <1>3, <2>3, CallFields DEF Reply
    <3>2. [x EXCEPT !.boards = member].op = "load" /\ [x EXCEPT !.mine = member].op = "load"
      BY <3>1 DEF IsLoad
    <3> QED BY <3>1, <3>2 DEF Answered, FetchesFollow
  <2> QED BY <1>3, <2>1, <2>2, <2>3, CallFields
<1>5. QED BY <1>1, <1>2, <1>4, Unmoved DEF server, store

\* What the server does leaves what the client shows and what it has queued.
LEMMA DoneFollows ==
  ASSUME NEW r, NEW sent, Done(r, sent), \A n \in sent : n.kind # "category"
  PROVE  FollowUps /\ NamesTell' = NamesTell /\ reqs' \subseteq reqs
BY DEF Done, FollowUps, NamesTell

LEMMA AnswersFollow ==
  ASSUME NEW f, NEW next, calls' \subseteq calls \cup {Answer(f, next)}
  PROVE  FetchesFollow
BY DEF FetchesFollow, Answer

LEMMA HidesInStep ==
  ASSUME Typed, InStep, ~Overlap', NEW r \in reqs, HandleHide(r), UNCHANGED <<queue, store, history>>
  PROVE  InStep'
<1> DEFINE f == About(r.board, [cat |-> r.cat, hidden |-> r.hide])
           told1 == News("boards", f)
           h == IF row[r.board].cat = r.cat THEN r.hide ELSE row[r.board].hidden
<1>1. /\ row' = [row EXCEPT ![r.board] = [row[r.board] EXCEPT !.hidden = h]] /\ category' = category
      /\ Done(r, {told1}) /\ calls' \subseteq calls \cup {Answer(told1.new, r.next)}
  BY DEF HandleHide
<1>2. told1.kind = "boards"
  BY NewsFields DEF Kinds
<1> HIDE DEF told1, h
<1>3. FollowUps /\ NamesTell' = NamesTell /\ FetchesFollow
  BY <1>1, <1>2, DoneFollows, AnswersFollow
<1>4. Typed' /\ \A b \in Boards : row'[b].cat = row[b].cat
  <2>1. row \in [Boards -> [cat : Cats \cup {None}, hidden : BOOLEAN]]
    BY DEF Typed, ServerTyped
  <2>2. ASSUME NEW b \in Boards PROVE row'[b].cat = row[b].cat
    <3>1. row[b] \in [cat : Cats \cup {None}, hidden : BOOLEAN]
      BY <2>1
    <3>2. CASE b = r.board
      <4>1. row'[b] = [row[b] EXCEPT !.hidden = h]
        BY <1>1, <2>1, <3>2
      <4> QED BY <3>1, <4>1
    <3>3. CASE b # r.board
      BY <1>1, <2>1, <3>3
    <3> QED BY <3>2, <3>3
  <2> QED BY <2>2, HandleHideTyped
<1>5. QED BY <1>1, <1>3, <1>4, Unmoved DEF store

LEMMA OrderInStep ==
  ASSUME Typed, InStep, ~Overlap', NEW r \in reqs, HandleOrder(r), UNCHANGED <<queue, store, history>>
  PROVE  InStep'
<1> DEFINE n == News("order", [c \in r.cats |-> TRUE])
<1>1. UNCHANGED <<server, calls>> /\ (Done(r, {n}) \/ Done(r, {}))
  BY DEF HandleOrder
<1>2. n.kind = "order"
  BY NewsFields DEF Kinds
<1> HIDE DEF n
<1>3. FollowUps /\ NamesTell' = NamesTell
  BY <1>1, <1>2, DoneFollows
<1>4. FetchesFollow
  BY <1>1 DEF FetchesFollow
<1>5. QED BY <1>1, <1>3, <1>4, HandleOrderTyped, Unmoved DEF server, store

LEMMA DeleteBoardInStep ==
  ASSUME Typed, InStep, ~Overlap', NEW r \in reqs, HandleDeleteBoard(r), UNCHANGED <<queue, store, history>>
  PROVE  InStep'
<1> DEFINE n == News("board", About(r.board, FALSE))
<1>1. /\ UNCHANGED <<category, row>> /\ (Done(r, {n}) \/ Done(r, {}))
      /\ calls' \subseteq calls \cup {Answer(Nil, r.next)}
  BY DEF HandleDeleteBoard
<1>2. n.kind = "board"
  BY NewsFields DEF Kinds
<1> HIDE DEF n
<1>3. FollowUps /\ NamesTell' = NamesTell /\ FetchesFollow
  BY <1>1, <1>2, DoneFollows, AnswersFollow
<1>4. QED BY <1>1, <1>3, HandleDeleteBoardTyped, Unmoved DEF store

LEMMA RemoveMemberInStep ==
  ASSUME Typed, InStep, ~Overlap', NEW b \in Boards, RemoveMember(b)
  PROVE  InStep'
<1> DEFINE n == News("member", About(b, FALSE))
<1>1. /\ news' = news \cup {n}
      /\ UNCHANGED <<category, row, existing, reqs, queue, calls, store, history>>
  BY DEF RemoveMember
<1>2. n.kind = "member"
  BY NewsFields DEF Kinds
<1> HIDE DEF n
<1>3. FollowUps /\ NamesTell' = NamesTell /\ FetchesFollow
  BY <1>1, <1>2 DEF FollowUps, NamesTell, FetchesFollow
<1>4. QED BY <1>1, <1>3, RemoveMemberTyped, Unmoved DEF store

\* Boards are put in a category that is there, or is called Boards.
LEMMA PlacedRowsAreLive ==
  ASSUME ServerTyped, InStep, NEW to \in Cats, NEW moved \in SUBSET Boards, row' = RowsAfter(to, moved),
         category' = category, moved # {} => to \in Live \/ CalledBoardsAt(to)
  PROVE  RowsAreLive'
<1>1. Live' = Live /\ \A c : CalledBoardsAt(c)' <=> CalledBoardsAt(c)
  BY DEF Live, CalledBoardsAt
<1>2. /\ \A b \in moved : row'[b].cat = to
      /\ \A b \in Boards \ moved : row'[b] = row[b]
  BY RowsAfterTyped
<1>3. QED BY <1>1, <1>2 DEF InStep, RowsAreLive

LEMMA PlacedLeavesNoRow ==
  ASSUME ServerTyped, NEW to \in Cats, NEW moved \in SUBSET Boards, row' = RowsAfter(to, moved),
         category' = category, NEW r, LeavesNoRow(r),
         r.cat = to /\ moved # {} /\ r.step \in {"move", "row"} => CalledBoardsAt(to)
  PROVE  LeavesNoRow(r)'
<1>1. \A c : CalledBoardsAt(c)' <=> CalledBoardsAt(c)
  BY DEF CalledBoardsAt
<1>2. /\ \A b \in moved : row'[b].cat = to
      /\ \A b \in Boards \ moved : row'[b] = row[b]
  BY RowsAfterTyped
<1>3. QED BY <1>1, <1>2 DEF LeavesNoRow

LEMMA PlacedInStep ==
  ASSUME Typed, InStep, Typed', ~Overlap', NEW to \in Cats, NEW moved \in SUBSET Boards, row' = RowsAfter(to, moved),
         category' = category, UNCHANGED <<queue, store>>, reqs' \subseteq reqs, NamesTell' = NamesTell, FetchesFollow,
         to \in Live \/ CalledBoardsAt(to),
         \A r \in reqs' : r.op = "delete" /\ r.cat = to /\ r.step \in {"move", "row"} => CalledBoardsAt(to)
  PROVE  InStep'
<1>1. NewsAreTrue' /\ ShownAreLive' /\ DeletedAreShown' /\ ToldOnce' /\ Live' = Live
  BY NamesStay DEF store
<1>2. RowsAreLive'
  BY PlacedRowsAreLive DEF Typed
<1>3. DeletionsMoveRows'
  <2> SUFFICES ASSUME NEW r \in reqs', r.op = "delete" PROVE LeavesNoRow(r)'
    BY DEF DeletionsMoveRows
  <2>1. LeavesNoRow(r)
    BY DEF InStep, DeletionsMoveRows
  <2> QED BY <2>1, PlacedLeavesNoRow DEF Typed
<1>4. FetchedAreLive'
  BY <1>1, FetchesStay
<1>5. MovesAreLive'
  BY <1>1 DEF InStep, MovesAreLive
<1>6. QED BY <1>1, <1>2, <1>3, <1>4, <1>5 DEF InStep

LEMMA NotOfNames ==
  ASSUME ServerTyped, NEW c \in Cats, NEW moved \in SUBSET Boards
  PROVE  \A n \in ContentNews(c, moved) : n.kind # "category"
BY ContentNewsTyped

LEMMA MoveInStep ==
  ASSUME Typed, InStep, ~Overlap', NEW r \in reqs, HandleMove(r), UNCHANGED <<queue, store, history>>
  PROVE  InStep'
<1>1. /\ r.op = "move" /\ r.board \in Boards /\ r.cat \in Cats /\ row' = RowsAfter(r.cat, {r.board})
      /\ Done(r, ContentNews(r.cat, {r.board})) /\ UNCHANGED <<category, calls>> /\ ServerTyped
  BY RequestFields DEF HandleMove, Typed, TransitTyped
<1>2. /\ reqs' \subseteq reqs /\ NamesTell' = NamesTell
  BY <1>1, NotOfNames, DoneFollows
<1>3. FetchesFollow
  BY <1>1 DEF FetchesFollow
<1>4. r.cat \in Live
  BY <1>1 DEF InStep, MovesAreLive
<1>5. \A s \in reqs' : s.op = "delete" => s.cat # r.cat
  <2>1. Apart
    BY Separate DEF InStep, Typed
  <2> QED BY <1>1, <1>2, <2>1 DEF Apart, Concerns
<1>6. {r.board} \in SUBSET Boards
  BY <1>1
<1>7. QED BY <1>1, <1>2, <1>3, <1>4, <1>5, <1>6, HandleMoveTyped, PlacedInStep

LEMMA CalledOnes == \A to \in CalledBoards : to \in Cats /\ to \in Live /\ CalledBoardsAt(to)
BY DEF CalledBoards, Live, CalledBoardsAt

LEMMA DuplicateInStep ==
  ASSUME Typed, InStep, ~Overlap', NEW r \in reqs, HandleDuplicate(r), UNCHANGED <<queue, store, history>>
  PROVE  InStep'
<1>0. /\ Typed' /\ r.board \in Boards /\ r.new \in Boards /\ r.op = "duplicate" /\ category' = category /\ ServerTyped
  BY HandleDuplicateTyped, RequestFields DEF HandleDuplicate, Typed, TransitTyped
<1>1. CASE r.board \notin existing
  <2>1. Done(r, {}) /\ UNCHANGED <<server, calls>>
    BY <1>1 DEF HandleDuplicate, Refuse
  <2>2. FollowUps /\ NamesTell' = NamesTell
    BY <2>1, DoneFollows
  <2>3. FetchesFollow
    BY <2>1 DEF FetchesFollow
  <2> QED BY <1>0, <2>1, <2>2, <2>3, Unmoved DEF server, store
<1>2. CASE r.board \in existing
  <2> DEFINE f == About(r.new, [cat |-> r.cat, hidden |-> FALSE])
             sent(to) == ContentNews(to, {r.new}) \cup
                         {News("board", About(r.new, TRUE)), News("member", About(r.new, TRUE))}
  <2>1. PICK to \in IF row[r.board].cat \in Live THEN {row[r.board].cat} ELSE CalledBoards :
           /\ row' = RowsAfter(to, {r.new}) /\ Done(r, sent(to))
           /\ calls' = calls \cup {Answer(f, r.new)}
    BY <1>2 DEF HandleDuplicate
  <2>2. to \in Cats /\ to \in Live /\ (to = row[r.board].cat \/ CalledBoardsAt(to))
    BY <2>1, CalledOnes DEF Live
  <2>3. \A n \in sent(to) : n.kind # "category"
    <3>1. \A n \in ContentNews(to, {r.new}) : n.kind # "category"
      <4>1. {r.new} \in SUBSET Boards
        BY <1>0
      <4> QED BY <1>0, <2>2, <4>1, NotOfNames
    <3>2. News("board", About(r.new, TRUE)).kind = "board" /\ News("member", About(r.new, TRUE)).kind = "member"
      BY NewsFields DEF Kinds
    <3> QED BY <3>1, <3>2
  <2> HIDE DEF sent
  <2>4. reqs' \subseteq reqs /\ NamesTell' = NamesTell
    BY <2>1, <2>3, DoneFollows
  <2>5. FetchesFollow
    BY <2>1, AnswersFollow
  <2>6. ASSUME NEW s \in reqs', s.op = "delete", s.cat = to, s.step \in {"move", "row"}
        PROVE  CalledBoardsAt(to)
    <3>1. Apart
      BY Separate DEF InStep, Typed
    <3>2. r.board \notin s.ids
      BY <1>0, <2>4, <2>6, <3>1 DEF Apart
    <3>3. LeavesNoRow(s)
      BY <2>4, <2>6 DEF InStep, DeletionsMoveRows
    <3> QED BY <1>0, <2>2, <2>6, <3>2, <3>3 DEF LeavesNoRow
  <2>7. {r.new} \in SUBSET Boards
    BY <1>0
  <2> QED BY <1>0, <2>1, <2>2, <2>4, <2>5, <2>6, <2>7, PlacedInStep
<1>3. QED BY <1>1, <1>2

LEMMA AddMemberInStep ==
  ASSUME Typed, InStep, ~Overlap', NEW b \in Boards, AddMember(b)
  PROVE  InStep'
<1>1. PICK to \in CalledBoards :
         /\ row' = RowsAfter(to, {b})
         /\ news' = news \cup ContentNews(to, {b}) \cup {News("member", About(b, TRUE))}
  BY DEF AddMember
<1>2. UNCHANGED <<category, existing, reqs, queue, calls, store, history>> /\ ServerTyped
  BY DEF AddMember, Typed
<1>3. to \in Cats /\ to \in Live /\ CalledBoardsAt(to) /\ {b} \in SUBSET Boards
  BY CalledOnes
<1>4. NamesTell' = NamesTell
  <2>1. \A n \in ContentNews(to, {b}) \cup {News("member", About(b, TRUE))} : n.kind # "category"
    <3>1. \A n \in ContentNews(to, {b}) : n.kind # "category"
      BY <1>2, <1>3, NotOfNames
    <3>2. News("member", About(b, TRUE)).kind = "member"
      BY NewsFields DEF Kinds
    <3> QED BY <3>1, <3>2
  <2> QED BY <1>1, <2>1 DEF NamesTell
<1>5. FetchesFollow
  BY <1>2 DEF FetchesFollow
<1>6. QED BY <1>1, <1>2, <1>3, <1>4, <1>5, AddMemberTyped, PlacedInStep

\* A category that is there afterwards is created, or named.
LEMMA NamedInStep ==
  ASSUME Typed, InStep, Typed', NEW r \in reqs, r.op \in {"create", "update"}, ~Overlap',
         NEW e \in [state : {"free", "live", "deleted"}, name : Names], e.state = "live",
         category' = [category EXCEPT ![r.cat] = e], UNCHANGED <<row, calls>>,
         Done(r, {CategoryNews(r.cat)}), UNCHANGED <<queue, store, history>>
  PROVE  InStep'
<1>0. /\ r \in Requests /\ r.cat \in Cats /\ Apart /\ ServerTyped /\ TransitTyped
      /\ reqs' = reqs \ {r} /\ news' = news \cup {CategoryNews(r.cat)}
  BY RequestFields, Separate DEF Done, Typed, TransitTyped, InStep
<1>1. /\ r.cat \in Live' /\ \A c \in Cats : c # r.cat => category'[c] = category[c]
      /\ Live \subseteq Live' /\ Live' \subseteq Live \cup {r.cat} /\ category'[r.cat] = e
  BY <1>0 DEF ServerTyped, Live
<1>2. /\ CategoryNews(r.cat).kind = "category" /\ DOMAIN CategoryNews(r.cat).new = {r.cat}
      /\ ~CategoryNews(r.cat).new[r.cat].deleted
  BY <1>0, <1>1, CategoryNewsTyped DEF Typed
<1>3. ~Announced(r.cat) /\ \A s \in reqs' : ~Concerns(s, r.cat)
  <2>1. Concerns(r, r.cat)
    BY DEF Concerns
  <2> QED BY <1>0, <2>1 DEF Apart
<1>4. \A c : Announced(c)' <=> Announced(c) \/ c = r.cat
  BY <1>0, <1>2 DEF Announced
<1>5. NewsAreTrue'
  <2>1. ASSUME NEW n \in news', n.kind = "category" PROVE TellsLive(n.new)'
    <3>1. CASE n = CategoryNews(r.cat)
      BY <1>1, <1>2, <3>1 DEF TellsLive
    <3>2. CASE n # CategoryNews(r.cat)
      <4>1. n \in news /\ r.cat \notin DOMAIN n.new /\ TellsLive(n.new)
        BY <1>0, <1>3, <2>1, <3>2 DEF Announced, InStep, NewsAreTrue
      <4> QED BY <1>1, <4>1 DEF TellsLive
    <3> QED BY <3>1, <3>2
  <2>2. TellsLive(queue["category"])'
    <3>1. r.cat \notin DOMAIN queue["category"] /\ TellsLive(queue["category"])
      BY <1>3 DEF Announced, InStep, NewsAreTrue
    <3> QED BY <1>1, <3>1 DEF TellsLive
  <2> QED BY <2>1, <2>2 DEF NewsAreTrue
<1>6. ShownAreLive'
  BY <1>1, <1>4 DEF InStep, ShownAreLive, store
<1>7. DeletedAreShown'
  BY <1>0, <1>1, <1>4 DEF InStep, DeletedAreShown, store
<1>8. ToldOnce'
  <2>1. ASSUME NEW n \in news', n.kind = "category", NEW c \in DOMAIN n.new
        PROVE  c \in Live' \/ c \notin DOMAIN queue'["category"]
    BY <1>0, <1>1, <1>2, <2>1 DEF InStep, ToldOnce
  <2> QED BY <2>1 DEF ToldOnce
<1>9. FetchedAreLive' /\ MovesAreLive'
  BY <1>0, <1>1 DEF InStep, FetchedAreLive, MovesAreLive
<1>10. RowsAreLive'
  <2>1. \A b \in Boards : row[b].cat \in Cats \cup {None}
    BY <1>0 DEF ServerTyped
  <2>2. ASSUME NEW b \in Boards, row[b].cat # None PROVE row[b].cat \in Live' \/ CalledBoardsAt(row[b].cat)'
    <3>1. row[b].cat \in Live \/ CalledBoardsAt(row[b].cat)
      BY <2>2 DEF InStep, RowsAreLive
    <3> QED BY <1>1, <2>1, <2>2, <3>1 DEF CalledBoardsAt
  <2> QED BY <2>2 DEF RowsAreLive
<1>11. DeletionsMoveRows'
  <2> SUFFICES ASSUME NEW s \in reqs', s.op = "delete" PROVE LeavesNoRow(s)'
    BY DEF DeletionsMoveRows
  <2>1. /\ LeavesNoRow(s) /\ s.cat # r.cat /\ s.to # r.cat /\ s.cat \in Cats
        /\ s.step \in {"move", "row"} => s.to \in Cats
    BY <1>0, <1>3, RequestFields, CategorySets DEF InStep, DeletionsMoveRows, Concerns, TransitTyped
  <2>2. /\ CalledBoardsAt(s.cat)' <=> CalledBoardsAt(s.cat)
        /\ s.step \in {"move", "row"} => (CalledBoardsAt(s.to)' <=> CalledBoardsAt(s.to))
    BY <1>1, <2>1 DEF CalledBoardsAt
  <2> QED BY <2>1, <2>2 DEF LeavesNoRow
<1>12. QED BY <1>5, <1>6, <1>7, <1>8, <1>9, <1>10, <1>11 DEF InStep

LEMMA CreateInStep ==
  ASSUME Typed, InStep, ~Overlap', NEW r \in reqs, HandleCreate(r), UNCHANGED <<queue, store, history>>
  PROVE  InStep'
<1> DEFINE e == [state |-> "live", name |-> r.name]
<1>1. r.op = "create" /\ r.name \in Names /\ Typed'
  BY RequestFields, HandleNamesTyped DEF HandleCreate, Typed, TransitTyped
<1>2. e \in [state : {"free", "live", "deleted"}, name : Names] /\ e.state = "live"
  BY <1>1
<1>3. /\ category' = [category EXCEPT ![r.cat] = e] /\ UNCHANGED <<row, calls>> /\ Done(r, {CategoryNews(r.cat)})
  BY DEF HandleCreate
<1> HIDE DEF e
<1>4. QED BY <1>1, <1>2, <1>3, NamedInStep

LEMMA UpdateInStep ==
  ASSUME Typed, InStep, ~Overlap', NEW r \in reqs, HandleUpdate(r), UNCHANGED <<queue, store, history>>
  PROVE  InStep'
<1>1. r.op = "update" /\ r.cat \in Cats /\ r.name \in Names /\ Typed' /\ UNCHANGED calls /\ ServerTyped
  BY RequestFields, HandleNamesTyped DEF HandleUpdate, Typed, TransitTyped
<1>2. CASE r.cat \notin Live
  <2>1. Done(r, {}) /\ UNCHANGED server
    BY <1>2 DEF HandleUpdate, Refuse
  <2>2. FollowUps /\ NamesTell' = NamesTell
    BY <2>1, DoneFollows
  <2>3. FetchesFollow
    BY <1>1 DEF FetchesFollow
  <2> QED BY <1>1, <2>1, <2>2, <2>3, Unmoved DEF server, store
<1>3. CASE r.cat \in Live
  <2> DEFINE e == [category[r.cat] EXCEPT !.name = IF r.cat = Default THEN @ ELSE r.name]
  <2>1. category[r.cat] \in [state : {"free", "live", "deleted"}, name : Names] /\ category[r.cat].state = "live"
    BY <1>1, <1>3 DEF ServerTyped, Live
  <2>2. e \in [state : {"free", "live", "deleted"}, name : Names] /\ e.state = "live"
    BY <1>1, <2>1
  <2>3. category' = [category EXCEPT ![r.cat] = e] /\ UNCHANGED row /\ Done(r, {CategoryNews(r.cat)})
    BY <1>3 DEF HandleUpdate
  <2> HIDE DEF e
  <2> QED BY <1>1, <2>2, <2>3, NamedInStep
<1>4. QED BY <1>2, <1>3

LEMMA DeleteRowInStep ==
  ASSUME Typed, InStep, ~Overlap', NEW r \in reqs, DeleteRow(r), UNCHANGED <<queue, store, history>>
  PROVE  InStep'
<1>0. /\ Typed' /\ r \in Requests /\ r.cat \in Cats /\ r.op = "delete" /\ r.step = "row" /\ Apart /\ ServerTyped /\ TransitTyped
      /\ reqs' = reqs \ {r} /\ news' = news \cup {CategoryNews(r.cat)} /\ UNCHANGED <<row, calls>>
      /\ category' = [category EXCEPT ![r.cat].state = "deleted"]
  BY RequestFields, CategorySets, Separate, HandleNamesTyped DEF DeleteRow, Done, Typed, TransitTyped, InStep
<1>1. /\ category'[r.cat].state = "deleted" /\ category'[r.cat].name = category[r.cat].name
      /\ \A c \in Cats : c # r.cat => category'[c] = category[c]
  <2>1. category \in [Cats -> [state : {"free", "live", "deleted"}, name : Names]]
    BY <1>0 DEF ServerTyped
  <2> DEFINE e == [category[r.cat] EXCEPT !.state = "deleted"]
  <2>2. category' = [category EXCEPT ![r.cat] = e]
    BY <1>0
  <2>3. e.state = "deleted" /\ e.name = category[r.cat].name
    BY <1>0, <2>1
  <2> HIDE DEF e
  <2>4. category'[r.cat] = e /\ \A c \in Cats : c # r.cat => category'[c] = category[c]
    BY <1>0, <2>1, <2>2
  <2> QED BY <2>3, <2>4
<1>2. Live' = Live \ {r.cat} /\ \A c \in Cats : CalledBoardsAt(c)' <=> CalledBoardsAt(c)
  BY <1>0, <1>1 DEF Live, CalledBoardsAt
<1>3. /\ CategoryNews(r.cat).kind = "category" /\ DOMAIN CategoryNews(r.cat).new = {r.cat}
      /\ CategoryNews(r.cat).new[r.cat].deleted
  BY <1>0, <1>1, CategoryNewsTyped DEF Typed
<1>4. ~Announced(r.cat) /\ \A s \in reqs' : ~Concerns(s, r.cat)
  <2>1. Concerns(r, r.cat)
    BY <1>0 DEF Concerns
  <2> QED BY <1>0, <2>1 DEF Apart
<1>5. \A c : Announced(c)' <=> Announced(c) \/ c = r.cat
  BY <1>0, <1>3 DEF Announced
<1>6. NewsAreTrue'
  <2>1. ASSUME NEW n \in news', n.kind = "category" PROVE TellsLive(n.new)'
    <3>1. CASE n = CategoryNews(r.cat)
      BY <1>2, <1>3, <3>1 DEF TellsLive
    <3>2. CASE n # CategoryNews(r.cat)
      <4>1. n \in news /\ r.cat \notin DOMAIN n.new /\ TellsLive(n.new)
        BY <1>0, <1>4, <2>1, <3>2 DEF Announced, InStep, NewsAreTrue
      <4> QED BY <1>2, <4>1 DEF TellsLive
    <3> QED BY <3>1, <3>2
  <2>2. TellsLive(queue["category"])'
    <3>1. r.cat \notin DOMAIN queue["category"] /\ TellsLive(queue["category"])
      BY <1>4 DEF Announced, InStep, NewsAreTrue
    <3> QED BY <1>2, <3>1 DEF TellsLive
  <2> QED BY <2>1, <2>2 DEF NewsAreTrue
<1>7. ShownAreLive'
  BY <1>2, <1>5 DEF InStep, ShownAreLive, store
<1>8. DeletedAreShown'
  <2>1. r.cat \in DOMAIN side
    BY <1>0 DEF InStep, DeletedAreShown
  <2> QED BY <1>0, <1>2, <1>5, <2>1 DEF InStep, DeletedAreShown, store
<1>9. ToldOnce'
  <2>1. ASSUME NEW n \in news', n.kind = "category", NEW c \in DOMAIN n.new
        PROVE  c \in Live' \/ c \notin DOMAIN queue'["category"]
    <3>1. CASE c = r.cat
      BY <1>4, <3>1 DEF Announced
    <3>2. CASE c # r.cat
      BY <1>0, <1>2, <1>3, <2>1, <3>2 DEF InStep, ToldOnce
    <3> QED BY <3>1, <3>2
  <2> QED BY <2>1 DEF ToldOnce
<1>10. FetchedAreLive'
  <2>1. \A x \in calls : IsCall(x) /\ ("op" \in DOMAIN x /\ x.op = "fetch" => IsFetch(x))
    BY <1>0, CallFields DEF TransitTyped
  <2>2. \A x \in calls : ~IsFetch(x)
    BY <1>0 DEF Apart
  <2> QED BY <1>0, <2>1, <2>2 DEF FetchedAreLive
<1>11. MovesAreLive'
  BY <1>0, <1>2, <1>4 DEF InStep, MovesAreLive, Concerns
<1>12. RowsAreLive'
  <2>1. \A b \in Boards : row[b].cat \in Cats \cup {None}
    BY <1>0 DEF ServerTyped
  <2>2. LeavesNoRow(r)
    BY <1>0 DEF InStep, DeletionsMoveRows
  <2>3. ASSUME NEW b \in Boards, row[b].cat # None PROVE row[b].cat \in Live' \/ CalledBoardsAt(row[b].cat)'
    <3>1. CASE row[b].cat = r.cat
      BY <1>0, <1>2, <2>2, <3>1 DEF LeavesNoRow
    <3>2. CASE row[b].cat # r.cat
      <4>1. row[b].cat \in Live \/ CalledBoardsAt(row[b].cat)
        BY <2>3 DEF InStep, RowsAreLive
      <4>2. row[b].cat \in Cats
        BY <2>1, <2>3
      <4>3. CASE row[b].cat \in Live
        BY <1>2, <3>2, <4>3
      <4>4. CASE CalledBoardsAt(row[b].cat)
        BY <1>0, <1>2, <4>2, <4>4
      <4> QED BY <4>1, <4>3, <4>4
    <3> QED BY <3>1, <3>2
  <2> QED BY <1>0, <2>3 DEF RowsAreLive
<1>13. DeletionsMoveRows'
  <2> SUFFICES ASSUME NEW s \in reqs', s.op = "delete" PROVE LeavesNoRow(s)'
    BY DEF DeletionsMoveRows
  <2>1. LeavesNoRow(s) /\ s.cat \in Cats /\ (s.step \in {"move", "row"} => s.to \in Cats)
    BY <1>0, RequestFields, CategorySets DEF InStep, DeletionsMoveRows, TransitTyped
  <2> QED BY <1>0, <1>2, <2>1 DEF LeavesNoRow
<1>14. QED BY <1>6, <1>7, <1>8, <1>9, <1>10, <1>11, <1>12, <1>13 DEF InStep

LEMMA ReadDeletedInStep ==
  ASSUME Typed, InStep, ~Overlap', NEW r \in reqs, ReadDeleted(r), UNCHANGED <<queue, store, history>>
  PROVE  InStep'
<1>0. /\ Typed' /\ UNCHANGED <<server, news, calls>> /\ r.op = "delete" /\ r.cat \in Cats /\ ServerTyped
  BY ReadDeletedTyped, RequestFields, CategorySets DEF ReadDeleted, Typed, TransitTyped
<1>1. NamesTell' = NamesTell /\ FetchesFollow
  BY <1>0 DEF NamesTell, FetchesFollow
<1>2. CASE reqs' = reqs \ {r}
  <2>1. FollowUps
    BY <1>2 DEF FollowUps
  <2> QED BY <1>0, <1>1, <2>1, Unmoved DEF server, store
<1>3. CASE reqs' # reqs \ {r}
  <2>1. PICK to \in DefaultFor(r.cat) :
          reqs' = (reqs \ {r}) \cup {[op |-> "delete", step |-> "move", cat |-> r.cat, ids |-> RowsOf(r.cat), to |-> to]}
    BY <1>3, ReadDeletedTyped
  <2> DEFINE s == [op |-> "delete", step |-> "move", cat |-> r.cat, ids |-> RowsOf(r.cat), to |-> to]
  <2>2. /\ s.op = "delete" /\ s.step = "move" /\ s.cat = r.cat /\ s.to = to
        /\ \A b \in Boards : row[b].cat = r.cat => b \in s.ids
    BY DEF RowsOf
  <2>3. reqs' = (reqs \ {r}) \cup {s}
    BY <2>1
  <2> HIDE DEF s
  <2>4. category[to].name = "Boards"
    BY <1>0, DefaultIsCategory
  <2>5. LeavesNoRow(s)
    BY <2>2, <2>4 DEF LeavesNoRow, CalledBoardsAt
  <2>6. NewsAreTrue' /\ ShownAreLive' /\ DeletedAreShown' /\ ToldOnce' /\ Live' = Live
    BY <1>0, <1>1, <2>2, <2>3, NamesStay DEF server, store
  <2>7. FetchedAreLive'
    BY <1>1, <2>6, FetchesStay
  <2>8. MovesAreLive'
    BY <2>2, <2>3, <2>6 DEF InStep, MovesAreLive
  <2>9. RowsAreLive' /\ \A q : LeavesNoRow(q)' <=> LeavesNoRow(q)
    BY <1>0, <2>6 DEF server, InStep, RowsAreLive, LeavesNoRow, CalledBoardsAt
  <2>10. DeletionsMoveRows'
    BY <2>3, <2>5, <2>9 DEF InStep, DeletionsMoveRows
  <2> QED BY <2>6, <2>7, <2>8, <2>9, <2>10 DEF InStep
<1>4. QED BY <1>2, <1>3

LEMMA MoveDeletedInStep ==
  ASSUME Typed, InStep, ~Overlap', NEW r \in reqs, MoveDeleted(r), UNCHANGED <<queue, store, history>>
  PROVE  InStep'
<1> DEFINE s == [op |-> "delete", step |-> "row", cat |-> r.cat, ids |-> {}, to |-> r.to]
<1>0. /\ Typed' /\ UNCHANGED <<category, calls>> /\ r.op = "delete" /\ r.step = "move" /\ r.cat \in Cats
      /\ r.to \in Cats /\ r.ids \in SUBSET Boards /\ ServerTyped /\ Apart
      /\ row' = RowsAfter(r.to, r.ids) /\ news' = news \cup ContentNews(r.to, r.ids)
  BY MoveDeletedTyped, RequestFields, CategorySets, Separate DEF MoveDeleted, Typed, TransitTyped, InStep
<1>1. reqs' = reqs \ {r} \/ reqs' = (reqs \ {r}) \cup {s}
  BY MoveDeletedTyped
<1>2. s.op = "delete" /\ s.step = "row" /\ s.cat = r.cat /\ s.to = r.to
  OBVIOUS
<1> HIDE DEF s
<1>3. FetchesFollow /\ NamesTell' = NamesTell
  <2>1. \A n \in ContentNews(r.to, r.ids) : n.kind # "category"
    BY <1>0, NotOfNames
  <2> QED BY <1>0, <2>1 DEF FetchesFollow, NamesTell
<1>4. NewsAreTrue' /\ ShownAreLive' /\ DeletedAreShown' /\ ToldOnce' /\ Live' = Live
  BY <1>0, <1>1, <1>2, <1>3, NamesStay DEF store
<1>5. LeavesNoRow(r) /\ CalledBoardsAt(r.to)
  BY <1>0 DEF InStep, DeletionsMoveRows, LeavesNoRow
<1>6. RowsAreLive'
  BY <1>0, <1>5, PlacedRowsAreLive
<1>7. DeletionsMoveRows'
  <2> SUFFICES ASSUME NEW q \in reqs', q.op = "delete" PROVE LeavesNoRow(q)'
    BY DEF DeletionsMoveRows
  <2>1. CASE q \in reqs
    BY <1>0, <1>5, <2>1, PlacedLeavesNoRow DEF InStep, DeletionsMoveRows
  <2>2. CASE q = s
    <3>1. \A c : CalledBoardsAt(c)' <=> CalledBoardsAt(c)
      BY <1>0 DEF CalledBoardsAt
    <3>2. /\ \A b \in r.ids : row'[b].cat = r.to
          /\ \A b \in Boards \ r.ids : row'[b] = row[b]
      BY <1>0, RowsAfterTyped
    <3> QED BY <1>0, <1>2, <1>5, <2>2, <3>1, <3>2 DEF LeavesNoRow
  <2> QED BY <1>1, <2>1, <2>2
<1>8. FetchedAreLive'
  BY <1>3, <1>4, FetchesStay
<1>9. MovesAreLive'
  BY <1>1, <1>2, <1>4 DEF InStep, MovesAreLive
<1>10. QED BY <1>4, <1>6, <1>7, <1>8, <1>9 DEF InStep

LEMMA HandleInStep ==
  ASSUME Typed, InStep, ~Overlap', Handle
  PROVE  InStep'
<1>1. PICK r \in reqs : \/ HandleCreate(r) \/ HandleUpdate(r) \/ HandleMove(r)
                        \/ ReadDeleted(r) \/ MoveDeleted(r) \/ DeleteRow(r)
                        \/ HandleHide(r) \/ HandleOrder(r)
                        \/ HandleDuplicate(r) \/ HandleDeleteBoard(r)
  BY DEF Handle
<1>2. UNCHANGED <<queue, store, history>>
  BY DEF Handle
<1>3. QED
  BY <1>1, <1>2, CreateInStep, UpdateInStep, MoveInStep, ReadDeletedInStep, MoveDeletedInStep, DeleteRowInStep,
     HidesInStep, OrderInStep, DuplicateInStep, DeleteBoardInStep

LEMMA DeliverInStep ==
  ASSUME Typed, InStep, ~Overlap', NEW n, Deliver(n)
  PROVE  InStep'
<1>0. /\ Typed' /\ n \in news /\ news' = news \ {n} /\ UNCHANGED <<server, reqs, calls, store>>
      /\ queue' = [queue EXCEPT ![n.kind] = IF n.kind = "order" THEN n.new ELSE Newer(n.new, @)]
      /\ n.kind \in Kinds /\ DOMAIN queue = Kinds /\ Apart
  BY DeliverTyped, Separate DEF Deliver, Typed, TransitTyped, IsNews, InStep
<1>1. FollowUps /\ FetchesFollow
  BY <1>0 DEF FollowUps, FetchesFollow
<1>2. CASE n.kind # "category"
  <2>1. queue'["category"] = queue["category"]
    BY <1>0, <1>2
  <2>2. NamesTell' = NamesTell
    BY <1>0, <1>2 DEF NamesTell
  <2> QED BY <1>0, <1>1, <2>1, <2>2, Unmoved DEF server, store
<1>3. CASE n.kind = "category"
  <2> DEFINE q == queue["category"]
             h == Newer(n.new, q)
  <2>1. queue'["category"] = h
    BY <1>0, <1>3 DEF Kinds
  <2>2. DOMAIN h = DOMAIN n.new \cup DOMAIN q /\ \A c \in DOMAIN h : h[c] = IF c \in DOMAIN n.new THEN n.new[c] ELSE q[c]
    BY DEF Newer
  <2> HIDE DEF h
  <2>3. Live' = Live /\ side' = side
    BY <1>0 DEF Live, server, store
  <2>4. \A c : Announced(c)' <=> Announced(c)
    BY <1>0, <1>3, <2>1, <2>2 DEF Announced
  <2>5. NewsAreTrue'
    <3>1. TellsLive(n.new) /\ TellsLive(q) /\ \A m \in news' : m.kind = "category" => TellsLive(m.new)
      BY <1>0, <1>3 DEF InStep, NewsAreTrue
    <3> HIDE DEF q
    <3>2. \A c \in DOMAIN h : h[c].deleted <=> c \notin Live
      BY <2>2, <3>1 DEF TellsLive
    <3> QED BY <2>1, <2>3, <3>1, <3>2 DEF NewsAreTrue, TellsLive
  <2>6. ToldOnce'
    <3> SUFFICES ASSUME NEW m \in news', m.kind = "category", NEW c \in DOMAIN m.new, c \notin Live PROVE c \notin DOMAIN h
      BY <2>1, <2>3 DEF ToldOnce
    <3>1. m \in news /\ m # n
      BY <1>0
    <3>2. c \notin DOMAIN n.new
      BY <1>0, <1>3, <3>1 DEF Apart
    <3>3. c \notin DOMAIN q
      BY <3>1 DEF InStep, ToldOnce
    <3> QED BY <2>2, <3>2, <3>3
  <2>7. ShownAreLive' /\ DeletedAreShown'
    BY <1>0, <2>3, <2>4 DEF InStep, ShownAreLive, DeletedAreShown
  <2>8. RowsAreLive' /\ DeletionsMoveRows'
    BY <1>0, <1>1, RowsStay DEF server
  <2>9. FetchedAreLive'
    BY <1>1, <2>3, FetchesStay
  <2>10. MovesAreLive'
    BY <1>0, <2>3 DEF InStep, MovesAreLive
  <2> QED BY <2>5, <2>6, <2>7, <2>8, <2>9, <2>10 DEF InStep
<1>4. QED BY <1>2, <1>3

\* What nothing in the queue or on its way says: names of categories.
LEMMA Unannounced ==
  ASSUME \A c \in Cats : ~Announced(c), TransitTyped
  PROVE  NamesTell = {} /\ DOMAIN queue["category"] = {}
<1>1. DOMAIN queue["category"] \subseteq Cats
  BY DEF TransitTyped, Fits, NamesTold, Kinds
<1>2. DOMAIN queue["category"] = {}
  BY <1>1 DEF Announced
<1>3. ASSUME NEW n \in news, n.kind = "category" PROVE FALSE
  <2>1. IsNews(n)
    BY DEF TransitTyped
  <2>2. PICK c \in Cats, e \in [name : Names, deleted : BOOLEAN] : n.new = About(c, e)
    BY <1>3, <2>1 DEF IsNews
  <2>3. DOMAIN About(c, e) = {c}
    BY AboutOne
  <2> QED BY <1>3, <2>2, <2>3 DEF Announced
<1>4. QED BY <1>2, <1>3 DEF NamesTell

\* The categories of an answer replace those shown.
LEMMA FetchInStep ==
  ASSUME Typed, InStep, ~Overlap', drag = NoDrag, NEW x, FetchSidebarCategories(x)
  PROVE  InStep'
<1>0. /\ Typed' /\ x \in calls /\ "op" \in DOMAIN x /\ x.op = "fetch" /\ x.got # None /\ IsFetch(x)
      /\ UNCHANGED <<server, news, queue>> /\ side' = x.got /\ Answered(x, {}) /\ Send({}) /\ Apart
  BY FetchTyped, CallFields, Separate DEF FetchSidebarCategories, Typed, TransitTyped, InStep
<1>1. FollowUps
  BY <1>0, SendsFollow
<1>2. FetchesFollow
  BY <1>0 DEF FetchesFollow, Answered
<1>3. Live' = Live /\ DOMAIN side' \subseteq Live /\ \A c : Announced(c)' <=> Announced(c)
  BY <1>0 DEF Live, server, InStep, FetchedAreLive, Announced
<1>4. (\A c \in Cats : ~Announced(c)) /\ \A r \in reqs : r.op # "delete"
  BY <1>0 DEF Apart
<1>5. \A r \in reqs' : r.op # "delete"
  <2>1. PICK effect \in SidebarEffect : reqs' = reqs \cup {} \cup effect
    BY <1>0 DEF Send
  <2>2. EffectAsks(effect)
    BY EffectOf
  <2> QED BY <1>4, <2>1, <2>2 DEF EffectAsks
<1>6. NewsAreTrue' /\ ToldOnce'
  BY <1>0, <1>3 DEF InStep, NewsAreTrue, ToldOnce, TellsLive
<1>7. ShownAreLive' /\ DeletedAreShown'
  BY <1>3, <1>4, <1>5 DEF ShownAreLive, DeletedAreShown
<1>8. RowsAreLive' /\ DeletionsMoveRows'
  BY <1>0, <1>5, RowsStay DEF server
<1>9. FetchedAreLive'
  BY <1>2, <1>3, FetchesStay
<1>10. MovesAreLive'
  BY <1>0, <1>1, <1>3, <1>7, MovesFollow DEF Typed, InStep
<1>11. QED BY <1>6, <1>7, <1>8, <1>9, <1>10 DEF InStep

\* A page loaded again asks for the categories, so no other step tells of them.
LEMMA ReloadInStep ==
  ASSUME Typed, InStep, ~Overlap', drag = NoDrag, Reload
  PROVE  InStep'
<1>0. /\ Typed' /\ news' \subseteq news /\ queue' = NoQueue /\ calls' = {NewLoad, NewFetch} /\ side' = Nil
      /\ UNCHANGED server /\ reqs' = reqs
  BY ReloadTyped DEF Reload
<1>1. Live' = Live /\ DOMAIN side' = {} /\ DOMAIN queue'["category"] = {}
  BY <1>0, NilTells DEF Live, server, Kinds
<1>2. (\A c \in Cats : ~Announced(c)') /\ \A r \in reqs' : r.op # "delete"
  <2>1. Apart'
    BY <1>0, SeparateNext DEF Typed
  <2>2. NewFetch \in calls' /\ IsFetch(NewFetch)
    BY <1>0 DEF NewFetch, IsFetch
  <2> QED BY <2>1, <2>2 DEF Apart
<1>3. NewsAreTrue' /\ ToldOnce'
  BY <1>0, <1>1 DEF InStep, NewsAreTrue, ToldOnce, TellsLive
<1>4. ShownAreLive' /\ DeletedAreShown'
  BY <1>1, <1>2 DEF ShownAreLive, DeletedAreShown
<1>5. RowsAreLive' /\ DeletionsMoveRows'
  BY <1>0, RowsStay DEF server
<1>6. FetchedAreLive'
  BY <1>0 DEF FetchedAreLive, NewLoad, NewFetch
<1>7. MovesAreLive'
  BY <1>0, <1>1 DEF InStep, MovesAreLive
<1>8. QED BY <1>3, <1>4, <1>5, <1>6, <1>7 DEF InStep

\* Flushing the queue: a category that was deleted goes, and one that is told of stays.
LEMMA FlushInStep ==
  ASSUME Typed, InStep, ~Overlap', drag = NoDrag, Flush
  PROVE  InStep'
<1> DEFINE q == queue["category"]
           order == queue["order"]
<1>0. /\ Typed' /\ Apart /\ side' = UpdateCategoryOrder(Placed, order) /\ queue' = NoQueue
      /\ UNCHANGED <<server, news>> /\ Send({})
      /\ Lists(Placed) /\ DOMAIN Placed = DOMAIN Named /\ NamesTold(q)
  BY FlushTyped, QueueTyped, Separate DEF Flush, Typed, InStep
<1>1. DOMAIN Named = (DOMAIN side \cup DOMAIN q) \ {d \in DOMAIN side \cap DOMAIN q : q[d].deleted}
  BY DEF Named, UpdateCategories
<1>2. /\ DOMAIN side' \subseteq DOMAIN Named
      /\ \A c \in DOMAIN Named : c \in DOMAIN order \/ DOMAIN order = {} => c \in DOMAIN side'
  BY <1>0, ListsOrdered
<1>3. Live' = Live /\ DOMAIN queue'["category"] = {} /\ DOMAIN side \subseteq Cats /\ DOMAIN q \subseteq Cats
  BY <1>0, NilTells, SideTyped DEF Live, server, Kinds, Typed, NamesTold
<1>4. \A c : Announced(c)' => Announced(c) /\ \E n \in news : n.kind = "category" /\ c \in DOMAIN n.new
  BY <1>0, <1>3 DEF Announced
<1>5. \A c \in DOMAIN q : q[c].deleted <=> c \notin Live
  BY DEF InStep, NewsAreTrue, TellsLive
<1>6. ShownAreLive'
  <2> SUFFICES ASSUME NEW c \in DOMAIN side' PROVE c \in Live \/ Announced(c)'
    BY <1>3 DEF ShownAreLive
  <2>1. CASE c \in DOMAIN q
    <3>1. ASSUME c \notin Live PROVE FALSE
      <4>1. q[c].deleted /\ Announced(c)
        BY <1>5, <2>1, <3>1 DEF Announced
      <4>2. c \in DOMAIN side
        BY <1>3, <2>1, <3>1, <4>1 DEF InStep, DeletedAreShown
      <4> QED BY <1>1, <1>2, <2>1, <4>1, <4>2
    <3> QED BY <3>1
  <2>2. CASE c \notin DOMAIN q
    <3>1. c \in DOMAIN side
      BY <1>1, <1>2, <2>2
    <3>2. c \in Live \/ \E n \in news : n.kind = "category" /\ c \in DOMAIN n.new
      BY <2>2, <3>1 DEF InStep, ShownAreLive, Announced
    <3> QED BY <1>0, <3>2 DEF Announced
  <2> QED BY <2>1, <2>2
<1>7. \A r \in reqs' : r.op = "delete" => r \in reqs
  <2>1. PICK effect \in SidebarEffect : reqs' = reqs \cup {} \cup effect
    BY <1>0 DEF Send
  <2>2. EffectAsks(effect)
    BY EffectOf
  <2> QED BY <2>1, <2>2 DEF EffectAsks
<1>8. DeletedAreShown'
  <2> SUFFICES ASSUME NEW c \in Cats,
                      (\E r \in reqs : r.op = "delete" /\ r.cat = c) \/ (Announced(c)' /\ c \notin Live)
               PROVE  c \in DOMAIN side'
    BY <1>3, <1>7 DEF DeletedAreShown
  <2>1. c \in DOMAIN side
    BY <1>4 DEF InStep, DeletedAreShown
  <2>2. c \notin DOMAIN q /\ DOMAIN order = {}
    <3>1. CASE \E r \in reqs : r.op = "delete" /\ r.cat = c
      <4>1. ~Announced(c)
        BY <1>0, <3>1 DEF Apart, Concerns
      <4>2. DOMAIN order = {}
        BY <1>0, <3>1 DEF Apart
      <4> QED BY <4>1, <4>2 DEF Announced
    <3>2. CASE Announced(c)' /\ c \notin Live
      <4>1. Announced(c) /\ \E n \in news : n.kind = "category" /\ c \in DOMAIN n.new
        BY <1>4, <3>2
      <4>2. c \notin DOMAIN q
        BY <3>2, <4>1 DEF InStep, ToldOnce
      <4>3. DOMAIN order = {}
        BY <1>0, <4>1 DEF Apart
      <4> QED BY <4>2, <4>3
    <3> QED BY <3>1, <3>2
  <2> QED BY <1>1, <1>2, <2>1, <2>2
<1>9. NewsAreTrue' /\ ToldOnce'
  BY <1>0, <1>3 DEF InStep, NewsAreTrue, ToldOnce, TellsLive
<1>10. RowsAreLive' /\ DeletionsMoveRows'
  BY <1>0, <1>7, RowsStay DEF server
<1>11. FollowUps
  BY <1>0, SendsFollow
<1>12. FetchesFollow
  BY DEF Flush, FetchesFollow
<1>13. FetchedAreLive'
  BY <1>3, <1>12, FetchesStay
<1>14. MovesAreLive'
  BY <1>0, <1>3, <1>6, <1>11, MovesFollow DEF Typed, InStep
<1>15. QED BY <1>6, <1>8, <1>9, <1>10, <1>13, <1>14 DEF InStep

LEMMA InitInStep == Init => InStep
<1> SUFFICES ASSUME Init PROVE InStep
  OBVIOUS
<1>1. /\ reqs = {} /\ news = {} /\ queue = NoQueue /\ calls = {} /\ side = Categories
      /\ \A b \in Boards : row[b].cat = None \/ row[b].cat \in Live
  BY DEF Init
<1>2. \A kind \in DOMAIN queue : queue[kind] = Nil
  BY <1>1, NilTells
<1>3. ~Overlap
  BY <1>1, <1>2 DEF Overlap, InFlight
<1>4. DOMAIN queue["category"] = {}
  BY <1>1, NilTells DEF Kinds
<1>5. NewsAreTrue /\ ToldOnce /\ FetchedAreLive /\ MovesAreLive /\ DeletionsMoveRows
  BY <1>1, <1>4 DEF NewsAreTrue, TellsLive, ToldOnce, FetchedAreLive, MovesAreLive, DeletionsMoveRows
<1>6. ShownAreLive /\ DeletedAreShown
  BY <1>1, <1>4 DEF Categories, ShownAreLive, DeletedAreShown, Announced
<1>7. RowsAreLive
  BY <1>1 DEF RowsAreLive
<1>8. QED BY <1>3, <1>5, <1>6, <1>7 DEF InStep

LEMMA StutterInStep ==
  ASSUME InStep, UNCHANGED vars
  PROVE  InStep'
<1>0. UNCHANGED <<server, transit, store>>
  BY DEF vars
<1>1. InFlight' = InFlight
  BY <1>0 DEF InFlight, transit
<1>2. ~Overlap'
  BY <1>1 DEF InStep, Overlap
<1>3. Live' = Live /\ \A c : (Announced(c)' <=> Announced(c)) /\ (CalledBoardsAt(c)' <=> CalledBoardsAt(c))
  BY <1>0 DEF Live, server, transit, Announced, CalledBoardsAt
<1>4. NewsAreTrue' /\ ShownAreLive' /\ DeletedAreShown' /\ ToldOnce' /\ FetchedAreLive' /\ MovesAreLive'
  BY <1>0, <1>3 DEF InStep, transit, store, NewsAreTrue, TellsLive, ShownAreLive, DeletedAreShown, ToldOnce,
                    FetchedAreLive, MovesAreLive
<1>5. RowsAreLive' /\ DeletionsMoveRows'
  <2>1. category' = category /\ row' = row /\ reqs' = reqs
    BY <1>0 DEF server, transit
  <2> QED BY <2>1, RowsStay
<1>6. QED BY <1>2, <1>4, <1>5 DEF InStep

LEMMA NextKeeps == Kept /\ [Next]_vars => Kept'
<1> SUFFICES ASSUME Kept, [Next]_vars PROVE Kept'
  OBVIOUS
<1>1. Typed'
  BY NextTyped DEF Kept
<1> SUFFICES ASSUME ~raced' PROVE InStep'
  BY <1>1 DEF Kept
<1>2. CASE UNCHANGED vars
  <2>1. InStep
    BY <1>2 DEF Kept, vars
  <2> QED BY <1>2, <2>1, StutterInStep
<1>3. CASE (System \/ User \/ Admins) /\ raced' = (raced \/ Overlap')
  <2>1. Typed /\ InStep /\ ~Overlap'
    BY <1>3 DEF Kept
  <2>2. CASE System
    BY <2>1, <2>2, HandleInStep, DropInStep, FlushInStep, DeliverInStep, ReplyInStep, TakenInStep, FetchInStep,
       ApplyAnswerInStep DEF System, Server, Client
  <2>3. CASE User
    <3>0. drag = NoDrag
      BY <2>3 DEF User
    <3>1. CASE UserAsks
      BY <2>1, <3>1, UserInStep
    <3>2. CASE \E b \in Boards, from, to \in Cats : DragBoard(b, from, to)
      BY <2>1, <3>0, <3>2, DragInStep
    <3>3. CASE Reload
      BY <2>1, <3>0, <3>3, ReloadInStep
    <3>4. CASE \E b \in Boards : OpenBoard(b)
      BY <2>1, <3>0, <3>4, OpenInStep
    <3> QED BY <2>3, <3>1, <3>2, <3>3, <3>4 DEF User, CategoryMenu, BoardItem, UserAsks
  <2>4. CASE Admins
    BY <2>1, <2>4, AddMemberInStep, RemoveMemberInStep DEF Admins
  <2> QED BY <1>3, <2>2, <2>3, <2>4
<1>4. CASE Slip /\ raced' = TRUE
  BY <1>4
<1>5. QED BY <1>2, <1>3, <1>4 DEF Next

\* The inductive invariant: the types, and while nothing overlapped what the client
\* shows and what is on its way fit what the server has.
THEOREM KeptAlways == Spec => []Kept
<1>1. Init => Kept
  BY InitTyped, InitInStep DEF Kept
<1>2. QED BY <1>1, NextKeeps, PTL DEF Spec

\* Every board of the user has a category that exists, unless two requests about it
\* overlapped or the category deleted was itself called Boards.
THEOREM BoardsHaveACategory == Spec => []BoardsKeepACategory
<1>1. Kept => BoardsKeepACategory
  BY DEF Kept, Typed, ServerTyped, InStep, RowsAreLive, CalledBoardsAt, BoardsKeepACategory
<1>2. QED BY <1>1, KeptAlways, PTL
=============================================================================
