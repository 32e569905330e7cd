----------------------------- MODULE Navigation -----------------------------
(***************************************************************************)
(* The pages of the web application: the address in the browser, the       *)
(* routes and their guard, the pages for errors and for logging in, and    *)
(* the board page, whose effects read the address, ask the server for      *)
(* boards and blocks, join a board the user is no member of, remember the  *)
(* last board and view, and replace the address by a more precise one.     *)
(*                                                                         *)
(* The answers of the server come in any order.  Those with the blocks of  *)
(* a board tell the state of the server at some moment between the request *)
(* and the answer; the other requests are handled and answered in one      *)
(* step.  The user opens addresses, reloads, logs in and out; the session  *)
(* may expire and other users delete views and boards and change who is a  *)
(* member.                                                                 *)
(*                                                                         *)
(* One team, boards without cards, no hidden board.  The effects of a page *)
(* run together, after it was rendered, in the order of the components.    *)
(* Broadcasts reach the page at once.  The browser's history is its        *)
(* current entry and the one before.                                       *)
(***************************************************************************)
EXTENDS Naturals, Sequences, FiniteSets

CONSTANTS Boards,      \* the boards of the team
          Views,       \* their views
          BoardOf,     \* the board of each view
          Categories,  \* the categories of the user, a sequence of sets of boards
          Admins,      \* whether the user may manage the team: a set of Booleans
          MaxActs,     \* what the users do is bounded by this
          None

ASSUME NavigationAssumption ==
    /\ BoardOf \in [Views -> Boards]
    /\ Categories \in Seq(SUBSET Boards)
    /\ Admins \subseteq BOOLEAN /\ MaxActs \in Nat
    /\ IsFiniteSet(Views)

VARIABLES url,       \* the address; on the pages of errors and login, board
                     \* and view are the address to return to
          previous,  \* the entry of the browser's history below it
          store,     \* the state store of the web client
          settings,  \* the settings kept in the browser
          server,    \* sessions, boards, members, views and sharing
          requests,  \* what was asked, with the answer when there is one
          seen,      \* what the board page was last rendered with
          returning, \* an address that a finished request will push
          dialog,    \* the question before an admin joins a private board
          acts,      \* how much the users did
          stale      \* the views of the store came with an answer no longer true
                     \* or are those of another board

navVars == <<url, previous, store, settings, server, requests, seen,
          returning, dialog, acts, stale>>

Pages == {"board", "shared", "error", "login", "register"}
ErrorIds == {"not-logged-in", "board-not-found", "invalid-read-only-board"}
BoardOrNone == Boards \cup {None}
ViewOrNone == Views \cup {None}

Urls == [page : Pages, board : BoardOrNone, view : ViewOrNone,
         id : ErrorIds \cup {None}]

\* What the board page is rendered with.
Renderings == [page : {"board", "shared"}, board : BoardOrNone, view : ViewOrNone, me : BOOLEAN,
               current : BoardOrNone, views : Nat, listed : BOOLEAN, dialog : {None, "join"}]
ASSUME NoneAssumption == None \notin Boards \cup Views \cup ErrorIds \cup Renderings \cup {"join"}

Address(b, v) == [page |-> "board", board |-> b, view |-> v, id |-> None]
Home == Address(None, None)
LoginPage(to) == [to EXCEPT !.page = "login", !.id = None]
ErrorPage(id, to) == [to EXCEPT !.page = "error", !.id = id]

ViewsOf(b) == {v \in Views : BoardOf[v] = b}
MayRead(b) == b \in server.boards /\ b \in server.mine
MayJoin(b, allowAdmin) ==
    b \in server.boards /\ (b \in server.open \/ (allowAdmin /\ server.admin))

-----------------------------------------------------------------------------
(* The settings in the browser.                                            *)

\* Mutant: forgetting a board keeps it.
LastBoardSetNeverForgets(s, b) == IF b = None THEN s ELSE [s EXCEPT !.board = b]

\* The last board of the team, None to forget it.
LastBoardSet(s, b) == [s EXCEPT !.board = b]

\* The last view of a board, None to forget it.
LastViewSet(s, b, v) == [s EXCEPT !.view[b] = v]

-----------------------------------------------------------------------------
(* Requests and their answers.                                             *)

Ask(kind, b) == [kind |-> kind, board |-> b, answer |-> None]

\* What the calls of the HTTP client return: of a request that the server
\* refuses, an empty list or nothing.
GetMe == server.session
GetTeam == server.session
GetBoards == IF server.session THEN server.boards \cap (server.mine \cup server.open) ELSE {}
GetSidebarCategories == IF server.session THEN server.boards \cap server.mine ELSE {}
Published(b) == b \in server.boards \cap server.published
GetBoard(b) == Published(b) \/ b \in GetBoards
GetAllBlocks(b, readable) == IF readable THEN ViewsOf(b) \cap server.views ELSE {}
JoinBoard(b, allowAdmin) == server.session /\ MayJoin(b, allowAdmin)

\* What is answered to a request for the blocks of a board.  The shared page asks
\* with its read token, and a member who is logged in needs none.
Answer(r) ==
    LET member == server.session /\ MayRead(r.board)
    IN  IF r.kind = "shared"
        THEN [ok |-> GetBoard(r.board), views |-> GetAllBlocks(r.board, Published(r.board) \/ member)]
        ELSE [ok |-> server.session, views |-> GetAllBlocks(r.board, member)]

-----------------------------------------------------------------------------
(* Rendering: what the board page depends on, and its effects.             *)

LoginRequired(page) == page = "board"

\* The guard of the routes keeps a user known not to be logged in away.
Guarded == LoginRequired(url.page) /\ store.loggedIn = "no"

OnBoardPage == url.page \in {"board", "shared"} /\ ~Guarded

CurrentViews == {v \in store.views : BoardOf[v] = store.current}

Rendering ==
    IF OnBoardPage
    THEN [board |-> url.board, view |-> url.view, page |-> url.page,
          me |-> store.me, current |-> store.current,
          views |-> Cardinality(CurrentViews), listed |-> store.listed # None,
          dialog |-> dialog]
    ELSE None

\* An effect runs when one of its dependencies changed since the last rendering.
Changed(fields) ==
    Rendering # None /\ (seen = None \/ \E f \in fields : seen[f] # Rendering[f])

\* The boards the redirect may pick: those of the last category that lists a
\* board the store knows (the search leaves a category at its first board, and
\* goes on with the next category).
FirstBoards ==
    LET known(i) == Categories[i] \cap store.listed \cap store.boards
        listing == IF store.listed = None THEN {}
                   ELSE {i \in DOMAIN Categories : known(i) # {}}
    IN  IF listing = {} THEN {None}
        ELSE known(CHOOSE i \in listing : \A j \in listing : j <= i)

\* Mutant: an address without a view stays.
RedirectsToBoards ==
    IF url.board = None /\ settings.board # None THEN {[url EXCEPT !.board = settings.board]}
    ELSE {url}

\* TeamToBoardAndViewRedirect: an address without a board goes to the last
\* board, or to one of the sidebar; one without a view goes to the last view of
\* the board, or to one of its views, once they are loaded.
Redirects ==
    IF url.board = None
    THEN {IF b = None THEN url ELSE [url EXCEPT !.board = b] :
            b \in IF settings.board # None THEN {settings.board} ELSE FirstBoards}
    ELSE IF url.view = None /\ store.current = url.board /\ CurrentViews # {}
    THEN {[url EXCEPT !.view = v] :
            v \in IF settings.view[url.board] # None THEN {settings.view[url.board]}
                  ELSE CurrentViews}
    ELSE {url}

\* React renders the page for a new state and runs the effects of its parts in
\* their order: the redirect remembers the view it goes to; the page loads the
\* boards (or the shared board) again, and makes the board and the view of the
\* rendered address the current ones, also when there is no view; a board that
\* is opened has its blocks asked for; the sidebar gets the categories (at once)
\* when it appears and the team is known.
Render ==
    /\ seen # Rendering
    /\ returning # None => seen = None
    /\ seen' = Rendering
    /\ LET redirect == Changed({"board", "view", "views", "listed", "current", "dialog"})
                       /\ dialog = None
           load == Changed({"board", "view", "me", "page"})
           open == Changed({"board", "me", "page"})
                   /\ url.page = "board" /\ url.board # None /\ store.me
           appears == seen = None /\ Rendering # None /\ url.page = "board"
       IN  \E to \in IF redirect THEN Redirects ELSE {url} :
            LET went == redirect /\ to.view # url.view
                remembered == IF went THEN LastViewSet(settings, to.board, to.view)
                              ELSE settings
            IN  /\ url' = to
                /\ settings' = IF load /\ url.board # None /\ url.view # None
                               THEN LastViewSet(remembered, url.board, url.view)
                               ELSE remembered
                /\ store' =
                     [store EXCEPT
                        !.current = IF load /\ url.board # None THEN url.board ELSE @,
                        !.view = IF load /\ url.board # None THEN url.view
                                 ELSE IF went THEN to.view ELSE @,
                        !.loading = @ \/ open,
                        !.listed = IF appears /\ store.team THEN GetSidebarCategories ELSE @]
                /\ requests' = requests
                     \cup (IF load THEN {IF url.page = "shared" THEN Ask("shared", url.board)
                                         ELSE Ask("initial", None)} ELSE {})
                     \cup (IF open THEN {Ask("blocks", url.board)} ELSE {})
    /\ dialog' = IF Rendering = None THEN None ELSE dialog
    /\ UNCHANGED <<previous, server, returning, acts, stale>>

Rendered == seen = Rendering

-----------------------------------------------------------------------------
(* The other pages.                                                        *)

\* The guard of a route sends a user who is not logged in to the error page,
\* with the address to come back to.
RouteGuard ==
    /\ Rendered /\ Guarded
    /\ url' = ErrorPage("not-logged-in", url)
    /\ UNCHANGED <<previous, store, settings, server, requests, seen, returning,
                   dialog, acts, stale>>

\* Mutant: the error is not cleared.
GlobalErrorRedirectKeepsError ==
    /\ store.error # None
    /\ url' = ErrorPage(store.error, Home)
    /\ UNCHANGED <<previous, store, settings, server, requests, seen, returning, dialog,
                   acts, stale>>

\* An error of a load replaces the page by the error page and is cleared.
GlobalErrorRedirect ==
    /\ store.error # None
    /\ url' = ErrorPage(store.error, Home)
    /\ store' = [store EXCEPT !.error = None]
    /\ UNCHANGED <<previous, settings, server, requests, seen, returning, dialog,
                   acts, stale>>

\* Where the button of the error page leads.
ErrorTarget(u) == IF u.id = "not-logged-in" THEN LoginPage(u) ELSE Home

\* For a user not logged in the error page presses its button itself.
ErrorToLogin ==
    /\ Rendered /\ url.page = "error" /\ url.id = "not-logged-in"
    /\ previous' = url
    /\ url' = ErrorTarget(url)
    /\ UNCHANGED <<store, settings, server, requests, seen, returning, dialog,
                   acts, stale>>

\* The pages to log in and to register send a logged in user home.
LoggedInGoesHome ==
    /\ Rendered /\ url.page \in {"login", "register"} /\ store.loggedIn = "yes"
    /\ url' = Home
    /\ UNCHANGED <<previous, store, settings, server, requests, seen, returning,
                   dialog, acts, stale>>

\* A handler that waited for requests pushes its address.  When a page was
\* rendered meanwhile whose effects run only then, they have the last word.
Return ==
    /\ returning # None
    /\ url.page \in {"login", "register"} => store.loggedIn = "no"
    /\ \/ url' = returning /\ previous' = url
       \/ url.page = "board" /\ Rendered /\ UNCHANGED <<url, previous>>
    /\ returning' = None
    /\ UNCHANGED <<store, settings, server, requests, seen, dialog, acts, stale>>

-----------------------------------------------------------------------------
(* Answers that arrive.                                                    *)

\* No page has something to do by itself.
Calm == /\ Rendered /\ store.error = None /\ ~Guarded
        /\ ~(url.page = "error" /\ url.id = "not-logged-in")
        /\ ~(url.page \in {"login", "register"} /\ store.loggedIn = "yes")

\* The answers the store keeps tell the state of the server at a moment between
\* the request and their arrival; the others are handled and arrive in one step.
Kept == {"blocks", "joined", "shared"}

Serve(r) ==
    /\ Calm /\ returning = None /\ r.kind \in Kept /\ r.answer = None
    /\ requests' = (requests \ {r}) \cup {[r EXCEPT !.answer = Answer(r)]}
    /\ UNCHANGED <<url, previous, store, settings, server, seen, returning, dialog,
                   acts, stale>>

\* What the store keeps of an answer is stale when the answer is no longer true
\* or another board is open by now.
Stale(r) == r.answer # Answer(r) \/ r.board # url.board

Arriving(r) == /\ Calm /\ returning = None
               /\ r.kind \in Kept => r.answer # None
               /\ UNCHANGED <<previous, seen, acts>>

\* fetchMe: only this request decides whether the user is logged in.
MeFetched(r) ==
    /\ r.kind = "me" /\ Arriving(r)
    /\ store' = [store EXCEPT !.me = GetMe,
                             !.loggedIn = IF GetMe THEN "yes" ELSE "no"]
    /\ requests' = requests \ {r}
    /\ UNCHANGED <<url, settings, server, returning, dialog, stale>>

\* The calls that begin and end a session.
Login(s) == [s EXCEPT !.session = TRUE]
Logout(s) == [s EXCEPT !.session = FALSE]

\* Logged in: the user is fetched, which ends the page; its handler then pushes
\* the address to return to.
LoginDone(r) ==
    /\ r.kind = "login" /\ Arriving(r)
    /\ requests' = requests \ {r}
    /\ server' = Login(server)
    /\ store' = [store EXCEPT !.me = TRUE, !.loggedIn = "yes"]
    /\ returning' = IF url.page = "login" THEN Address(url.board, url.view) ELSE Home
    /\ UNCHANGED <<url, settings, dialog, stale>>

\* Logged out: the user is forgotten and the login page pushed.
LogoutDone(r) ==
    /\ r.kind = "logout" /\ Arriving(r)
    /\ requests' = requests \ {r}
    /\ server' = Logout(server)
    /\ store' = [store EXCEPT !.me = FALSE, !.loggedIn = "no"]
    /\ returning' = LoginPage(Home)
    /\ UNCHANGED <<url, settings, dialog, stale>>

\* The initial load: the boards replace those of the store.  Without a user the
\* load is rejected with an error; whether the user is logged in stays.
InitialLoaded(r) ==
    /\ r.kind = "initial" /\ Arriving(r)
    /\ store' = IF GetMe
                THEN [store EXCEPT !.boards = GetBoards,
                                   !.team = GetTeam,
                                   !.listed = IF ~store.team /\ url.page = "board"
                                              THEN GetSidebarCategories ELSE @]
                ELSE [store EXCEPT !.error = "not-logged-in"]
    /\ requests' = requests \ {r}
    /\ UNCHANGED <<url, settings, server, returning, dialog, stale>>

\* A shared board: it and its views replace what the store held.
SharedLoaded(r) ==
    /\ r.kind = "shared" /\ Arriving(r)
    /\ requests' = requests \ {r}
    /\ store' = IF r.answer.ok
                THEN [store EXCEPT !.boards = {r.board}, !.views = r.answer.views]
                ELSE [store EXCEPT !.error = "invalid-read-only-board"]
    /\ stale' = Stale(r)
    /\ UNCHANGED <<url, server, settings, returning, dialog>>

\* The blocks of a board replace those of the store, whichever board is open.
\* With no block the user is taken for no member and joins.
BlocksLoaded(r) ==
    /\ r.kind = "blocks" /\ Arriving(r)
    /\ store' = [store EXCEPT !.views = r.answer.views, !.loading = FALSE]
    /\ requests' = (requests \ {r})
            \cup IF r.answer.views = {} THEN {Ask("join", r.board)} ELSE {}
    /\ settings' = IF r.answer.views = {} THEN settings ELSE LastBoardSet(settings, r.board)
    /\ stale' = Stale(r)
    /\ UNCHANGED <<url, server, returning, dialog>>

\* Joined: the client hears of its new board, and asks for the blocks again.
\* Refused: an administrator is asked whether to join a private board; for others
\* the board is forgotten and the page becomes an error, whichever board is open
\* by now.
JoinAnswered(r) ==
    /\ r.kind \in {"join", "adminjoin"} /\ Arriving(r)
    /\ IF JoinBoard(r.board, r.kind = "adminjoin")
       THEN /\ server' = [server EXCEPT !.mine = @ \cup {r.board}]
            /\ store' = [store EXCEPT !.loading = TRUE, !.boards = @ \cup {r.board}]
            /\ requests' = (requests \ {r}) \cup {Ask("joined", r.board)}
            /\ UNCHANGED <<settings, dialog>>
       ELSE /\ requests' = requests \ {r}
            /\ UNCHANGED server
            /\ \/ /\ server.admin
                  /\ dialog' = IF OnBoardPage THEN "join" ELSE dialog
                  /\ UNCHANGED <<store, settings>>
               \/ /\ ~server.admin
                  /\ settings' = LastViewSet(LastBoardSet(settings, None), r.board, None)
                  /\ store' = [store EXCEPT !.error = "board-not-found"]
                  /\ UNCHANGED dialog
    /\ UNCHANGED <<url, returning, stale>>

\* The blocks of a board just joined.
JoinedLoaded(r) ==
    /\ r.kind = "joined" /\ Arriving(r)
    /\ store' = [store EXCEPT !.views = r.answer.views, !.loading = FALSE]
    /\ settings' = IF r.answer.views = {} THEN settings ELSE LastBoardSet(settings, r.board)
    /\ requests' = requests \ {r}
    /\ stale' = Stale(r)
    /\ UNCHANGED <<url, server, returning, dialog>>
-----------------------------------------------------------------------------
(* What the users do.                                                      *)

Act == /\ Calm /\ returning = None /\ acts < MaxActs
       /\ acts' = acts + 1

Push(u) == previous' = url /\ url' = u

\* A board, one of its views or the home address is opened within the page.
Open(u) ==
    /\ Act /\ url.page = "board" /\ dialog = None /\ u # url
    /\ Push(u)
    /\ UNCHANGED <<store, settings, server, requests, seen, returning, dialog,
                   stale>>

\* The button back of the browser, or of the question to join a private board.
Back ==
    /\ Act /\ previous # url
    /\ url' = previous
    /\ dialog' = None
    /\ UNCHANGED <<previous, store, settings, server, requests, seen, returning,
                   stale>>

FreshStore == [me |-> FALSE, loggedIn |-> "unknown", boards |-> {}, views |-> {},
               current |-> None, view |-> None, listed |-> None, team |-> FALSE,
               loading |-> FALSE, error |-> None]

\* The application starts anew at an address with what the browser kept, and
\* fetches the user.
Enter(u) ==
    /\ url' = u /\ previous' = u
    /\ store' = FreshStore
    /\ requests' = {Ask("me", None)}
    /\ seen' = None /\ returning' = None /\ dialog' = None
    /\ stale' = FALSE
    /\ UNCHANGED <<settings, server>>

Reload == Act /\ Enter(url)

\* The button of the error page: some errors start the application anew.
PressErrorButton ==
    /\ Act /\ url.page = "error"
    /\ IF url.id = "invalid-read-only-board" THEN Enter(Home)
       ELSE /\ Push(ErrorTarget(url))
            /\ UNCHANGED <<store, settings, server, requests, seen, returning,
                           dialog, stale>>

\* The admin confirms to join the private board of the address.
ConfirmJoin ==
    /\ Act /\ dialog = "join"
    /\ dialog' = None
    /\ requests' = requests \cup {Ask("adminjoin", url.board)}
    /\ UNCHANGED <<url, previous, store, settings, server, seen, returning, stale>>

\* The user logs in, or registers and is logged in.
LogIn ==
    /\ Act /\ url.page \in {"login", "register"}
    /\ requests' = requests \cup {Ask("login", None)}
    /\ UNCHANGED <<url, previous, store, settings, server, seen, returning,
                   dialog, stale>>

GoToRegister ==
    /\ Act /\ url.page = "login"
    /\ Push([Home EXCEPT !.page = "register"])
    /\ UNCHANGED <<store, settings, server, requests, seen, returning, dialog,
                   stale>>

LogOut ==
    /\ Act /\ url.page = "board" /\ dialog = None
    /\ requests' = requests \cup {Ask("logout", None)}
    /\ UNCHANGED <<url, previous, store, settings, server, seen, returning,
                   dialog, stale>>

\* The session ends at the server.
SessionExpires ==
    /\ Act /\ server.session
    /\ server' = [server EXCEPT !.session = FALSE]
    /\ UNCHANGED <<url, previous, store, settings, requests, seen, returning,
                   dialog, stale>>

\* Other users change the server; the board page hears of it.
Others(change, heard) ==
    /\ Act
    /\ server' = change
    /\ store' = IF url.page = "board" /\ server.session THEN heard ELSE store
    /\ UNCHANGED <<url, previous, settings, requests, seen, returning, dialog>>

DeleteView(v) ==
    /\ v \in server.views /\ UNCHANGED stale
    /\ Others([server EXCEPT !.views = @ \ {v}],
              [store EXCEPT !.views = IF MayRead(BoardOf[v]) THEN @ \ {v} ELSE @])

DeleteBoard(b) ==
    /\ b \in server.boards /\ UNCHANGED stale
    /\ Others([server EXCEPT !.boards = @ \ {b}], [store EXCEPT !.boards = @ \ {b}])

\* The user is removed from a board: the client drops the board.
RemoveMember(b) ==
    /\ b \in server.mine /\ UNCHANGED stale
    /\ Others([server EXCEPT !.mine = @ \ {b}], [store EXCEPT !.boards = @ \ {b}])

\* The user is added to a board: the client gets the board, not its blocks.
AddMember(b) ==
    /\ b \in server.boards \ server.mine
    /\ stale' = (stale \/ b = store.current)
    /\ Others([server EXCEPT !.mine = @ \cup {b}], [store EXCEPT !.boards = @ \cup {b}])

Unshare(b) ==
    /\ b \in server.published /\ UNCHANGED stale
    /\ Others([server EXCEPT !.published = @ \ {b}], store)

-----------------------------------------------------------------------------
(* The specification.                                                      *)

NavInit ==
    /\ url \in {Home} \cup {Address(b, None) : b \in Boards}
              \cup {Address(BoardOf[v], v) : v \in Views}
              \cup {[Address(b, None) EXCEPT !.page = "shared"] : b \in Boards}
    /\ previous = url
    /\ store = FreshStore
    /\ settings \in [board : BoardOrNone, view : {[b \in Boards |-> None]}]
    /\ server \in [session : BOOLEAN, boards : {Boards}, mine : SUBSET Boards,
                   open : SUBSET Boards, views : {Views}, published : SUBSET Boards,
                   admin : Admins]
    /\ requests = {Ask("me", None)}
    /\ seen = None /\ returning = None /\ dialog = None
    /\ acts = 0 /\ stale = FALSE

Page == Render \/ RouteGuard
        \/ GlobalErrorRedirect \/ ErrorToLogin \/ LoggedInGoesHome \/ Return

Answered(r) == MeFetched(r) \/ LoginDone(r) \/ LogoutDone(r) \/ InitialLoaded(r)
               \/ SharedLoaded(r) \/ BlocksLoaded(r)
               \/ JoinAnswered(r) \/ JoinedLoaded(r)

System == Page \/ \E r \in requests : Serve(r) \/ Answered(r)

Addresses == {Home} \cup {Address(b, None) : b \in Boards}
             \cup {Address(BoardOf[v], v) : v \in Views}

Users == \/ \E u \in Addresses : Open(u)
         \/ Reload \/ Back \/ PressErrorButton \/ ConfirmJoin \/ LogIn \/ GoToRegister \/ LogOut
         \/ SessionExpires
         \/ \E v \in Views : DeleteView(v)
         \/ \E b \in Boards : DeleteBoard(b) \/ RemoveMember(b) \/ AddMember(b) \/ Unshare(b)

NavNext == System \/ Users

NavSpec == NavInit /\ [][NavNext]_navVars /\ WF_navVars(System)

-----------------------------------------------------------------------------
(* Properties.                                                             *)

\* Type correctness.
Stores == [me : BOOLEAN, loggedIn : {"yes", "no", "unknown"}, boards : SUBSET Boards,
           views : SUBSET Views, current : BoardOrNone, view : ViewOrNone,
           listed : (SUBSET Boards) \cup {None}, team : BOOLEAN,
           loading : BOOLEAN, error : ErrorIds \cup {None}]
Servers == [session : BOOLEAN, boards : SUBSET Boards, mine : SUBSET Boards, open : SUBSET Boards,
            views : SUBSET Views, published : SUBSET Boards, admin : BOOLEAN]
Requests ==
    [kind : {"me", "login", "logout", "initial"}, board : {None}, answer : {None}]
    \cup [kind : {"join", "adminjoin"}, board : BoardOrNone, answer : {None}]
    \cup [kind : Kept, board : Boards, answer : [ok : BOOLEAN, views : SUBSET Views] \cup {None}]
NavTypeOK ==
    /\ url \in Urls /\ previous \in Urls /\ store \in Stores /\ server \in Servers
    /\ settings \in [board : BoardOrNone, view : [Boards -> ViewOrNone]]
    /\ requests \subseteq Requests /\ seen \in Renderings \cup {None}
    /\ returning \in Urls \cup {None} /\ dialog \in {None, "join"}
    /\ acts \in 0 .. MaxActs /\ stale \in BOOLEAN

\* What the middle of the board page shows.
Shown == IF store.current \in store.boards
         THEN IF store.view \in store.views THEN "view" ELSE "nothing"
         ELSE IF store.loading THEN "nothing" ELSE "templates"

AtRest == Calm /\ returning = None /\ requests = {}

\* The session ended while the client takes the user for logged in.
Expired == ~server.session /\ store.loggedIn = "yes"

\* A board that could not be opened is forgotten: the way home from the error page
\* does not lead to the same error.  Excused: blocks of another board that came since,
\* and an error page reached again by reloading or going back.
LostBoardIsForgotten ==
    AtRest /\ url.page = "error" /\ url.id = "board-not-found" /\ ~stale /\ previous # url =>
        settings.board = None

\* When nothing is left to do, the page is the one of the address.  A user known
\* not to be logged in is not on a board page; the board of the address is the
\* current one; a member of it sees the view of the address, some view when the
\* address named none, unless that view or all of them were deleted or what was
\* loaded is stale; who may not even join is shown no view, and a board that is lost
\* is forgotten.
AddressIsShown ==
    /\ NavTypeOK
    /\ LostBoardIsForgotten
    /\ AtRest /\ url.page = "board" =>
        /\ store.loggedIn = "yes"
        /\ url.board # None => store.current = url.board
        /\ url.board # None /\ dialog = None /\ ~stale /\ server.session =>
            IF MayRead(url.board)
            THEN /\ url.view \in server.views \cap ViewsOf(url.board) =>
                        Shown = "view" /\ store.view = url.view
                 /\ url.view = None => ViewsOf(url.board) \cap server.views = {}
            ELSE Shown # "view" \/ url.board \in server.open

\* Every load, redirect and join comes to an end, but for the user whose session
\* expired: errors, login and home redirect to each other until a reload.
Settles == <>[]AtRest \/ <>[]Expired
=============================================================================
