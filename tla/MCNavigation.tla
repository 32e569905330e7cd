---------------------------- MODULE MCNavigation ----------------------------
EXTENDS Navigation, Settings, Chatbot, TLC
CONSTANTS b1, b2, v1, v2, v3, u1, u2, n1, n2, n3, n4
VARIABLE part \* what a behaviour is about: pages, settings, or the assistant
MCBoards == {b1, b2}
MCViews == {v1, v2, v3}
MCBoardOf == v1 :> b1 @@ v2 :> b1 @@ v3 :> b2
MCRoomOf == n1 :> b1 @@ n2 :> b1 @@ n3 :> b1 @@ n4 :> b2
MCCategories == <<{b1}, {b2}>>

\* The user is a member of the second board and the session lasts, unless said
\* otherwise.  The application is opened at home, remembering the first board,
\* which is now closed to the user; at the first board, which is open to join, or
\* closed for an administrator; at a view of the user's own board; at its shared
\* page; at home or at the board after the session ended.
PagesInit ==
    /\ NavInit
    /\ b2 \in server.mine /\ b2 \notin server.open
    /\ server.mine \cap server.open = {}
    /\ LET own == b1 \in server.mine
           open == b1 \in server.open
           plain == settings.board = None /\ ~server.admin /\ server.published = {}
       IN  \/ /\ url = Home /\ settings.board = b1 /\ ~own /\ ~open /\ server.session
              /\ ~server.admin /\ server.published = {}
           \/ url = Address(b1, None) /\ ~own /\ open /\ server.session /\ plain
           \/ /\ url = Address(b1, None) /\ ~own /\ ~open /\ server.session
              /\ server.admin /\ settings.board = None /\ server.published = {}
           \/ url = Address(b1, v1) /\ own /\ server.session /\ plain
           \/ /\ url = [Address(b1, None) EXCEPT !.page = "shared"] /\ server.session
              /\ own /\ server.published = {b1} /\ ~server.admin /\ settings.board = None
           \/ url \in {Home, Address(b1, None)} /\ own /\ ~server.session /\ plain

\* Two more parts of the run, each with the others at rest: the user's settings,
\* and the assistant.  The pages rest at the page for logging in.
PagesAtRest ==
    /\ url = LoginPage(Home) /\ previous = url /\ store = [FreshStore EXCEPT !.loggedIn = "no"]
    /\ settings = [board |-> None, view |-> [b \in Boards |-> None]]
    /\ server = [session |-> FALSE, boards |-> Boards, mine |-> {}, open |-> {},
                 views |-> Views, published |-> {}, admin |-> FALSE]
    /\ requests = {} /\ seen = None /\ returning = None /\ dialog = None
    /\ acts = 0 /\ stale = FALSE

\* The first board has one of its two cards and a template and one person, the
\* second its card and both.
ChatbotInit == ChatInit /\ notes = {n1, n3, n4} /\ joined = (b1 :> {u1} @@ b2 :> {u1, u2})

MCInit ==
    \/ part = "pages" /\ PagesInit /\ SettingsInit /\ ~desktop /\ ChatbotInit
    \/ part = "settings" /\ PagesAtRest /\ SettingsInit /\ ChatbotInit
    \/ part = "assistant" /\ PagesAtRest /\ SettingsInit /\ ~desktop /\ ChatbotInit
MCNext == /\ \/ part = "pages" /\ NavNext /\ UNCHANGED <<settingsVars, chatVars>>
             \/ part = "settings" /\ SettingsNext /\ UNCHANGED <<navVars, chatVars>>
             \/ part = "assistant" /\ ChatNext /\ UNCHANGED <<navVars, settingsVars>>
          /\ UNCHANGED part
MCSpec == MCInit /\ [][MCNext]_<<navVars, settingsVars, chatVars, part>> /\ WF_navVars(part = "pages" /\ System)
=============================================================================
