-------------------------------- MODULE Tour --------------------------------
(***************************************************************************)
(* The onboarding tour over the page of a board: tips are shown one after  *)
(* the other where the user is, and each move of the tour is a patch of    *)
(* the user's configuration, sent by a tip or by an effect of a component. *)
(*                                                                         *)
(* The position of the tour is a category and a step.  The answer of a     *)
(* patch is the whole configuration, which replaces the client's.  Patches *)
(* may be handled, and their answers arrive, in any order.                 *)
(*                                                                         *)
(* Board 1 is the welcome board and card 1, which has contents, its        *)
(* onboarding card.  While the tour is on the user only looks around in    *)
(* the page; at the position `off' the page has everything of CardPage.    *)
(***************************************************************************)
EXTENDS CardPage

CONSTANTS TourStarts, \* the positions at which the application is opened
          TourActs    \* what the user does during the tour is bounded by this

VARIABLES config,  \* the position, as the client has it
          saved,   \* and as the server has it
          patches, \* requests under way
          answers, \* and their answers
          shown,   \* the tip is shown, and not only its dot
          delay,   \* the timer before the first tip of the board
          slips    \* what the properties excuse

tour == <<config, saved, patches, answers, shown, delay, slips>>
tourVars == <<pageVars, tour>>

FINISHED == 999
TOUR_ORDER == <<"onboarding", "card", "board", "sidebar">>
At(category, step) == [category |-> category, step |-> step]
Off == At("off", 0)
LastStep == [onboarding |-> 0, card |-> 2, board |-> 2, sidebar |-> 2]
Index(category) == SelectInSeq(TOUR_ORDER, LAMBDA c : c = category)

WelcomeBoard == 1
OnboardingCard == 1
\* The positions there are: every category has its steps and an end, but for the
\* first, which ends where the next begins.
Steps == 0 .. 2 \cup {FINISHED}
Positions == {At("onboarding", 0)} \cup {At(c, s) : c \in {"card", "board", "sidebar"}, s \in Steps}
ASSUME TourAssumption == TourStarts \subseteq Positions /\ WelcomeBoard \in Boards
-----------------------------------------------------------------------------
(* What the components see, and the tip that is mounted for it.            *)

Seen == [at |-> config, board |-> page.board, page |-> HasView, dialog |-> Dialog, card |-> CurrentCard]
OnWelcomePage(l) == l.page /\ l.board = WelcomeBoard

\* showTourBaseCondition
BoardTourBegins(l) == OnWelcomePage(l) /\ l.card = NoCard /\ l.at = At("board", 0)
\* shouldViewSidebarTour
SidebarTourViewed(l) == l.card = NoCard /\ l.at \in {At("sidebar", 0), At("board", FINISHED)}

\* TourTipRenderer, where each tip is mounted; the steps `open a card' and `copy
\* link' have none.
Tip(l, timer) ==
    \/ /\ l.at \in {At("card", 0), At("card", 1), At("card", 2)}
       /\ l.dialog /\ l.board = WelcomeBoard /\ l.card = OnboardingCard
    \/ BoardTourBegins(l) /\ timer = "done"
    \/ OnWelcomePage(l) /\ l.at = At("board", 2)
    \/ l.card = NoCard /\ l.at \in {At("sidebar", 0), At("sidebar", 1), At("sidebar", 2)}

Same == "same"     \* the patch leaves the category alone
Patched(c, p) == At(IF p.category = Same THEN c.category ELSE p.category, p.step)

\* AddPropertiesTourStep: a dialog is opened, or its card changes.
StartsCardTour(l, m) ==
    /\ m.dialog /\ (~l.dialog \/ l.card # m.card)
    /\ m.card = OnboardingCard /\ m.board = WelcomeBoard /\ m.at = At("onboarding", 0)
\* shouldStartBoardsTour, whenever the center panel is rendered.
StartsBoardTour(m) == OnWelcomePage(m) /\ m.card = NoCard /\ m.at = At("card", FINISHED)
\* Mutant: the effect of the sidebar's first tip never runs.
NeverStartsSidebarTour(l, m) == FALSE
\* SidebarCategoriesTourStep, only when it is mounted.
StartsSidebarTour(l, m) == ~SidebarTourViewed(l) /\ SidebarTourViewed(m) /\ m.at = At("board", FINISHED)

Sent(condition, category) == IF condition THEN <<At(category, 0)>> ELSE <<>>
Effects(l, m) == Sent(StartsCardTour(l, m), "card") \o Sent(l # m /\ StartsBoardTour(m), "board")
                    \o Sent(StartsSidebarTour(l, m), "sidebar")

\* The timer of the header, until another board or a blank page takes it away.
Delay(l, m) ==
    LET kept == IF l.page /\ m.page /\ l.board = m.board THEN delay ELSE "none"
    IN IF kept = "none" /\ BoardTourBegins(m) THEN "running" ELSE kept

Sends(new, slip) ==
    /\ patches' = patches \o new
    /\ slips' = slips \cup slip \cup Mishap("mixed", Len(new) > 1 \/ (new # <<>> /\ (patches # <<>> \/ answers' # <<>>)))
\* React: a tip that is mounted is shown, and one that stays if `show' says so.
\* A patch that is sent while another is not answered is noted.
React(sent, show, slip) ==
    \E l \in {Seen}, m \in {Seen'} :
        /\ delay' = Delay(l, m)
        /\ shown' = (Tip(m, delay') /\ (Tip(l, delay) /\ l.at = m.at => show))
        /\ Sends(sent \o Effects(l, m), slip)
-----------------------------------------------------------------------------
(* Requests and answers.                                                   *)

\* handleUpdateUserConfig
UpdateUserConfig(i) ==
    /\ saved' = Patched(saved, patches[i])
    /\ patches' = RemoveAt(patches, i) /\ answers' = Append(answers, saved')
    /\ UNCHANGED <<pageVars, config, shown, delay, slips>>

\* patchUserConfig: a refused patch changes nothing and is not repeated.
PatchFails(i) ==
    /\ "failed" \notin slips
    /\ patches' = RemoveAt(patches, i) /\ slips' = slips \cup {"failed"}
    /\ UNCHANGED <<pageVars, config, saved, answers, shown, delay>>

\* patchProps
PatchProps(c) == c

PatchAnswered(k) ==
    /\ config' = PatchProps(answers[k]) /\ answers' = RemoveAt(answers, k)
    /\ UNCHANGED <<pageVars, saved>>
    /\ React(<<>>, shown, {})

DelayPasses ==
    /\ delay = "running" /\ delay' = "done"
    /\ shown' = (shown \/ BoardTourBegins(Seen))
    /\ UNCHANGED <<pageVars, config, saved, patches, answers, slips>>
-----------------------------------------------------------------------------
(* What the user does with a tip.                                          *)

Touched == Act /\ UNCHANGED <<address, store, server, scripts, news, added, mishaps, config, saved, answers>>
\* The box of the tip, with its buttons and dots.
Shown == shown /\ Tip(Seen, delay)
\* The overlay that tips have outside of cards and of the share button.
Covered == Shown /\ (config.category = "sidebar" \/ config = At("board", 0))

\* handleSavePreferences: the tip is hidden until the answer comes.
SavePreferences(step) ==
    /\ Touched
    /\ React(<<At(Same, step)>>, FALSE, Mishap("back", step < config.step))

HandleNext ==
    Shown /\ SavePreferences(IF config.step = LastStep[config.category] THEN FINISHED ELSE config.step + 1)
HandlePrevious == Shown /\ config.step # 0 /\ SavePreferences(config.step - 1)
Dot(i) == Shown /\ i \in 0 .. LastStep[config.category] /\ SavePreferences(i)

\* Mutant: the tour of the category starts anew.
NextTourIsThisOne == At(config.category, 0)
\* handleSendToNextTour
NextTour ==
    IF Index(config.category) = Len(TOUR_ORDER) THEN At(config.category, FINISHED)
    ELSE At(TOUR_ORDER[Index(config.category) + 1], 0)
\* The close button hides the tip, and a click on what the backdrop leaves free
\* does not.
HandleDismiss == Shown /\ Touched /\ React(<<NextTour>>, FALSE, {})
BackdropClicked == Covered /\ Touched /\ React(<<NextTour>>, TRUE, {})
\* A click on the overlay, and on the dot.
HandleHide == Covered /\ Touched /\ React(<<>>, FALSE, {})
HandleOpen == Tip(Seen, delay) /\ ~shown /\ ~Covered /\ Touched /\ React(<<>>, TRUE, {})

\* handleUseTemplate and resetTour: the template's board is a welcome board.
UseWelcomeTemplate ==
    /\ ~Dialog /\ ~Covered /\ page.board # WelcomeBoard
    /\ GoTo([board |-> WelcomeBoard, view |-> FirstView(WelcomeBoard), card |-> NoCard], stored, orders, {})
    /\ Act /\ UNCHANGED <<current, selected, asked, defaults, server, scripts, news, added>>
    /\ UNCHANGED <<config, saved, answers>>
    /\ React(<<At("onboarding", 0)>>, shown, {"back"})

\* The center panel and an open dialog are rendered again, for a card that changed.
RendersAgain ==
    /\ others < MaxOthers /\ others' = others + 1
    /\ LET l == Seen
           sent == Sent(StartsBoardTour(l), "board") \o Sent(StartsCardTour([l EXCEPT !.dialog = FALSE], l), "card")
       IN sent # <<>> /\ UNCHANGED answers /\ Sends(sent, {})
    /\ UNCHANGED <<address, store, server, scripts, news, added, mishaps, acts, config, saved, shown, delay>>

\* The browser loads the page again, with the answers lost; a card is not open.
Reload ==
    /\ ~Dialog /\ HasView /\ Act
    /\ config' = saved /\ answers' = <<>> /\ current' = NoCard /\ selected' = <<>>
    /\ UNCHANGED <<page, asked, store, server, scripts, news, added, mishaps, saved>>
    /\ LET m == [Seen EXCEPT !.at = saved, !.card = NoCard]
           l == [m EXCEPT !.page = FALSE, !.at = Off]
       IN /\ delay' = Delay(l, m)
          /\ shown' = Tip(m, delay')
          /\ Sends(Effects(l, m), {})

LooksAround ==
    /\ (~Covered /\ Visits) \/ \E b \in Boards : SwitchBoard(b)
    /\ UNCHANGED <<config, saved, answers>> /\ React(<<>>, shown, {})

\* What the load of the page mounts.
TourInit ==
    /\ Opened /\ config \in TourStarts \cup {Off} /\ saved = config
    /\ acts = IF config = Off THEN MaxActs ELSE TourActs
    /\ answers = <<>> /\ slips = {}
    /\ LET l == [Seen EXCEPT !.page = FALSE, !.at = Off]
       IN /\ patches = Effects(l, Seen)
          /\ delay = IF BoardTourBegins(Seen) THEN "running" ELSE "none"
          /\ shown = Tip(Seen, delay)

TourNext ==
    \/ config = Off /\ Next /\ UNCHANGED tour
    \/ /\ config # Off
       /\ \/ LooksAround \/ Reload \/ UseWelcomeTemplate \/ RendersAgain \/ DelayPasses
          \/ HandleNext \/ HandlePrevious \/ HandleDismiss \/ BackdropClicked \/ HandleHide \/ HandleOpen
          \/ \E i \in 0 .. 2 : Dot(i)
          \/ \E i \in DOMAIN patches : UpdateUserConfig(i) \/ PatchFails(i)
          \/ \E k \in DOMAIN answers : PatchAnswered(k)
TourSpec == TourInit /\ [][TourNext]_tourVars
-----------------------------------------------------------------------------
(* Properties.                                                             *)

Settled == patches = <<>> /\ answers = <<>> /\ delay # "running"

\* At rest the client has the configuration of the server, and the tour can go on:
\* the position is one that has a tip or an end, except `copy link', whose tip is
\* mounted nowhere, and where its tip belongs it is mounted.  Excused are a refused
\* patch, one that was sent while another one was not answered, and a card left
\* without closing it, which stays the current one.
\* (tutorial_tour_tip_manager.tsx, and the three effects that move the tour)
TourGoesOn ==
    Settled /\ config # Off /\ slips \cap {"failed", "mixed"} = {} =>
        /\ config = saved
        /\ config.category = "onboarding" => config.step = 0
        /\ config.step # FINISHED => config.step <= LastStep[config.category]
        /\ ~Dialog /\ NoneOf({"left"}) =>
              /\ config \in {At("card", FINISHED), At("board", 0), At("board", 2)} => ~OnWelcomePage(Seen) \/ Tip(Seen, delay)
              /\ config \in {At("board", FINISHED), At("sidebar", 0), At("sidebar", 1), At("sidebar", 2)} => Tip(Seen, delay)

\* The tour only goes back when the user asks for it, unless a patch was sent while
\* another one was not answered: each answer replaces the whole configuration, and
\* the effects of centerPanel.tsx and add_properties.tsx repeat their patches.
Position(c) == Index(c.category) * 1000 + c.step
TourMovesOn ==
    [][config' # config => \/ Position(config') > Position(config)
                           \/ slips' \cap {"back", "mixed"} # {}]_tourVars
=============================================================================
