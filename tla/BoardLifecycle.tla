--------------------------- MODULE BoardLifecycle ---------------------------
(***************************************************************************)
(* Boards and templates as one user's client makes, copies, deletes, opens *)
(* and undoes them: the sidebar's menus, the selector of templates with    *)
(* its preview, the undo manager's commands and the page that follows.     *)
(* Requests and answers take any time; broadcasts are heard at once.  The  *)
(* boards are the user's and private, each with one view; names, channels  *)
(* and the categories (see Sidebar) are left out.                          *)
(***************************************************************************)
EXTENDS Naturals, Sequences, FiniteSets, SequencesExt, FiniteSetsExt

CONSTANTS MaxActs,   \* what the user does, undo and redo included
          MaxMeddled \* boards and views that others delete

ASSUME LifeAssumption == MaxActs \in Nat /\ MaxMeddled \in Nat

NoBoard == 0

VARIABLES lives,     \* server: the boards not deleted
          used,      \* server: ids given away, 1, 2, ..., those of deleted boards included
          templates, \* which of the ids are templates
          viewed,    \* which of them have their view
          known,     \* client: boards and templates in the state store
          page,      \* the board of the address, whether its view is in the store, or
                     \* the page `Board not found'; the board remembered as last
          picking,   \* whether the selector is open over a board
          selector,  \* its active template, the one whose preview was asked for, and shown
          requests,  \* under way
          undos,     \* the undo manager
          acts, meddled, faults

serverBoards == <<lives, used, templates, viewed>>
lifeVars == <<lives, used, templates, viewed, known, page, picking, selector,
              requests, undos, acts, meddled, faults>>

-----------------------------------------------------------------------------
\* A command of the undo manager: the board it made or deletes, the one it copies,
\* whether a template is made, the page undoing it goes to, whether the selector
\* made it, and the page after a deletion.
NoCommand == [kind |-> "none", board |-> NoBoard, source |-> NoBoard, template |-> FALSE,
              back |-> NoBoard, picked |-> FALSE, next |-> NoBoard]

\* createBoardsAndBlocks and deleteBoard.
CreateCommand(template, back) ==
    [NoCommand EXCEPT !.kind = "create", !.template = template, !.back = back,
                      !.picked = ~template]
DeleteCommand(board, next) ==
    [NoCommand EXCEPT !.kind = "delete", !.board = board, !.back = board, !.next = next]
\* duplicateBoard: of the sidebar undoing it opens the source, of the selector
\* (addBoardFromTemplate) the board that was open.
CopyCommand(source, template, back, picked) ==
    [NoCommand EXCEPT !.kind = "copy", !.source = source, !.template = template,
                      !.back = back, !.picked = picked]
\* The patch `linked channel' of a board made by the selector, which changes
\* nothing without a channel and is a command of its own.
LinkCommand(board) == [NoCommand EXCEPT !.kind = "link", !.board = board]

\* A request, by whom it is made, and its answer with the ids it names.
Asking(do, by, board, command) ==
    [do |-> do, by |-> by, board |-> board, command |-> command, at |-> acts,
     answer |-> "none", ids |-> {}]
Loading(do, board) == [Asking(do, "page", board, NoCommand) EXCEPT !.at = 0]
Performing(command) == Asking("command", "perform", NoBoard, command)

-----------------------------------------------------------------------------
(* The page.                                                               *)

\* An address without a board is replaced by the last board's, or a first one's.
HomeBoard ==
    IF page.last # NoBoard THEN page.last
    ELSE IF known \ templates = {} THEN NoBoard ELSE Min(known \ templates)

\* Utils.showBoard, and the effects of the page of a board: boards and blocks are
\* loaded when the board changes, and the selector over it is closed.
showBoard(b, rest) ==
    LET to == IF b = NoBoard THEN HomeBoard ELSE b
    IN  IF to = page.board /\ b # NoBoard /\ ~page.error
        THEN page' = page /\ requests' = rest /\ picking' = picking
        ELSE /\ page' = [page EXCEPT !.board = to, !.error = FALSE, !.loaded = FALSE]
             /\ requests' = rest \cup {Loading("page", to)}
             /\ picking' = FALSE
Stays(more) == page' = page /\ picking' = picking /\ requests' = more

\* CenterContent: the selector takes the place of a board the store does not know.
SelectorShown(p, k, dialog) == ~p.error /\ (dialog \/ p.board \notin k)
NoSelector == [active |-> NoBoard, asked |-> NoBoard, shown |-> NoBoard]
First(set) == IF set = {} THEN NoBoard ELSE Min(set)

\* The selector follows what is rendered: mounted anew it starts with the first
\* template, as when it had none; a template that is deleted stays active.
Rendered ==
    selector' =
        IF ~SelectorShown(page', known', picking') THEN NoSelector
        ELSE IF /\ SelectorShown(page, known, picking) /\ picking' = picking
                /\ selector.active # NoBoard
             THEN selector
             ELSE [NoSelector EXCEPT !.active = First(known' \cap templates')]

-----------------------------------------------------------------------------
(* The server.                                                             *)

\* A broadcast of a board, with its blocks when it is made or its view deleted: the
\* store follows, and a board object that is replaced closes the selector over it.
\* Nobody listens on the page of the error.  A list of boards that was read before
\* and comes after is stale.
heard == ~page.error
Tell(b, alive, blocks) ==
    /\ known' = IF ~heard THEN known ELSE IF alive THEN known \cup {b} ELSE known \ {b}
    /\ page' = [page EXCEPT !.loaded = IF heard /\ blocks /\ b = page.board THEN b \in viewed'
                                       ELSE @]
    /\ picking' = (picking /\ b # page.board)
Silence == UNCHANGED <<known, page, picking>>
Stale(set) == IF \E r \in set : r.do = "page" /\ r.answer # "none" THEN {"stale"} ELSE {}

Born(template, view) ==
    /\ used' = used + 1 /\ lives' = lives \cup {used'}
    /\ templates' = IF template THEN templates \cup {used'} ELSE templates
    /\ viewed' = IF view THEN viewed \cup {used'} ELSE viewed
    /\ Tell(used', TRUE, TRUE)
Dies(b) == lives' = lives \ {b} /\ UNCHANGED <<used, templates, viewed>> /\ Tell(b, FALSE, FALSE)
NoChange == UNCHANGED serverBoards /\ Silence

\* Whether the server does what a command asks for: what is undone by
\* deleteBoardsAndBlocks is refused as a whole if any of it is missing, while the
\* boards and blocks of a copy are deleted one by one.
Granted(c, by) ==
    CASE by # "undo" /\ c.kind = "copy" -> c.source \in lives
      [] by # "undo" /\ c.kind = "delete" -> c.board \in lives
      [] by = "undo" /\ c.kind = "create" -> c.board \in lives \cap viewed
      [] OTHER -> TRUE
Obey(c, by) ==
    CASE by # "undo" /\ c.kind = "create" -> Born(c.template, TRUE)
      [] by # "undo" /\ c.kind = "copy" -> Born(c.template, c.source \in viewed)
      [] by = "undo" /\ c.kind = "delete" ->
            IF c.board \in lives THEN NoChange
            ELSE /\ lives' = lives \cup {c.board} /\ UNCHANGED <<used, templates, viewed>>
                 /\ Tell(c.board, TRUE, FALSE)
      [] c.kind = "link" ->
            /\ UNCHANGED serverBoards
            /\ IF c.board \in lives THEN Tell(c.board, TRUE, FALSE) ELSE Silence
      [] OTHER -> IF c.board \in lives THEN Dies(c.board) ELSE NoChange

\* What a page or a preview loads: the boards there are, and whether the blocks of its
\* own are found.
Found(b) == b \in lives \cap viewed

\* A template comes back while it is active in a selector that is open elsewhere.
Revives(r) == /\ r.by = "undo" /\ r.command.kind = "delete"
              /\ r.command.board = selector.active /\ r.command.board # page.board

Answer(r) ==
    /\ r.answer = "none"
    /\ IF r.do = "command"
       THEN LET granted == Granted(r.command, r.by) IN
            /\ IF granted THEN Obey(r.command, r.by) ELSE NoChange
            /\ requests' = (requests \ {r}) \cup
                  {[r EXCEPT !.answer = IF granted THEN "ok" ELSE "refused",
                             !.ids = lives' \ lives]}
            /\ faults' = faults \cup (IF granted THEN Stale(requests) ELSE {"refused"})
                          \cup (IF Revives(r) THEN {"revived"} ELSE {})
       ELSE NoChange /\ faults' = faults
            /\ requests' = (requests \ {r}) \cup
                  {[r EXCEPT !.answer = IF Found(r.board) THEN "ok" ELSE "refused", !.ids = lives]}
    /\ UNCHANGED <<undos, acts, meddled>>

\* The answer of a command is lost and the promise rejected.  Bound: one such loss,
\* and none together with an act of somebody else.
LoseAnswer(r) ==
    /\ r.do = "command" /\ r.answer # "none" /\ "lost" \notin faults /\ meddled = 0
    /\ faults' = faults \cup {"lost"}
    /\ requests' = requests \ {r}
    /\ UNCHANGED <<serverBoards, known, page, picking, undos, acts, meddled>>

-----------------------------------------------------------------------------
(* What answers lead to.                                                   *)

\* The command is recorded, unless another is being undone or redone.
Recorded(c) ==
    IF undos.busy THEN undos
    ELSE [undos EXCEPT !.commands = Append(SubSeq(@, 1, undos.index), c),
                       !.index = @ + 1]
\* Mutant: what is redone keeps the board it made at first.
RenewedKept(c, made) == c
\* execute: what a command made when redone is what undoing it gets.
Renewed(c, made) == [c EXCEPT !.board = made]

Undone == [undos EXCEPT !.index = @ - 1, !.busy = FALSE]
Redone(made) ==
    [undos EXCEPT !.index = @ + 1, !.busy = FALSE,
                  !.commands[undos.index + 1] =
                      IF @.kind \in {"create", "copy"} THEN Renewed(@, made) ELSE @]
\* Commands recorded later name the board as it was made at first.
NamedLater(old) ==
    \E i \in (undos.index + 2)..Len(undos.commands) :
        LET c == undos.commands[i]
        IN  (c.kind = "delete" /\ c.board = old) \/ (c.kind = "copy" /\ c.source = old)

\* The commands of a page: what was made is opened, unless the sidebar's copy is
\* redone, and after a deletion another board, a while later.
After(r, made, rest) ==
    LET c == r.command
        timer == {[Asking("timer", "page", b, NoCommand) EXCEPT !.answer = "ok"] :
                      b \in {c.next} \ {NoBoard}}
        link == IF r.by = "perform" /\ c.picked THEN {Performing(LinkCommand(made))} ELSE {}
    IN  CASE r.by = "undo" -> Stays(rest)
          [] c.kind \in {"create", "copy"} /\ made = NoBoard -> Stays(rest)
          [] c.kind = "create" -> showBoard(made, rest \cup link)
          [] c.kind = "copy" /\ (r.by = "perform" \/ c.picked) -> showBoard(made, rest \cup link)
          [] c.kind = "delete" -> Stays(rest \cup timer)
          [] OTHER -> Stays(rest)

\* The answer of a command.  Of a copy refused there is no value: it is recorded
\* all the same, and undoing it throws.
ReceiveCommand(r) ==
    LET made == First(r.ids)
        c == r.command
    IN  /\ r.do = "command" /\ r.answer # "none"
        /\ After(r, made, requests \ {r})
        /\ undos' = CASE r.by = "undo" -> Undone
                      [] r.by = "redo" -> Redone(made)
                      [] OTHER -> Recorded(IF c.kind \in {"create", "copy"}
                                           THEN [c EXCEPT !.board = made] ELSE c)
        /\ faults' = faults
              \cup (IF r.by = "perform" /\ undos.busy THEN {"unrecorded"} ELSE {})
              \cup (IF r.by = "redo" /\ c.kind \in {"create", "copy"} /\ NamedLater(c.board)
                    THEN {"renamed"} ELSE {})
              \cup (IF made # NoBoard /\ \E i \in DOMAIN undos.commands :
                                          undos.commands[i].board = made
                    THEN {"crossed"} ELSE {})
        /\ UNCHANGED <<serverBoards, known, acts, meddled>>

\* initialLoad.fulfilled replaces the boards of the store, and a board object that is
\* replaced closes the selector over it.  loadOrJoinBoard: a board whose blocks are
\* found is remembered, another cannot be joined, as boards are private, is
\* forgotten, and the page `Board not found' shown.
ReceivePage(r) ==
    /\ r.do = "page" /\ r.answer # "none"
    /\ known' = r.ids /\ picking' = FALSE
    /\ page' = IF r.board = NoBoard THEN page
               ELSE IF r.answer = "refused" THEN [page EXCEPT !.error = TRUE, !.last = NoBoard]
               ELSE [page EXCEPT !.last = r.board, !.loaded = @ \/ page.board = r.board]
    /\ requests' = requests \ {r}
    /\ faults' = faults \cup Stale(requests \ {r})
    /\ UNCHANGED <<serverBoards, undos, acts, meddled>>

TimerFires(r) ==
    /\ r.do = "timer"
    /\ showBoard(r.board, requests \ {r})
    /\ UNCHANGED <<serverBoards, known, undos, acts, meddled, faults>>

-----------------------------------------------------------------------------
(* The user.                                                               *)

Acts ==
    /\ ~page.error /\ acts < MaxActs /\ acts' = acts + 1
    /\ UNCHANGED <<serverBoards, known, meddled, faults>>
Asks(command) ==
    /\ Acts /\ Stays(requests \cup {Performing(command)}) /\ UNCHANGED undos
Selecting == SelectorShown(page, known, picking)

\* The sidebar's menu of a board and the selector's buttons.
DuplicateBoard ==
    \E b \in known \ templates, asTemplate \in BOOLEAN :
        Asks(CopyCommand(b, asTemplate, b, FALSE))
CreateEmptyBoard == Selecting /\ Asks(CreateCommand(FALSE, page.board))
CreateTemplate == Selecting /\ Asks(CreateCommand(TRUE, page.board))
UseTemplate ==
    /\ Selecting /\ selector.active # NoBoard
    /\ Asks(CopyCommand(selector.active, FALSE, page.board, TRUE))

\* Deletion, once confirmed.  After a board of the sidebar the next one is opened,
\* or the one before the last; none if that is the first.
NextBoard(b) ==
    LET boards == known \ templates
        above == {c \in boards : c > b}
        below == {c \in boards : c < b}
    IN  IF b \notin boards THEN NoBoard
        ELSE IF above # {} THEN Min(above)
        ELSE IF Cardinality(below) <= 1 THEN NoBoard ELSE Max(below)
RemoveBoard ==
    \E b \in (known \ templates) \cup (IF Selecting THEN known \cap templates ELSE {}) :
        Asks(DeleteCommand(b, NextBoard(b)))

OpenBoard ==
    /\ Acts /\ \E b \in known \ {page.board} : showBoard(b, requests)
    /\ UNCHANGED undos
OpenSelector ==
    /\ Acts /\ ~picking /\ page.board \in known /\ picking' = TRUE
    /\ UNCHANGED <<page, requests, undos>>
CloseSelector ==
    /\ picking /\ picking' = FALSE
    /\ UNCHANGED <<serverBoards, known, page, requests, undos, acts, meddled, faults>>
\* From the page `Board not found'.
GoHome ==
    /\ page.error /\ showBoard(NoBoard, requests)
    /\ UNCHANGED <<serverBoards, known, undos, acts, meddled, faults>>

\* A command is undone: first the page goes where it was made, or to the board that
\* comes back.  A copy without a value throws, which ends all undoing.
UndoBoards ==
    /\ ~undos.busy /\ undos.index > 0
    /\ LET c == undos.commands[undos.index]
           ask == IF c.kind = "copy" /\ c.board = NoBoard THEN {}
                  ELSE {Asking("command", "undo", NoBoard, c)}
       IN  IF c.kind = "link" THEN Stays(requests \cup ask) ELSE showBoard(c.back, requests \cup ask)
    /\ undos' = [undos EXCEPT !.busy = TRUE]
    /\ Acts
RedoBoards ==
    /\ ~undos.busy /\ undos.index < Len(undos.commands)
    /\ Stays(requests \cup {Asking("command", "redo", NoBoard, undos.commands[undos.index + 1])})
    /\ undos' = [undos EXCEPT !.busy = TRUE]
    /\ Acts

\* Somebody else deletes a board, or the view of one.
OtherDeletes ==
    /\ meddled < MaxMeddled /\ "lost" \notin faults /\ meddled' = meddled + 1
    /\ \E b \in lives :
          \/ Dies(b)
          \/ /\ b \in viewed /\ viewed' = viewed \ {b} /\ UNCHANGED <<lives, used, templates>>
             /\ Tell(b, TRUE, TRUE)
    /\ faults' = faults \cup Stale(requests)
    /\ UNCHANGED <<requests, undos, acts>>

-----------------------------------------------------------------------------
(* The selector of templates.                                              *)

\* The effect of BoardTemplateSelectorPreview, which runs before anything else once
\* another template is active.
Previews(t) ==
    /\ selector' = [active |-> t, asked |-> t, shown |-> NoBoard]
    /\ requests' = requests \cup {Loading("preview", t)}
    /\ UNCHANGED <<page, picking, undos>>
LoadPreview ==
    /\ selector.asked # selector.active /\ Previews(selector.active)
    /\ UNCHANGED <<serverBoards, known, acts, meddled, faults>>
SelectTemplate ==
    /\ Acts /\ Selecting
    /\ \E t \in (known \cap templates) \ {selector.active} : Previews(t)
\* Mutant: an answer is shown whatever template is active by now.
isSubscribedAlways(t) == selector.active # NoBoard
isSubscribed(t) == selector.active = t
ReceivePreview(r) ==
    /\ r.do = "preview" /\ r.answer # "none"
    /\ selector' = IF isSubscribed(r.board) /\ r.answer = "ok"
                   THEN [selector EXCEPT !.shown = r.board] ELSE selector
    /\ requests' = requests \ {r}
    /\ UNCHANGED <<serverBoards, known, page, picking, undos, acts, meddled, faults>>

-----------------------------------------------------------------------------
\* The user starts with a board or none, two templates, and maybe commands undone: a
\* board that was made, and one made and deleted again.
LifeStart(first, past) ==
    LET made == [CreateCommand(FALSE, IF first THEN 1 ELSE NoBoard) EXCEPT !.board = 3]
        commands == SubSeq(<<made, DeleteCommand(3, NoBoard)>>, 1, past)
    IN  /\ lives = (IF first THEN {1} ELSE {}) \cup {2, 4} /\ used = 4
        /\ templates = {2, 4} /\ viewed = 1..4
        /\ known = lives
        /\ page = [board |-> IF first THEN 1 ELSE NoBoard, error |-> FALSE,
                   loaded |-> first, last |-> IF first THEN 1 ELSE NoBoard]
        /\ picking = FALSE
        /\ selector = IF first THEN NoSelector ELSE [NoSelector EXCEPT !.active = 2]
        /\ requests = {}
        /\ undos = [commands |-> commands, index |-> 0, busy |-> FALSE]
        /\ acts = 0 /\ meddled = 0 /\ faults = {}
LifeInit == \E first \in BOOLEAN, past \in 0..2 : (past > 0 => first) /\ LifeStart(first, past)

LifeStep ==
    \/ DuplicateBoard \/ CreateEmptyBoard \/ CreateTemplate \/ UseTemplate
    \/ RemoveBoard \/ OpenBoard
    \/ OpenSelector \/ CloseSelector \/ GoHome \/ UndoBoards \/ RedoBoards
    \/ OtherDeletes
    \/ \E r \in requests : \/ Answer(r) \/ LoseAnswer(r) \/ TimerFires(r)
                           \/ ReceiveCommand(r) \/ ReceivePage(r)
LifeNext ==
    \/ LoadPreview
    \/ /\ selector.asked = selector.active
       /\ \/ LifeStep /\ Rendered
          \/ SelectTemplate \/ \E r \in requests : ReceivePreview(r)
LifeSpec == LifeInit /\ [][LifeNext]_lifeVars

-----------------------------------------------------------------------------
LifeTypeOK ==
    /\ lives \subseteq 1..used /\ templates \subseteq 1..used /\ viewed \subseteq 1..used
    /\ known \subseteq 1..used /\ page.board \in 0..used
    /\ undos.index \in 0..Len(undos.commands)

Settled == requests = {} /\ selector.asked = selector.active

\* A board the last command in force about it made is there, one it deleted is not,
\* and the first command undone about it is taken back.  Excused: a lost or refused
\* request, another's deletion, what was done while a command was replayed and is
\* not recorded, a deletion answered before the request that made the board, and
\* commands that name a board by the id it had before it was made again.
HistoryExplainsBoards ==
    Settled /\ meddled = 0 /\ faults \cap {"lost", "refused", "unrecorded", "crossed", "renamed"} = {} =>
        \A b \in 1..used :
            LET about == {i \in DOMAIN undos.commands :
                             /\ undos.commands[i].board = b
                             /\ undos.commands[i].kind \in {"create", "copy", "delete"}}
                past == {i \in about : i <= undos.index}
                future == about \ past
            IN  /\ past # {} => (b \in lives <=> undos.commands[Max(past)].kind # "delete")
                /\ past = {} /\ future # {} =>
                       (b \in lives <=> undos.commands[Min(future)].kind = "delete")

\* The store knows the boards there are, and the page shows the board it is at.
\* Excused: a list of boards overtaken by broadcasts or by another list.
OpenBoardIsShown ==
    Settled /\ ~page.error =>
        /\ "stale" \notin faults => known = lives
        /\ page.board \in lives /\ meddled = 0 => page.loaded

\* The selector previews its active template, and has one when there is any.
\* Excused: a template whose blocks were asked for while it was deleted, and which
\* came back.
PreviewIsOfActive ==
    /\ selector.shown \in {NoBoard, selector.active}
    /\ Selecting /\ selector.active = NoBoard => known \cap templates = {}
    /\ Settled /\ meddled = 0 /\ "revived" \notin faults /\ selector.active \in lives \cap viewed =>
           selector.shown = selector.active

\* Boards are as the user's commands and the page say.
BoardsFollowHistory ==
    LifeTypeOK /\ HistoryExplainsBoards /\ OpenBoardIsShown /\ PreviewIsOfActive
=============================================================================
