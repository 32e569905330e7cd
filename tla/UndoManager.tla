----------------------------- MODULE UndoManager -----------------------------
(***************************************************************************)
(* The undo manager of the web client (webapp/src/undomanager.ts) and the  *)
(* Mutator that feeds it (webapp/src/mutator.ts).                          *)
(*                                                                         *)
(* An operation of the Mutator is a command: the requests that do it and   *)
(* the requests that undo it.  perform() sends the first, waits for the    *)
(* answers and then records the command; undo() and redo() replay recorded *)
(* commands, a whole group at a time.  JavaScript runs one handler at a    *)
(* time and other handlers run only while one waits for an answer of the   *)
(* server, so a step of this module is what runs between two answers.      *)
(*                                                                         *)
(* The server keeps a card and a view, as cells, and other blocks, as rows *)
(* with an id the server chooses: the contents of the card and two cards   *)
(* the user has selected.  The client reads the values it needs from its   *)
(* own copy of the cells, which the websocket refreshes some time after a  *)
(* change.                                                                 *)
(***************************************************************************)
EXTENDS Integers, FiniteSets, SequencesExt

CONSTANTS
    Operations,   \* the operations the user may ask for, among AllOperations
    MaxScripts,   \* bound: operations started
    MaxReplays,   \* bound: undos and redos started
    MaxFailures   \* bound: requests that fail

AllOperations == {"rename", "property", "hide", "reorder", "display", "follow",
                  "create", "duplicate", "addContent", "deleteContent",
                  "paste", "shift", "move", "deleteCards"}

ASSUME OperationsAssumption == Operations \subseteq AllOperations
ASSUME BoundsAssumption ==
    {MaxScripts, MaxReplays, MaxFailures} \subseteq Nat

VARIABLES
    cells,         \* server: the fields of the card and of the view
    present,         \* server: the other blocks that are not deleted
    lastId,        \* server: the last id it gave to one of them
    copy,          \* client: its copy of the cells
    commands,      \* UndoManager.commands
    index,         \* UndoManager.index + 1: how many commands are in the past
    isExecuting,   \* UndoManager.isExecuting
    replay,        \* the undo() or redo() that waits for an answer, or NoReplay
    undoGroupId,   \* Mutator.undoGroupId
    scripts,       \* the operations that wait for an answer
    started,       \* bounded: operations started; names scripts and groups
    replays,       \* bounded: undos and redos started
    failures,      \* bounded: requests that failed
    disturbed,     \* history: operations overlapped, one failed, or one began from
                   \* a copy that was out of date
    leftover       \* history: an insert was redone, or a duplicate "undone"

server == <<cells, present, lastId>>
manager == <<commands, index, isExecuting>>
counters == <<started, replays, failures>>
history == <<disturbed, leftover>>
vars == <<server, copy, manager, replay, undoGroupId, scripts, counters, history>>
-----------------------------------------------------------------------------
NoGroup == 0
NewId == -1           \* stands for the id the server gives to an inserted block
OtherNewId == -2      \* the same, of the second block of one insert
NoReplay == [dir |-> "none"]
Contents == <<1, 2>>  \* the contents the card begins with
Selected == {3, 4}    \* the cards the user has selected
Ids == 1 .. lastId    \* the blocks there are or were

CardCells == {"title", "props", "order"}
ViewCells == {"hidden", "cardOrder", "display"}
Cells == CardCells \cup ViewCells \cup {"follow"}
Rows == {CardCells, ViewCells, {"follow"}}

\* The fields createCard and createBoardView build anew: the comparison by
\* reference in createPatchesFromBlocks finds them changed whatever they hold.
ClonedCells == {"props", "order", "hidden", "cardOrder"}

Other(v) == 1 - v     \* the other value of a two-valued field
-----------------------------------------------------------------------------
(* The requests of octoClient, and what the server does with them.  The    *)
(* deletes that Promise.all sends together are one request here.           *)

Patch(f) == [op |-> "patch", cells |-> f]
PatchOne(c, v) == Patch([x \in {c} |-> v])
Insert(n) == [op |-> "insert", count |-> n]
Delete(ids) == [op |-> "delete", blocks |-> ids]
Undelete(id) == [op |-> "undelete", block |-> id]
MoveTo(id, where, dst) == [op |-> "move", block |-> id, where |-> where, dst |-> dst]

\* The ids an insert was answered with take the place of NewId and OtherNewId.
Named(id, made) == IF id > 0 THEN id ELSE made[-id]
NamedCell(c, v, made) == IF c = "order" THEN [k \in DOMAIN v |-> Named(v[k], made)] ELSE v

\* The server moves a block next to another one of the same card; it refuses
\* when one of the two is gone, or not in the order, which has no block twice.
Place(order, id) == CHOOSE k \in DOMAIN order : order[k] = id
Moved(order, there, req) ==
    LET rest == RemoveAt(order, Place(order, req.block))
        at == Place(rest, req.dst)
    IN  IF {req.block, req.dst} \subseteq ToSet(order) \cap there /\ req.block # req.dst
        THEN InsertAt(rest, IF req.where = "after" THEN at + 1 ELSE at, req.block)
        ELSE order

\* What becomes of the cells f and the blocks there.  A patch merges its fields
\* into the row; a row that is gone stays gone and the answer, an error status,
\* is not looked at.
CellsAfter(f, there, req, made) ==
    CASE req.op = "patch" ->
           [c \in Cells |-> IF c \in DOMAIN req.cells
                            THEN NamedCell(c, req.cells[c], made) ELSE f[c]]
      [] req.op = "move" -> [f EXCEPT !["order"] = Moved(@, there, req)]
      [] OTHER -> f

PresentAfter(there, req, made) ==
    CASE req.op = "insert" -> there \cup {made[k] : k \in 1 .. req.count}
      [] req.op = "delete" -> there \ {Named(id, made) : id \in req.blocks}
      [] req.op = "undelete" -> there \cup {req.block}
      [] OTHER -> there

MadeBy(req, made) == IF req.op = "insert" THEN <<lastId + 1, lastId + 2>> ELSE made

Handle(req, made) ==
    /\ cells' = CellsAfter(cells, present, req, MadeBy(req, made))
    /\ present' = PresentAfter(present, req, MadeBy(req, made))
    /\ lastId' = IF req.op = "insert" THEN lastId + req.count ELSE lastId
-----------------------------------------------------------------------------
(* The commands of the Mutator.  The old values are those of the client's  *)
(* copy when the operation is asked for.                                   *)

\* One request each way.
Command(redo, undo) == [redo |-> <<redo>>, undo |-> <<undo>>, grouped |-> TRUE]

\* One field of a block, with the old value its caller gives.
ChangeBlockField(c, new) == Command(PatchOne(c, new), PatchOne(c, copy[c]))

\* One field of a view.
ChangeViewField(c, new) == Command(PatchOne(c, new), PatchOne(c, copy[c]))

\* The date property of a view: the command passes a group that is never set.
ChangeDisplay(new) == [ChangeViewField("display", new) EXCEPT !.grouped = FALSE]

\* To follow is undone by not to follow, and the reverse.
Follow(new) == Command(PatchOne("follow", new), PatchOne("follow", Other(new)))

\* createPatchesFromBlocks takes the changed field and every field of the row
\* that the constructor of the new block has cloned.
Patched(c) == {c} \cup ((CHOOSE r \in Rows : c \in r) \cap ClonedCells)

\* updateBlock: the patch from the old to the new block, and the reverse.
UpdateBlock(c, new) ==
    [redo |-> <<Patch([x \in Patched(c) |-> IF x = c THEN new ELSE copy[x]])>>,
     undo |-> <<Patch([x \in Patched(c) |-> copy[x]])>>,
     grouped |-> TRUE]

\* insertBlock: what the answer names is what undo deletes.
InsertBlock == Command(Insert(1), Delete({NewId}))

\* The same with the afterRedo and beforeUndo of CardDetailProvider.addBlock.
AddContent(k) ==
    [InsertBlock EXCEPT
        !.redo = Append(@, PatchOne("order", InsertAt(copy["order"], k, NewId))),
        !.undo = <<PatchOne("order", copy["order"])>> \o @]

\* insertBlocks, with the afterRedo and beforeUndo of pasted images: two images
\* are inserted by one request and deleted by two at once.
PasteImages ==
    [redo |-> <<Insert(2), PatchOne("order", copy["order"] \o <<NewId, OtherNewId>>)>>,
     undo |-> <<PatchOne("order", copy["order"]), Delete({NewId, OtherNewId})>>,
     grouped |-> TRUE]

\* duplicateCard: the copy is made, then patched.  Its redo() returns a pair,
\* the blocks and the id, and its undo() takes the first of the pair for the
\* card: it deletes a block whose id is undefined.
DuplicateCard ==
    [redo |-> <<Insert(1), Patch(<<>>)>>, undo |-> <<Delete({})>>, grouped |-> TRUE]

DeleteBlock(id) == Command(Delete({id}), Undelete(id))

\* CardDetailProvider.deleteBlock: the content block, then its place.
DeleteContent(k) ==
    <<DeleteBlock(copy["order"][k]), ChangeBlockField("order", RemoveAt(copy["order"], k))>>

\* "Move up" and "move down" of a content block.
ShiftContent(k) ==
    ChangeBlockField("order", InsertAt(RemoveAt(copy["order"], k + 1), k, copy["order"][k + 1]))

\* Mutant: undo always moves the block behind the first one.
MoveContentBack(k, where, dst) ==
    Command(MoveTo(copy["order"][k], where, dst), MoveTo(copy["order"][k], "after", copy["order"][1]))

\* onBlockMoved: undo moves the block back beside the one it stood next to.
MoveContent(k, where, dst) ==
    LET order == copy["order"]
        back == IF k = 1 THEN MoveTo(order[k], "before", order[2])
                ELSE MoveTo(order[k], "after", order[k - 1])
    IN  Command(MoveTo(order[k], where, dst), back)

\* The commands an operation may give, one after the other.
ScriptsOf(o) ==
    LET order == copy["order"]
    IN  CASE o = "rename" -> {<<ChangeBlockField("title", Other(copy["title"]))>>}
          [] o = "property" -> {<<UpdateBlock("props", Other(copy["props"]))>>}
          [] o = "hide" -> {<<UpdateBlock("hidden", Other(copy["hidden"]))>>}
          [] o = "reorder" -> {<<ChangeViewField("cardOrder", Other(copy["cardOrder"]))>>}
          [] o = "display" -> {<<ChangeDisplay(Other(copy["display"]))>>}
          [] o = "follow" -> {<<Follow(Other(copy["follow"]))>>}
          [] o = "create" -> {<<InsertBlock>>}
          [] o = "duplicate" -> {<<DuplicateCard>>}
          [] o = "addContent" -> {<<AddContent(k)>> : k \in {1, Len(order) + 1}}
          [] o = "paste" -> {<<PasteImages>>}
          [] o = "deleteContent" -> {DeleteContent(k) : k \in DOMAIN order}
          [] o = "shift" -> {<<ShiftContent(k)>> : k \in 1 .. Len(order) - 1}
          [] o = "move" ->
               {<<MoveContent(p[1], p[3], order[p[2]])>> :
                   p \in {q \in (DOMAIN order) \X (DOMAIN order) \X {"after", "before"} : q[1] # q[2]}}

\* The operations that run inside performAsUndoGroup.
AsGroup(o) == o \in {"addContent", "deleteContent"}
-----------------------------------------------------------------------------
Init ==
    /\ cells = [c \in Cells |-> IF c = "order" THEN Contents ELSE 0]
    /\ present = {1, 2} \cup Selected
    /\ lastId = 4
    /\ copy = cells
    /\ commands = <<>>
    /\ index = 0
    /\ isExecuting = FALSE
    /\ replay = NoReplay
    /\ undoGroupId = NoGroup
    /\ scripts = {}
    /\ started = 0
    /\ replays = 0
    /\ failures = 0
    /\ disturbed = FALSE
    /\ leftover = FALSE

Quiet == scripts = {} /\ ~isExecuting

\* The group a command of a script joins is read when perform() is called.
GroupOf(command, group) == IF command.grouped THEN group ELSE NoGroup

Script(id, opens, todo, group) ==
    [id |-> id, opens |-> opens, todo |-> todo, group |-> GroupOf(todo[1], group),
     requests |-> todo[1].redo, made |-> <<>>, answered |-> FALSE]

\* The user asks for an operation.  performAsUndoGroup opens a group unless one
\* is open, in which case the operation joins it without owning it.
Start(o) ==
    /\ started < MaxScripts
    /\ \E todo \in ScriptsOf(o) :
          LET opens == AsGroup(o) /\ undoGroupId = NoGroup
              group == IF opens THEN started + 1 ELSE undoGroupId
          IN  /\ undoGroupId' = group
              /\ scripts' = scripts \cup
                   {Script(started + 1, opens, todo, group)}
    /\ started' = started + 1
    /\ disturbed' = (disturbed \/ ~Quiet \/ copy # cells)
    /\ UNCHANGED <<server, copy, manager, replay, replays, failures, leftover>>

\* The user deletes the selected cards: deleteBlock is called for every one
\* without waiting, so the group is closed again before an answer arrives.
DeleteSelected ==
    /\ "deleteCards" \in Operations
    /\ started + 2 <= MaxScripts
    /\ Selected \subseteq present
    /\ LET group == IF undoGroupId = NoGroup THEN started + 1 ELSE undoGroupId
       IN  scripts' = scripts \cup
             {Script(started + k, FALSE, <<DeleteBlock(2 + k)>>, group) : k \in {1, 2}}
    /\ started' = started + 2
    /\ disturbed' = (disturbed \/ ~Quiet)
    /\ UNCHANGED <<server, copy, manager, replay, undoGroupId, replays, failures, leftover>>

\* The server handles the request a script waits for.
Serve(s) ==
    /\ ~s.answered
    /\ Handle(s.requests[1], s.made)
    /\ scripts' = (scripts \ {s}) \cup
         {[s EXCEPT !.answered = TRUE, !.made = MadeBy(s.requests[1], s.made)]}
    /\ UNCHANGED <<copy, manager, replay, undoGroupId, counters, history>>

\* An answer arrives and redo() has more to do: it sends its next request.
Continue(s) ==
    /\ s.answered
    /\ Len(s.requests) > 1
    /\ scripts' = (scripts \ {s}) \cup
         {[s EXCEPT !.answered = FALSE, !.requests = Tail(@)]}
    /\ UNCHANGED <<server, copy, manager, replay, undoGroupId, counters, history>>

\* Mutant: commands above the index are kept.
RegisterUndoKeepingFuture(command, group, made) ==
    IF isExecuting
    THEN UNCHANGED <<commands, index>>
    ELSE /\ commands' = Append(commands,
                [redo |-> command.redo, undo |-> command.undo, group |-> group,
                 value |-> made, result |-> <<cells, present>>])
         /\ index' = index + 1

\* registerUndo: nothing while an undo or redo runs; otherwise the commands
\* above the index are dropped and the new one is pushed.
RegisterUndo(command, group, made) ==
    IF isExecuting
    THEN UNCHANGED <<commands, index>>
    ELSE /\ commands' = Append(SubSeq(commands, 1, index),
                [redo |-> command.redo, undo |-> command.undo, group |-> group,
                 value |-> made, result |-> <<cells, present>>])
         /\ index' = index + 1

\* The last answer of a command: perform() records it and returns, and the
\* script calls its next command, or ends and closes the group it opened.
Perform(s) ==
    /\ s.answered
    /\ Len(s.requests) = 1
    /\ RegisterUndo(s.todo[1], s.group, s.made)
    /\ IF Len(s.todo) > 1
       THEN /\ scripts' = (scripts \ {s}) \cup
                 {[s EXCEPT !.todo = Tail(@), !.group = GroupOf(s.todo[2], undoGroupId),
                            !.requests = s.todo[2].redo, !.made = <<>>, !.answered = FALSE]}
            /\ UNCHANGED undoGroupId
       ELSE /\ scripts' = scripts \ {s}
            /\ undoGroupId' = IF s.opens THEN NoGroup ELSE undoGroupId
    /\ UNCHANGED <<server, copy, isExecuting, replay, counters, history>>

\* A request fails, before or after the server handled it: fetch rejects,
\* perform() throws and records nothing, the rest of the script is not run, and
\* performAsUndoGroup catches the error and closes its group.
Fail(s) ==
    /\ failures < MaxFailures
    /\ failures' = failures + 1
    /\ scripts' = scripts \ {s}
    /\ undoGroupId' = IF s.opens THEN NoGroup ELSE undoGroupId
    /\ disturbed' = TRUE
    /\ UNCHANGED <<server, copy, manager, replay, started, replays, leftover>>
-----------------------------------------------------------------------------
\* Redoing an insert makes a block with an id that later commands do not know;
\* undoing a duplicate deletes nothing.
Inserts(command) == command.redo[1].op = "insert"
Leaves(dir, k) == Inserts(commands[k]) /\ (dir = "redo" \/ commands[k].undo = <<Delete({})>>)

\* execute() sets isExecuting and sends the first request of the command.
Execute(dir, k, group) ==
    /\ isExecuting' = TRUE
    /\ replay' = [dir |-> dir, group |-> group, answered |-> FALSE,
                  requests |-> IF dir = "undo" THEN commands[k].undo ELSE commands[k].redo,
                  made |-> commands[k].value]
    /\ leftover' = (leftover \/ Leaves(dir, k))

\* undo(): the command at the index, with the rest of its group.
Undo ==
    /\ replays < MaxReplays
    /\ ~isExecuting
    /\ index > 0
    /\ Execute("undo", index, commands[index].group)
    /\ replays' = replays + 1
    /\ disturbed' = (disturbed \/ scripts # {})
    /\ UNCHANGED <<server, copy, commands, index, undoGroupId, scripts, started, failures>>

\* redo(): the command above the index, with the rest of its group.
Redo ==
    /\ replays < MaxReplays
    /\ ~isExecuting
    /\ index < Len(commands)
    /\ Execute("redo", index + 1, commands[index + 1].group)
    /\ replays' = replays + 1
    /\ disturbed' = (disturbed \/ scripts # {})
    /\ UNCHANGED <<server, copy, commands, index, undoGroupId, scripts, started, failures>>

ServeReplay ==
    /\ replay # NoReplay
    /\ ~replay.answered
    /\ Handle(replay.requests[1], replay.made)
    /\ replay' = [replay EXCEPT !.answered = TRUE,
                                !.made = MadeBy(replay.requests[1], replay.made)]
    /\ UNCHANGED <<copy, manager, undoGroupId, scripts, counters, history>>

ContinueReplay ==
    /\ replay # NoReplay
    /\ replay.answered
    /\ Len(replay.requests) > 1
    /\ replay' = [replay EXCEPT !.answered = FALSE, !.requests = Tail(@)]
    /\ UNCHANGED <<server, copy, manager, undoGroupId, scripts, counters, history>>

\* Mutant: the loop never goes on.
InGroupNever(k, group) == FALSE

\* After a command of a group the loop goes on with the next one of the group.
InGroup(k, group) == group # NoGroup /\ k \in DOMAIN commands /\ commands[k].group = group

\* Mutant: isExecuting stays set.
StopExecuting == replay' = NoReplay /\ UNCHANGED <<isExecuting, leftover>>

Stop ==
    /\ isExecuting' = FALSE
    /\ replay' = NoReplay
    /\ UNCHANGED leftover

\* The command is undone: the index goes down, and the loop ends or goes on.
FinishUndo ==
    /\ replay.dir = "undo"
    /\ replay.answered
    /\ Len(replay.requests) = 1
    /\ index' = index - 1
    /\ IF InGroup(index - 1, replay.group)
       THEN Execute("undo", index - 1, replay.group)
       ELSE Stop
    /\ UNCHANGED <<server, copy, commands, undoGroupId, scripts, counters, disturbed>>

\* The command is redone: execute() keeps what redo() returned, the index goes
\* up, and the loop ends or goes on.
FinishRedo ==
    /\ replay.dir = "redo"
    /\ replay.answered
    /\ Len(replay.requests) = 1
    /\ commands' = [commands EXCEPT ![index + 1].value = replay.made]
    /\ index' = index + 1
    /\ IF InGroup(index + 2, replay.group)
       THEN Execute("redo", index + 2, replay.group)
       ELSE Stop
    /\ UNCHANGED <<server, copy, undoGroupId, scripts, counters, disturbed>>

\* A request of an undo or redo fails: execute() throws before it clears
\* isExecuting, and nothing ever clears it.
FailReplay ==
    /\ replay # NoReplay
    /\ failures < MaxFailures
    /\ failures' = failures + 1
    /\ replay' = NoReplay
    /\ disturbed' = TRUE
    /\ UNCHANGED <<server, copy, manager, undoGroupId, scripts, started, replays, leftover>>
-----------------------------------------------------------------------------
\* A change of a row reaches the client's copy.
Refresh(row) ==
    /\ \E c \in row : copy[c] # cells[c]
    /\ copy' = [c \in Cells |-> IF c \in row THEN cells[c] ELSE copy[c]]
    /\ UNCHANGED <<server, manager, replay, undoGroupId, scripts, counters, history>>

ScriptStep == \E s \in scripts : Serve(s) \/ Continue(s) \/ Perform(s)
ReplayStep == ServeReplay \/ ContinueReplay \/ FinishUndo \/ FinishRedo

Next ==
    \/ \E o \in Operations \ {"deleteCards"} : Start(o)
    \/ DeleteSelected
    \/ \E s \in scripts : Serve(s) \/ Continue(s) \/ Perform(s) \/ Fail(s)
    \/ Undo \/ Redo
    \/ ServeReplay \/ ContinueReplay \/ FinishUndo \/ FinishRedo \/ FailReplay
    \/ \E row \in Rows : Refresh(row)

\* Requests are answered and answers are handled; nothing is assumed of the
\* user or of failures.
Fairness ==
    /\ \A i \in 1 .. MaxScripts :
          WF_vars(\E s \in scripts : s.id = i /\ (Serve(s) \/ Continue(s) \/ Perform(s)))
    /\ WF_vars(ReplayStep)

Spec == Init /\ [][Next]_vars /\ Fairness
-----------------------------------------------------------------------------
(* Properties.                                                             *)

CellValues(c) == IF c = "order" THEN Seq(Ids) ELSE {0, 1}

\* The history, the replay and the group of the Mutator stay within range, and a
\* replay runs only while isExecuting is set.
TypeOK ==
    /\ \A c \in Cells : cells[c] \in CellValues(c) /\ copy[c] \in CellValues(c)
    /\ present \subseteq Ids
    /\ index \in 0 .. Len(commands)
    /\ replay # NoReplay => isExecuting
    /\ undoGroupId \in 0 .. MaxScripts
    /\ \A s \in scripts : s.id \in 1 .. started

\* An undo or redo that ends leaves no group half done, whatever other
\* operations began, ended or failed meanwhile.
GroupsStayWhole ==
    (~isExecuting /\ index \in 1 .. Len(commands) - 1) =>
        \/ commands[index].group = NoGroup
        \/ commands[index].group # commands[index + 1].group

\* What the user who works alone and waits for answers sees, in three parts.
\* After any undos and redos the card, the view and their blocks are exactly as
\* they were when the command at the index was recorded, or as in the beginning,
\* unless an insert was redone, which gave it a new id, or a duplicate was
\* undone, which leaves it there.
CardFollows ==
    (Quiet /\ ~disturbed /\ ~leftover) =>
        IF index = 0
        THEN /\ cells = [c \in Cells |-> IF c = "order" THEN Contents ELSE 0]
             /\ present = {1, 2} \cup Selected
        ELSE <<cells, present>> = commands[index].result

\* All but the order of the contents is so in any case.
FieldsFollow ==
    (Quiet /\ ~disturbed) =>
        \A c \in Cells \ {"order"} :
            cells[c] = IF index = 0 THEN 0 ELSE commands[index].result[1][c]

\* And every insert of the past, redone or not, has its block, unless a later
\* command of the past deletes it, and no insert of the future has one.
InsertsFollow ==
    (Quiet /\ ~disturbed) =>
        \A k \in DOMAIN commands : Inserts(commands[k]) /\ commands[k].undo # <<Delete({})>> =>
            LET id == commands[k].value[1]
                deletedLater == \E j \in k + 1 .. index : commands[j].redo = <<Delete({id})>>
            IN  (id \in present) <=> (k <= index /\ ~deletedLater)

\* The history explains the card, and groups stay whole.
HistoryExplainsCard ==
    TypeOK /\ GroupsStayWhole /\ CardFollows /\ FieldsFollow /\ InsertsFollow

\* An undo or redo ends, unless a request has failed.
ReplayEnds == isExecuting ~> (~isExecuting \/ failures > 0)

\* The commands are a past and a future: undo and redo move along the history
\* and never change it, a new command forgets the future and nothing else.
Step(command) == [redo |-> command.redo, undo |-> command.undo, group |-> command.group]
History == INSTANCE AbstractHistory WITH
    past <- [k \in 1 .. index |-> Step(commands[k])],
    future <- [k \in 1 .. Len(commands) - index |-> Step(commands[index + k])]
LinearHistory == History!Spec
=============================================================================
