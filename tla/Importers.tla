------------------------------ MODULE Importers ------------------------------
(***************************************************************************)
(* The import tools (src/import): each converts the export of another      *)
(* program into boards and blocks, written to an archive, which the server *)
(* loads with new ids (app/import.go, model/blockid.go).                   *)
(*                                                                         *)
(* An id made by Utils.createGuid is a tuple that names what it is for;    *)
(* the server appends to it.  No text is "".                               *)
(***************************************************************************)
EXTENDS Integers, SequencesExt, TLC

Id(kind, board, card, k) == <<kind, board, card, k>>
BoardId(b) == Id("board", b, 0, 0)
CardId(b, c) == Id("card", b, c, 0)

Board(b, title, properties) == [id |-> BoardId(b), title |-> title, cardProperties |-> properties]
Property(b, p, name, type, values) ==
    [id |-> Id("property", b, p, 0), name |-> name, type |-> type,
     options |-> [k \in DOMAIN values |-> [id |-> Id("option", b, p, k), value |-> values[k]]]]
Block(b, id, type, parent, title) ==
    [id |-> id, boardId |-> BoardId(b), type |-> type, parentId |-> parent, title |-> title,
     values |-> <<>>, contentOrder |-> <<>>, checked |-> FALSE]
View(b) == Block(b, Id("view", b, 0, 0), "view", BoardId(b), "Board View")

\* A card and its contents, given as [type, title, checked].
Card(b, c, title, values, contents) ==
    [Block(b, CardId(b, c), "card", BoardId(b), title) EXCEPT
        !.values = values, !.contentOrder = [k \in DOMAIN contents |-> Id("content", b, c, k)]]
Contents(b, c, contents) ==
    [k \in DOMAIN contents |->
        [Block(b, Id("content", b, c, k), contents[k].type, CardId(b, c), contents[k].title)
            EXCEPT !.checked = contents[k].checked]]
Text(title) == [type |-> "text", title |-> title, checked |-> FALSE]
TextOf(title) == IF title = "" THEN <<>> ELSE <<Text(title)>>

\* What a Map from keys to options answers: a key set twice has its last option.
Chosen(property, keys, key) ==
    LET at == {k \in DOMAIN keys : keys[k] = key}
    IN  IF at = {} THEN <<>>
        ELSE property.id :> <<property.options[CHOOSE k \in at : \A j \in at : j <= k].id>>
Distinct(s) == FoldLeft(LAMBDA seen, x : IF Contains(seen, x) THEN seen ELSE Append(seen, x), <<>>, s)
-----------------------------------------------------------------------------
TrelloContents(input, card) ==
    LET items(id) == LET lists == SelectSeq(input.checklists, LAMBDA l : l.id = id)
                     IN  IF lists = <<>> THEN <<>> ELSE lists[1].items
        boxes(id) == [j \in DOMAIN items(id) |-> [type |-> "checkbox", title |-> items(id)[j].name,
                                                  checked |-> items(id)[j].complete]]
    IN  TextOf(card.desc) \o FlattenSeq([k \in DOMAIN card.idChecklists |-> boxes(card.idChecklists[k])])
ConvertTrello(input) ==
    LET ids == [k \in DOMAIN input.lists |-> input.lists[k].id]
        list == Property(1, 1, "List", "select", [k \in DOMAIN input.lists |-> input.lists[k].name])
        blocks(c) == LET card == input.cards[c]
                         contents == TrelloContents(input, card)
                     IN  <<Card(1, c, card.name, Chosen(list, ids, card.idList), contents)>> \o Contents(1, c, contents)
    IN  [boards |-> <<Board(1, input.name, <<list>>)>>,
         blocks |-> <<View(1)>> \o FlattenSeq([c \in DOMAIN input.cards |-> blocks(c)])]

ConvertDeck(input) ==
    LET ids(s) == [k \in DOMAIN s |-> s[k].id]
        titles(s) == [k \in DOMAIN s |-> s[k].title]
        list == Property(1, 1, "List", "select", titles(input.stacks))
        label == Property(1, 2, "Label", "multiSelect", titles(input.labels))
        due == Property(1, 3, "Due Date", "date", <<>>)
        known(labels) == SelectSeq(labels, LAMBDA l : Contains(ids(input.labels), l))
        values(card) ==
            Chosen(list, ids(input.stacks), card.stackId)
            @@ (label.id :> FlattenSeq([k \in DOMAIN known(card.labels) |->
                                 Chosen(label, ids(input.labels), known(card.labels)[k])[label.id]]))
            @@ (IF card.duedate = "" THEN <<>> ELSE due.id :> <<card.duedate>>)
        cards == FlattenSeq([k \in DOMAIN input.stacks |-> input.stacks[k].cards])
        comments(c) == [k \in DOMAIN cards[c].comments |->
                           Block(1, Id("comment", 1, c, k), "comment", CardId(1, c), cards[c].comments[k])]
        blocks(c) == <<Card(1, c, cards[c].title, values(cards[c]), TextOf(cards[c].description))>>
                     \o Contents(1, c, TextOf(cards[c].description)) \o comments(c)
    IN  [boards |-> <<Board(1, input.title, <<list, label, due>>)>>,
         blocks |-> <<View(1)>> \o FlattenSeq([c \in DOMAIN cards |-> blocks(c)])]
-----------------------------------------------------------------------------
(* Todoist: a board for each project but the Inbox.  noStatusSectionID,    *)
(* 0 when undefined, is kept from one project to the next.                 *)

DefaultSections ==
    LET names == <<"No Status", "Next Up", "In Progress", "Completed", "Archived">>
    IN  [k \in DOMAIN names |-> [id |-> 100 + k, name |-> names[k]]]
ProjectColumns(input, project, noStatusSectionID) ==
    LET sections == SelectSeq(input.sections, LAMBDA s : s.project = project.id)
    IN  IF sections = <<>> THEN DefaultSections
        ELSE <<[id |-> noStatusSectionID, name |-> "No Section"]>>
             \o [k \in DOMAIN sections |-> [id |-> sections[k].id, name |-> sections[k].name]]
NoStatusAfter(columns, noStatusSectionID) ==
    FoldLeft(LAMBDA id, list : IF list.name = "No Status" THEN list.id ELSE id, noStatusSectionID, columns)
\* The notes of a task, which the code joins to one text.
CardDescription(input, item) ==
    LET notes == SelectSeq(input.notes, LAMBDA n : n.item = item.id)
    IN  [k \in DOMAIN notes |-> notes[k].content]

ConvertProject(input, project, b, noStatusSectionID) ==
    LET columns == ProjectColumns(input, project, noStatusSectionID)
        noStatus == NoStatusAfter(columns, noStatusSectionID)
        ids == [k \in DOMAIN columns |-> columns[k].id]
        list == Property(b, 1, "List", "select", [k \in DOMAIN columns |-> columns[k].name])
        items == SelectSeq(input.items, LAMBDA i : i.project = project.id)
        section(i) == IF items[i].section = 0 THEN noStatus ELSE items[i].section
        contents(i) == <<Text(CardDescription(input, items[i]))>>
        blocks(i) == <<Card(b, i, items[i].content, Chosen(list, ids, section(i)), contents(i))>>
                     \o Contents(b, i, contents(i))
    IN  [boards |-> <<Board(b, project.name, <<list>>)>>,
         blocks |-> <<View(b)>> \o FlattenSeq([i \in DOMAIN items |-> blocks(i)]),
         noStatus |-> noStatus]
ConvertTodoist(input) ==
    LET step(done, project) ==
            IF project.name = "Inbox" THEN done
            ELSE LET one == ConvertProject(input, project, Len(done.boards) + 1, done.noStatus)
                 IN  [boards |-> done.boards \o one.boards, blocks |-> done.blocks \o one.blocks,
                      noStatus |-> one.noStatus]
        all == FoldLeft(step, [boards |-> <<>>, blocks |-> <<>>, noStatus |-> 0], input.projects)
    IN  [boards |-> all.boards, blocks |-> all.blocks]
-----------------------------------------------------------------------------
\* Asana: the tasks become cards of one board, for the first project named.
MembershipIn(item, project) ==
    LET of == SelectSeq(item.memberships, LAMBDA m : m.project = project)
    IN  IF of = <<>> THEN <<>> ELSE <<of[1].section>>
ConvertAsana(input) ==
    LET projects == FlattenSeq([k \in DOMAIN input |-> input[k].projects])
        project == projects[1]
        sections == Distinct(FlattenSeq([k \in DOMAIN input |-> MembershipIn(input[k], project)]))
        section == Property(1, 1, "Section", "select", sections)
        values(item) == IF MembershipIn(item, project) = <<>> THEN <<>>
                        ELSE Chosen(section, sections, MembershipIn(item, project)[1])
        blocks(c) == <<Card(1, c, input[c].name, values(input[c]), TextOf(input[c].notes))>>
                     \o Contents(1, c, TextOf(input[c].notes))
    IN  IF projects = <<>> THEN [boards |-> <<>>, blocks |-> <<>>]
        ELSE [boards |-> <<Board(1, project, <<section>>)>>,
              blocks |-> <<View(1)>> \o FlattenSeq([c \in DOMAIN input |-> blocks(c)])]

JiraSelects == <<"Priority", "Status", "Resolution", "Type", "Assignee", "Reporter">>
\* buildCardPropertyFromValues: of the values that are not empty, those are
\* kept that are first found, in the list with the empty ones, where they stand
\* in the list without.
PropertyFromValues(p, name, all) ==
    LET values == SelectSeq(all, LAMBDA x : x # "")
        first(x) == CHOOSE k \in DOMAIN all : all[k] = x /\ \A j \in 1 .. k - 1 : all[j] # x
        kept == SetToSortSeq({k \in DOMAIN values : first(values[k]) = k}, LAMBDA j, k : j < k)
    IN  Property(1, p, name, "select", [k \in DOMAIN kept |-> values[kept[k]]])
\* The parser makes a list of several items; one alone is an object and none is
\* undefined, which have no map: convert throws, and nothing is written.
IsArray(items) == Len(items) > 1
ConvertJira(items) ==
    LET value(item, p) == IF JiraSelects[p] \in DOMAIN item.values THEN item.values[JiraSelects[p]] ELSE ""
        select == [p \in DOMAIN JiraSelects |->
                      PropertyFromValues(p, JiraSelects[p], [k \in DOMAIN items |-> value(items[k], p)])]
        url == Property(1, 7, "Original URL", "url", <<>>)
        created == Property(1, 8, "Created Date", "date", <<>>)
        labels(p) == [k \in DOMAIN select[p].options |-> select[p].options[k].value]
        set(item, p) == IF value(item, p) = "" THEN <<>> ELSE Chosen(select[p], labels(p), value(item, p))
        values(item) == FoldLeft(LAMBDA v, p : v @@ set(item, p),
                                 (IF item.link = "" THEN <<>> ELSE url.id :> <<item.link>>)
                                 @@ (IF item.created = "" THEN <<>> ELSE created.id :> <<item.created>>),
                                 [p \in DOMAIN JiraSelects |-> p])
        blocks(c) == Contents(1, c, TextOf(items[c].description))
                     \o <<Card(1, c, items[c].summary, values(items[c]), TextOf(items[c].description))>>
    IN  [boards |-> <<Board(1, "Jira import", select \o <<url, created>>)>>,
         blocks |-> <<View(1)>> \o FlattenSeq([c \in DOMAIN items |-> blocks(c)])]

\* Notion: each column after the first becomes a property, after the property
\* Status that createBoard makes; a value goes to the first of its name.
Markdown(files, title) ==
    LET found == SelectSeq(files, LAMBDA f : f.title = title)
    IN  IF found = <<>> THEN "" ELSE found[1].text
ConvertNotion(input) ==
    LET names == <<"Status">> \o Tail(input.columns)
        first(name) == CHOOSE p \in DOMAIN names : names[p] = name /\ \A j \in 1 .. p - 1 : names[j] # name
        column(name) == CHOOSE k \in DOMAIN input.columns : k > 1 /\ input.columns[k] = name
        options(p) == IF first(names[p]) # p \/ ~Contains(Tail(input.columns), names[p]) THEN <<>>
                      ELSE Distinct(SelectSeq([r \in DOMAIN input.rows |-> input.rows[r][column(names[p])]],
                                              LAMBDA v : v # ""))
        property == [p \in DOMAIN names |-> Property(1, p, names[p], "select", options(p))]
        set(row, k) == IF row[k] = "" THEN <<>>
                       ELSE Chosen(property[first(input.columns[k])], options(first(input.columns[k])), row[k])
        values(row) == FoldLeft(LAMBDA v, k : v @@ set(row, k), <<>>, [k \in 1 .. Len(row) - 1 |-> k + 1])
        text(r) == TextOf(Markdown(input.files, input.rows[r][1]))
        blocks(r) == <<Card(1, r, input.rows[r][1], values(input.rows[r]), text(r))>> \o Contents(1, r, text(r))
    IN  [boards |-> <<Board(1, input.title, property)>>,
         blocks |-> <<View(1)>> \o FlattenSeq([r \in DOMAIN input.rows |-> blocks(r)])]
-----------------------------------------------------------------------------
\* ImportBoardJSONL: the archive has all boards before all blocks, and a block
\* belongs to the board read last.
ReadArchive(archive) ==
    [archive EXCEPT !.blocks =
        [k \in DOMAIN @ |-> [@[k] EXCEPT !.boardId = Last(archive.boards).id]]]

\* Mutant: the order of the contents is not among the references.
ReferencesOfRowsOnly(blocks) ==
    UNION {{blocks[k].boardId, blocks[k].parentId} : k \in DOMAIN blocks}
\* GenerateBlockIDs: a block that others refer to has one new id for all of
\* them; any other id is new each time it is asked for.
References(blocks) ==
    UNION {{blocks[k].boardId, blocks[k].parentId} \cup ToSet(blocks[k].contentOrder) : k \in DOMAIN blocks}
NewIds(blocks) ==
    LET known == {blocks[k].id : k \in DOMAIN blocks}
        shared == known \cap References(blocks)
        renamed(id) == IF id \in shared THEN Append(id, 1) ELSE id
    IN  [k \in DOMAIN blocks |->
            [blocks[k] EXCEPT !.id = IF @ \in shared THEN Append(@, 1) ELSE Append(@, 2),
                              !.parentId = renamed(@),
                              !.contentOrder = [j \in DOMAIN @ |-> renamed(@[j])]]]
\* GenerateBoardsAndBlocksIDs.
Load(archive) ==
    LET read == ReadArchive(archive)
        of(b) == SelectSeq(read.blocks, LAMBDA x : x.boardId = read.boards[b].id)
        moved(b) == [k \in DOMAIN of(b) |-> [of(b)[k] EXCEPT !.boardId = Append(@, 1)]]
    IN  [boards |-> [b \in DOMAIN read.boards |-> [read.boards[b] EXCEPT !.id = Append(@, 1)]],
         blocks |-> NewIds(FlattenSeq([b \in DOMAIN read.boards |-> moved(b)]))]
=============================================================================
