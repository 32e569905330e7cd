----------------------------- MODULE Conversions -----------------------------
(***************************************************************************)
(* What becomes of a user's data on its way through a converter: the file  *)
(* of another program to a board (Importers), the cards of a table to a    *)
(* CSV file and back, the values of a column to a calculation              *)
(* (CardValues).  A behaviour is one conversion, step by step.             *)
(***************************************************************************)
EXTENDS Importers, CardValues

CONSTANTS TrelloExports, DeckExports, TodoistExports, AsanaExports, JiraExports, NotionExports,
          Tables,    \* [templates, cards]: what a table shows
          Columns,   \* [type, values]: the cards' values of a property
          Menus      \* the properties of a board

VARIABLES job,     \* what is converted: [tool, input]
          step,    \* "input", "file", "done" or "failed"
          result   \* the file, then what is read from it

conversionVars == <<job, step, result>>

Jobs(tool, inputs) == [tool : {tool}, input : inputs]
ConversionsInit == /\ job \in UNION {Jobs("trello", TrelloExports), Jobs("deck", DeckExports), Jobs("todoist", TodoistExports),
                                     Jobs("asana", AsanaExports), Jobs("jira", JiraExports), Jobs("notion", NotionExports),
                                     Jobs("csv", Tables), Jobs("calculation", Columns), Jobs("menu", Menus)}
                   /\ step = "input"
                   /\ result = <<>>

\* A tool writes the archive of the boards it made.
Convert(tool, archive) == /\ step = "input" /\ job.tool = tool
                          /\ result' = archive
                          /\ step' = "file" /\ UNCHANGED job
JiraParsed == job.tool = "jira" /\ IsArray(job.input)
JiraThrows == /\ step = "input" /\ job.tool = "jira" /\ ~JiraParsed
              /\ step' = "failed" /\ UNCHANGED <<job, result>>
\* The server loads it; an archive without a board is refused.
LoadArchive == /\ step = "file" /\ job.tool # "csv"
               /\ result.boards # <<>>
               /\ result' = Load(result)
               /\ step' = "done" /\ UNCHANGED job
ExportCsv == /\ step = "input" /\ job.tool = "csv"
             /\ result' = ExportTableCsv(job.input.templates, job.input.cards, TemplateIds(job.input.templates))
             /\ step' = "file" /\ UNCHANGED job
ImportCsv == /\ step = "file" /\ job.tool = "csv"
             /\ result' = ImportTableCsv(job.input.templates, result)
             /\ step' = "done" /\ UNCHANGED job
Calculate ==
    LET values == job.input.values
    IN  /\ step = "input" /\ job.tool = "calculation"
        /\ result' = [empty |-> CountEmpty(values), notEmpty |-> CountNotEmpty(values),
                      percentEmpty |-> PercentEmpty(values), percentNotEmpty |-> PercentNotEmpty(values),
                      count |-> CountValue(job.input.type, values), unique |-> CountUniqueValue(values)]
                     @@ (IF job.input.type # "number" THEN <<>>
                         ELSE [median |-> Median(values), average |-> Average(values),
                               min |-> Least(values), max |-> Greatest(values)])
                     @@ (IF job.input.type # "checkbox" \/ values = <<>> THEN <<>>
                         ELSE [unchecked |-> CountUnchecked(values), percentChecked |-> PercentChecked(values),
                               percentUnchecked |-> PercentUnchecked(values)])
                     @@ (IF job.input.type # "date" THEN <<>>
                         ELSE [earliest |-> Earliest(values), latest |-> Latest(values), dateRange |-> DateRange(values)])
        /\ step' = "done" /\ UNCHANGED job
OpenMenus == /\ step = "input" /\ job.tool = "menu"
             /\ result' = [table |-> [k \in DOMAIN job.input |-> TableCalculationOptions(job.input[k])],
                           kanban |-> KanbanCalculationOptions(job.input)]
             /\ step' = "done" /\ UNCHANGED job

ConversionsNext == \/ Convert("trello", ConvertTrello(job.input))
                   \/ Convert("deck", ConvertDeck(job.input))
                   \/ Convert("todoist", ConvertTodoist(job.input))
                   \/ Convert("asana", ConvertAsana(job.input))
                   \/ JiraParsed /\ Convert("jira", ConvertJira(job.input))
                   \/ JiraThrows
                   \/ Convert("notion", ConvertNotion(job.input))
                   \/ LoadArchive \/ ExportCsv \/ ImportCsv \/ Calculate \/ OpenMenus
ConversionsSpec == ConversionsInit /\ [][ConversionsNext]_conversionVars
-----------------------------------------------------------------------------
(* Imported boards as the web client reads them, and as the source says.   *)

ConversionsTypeOK == /\ step \in {"input", "file", "done", "failed"}
                     /\ job.tool \in {"none", "trello", "deck", "todoist", "asana", "jira", "notion", "csv", "calculation", "menu"}

Reading(loaded, b) ==
    LET board == loaded.boards[b]
        blocks == SelectSeq(loaded.blocks, LAMBDA x : x.boardId = board.id)
        found(id) == SelectSeq(blocks, LAMBDA x : x.id = id)
        contents(card) ==
            FlattenSeq([k \in DOMAIN card.contentOrder |->
                [j \in DOMAIN found(card.contentOrder[k]) |->
                    LET x == found(card.contentOrder[k])[j]
                    IN  [type |-> x.type, title |-> x.title, checked |-> x.checked]]])
        label(p, v) == IF p.type \in {"select", "multiSelect"}
                       THEN (CHOOSE o \in ToSet(p.options) : o.id = v).value ELSE v
        columns(card) == UNION {{<<p.name, label(p, v)>> : v \in ToSet(card.values[p.id])} :
                                   p \in {q \in ToSet(board.cardProperties) : q.id \in DOMAIN card.values}}
        comments(card) == LET of == SelectSeq(blocks, LAMBDA x : x.type = "comment" /\ x.parentId = card.id)
                          IN  [k \in DOMAIN of |-> of[k].title]
        cards == SelectSeq(blocks, LAMBDA x : x.type = "card")
    IN  [title |-> board.title,
         cards |-> [c \in DOMAIN cards |-> [title |-> cards[c].title, columns |-> columns(cards[c]),
                                            contents |-> contents(cards[c]), comments |-> comments(cards[c])]]]

Described(title, columns, contents, comments) ==
    [title |-> title, columns |-> columns, contents |-> contents, comments |-> comments]
\* The pairs of a field that is not empty.
Given(name, value) == IF value = "" THEN {} ELSE {<<name, value>>}
NamedBy(s, id) == {s[k].name : k \in {j \in DOMAIN s : s[j].id = id}}
TitledBy(s, id) == {s[k].title : k \in {j \in DOMAIN s : s[j].id = id}}

SaidByTrello(in) ==
    [title |-> in.name,
     cards |-> [c \in DOMAIN in.cards |->
        LET card == in.cards[c]
            boxes(id) == IF \E l \in ToSet(in.checklists) : l.id = id
                         THEN (CHOOSE l \in ToSet(in.checklists) : l.id = id).items ELSE <<>>
        IN  Described(card.name, {<<"List", n>> : n \in NamedBy(in.lists, card.idList)},
                      FoldLeft(LAMBDA s, id : s \o [j \in DOMAIN boxes(id) |->
                                  [type |-> "checkbox", title |-> boxes(id)[j].name, checked |-> boxes(id)[j].complete]],
                               TextOf(card.desc), card.idChecklists), <<>>)]]
SaidByDeck(in) ==
    LET cards == FoldLeft(LAMBDA s, stack : s \o stack.cards, <<>>, in.stacks)
    IN  [title |-> in.title,
         cards |-> [c \in DOMAIN cards |->
            Described(cards[c].title,
                      {<<"List", n>> : n \in TitledBy(in.stacks, cards[c].stackId)}
                      \cup {<<"Label", n>> : n \in UNION {TitledBy(in.labels, l) : l \in ToSet(cards[c].labels)}}
                      \cup Given("Due Date", cards[c].duedate),
                      TextOf(cards[c].description), cards[c].comments)]]
SaidByTodoist(in, project) ==
    LET items == SelectSeq(in.items, LAMBDA i : i.project = project.id)
        own == {k \in DOMAIN in.sections : in.sections[k].project = project.id}
        section(i) == IF i.section # 0 THEN {in.sections[k].name : k \in {j \in own : in.sections[j].id = i.section}}
                      ELSE IF own = {} THEN {"No Status"} ELSE {"No Section"}
        notes(i) == SelectSeq(in.notes, LAMBDA n : n.item = i.id)
    IN  [title |-> project.name,
         cards |-> [c \in DOMAIN items |->
            Described(items[c].content, {<<"List", n>> : n \in section(items[c])},
                      <<Text([k \in DOMAIN notes(items[c]) |-> notes(items[c])[k].content])>>, <<>>)]]
SaidByAsana(in) ==
    LET first == CHOOSE k \in DOMAIN in : in[k].projects # <<>> /\ \A j \in 1 .. k - 1 : in[j].projects = <<>>
        project == Head(in[first].projects)
        section(i) == {m.section : m \in {n \in ToSet(i.memberships) : n.project = project}}
    IN  [title |-> project,
         cards |-> [c \in DOMAIN in |-> Described(in[c].name, {<<"Section", s>> : s \in section(in[c])},
                                                  TextOf(in[c].notes), <<>>)]]
SaidByJira(in) ==
    [title |-> "Jira import",
     cards |-> [c \in DOMAIN in |->
        Described(in[c].summary,
                  UNION {Given(name, in[c].values[name]) : name \in DOMAIN in[c].values}
                  \cup Given("Original URL", in[c].link) \cup Given("Created Date", in[c].created),
                  TextOf(in[c].description), <<>>)]]
SaidByNotion(in) ==
    [title |-> in.title,
     cards |-> [c \in DOMAIN in.rows |->
        Described(in.rows[c][1],
                  UNION {Given(in.columns[k], in.rows[c][k]) : k \in 2 .. Len(in.columns)},
                  TextOf(Markdown(in.files, in.rows[c][1])), <<>>)]]

\* A value that first occurs after more empty fields than before is lost, as
\* buildCardPropertyFromValues compares places of different lists.
LosesValues(items) ==
    \E k \in DOMAIN items : \E name \in DOMAIN items[k].values :
        /\ items[k].values[name] # ""
        /\ \E j \in 1 .. k - 1 : items[j].values[name] = ""

\* What one reads on an imported board is what its source says, card by card:
\* titles, columns, contents in order, comments.  Excused are the cases in which
\* it is not: several boards from Todoist, whose blocks the server puts on the
\* last, a section of Todoist named as the tool's own, and the values the tool
\* for Jira loses.  It says nothing of an export from Jira of one item or none,
\* from which no board is made.
ImportKeepsCards ==
    LET in == job.input
        is(tool) == step = "done" /\ job.tool = tool
        boards(i) == SelectSeq(i.projects, LAMBDA p : p.name # "Inbox")
        plain(i) == \A k \in DOMAIN i.sections : i.sections[k].name # "No Status"
    IN  /\ ConversionsTypeOK
        /\ is("trello") => Reading(result, 1) = SaidByTrello(in)
        /\ is("deck") => Reading(result, 1) = SaidByDeck(in)
        /\ is("todoist") /\ Len(boards(in)) = 1 /\ plain(in) => Reading(result, 1) = SaidByTodoist(in, boards(in)[1])
        /\ is("asana") => Reading(result, 1) = SaidByAsana(in)
        /\ is("jira") /\ ~LosesValues(in) => Reading(result, 1) = SaidByJira(in)
        /\ is("notion") => Reading(result, 1) = SaidByNotion(in)

\* A table exported and imported again has as many cards, with the same titles
\* and the same plain values.  Excused are texts with commas, quotes or hash
\* signs, for which the file has no escape that the import reads, and values
\* of the types with options, which the import takes for text.
CsvKeepsPlainCards ==
    LET cards == job.input.cards
        templates == job.input.templates
        plain(text) == ToSet(text) \cap {Comma, Quote, Hash, Blank} = {}
        aligned(c) == ~Contains(cards[c].title, Comma)
                      /\ \A t \in ToSet(templates) : \A k \in DOMAIN ExportValue(t, ValueOf(cards[c], t.id)) :
                            ExportValue(t, ValueOf(cards[c], t.id))[k] # Comma
        same(c, t) == ValueOf(result[c], t.id).items = ValueOf(cards[c], t.id).items
    IN  job.tool = "csv" /\ step = "done" =>
          /\ Len(result) = Len(cards)
          /\ \A c \in DOMAIN cards :
                /\ plain(cards[c].title) =>
                      result[c].title = IF cards[c].title = <<>> THEN <<"Untitled">> ELSE cards[c].title
                /\ aligned(c) => \A t \in ToSet(templates) :
                      t.type \in {"text", "number"} /\ (ValueOf(cards[c], t.id) # Absent => plain(ValueOf(cards[c], t.id).items[1]))
                      => same(c, t)

\* The calculations under a column agree with each other, with the filter by
\* emptiness, and with what a median and an average are; and whether one can
\* be chosen for a property does not depend on the kind of the view, nor does a
\* menu offer one twice.  Excused from the agreement with the filter are multi
\* selects emptied again, which only the filter takes for empty.
CalculationsAgree ==
    LET values == job.input.values
        n == Numbers(values)
        of(P(_)) == Cardinality({k \in DOMAIN n : P(n[k])})
        filtered(v) == IsClauseMet([prop |-> 1, condition |-> "isEmpty", values |-> <<>>], [title |-> 0, values |-> (1 :> v)])
        inTable(k) == {<<o, job.input[k].id>> : o \in ToSet(result.table[k]) \ {"none", "count"}}
        inKanban(entry) == {<<entry.value, t.id>> : t \in ToSet(entry.properties)}
    IN  /\ job.tool = "menu" /\ step = "done" =>
          /\ UNION {inTable(k) : k \in DOMAIN job.input}
               = UNION {inKanban(entry) : entry \in {e \in ToSet(result.kanban) : e.value # "count"}}
          /\ \A j, k \in DOMAIN result.kanban : result.kanban[j].value = result.kanban[k].value => j = k
        /\ job.tool = "calculation" /\ step = "done" =>
          /\ result.empty + result.notEmpty = Len(values)
          /\ values # <<>> => result.percentEmpty + result.percentNotEmpty \in {100, 101}
          /\ Many(<<>>) \notin ToSet(values) =>
                result.empty = Cardinality({k \in DOMAIN values : filtered(values[k])})
          /\ result.unique <= result.count
          /\ result.unique = 0 <=> result.count = 0
          /\ job.input.type = "number" /\ n # <<>> =>
                /\ result.min <= result.median /\ result.median <= result.max
                /\ result.min <= result.average /\ result.average <= result.max
                /\ 2 * of(LAMBDA x : x < result.median) <= Len(n)
                /\ 2 * of(LAMBDA x : x > result.median) <= Len(n)
                /\ \A d \in {Len(n) * result.average - Total(values)} : 2 * d <= Len(n) /\ -2 * d <= Len(n)
                /\ Len(n) = 2 => result.median = result.average
          /\ job.input.type = "checkbox" /\ values # <<>> =>
                /\ result.count + result.unchecked = Len(values)
                /\ result.percentChecked + result.percentUnchecked \in {100, 101}
          /\ job.input.type = "date" =>
                LET dates == {d \in 1 .. 99 : \E v \in ToSet(values), e \in 0 .. 99 :
                                                  v \in {One(DateText(d, e)), One(DateText(e, d))}}
                IN  IF dates = {} THEN result.earliest = -1 /\ result.latest = -1 /\ result.dateRange = -1
                    ELSE /\ {result.earliest, result.latest} \subseteq dates
                         /\ \A d \in dates : result.earliest <= d /\ d <= result.earliest + result.dateRange

\* No conversion loses a card, or what one reads on it, and what is computed
\* from the cards agrees.
ConversionsAgree == ImportKeepsCards /\ CsvKeepsPlainCards /\ CalculationsAgree
=============================================================================
