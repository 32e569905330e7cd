------------------------------ MODULE BoardEditor ------------------------------
(***************************************************************************)
(* What a user does with a board in the web client: the operations of the  *)
(* Mutator on properties, options and views (mutator.ts), dragging cards   *)
(* and columns (kanban.tsx, table.tsx), adding cards under a filter        *)
(* (centerPanel.tsx) and the menus that call them.                         *)
(*                                                                         *)
(* The user waits for the answers, so the client's copy is what the server *)
(* has and an operation is one step; UndoManager has the interleavings.    *)
(* Every operation sees the cards that the view it is called from shows.   *)
(***************************************************************************)
EXTENDS BoardViews

CONSTANTS
    Names,       \* texts: titles, names of options, names of persons
    Types,       \* the types of property the user chooses from
    MaxEdits     \* bound: edits of properties, views and cards

AllTypes == {"select", "multiSelect", "person", "multiPerson", "text"}
SelectTypes == {"select", "multiSelect"}
PersonTypes == {"person", "multiPerson"}

ASSUME TypesAssumption == Types \subseteq AllTypes
ASSUME NamesAssumption == \A n \in Names : n \in Int /\ n > 1000

VARIABLES
    cardProperties,  \* the board's properties: a sequence of templates
    cards,           \* the cards that exist, by id
    views,           \* the views that exist, by id
    edits,           \* bounded: how many edits were made
    done             \* history: the last edit, when a property is about it

vars == <<cardProperties, cards, views, edits, done>>
-----------------------------------------------------------------------------
\* Utils.createGuid: the k-th new id of this edit.
NewId(k) == 10 * (edits + 1) + k

Nothing == [op |-> "none"]
EditAs(what) == edits' = edits + 1 /\ done' = what
Edit == EditAs(Nothing)

Shown(v) == ShownCards(cardProperties, cards, views[v])
Groups(v, shown) == VisibleAndHiddenGroups(cardProperties, cards, shown, views[v])
GroupIds(groups) == {groups[k].option : k \in DOMAIN groups}
GroupedBy(v) == GroupByProperty(cardProperties, views[v])

\* Board operations reach the server as the difference to the board before.
PatchBoard(new) ==
    cardProperties' = PatchCardProperties(CardPropertiesPatch(new, cardProperties), cardProperties)
Replaced(t) == [k \in DOMAIN cardProperties |->
                  IF cardProperties[k].id = t.id THEN t ELSE cardProperties[k]]

\* changePropertyValue: a value that is not truthy removes the property.
WithValue(card, p, value) ==
    [card EXCEPT !.values = [q \in (DOMAIN @ \cup {p}) \ (IF IsTruthy(value) THEN {} ELSE {p}) |->
                               IF q = p THEN value ELSE @[q]]]
SetValues(S, p, value) ==
    cards' = [c \in DOMAIN cards |-> IF c \in S THEN WithValue(cards[c], p, value) ELSE cards[c]]

PatchView(v, view) == views' = [views EXCEPT ![v] = view]

\* indexOf and splice, which count from 0 and take -1 for the last place.
IndexOf(s, x) == IF x \notin ToSet(s) THEN -1
                 ELSE (CHOOSE k \in DOMAIN s : s[k] = x /\ \A j \in 1 .. k - 1 : s[j] # x) - 1
Splice(s, index, inserted) ==
    LET at == CASE index < 0 /\ Len(s) > 0 -> Len(s) + index
                [] index < 0 /\ Len(s) = 0 -> 0
                [] index > Len(s) -> Len(s)
                [] OTHER -> index
    IN  SubSeq(s, 1, at) \o inserted \o SubSeq(s, at + 1, Len(s))
Distinct(s) == FoldLeft(LAMBDA r, x : IF Contains(r, x) THEN r ELSE Append(r, x), <<>>, s)
-----------------------------------------------------------------------------
EmptyFilter == [operation |-> "and", filters |-> <<>>]

\* createBoardView
CreateView(type, visible) ==
    [viewType |-> type, groupById |-> 0, sort |-> <<>>, visiblePropertyIds |-> visible,
     visibleOptionIds |-> <<>>, hiddenOptionIds |-> <<>>, collapsedOptionIds |-> <<>>,
     filter |-> EmptyFilter, cardOrder |-> <<>>]

\* A board with a select of two options and a text property, a kanban and a
\* table, and three cards, the second untitled: with the cards in the order of
\* the kanban or, when others were added to the table, some without a place in
\* it.  The kanban may be filtered by the first option, or hide the second one
\* while the table is sorted by the title.
Init ==
    \E name, other \in Names, order \in {<<1, 2, 3>>, <<2>>}, filtered, hides \in BOOLEAN :
      /\ name < other
      /\ filtered => order = <<2>>
      /\ cardProperties = <<[id |-> 1, type |-> "select",
                             options |-> <<[id |-> 3, value |-> name], [id |-> 4, value |-> other]>>],
                            [id |-> 2, type |-> "text", options |-> <<>>]>>
      /\ cards = [c \in 1 .. 3 |->
                    [title |-> IF c = 2 THEN 0 ELSE 1000 - c,
                     values |-> CASE c = 1 -> <<One(3), One(name)>>
                                  [] c = 2 -> <<One(IF filtered THEN 3 ELSE 4)>>
                                  [] OTHER -> <<>>]]
      /\ views = <<[CreateView("board", <<1>>) EXCEPT !.cardOrder = order,
                      !.filter.filters = IF filtered
                          THEN <<[prop |-> 1, condition |-> "includes", values |-> <<3>>]>> ELSE <<>>,
                      !.hiddenOptionIds = IF hides THEN <<4>> ELSE <<>>],
                   [CreateView("table", <<1, 2>>) EXCEPT !.groupById = 1,
                      !.sort = IF hides THEN <<[prop |-> Title, reversed |-> FALSE]>> ELSE <<>>]>>
      /\ edits = 0
      /\ done = Nothing
-----------------------------------------------------------------------------
(* Properties of the board.                                                *)

\* insertPropertyTemplate, from the menu of a column or of a card; the place
\* in the list of columns is that of the board's list, and the end for 0.
InsertProperty(v, index, type) ==
    /\ Edit
    /\ PatchBoard(Append(cardProperties, [id |-> NewId(0), type |-> type, options |-> <<>>]))
    /\ IF views[v].viewType = "table"
       THEN PatchView(v, [views[v] EXCEPT !.visiblePropertyIds =
                             Splice(@, IF index > 0 THEN index ELSE Len(@), <<NewId(0)>>)])
       ELSE UNCHANGED views
    /\ UNCHANGED cards

\* duplicatePropertyTemplate: the copy has the options of the original.
DuplicateProperty(v, t) ==
    /\ Edit
    /\ views[v].viewType = "table"
    /\ PatchBoard(Append(cardProperties, [t EXCEPT !.id = NewId(0)]))
    /\ PatchView(v, [views[v] EXCEPT !.visiblePropertyIds = Append(@, NewId(0))])
    /\ UNCHANGED cards

\* deleteProperty: the value goes from the cards the view shows; other cards,
\* filters, sort options and groupings keep the id.
DeleteProperty(v, t) ==
    /\ Edit
    /\ PatchBoard(SelectSeq(cardProperties, LAMBDA u : u.id # t.id))
    /\ views' = [w \in DOMAIN views |->
                   [views[w] EXCEPT !.visiblePropertyIds = Without(@, {t.id})]]
    /\ SetValues(FilteredCards(cards, views[v]), t.id, Absent)

\* insertPropertyOption, from "Add group" and, with the value of a card, from
\* the selector of a property.
InsertOption(t, name, S) ==
    /\ Edit
    /\ t.type \in SelectTypes
    /\ PatchBoard(Replaced([t EXCEPT !.options = Append(@, [id |-> NewId(0), value |-> name])]))
    /\ cards' = [c \in DOMAIN cards |->
          IF c \notin S THEN cards[c]
          ELSE WithValue(cards[c], t.id,
                 IF t.type = "select" THEN One(NewId(0))
                 ELSE Many(Append(SelectSeq(IF ValueOf(cards[c], t.id).many
                                            THEN ValueOf(cards[c], t.id).items ELSE <<>>,
                                            LAMBDA o : o \in OptionIds(t)), NewId(0))))]
    /\ UNCHANGED views

\* deletePropertyOption: cards keep the id of the option.
DeleteOption(t, o) ==
    /\ Edit
    /\ PatchBoard(Replaced([t EXCEPT !.options = SelectSeq(@, LAMBDA x : x.id # o)]))
    /\ UNCHANGED <<cards, views>>

RenameOption(t, o, name) ==
    /\ Edit
    /\ PatchBoard(Replaced([t EXCEPT !.options =
                      [k \in DOMAIN @ |-> IF @[k].id = o THEN [@[k] EXCEPT !.value = name] ELSE @[k]]]))
    /\ UNCHANGED <<cards, views>>

\* The first string of a value; a list without one has none.
FirstOf(v) == UpToOne(v.items)

\* Mutant: the options are not taken over.
ConvertedOptionsLost(t, type, shown) == <<>>

\* The options after a change of type: those of a select survive when the view
\* shows a card; those of a text are made from the texts of the shown cards.
ConvertedOptions(t, type, shown) ==
    LET texts == Distinct(FlattenSeq([k \in DOMAIN shown |-> ValueOf(cards[shown[k]], t.id).items]))
    IN  CASE type \notin SelectTypes -> <<>>
          [] type \in SelectTypes /\ t.type = "text" ->
                [k \in DOMAIN texts |-> [id |-> NewId(k), value |-> texts[k]]]
          [] OTHER -> IF shown = <<>> THEN <<>> ELSE t.options

ConvertedValue(t, type, options, v) ==
    LET kept == CASE t.type \in PersonTypes /\ type \in PersonTypes -> FirstOf(v)
                  [] t.type \in SelectTypes /\ type \in SelectTypes ->
                        SelectSeq(FirstOf(v), LAMBDA o : o \in OptionIds(t))
                  [] t.type = "text" /\ type \in SelectTypes ->
                        <<(CHOOSE x \in ToSet(options) : x.value = v.items[1]).id>>
                  [] OTHER -> <<>>
    IN  CASE kept = <<>> -> Absent
          [] kept # <<>> /\ type \in {"multiSelect", "multiPerson"} -> Many(kept)
          [] OTHER -> One(kept[1])

\* changePropertyTypeAndName: the values of the shown cards are converted; a
\* list without a string in it stays as it is.
ChangeType(v, t, type) ==
    /\ EditAs([op |-> "convert", view |-> v, property |-> t.id])
    /\ type # t.type
    /\ \E shown \in Shown(v) :
         LET options == ConvertedOptions(t, type, shown)
             converts(c) == /\ c \in ToSet(shown)
                            /\ ValueOf(cards[c], t.id).items # <<>>
         IN  /\ PatchBoard(Replaced([t EXCEPT !.type = type, !.options = options]))
             /\ cards' = [c \in DOMAIN cards |->
                   IF converts(c)
                   THEN WithValue(cards[c], t.id,
                                  ConvertedValue(t, type, options, ValueOf(cards[c], t.id)))
                   ELSE cards[c]]
    /\ UNCHANGED views
-----------------------------------------------------------------------------
(* Cards.                                                                  *)

\* What the editor of a property writes: multiselect.tsx leaves out the
\* options that are gone.
EditedValues(t, v) ==
    LET known == SelectSeq(IF v.many THEN v.items ELSE <<>>, LAMBDA o : o \in OptionIds(t))
    IN  CASE t.type = "select" -> {One(o) : o \in OptionIds(t)} \cup {Absent}
          [] t.type = "multiSelect" -> {Many(Append(known, o)) : o \in OptionIds(t) \ ToSet(known)}
                                       \cup {Many(Without(known, {o})) : o \in ToSet(known)}
          [] t.type = "multiPerson" -> {Many(<<n>>) : n \in Names} \cup {Many(<<>>)}
          [] OTHER -> {One(n) : n \in Names} \cup {Absent}

ChangeValue(c, t) ==
    /\ Edit
    /\ \E value \in EditedValues(t, ValueOf(cards[c], t.id)) :
         /\ value # ValueOf(cards[c], t.id)
         /\ SetValues({c}, t.id, value)
    /\ UNCHANGED <<cardProperties, views>>

DeleteCard(c) ==
    /\ Edit
    /\ cards' = [d \in DOMAIN cards \ {c} |-> cards[d]]
    /\ UNCHANGED <<cardProperties, views>>

\* Mutant: the option of the group gives way to the filter.
AddedValuesFilterFirst(v, o) ==
    LET meets == PropertiesThatMeetFilterGroup(views[v].filter, cardProperties)
    IN  [p \in DOMAIN meets \cup {GroupedBy(v).id : x \in {o} \ {NoOption}} |->
           IF p \in DOMAIN meets THEN meets[p] ELSE One(o)]

\* addCard: what meets the filter, and the option of the group it is added to.
AddedValues(v, o) ==
    LET meets == PropertiesThatMeetFilterGroup(views[v].filter, cardProperties)
        by == GroupedBy(v).id
    IN  IF GroupedBy(v) = NoTemplate THEN meets
        ELSE [p \in (DOMAIN meets \ {by}) \cup {by : x \in {o} \ {NoOption}} |->
                IF p = by THEN One(o) ELSE meets[p]]

AddCard(v, o) ==
    /\ EditAs([op |-> "add", view |-> v, option |-> o])
    /\ cards' = [c \in DOMAIN cards \cup {NewId(0)} |->
                   IF c = NewId(0) THEN [title |-> 0, values |-> AddedValues(v, o)] ELSE cards[c]]
    /\ PatchView(v, [views[v] EXCEPT !.cardOrder = Append(@, NewId(0))])
    /\ UNCHANGED cardProperties

\* orderAfterMoveToColumn: after the last card of the column; when that card has
\* no order, or moves itself, indexOf answers -1 and the cards go to the front.
OrderAfterMoveToColumn(v, shown, dragged, o) ==
    LET groups == Groups(v, shown).visible
        column == FlattenSeq([k \in DOMAIN groups |-> IF groups[k].option = o THEN groups[k].cards ELSE <<>>])
        rest == Without(views[v].cardOrder, ToSet(dragged))
    IN  IF column = <<>> THEN views[v].cardOrder
        ELSE Splice(rest, IndexOf(rest, Last(column)) + 1, dragged)

\* kanban.tsx onDropToColumn, of cards dropped on a column, or of the header of
\* a column while cards are selected.  Selected cards the view does not show
\* move in the order only.
DropToColumn(v, dragged, o) ==
    /\ Edit
    /\ views[v].viewType = "board"
    /\ GroupedBy(v) # NoTemplate
    /\ \E shown \in Shown(v) :
         /\ o \in GroupIds(Groups(v, shown).visible)
         /\ SetValues(ToSet(dragged) \cap ToSet(shown), GroupedBy(v).id,
                      IF o = NoOption THEN Absent ELSE One(o))
         /\ PatchView(v, [views[v] EXCEPT !.cardOrder = OrderAfterMoveToColumn(v, shown, dragged, o)])
    /\ UNCHANGED cardProperties

\* Mutant: the place is counted before the dragged cards are taken out.
OrderAfterDropTooFar(v, shown, dragged, src, dst) ==
    LET old == IF views[v].viewType = "board" THEN shown
               ELSE Distinct(views[v].cardOrder \o shown)
        down == IndexOf(old, src) <= IndexOf(old, dst)
    IN  Splice(Without(old, ToSet(dragged)), IndexOf(old, dst) + (IF down THEN 1 ELSE 0), dragged)

\* The order after a drop on a card: kanban.tsx begins with the shown cards,
\* table.tsx with the order of the view, which the other shown cards follow.
OrderAfterDropToCard(v, shown, dragged, src, dst) ==
    LET old == IF views[v].viewType = "board" THEN shown
               ELSE Distinct(views[v].cardOrder \o shown)
        by == GroupedBy(v).id
        down == /\ IndexOf(old, src) <= IndexOf(old, dst)
                /\ views[v].viewType = "board" => ValueOf(cards[src], by) = ValueOf(cards[dst], by)
        rest == Without(old, ToSet(dragged))
    IN  Splice(rest, IndexOf(rest, dst) + (IF down THEN 1 ELSE 0), dragged)

\* kanban.tsx onDropToCard
DropToCard(v, dragged, src, dst) ==
    /\ EditAs([op |-> "drop", view |-> v, dragged |-> dragged, dst |-> dst])
    /\ views[v].viewType = "board"
    /\ GroupedBy(v) # NoTemplate
    /\ src # dst
    /\ \E shown \in Shown(v) :
         /\ {src, dst} \subseteq ToSet(shown)
         /\ SetValues(ToSet(dragged) \cap ToSet(shown), GroupedBy(v).id,
                      ValueOf(cards[dst], GroupedBy(v).id))
         /\ PatchView(v, [views[v] EXCEPT !.cardOrder = OrderAfterDropToCard(v, shown, dragged, src, dst)])
    /\ UNCHANGED cardProperties

\* The cards table.tsx has changed when it meets one the view does not show, or
\* the property the view is grouped by does not exist, and throws.
ChangedBeforeThrow(v, shown, dragged) ==
    {dragged[k] : k \in {k \in DOMAIN dragged : /\ GroupedBy(v) # NoTemplate
                                                /\ \A j \in 1 .. k : dragged[j] \in ToSet(shown)}}

\* table.tsx onDropToCard, onDropToGroup
DropToRow(v, dragged, src, dst) ==
    /\ EditAs([op |-> "drop", view |-> v, dragged |-> dragged, dst |-> dst])
    /\ views[v].viewType = "table"
    /\ views[v].sort = <<>> \/ views[v].groupById # 0
    /\ src # dst
    /\ \E shown \in Shown(v) :
         /\ {src, dst} \subseteq ToSet(shown)
         /\ SetValues(ChangedBeforeThrow(v, shown, dragged), GroupedBy(v).id,
                      ValueOf(cards[dst], GroupedBy(v).id))
         /\ IF views[v].sort = <<>>
            THEN PatchView(v, [views[v] EXCEPT !.cardOrder =
                                  OrderAfterDropToCard(v, shown, dragged, src, dst)])
            ELSE UNCHANGED views
    /\ UNCHANGED cardProperties

\* table.tsx onDropToGroup, of a card on the header of a group: the card comes
\* before the first one of the group and keeps its old place in the order too.
DropToGroup(v, dragged, o) ==
    /\ Edit
    /\ views[v].viewType = "table"
    /\ views[v].groupById # 0
    /\ \E shown \in Shown(v) :
         LET order == Distinct(views[v].cardOrder \o shown)
             group == SelectSeq(shown, LAMBDA c : ValueOf(cards[c], views[v].groupById) = One(o))
         IN  /\ o \in GroupIds(Groups(v, shown).visible)
             /\ Last(dragged) \in ToSet(shown)
             /\ SetValues(ChangedBeforeThrow(v, shown, dragged), GroupedBy(v).id,
                          IF o = NoOption THEN Absent ELSE One(o))
             /\ IF views[v].sort = <<>> /\ group # <<>>
                THEN PatchView(v, [views[v] EXCEPT !.cardOrder =
                                      Splice(order, IndexOf(order, group[1]), dragged)])
                ELSE UNCHANGED views
    /\ UNCHANGED cardProperties
-----------------------------------------------------------------------------
(* Views.                                                                  *)

EditView(v, view) ==
    /\ Edit
    /\ PatchView(v, view)
    /\ UNCHANGED <<cardProperties, cards>>

\* viewHeaderPropertiesMenu.tsx; tableHeaderMenu.tsx hides in the same way.
ToggleProperty(v, p) ==
    EditView(v, [views[v] EXCEPT !.visiblePropertyIds =
                    IF Contains(@, p) THEN Without(@, {p}) ELSE Append(@, p)])

\* changeViewVisiblePropertiesOrder: p is dropped on the header of q.
MoveProperty(v, p, q) ==
    /\ views[v].viewType = "table"
    /\ p \in ToSet(views[v].visiblePropertyIds)
    /\ EditView(v, [views[v] EXCEPT !.visiblePropertyIds =
                       Splice(Without(@, {p}), IF q = Title THEN 0 ELSE IndexOf(@, q), <<p>>)])

\* viewHeaderGroupByMenu.tsx
GroupBy(v, p) ==
    /\ p # views[v].groupById
    /\ p # 0 => CanGroup(Template(cardProperties, p))
    /\ p = 0 => views[v].viewType = "table"
    /\ EditView(v, [views[v] EXCEPT !.groupById = p])

HideViewColumns(v, ids) ==
    /\ \E o \in ids : ~Contains(views[v].hiddenOptionIds, o)
    /\ EditView(v, [views[v] EXCEPT !.visibleOptionIds = Without(@, ids),
                                    !.hiddenOptionIds = @ \o SetToSeq(ids)])

UnhideViewColumns(v, ids) ==
    /\ \E o \in ids : ~Contains(views[v].visibleOptionIds, o)
    /\ EditView(v, [views[v] EXCEPT !.hiddenOptionIds = Without(@, ids),
                                    !.visibleOptionIds = Without(@, ids) \o SetToSeq(ids)])

\* One group, or all the empty ones of a table.
HideColumns(v) ==
    \E shown \in Shown(v) :
       LET visible == Groups(v, shown).visible
           empty == {visible[k].option : k \in {k \in DOMAIN visible : visible[k].cards = <<>>}}
       IN  \/ \E o \in GroupIds(visible) : HideViewColumns(v, {o})
           \/ /\ views[v].viewType = "table" /\ views[v].groupById # 0
              /\ HideViewColumns(v, empty)

\* One hidden group, or all of them.
UnhideColumns(v) ==
    \E shown \in Shown(v) :
       LET hidden == GroupIds(Groups(v, shown).hidden)
       IN  \/ \E o \in hidden : UnhideViewColumns(v, {o})
           \/ /\ views[v].viewType = "table" /\ views[v].groupById # 0
              /\ UnhideViewColumns(v, hidden)

\* The header of group o is dropped on that of group d: kanban.tsx rearranges
\* with dragAndDropRearrange, table.tsx with splice.
MoveColumn(v, o, d) ==
    \E shown \in Shown(v) :
       LET groups == Groups(v, shown).visible
           ids == [k \in DOMAIN groups |-> groups[k].option]
           at == IndexOf(ids, d)
           onItself == views[v].viewType = "board" /\ o = d
       IN  /\ {o, d} \subseteq ToSet(ids)
           /\ EditView(v, [views[v] EXCEPT !.visibleOptionIds =
                              Splice(Without(ids, {o}), IF onItself THEN at + 1 ELSE at, <<o>>)])

\* table.tsx hideGroup; the header of the group without a value says 'undefined'.
CollapseGroup(v, o) ==
    LET id == IF o = NoOption THEN UndefinedKey ELSE o
    IN  /\ views[v].viewType = "table"
        /\ \E shown \in Shown(v) : o \in GroupIds(Groups(v, shown).visible)
        /\ EditView(v, [views[v] EXCEPT !.collapsedOptionIds =
                           IF Contains(@, id) THEN Without(@, {id}) ELSE Append(@, id)])

\* changeViewSortOptions, from the menus; RevertSort goes back to the order of
\* the view.
SortBy(v, p, reversed) ==
    EditView(v, [views[v] EXCEPT !.sort = <<[prop |-> p, reversed |-> reversed]>>])
RevertSort(v) ==
    /\ views[v].sort # <<>>
    /\ EditView(v, [views[v] EXCEPT !.sort = <<>>])

\* viewHeaderSortMenu.tsx onManualSort: the shown order becomes the order.
ManualSort(v) ==
    /\ EditAs([op |-> "manual", view |-> v])
    /\ views[v].sort # <<>>
    /\ \E shown \in Shown(v) :
         PatchView(v, [views[v] EXCEPT !.sort = <<>>, !.cardOrder = shown])
    /\ UNCHANGED <<cardProperties, cards>>

\* filterComponent.tsx: a clause on the first property that has none.
AddFilter(v) ==
    LET free == SelectSeq(cardProperties, LAMBDA t :
                    \A k \in DOMAIN views[v].filter.filters : views[v].filter.filters[k].prop # t.id)
        prop == IF free = <<>> THEN 0 ELSE free[1].id
    IN  EditView(v, [views[v] EXCEPT !.filter.filters =
                        Append(@, [prop |-> prop, condition |-> "includes", values |-> <<>>])])

\* filterEntry.tsx and filterValue.tsx
ChangeFilter(v, k) ==
    LET clause == views[v].filter.filters[k]
    IN  \E changed \in
            {[clause EXCEPT !.condition = x] : x \in {"includes", "notIncludes", "isEmpty", "isNotEmpty"}}
            \cup {[clause EXCEPT !.prop = p, !.values = <<>>] : p \in TemplateIds(cardProperties)}
            \cup {[clause EXCEPT !.values = IF Contains(@, o) THEN Without(@, {o}) ELSE Append(@, o)] :
                     o \in UNION {OptionIds(t) : t \in {u \in ToSet(cardProperties) : u.id = clause.prop}}} :
          /\ changed # clause
          /\ EditView(v, [views[v] EXCEPT !.filter.filters[k] = changed])

RemoveFilter(v, k) ==
    EditView(v, [views[v] EXCEPT !.filter.filters = Without(@, {@[k]})])

\* viewMenu.tsx
AddView(type) ==
    /\ Edit
    /\ views' = Append(views, CreateView(type,
                   IF type = "table" THEN [k \in DOMAIN cardProperties |-> cardProperties[k].id] ELSE <<>>))
    /\ UNCHANGED <<cardProperties, cards>>

DuplicateView(v) ==
    /\ Edit
    /\ views' = Append(views, views[v])
    /\ UNCHANGED <<cardProperties, cards>>

DeleteView(v) ==
    /\ Edit
    /\ Len(views) > 1
    /\ views' = RemoveAt(views, v)
    /\ UNCHANGED <<cardProperties, cards>>
-----------------------------------------------------------------------------
Dragged == ({<<c>> : c \in DOMAIN cards}
           \cup {<<c, d>> : c \in DOMAIN cards, d \in DOMAIN cards}) \ {<<c, c>> : c \in DOMAIN cards}
GroupOptions == {NoOption, UndefinedKey} \cup Names
                \cup UNION {OptionIds(t) : t \in ToSet(cardProperties)}
ShownGroups(v) == UNION {GroupIds(Groups(v, shown).visible) : shown \in Shown(v)}

SchemaEdit ==
    \/ \E v \in DOMAIN views, index \in -1 .. Len(cardProperties), type \in Types :
          InsertProperty(v, index, type)
    \/ \E v \in DOMAIN views, t \in ToSet(cardProperties) :
          \/ DuplicateProperty(v, t)
          \/ DeleteProperty(v, t)
          \/ \E type \in Types : ChangeType(v, t, type)
    \/ \E t \in ToSet(cardProperties), name \in Names :
          \/ \E S \in {{}} \cup {{c} : c \in DOMAIN cards} : InsertOption(t, name, S)
          \/ \E o \in OptionIds(t) : RenameOption(t, o, name)
    \/ \E t \in ToSet(cardProperties) : \E o \in OptionIds(t) : DeleteOption(t, o)

\* What the header of a view offers, and the headers of its groups.
ViewEdit ==
    \/ \E v \in DOMAIN views :
          \/ \E p \in TemplateIds(cardProperties) : ToggleProperty(v, p)
          \/ \E p \in TemplateIds(cardProperties), q \in TemplateIds(cardProperties) \cup {Title} :
                MoveProperty(v, p, q)
          \/ \E p \in {0} \cup TemplateIds(cardProperties) : GroupBy(v, p)
          \/ HideColumns(v)
          \/ UnhideColumns(v)
          \/ \E o, d \in ShownGroups(v) : MoveColumn(v, o, d)
          \/ \E o \in ShownGroups(v) : CollapseGroup(v, o)
          \/ \E p \in {Title} \cup TemplateIds(cardProperties), reversed \in BOOLEAN :
                SortBy(v, p, reversed)
          \/ RevertSort(v)
          \/ ManualSort(v)
          \/ AddFilter(v)
          \/ \E k \in DOMAIN views[v].filter.filters : ChangeFilter(v, k) \/ RemoveFilter(v, k)
          \/ DuplicateView(v)
          \/ DeleteView(v)
    \/ \E type \in {"board", "table"} : AddView(type)

CardEdit ==
    \/ \E c \in DOMAIN cards :
          \/ DeleteCard(c)
          \/ \E t \in ToSet(cardProperties) : ChangeValue(c, t)
    \/ \E v \in DOMAIN views :
          \/ \E o \in {NoOption} \cup ShownGroups(v) : AddCard(v, o)
          \/ \E o \in ShownGroups(v), dragged \in Dragged :
                DropToColumn(v, dragged, o) \/ DropToGroup(v, dragged, o)
          \/ \E dragged \in Dragged, dst \in DOMAIN cards : \E src \in ToSet(dragged) :
                DropToCard(v, dragged, src, dst) \/ DropToRow(v, dragged, src, dst)

Next == edits < MaxEdits /\ (SchemaEdit \/ ViewEdit \/ CardEdit)

Spec == Init /\ [][Next]_vars
-----------------------------------------------------------------------------
(* Properties.                                                             *)

Values == [many : BOOLEAN, items : Seq(Int)]

\* The variables have the values the code gives them, and no two properties of
\* the board, and no two options of a property, have the same id; no view lists
\* a property as visible that the board does not have, or twice.
TypeOK ==
    /\ \A t \in ToSet(cardProperties) :
          /\ t.type \in AllTypes
          /\ \A o \in ToSet(t.options) : o.id \in Nat /\ o.value \in Names
          /\ Cardinality(OptionIds(t)) = Len(t.options)
    /\ Cardinality(TemplateIds(cardProperties)) = Len(cardProperties)
    /\ \A c \in DOMAIN cards : \A p \in DOMAIN cards[c].values : cards[c].values[p] \in Values
    /\ \A v \in DOMAIN views :
          /\ views[v].viewType \in {"board", "table"}
          /\ ToSet(views[v].visiblePropertyIds) \subseteq TemplateIds(cardProperties)
          /\ Cardinality(ToSet(views[v].visiblePropertyIds)) = Len(views[v].visiblePropertyIds)
    /\ edits \in 0 .. MaxEdits

GroupsOf(groups) == ToSet(groups.visible) \cup ToSet(groups.hidden)
Places(s, S) == {k \in DOMAIN s : s[k] \in S}

\* Every card that passes the filter of a view is in exactly one of its groups,
\* visible or hidden, and in it once, whatever was hidden, shown, moved,
\* deleted, converted or grouped before.
ShownOnce ==
    TypeOK /\ \A v \in DOMAIN views : \A shown \in Shown(v) :
       LET groups == Groups(v, shown).visible \o Groups(v, shown).hidden
       IN  \A c \in ToSet(shown) :
              \E k \in DOMAIN groups :
                 /\ Cardinality(Places(groups[k].cards, {c})) = 1
                 /\ \A j \in DOMAIN groups \ {k} : ~Contains(groups[j].cards, c)

\* The difference of two lists of properties undoes itself: the patch an
\* operation keeps for its undo brings back every property and option.
UndoRestores ==
    [][\A patch \in {CardPropertiesPatch(cardProperties, cardProperties')} :
          ToSet(PatchCardProperties(patch, cardProperties')) = ToSet(cardProperties)]_cardProperties

\* Cards dropped on a card under manual sort end up in its group, and no card
\* of the group is between them and it.
LandsNextTo(v, dragged, dst) ==
    \A shown \in ShownCards(cardProperties', cards', views'[v]) :
       \A g \in GroupsOf(VisibleAndHiddenGroups(cardProperties', cards', shown, views'[v])) :
          \A at \in {Places(g.cards, (ToSet(dragged) \cap ToSet(shown)) \cup {dst})} :
             dst \in ToSet(g.cards) =>
                /\ ToSet(dragged) \cap ToSet(shown) \subseteq ToSet(g.cards)
                /\ \A i, j \in at : i .. j \subseteq at

DropLandsNextTo ==
    [][(/\ done'.op = "drop"
        /\ views[done'.view].sort = <<>>
        /\ done'.dst \notin ToSet(done'.dragged)
        /\ ToSet(done'.dragged) \subseteq FilteredCards(cards, views[done'.view]))
       => LandsNextTo(done'.view, done'.dragged, done'.dst)]_vars

\* A card added to a group of a filtered view is shown in that group: the code
\* that fills in what the filter asks for and the filter agree, for clauses on
\* different properties, when the group meets those on the property the view is
\* grouped by.
Satisfiable(v, clause, o) ==
    LET by == GroupedBy(v).id
    IN  /\ clause.prop \in TemplateIds(cardProperties)
        /\ clause.prop = by =>
              IsClauseMet(clause, [title |-> 0, values |-> [p \in {by : x \in {o} \ {NoOption}} |-> One(o)]])
        /\ clause.condition = "isNotEmpty" =>
              LET t == Template(cardProperties, clause.prop)
              IN  clause.prop = by \/ (t.type = "select" /\ t.options # <<>>)

ShownInGroup(v, c, o) ==
    \A shown \in ShownCards(cardProperties', cards', views'[v]) :
       \E g \in GroupsOf(VisibleAndHiddenGroups(cardProperties', cards', shown, views'[v])) :
          c \in ToSet(g.cards) /\ (g.option = o \/ GroupedBy(v).type # "select")

AddedCardShown ==
    [][done'.op = "add" =>
         LET v == done'.view
             clauses == views[v].filter.filters
         IN  (/\ \A k \in DOMAIN clauses : Satisfiable(v, clauses[k], done'.option)
              /\ Cardinality({clauses[k].prop : k \in DOMAIN clauses}) = Len(clauses))
             => ShownInGroup(v, NewId(0), done'.option)]_vars

\* A card dropped or added is shown where the user put it.
CardsLandWhereAsked == DropLandsNextTo /\ AddedCardShown

\* What the first string of a value of a property means to the user.
Meaning(t, v) ==
    IF t.type \in SelectTypes
    THEN {o.value : o \in {x \in ToSet(t.options) : v.items # <<>> /\ x.id = v.items[1]}}
    ELSE ToSet(FirstOf(v))

\* A change between types that can hold the same meaning keeps it on the cards
\* the view shows, and touches no other property of any card.
ConversionKeepsMeaning ==
    [][done'.op = "convert" =>
         LET p == done'.property
             old == Template(cardProperties, p)
             new == Template(cardProperties', p)
             keeps == \/ {old.type, new.type} \subseteq SelectTypes
                      \/ {old.type, new.type} \subseteq PersonTypes
                      \/ old.type = "text" /\ new.type \in SelectTypes
         IN  \A c \in DOMAIN cards :
                /\ (keeps /\ c \in FilteredCards(cards, views[done'.view])) =>
                      Meaning(new, ValueOf(cards'[c], p)) = Meaning(old, ValueOf(cards[c], p))
                /\ \A q \in TemplateIds(cardProperties) \ {p} :
                      ValueOf(cards'[c], q) = ValueOf(cards[c], q)]_vars
=============================================================================
