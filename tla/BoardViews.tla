------------------------------ MODULE BoardViews ------------------------------
(***************************************************************************)
(* What the web client shows of a board: which cards pass the filter of a  *)
(* view (cardFilter.ts), in which order (store/cards.ts) and in which      *)
(* groups (boardUtils.ts), and the patches that carry a change of the      *)
(* properties of a board to the server (blocks/board.ts, model/board.go).  *)
(*                                                                         *)
(* Ids of properties, options and persons, and texts, are numbers.  The    *)
(* value of a property of a card is a string or a list of strings.         *)
(***************************************************************************)
EXTENDS Integers, FiniteSets, SequencesExt

\* The empty option id, which stands for "no value" in the lists of a view.
NoOption == 0
\* The key of the cards without a value when a view is grouped by a person.
UndefinedKey == -1
\* The id under which a view sorts or filters by the title.
Title == -2

One(x) == [many |-> FALSE, items |-> <<x>>]
Many(s) == [many |-> TRUE, items |-> s]
Absent == [many |-> FALSE, items |-> <<>>]

ValueOf(card, p) == IF p \in DOMAIN card.values THEN card.values[p] ELSE Absent
IsTruthy(v) == v.many \/ v.items # <<>>     \* in JavaScript a list is, also when empty

TemplateIds(templates) == {templates[k].id : k \in DOMAIN templates}
Template(templates, p) == CHOOSE t \in ToSet(templates) : t.id = p
OptionIds(t) == {t.options[k].id : k \in DOMAIN t.options}
Option(t, o) == CHOOSE x \in ToSet(t.options) : x.id = o
UpToOne(s) == IF s = <<>> THEN <<>> ELSE <<s[1]>>
Without(s, S) == SelectSeq(s, LAMBDA x : x \notin S)
-----------------------------------------------------------------------------
(* cardFilter.ts.  The menus build one group of clauses, joined by "and";  *)
(* boards made by other means may join them by "or".                       *)

IsClauseMet(clause, card) ==
    LET v == IF clause.prop = Title
             THEN (IF card.title = 0 THEN Absent ELSE One(card.title))
             ELSE ValueOf(card, clause.prop)
    IN  CASE clause.condition = "includes" ->
               clause.values = <<>> \/ ToSet(clause.values) \cap ToSet(v.items) # {}
          [] clause.condition = "notIncludes" ->
               clause.values = <<>> \/ ToSet(clause.values) \cap ToSet(v.items) = {}
          [] clause.condition = "isEmpty" -> v.items = <<>>
          [] clause.condition = "isNotEmpty" -> v.items # <<>>

IsFilterGroupMet(filter, card) ==
    \/ filter.filters = <<>>
    \/ /\ filter.operation = "or"
       /\ \E k \in DOMAIN filter.filters : IsClauseMet(filter.filters[k], card)
    \/ /\ filter.operation = "and"
       /\ \A k \in DOMAIN filter.filters : IsClauseMet(filter.filters[k], card)

\* The value a new card needs to meet a clause, as far as the code knows one.
ValueThatMeets(clause, templates) ==
    IF clause.prop \notin TemplateIds(templates) THEN Absent
    ELSE CASE clause.condition = "includes" /\ clause.values # <<>> ->
                One(Head(clause.values))
           [] /\ clause.condition = "isNotEmpty"
              /\ Template(templates, clause.prop).type = "select"
              /\ Template(templates, clause.prop).options # <<>> ->
                One(Head(Template(templates, clause.prop).options).id)
           [] OTHER -> Absent

PropertiesThatMeetFilterGroup(filter, templates) ==
    LET used == IF filter.operation = "or" THEN UpToOne(filter.filters) ELSE filter.filters
        sets(p) == {k \in DOMAIN used : /\ used[k].prop = p
                                        /\ ValueThatMeets(used[k], templates) # Absent}
    IN  [p \in {q \in {used[k].prop : k \in DOMAIN used} : sets(q) # {}} |->
            ValueThatMeets(used[CHOOSE k \in sets(p) : \A j \in sets(p) : j <= k], templates)]
-----------------------------------------------------------------------------
(* store/cards.ts.  Each comparison says whether card a goes before b.     *)

TitleBefore(cards, a, b) ==
    LET ta == cards[a].title
        tb == cards[b].title
    IN  CASE ta # 0 /\ tb # 0 -> ta < tb
          [] ta # 0 /\ tb = 0 -> TRUE
          [] ta = 0 /\ tb # 0 -> FALSE
          [] OTHER -> a < b          \* by the time of creation

\* indexOf answers -1 for a card without an order: an ordered card compared
\* with it is found to come after it, and it after the ordered card.
ManualBefore(cards, order, a, b) ==
    LET at(c) == IF c \notin ToSet(order) THEN -1
                 ELSE (CHOOSE k \in DOMAIN order : /\ order[k] = c
                                                  /\ \A j \in 1 .. k - 1 : order[j] # c) - 1
    IN  IF at(a) < 0 THEN at(b) < 0 /\ TitleBefore(cards, a, b) ELSE at(a) < at(b)

PropertyBefore(cards, t, reversed, a, b) ==
    LET va == ValueOf(cards[a], t.id).items
        vb == ValueOf(cards[b], t.id).items
        key(v) == IF t.type \notin {"select", "multiSelect"} THEN v[1]
                  ELSE IF v[1] \in OptionIds(t) THEN Option(t, v[1]).value ELSE 0
        before(x, kx, y, ky) == kx < ky \/ (kx = ky /\ TitleBefore(cards, x, y))
    IN  CASE va # <<>> /\ vb = <<>> -> TRUE
          [] va = <<>> /\ vb # <<>> -> FALSE
          [] va = <<>> /\ vb = <<>> -> TitleBefore(cards, a, b)
          [] reversed -> before(b, key(vb), a, key(va))
          [] OTHER -> before(a, key(va), b, key(vb))

Before(templates, cards, view, a, b) ==
    CASE view.sort = <<>> -> ManualBefore(cards, view.cardOrder, a, b)
      [] view.sort # <<>> /\ view.sort[1].prop = Title ->
            IF view.sort[1].reversed THEN TitleBefore(cards, b, a) ELSE TitleBefore(cards, a, b)
      [] view.sort # <<>> /\ view.sort[1].prop \in TemplateIds(templates) ->
            PropertyBefore(cards, Template(templates, view.sort[1].prop), view.sort[1].reversed, a, b)
      [] OTHER -> FALSE              \* the property is gone: the cards stay as they are

Permuted == [n \in 0 .. 5 |-> {f \in [1 .. n -> 1 .. n] : \A i, j \in 1 .. n : f[i] = f[j] => i = j}]

\* What Array.sort may answer.  An order has one sorted sequence; when the
\* comparison is no order the result is up to the implementation, which has
\* compared the neighbours.
Sorted(templates, cards, view, S) ==
    LET n == Cardinality(S)
        before == {p \in S \X S : p[1] # p[2] /\ Before(templates, cards, view, p[1], p[2])}
        isOrder == \A a, b \in S : a # b => (<<a, b>> \in before <=> <<b, a>> \notin before)
        sorted == [k \in 1 .. n |-> CHOOSE c \in S : Cardinality({d \in S : <<d, c>> \in before}) = k - 1]
        byId == [k \in 1 .. n |-> CHOOSE c \in S : Cardinality({d \in S : d < c}) = k - 1]
    IN  IF isOrder THEN {sorted}
        ELSE {s \in {[k \in 1 .. n |-> byId[f[k]]] : f \in Permuted[n]} :
                \A k \in 1 .. n - 1 : <<s[k + 1], s[k]>> \notin before}

FilteredCards(cards, view) ==
    {c \in DOMAIN cards : IsFilterGroupMet(view.filter, cards[c])}

\* The cards a view shows, in each order it may show them.
ShownCards(templates, cards, view) ==
    Sorted(templates, cards, view, FilteredCards(cards, view))
-----------------------------------------------------------------------------
(* boardUtils.ts and workspace.tsx.                                        *)

NoTemplate == [id |-> 0, type |-> "unknown", options |-> <<>>]
CanGroup(t) == t.type \in {"select", "person"}

\* A kanban that is grouped by no suitable property takes the first suitable one.
GroupByProperty(templates, view) ==
    LET named == SelectSeq(templates, LAMBDA t : t.id = view.groupById)
        first == SelectSeq(templates, CanGroup)
    IN  CASE named # <<>> /\ (CanGroup(named[1]) \/ view.viewType # "board") -> named[1]
          [] view.viewType = "board" /\ (named = <<>> \/ ~CanGroup(named[1])) /\ first # <<>> -> first[1]
          [] OTHER -> NoTemplate

PersonKey(card, t) ==
    LET v == ValueOf(card, t.id)
    IN  CASE v.items # <<>> -> v.items[1]
          [] v.items = <<>> /\ v.many -> NoOption
          [] OTHER -> UndefinedKey

PersonGroups(cards, t, shown, view) ==
    LET keys == FoldLeft(LAMBDA s, c : IF Contains(s, PersonKey(cards[c], t)) THEN s
                                       ELSE Append(s, PersonKey(cards[c], t)), <<>>, shown)
        hides(k) == k # NoOption /\ Contains(view.hiddenOptionIds, k)
        group(k) == [option |-> k, cards |-> SelectSeq(shown, LAMBDA c : PersonKey(cards[c], t) = k)]
        groups(ids) == [k \in DOMAIN ids |-> group(ids[k])]
    IN  [visible |-> groups(SelectSeq(keys, LAMBDA k : ~hides(k))),
         hidden |-> groups(SelectSeq(keys, hides))]

\* Mutant: the cards whose option was deleted are in no group.
GroupCardsEmptyOnly(cards, t, shown, ids) ==
    LET known == SelectSeq(ids, LAMBDA o : o \in OptionIds(t) \cup {NoOption})
    IN  [k \in DOMAIN known |->
          [option |-> known[k],
           cards |-> SelectSeq(shown, LAMBDA c :
              IF known[k] = NoOption THEN ValueOf(cards[c], t.id).items = <<>>
              ELSE ValueOf(cards[c], t.id) = One(known[k]))]]

\* A list of an id is no id: it belongs to the group of the cards without a value.
GroupCardsByOptions(cards, t, shown, ids) ==
    LET known == SelectSeq(ids, LAMBDA o : o \in OptionIds(t) \cup {NoOption})
        isOf(c, o) == ValueOf(cards[c], t.id) = One(o)
    IN  [k \in DOMAIN known |->
          [option |-> known[k],
           cards |-> SelectSeq(shown, LAMBDA c :
              IF known[k] = NoOption THEN \A o \in OptionIds(t) : ~isOf(c, o)
              ELSE isOf(c, known[k]))]]

OptionGroups(cards, t, shown, view) ==
    LET listed == ToSet(view.visibleOptionIds) \cup ToSet(view.hiddenOptionIds)
        options == [k \in DOMAIN t.options |-> t.options[k].id]
        visible == view.visibleOptionIds \o Without(options, listed)
        withEmpty == IF NoOption \in listed THEN visible ELSE <<NoOption>> \o visible
    IN  [visible |-> GroupCardsByOptions(cards, t, shown, withEmpty),
         hidden |-> GroupCardsByOptions(cards, t, shown, view.hiddenOptionIds)]

VisibleAndHiddenGroups(templates, cards, shown, view) ==
    LET t == GroupByProperty(templates, view)
    IN  IF t.type = "person" THEN PersonGroups(cards, t, shown, view)
        ELSE OptionGroups(cards, t, shown, view)
-----------------------------------------------------------------------------
(* blocks/board.ts: the difference between two lists of properties; and    *)
(* BoardPatch.Patch of the server, which applies it.                       *)

IsPropertyEqual(a, b) ==
    /\ a.type = b.type
    /\ Len(a.options) = Len(b.options)
    /\ \A o \in ToSet(a.options) : o \in ToSet(b.options)

\* Mutant: the undo of a deletion does not bring back what was deleted.
PatchOfChanged(new, old) ==
    [updated |-> SelectSeq(new, LAMBDA t :
        t.id \in TemplateIds(old) /\ ~IsPropertyEqual(t, Template(old, t.id))),
     deleted |-> {t.id : t \in ToSet(old)} \ TemplateIds(new)]

CardPropertiesPatch(new, old) ==
    [updated |-> SelectSeq(new, LAMBDA t :
        t.id \in TemplateIds(old) => ~IsPropertyEqual(t, Template(old, t.id))),
     deleted |-> TemplateIds(old) \ TemplateIds(new)]

PatchCardProperties(patch, templates) ==
    LET kept == SelectSeq(templates, LAMBDA t : t.id \notin patch.deleted)
        replaced == [k \in DOMAIN kept |->
            IF kept[k].id \in TemplateIds(patch.updated) THEN Template(patch.updated, kept[k].id)
            ELSE kept[k]]
    IN  replaced \o SelectSeq(patch.updated, LAMBDA t : t.id \notin TemplateIds(kept))
=============================================================================
