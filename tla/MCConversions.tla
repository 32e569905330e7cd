---------------------------- MODULE MCConversions ----------------------------
EXTENDS Conversions, Dates, TLC
CONSTANTS ann, ben
ThreeDays == 3 .. 5
\* Auckland as its clocks go forward on day 4, Lisbon as they go back, and the
\* west of the date line.
ThreeZones ==
    LET Z(std, dst, from, to) == [std |-> std, dst |-> dst, from |-> from, to |-> to]
    IN  {Z(-12, -13, 86, 1000), Z(0, -1, 1, 97), Z(11, 11, 0, 0)}
NoonsAndOthers == {84, 110}
CreatedAt == {96, 98, 108, 119}
AnyUser == Permutations(Users)

\* A behaviour is of one of the two parts; the other one rests.
NoJob == [tool |-> "none"]
MCInit == \/ /\ DatesInit
             /\ job = NoJob /\ step = "done" /\ result = <<>>
          \/ /\ ConversionsInit
             /\ zone = [u \in Users |-> CHOOSE z \in Zones : z.std = 0]
             /\ date = NoDate /\ filter = None
             /\ dialog = [u \in Users |-> Closed]
MCNext == \/ job = NoJob /\ DatesNext /\ UNCHANGED conversionVars
          \/ ConversionsNext /\ UNCHANGED dateVars
MCSpec == MCInit /\ [][MCNext]_<<conversionVars, dateVars>>

UpTo(n, S) == UNION {[1 .. k -> S] : k \in 0 .. n}

Lists == <<[id |-> 1, name |-> "Todo"], [id |-> 2, name |-> "Done"]>>
Checklists == <<[id |-> 5, items |-> <<[name |-> "one", complete |-> TRUE], [name |-> "two", complete |-> FALSE]>>],
                [id |-> 6, items |-> <<[name |-> "three", complete |-> FALSE]>>]>>
SomeTrello ==
    {[name |-> "Board", lists |-> Lists, checklists |-> Checklists, cards |-> cards] :
        cards \in UpTo(2, [name : {"x"}, desc : {"", "text"}, idList : {0, 1, 2, 9}, idChecklists : {<<>>, <<6, 5>>, <<7>>}])}

Stack(k, cards) == [id |-> k, title |-> Lists[k].name, cards |-> cards]
DeckCards(k) == UpTo(1, [title : {"x"}, stackId : {k, 9}, labels : {<<>>, <<8, 7>>, <<4>>}, duedate : {"", "day"},
                         description : {"", "text"}, comments : {<<>>, <<"first", "second">>}])
SomeDecks ==
    {[title |-> "Deck", stacks |-> <<Stack(1, a), Stack(2, b)>>,
      labels |-> <<[id |-> 7, title |-> "red"], [id |-> 8, title |-> "blue"]>>] : a \in DeckCards(1), b \in DeckCards(2)}

Projects == <<[id |-> 1, name |-> "Inbox"], [id |-> 2, name |-> "P"], [id |-> 3, name |-> "Q"]>>
Sections == {<<>>, <<[id |-> 4, project |-> 2, name |-> "Todo"]>>, <<[id |-> 4, project |-> 2, name |-> "No Status"]>>,
             <<[id |-> 5, project |-> 3, name |-> "Done"], [id |-> 4, project |-> 2, name |-> "Todo"]>>}
Items == UNION {[1 .. n -> {[id |-> 1, project |-> p, section |-> s, content |-> "x"] : p \in 1 .. 3, s \in {0}}
                           \cup {[id |-> 2, project |-> 2, section |-> 4, content |-> "y"]}] : n \in 0 .. 2}
SomeTodoist ==
    {[projects |-> projects, sections |-> sections, items |-> items, notes |-> notes] :
        projects \in {Projects, <<Projects[2]>>, <<Projects[3], Projects[2]>>}, sections \in Sections, items \in Items,
        notes \in {<<>>, <<[item |-> 2, content |-> "a"], [item |-> 1, content |-> "b"], [item |-> 2, content |-> "c"]>>}}

SomeAsana ==
    UpTo(2, [name : {"x"}, notes : {"", "text"},
             projects : {<<>>, <<"P">>, <<"Q", "P">>},
             memberships : {<<>>, <<[project |-> "P", section |-> "Todo"]>>,
                            <<[project |-> "Q", section |-> "Done"], [project |-> "P", section |-> "Done"]>>}])

SomeJira == UpTo(3, [summary : {"x"}, values : [{"Status", "Type"} -> {"", "a", "b"}], link : {"url"}, created : {""}, description : {""}])
            \cup UpTo(2, [summary : {"x"}, values : {[Priority |-> "high"]}, link : {"", "url"}, created : {"", "day"},
                          description : {"", "text"}])

SomeNotion ==
    {[title |-> "Notion", columns |-> <<"Name", "Status", "Tag">>, rows |-> rows, files |-> files] :
        rows \in UNION {[1 .. n -> {<<t, s, k>> : t \in {"x", "y"}, s \in {"", "a", "b"}, k \in {"", "a"}}] : n \in 1 .. 3},
        files \in {<<>>, <<[title |-> "y", text |-> "of y"], [title |-> "x", text |-> "of x"]>>}}

Texts == {<<>>, <<"a">>, <<"a", Comma, "b">>, <<Quote, "a">>, <<Hash, "a">>, <<Blank, "a">>}
Templates == <<[id |-> 1, name |-> <<"Note">>, type |-> "text", options |-> <<>>],
               [id |-> 2, name |-> <<"Tags">>, type |-> "multiSelect",
                options |-> <<[id |-> 21, value |-> <<"red">>], [id |-> 22, value |-> <<"blue">>]>>],
               [id |-> 3, name |-> <<"Size">>, type |-> "number", options |-> <<>>],
               [id |-> 4, name |-> <<"Stage">>, type |-> "select", options |-> <<[id |-> 41, value |-> <<"open">>]>>]>>
Valued(note, tags, size, stage) ==
    (IF note = <<>> THEN <<>> ELSE 1 :> One(note)) @@ (IF tags = <<>> THEN <<>> ELSE 2 :> Many(tags))
    @@ (IF size = <<>> THEN <<>> ELSE 3 :> One(size)) @@ (IF stage = 0 THEN <<>> ELSE 4 :> One(stage))
TableCards == {[title |-> title, values |-> Valued(note, tags, size, stage)] :
                 title \in Texts, note \in Texts, tags \in {<<>>, <<22, 21>>}, size \in {<<>>, <<"7">>}, stage \in {0, 41}}
SomeTables == {[templates |-> Templates, cards |-> <<c>>] : c \in TableCards}
              \cup {[templates |-> Templates, cards |-> <<c, d>>] :
                       c \in {e \in TableCards : e.values = <<>>}, d \in {e \in TableCards : 2 \notin DOMAIN e.values}}

SomeColumns ==
    [type : {"number"}, values : UpTo(4, {Absent, One(150), One(-1), One(400), One(401)})]
    \cup [type : {"multiSelect"}, values : UpTo(3, {Absent, Many(<<>>), Many(<<1>>), Many(<<1, 2>>), Many(<<3>>)})]
    \cup [type : {"checkbox"}, values : UNION {[1 .. k -> {Absent, One(1)}] : k \in 0 .. 8}]
    \cup [type : {"date"}, values : UpTo(3, {Absent} \cup {One(DateText(f, t)) : f \in {0, 5, 7}, t \in {0, 6}})]

SomeMenus == {[k \in DOMAIN types |-> [id |-> k, type |-> types[k]]] :
                 types \in UpTo(3, {"text", "number", "checkbox", "date", "createdTime", "updatedTime"})}
=============================================================================
