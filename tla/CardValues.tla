------------------------------ MODULE CardValues ------------------------------
(***************************************************************************)
(* What the web client computes from the values of cards: the calculations *)
(* under the columns of a table or a kanban board                          *)
(* (calculations/calculations.ts), and the CSV file of a table, exported   *)
(* and read again (csvExporter.ts).                                        *)
(*                                                                         *)
(* Calculations work on a sequence with one value per card, as in          *)
(* BoardViews; a number is given in hundredths and shown with two          *)
(* decimals.  In a CSV file a cell is a sequence of characters.            *)
(***************************************************************************)
EXTENDS BoardViews

CardsWithValue(values) == SelectSeq(values, IsTruthy)
CountEmpty(values) == Len(values) - Len(CardsWithValue(values))
CountNotEmpty(values) == Len(CardsWithValue(values))

\* Number.toFixed(0) and Math.round of a share in percent: both round a half up.
Percent(part, whole) == (200 * part + whole) \div (2 * whole)
PercentEmpty(values) == IF values = <<>> THEN -1 ELSE Percent(CountEmpty(values), Len(values))
PercentNotEmpty(values) == IF values = <<>> THEN -1 ELSE Percent(CountNotEmpty(values), Len(values))

CountValue(type, values) ==
    IF type = "multiSelect" THEN FoldLeft(LAMBDA n, v : n + Len(v.items), 0, CardsWithValue(values))
    ELSE Len(CardsWithValue(values))
CountUnchecked(values) == Len(values) - CountValue("checkbox", values)
PercentChecked(values) == Percent(CountValue("checkbox", values), Len(values))
PercentUnchecked(values) == Percent(CountUnchecked(values), Len(values))
CountUniqueValue(values) == Cardinality(UNION {ToSet(values[k].items) : k \in DOMAIN values})

Numbers(values) == [k \in DOMAIN CardsWithValue(values) |-> CardsWithValue(values)[k].items[1]]
Total(values) == FoldLeft(LAMBDA n, x : n + x, 0, Numbers(values))
\* Math.round of a quotient.
Rounded(a, b) == (2 * a + b) \div (2 * b)
Average(values) == IF Numbers(values) = <<>> THEN 0 ELSE Rounded(Total(values), Len(Numbers(values)))

\* Mutant: of two in the middle the greater is taken.
MedianTooFar(values) ==
    LET sorted == SortSeq(Numbers(values), <)
    IN  IF sorted = <<>> THEN 0 ELSE sorted[Len(sorted) \div 2 + 1]
Median(values) ==
    LET sorted == SortSeq(Numbers(values), <)
        half == Len(sorted) \div 2
    IN  IF sorted = <<>> THEN 0
        ELSE IF Len(sorted) % 2 = 0 THEN Rounded(sorted[half + 1] + sorted[half], 2)
        ELSE sorted[half + 1]
Least(values) == IF Numbers(values) = <<>> THEN 0 ELSE SortSeq(Numbers(values), <)[1]
Greatest(values) == IF Numbers(values) = <<>> THEN 0 ELSE Last(SortSeq(Numbers(values), <))

\* earliest, latest and dateRange, of date values; their text is 100 from + to,
\* with 0 for none.  -1 is the infinity nothing is shown for.
DateText(from, to) == 100 * from + to
Timestamps(values) ==
    (UNION {{v.items[1] \div 100, v.items[1] % 100} : v \in ToSet(CardsWithValue(values))}) \ {0}
Earliest(values) == IF Timestamps(values) = {} THEN -1
                    ELSE CHOOSE t \in Timestamps(values) : \A u \in Timestamps(values) : t <= u
Latest(values) == IF Timestamps(values) = {} THEN -1
                  ELSE CHOOSE t \in Timestamps(values) : \A u \in Timestamps(values) : u <= t
DateRange(values) == IF Earliest(values) = -1 THEN -1 ELSE Latest(values) - Earliest(values)

\* The menus of calculations: of a column of a table, and of a kanban board,
\* with the properties each can be chosen for.
OptionsByType ==
    LET dates == <<"earliest", "latest", "dateRange">>
    IN  [common |-> <<"none", "count", "countEmpty", "countNotEmpty", "percentEmpty", "percentNotEmpty",
                      "countValue", "countUniqueValue">>,
         checkbox |-> <<"countChecked", "countUnchecked", "percentChecked", "percentUnchecked">>,
         number |-> <<"sum", "average", "median", "min", "max", "range">>,
         date |-> dates, createdTime |-> dates, updatedTime |-> dates]
OptionsOf(type) == IF type \in DOMAIN OptionsByType THEN OptionsByType[type] ELSE <<>>
TypesByOption(option) == {type \in DOMAIN OptionsByType : Contains(OptionsByType[type], option)}
TableCalculationOptions(template) == OptionsOf("common") \o OptionsOf(template.type)
EquivalentPropertyType(type) == IF type \in {"createdTime", "updatedTime"} THEN "date" ELSE type
SupportedProperties(option, templates) ==
    SelectSeq(templates, LAMBDA t : {t.type, "common"} \cap TypesByOption(option) # {})
KanbanCalculationOptions(templates) ==
    LET seen(k) == \E j \in 1 .. k - 1 : EquivalentPropertyType(templates[j].type) = EquivalentPropertyType(templates[k].type)
        options == SelectSeq(OptionsOf("common"), LAMBDA o : o # "none")
                   \o FlattenSeq([k \in DOMAIN templates |-> IF seen(k) THEN <<>> ELSE OptionsOf(templates[k].type)])
    IN  [k \in DOMAIN options |-> [value |-> options[k], properties |-> SupportedProperties(options[k], templates)]]
-----------------------------------------------------------------------------
(* CSV.  The characters a text is made of, and those with a meaning.       *)

Comma == "comma"
Quote == "quote"
Hash == "hash"
Token == "hash sign token"
Bar == "bar"
Blank == "blank"

EncodeText(text) ==
    FlattenSeq([k \in DOMAIN text |-> IF text[k] = Quote THEN <<Quote, Quote>>
                                      ELSE IF text[k] = Hash THEN <<Token>> ELSE <<text[k]>>])
Quoted(text) == <<Quote>> \o EncodeText(text) \o <<Quote>>
Joined(parts, separator) ==
    FlattenSeq([k \in DOMAIN parts |-> IF k = 1 THEN parts[1] ELSE <<separator>> \o parts[k]])

\* displayValue and exportValue of the types of properties.  An option whose id
\* the property does not have is not shown by a multi select.
LabelsOf(template, ids) ==
    LET chosen == SelectSeq(template.options, LAMBDA o : o.id \in ToSet(ids))
    IN  [k \in DOMAIN chosen |-> chosen[k].value]
ExportValue(template, v) ==
    CASE template.type = "multiSelect" -> Joined(LabelsOf(template, v.items), Bar)
      [] template.type = "select" ->
            IF v.items = <<>> THEN <<Quote, Quote>>
            ELSE IF LabelsOf(template, v.items) = <<>> THEN Quoted(<<"(Unknown)">>)
            ELSE Quoted(LabelsOf(template, v.items)[1])
      [] template.type = "number" -> IF v.items = <<>> THEN <<>> ELSE v.items[1]
      [] OTHER -> IF ~IsTruthy(v) THEN <<>> ELSE Quoted(v.items[1])

\* Mutant: the cells of empty values are left out.
GenerateTableWithoutEmpty(templates, cards, visible) ==
    LET shown == SelectSeq(templates, LAMBDA t : t.id \in visible)
        cells(c) == SelectSeq([k \in DOMAIN shown |-> ExportValue(shown[k], ValueOf(cards[c], shown[k].id))],
                              LAMBDA cell : cell # <<>>)
    IN  <<<< <<"Name">> >> \o [k \in DOMAIN shown |-> shown[k].name]>>
        \o [c \in DOMAIN cards |-> <<Quoted(cards[c].title)>> \o cells(c)]
GenerateTable(templates, cards, visible) ==
    LET shown == SelectSeq(templates, LAMBDA t : t.id \in visible)
        cells(c) == [k \in DOMAIN shown |-> ExportValue(shown[k], ValueOf(cards[c], shown[k].id))]
    IN  <<<< <<"Name">> >> \o [k \in DOMAIN shown |-> shown[k].name]>>
        \o [c \in DOMAIN cards |-> <<Quoted(cards[c].title)>> \o cells(c)]
\* The lines of the file.  Of all the tokens only the first becomes a hash again.
ExportTableCsv(templates, cards, visible) ==
    LET table == GenerateTable(templates, cards, visible)
        lines == [r \in DOMAIN table |-> Joined(table[r], Comma)]
        tokens == {<<r, k>> \in (DOMAIN lines) \X (1 .. 60) : k <= Len(lines[r]) /\ lines[r][k] = Token}
        first(at) == \A b \in tokens : at[1] < b[1] \/ (at[1] = b[1] /\ at[2] <= b[2])
    IN  [r \in DOMAIN lines |-> [k \in DOMAIN lines[r] |->
            IF <<r, k>> \in tokens /\ first(<<r, k>>) THEN Hash ELSE lines[r][k]]]

\* split(','), without quotes, trimmed.
Cells(line) ==
    LET cuts == <<0>> \o SetToSortSeq({k \in DOMAIN line : line[k] = Comma}, <) \o <<Len(line) + 1>>
        inked(s) == {k \in DOMAIN s : s[k] # Blank}
        trimmed(s) == IF inked(s) = {} THEN <<>>
                      ELSE SubSeq(s, CHOOSE k \in inked(s) : \A j \in inked(s) : k <= j,
                                     CHOOSE k \in inked(s) : \A j \in inked(s) : j <= k)
        text(j) == SelectSeq(SubSeq(line, cuts[j] + 1, cuts[j + 1] - 1), LAMBDA x : x # Quote)
    IN  [j \in 1 .. Len(cuts) - 1 |-> trimmed(text(j))]
\* The row as a record by header: of two columns with one name the later counts.
Entry(headers, values, name) ==
    LET at == {j \in DOMAIN headers : headers[j] = name}
        j == CHOOSE i \in at : \A h \in at : h <= i
    IN  IF at = {} \/ j > Len(values) THEN <<>> ELSE values[j]
ImportTableCsv(templates, lines) ==
    LET headers == Cells(lines[1])
        value(line, t) == Entry(headers, Cells(line), t.name)
        values(line) == [p \in {t.id : t \in {u \in ToSet(templates) : value(line, u) # <<>>}} |->
                            One(value(line, Template(templates, p)))]
        title(line) == Entry(headers, Cells(line), <<"Name">>)
    IN  [c \in 1 .. Len(lines) - 1 |->
            [title |-> IF title(lines[c + 1]) = <<>> THEN <<"Untitled">> ELSE title(lines[c + 1]),
             values |-> values(lines[c + 1])]]
=============================================================================
