------------------------------ MODULE ContentOrder ------------------------------
(***************************************************************************)
(* card.fields.contentOrder, an Array<string|string[]>: the blocks of a    *)
(* card one under the other, where a row holds several side by side.  What *)
(* the menus of a content block and the drag and drop of content make of   *)
(* it, and what the store's selector shows of it.                          *)
(*                                                                         *)
(* A place is <<x, y>>: entry x and, in a row, column y; y = 0 (-1 in the  *)
(* code) where there is no column.                                         *)
(***************************************************************************)
EXTENDS Naturals, Sequences, SequencesExt

Single(id) == [row |-> FALSE, ids |-> <<id>>]
Row(ids) == [row |-> TRUE, ids |-> ids]
New == 0                 \* where the id of a new block will be
Slot == Single(New)

\* All ids of an order, from left to right and top to bottom.
Ids(order) == FlattenSeq([x \in DOMAIN order |-> order[x].ids])
IdsWithout(order, id) == SelectSeq(Ids(order), LAMBDA i : i # id)
Times(order, id) == Len(Ids(order)) - Len(IdsWithout(order, id))

\* Array.splice: an index beyond the end inserts at the end and removes nothing.
SpliceIn(s, x, e) == IF x > Len(s) THEN Append(s, e) ELSE InsertAt(s, x, e)
SpliceOut(s, x) == IF x > Len(s) THEN s ELSE RemoveAt(s, x)
ArrayMove(s, x, y) == SpliceIn(RemoveAt(s, x), y, s[x])

\* The order with the ids of the blocks just inserted.
Fill(order, ids) ==
    FlattenSeq([x \in DOMAIN order |-> IF order[x] = Slot THEN [i \in DOMAIN ids |-> Single(ids[i])] ELSE <<order[x]>>])

\* What the client shows: rows stay when nothing of them is known.
Shown(order, known) ==
    SelectSeq([x \in DOMAIN order |-> [order[x] EXCEPT !.ids = SelectSeq(@, LAMBDA i : i \in known)]],
              LAMBDA e : e.row \/ e.ids # <<>>)
Places(order) == UNION {{<<x, y>> : y \in IF order[x].row THEN DOMAIN order[x].ids ELSE {0}} : x \in DOMAIN order}
At(order, p) == order[p[1]].ids[IF p[2] = 0 THEN 1 ELSE p[2]]
\* A column of an entry that is no row makes the code throw.
Fits(order, p) == p[1] \in DOMAIN order /\ p[2] \in (IF order[p[1]].row THEN DOMAIN order[p[1]].ids ELSE {}) \cup {0}

\* Mutant: an item of a row takes its whole row with it.
WithoutTheRow(order, p) == RemoveAt(order, p[1])
\* The menu's delete: a row of one becomes an entry of its own.
Without(order, p) ==
    IF p[2] = 0 THEN RemoveAt(order, p[1])
    ELSE LET left == RemoveAt(order[p[1]].ids, p[2])
         IN [order EXCEPT ![p[1]] = IF Len(left) = 1 THEN Single(left[1]) ELSE Row(left)]

\* dragAndDropRearrange: the source is taken out, then put beside the destination.
TakenOut(order, src, dst) ==
    IF src[2] = 0 THEN RemoveAt(order, src[1])
    ELSE LET left == RemoveAt(order[src[1]].ids, src[2])
         IN [order EXCEPT ![src[1]] = IF Len(left) = 1 /\ src[1] # dst[1] THEN Single(left[1]) ELSE Row(left)]
\* Mutant: an entry that leaves from above does not shift the destination.
DestinationUnshifted(src, dst) == dst
\* Where the destination is once the source is taken out.
Destination(src, dst) ==
    << IF src[2] = 0 /\ dst[1] > src[1] THEN dst[1] - 1 ELSE dst[1],
       IF src[2] > 0 /\ dst[1] = src[1] /\ dst[2] > src[2] THEN dst[2] - 1 ELSE dst[2] >>
Rearranged(order, src, dst, to) ==
    LET id == At(order, src)
        rest == TakenOut(order, src, dst)
        d == Destination(src, dst)
        into(y) == IF dst[2] > 0 THEN Row(SpliceIn(rest[d[1]].ids, y, id))
                   ELSE Row(IF to = "right" THEN <<At(order, dst), id>> ELSE <<id, At(order, dst)>>)
    IN CASE to = "right"    -> [rest EXCEPT ![d[1]] = into(d[2] + 1)]
         [] to = "left"     -> [rest EXCEPT ![d[1]] = into(d[2])]
         [] to = "aboveRow" -> SpliceIn(rest, d[1], Single(id))
         [] to = "belowRow" -> SpliceIn(rest, d[1] + 1, Single(id))
=================================================================================
