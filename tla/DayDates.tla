------------------------------- MODULE DayDates -------------------------------
(***************************************************************************)
(* What the date of a card promises: it is a day or a range of days, with  *)
(* no hours and no time zones, that users change in a dialog or on the     *)
(* calendar, and every user means the same days by it.                     *)
(***************************************************************************)
EXTENDS Integers

CONSTANTS Users, Days

VARIABLES date,    \* the days of the card: [from, to], None where there is none
          dialog   \* of each user: the days chosen, or Closed

None == 0
Closed == [open |-> FALSE, from |-> None, to |-> None]
Dates == [from : Days \cup {None}, to : Days \cup {None}]
NoDate == [from |-> None, to |-> None]
Opened(d) == [open |-> TRUE, from |-> d.from, to |-> d.to]

Init == /\ date \in [from : Days, to : {None}] \cup {NoDate}
        /\ dialog = [u \in Users |-> Closed]

\* Another user's choice replaces what is chosen in a dialog that is open.  One
\* of the same days need not.
Becomes(v, d) ==
    \/ dialog[v].open /\ dialog'[v] = Opened(d)
    \/ (dialog[v].open => d = date) /\ dialog'[v] = dialog[v]
Become(d) == /\ date' = d
             /\ \A v \in Users : Becomes(v, d)

Open(u) == /\ ~dialog[u].open
           /\ dialog' = [dialog EXCEPT ![u] = Opened(date)]
           /\ UNCHANGED date
Choose(u, d) == /\ dialog[u].open
                /\ dialog' = [dialog EXCEPT ![u] = Opened(d)]
                /\ UNCHANGED date

\* A click on a day makes it the day, or moves the end of the range it is at.
Click(u, day) ==
    LET d == dialog[u]
    IN  \/ d.to = None /\ Choose(u, [from |-> day, to |-> None])
        \/ d.to # None /\ d.from = d.to /\ day = d.from /\ Choose(u, NoDate)
        \/ d.to # None /\ day < d.from /\ Choose(u, [from |-> day, to |-> d.to])
        \/ d.to # None /\ d.from # d.to /\ day = d.to /\ day >= d.from
              /\ Choose(u, [from |-> day, to |-> day])
        \/ d.to # None /\ day >= d.from /\ day # d.to
              /\ Choose(u, [from |-> d.from, to |-> day])
ToggleEnd(u) ==
    Choose(u, [from |-> dialog[u].from, to |-> IF dialog[u].to = None THEN dialog[u].from ELSE None])
EnterFrom(u, day) == Choose(u, [from |-> day, to |-> dialog[u].to])
EnterTo(u, day) == dialog[u].to # None /\ Choose(u, [from |-> dialog[u].from, to |-> day])
Clear(u) == Choose(u, NoDate)

Close(u) ==
    LET d == [from |-> dialog[u].from, to |-> dialog[u].to]
    IN  /\ dialog[u].open
        /\ date' = d
        /\ dialog'[u] = Closed
        /\ \A v \in Users \ {u} : Becomes(v, d)

\* On the calendar: an event gets other days, or a card is made on some.
Last(d) == IF d.to = None THEN d.from ELSE d.to
Span(first, last) == [from |-> first, to |-> IF first = last THEN None ELSE last]
Place(first, last) == date.from # None /\ date.from <= Last(date) /\ first <= last /\ Become(Span(first, last))
Make(first, last) ==
    /\ \A u \in Users : ~dialog[u].open
    /\ first <= last /\ date' = Span(first, last) /\ UNCHANGED dialog

Next == \/ \E u \in Users : Open(u) \/ ToggleEnd(u) \/ Clear(u) \/ Close(u)
        \/ \E u \in Users, day \in Days : Click(u, day) \/ EnterFrom(u, day) \/ EnterTo(u, day)
        \/ \E first, last \in Days : Place(first, last) \/ Make(first, last)
Spec == Init /\ [][Next]_<<date, dialog>>
=============================================================================
