-------------------------------- MODULE Dates --------------------------------
(***************************************************************************)
(* The date of a card as the web client keeps it: instants, which users in *)
(* different time zones choose with the dialog of the property             *)
(* (properties/date/date.tsx) or on the calendar (fullCalendar.tsx), see,  *)
(* and filter by (dateFilter.tsx, cardFilter.ts).                          *)
(*                                                                         *)
(* An instant is a number of hours in UTC.  The code stores noon UTC of a  *)
(* day and converts it with the offset of the reader's zone.               *)
(***************************************************************************)
EXTENDS Integers

CONSTANTS Users, Days,
          Zones,     \* zones to choose from: [std, dst, from, to], in hours, dst between the instants from and to
          Instants,  \* values an import has left, which need not be noon
          Created    \* times at which cards have been created

VARIABLES zone, date, dialog,
          filter     \* the instant the view filters by, or None

dateVars == <<zone, date, dialog, filter>>

None == 0
NoDate == [from |-> None, to |-> None]
Closed == [open |-> FALSE, from |-> None, to |-> None]
-----------------------------------------------------------------------------
\* Date.getTimezoneOffset, and the local time of an instant.
Offset(z, t) == IF z.from <= t /\ t < z.to THEN z.dst ELSE z.std
Local(z, t) == t - Offset(z, t)
LocalDay(z, t) == Local(z, t) \div 24
\* The instant of a local time, as new Date and setHours find it.
Moment(z, day, hour) == CHOOSE t \in {24 * day + hour + z.std, 24 * day + hour + z.dst} : Local(z, t) = 24 * day + hour
SetHours(z, t, hour) == Moment(z, LocalDay(z, t), hour)

\* Clocks change in the morning, after noon UTC of the day before and not after
\* noon UTC of the day: every day has a midnight and a noon, and no clock changes
\* between noon UTC and what a reader's clock shows at noon.
ChangesInTheMorning(z) ==
    \A change \in {z.from, z.to}, offset \in {z.std, z.dst} :
        LET local == change - offset
            noon == 24 * (local \div 24) + 12
        IN  local % 24 \in 1 .. 11 /\ noon - 24 < change /\ change <= noon
ASSUME DatesAssumption ==
    /\ Days \subseteq Nat \ {0} /\ \A d, e \in Days : d .. e \subseteq Days
    /\ Zones \subseteq [std : -14 .. 12, dst : -14 .. 12, from : Int, to : Int]
    /\ \A z \in Zones : z.std # z.dst => ChangesInTheMorning(z)
    /\ \A t \in Instants : /\ t \in Int /\ t \div 24 \in Days
                            /\ \A z \in Zones : Offset(z, t + Offset(z, t)) = Offset(z, t)
    /\ Created \subseteq Int

\* Mutant: the instant itself is shown.
DateFromUnshifted(z, t) == t
\* dateFrom and dateTo of DateRange.
DateFrom(z, t) == IF t = None THEN None ELSE t + Offset(z, t)

\* rangeUTC of saveRangeValue.
UTC(z, t) == IF t = None THEN None ELSE t - Offset(z, t)

\* Another user's choice replaces what is chosen in a dialog that is open
\* (DateRange's effect on propertyValue).
Follow(v, d) == IF dialog[v].open /\ d # date THEN [open |-> TRUE, from |-> d.from, to |-> d.to]
                ELSE dialog[v]
-----------------------------------------------------------------------------
DatesInit == /\ zone \in [Users -> Zones]
             /\ date \in [from : Instants \cup {None}, to : {None}]
             /\ dialog = [u \in Users |-> Closed]
             /\ filter = None

Open(u) ==
    /\ ~dialog[u].open
    /\ dialog' = [dialog EXCEPT ![u] = [open |-> TRUE, from |-> date.from, to |-> date.to]]
    /\ UNCHANGED <<zone, date, filter>>

SaveRangeValue(u, from, to) ==
    /\ dialog[u].open
    /\ dialog' = [dialog EXCEPT ![u] = [open |-> TRUE, from |-> UTC(zone[u], from), to |-> UTC(zone[u], to)]]
    /\ UNCHANGED <<zone, date, filter>>

\* DateUtils.addDayToRange of react-day-picker.
AddDayToRange(z, day, range) ==
    LET d == LocalDay(z, day)  f == LocalDay(z, range.from)  t == LocalDay(z, range.to)
    IN  IF f = t /\ d = f THEN NoDate
        ELSE IF d < f THEN [range EXCEPT !.from = day]
        ELSE IF d = t THEN [from |-> day, to |-> day]
        ELSE [range EXCEPT !.to = day]

HandleDayClick(u, d) ==
    LET z == zone[u]
        day == Moment(z, d, 12)
        range == [from |-> DateFrom(z, dialog[u].from), to |-> DateFrom(z, dialog[u].to)]
        new == IF range.to = None THEN [from |-> day, to |-> None] ELSE AddDayToRange(z, day, range)
    IN  SaveRangeValue(u, new.from, new.to)
OnRangeClick(u) ==
    LET from == DateFrom(zone[u], dialog[u].from)
    IN  SaveRangeValue(u, from, IF dialog[u].to = None THEN from ELSE None)
EnterFrom(u, d) == SaveRangeValue(u, Moment(zone[u], d, 12), DateFrom(zone[u], dialog[u].to))
EnterTo(u, d) == /\ dialog[u].to # None
                 /\ SaveRangeValue(u, DateFrom(zone[u], dialog[u].from), Moment(zone[u], d, 12))
OnClear(u) == SaveRangeValue(u, None, None)

\* Mutator.changePropertyValue and the update it comes back as.
ChangePropertyValue(d) ==
    /\ date' = d
    /\ UNCHANGED <<zone, filter>>
OnClose(u) ==
    LET d == [from |-> dialog[u].from, to |-> dialog[u].to]
    IN  /\ dialog[u].open
        /\ ChangePropertyValue(d)
        /\ dialog' = [v \in Users |-> IF v = u THEN Closed ELSE Follow(v, d)]
-----------------------------------------------------------------------------
\* The event of the card on the calendar: local midnights, the end exclusive.
GetDateFrom(z, t) == SetHours(z, DateFrom(z, t), 0)
EventOf(z, d) ==
    LET from == GetDateFrom(z, d.from)
        to == IF d.to = None THEN from ELSE GetDateFrom(z, d.to)
    IN  [start |-> from, end |-> Moment(z, LocalDay(z, to) + 1, 0)]

\* Mutant: the exclusive day is kept.
FromCalendarDatesInclusive(z, start, end) ==
    LET from == UTC(z, SetHours(z, start, 12))  to == UTC(z, SetHours(z, end, 12))
    IN  [from |-> from, to |-> IF to = from THEN None ELSE to]
FromCalendarDates(z, start, end) ==
    LET from == UTC(z, SetHours(z, start, 12))  to == UTC(z, SetHours(z, end, 12)) - 24
    IN  [from |-> from, to |-> IF to = from THEN None ELSE to]
FromCalendarDate(z, start) == [from |-> UTC(z, SetHours(z, start, 12)), to |-> None]

\* An event is dragged or resized to the days from first to before end.  One
\* that ends before it starts is given no end by the calendar, and stays.
EventChange(u, first, end) ==
    LET z == zone[u]
        d == FromCalendarDates(z, Moment(z, first, 0), Moment(z, end, 0))
    IN  /\ date.from # None /\ first < end
        /\ EventOf(z, date).start < EventOf(z, date).end
        /\ ChangePropertyValue(d)
        /\ dialog' = [v \in Users |-> Follow(v, d)]
\* A card is made on the calendar, with the plus of a day or by selecting
\* several.  The model looks at that card from then on.
OnNewEvent(u, first, end) ==
    LET z == zone[u]
    IN  /\ \A v \in Users : ~dialog[v].open
        /\ ChangePropertyValue(IF first = end THEN FromCalendarDate(z, Moment(z, first, 0))
                               ELSE FromCalendarDates(z, Moment(z, first, 0), Moment(z, end, 0)))
        /\ first # end => date'.to # None
        /\ UNCHANGED dialog
-----------------------------------------------------------------------------
\* Mutant: the filter keeps local noon.
AdjustedUnshifted(z, day) == day
\* adjustedValue of DateFilter.
Adjusted(z, day) == day - Offset(z, day)
PickFilterDay(u, d) ==
    /\ filter' = Adjusted(zone[u], Moment(zone[u], d, 12))
    /\ UNCHANGED <<zone, date, dialog>>
ClearFilter == /\ filter' = None
               /\ UNCHANGED <<zone, date, dialog>>

\* The conditions of CardFilter.isClauseMet on a date, and on the time the card
\* was created.
IsOn(d) == IF d.from # None /\ d.to # None THEN d.from <= filter /\ filter <= d.to ELSE d.from = filter
IsBefore(d) == d.from # None /\ d.from < filter
IsAfter(d) == IF d.to # None THEN d.to > filter ELSE d.from # None /\ d.from > filter
CreatedOn(t) == filter - 12 < t /\ t < filter + 12
CreatedBefore(t) == t < filter - 12
CreatedAfter(t) == t > filter + 12
-----------------------------------------------------------------------------
DatesNext == \/ \E u \in Users : Open(u) \/ OnRangeClick(u) \/ OnClear(u) \/ OnClose(u)
             \/ \E u \in Users, d \in Days : HandleDayClick(u, d) \/ EnterFrom(u, d) \/ EnterTo(u, d)
                                              \/ PickFilterDay(u, d)
             \/ \E u \in Users, first \in Days, end \in Days \cup {d + 1 : d \in Days} :
                   EventChange(u, first, end) \/ (first <= end /\ OnNewEvent(u, first, end))
             \/ ClearFilter
DatesSpec == DatesInit /\ [][DatesNext]_dateVars
-----------------------------------------------------------------------------
DayOf(t) == t \div 24

\* Instants are absent or within the days, and what has an end has a beginning.
DatesTypeOK ==
    LET Times == {t \in Int : DayOf(t) \in Days \cup {None}}
        Date == {d \in [from : Times, to : Times] : d.from = None => d.to = None}
    IN  /\ date \in Date
        /\ \A u \in Users : [from |-> dialog[u].from, to |-> dialog[u].to] \in Date
        /\ filter \in Times

\* The date is a day or a range of days, the same for users in every time zone,
\* on both sides of a change of the clock, however often they edit it in turn:
\* "to ensure date stays consistent" (date.tsx:89).
Abstract == INSTANCE DayDates WITH
    date <- [from |-> DayOf(date.from), to |-> DayOf(date.to)],
    dialog <- [u \in Users |-> [open |-> dialog[u].open, from |-> DayOf(dialog[u].from),
                                                        to |-> DayOf(dialog[u].to)]]
ImplementsDays == Abstract!Spec

\* Every user sees the days that are stored, on the button of the property and
\* as the card's event on the calendar.
ShownAlike ==
    /\ DatesTypeOK
    /\ \A u \in Users :
          LET z == zone[u]
              shown(t) == IF t = None THEN None ELSE LocalDay(z, DateFrom(z, t))
          IN  /\ shown(date.from) = DayOf(date.from) /\ shown(date.to) = DayOf(date.to)
              /\ date.from # None =>
                    /\ LocalDay(z, EventOf(z, date).start) = DayOf(date.from)
                    /\ LocalDay(z, EventOf(z, date).end) = (IF date.to = None THEN DayOf(date.from) ELSE DayOf(date.to)) + 1

\* A filter by a day, picked in any time zone, finds a date chosen in any other:
\* the card is on the day, before it, after it, or around it, as the days say.
\* Excused are instants an import has left, and the midnights for the time of
\* creation, which the code leaves to neither day.
FilterSeesDays ==
    LET f == DayOf(date.from)
        t == IF date.to = None THEN f ELSE DayOf(date.to)
        day == DayOf(filter)
        noon(x) == x = None \/ x % 24 = 12
    IN  filter # None =>
          /\ date.from # None /\ noon(date.from) /\ noon(date.to) =>
                /\ IsOn(date) <=> f <= day /\ day <= t
                /\ IsBefore(date) <=> f < day
                /\ IsAfter(date) <=> t > day
          /\ \A c \in Created : c % 24 # 0 =>
                /\ CreatedOn(c) <=> DayOf(c) = day
                /\ CreatedBefore(c) <=> DayOf(c) < day
                /\ CreatedAfter(c) <=> DayOf(c) > day
\* The days that one user chooses are the days that all of them see, and find.
DaysAgree == ShownAlike /\ FilterSeesDays
=============================================================================
