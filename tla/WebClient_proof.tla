--------------------------- MODULE WebClient_proof ---------------------------
(***************************************************************************)
(* Proofs about five components of the web application.                    *)
(*                                                                         *)
(* Dates: whatever the users, their zones and the days, the date of a card *)
(* is days (DayDates), the same for every reader.  All of it comes from    *)
(* one fact.  A clock that changes in the morning changes between two      *)
(* noons and between two midnights (ChangeDay), so that noon UTC of a day  *)
(* and noon on a reader's clock have one offset (SteadyOffset), and what   *)
(* is stored is read and written back unchanged (ReadBack, PickedIs,       *)
(* CalendarIs).  KeepsDays is the inductive invariant.                     *)
(*                                                                         *)
(* Settings: every page shows what is stored, and what the desktop         *)
(* application keeps is what was picked.  SettingsInv is inductive: it     *)
(* says in addition what each page knows, and of each of the keys what the *)
(* last one wrote.                                                         *)
(*                                                                         *)
(* Chatbot: the conversation goes by turns, and the assistant is told what *)
(* is true.  ChatInv is inductive: it adds what the loads under way may    *)
(* bring, and that what came from a true answer is true (FreshIsTrue).     *)
(*                                                                         *)
(* CardPage: once the acts of users and the web client have ended, every   *)
(* card that was added and not deleted is in the order of the view, and    *)
(* the page shows the rows of the server.  PageInv is inductive.  It says  *)
(* that the news under way, then the cards of the store, are the last      *)
(* state of each row and the last order of each view (NewsAreTrue,         *)
(* CardsAreTrue, OrdersAreTrue); that a card shown is there                *)
(* (OpenIsThere); and, unless an addition was mixed with another or with   *)
(* an older list, that the list an addition will write keeps what is       *)
(* listed and what is under way (AllAddWell), that of two additions to a   *)
(* view the later knows the earlier one (AllInTurn), and that an addition  *)
(* taken back is the only one (UndoneAlone).                               *)
(*                                                                         *)
(* Tour: the tour goes on, and back only when asked.  TourInv is           *)
(* inductive: as long as nothing was mixed, at most one patch is under     *)
(* way or answered, it may be sent from where the tour is (MaySend), and   *)
(* where an effect has to go on, its patch is under way (Begun).           *)
(***************************************************************************)
EXTENDS Dates, Settings, Chatbot, Tour, FiniteSetTheorems, TLAPS

\* Days and hours.
LEMMA DayBounds ==
  ASSUME NEW t \in Int
  PROVE  /\ t \div 24 \in Int /\ 24 * (t \div 24) <= t /\ t < 24 * (t \div 24) + 24
         /\ t % 24 = t - 24 * (t \div 24)
OBVIOUS

LEMMA DayIs ==
  ASSUME NEW t \in Int, NEW d \in Int, 24 * d <= t, t < 24 * d + 24
  PROVE  t \div 24 = d
OBVIOUS

LEMMA OffsetIs ==
  ASSUME NEW z \in Zones, NEW t \in Int
  PROVE  /\ z.std \in -14 .. 12 /\ z.dst \in -14 .. 12 /\ z.from \in Int /\ z.to \in Int
         /\ Offset(z, t) \in {z.std, z.dst} /\ Offset(z, t) \in -14 .. 12
BY DatesAssumption DEF Offset

LEMMA ChangeDay ==
  ASSUME NEW z \in Zones, z.std # z.dst, NEW c \in {z.from, z.to}
  PROVE  \E k \in Int : /\ \A o \in {z.std, z.dst} : 24 * k + 1 <= c - o /\ c - o <= 24 * k + 11
                        /\ 24 * k - 12 < c /\ c <= 24 * k + 12
<1>0. z.std \in Int /\ z.dst \in Int /\ c \in Int
  BY OffsetIs
<1>1. ChangesInTheMorning(z)
  BY DatesAssumption
<1>2. ASSUME NEW o \in {z.std, z.dst}
      PROVE  /\ 24 * ((c - o) \div 24) + 1 <= c - o /\ c - o <= 24 * ((c - o) \div 24) + 11
             /\ 24 * ((c - o) \div 24) - 12 < c /\ c <= 24 * ((c - o) \div 24) + 12
             /\ (c - o) \div 24 \in Int
  <2>1. /\ (c - o) % 24 \in 1 .. 11
        /\ (24 * ((c - o) \div 24) + 12) - 24 < c /\ c <= 24 * ((c - o) \div 24) + 12
    BY <1>1, Zenon DEF ChangesInTheMorning
  <2>2. c - o \in Int
    BY <1>0
  <2>3. /\ (c - o) \div 24 \in Int
        /\ (c - o) % 24 = (c - o) - 24 * ((c - o) \div 24)
    BY <2>2, DayBounds
  <2> QED
    BY <2>1, <2>2, <2>3, <1>0
<1> DEFINE k == (c - z.std) \div 24
           l == (c - z.dst) \div 24
<1>3. k \in Int /\ l \in Int /\ 24 * k - 12 < c /\ c <= 24 * k + 12 /\ 24 * l - 12 < c /\ c <= 24 * l + 12
  BY <1>2
<1>4. k = l
  <2> HIDE DEF k, l
  <2> QED
    BY <1>3, <1>0
<1>5. /\ 24 * k + 1 <= c - z.std /\ c - z.std <= 24 * k + 11
      /\ 24 * l + 1 <= c - z.dst /\ c - z.dst <= 24 * l + 11
  BY <1>2
<1> HIDE DEF k, l
<1>6. \A o \in {z.std, z.dst} : 24 * k + 1 <= c - o /\ c - o <= 24 * k + 11
  BY <1>4, <1>5
<1> QED
  BY <1>3, <1>6

LEMMA SteadyOffset ==
  ASSUME NEW z \in Zones, NEW d \in Int, NEW o \in {z.std, z.dst}, NEW p \in {z.std, z.dst}
  PROVE  /\ Offset(z, 24 * d + 12 + o) = Offset(z, 24 * d + 12)
         /\ Offset(z, 24 * d + o) = Offset(z, 24 * d + p)
<1>0. z.std \in Int /\ z.dst \in Int /\ z.from \in Int /\ z.to \in Int /\ o \in Int /\ p \in Int
  BY OffsetIs
<1>1. CASE z.std = z.dst
  BY <1>1 DEF Offset
<1>2. CASE z.std # z.dst
  <2>1. ASSUME NEW c \in {z.from, z.to}
        PROVE  /\ c <= 24 * d + 12 + o <=> c <= 24 * d + 12
               /\ c <= 24 * d + o <=> c <= 24 * d + p
    <3>0. c \in Int
      BY <1>0
    <3>1. PICK k \in Int : /\ \A q \in {z.std, z.dst} : 24 * k + 1 <= c - q /\ c - q <= 24 * k + 11
                           /\ 24 * k - 12 < c /\ c <= 24 * k + 12
      BY <1>2, ChangeDay
    <3>2. /\ 24 * k + 1 <= c - o /\ c - o <= 24 * k + 11
          /\ 24 * k + 1 <= c - p /\ c - p <= 24 * k + 11
      BY <3>1
    <3>3. c <= 24 * d + 12 + o <=> k <= d
      BY <3>0, <3>2, <1>0
    <3>4. c <= 24 * d + 12 <=> k <= d
      BY <3>0, <3>1
    <3>5. c <= 24 * d + o <=> k < d
      BY <3>0, <3>2, <1>0
    <3>6. c <= 24 * d + p <=> k < d
      BY <3>0, <3>2, <1>0
    <3> QED
      BY <3>3, <3>4, <3>5, <3>6
  <2>2. /\ z.from <= 24 * d + 12 + o <=> z.from <= 24 * d + 12
        /\ z.from <= 24 * d + o <=> z.from <= 24 * d + p
    BY <2>1
  <2>3. /\ z.to <= 24 * d + 12 + o <=> z.to <= 24 * d + 12
        /\ z.to <= 24 * d + o <=> z.to <= 24 * d + p
    BY <2>1
  <2>4. 24 * d + 12 + o \in Int /\ 24 * d + 12 \in Int /\ 24 * d + o \in Int /\ 24 * d + p \in Int
    BY <1>0
  <2>5. /\ 24 * d + 12 + o < z.to <=> 24 * d + 12 < z.to
        /\ 24 * d + o < z.to <=> 24 * d + p < z.to
    BY <2>3, <2>4, <1>0
  <2> QED
    BY <2>2, <2>5 DEF Offset
<1> QED
  BY <1>1, <1>2

LEMMA MomentIs ==
  ASSUME NEW z \in Zones, NEW d \in Int, NEW h \in {0, 12}
  PROVE  /\ Moment(z, d, h) \in Int /\ Local(z, Moment(z, d, h)) = 24 * d + h
         /\ Moment(z, d, h) = 24 * d + h + Offset(z, Moment(z, d, h))
         /\ LocalDay(z, Moment(z, d, h)) = d
<1>0. z.std \in Int /\ z.dst \in Int /\ z.from \in Int /\ z.to \in Int
  BY OffsetIs
<1> DEFINE T == {24 * d + h + z.std, 24 * d + h + z.dst}
<1>1. Offset(z, 24 * d + h + z.std) = Offset(z, 24 * d + h + z.dst)
  <2>1. CASE h = 12
    <3>1. /\ Offset(z, 24 * d + 12 + z.std) = Offset(z, 24 * d + 12)
          /\ Offset(z, 24 * d + 12 + z.dst) = Offset(z, 24 * d + 12)
      BY SteadyOffset
    <3> QED
      BY <3>1, <2>1
  <2>2. CASE h = 0
    <3>1. Offset(z, 24 * d + z.std) = Offset(z, 24 * d + z.dst)
      BY SteadyOffset
    <3>2. 24 * d + h = 24 * d
      BY <2>2
    <3> QED
      BY <3>1, <3>2
  <2> QED
    BY <2>1, <2>2
<1>2. \E t \in T : Local(z, t) = 24 * d + h
  <2>1. 24 * d + h + z.std \in Int /\ 24 * d + h + z.dst \in Int /\ 24 * d + h \in Int
    BY <1>0
  <2>2. CASE Offset(z, 24 * d + h + z.std) = z.std
    <3>1. Local(z, 24 * d + h + z.std) = 24 * d + h
      BY <2>1, <2>2, <1>0 DEF Local
    <3> QED
      BY <3>1
  <2>3. CASE Offset(z, 24 * d + h + z.std) = z.dst
    <3>1. Local(z, 24 * d + h + z.dst) = 24 * d + h
      BY <2>1, <2>3, <1>0, <1>1 DEF Local
    <3> QED
      BY <3>1
  <2> QED
    BY <2>1, <2>2, <2>3, OffsetIs
<1>3. Moment(z, d, h) \in T /\ Local(z, Moment(z, d, h)) = 24 * d + h
  BY <1>2 DEF Moment
<1> DEFINE t == Moment(z, d, h)
<1>4. t \in Int
  BY <1>3, <1>0
<1>5. Local(z, t) = 24 * d + h
  BY <1>3
<1> HIDE DEF t
<1>6. Offset(z, t) \in Int
  BY <1>4, OffsetIs
<1>7. t = 24 * d + h + Offset(z, t)
  BY <1>4, <1>5, <1>6 DEF Local
<1>8. (24 * d + h) \div 24 = d
  <2>1. 24 * d + h \in Int /\ 24 * d <= 24 * d + h /\ 24 * d + h < 24 * d + 24
    OBVIOUS
  <2> QED
    BY <2>1, DayIs
<1>9. LocalDay(z, t) = d
  BY <1>5, <1>8 DEF LocalDay
<1> QED
  BY <1>4, <1>5, <1>7, <1>9 DEF t

-----------------------------------------------------------------------------
\* What a dialog, the date and the filter may hold: instants at which a reader's
\* clock and UTC agree on the offset.  Noon of a day is one.
Stored == {t \in Int : DayOf(t) \in Days /\ \A z \in Zones : Offset(z, t + Offset(z, t)) = Offset(z, t)}
Held == Stored \cup {None}
Noon(d) == 24 * d + 12
Noons == {Noon(d) : d \in Days}

LEMMA DaysAreInt ==
  /\ \A d \in Days : d \in Int /\ d >= 1
  /\ \A d, e \in Days : d .. e \subseteq Days
BY DatesAssumption

LEMMA NoonIs ==
  ASSUME NEW d \in Days
  PROVE  Noon(d) \in Stored /\ Noon(d) \in Int /\ Noon(d) # None /\ DayOf(Noon(d)) = d
<1>1. d \in Int /\ d >= 1
  BY DaysAreInt
<1>2. Noon(d) \in Int /\ Noon(d) # None
  BY <1>1 DEF Noon, None
<1>3. Noon(d) \div 24 = d
  <2>1. 24 * d <= Noon(d) /\ Noon(d) < 24 * d + 24
    BY <1>1 DEF Noon
  <2> QED
    BY <2>1, <1>1, <1>2, DayIs
<1>4. ASSUME NEW z \in Zones
      PROVE  Offset(z, Noon(d) + Offset(z, Noon(d))) = Offset(z, Noon(d))
  <2>1. Offset(z, 24 * d + 12) \in {z.std, z.dst}
    BY <1>2, OffsetIs DEF Noon
  <2>2. Offset(z, 24 * d + 12 + Offset(z, 24 * d + 12)) = Offset(z, 24 * d + 12)
    BY <2>1, <1>1, SteadyOffset
  <2> QED
    BY <2>2 DEF Noon
<1> QED
  BY <1>2, <1>3, <1>4 DEF Stored, DayOf

LEMMA HeldIs ==
  /\ \A t \in Stored : t \in Int /\ t # None /\ DayOf(t) \in Days /\ DayOf(t) # None /\ t >= 24
  /\ \A t \in Held : t \in Int /\ DayOf(t) \in Days \cup {None} /\ (DayOf(t) = None <=> t = None)
<1>1. ASSUME NEW t \in Stored
      PROVE  t \in Int /\ t # None /\ DayOf(t) \in Days /\ DayOf(t) # None /\ t >= 24
  <2>1. t \in Int /\ t \div 24 \in Days
    BY DEF Stored, DayOf
  <2>2. t \div 24 \in Int /\ t \div 24 >= 1
    BY <2>1, DaysAreInt
  <2>3. 24 * (t \div 24) <= t
    BY <2>1, DayBounds
  <2>4. t >= 24
    BY <2>1, <2>2, <2>3
  <2> QED
    BY <2>1, <2>2, <2>4 DEF DayOf, None
<1>2. DayOf(None) = None
  BY DEF DayOf, None
<1>3. None \in Int
  BY DEF None
<1> QED
  BY <1>1, <1>2, <1>3 DEF Held

\* What a dialog reads from the store it gives back as it was, and shows as the
\* day that is stored.
LEMMA ReadBack ==
  ASSUME NEW z \in Zones, NEW t \in Stored
  PROVE  /\ DateFrom(z, t) \in Int /\ DateFrom(z, t) # None
         /\ Local(z, DateFrom(z, t)) = t
         /\ LocalDay(z, DateFrom(z, t)) = DayOf(t)
         /\ UTC(z, DateFrom(z, t)) = t
<1>1. t \in Int /\ t # None /\ t >= 24
  BY HeldIs
<1>2. Offset(z, t) \in -14 .. 12
  BY <1>1, OffsetIs
<1>3. DateFrom(z, t) = t + Offset(z, t)
  BY <1>1 DEF DateFrom
<1>4. DateFrom(z, t) \in Int /\ DateFrom(z, t) # None
  BY <1>1, <1>2, <1>3 DEF None
<1>5. Offset(z, DateFrom(z, t)) = Offset(z, t)
  BY <1>3 DEF Stored
<1>6. DateFrom(z, t) - Offset(z, DateFrom(z, t)) = t
  BY <1>1, <1>2, <1>3, <1>5
<1> QED
  BY <1>4, <1>6 DEF Local, LocalDay, UTC, DayOf

LEMMA ReadBackNone ==
  ASSUME NEW z \in Zones, NEW t \in Held
  PROVE  UTC(z, DateFrom(z, t)) = t /\ (DateFrom(z, t) = None <=> t = None)
<1>1. CASE t = None
  BY <1>1 DEF DateFrom, UTC
<1>2. CASE t \in Stored
  BY <1>2, ReadBack, HeldIs
<1> QED
  BY <1>1, <1>2 DEF Held

\* Noon of a day in a reader's zone is stored as noon UTC of that day.
LEMMA PickedIs ==
  ASSUME NEW z \in Zones, NEW d \in Days
  PROVE  /\ Moment(z, d, 12) # None /\ UTC(z, Moment(z, d, 12)) = Noon(d)
         /\ Adjusted(z, Moment(z, d, 12)) = Noon(d)
         /\ LocalDay(z, Moment(z, d, 12)) = d
<1>1. d \in Int /\ d >= 1
  BY DaysAreInt
<1>2. /\ Moment(z, d, 12) \in Int /\ Local(z, Moment(z, d, 12)) = 24 * d + 12
      /\ Moment(z, d, 12) = 24 * d + 12 + Offset(z, Moment(z, d, 12))
      /\ LocalDay(z, Moment(z, d, 12)) = d
  BY <1>1, MomentIs
<1>3. Offset(z, Moment(z, d, 12)) \in -14 .. 12
  BY <1>2, OffsetIs
<1>4. Moment(z, d, 12) # None
  BY <1>1, <1>2, <1>3 DEF None
<1> QED
  BY <1>2, <1>4 DEF UTC, Adjusted, Local, Noon

\* The days of an event that begins on first and ends before end.
LEMMA CalendarIs ==
  ASSUME NEW z \in Zones, NEW first \in Days, NEW end \in Int, end - 1 \in Days
  PROVE  /\ FromCalendarDates(z, Moment(z, first, 0), Moment(z, end, 0))
              = [from |-> Noon(first), to |-> IF end - 1 = first THEN None ELSE Noon(end - 1)]
         /\ FromCalendarDate(z, Moment(z, first, 0)) = [from |-> Noon(first), to |-> None]
<1>1. first \in Int /\ end - 1 >= 1
  BY DaysAreInt
<1>2. ASSUME NEW d \in Int, d >= 1
      PROVE  UTC(z, SetHours(z, Moment(z, d, 0), 12)) = 24 * d + 12
  <2>1. LocalDay(z, Moment(z, d, 0)) = d
    BY MomentIs
  <2>2. SetHours(z, Moment(z, d, 0), 12) = Moment(z, d, 12)
    BY <2>1 DEF SetHours
  <2>3. /\ Moment(z, d, 12) \in Int /\ Local(z, Moment(z, d, 12)) = 24 * d + 12
        /\ Moment(z, d, 12) = 24 * d + 12 + Offset(z, Moment(z, d, 12))
    BY MomentIs
  <2>4. Offset(z, Moment(z, d, 12)) \in -14 .. 12
    BY <2>3, OffsetIs
  <2>5. Moment(z, d, 12) # None
    BY <2>3, <2>4, <1>2 DEF None
  <2> QED
    BY <2>2, <2>3, <2>5 DEF UTC, Local
<1>3. UTC(z, SetHours(z, Moment(z, first, 0), 12)) = Noon(first)
  BY <1>2, DaysAreInt DEF Noon
<1>4. UTC(z, SetHours(z, Moment(z, end, 0), 12)) - 24 = Noon(end - 1)
  <2>1. end >= 1
    BY <1>1
  <2>2. UTC(z, SetHours(z, Moment(z, end, 0), 12)) = 24 * end + 12
    BY <1>2, <2>1
  <2> QED
    BY <2>2 DEF Noon
<1>5. Noon(end - 1) = Noon(first) <=> end - 1 = first
  BY <1>1 DEF Noon
<1> QED
  BY <1>3, <1>4, <1>5 DEF FromCalendarDates, FromCalendarDate

\* The event of a card is on the days that are stored, the last one included.
LEMMA EventIs ==
  ASSUME NEW z \in Zones, NEW f \in Stored, NEW t \in Held
  PROVE  LET d == [from |-> f, to |-> t]
             last == IF t = None THEN DayOf(f) ELSE DayOf(t)
         IN  /\ LocalDay(z, EventOf(z, d).start) = DayOf(f)
             /\ LocalDay(z, EventOf(z, d).end) = last + 1
             /\ EventOf(z, d).start < EventOf(z, d).end => DayOf(f) <= last
<1> DEFINE d == [from |-> f, to |-> t]
           last == IF t = None THEN DayOf(f) ELSE DayOf(t)
           day == DayOf(f)
           s == Moment(z, day, 0)
           e == Moment(z, last + 1, 0)
<1>1. day \in Int /\ last \in Int
  BY HeldIs, DaysAreInt DEF Held
<1>2. GetDateFrom(z, f) = s
  BY ReadBack DEF GetDateFrom, SetHours
<1>3. (IF t = None THEN GetDateFrom(z, f) ELSE GetDateFrom(z, t)) = Moment(z, last, 0)
  BY <1>2, ReadBack DEF GetDateFrom, SetHours, Held
<1>4. LocalDay(z, Moment(z, last, 0)) = last
  BY <1>1, MomentIs
<1>5. EventOf(z, d) = [start |-> s, end |-> e]
  <2> DEFINE to == IF t = None THEN GetDateFrom(z, f) ELSE GetDateFrom(z, t)
  <2>1. EventOf(z, d) = [start |-> GetDateFrom(z, f), end |-> Moment(z, LocalDay(z, to) + 1, 0)]
    BY DEF EventOf
  <2>2. to = Moment(z, last, 0)
    BY <1>3
  <2>3. LocalDay(z, to) = last
    BY <2>2, <1>4
  <2> HIDE DEF to, last, d
  <2> QED
    BY <2>1, <2>3, <1>2
<1>6. LocalDay(z, s) = day /\ LocalDay(z, e) = last + 1
  BY <1>1, MomentIs, SMTT(40)
<1>7. s < e => day <= last
  <2> HIDE DEF last, day
  <2>1. /\ s \in Int /\ s = 24 * day + Offset(z, s)
        /\ e \in Int /\ e = 24 * (last + 1) + Offset(z, e)
    BY <1>1, MomentIs
  <2>2. CASE day <= last
    BY <2>2
  <2>3. CASE day = last + 1
    BY <2>1, <2>3
  <2>4. CASE day > last + 1
    <3>1. Offset(z, e) - Offset(z, s) <= 24
      <4>0. /\ Offset(z, e) \in {z.std, z.dst} /\ Offset(z, s) \in {z.std, z.dst}
            /\ z.std \in Int /\ z.dst \in Int /\ z.from \in Int
        BY <2>1, OffsetIs
      <4>1. CASE z.std = z.dst
        BY <4>0, <4>1
      <4>2. CASE z.std # z.dst
        <5>1. PICK k \in Int : \A o \in {z.std, z.dst} : 24 * k + 1 <= z.from - o /\ z.from - o <= 24 * k + 11
          BY <4>2, ChangeDay
        <5>2. /\ 24 * k + 1 <= z.from - z.std /\ z.from - z.std <= 24 * k + 11
              /\ 24 * k + 1 <= z.from - z.dst /\ z.from - z.dst <= 24 * k + 11
          BY <5>1
        <5> QED
          BY <4>0, <5>2
      <4> QED
        BY <4>1, <4>2
    <3>2. Offset(z, e) \in Int /\ Offset(z, s) \in Int
      BY <2>1, OffsetIs
    <3>3. 24 * day >= 24 * (last + 1) + 24
      BY <1>1, <2>4
    <3> HIDE DEF s, e
    <3>4. 24 * day \in Int /\ 24 * (last + 1) \in Int
      BY <1>1
    <3> QED
      BY <2>1, <3>1, <3>2, <3>3, <3>4
  <2> QED
    BY <1>1, <2>2, <2>3, <2>4
<1> QED
  BY <1>5, <1>6, <1>7

-----------------------------------------------------------------------------
\* The inductive invariant: what is kept and chosen are days and ranges of days
\* that every reader gets back, and an end has a beginning.
DateKept == date \in [from : Held, to : Held] /\ (date.from = None => date.to = None)
DialogsKept == /\ dialog \in [Users -> [open : BOOLEAN, from : Held, to : Held]]
               /\ \A u \in Users : dialog[u].from = None => dialog[u].to = None
KeepsDays == /\ zone \in [Users -> Zones]
        /\ DateKept
        /\ DialogsKept
        /\ filter \in Noons \cup {None}

AbstractDate == [from |-> DayOf(date.from), to |-> DayOf(date.to)]
AbstractDialog == [u \in Users |-> [open |-> dialog[u].open, from |-> DayOf(dialog[u].from),
                                                             to |-> DayOf(dialog[u].to)]]

LEMMA KeepsDaysInit == DatesInit => KeepsDays /\ Abstract!Init
<1> SUFFICES ASSUME DatesInit
             PROVE  KeepsDays /\ Abstract!Init
  OBVIOUS
<1>1. Instants \subseteq Stored
  BY DatesAssumption DEF Stored, DayOf
<1>2. date.from \in Instants \cup {None} /\ date.to = None /\ date = [from |-> date.from, to |-> date.to]
  BY DEF DatesInit
<1>3. date \in [from : Held, to : Held] /\ (date.from = None => date.to = None)
  BY <1>1, <1>2 DEF Held
<1>4. \A u \in Users : dialog[u] = [open |-> FALSE, from |-> None, to |-> None]
  BY DEF DatesInit, Closed
<1>5. DialogsKept
  <2>1. [open |-> FALSE, from |-> None, to |-> None] \in [open : BOOLEAN, from : Held, to : Held]
    BY DEF Held
  <2>2. dialog \in [Users -> [open : BOOLEAN, from : Held, to : Held]]
    BY <2>1 DEF DatesInit, Closed
  <2> QED
    BY <2>2, <1>4 DEF DialogsKept
<1>6. KeepsDays
  BY <1>3, <1>5 DEF KeepsDays, DateKept, DatesInit
<1>7. DayOf(None) = None
  BY HeldIs DEF Held
<1>8. AbstractDate \in [from : Days, to : {None}] \cup {[from |-> None, to |-> None]}
  <2>1. CASE date.from = None
    BY <2>1, <1>2, <1>7 DEF AbstractDate
  <2>2. CASE date.from \in Instants
    <3>1. DayOf(date.from) \in Days
      BY <2>2, <1>1, HeldIs
    <3> QED
      BY <3>1, <1>2, <1>7 DEF AbstractDate
  <2> QED
    BY <2>1, <2>2, <1>2
<1>9. AbstractDialog = [u \in Users |-> [open |-> FALSE, from |-> None, to |-> None]]
  <2>1. ASSUME NEW u \in Users
        PROVE  [open |-> dialog[u].open, from |-> DayOf(dialog[u].from), to |-> DayOf(dialog[u].to)]
                 = [open |-> FALSE, from |-> None, to |-> None]
    <3>1. dialog[u].open = FALSE /\ dialog[u].from = None /\ dialog[u].to = None
      BY <1>4
    <3> QED
      BY <3>1, <1>7
  <2> QED
    BY <2>1 DEF AbstractDialog
<1> QED
  BY <1>6, <1>8, <1>9 DEF Abstract!Init, Abstract!NoDate, Abstract!Closed, Abstract!None, AbstractDate, AbstractDialog, None

\* A choice in the dialog, of instants, is the same choice of days.
Saves(u, f, t) == /\ dialog[u].open
                  /\ dialog' = [dialog EXCEPT ![u] = [open |-> TRUE, from |-> f, to |-> t]]
                  /\ UNCHANGED <<zone, date, filter>>
LEMMA SaveIs ==
  ASSUME KeepsDays, NEW u \in Users, NEW f \in Held, NEW t \in Held, Saves(u, f, t), f = None => t = None,
         NEW d, d = [from |-> DayOf(f), to |-> DayOf(t)]
  PROVE  KeepsDays' /\ Abstract!Choose(u, d)
<1> DEFINE r == [open |-> TRUE, from |-> f, to |-> t]
<1>1. dialog[u].open /\ dialog' = [dialog EXCEPT ![u] = r] /\ UNCHANGED <<zone, date, filter>>
  BY DEF Saves
<1>2. f \in Held /\ t \in Held /\ (f = None => t = None) /\ d.from = DayOf(f) /\ d.to = DayOf(t)
  OBVIOUS
<1>3. r \in [open : BOOLEAN, from : Held, to : Held] /\ r.from = f /\ r.to = t /\ r.open = TRUE
  BY <1>2
<1>4. dialog \in [Users -> [open : BOOLEAN, from : Held, to : Held]]
  BY DEF KeepsDays, DialogsKept
<1> HIDE DEF r
<1>5. dialog'[u] = r /\ \A v \in Users : v # u => dialog'[v] = dialog[v]
  BY <1>1, <1>4
<1>6. DialogsKept'
  <2>1. dialog' \in [Users -> [open : BOOLEAN, from : Held, to : Held]]
    BY <1>1, <1>3, <1>4
  <2>2. \A v \in Users : dialog'[v].from = None => dialog'[v].to = None
    BY <1>2, <1>3, <1>5 DEF KeepsDays, DialogsKept
  <2> QED
    BY <2>1, <2>2 DEF DialogsKept
<1>7. KeepsDays'
  BY <1>1, <1>6 DEF KeepsDays, DateKept
<1>8. AbstractDialog' = [AbstractDialog EXCEPT ![u] = [open |-> TRUE, from |-> DayOf(f), to |-> DayOf(t)]]
  <2>1. [open |-> dialog'[u].open, from |-> DayOf(dialog'[u].from), to |-> DayOf(dialog'[u].to)]
          = [open |-> TRUE, from |-> DayOf(f), to |-> DayOf(t)]
    BY <1>3, <1>5
  <2>2. ASSUME NEW v \in Users, v # u
        PROVE  [open |-> dialog'[v].open, from |-> DayOf(dialog'[v].from), to |-> DayOf(dialog'[v].to)]
                 = [open |-> dialog[v].open, from |-> DayOf(dialog[v].from), to |-> DayOf(dialog[v].to)]
    BY <2>2, <1>5
  <2> QED
    BY <2>1, <2>2 DEF AbstractDialog
<1>9. AbstractDialog[u].open
  BY <1>1 DEF AbstractDialog
<1>10. AbstractDate' = AbstractDate
  BY <1>1 DEF AbstractDate
<1> QED
  BY <1>2, <1>7, <1>8, <1>9, <1>10 DEF Abstract!Choose, Abstract!Opened, AbstractDialog, AbstractDate

LEMMA DialogOf ==
  ASSUME KeepsDays, NEW u \in Users
  PROVE  /\ zone[u] \in Zones
         /\ dialog[u] \in [open : BOOLEAN, from : Held, to : Held]
         /\ dialog[u].from \in Held /\ dialog[u].to \in Held
         /\ (dialog[u].from = None => dialog[u].to = None)
         /\ AbstractDialog[u] = [open |-> dialog[u].open, from |-> DayOf(dialog[u].from), to |-> DayOf(dialog[u].to)]
         /\ AbstractDialog[u].from = DayOf(dialog[u].from) /\ AbstractDialog[u].to = DayOf(dialog[u].to)
BY DEF KeepsDays, DialogsKept, AbstractDialog

LEMMA OpenStep ==
  ASSUME KeepsDays, NEW u \in Users, Open(u)
  PROVE  KeepsDays' /\ Abstract!Open(u)
<1> DEFINE r == [open |-> TRUE, from |-> date.from, to |-> date.to]
<1>1. ~dialog[u].open /\ dialog' = [dialog EXCEPT ![u] = r] /\ UNCHANGED <<zone, date, filter>>
  BY DEF Open
<1>2. date.from \in Held /\ date.to \in Held /\ (date.from = None => date.to = None)
  BY DEF KeepsDays, DateKept
<1>3. r \in [open : BOOLEAN, from : Held, to : Held] /\ r.from = date.from /\ r.to = date.to /\ r.open = TRUE
  BY <1>2
<1>4. dialog \in [Users -> [open : BOOLEAN, from : Held, to : Held]]
  BY DEF KeepsDays, DialogsKept
<1> HIDE DEF r
<1>5. dialog'[u] = r /\ \A v \in Users : v # u => dialog'[v] = dialog[v]
  BY <1>1, <1>4
<1>6. DialogsKept'
  <2>1. dialog' \in [Users -> [open : BOOLEAN, from : Held, to : Held]]
    BY <1>1, <1>3, <1>4
  <2>2. \A v \in Users : dialog'[v].from = None => dialog'[v].to = None
    BY <1>2, <1>3, <1>5 DEF KeepsDays, DialogsKept
  <2> QED
    BY <2>1, <2>2 DEF DialogsKept
<1>7. KeepsDays'
  BY <1>1, <1>6 DEF KeepsDays, DateKept
<1>8. AbstractDialog' = [AbstractDialog EXCEPT ![u] = [open |-> TRUE, from |-> DayOf(date.from), to |-> DayOf(date.to)]]
  <2>1. [open |-> dialog'[u].open, from |-> DayOf(dialog'[u].from), to |-> DayOf(dialog'[u].to)]
          = [open |-> TRUE, from |-> DayOf(date.from), to |-> DayOf(date.to)]
    BY <1>3, <1>5
  <2>2. ASSUME NEW v \in Users, v # u
        PROVE  [open |-> dialog'[v].open, from |-> DayOf(dialog'[v].from), to |-> DayOf(dialog'[v].to)]
                 = [open |-> dialog[v].open, from |-> DayOf(dialog[v].from), to |-> DayOf(dialog[v].to)]
    BY <2>2, <1>5
  <2> QED
    BY <2>1, <2>2 DEF AbstractDialog
<1>9. ~AbstractDialog[u].open
  BY <1>1 DEF AbstractDialog
<1>10. AbstractDate' = AbstractDate /\ AbstractDate.from = DayOf(date.from) /\ AbstractDate.to = DayOf(date.to)
  BY <1>1 DEF AbstractDate
<1> QED
  BY <1>7, <1>8, <1>9, <1>10 DEF Abstract!Open, Abstract!Opened, AbstractDialog, AbstractDate

LEMMA NoneIs == None \in Held /\ DayOf(None) = None /\ None = 0 /\ Stored \subseteq Held /\ None \notin Stored
BY HeldIs DEF Held, None, DayOf

LEMMA EnterFromStep ==
  ASSUME KeepsDays, NEW u \in Users, NEW d \in Days, EnterFrom(u, d)
  PROVE  KeepsDays' /\ Abstract!EnterFrom(u, d)
<1>1. /\ UTC(zone[u], Moment(zone[u], d, 12)) = Noon(d)
      /\ UTC(zone[u], DateFrom(zone[u], dialog[u].to)) = dialog[u].to
  BY DialogOf, PickedIs, ReadBackNone
<1>2. Noon(d) \in Held /\ Noon(d) # None /\ DayOf(Noon(d)) = d
  BY NoonIs, NoneIs
<1>3. dialog[u].to \in Held /\ AbstractDialog[u].to = DayOf(dialog[u].to)
  BY DialogOf
<1>4. PICK t, day : t = dialog[u].to /\ day = [from |-> d, to |-> AbstractDialog[u].to]
  OBVIOUS
<1>5. day = [from |-> DayOf(Noon(d)), to |-> DayOf(t)]
  BY <1>2, <1>3, <1>4
<1>6. Saves(u, Noon(d), t)
  BY <1>1, <1>4 DEF EnterFrom, SaveRangeValue, Saves
<1>7. t \in Held
  BY <1>3, <1>4
<1>8. KeepsDays' /\ Abstract!Choose(u, day)
  BY <1>2, <1>5, <1>6, <1>7, SaveIs
<1> QED
  BY <1>4, <1>8 DEF Abstract!EnterFrom, Abstract!Choose, AbstractDialog

LEMMA EnterToStep ==
  ASSUME KeepsDays, NEW u \in Users, NEW d \in Days, EnterTo(u, d)
  PROVE  KeepsDays' /\ Abstract!EnterTo(u, d)
<1>1. /\ UTC(zone[u], Moment(zone[u], d, 12)) = Noon(d)
      /\ UTC(zone[u], DateFrom(zone[u], dialog[u].from)) = dialog[u].from
  BY DialogOf, PickedIs, ReadBackNone
<1>2. Noon(d) \in Held /\ Noon(d) # None /\ DayOf(Noon(d)) = d
  BY NoonIs, NoneIs
<1>3. /\ dialog[u].to # None /\ dialog[u].from # None /\ DayOf(dialog[u].to) # None
      /\ dialog[u].from \in Held /\ AbstractDialog[u].from = DayOf(dialog[u].from)
  BY DialogOf, HeldIs DEF EnterTo
<1>4. PICK f, day : f = dialog[u].from /\ day = [from |-> AbstractDialog[u].from, to |-> d]
  OBVIOUS
<1>5. day = [from |-> DayOf(f), to |-> DayOf(Noon(d))]
  BY <1>2, <1>3, <1>4
<1>6. Saves(u, f, Noon(d))
  BY <1>1, <1>4 DEF EnterTo, SaveRangeValue, Saves
<1>7. f \in Held /\ f # None
  BY <1>3, <1>4
<1>8. KeepsDays' /\ Abstract!Choose(u, day)
  BY <1>2, <1>5, <1>6, <1>7, SaveIs
<1>9. AbstractDialog[u].to # Abstract!None
  BY <1>3, DialogOf DEF Abstract!None, None
<1> QED
  BY <1>4, <1>8, <1>9 DEF Abstract!EnterTo, Abstract!Choose, AbstractDialog

LEMMA ClearStep ==
  ASSUME KeepsDays, NEW u \in Users, OnClear(u)
  PROVE  KeepsDays' /\ Abstract!Clear(u)
<1>1. Saves(u, None, None)
  BY DEF UTC, OnClear, SaveRangeValue, Saves
<1> DEFINE day == [from |-> None, to |-> None]
<1>2. day = [from |-> DayOf(None), to |-> DayOf(None)]
  BY NoneIs
<1> HIDE DEF day
<1>3. KeepsDays' /\ Abstract!Choose(u, day)
  BY <1>1, <1>2, NoneIs, SaveIs
<1> QED
  BY <1>3 DEF Abstract!Clear, Abstract!NoDate, Abstract!None, None, day

LEMMA ToggleStep ==
  ASSUME KeepsDays, NEW u \in Users, OnRangeClick(u)
  PROVE  KeepsDays' /\ Abstract!ToggleEnd(u)
<1> DEFINE from == DateFrom(zone[u], dialog[u].from)
           to == IF dialog[u].to = None THEN from ELSE None
           end == IF dialog[u].to = None THEN dialog[u].from ELSE None
           abstractEnd == IF AbstractDialog[u].to = Abstract!None THEN AbstractDialog[u].from ELSE Abstract!None
<1>1. UTC(zone[u], from) = dialog[u].from /\ UTC(zone[u], to) = end
  BY DialogOf, ReadBackNone DEF UTC
<1>2. end \in Held /\ (dialog[u].from = None => end = None) /\ dialog[u].from \in Held
  BY DialogOf, NoneIs
<1>3. abstractEnd = DayOf(end) /\ AbstractDialog[u].from = DayOf(dialog[u].from)
  <2>1. AbstractDialog[u].to = None <=> dialog[u].to = None
    BY DialogOf, HeldIs
  <2>2. Abstract!None = None
    BY DEF Abstract!None, None
  <2> QED
    BY <2>1, <2>2, DialogOf, NoneIs
<1>4. PICK f, t, day : f = dialog[u].from /\ t = end /\ day = [from |-> AbstractDialog[u].from, to |-> abstractEnd]
  OBVIOUS
<1>5. Saves(u, f, t)
  BY <1>1, <1>4 DEF OnRangeClick, SaveRangeValue, Saves
<1> HIDE DEF from, to, end, abstractEnd
<1>6. day = [from |-> DayOf(f), to |-> DayOf(t)]
  BY <1>3, <1>4
<1>7. f \in Held /\ t \in Held /\ (f = None => t = None)
  BY <1>2, <1>4
<1>8. KeepsDays' /\ Abstract!Choose(u, day)
  BY <1>5, <1>6, <1>7, SaveIs
<1> QED
  BY <1>4, <1>8 DEF Abstract!ToggleEnd, Abstract!Choose, AbstractDialog, abstractEnd

LEMMA ClickStep ==
  ASSUME KeepsDays, NEW u \in Users, NEW d \in Days, HandleDayClick(u, d)
  PROVE  KeepsDays' /\ Abstract!Click(u, d)
<1> DEFINE z == zone[u]
           day == Moment(z, d, 12)
           range == [from |-> DateFrom(z, dialog[u].from), to |-> DateFrom(z, dialog[u].to)]
           new == IF range.to = None THEN [from |-> day, to |-> None] ELSE AddDayToRange(z, day, range)
<1>1. SaveRangeValue(u, new.from, new.to)
  BY DEF HandleDayClick
<1>2. /\ UTC(z, day) = Noon(d) /\ LocalDay(z, day) = d
      /\ UTC(z, None) = None
      /\ UTC(z, range.from) = dialog[u].from /\ UTC(z, range.to) = dialog[u].to
      /\ range.to = None <=> dialog[u].to = None
  BY DialogOf, PickedIs, ReadBackNone DEF UTC
<1>3. Noon(d) \in Held /\ Noon(d) # None /\ DayOf(Noon(d)) = d
  BY NoonIs, NoneIs
<1>4. Abstract!None = None
  BY DEF Abstract!None, None
<1>5. CASE dialog[u].to = None
  <2>1. new.from = day /\ new.to = None
    BY <1>2, <1>5
  <2> HIDE DEF new, day, range
  <2>2. Saves(u, Noon(d), None)
    BY <1>1, <1>2, <2>1 DEF SaveRangeValue, Saves
  <2>3. PICK new2 : new2 = [from |-> d, to |-> None]
    OBVIOUS
  <2>4. KeepsDays' /\ Abstract!Choose(u, new2)
    BY <1>3, <2>2, <2>3, NoneIs, SaveIs
  <2>5. AbstractDialog[u].to = None
    BY <1>5, DialogOf, NoneIs
  <2> QED
    BY <1>4, <2>3, <2>4, <2>5 DEF Abstract!Click, AbstractDialog
<1>6. CASE dialog[u].to # None
  <2>1. dialog[u].to \in Stored /\ dialog[u].from \in Stored
    BY <1>6, DialogOf DEF Held
  <2> DEFINE f == DayOf(dialog[u].from)
             t == DayOf(dialog[u].to)
  <2>2. f \in Int /\ t \in Int /\ d \in Int /\ t # None
    BY <2>1, HeldIs, DaysAreInt
  <2>3. LocalDay(z, range.from) = f /\ LocalDay(z, range.to) = t
    BY <2>1, DialogOf, ReadBack
  <2>4. /\ AbstractDialog[u].from = f /\ AbstractDialog[u].to = t
    BY DialogOf
  <2>5. new = AddDayToRange(z, day, range)
    BY <1>2, <1>6
  <2>6. new = IF f = t /\ d = f THEN NoDate
              ELSE IF d < f THEN [range EXCEPT !.from = day]
              ELSE IF d = t THEN [from |-> day, to |-> day]
              ELSE [range EXCEPT !.to = day]
    BY <1>2, <2>3, <2>5 DEF AddDayToRange
  <2>7. PICK from, to : from = dialog[u].from /\ to = dialog[u].to
    OBVIOUS
  <2>8. from \in Held /\ to \in Held /\ from # None
    BY <2>1, <2>7, NoneIs
  <2> DEFINE oldFrom == DateFrom(z, dialog[u].from)
             oldTo == DateFrom(z, dialog[u].to)
  <2>9. UTC(z, oldFrom) = from /\ UTC(z, oldTo) = to
    BY <1>2, <2>7
  <2>10. /\ [range EXCEPT !.from = day] = [from |-> day, to |-> oldTo]
         /\ [range EXCEPT !.to = day] = [from |-> oldFrom, to |-> day]
    OBVIOUS
  <2> HIDE DEF new, day, range, oldFrom, oldTo
  <2>11. CASE f = t /\ d = f
    <3>1. new.from = None /\ new.to = None
      BY <2>6, <2>11 DEF NoDate
    <3>2. Saves(u, None, None)
      BY <1>1, <1>2, <3>1 DEF SaveRangeValue, Saves
    <3>3. PICK new2 : new2 = [from |-> None, to |-> None]
      OBVIOUS
    <3>4. KeepsDays' /\ Abstract!Choose(u, new2)
      BY <3>2, <3>3, NoneIs, SaveIs
    <3>5. Abstract!NoDate = new2
      BY <3>3 DEF Abstract!NoDate, Abstract!None, None
    <3> QED
      BY <1>4, <2>2, <2>4, <2>11, <3>4, <3>5 DEF Abstract!Click, AbstractDialog
  <2>12. CASE ~(f = t /\ d = f) /\ d < f
    <3>1. new.from = day /\ new.to = oldTo
      BY <2>6, <2>10, <2>12
    <3>2. Saves(u, Noon(d), to)
      BY <1>1, <1>2, <2>9, <3>1 DEF SaveRangeValue, Saves
    <3>3. PICK new2 : new2 = [from |-> d, to |-> AbstractDialog[u].to]
      OBVIOUS
    <3>4. new2 = [from |-> DayOf(Noon(d)), to |-> DayOf(to)]
      BY <1>3, <2>4, <2>7, <3>3
    <3>5. KeepsDays' /\ Abstract!Choose(u, new2)
      BY <1>3, <2>8, <3>2, <3>4, SaveIs
    <3> QED
      BY <1>4, <2>2, <2>4, <2>12, <3>3, <3>5 DEF Abstract!Click, Abstract!Choose, AbstractDialog
  <2>13. CASE ~(f = t /\ d = f) /\ ~(d < f) /\ d = t
    <3>1. new.from = day /\ new.to = day
      BY <2>6, <2>13
    <3>2. Saves(u, Noon(d), Noon(d))
      BY <1>1, <1>2, <3>1 DEF SaveRangeValue, Saves
    <3>3. PICK new2 : new2 = [from |-> d, to |-> d]
      OBVIOUS
    <3>4. KeepsDays' /\ Abstract!Choose(u, new2)
      BY <1>3, <3>2, <3>3, SaveIs
    <3>5. f # t /\ d >= f
      BY <2>2, <2>13
    <3> QED
      BY <1>4, <2>2, <2>4, <2>13, <3>3, <3>4, <3>5 DEF Abstract!Click, AbstractDialog
  <2>14. CASE ~(f = t /\ d = f) /\ ~(d < f) /\ d # t
    <3>1. new.from = oldFrom /\ new.to = day
      BY <2>6, <2>10, <2>14
    <3>2. Saves(u, from, Noon(d))
      BY <1>1, <1>2, <2>9, <3>1 DEF SaveRangeValue, Saves
    <3>3. PICK new2 : new2 = [from |-> AbstractDialog[u].from, to |-> d]
      OBVIOUS
    <3>4. new2 = [from |-> DayOf(from), to |-> DayOf(Noon(d))]
      BY <1>3, <2>4, <2>7, <3>3
    <3>5. KeepsDays' /\ Abstract!Choose(u, new2)
      BY <1>3, <2>8, <3>2, <3>4, SaveIs
    <3>6. d >= f
      BY <2>2, <2>14
    <3> QED
      BY <1>4, <2>2, <2>4, <2>14, <3>3, <3>5, <3>6 DEF Abstract!Click, Abstract!Choose, AbstractDialog
  <2> QED
    BY <2>11, <2>12, <2>13, <2>14
<1> QED
  BY <1>5, <1>6

-----------------------------------------------------------------------------
\* What is stored is seen in the dialogs of the others as the same days.
LEMMA FollowIs ==
  ASSUME KeepsDays, NEW v \in Users, NEW f \in Held, NEW t \in Held, f = None => t = None,
         NEW d, d = [from |-> f, to |-> t], NEW r, r = Follow(v, d),
         NEW day, day = [from |-> DayOf(f), to |-> DayOf(t)]
  PROVE  /\ r \in [open : BOOLEAN, from : Held, to : Held] /\ (r.from = None => r.to = None)
         /\ dialog'[v] = r => Abstract!Becomes(v, day)
<1>1. /\ dialog[v] \in [open : BOOLEAN, from : Held, to : Held]
      /\ dialog[v].from = None => dialog[v].to = None
      /\ AbstractDialog[v] = [open |-> dialog[v].open, from |-> DayOf(dialog[v].from), to |-> DayOf(dialog[v].to)]
  BY DialogOf
<1>4. dialog'[v] = r => AbstractDialog'[v] = [open |-> r.open, from |-> DayOf(r.from), to |-> DayOf(r.to)]
  BY DEF AbstractDialog
<1>2. CASE dialog[v].open /\ d # date
  <2>1. r = [open |-> TRUE, from |-> f, to |-> t]
    BY <1>2 DEF Follow
  <2>2. r.open = TRUE /\ r.from = f /\ r.to = t
    BY <2>1
  <2>3. AbstractDialog[v].open
    BY <1>1, <1>2
  <2>4. ASSUME dialog'[v] = r
        PROVE  Abstract!Becomes(v, day)
    <3>1. AbstractDialog'[v] = [open |-> TRUE, from |-> day.from, to |-> day.to]
      BY <1>4, <2>2, <2>4
    <3> QED
      BY <2>3, <3>1 DEF Abstract!Becomes, Abstract!Opened, AbstractDialog
  <2> QED
    BY <2>1, <2>2, <2>4
<1>3. CASE ~(dialog[v].open /\ d # date)
  <2>1. r = dialog[v]
    BY <1>3 DEF Follow
  <2>2. ASSUME dialog'[v] = r
        PROVE  Abstract!Becomes(v, day)
    <3>1. AbstractDialog'[v] = AbstractDialog[v]
      BY <1>1, <1>4, <2>1, <2>2
    <3>2. ASSUME AbstractDialog[v].open
          PROVE  day = AbstractDate
      <4>1. dialog[v].open
        BY <1>1, <3>2
      <4>2. date.from = f /\ date.to = t
        BY <1>3, <4>1
      <4> QED
        BY <4>2 DEF AbstractDate
    <3> QED
      BY <3>1, <3>2 DEF Abstract!Becomes, AbstractDialog, AbstractDate
  <2> QED
    BY <1>1, <2>1, <2>2
<1> QED
  BY <1>2, <1>3

LEMMA StoreIs ==
  ASSUME KeepsDays, NEW W, NEW f \in Held, NEW t \in Held, f = None => t = None,
         NEW d, d = [from |-> f, to |-> t], NEW day, day = [from |-> DayOf(f), to |-> DayOf(t)],
         ChangePropertyValue(d),
         dialog' = [v \in Users |-> IF v \in W THEN Closed ELSE Follow(v, d)]
  PROVE  /\ KeepsDays'
         /\ AbstractDate' = day
         /\ \A v \in Users \ W : Abstract!Becomes(v, day)
         /\ \A v \in Users : v \in W => AbstractDialog'[v] = [open |-> FALSE, from |-> None, to |-> None]
<1>1. date' = d /\ UNCHANGED <<zone, filter>>
  BY DEF ChangePropertyValue
<1>2. ASSUME NEW v \in Users, v \in W
      PROVE  /\ dialog'[v] \in [open : BOOLEAN, from : Held, to : Held]
             /\ dialog'[v].from = None => dialog'[v].to = None
             /\ AbstractDialog'[v] = [open |-> FALSE, from |-> None, to |-> None]
  <2>1. dialog'[v] = [open |-> FALSE, from |-> None, to |-> None]
    BY <1>2 DEF Closed
  <2>2. dialog'[v].open = FALSE /\ dialog'[v].from = None /\ dialog'[v].to = None
    BY <2>1
  <2>3. AbstractDialog'[v] = [open |-> dialog'[v].open, from |-> DayOf(dialog'[v].from), to |-> DayOf(dialog'[v].to)]
    BY DEF AbstractDialog
  <2> QED
    BY <2>1, <2>2, <2>3, NoneIs
<1>3. ASSUME NEW v \in Users, v \notin W
      PROVE  /\ dialog'[v] \in [open : BOOLEAN, from : Held, to : Held]
             /\ dialog'[v].from = None => dialog'[v].to = None
             /\ Abstract!Becomes(v, day)
  <2>1. PICK r : r = Follow(v, d)
    OBVIOUS
  <2>2. dialog'[v] = r
    BY <1>3, <2>1
  <2>3. /\ r \in [open : BOOLEAN, from : Held, to : Held] /\ (r.from = None => r.to = None)
        /\ dialog'[v] = r => Abstract!Becomes(v, day)
    BY <2>1, FollowIs
  <2> QED
    BY <2>2, <2>3
<1>4. DialogsKept'
  <2>1. dialog' = [v \in Users |-> dialog'[v]]
    OBVIOUS
  <2>2. \A v \in Users : dialog'[v] \in [open : BOOLEAN, from : Held, to : Held]
    BY <1>2, <1>3
  <2>3. \A v \in Users : dialog'[v].from = None => dialog'[v].to = None
    BY <1>2, <1>3
  <2>4. dialog' \in [Users -> [open : BOOLEAN, from : Held, to : Held]]
    BY <2>1, <2>2
  <2> QED
    BY <2>3, <2>4 DEF DialogsKept
<1>5. date'.from = f /\ date'.to = t /\ date' \in [from : Held, to : Held]
  BY <1>1
<1>6. KeepsDays'
  BY <1>1, <1>4, <1>5 DEF KeepsDays, DateKept
<1>7. AbstractDate' = day
  BY <1>5 DEF AbstractDate
<1> QED
  BY <1>2, <1>3, <1>6, <1>7

LEMMA CloseStep ==
  ASSUME KeepsDays, NEW u \in Users, OnClose(u)
  PROVE  KeepsDays' /\ Abstract!Close(u)
<1>1. PICK f, t, d, day : /\ f = dialog[u].from /\ t = dialog[u].to /\ d = [from |-> dialog[u].from, to |-> dialog[u].to]
                          /\ day = [from |-> AbstractDialog[u].from, to |-> AbstractDialog[u].to]
  OBVIOUS
<1>2. f \in Held /\ t \in Held /\ (f = None => t = None) /\ d = [from |-> f, to |-> t]
      /\ day = [from |-> DayOf(f), to |-> DayOf(t)]
  BY <1>1, DialogOf
<1>3. /\ dialog[u].open /\ ChangePropertyValue(d)
      /\ dialog' = [v \in Users |-> IF v \in {u} THEN Closed ELSE Follow(v, d)]
  BY <1>1 DEF OnClose
<1>4. /\ KeepsDays' /\ AbstractDate' = day /\ \A v \in Users \ {u} : Abstract!Becomes(v, day)
      /\ \A v \in Users : v \in {u} => AbstractDialog'[v] = [open |-> FALSE, from |-> None, to |-> None]
  <2> DEFINE W == {u}
  <2>1. dialog' = [v \in Users |-> IF v \in W THEN Closed ELSE Follow(v, d)]
    BY <1>3
  <2> HIDE DEF W
  <2>2. KeepsDays' /\ AbstractDate' = day /\ \A v \in Users \ W : Abstract!Becomes(v, day)
    BY <1>2, <1>3, <2>1, StoreIs
  <2>3. \A v \in Users : v \in W => AbstractDialog'[v] = [open |-> FALSE, from |-> None, to |-> None]
    BY <1>2, <1>3, <2>1, StoreIs
  <2> QED
    BY <2>2, <2>3 DEF W
<1>5. AbstractDialog'[u] = [open |-> FALSE, from |-> None, to |-> None]
  BY <1>4
<1>6. AbstractDialog[u].open
  BY <1>3 DEF AbstractDialog
<1>7. Abstract!Closed = [open |-> FALSE, from |-> None, to |-> None]
  BY DEF Abstract!Closed, Abstract!None, None
<1>8. KeepsDays'
  BY <1>4
<1>9. Abstract!Close(u)
  BY <1>1, <1>4, <1>5, <1>6, <1>7 DEF Abstract!Close, Abstract!Becomes, AbstractDialog, AbstractDate
<1> QED
  BY <1>8, <1>9

\* The days from first to before end are days of the calendar.
LEMMA SpanIs ==
  ASSUME NEW first \in Days, NEW end \in Days \cup {d + 1 : d \in Days}, first < end
  PROVE  end \in Int /\ end - 1 \in Days /\ first <= end - 1
<1>1. first \in Int /\ end \in Int
  BY DaysAreInt
<1>2. CASE end \in Days
  <2>1. end - 1 \in first .. end
    BY <1>1
  <2> QED
    BY <2>1, <1>1, <1>2, DaysAreInt
<1>3. CASE end \in {d + 1 : d \in Days}
  BY <1>1, <1>3, DaysAreInt
<1> QED
  BY <1>2, <1>3

LEMMA EventChangeStep ==
  ASSUME KeepsDays, NEW u \in Users, NEW first \in Days, NEW end \in Days \cup {d + 1 : d \in Days},
         EventChange(u, first, end)
  PROVE  KeepsDays' /\ end - 1 \in Days /\ Abstract!Place(first, end - 1)
<1> DEFINE z == zone[u]
           last == end - 1
           days == Abstract!Span(first, last)
           span == FromCalendarDates(z, Moment(z, first, 0), Moment(z, end, 0))
<1>1. /\ date.from # None /\ first < end
      /\ EventOf(z, date).start < EventOf(z, date).end
      /\ ChangePropertyValue(span)
      /\ dialog' = [v \in Users |-> Follow(v, span)]
  BY DEF EventChange
<1>2. end \in Int /\ last \in Days /\ first <= last
  BY <1>1, SpanIs
<1>3. z \in Zones
  BY DialogOf
<1>4. /\ Noon(first) \in Held /\ DayOf(Noon(first)) = first /\ Noon(first) # None
      /\ Noon(last) \in Held /\ DayOf(Noon(last)) = last
  BY <1>2, NoonIs, NoneIs
<1>5. PICK f, t, d, day : /\ f = Noon(first) /\ t = (IF last = first THEN None ELSE Noon(last))
                          /\ d = span /\ day = days
  OBVIOUS
<1>6. d = [from |-> f, to |-> t]
  BY <1>2, <1>3, <1>5, CalendarIs
<1>7. day = [from |-> DayOf(f), to |-> DayOf(t)]
  BY <1>4, <1>5, NoneIs DEF Abstract!Span, Abstract!None, None
<1>8. ChangePropertyValue(d) /\ dialog' = [v \in Users |-> IF v \in {} THEN Closed ELSE Follow(v, d)]
  BY <1>1, <1>5
<1>9. f \in Held /\ t \in Held /\ (f = None => t = None)
  BY <1>4, <1>5, NoneIs
<1>10. KeepsDays' /\ AbstractDate' = day /\ \A v \in Users : Abstract!Becomes(v, day)
  <2> DEFINE W == {}
  <2>1. dialog' = [v \in Users |-> IF v \in W THEN Closed ELSE Follow(v, d)]
    BY <1>8
  <2> HIDE DEF W
  <2>2. KeepsDays' /\ AbstractDate' = day /\ \A v \in Users \ W : Abstract!Becomes(v, day)
    BY <1>6, <1>7, <1>8, <1>9, <2>1, StoreIs
  <2> QED
    BY <2>2 DEF W
<1>11. AbstractDate.from # Abstract!None /\ AbstractDate.from <= Abstract!Last(AbstractDate)
  <2>1. /\ date = [from |-> date.from, to |-> date.to]
        /\ date.from \in Held /\ date.from # None /\ date.to \in Held
    BY <1>1 DEF KeepsDays, DateKept
  <2>2. date.from \in Stored
    BY <2>1 DEF Held
  <2>3. PICK from, to : from = date.from /\ to = date.to
    OBVIOUS
  <2>4. from \in Stored /\ to \in Held /\ date = [from |-> from, to |-> to]
    BY <2>1, <2>2, <2>3
  <2>5. DayOf(from) <= (IF to = None THEN DayOf(from) ELSE DayOf(to))
    BY <1>1, <1>3, <2>4, EventIs
  <2>6. AbstractDate.from = DayOf(from) /\ AbstractDate.to = DayOf(to)
    BY <2>3 DEF AbstractDate
  <2>7. DayOf(to) = None <=> to = None
    BY <2>4, HeldIs
  <2>8. DayOf(from) # None
    BY <2>4, HeldIs
  <2> QED
    BY <2>5, <2>6, <2>7, <2>8 DEF Abstract!Last, Abstract!None, None
<1>12. Abstract!Become(day)
  BY <1>10 DEF Abstract!Become, AbstractDate
<1> QED
  BY <1>2, <1>5, <1>10, <1>11, <1>12 DEF Abstract!Place, Abstract!Become, Abstract!Becomes, AbstractDate, AbstractDialog

LEMMA NewEventStep ==
  ASSUME KeepsDays, NEW u \in Users, NEW first \in Days, NEW end \in Days \cup {d + 1 : d \in Days},
         first <= end, OnNewEvent(u, first, end)
  PROVE  KeepsDays' /\ \E last \in Days : Abstract!Make(first, last)
<1> DEFINE z == zone[u]
           last == IF first = end THEN first ELSE end - 1
           new == IF first = end THEN FromCalendarDate(z, Moment(z, first, 0))
                  ELSE FromCalendarDates(z, Moment(z, first, 0), Moment(z, end, 0))
<1>1. /\ \A v \in Users : ~dialog[v].open
      /\ ChangePropertyValue(new)
      /\ first # end => date'.to # None
      /\ UNCHANGED dialog
  BY DEF OnNewEvent
<1>2. z \in Zones
  BY DialogOf
<1>3. last \in Days /\ first <= last /\ first \in Int /\ end \in Int
  <2>1. first \in Int /\ end \in Int
    BY DaysAreInt
  <2>2. CASE first = end
    BY <2>1, <2>2
  <2>3. CASE first # end
    BY <2>1, <2>3, SpanIs
  <2> QED
    BY <2>1, <2>2, <2>3
<1>4. /\ Noon(first) \in Held /\ DayOf(Noon(first)) = first /\ Noon(first) # None
      /\ Noon(last) \in Held /\ DayOf(Noon(last)) = last
  BY <1>3, NoonIs, NoneIs
<1>5. PICK f, t, day : /\ f = Noon(first) /\ t = (IF last = first THEN None ELSE Noon(last))
                       /\ day = Abstract!Span(first, last)
  OBVIOUS
<1>6. new = [from |-> f, to |-> t]
  <2>1. CASE first = end
    <3>1. FromCalendarDate(z, Moment(z, first, 0)) = [from |-> Noon(first), to |-> None]
      <4>1. (first + 1) - 1 \in Days /\ first + 1 \in Int
        BY <1>3
      <4> QED
        BY <4>1, <1>2, CalendarIs
    <3> QED
      BY <1>5, <2>1, <3>1
  <2>2. CASE first # end
    <3>1. end - 1 \in Days
      BY <1>3, <2>2
    <3>2. FromCalendarDates(z, Moment(z, first, 0), Moment(z, end, 0))
            = [from |-> Noon(first), to |-> IF end - 1 = first THEN None ELSE Noon(end - 1)]
      BY <1>2, <1>3, <3>1, CalendarIs
    <3> QED
      BY <1>5, <2>2, <3>2
  <2> QED
    BY <2>1, <2>2
<1>7. date' = new /\ UNCHANGED <<zone, filter>>
  BY <1>1 DEF ChangePropertyValue
<1>8. f \in Held /\ t \in Held /\ (f = None => t = None)
  BY <1>4, <1>5, NoneIs
<1>9. date' \in [from : Held, to : Held] /\ date'.from = f /\ date'.to = t
  BY <1>6, <1>7, <1>8
<1>10. KeepsDays'
  <2>1. DialogsKept'
    BY <1>1 DEF KeepsDays, DialogsKept
  <2> QED
    BY <1>7, <1>8, <1>9, <2>1 DEF KeepsDays, DateKept
<1>11. AbstractDate' = day
  <2>1. AbstractDate' = [from |-> DayOf(f), to |-> DayOf(t)]
    BY <1>9 DEF AbstractDate
  <2>2. day = [from |-> DayOf(f), to |-> DayOf(t)]
    BY <1>4, <1>5, NoneIs DEF Abstract!Span, Abstract!None, None
  <2> QED
    BY <2>1, <2>2
<1>12. /\ \A v \in Users : ~AbstractDialog[v].open
       /\ AbstractDialog' = AbstractDialog
  BY <1>1 DEF AbstractDialog
<1>13. Abstract!Make(first, last)
  BY <1>3, <1>5, <1>11, <1>12 DEF Abstract!Make, AbstractDialog, AbstractDate
<1> QED
  BY <1>3, <1>10, <1>13

LEMMA FilterStep ==
  ASSUME KeepsDays, ClearFilter \/ \E u \in Users, d \in Days : PickFilterDay(u, d)
  PROVE  KeepsDays' /\ AbstractDate' = AbstractDate /\ AbstractDialog' = AbstractDialog
<1>1. UNCHANGED <<zone, date, dialog>>
  BY DEF ClearFilter, PickFilterDay
<1>2. filter' \in Noons \cup {None}
  <2>1. CASE ClearFilter
    BY <2>1 DEF ClearFilter
  <2>2. ASSUME NEW u \in Users, NEW d \in Days, PickFilterDay(u, d)
        PROVE  filter' \in Noons \cup {None}
    BY <2>2, DialogOf, PickedIs DEF PickFilterDay, Noons
  <2> QED
    BY <2>1, <2>2
<1> QED
  BY <1>1, <1>2 DEF KeepsDays, DateKept, DialogsKept, AbstractDate, AbstractDialog

LEMMA StutterStep ==
  ASSUME KeepsDays, UNCHANGED dateVars
  PROVE  KeepsDays' /\ AbstractDate' = AbstractDate /\ AbstractDialog' = AbstractDialog
BY DEF dateVars, KeepsDays, DateKept, DialogsKept, AbstractDate, AbstractDialog

LEMMA DatesStep ==
  ASSUME KeepsDays, [DatesNext]_dateVars
  PROVE  KeepsDays' /\ [Abstract!Next]_<<AbstractDate, AbstractDialog>>
<1>1. ASSUME NEW u \in Users, Open(u)
      PROVE  KeepsDays' /\ Abstract!Next
  BY <1>1, OpenStep DEF Abstract!Next
<1>2. ASSUME NEW u \in Users, OnRangeClick(u)
      PROVE  KeepsDays' /\ Abstract!Next
  BY <1>2, ToggleStep DEF Abstract!Next
<1>3. ASSUME NEW u \in Users, OnClear(u)
      PROVE  KeepsDays' /\ Abstract!Next
  BY <1>3, ClearStep DEF Abstract!Next
<1>4. ASSUME NEW u \in Users, OnClose(u)
      PROVE  KeepsDays' /\ Abstract!Next
  BY <1>4, CloseStep DEF Abstract!Next
<1>5. ASSUME NEW u \in Users, NEW d \in Days, HandleDayClick(u, d)
      PROVE  KeepsDays' /\ Abstract!Next
  BY <1>5, ClickStep DEF Abstract!Next
<1>6. ASSUME NEW u \in Users, NEW d \in Days, EnterFrom(u, d)
      PROVE  KeepsDays' /\ Abstract!Next
  BY <1>6, EnterFromStep DEF Abstract!Next
<1>7. ASSUME NEW u \in Users, NEW d \in Days, EnterTo(u, d)
      PROVE  KeepsDays' /\ Abstract!Next
  BY <1>7, EnterToStep DEF Abstract!Next
<1>8. ASSUME NEW u \in Users, NEW first \in Days, NEW end \in Days \cup {d + 1 : d \in Days},
             EventChange(u, first, end)
      PROVE  KeepsDays' /\ Abstract!Next
  <2>1. KeepsDays' /\ end - 1 \in Days /\ Abstract!Place(first, end - 1)
    BY <1>8, EventChangeStep
  <2> QED
    BY <2>1 DEF Abstract!Next
<1>9. ASSUME NEW u \in Users, NEW first \in Days, NEW end \in Days \cup {d + 1 : d \in Days},
             first <= end, OnNewEvent(u, first, end)
      PROVE  KeepsDays' /\ Abstract!Next
  <2>1. KeepsDays' /\ \E last \in Days : Abstract!Make(first, last)
    BY <1>9, NewEventStep
  <2> QED
    BY <2>1 DEF Abstract!Next
<1>10. ASSUME ClearFilter \/ (\E u \in Users, d \in Days : PickFilterDay(u, d))
       PROVE  KeepsDays' /\ UNCHANGED <<AbstractDate, AbstractDialog>>
  BY <1>10, FilterStep
<1>11. ASSUME UNCHANGED dateVars
       PROVE  KeepsDays' /\ UNCHANGED <<AbstractDate, AbstractDialog>>
  BY <1>11, StutterStep
<1> QED
  BY <1>1, <1>2, <1>3, <1>4, <1>5, <1>6, <1>7, <1>8, <1>9, <1>10, <1>11 DEF DatesNext

\* The inductive invariant holds of every behaviour.
THEOREM DaysAreKept == DatesSpec => []KeepsDays
<1>1. KeepsDays /\ [DatesNext]_dateVars => KeepsDays'
  BY DatesStep
<1> QED
  BY <1>1, KeepsDaysInit, PTL DEF DatesSpec

\* However users in different zones edit the date of a card, in the dialog and on
\* the calendar (date.tsx, fullCalendar.tsx), what happens is what happens to days
\* that know neither hours nor zones.
THEOREM DatesAreDays == DatesSpec => ImplementsDays
<1>1. DatesInit => Abstract!Init
  BY KeepsDaysInit
<1>2. KeepsDays /\ [DatesNext]_dateVars => [Abstract!Next]_<<AbstractDate, AbstractDialog>>
  BY DatesStep
<1> QED
  BY <1>1, <1>2, DaysAreKept, PTL DEF DatesSpec, ImplementsDays, Abstract!Spec, AbstractDate, AbstractDialog
-----------------------------------------------------------------------------
LEMMA Typed == KeepsDays => DatesTypeOK
<1> SUFFICES ASSUME KeepsDays
             PROVE  DatesTypeOK
  OBVIOUS
<1> DEFINE Times == {t \in Int : DayOf(t) \in Days \cup {None}}
           PickedRange == {d \in [from : Times, to : Times] : d.from = None => d.to = None}
<1>1. Held \subseteq Times
  BY HeldIs
<1>2. date \in PickedRange
  BY <1>1 DEF KeepsDays, DateKept
<1>3. ASSUME NEW u \in Users
      PROVE  [from |-> dialog[u].from, to |-> dialog[u].to] \in PickedRange
  BY <1>1, DialogOf
<1>4. filter \in Times
  <2>1. filter \in Held
    BY NoonIs, NoneIs DEF KeepsDays, Noons
  <2> QED
    BY <1>1, <2>1
<1> QED
  BY <1>2, <1>3, <1>4 DEF DatesTypeOK

LEMMA ShownInDays == KeepsDays => ShownAlike
<1> SUFFICES ASSUME KeepsDays
             PROVE  ShownAlike
  OBVIOUS
<1>1. /\ date = [from |-> date.from, to |-> date.to]
      /\ date.from \in Held /\ date.to \in Held
  BY DEF KeepsDays, DateKept
<1>2. ASSUME NEW z \in Zones, NEW t \in Held
      PROVE  (IF t = None THEN None ELSE LocalDay(z, DateFrom(z, t))) = DayOf(t)
  <2>1. CASE t = None
    BY <2>1, NoneIs
  <2>2. CASE t \in Stored
    BY <2>2, HeldIs, ReadBack
  <2> QED
    BY <2>1, <2>2 DEF Held
<1>3. ASSUME NEW z \in Zones, date.from # None
      PROVE  /\ LocalDay(z, EventOf(z, date).start) = DayOf(date.from)
             /\ LocalDay(z, EventOf(z, date).end) = (IF date.to = None THEN DayOf(date.from) ELSE DayOf(date.to)) + 1
  <2>1. PICK f, t : f = date.from /\ t = date.to
    OBVIOUS
  <2>2. f \in Stored /\ t \in Held /\ date = [from |-> f, to |-> t]
    BY <1>1, <1>3, <2>1 DEF Held
  <2>3. /\ LocalDay(z, EventOf(z, date).start) = DayOf(f)
        /\ LocalDay(z, EventOf(z, date).end) = (IF t = None THEN DayOf(f) ELSE DayOf(t)) + 1
    BY <2>2, EventIs
  <2> QED
    BY <2>1, <2>3
<1>4. \A u \in Users : zone[u] \in Zones
  BY DialogOf
<1> QED
  BY <1>1, <1>2, <1>3, <1>4, Typed DEF ShownAlike

LEMMA Found == KeepsDays => FilterSeesDays
<1> SUFFICES ASSUME KeepsDays, filter # None
             PROVE  LET f == DayOf(date.from)
                        t == IF date.to = None THEN f ELSE DayOf(date.to)
                        day == DayOf(filter)
                        noon(x) == x = None \/ x % 24 = 12
                    IN  /\ date.from # None /\ noon(date.from) /\ noon(date.to) =>
                              /\ IsOn(date) <=> f <= day /\ day <= t
                              /\ IsBefore(date) <=> f < day
                              /\ IsAfter(date) <=> t > day
                        /\ \A c \in Created : c % 24 # 0 =>
                              /\ CreatedOn(c) <=> DayOf(c) = day
                              /\ CreatedBefore(c) <=> DayOf(c) < day
                              /\ CreatedAfter(c) <=> DayOf(c) > day
  BY DEF FilterSeesDays
<1>1. PICK day \in Days : filter = Noon(day)
  BY DEF KeepsDays, Noons
<1>2. /\ day \in Int /\ DayOf(filter) = day /\ filter = 24 * day + 12
  BY <1>1, NoonIs, DaysAreInt DEF Noon
<1>3. date.from \in Held /\ date.to \in Held
  BY DEF KeepsDays, DateKept
<1>4. ASSUME NEW x \in Stored, x % 24 = 12
      PROVE  DayOf(x) \in Int /\ x = 24 * DayOf(x) + 12
  BY <1>4, HeldIs, DayBounds DEF DayOf
<1>5. ASSUME date.from # None, date.from % 24 = 12, date.to = None \/ date.to % 24 = 12
      PROVE  LET f == DayOf(date.from)
                 t == IF date.to = None THEN f ELSE DayOf(date.to)
             IN  /\ IsOn(date) <=> f <= day /\ day <= t
                 /\ IsBefore(date) <=> f < day
                 /\ IsAfter(date) <=> t > day
  <2>1. DayOf(date.from) \in Int /\ date.from = 24 * DayOf(date.from) + 12
    BY <1>3, <1>4, <1>5 DEF Held
  <2>2. CASE date.to = None
    <3>1. IsOn(date) <=> DayOf(date.from) = day
      BY <1>2, <2>1, <2>2 DEF IsOn
    <3>2. IsBefore(date) <=> DayOf(date.from) < day
      BY <1>2, <1>5, <2>1 DEF IsBefore
    <3>3. IsAfter(date) <=> DayOf(date.from) > day
      BY <1>2, <1>5, <2>1, <2>2 DEF IsAfter
    <3> QED
      BY <1>2, <2>1, <2>2, <3>1, <3>2, <3>3
  <2>3. CASE date.to # None
    <3>0. DayOf(date.to) \in Int /\ date.to = 24 * DayOf(date.to) + 12
      BY <1>3, <1>4, <1>5, <2>3 DEF Held
    <3>1. IsOn(date) <=> DayOf(date.from) <= day /\ day <= DayOf(date.to)
      BY <1>2, <1>5, <2>1, <2>3, <3>0 DEF IsOn
    <3>2. IsBefore(date) <=> DayOf(date.from) < day
      BY <1>2, <1>5, <2>1 DEF IsBefore
    <3>3. IsAfter(date) <=> DayOf(date.to) > day
      BY <1>2, <2>3, <3>0 DEF IsAfter
    <3> QED
      BY <2>3, <3>1, <3>2, <3>3
  <2> QED
    BY <2>2, <2>3
<1>6. ASSUME NEW c \in Created, c % 24 # 0
      PROVE  /\ CreatedOn(c) <=> DayOf(c) = day
             /\ CreatedBefore(c) <=> DayOf(c) < day
             /\ CreatedAfter(c) <=> DayOf(c) > day
  <2>1. c \in Int
    BY DatesAssumption
  <2>2. /\ DayOf(c) \in Int /\ 24 * DayOf(c) <= c /\ c < 24 * DayOf(c) + 24
        /\ c # 24 * DayOf(c)
    BY <1>6, <2>1, DayBounds DEF DayOf
  <2> DEFINE e == DayOf(c)
  <2> HIDE DEF e
  <2>3. e \in Int /\ 24 * e < c /\ c < 24 * e + 24
    BY <2>1, <2>2 DEF e
  <2>4. CreatedOn(c) <=> 24 * day < c /\ c < 24 * day + 24
    BY <1>2, <2>1 DEF CreatedOn
  <2>5. CreatedBefore(c) <=> c < 24 * day
    BY <1>2, <2>1 DEF CreatedBefore
  <2>6. CreatedAfter(c) <=> c > 24 * day + 24
    BY <1>2, <2>1 DEF CreatedAfter
  <2>7. /\ (24 * day < c /\ c < 24 * day + 24) <=> e = day
        /\ c < 24 * day <=> e < day
        /\ c > 24 * day + 24 <=> e > day
    BY <1>2, <2>1, <2>3
  <2> QED
    BY <2>4, <2>5, <2>6, <2>7 DEF e
<1> QED
  <2>1. date.from # None => (date.from = None \/ date.from % 24 = 12 <=> date.from % 24 = 12)
    OBVIOUS
  <2> QED
    BY <1>2, <1>5, <1>6, <2>1

\* The days that one user chooses are the days that all of them see on the
\* property and on the calendar, and find with a filter (date.tsx,
\* fullCalendar.tsx, dateFilter.tsx, cardFilter.ts).
THEOREM EveryoneSeesTheDays == DatesSpec => []DaysAgree
<1>1. KeepsDays => DaysAgree
  BY ShownInDays, Found DEF DaysAgree
<1> QED
  BY <1>1, DaysAreKept, PTL

-----------------------------------------------------------------------------
(* Settings: the pages, one at a time.                                     *)

Names == Themes \cup {SystemTheme}
Pages == [open : BOOLEAN, shown : Themes, name : Names, language : Languages, known : BOOLEAN,
          switch : BOOLEAN, menu : NoMenu \cup Names, missed : SUBSET (Keys \cup {"tick"})]

\* What PageShowsSettings says of one page.
Shows(tab, s, isDark) ==
    /\ "theme" \notin tab.missed => tab.shown = ThemeShown(s.theme, isDark) /\ tab.name = ThemeName(s.theme)
    /\ "language" \notin tab.missed => tab.language = GetCurrentLanguage(s)
    /\ tab.menu \notin NoMenu =>
         /\ "tick" \notin tab.missed => tab.menu = ThemeName(s.theme)
         /\ "icons" \notin tab.missed => (tab.switch <=> PrefillRandomIcons(s))

LEMMA ThemesAre ==
    /\ \A theme \in Themes \cup {Unset} : \A d : ThemeShown(theme, d) \in Themes /\ ThemeName(theme) \in Names
    /\ Names \cap NoMenu = {} /\ NoMenu = {"none", "waiting", "hidden"} /\ Keys = {"theme", "language", "icons"}
BY DEF ThemeShown, ThemeName, Names, NoMenu, Themes, SystemTheme, Keys

LEMMA SettingsAre ==
    ASSUME NEW s \in AllSettings
    PROVE  /\ s.theme \in Themes \cup {Unset} /\ s.language \in Languages \cup {Unset}
           /\ s.icons \in BOOLEAN \cup {Unset} /\ GetCurrentLanguage(s) \in Languages
           /\ PrefillRandomIcons(s) \in BOOLEAN
BY SettingsAssumption DEF AllSettings, GetCurrentLanguage, PrefillRandomIcons

\* What the operators on a page do to it.
LEMMA ThemeIsShown ==
    ASSUME NEW p \in Pages, NEW theme \in Themes \cup {Unset}, NEW d
    PROVE  LET q == ShowTheme(p, theme, d)
           IN /\ q \in Pages /\ q.open = p.open /\ q.shown = ThemeShown(theme, d) /\ q.name = ThemeName(theme)
              /\ q.language = p.language /\ q.known = p.known /\ q.menu = p.menu /\ q.switch = p.switch
              /\ q.missed = p.missed \ {"theme"}
<1> DEFINE x == ThemeShown(theme, d)
           n == ThemeName(theme)
<1>1. x \in Themes /\ n \in Names
  BY ThemesAre
<1>2. ShowTheme(p, theme, d) = [p EXCEPT !.shown = x, !.name = n, !.missed = p.missed \ {"theme"}]
  BY DEF ShowTheme, Pages
<1> HIDE DEF x, n
<1>3. LET q == [p EXCEPT !.shown = x, !.name = n, !.missed = p.missed \ {"theme"}]
      IN /\ q \in Pages /\ q.open = p.open /\ q.shown = x /\ q.name = n
         /\ q.language = p.language /\ q.known = p.known /\ q.menu = p.menu /\ q.switch = p.switch
         /\ q.missed = p.missed \ {"theme"}
  BY <1>1 DEF Pages
<1>4. QED BY <1>2, <1>3 DEF x, n

LEMMA MenuIsShown ==
    ASSUME NEW p \in Pages, NEW s \in AllSettings
    PROVE  LET q == MenuAppears(p, s)
           IN /\ q \in Pages /\ q.open = p.open /\ q.shown = p.shown /\ q.name = p.name
              /\ q.language = p.language /\ q.known = p.known /\ q.menu = p.name
              /\ (q.switch <=> PrefillRandomIcons(s))
              /\ q.missed = (p.missed \ {"tick", "icons"}) \cup (IF p.name = ThemeName(s.theme) THEN {} ELSE {"tick"})
<1> DEFINE b == PrefillRandomIcons(s)
           l == (p.missed \ {"tick", "icons"}) \cup (IF p.name = ThemeName(s.theme) THEN {} ELSE {"tick"})
<1>1. b \in BOOLEAN
  BY SettingsAre
<1>2. l \in SUBSET (Keys \cup {"tick"})
  BY DEF Pages
<1>3. p.name \in NoMenu \cup Names
  BY DEF Pages
<1>4. MenuAppears(p, s) = [p EXCEPT !.menu = p.name, !.switch = b, !.missed = l]
  BY DEF MenuAppears, Pages
<1> HIDE DEF b, l
<1>5. LET q == [p EXCEPT !.menu = p.name, !.switch = b, !.missed = l]
      IN /\ q \in Pages /\ q.open = p.open /\ q.shown = p.shown /\ q.name = p.name
         /\ q.language = p.language /\ q.known = p.known /\ q.menu = p.name
         /\ q.switch = b /\ q.missed = l
  BY <1>1, <1>2, <1>3 DEF Pages
<1>6. QED BY <1>4, <1>5 DEF b, l

\* A page that is loaded shows the settings it stores.
LEMMA StartedIs ==
    ASSUME NEW s \in AllSettings, NEW b \in AllSettings \cup {Unset}
    PROVE  LET started == Started(s, b)
           IN /\ started.imported = (IF b = Unset THEN s ELSE b) /\ started.imported \in AllSettings
              /\ started.page \in Pages /\ started.page.open /\ started.page.menu = "none"
              /\ Shows(started.page, started.imported, dark)
<1> DEFINE i == Imported(s, b)
           p == ShowTheme(NoPage, i.theme, dark)
           l == GetCurrentLanguage(i)
           q == [p EXCEPT !.open = TRUE, !.language = l]
<1>1. i \in AllSettings /\ i = (IF b = Unset THEN s ELSE b)
  BY DEF Imported
<1>2. i.theme \in Themes \cup {Unset} /\ l \in Languages
  BY <1>1, SettingsAre
<1>3. NoPage \in Pages /\ NoPage.menu = "none"
  BY SettingsAssumption DEF NoPage, Pages, NoMenu, Names, Themes, Keys
<1> HIDE DEF i
<1>4. /\ p \in Pages /\ p.menu = "none" /\ p.shown = ThemeShown(i.theme, dark) /\ p.name = ThemeName(i.theme)
  BY <1>2, <1>3, ThemeIsShown
<1> HIDE DEF p, l
<1>5. /\ q \in Pages /\ q.open = TRUE /\ q.language = l /\ q.menu = p.menu /\ q.shown = p.shown /\ q.name = p.name
  BY <1>2, <1>4 DEF Pages
<1>6. Started(s, b).imported = i /\ Started(s, b).page = q
  BY DEF Started, i, p, l
<1> HIDE DEF q
<1>7. Shows(q, i, dark)
  BY <1>4, <1>5, ThemesAre DEF Shows, l
<1>8. QED BY <1>1, <1>4, <1>5, <1>6, <1>7

-----------------------------------------------------------------------------
(* The invariant.                                                          *)

\* What was chosen is stored and kept, lost settings apart.
Lasting == \A k \in Keys \ lost : storage[k] = chosen[k] /\ (kept # Unset => kept[k] = chosen[k])
\* Only the desktop application keeps settings, and before it keeps any nothing happened.
Kept ==
    /\ ~desktop => kept = Unset
    /\ desktop /\ kept = Unset =>
          storage = NoSettings /\ chosen = NoSettings /\ \A t \in Tabs : ~tabs[t].open
\* A page that is open is one of the windows, and only such a page has a sidebar.
OpenTabs == \A t \in Tabs : /\ tabs[t].menu # "none" => tabs[t].open
                            /\ tabs[t].open => t \in Windows
PagesShown == \A t \in Tabs : tabs[t].open => Shows(tabs[t], storage, dark)

SettingsInv == SettingsTypeOK /\ Lasting /\ Kept /\ OpenTabs /\ PagesShown

LEMMA StateIs ==
    ASSUME SettingsTypeOK
    PROVE  /\ storage \in AllSettings /\ chosen \in AllSettings /\ tabs \in [Tabs -> Pages]
           /\ kept \in AllSettings \cup {Unset} /\ injected \in AllSettings \cup {Unset}
           /\ lost \in SUBSET Keys
BY DEF SettingsTypeOK, Pages, Names

LEMMA TypeIs ==
    SettingsTypeOK <=>
        /\ storage \in AllSettings /\ chosen \in AllSettings /\ tabs \in [Tabs -> Pages]
        /\ kept \in AllSettings \cup {Unset} /\ injected \in AllSettings \cup {Unset}
        /\ desktop \in BOOLEAN /\ dark \in BOOLEAN /\ lost \in SUBSET Keys
<1>1. Names \cup NoMenu = NoMenu \cup Themes \cup {SystemTheme} /\ Names = Themes \cup {SystemTheme}
  BY DEF Names
<1>2. Pages = [open : BOOLEAN, shown : Themes, name : Themes \cup {SystemTheme},
               language : Languages, known : BOOLEAN, switch : BOOLEAN,
               menu : NoMenu \cup Themes \cup {SystemTheme}, missed : SUBSET (Keys \cup {"tick"})]
  BY DEF Pages, Names
<1>3. QED BY <1>2 DEF SettingsTypeOK

LEMMA TypeKept ==
    ASSUME storage' \in AllSettings, chosen' \in AllSettings, tabs' \in [Tabs -> Pages],
           kept' \in AllSettings \cup {Unset}, injected' \in AllSettings \cup {Unset},
           desktop' \in BOOLEAN, dark' \in BOOLEAN, lost' \in SUBSET Keys
    PROVE  SettingsTypeOK'
<1>1. Pages = [open : BOOLEAN, shown : Themes, name : Themes \cup {SystemTheme},
               language : Languages, known : BOOLEAN, switch : BOOLEAN,
               menu : NoMenu \cup Themes \cup {SystemTheme}, missed : SUBSET (Keys \cup {"tick"})]
  BY DEF Pages, Names
<1>2. QED BY <1>1 DEF SettingsTypeOK

LEMMA WindowsAre == Windows \in SUBSET Tabs /\ (desktop => \A t, o \in Windows : t = o)
BY SettingsAssumption DEF Windows

LEMMA SettingsStart == ASSUME SettingsInit PROVE SettingsInv
<1>1. NoSettings \in AllSettings
  BY DEF NoSettings, AllSettings
<1>2. NoPage \in Pages /\ NoPage.menu = "none" /\ ~NoPage.open
  BY SettingsAssumption DEF NoPage, Pages, NoMenu, Names, Themes, Keys
<1>3. tabs \in [Tabs -> Pages] /\ \A t \in Tabs : tabs[t] = NoPage
  BY <1>2 DEF SettingsInit
<1>4. SettingsTypeOK
  BY <1>1, <1>3, TypeIs DEF SettingsInit
<1>5. Lasting /\ Kept /\ OpenTabs /\ PagesShown
  BY <1>2, <1>3 DEF SettingsInit, Lasting, Kept, OpenTabs, PagesShown
<1>6. QED BY <1>4, <1>5 DEF SettingsInv

LEMMA MenuIsOpen == ASSUME OpenTabs, NEW t \in Tabs, tabs[t].menu # "none" PROVE tabs[t].open
BY DEF OpenTabs

\* A step that changes one page and neither settings nor history.
LEMMA PageKeeps ==
    ASSUME SettingsInv, NEW t \in Windows, NEW p \in Pages, tabs' = [tabs EXCEPT ![t] = p],
           UNCHANGED <<storage, desktop, injected, dark, chosen, lost>>,
           kept' = kept \/ NotifySettingsChanged(storage),
           tabs[t].open, p.open,
           Shows(tabs[t], storage, dark) => Shows(p, storage, dark)
    PROVE  SettingsInv'
<1>1. /\ storage \in AllSettings /\ tabs \in [Tabs -> Pages] /\ t \in Tabs /\ Windows' = Windows
      /\ kept \in AllSettings \cup {Unset}
  BY StateIs, WindowsAre DEF SettingsInv, Windows
<1>2. tabs' \in [Tabs -> Pages] /\ \A o \in Tabs : tabs'[o] = IF o = t THEN p ELSE tabs[o]
  BY <1>1
<1>3. kept' = kept \/ (desktop /\ kept' = storage)
  BY DEF NotifySettingsChanged
<1>4. SettingsTypeOK'
  BY <1>1, <1>2, <1>3, TypeIs, TypeKept DEF SettingsInv
<1>5. Lasting'
  BY <1>3 DEF SettingsInv, Lasting
<1>6. Kept'
  BY <1>1, <1>2, <1>3, UnsetAssumption DEF SettingsInv, Kept
<1>7. OpenTabs'
  BY <1>1, <1>2 DEF SettingsInv, OpenTabs
<1>8. PagesShown'
  BY <1>1, <1>2 DEF SettingsInv, PagesShown
<1>9. QED BY <1>4, <1>5, <1>6, <1>7, <1>8 DEF SettingsInv

LEMMA OnePage ==
    ASSUME SettingsTypeOK, NEW t \in Tabs
    PROVE  tabs[t] \in Pages /\ tabs \in [Tabs -> Pages] /\ storage \in AllSettings
BY StateIs

LEMMA ShowSidebarKeeps == ASSUME SettingsInv, NEW t \in Windows, ShowSidebar(t) PROVE SettingsInv'
<1> DEFINE r == IF tabs[t].known THEN MenuAppears(tabs[t], storage) ELSE [tabs[t] EXCEPT !.menu = "waiting"]
           p == ShowTheme(r, storage.theme, dark)
<1>1. /\ t \in Tabs /\ tabs[t] \in Pages /\ storage \in AllSettings /\ storage.theme \in Themes \cup {Unset}
  BY WindowsAre, OnePage, SettingsAre DEF SettingsInv
<1>2. /\ r \in Pages /\ r.open = tabs[t].open /\ r.shown = tabs[t].shown /\ r.name = tabs[t].name
      /\ r.language = tabs[t].language
      /\ "language" \in r.missed <=> "language" \in tabs[t].missed
      /\ r.menu \notin NoMenu => /\ "tick" \notin r.missed => r.menu = ThemeName(storage.theme)
                                 /\ (r.switch <=> PrefillRandomIcons(storage))
  <2>1. CASE tabs[t].known
    <3>1. r = MenuAppears(tabs[t], storage)
      BY <2>1
    <3> HIDE DEF r
    <3>2. QED BY <1>1, <3>1, MenuIsShown
  <2>2. CASE ~tabs[t].known
    <3>1. "waiting" \in NoMenu
      BY DEF NoMenu
    <3>2. QED BY <1>1, <2>2, <3>1 DEF Pages
  <2>3. QED BY <2>1, <2>2
<1> HIDE DEF r
<1>3. /\ p \in Pages /\ p.open = r.open /\ p.shown = ThemeShown(storage.theme, dark) /\ p.name = ThemeName(storage.theme)
      /\ p.language = r.language /\ p.menu = r.menu /\ p.switch = r.switch /\ p.missed = r.missed \ {"theme"}
  BY <1>1, <1>2, ThemeIsShown
<1>4. /\ tabs' = [tabs EXCEPT ![t] = p] /\ tabs[t].open /\ NotifySettingsChanged(storage)
      /\ UNCHANGED <<storage, desktop, injected, dark, chosen, lost>>
  BY DEF ShowSidebar, r
<1> HIDE DEF p
<1>5. Shows(tabs[t], storage, dark) => Shows(p, storage, dark)
  BY <1>2, <1>3 DEF Shows
<1>6. p.open
  BY <1>2, <1>3, <1>4
<1>7. QED BY <1>3, <1>4, <1>5, <1>6, PageKeeps

LEMMA UserKnownKeeps == ASSUME SettingsInv, NEW t \in Windows, UserKnown(t) PROVE SettingsInv'
<1> DEFINE k == [tabs[t] EXCEPT !.known = TRUE]
           p == IF tabs[t].menu = "waiting" THEN MenuAppears(k, storage) ELSE k
<1>1. /\ t \in Tabs /\ tabs[t] \in Pages /\ storage \in AllSettings
  BY WindowsAre, OnePage DEF SettingsInv
<1>2. /\ tabs' = [tabs EXCEPT ![t] = p] /\ tabs[t].open
      /\ UNCHANGED <<storage, desktop, kept, injected, dark, chosen, lost>>
  BY <1>1, OnePage DEF UserKnown, SettingsInv
<1>3. /\ k \in Pages /\ k.open = tabs[t].open /\ k.shown = tabs[t].shown /\ k.name = tabs[t].name
      /\ k.language = tabs[t].language /\ k.menu = tabs[t].menu /\ k.switch = tabs[t].switch
      /\ k.missed = tabs[t].missed
  BY <1>1 DEF Pages
<1> HIDE DEF k
<1>4. p \in Pages /\ p.open /\ (Shows(tabs[t], storage, dark) => Shows(p, storage, dark))
  <2>1. CASE tabs[t].menu = "waiting"
    <3>1. p = MenuAppears(k, storage)
      BY <2>1
    <3> HIDE DEF p
    <3>2. /\ p \in Pages /\ p.open = k.open /\ p.shown = k.shown /\ p.name = k.name
          /\ p.language = k.language /\ p.menu = k.name /\ (p.switch <=> PrefillRandomIcons(storage))
          /\ p.missed = (k.missed \ {"tick", "icons"}) \cup (IF k.name = ThemeName(storage.theme) THEN {} ELSE {"tick"})
      BY <1>1, <1>3, <3>1, MenuIsShown
    <3>3. QED BY <1>2, <1>3, <3>2 DEF Shows
  <2>2. CASE tabs[t].menu # "waiting"
    <3>1. p = k
      BY <2>2
    <3> HIDE DEF p
    <3>2. QED BY <1>2, <1>3, <3>1 DEF Shows
  <2>3. QED BY <2>1, <2>2
<1> HIDE DEF p
<1>5. QED BY <1>2, <1>4, PageKeeps

LEMMA MenuKeeps == ASSUME SettingsInv, NEW t \in Windows, LeaveSidebar(t) \/ HideSidebar(t) PROVE SettingsInv'
<1>1. /\ t \in Tabs /\ tabs[t] \in Pages /\ tabs \in [Tabs -> Pages] /\ storage \in AllSettings
  BY WindowsAre, OnePage DEF SettingsInv
<1>2. tabs[t].open /\ UNCHANGED <<storage, desktop, kept, injected, dark, chosen, lost>>
  BY DEF LeaveSidebar, HideSidebar
<1>3. ASSUME NEW menu \in {"none", "hidden"}, tabs' = [tabs EXCEPT ![t].menu = menu] PROVE SettingsInv'
  <2> DEFINE p == [tabs[t] EXCEPT !.menu = menu]
  <2>1. tabs' = [tabs EXCEPT ![t] = p]
    BY <1>1, <1>3
  <2>2. /\ p \in Pages /\ p.open = tabs[t].open /\ p.shown = tabs[t].shown /\ p.name = tabs[t].name
        /\ p.language = tabs[t].language /\ p.menu \in NoMenu /\ p.missed = tabs[t].missed
    BY <1>1 DEF Pages, NoMenu
  <2> HIDE DEF p
  <2>3. Shows(tabs[t], storage, dark) => Shows(p, storage, dark)
    BY <2>2 DEF Shows
  <2>4. p.open
    BY <1>2, <2>2
  <2>5. QED BY <1>2, <2>1, <2>2, <2>3, <2>4, PageKeeps
<1>4. ASSUME tabs' = [tabs EXCEPT ![t] = MenuAppears(tabs[t], storage)] PROVE SettingsInv'
  <2> DEFINE p == MenuAppears(tabs[t], storage)
  <2>1. tabs' = [tabs EXCEPT ![t] = p]
    BY <1>4
  <2>2. /\ p \in Pages /\ p.open = tabs[t].open /\ p.shown = tabs[t].shown /\ p.name = tabs[t].name
        /\ p.language = tabs[t].language /\ p.menu = tabs[t].name /\ (p.switch <=> PrefillRandomIcons(storage))
        /\ p.missed = (tabs[t].missed \ {"tick", "icons"})
                      \cup (IF tabs[t].name = ThemeName(storage.theme) THEN {} ELSE {"tick"})
    BY <1>1, MenuIsShown
  <2> HIDE DEF p
  <2>3. Shows(tabs[t], storage, dark) => Shows(p, storage, dark)
    BY <2>2 DEF Shows
  <2>4. p.open
    BY <1>2, <2>2
  <2>5. QED BY <1>2, <2>1, <2>2, <2>3, <2>4, PageKeeps
<1>5. \/ \E menu \in {"none", "hidden"} : tabs' = [tabs EXCEPT ![t].menu = menu]
      \/ tabs' = [tabs EXCEPT ![t] = MenuAppears(tabs[t], storage)]
  BY <1>1 DEF LeaveSidebar, HideSidebar
<1>6. QED BY <1>3, <1>4, <1>5

\* A page is loaded.
LEMMA LoadKeeps ==
    ASSUME SettingsInv, NEW t \in Windows, NEW s \in AllSettings, NEW b \in AllSettings \cup {Unset}, Load(t, s, b),
           UNCHANGED <<desktop, dark, chosen>>, injected' \in AllSettings \cup {Unset}, lost' \in SUBSET Keys,
           ~desktop => storage' = storage,
           \A k \in Keys \ lost' : storage'[k] = chosen[k]
    PROVE  SettingsInv'
<1> DEFINE i == IF b = Unset THEN s ELSE b
           p == Started(s, b).page
<1>1. /\ storage' = i /\ tabs' = [tabs EXCEPT ![t] = p] /\ i \in AllSettings
      /\ p \in Pages /\ p.open /\ p.menu = "none" /\ Shows(p, i, dark)
  BY StartedIs DEF Load
<1>2. kept' = IF desktop THEN storage' ELSE kept
  BY <1>1, StartedIs DEF Load, NotifySettingsChanged
<1> HIDE DEF i, p
<1>3. /\ storage \in AllSettings /\ tabs \in [Tabs -> Pages] /\ t \in Tabs /\ Windows' = Windows
      /\ kept \in AllSettings \cup {Unset} /\ chosen \in AllSettings /\ desktop \in BOOLEAN /\ dark \in BOOLEAN
  BY TypeIs, WindowsAre DEF SettingsInv, Windows
<1>4. tabs' \in [Tabs -> Pages] /\ \A o \in Tabs : tabs'[o] = IF o = t THEN p ELSE tabs[o]
  BY <1>1, <1>3
<1>5. SettingsTypeOK'
  BY <1>1, <1>2, <1>3, <1>4, TypeKept
<1>6. Lasting'
  BY <1>2 DEF SettingsInv, Lasting, Kept
<1>7. Kept'
  BY <1>1, <1>2, UnsetAssumption DEF SettingsInv, Kept
<1>8. OpenTabs'
  BY <1>1, <1>3, <1>4 DEF SettingsInv, OpenTabs
<1>9. PagesShown'
  <2> SUFFICES ASSUME NEW o \in Tabs, tabs'[o].open PROVE Shows(tabs'[o], storage', dark')
    BY DEF PagesShown
  <2>1. CASE o = t
    BY <1>1, <1>4, <2>1
  <2>2. CASE o # t
    <3>1. tabs[o].open /\ o \in Windows
      BY <1>4, <2>2 DEF SettingsInv, OpenTabs
    <3>2. ~desktop
      BY <2>2, <3>1, WindowsAre
    <3>3. QED BY <1>4, <2>2, <3>1, <3>2 DEF SettingsInv, PagesShown
  <2>3. QED BY <2>1, <2>2
<1>10. QED BY <1>5, <1>6, <1>7, <1>8, <1>9 DEF SettingsInv

LEMMA OpenTabKeeps == ASSUME SettingsInv, NEW t \in Windows, OpenTab(t) PROVE SettingsInv'
<1>1. /\ storage \in AllSettings /\ injected \in AllSettings \cup {Unset} /\ lost \in SUBSET Keys
  BY StateIs DEF SettingsInv
<1>2. Load(t, storage, Unset) /\ UNCHANGED <<desktop, injected, dark, chosen, lost>>
  BY DEF OpenTab
<1>3. storage' = storage
  BY <1>1, <1>2, StartedIs DEF Load
<1>4. \A k \in Keys \ lost' : storage'[k] = chosen[k]
  BY <1>2, <1>3 DEF SettingsInv, Lasting
<1>5. QED BY <1>1, <1>2, <1>3, <1>4, LoadKeeps

LEMMA StartApplicationKeeps == ASSUME SettingsInv, NEW t \in Windows, StartApplication(t) PROVE SettingsInv'
<1>1. /\ storage \in AllSettings /\ kept \in AllSettings \cup {Unset} /\ lost \in SUBSET Keys
      /\ NoSettings \in AllSettings
  BY StateIs DEF SettingsInv, NoSettings, AllSettings
<1>2. PICK s \in {storage, NoSettings} : Load(t, s, kept)
  BY DEF StartApplication
<1>3. desktop /\ injected' = kept /\ UNCHANGED <<desktop, dark, chosen, lost>>
  BY DEF StartApplication
<1>4. storage' = IF kept = Unset THEN s ELSE kept
  BY <1>1, <1>2, StartedIs DEF Load
<1>5. \A k \in Keys \ lost' : storage'[k] = chosen[k]
  BY <1>3, <1>4 DEF SettingsInv, Lasting, Kept
<1>6. QED BY <1>1, <1>2, <1>3, <1>5, LoadKeeps

LEMMA LoadHomepageKeeps == ASSUME SettingsInv, NEW t \in Windows, LoadHomepage(t) PROVE SettingsInv'
<1>1. /\ storage \in AllSettings /\ injected \in AllSettings \cup {Unset} /\ lost \in SUBSET Keys
  BY StateIs DEF SettingsInv
<1>2. Load(t, storage, injected) /\ desktop /\ UNCHANGED <<desktop, injected, dark, chosen>>
  BY DEF LoadHomepage
<1>3. lost' = lost \cup {k \in Keys : storage'[k] # chosen[k]}
  BY DEF LoadHomepage, Loses
<1>4. QED BY <1>1, <1>2, <1>3, LoadKeeps

\* The user picks a setting: the others miss it.
LEMMA PickKeeps ==
    ASSUME SettingsInv, NEW t \in Windows, NEW ts \in [Tabs -> Pages], NEW keys \in SUBSET (Keys \cup {"tick"}),
           NEW p \in Pages, tabs[t].menu \notin NoMenu,
           tabs' = [OtherTabs(t, tabs, keys) EXCEPT ![t] = p],
           storage' \in AllSettings, chosen' \in AllSettings, lost' \in SUBSET Keys, kept' = IF desktop THEN storage' ELSE kept,
           UNCHANGED <<desktop, injected, dark>>,
           p.open = tabs[t].open, Shows(p, storage', dark),
           "theme" \in keys \/ ("tick" \notin keys /\ storage'.theme = storage.theme),
           "tick" \in keys \/ storage'.theme = storage.theme,
           "language" \in keys \/ storage'.language = storage.language,
           "icons" \in keys \/ storage'.icons = storage.icons,
           \A k \in Keys \ lost' : storage'[k] = chosen'[k]
    PROVE  SettingsInv'
<1>1. /\ storage \in AllSettings /\ tabs \in [Tabs -> Pages] /\ t \in Tabs /\ Windows' = Windows
      /\ kept \in AllSettings \cup {Unset} /\ injected \in AllSettings \cup {Unset} /\ desktop \in BOOLEAN /\ dark \in BOOLEAN
  BY TypeIs, WindowsAre DEF SettingsInv, Windows
<1>2. tabs[t].open
  <2>1. tabs[t].menu # "none" /\ OpenTabs /\ t \in Tabs
    BY <1>1 DEF NoMenu, SettingsInv
  <2>2. QED BY <2>1, MenuIsOpen
<1>3. \A o \in Tabs : tabs[o].open => [tabs[o] EXCEPT !.missed = tabs[o].missed \cup keys] \in Pages
  BY <1>1 DEF Pages
<1>4. /\ tabs' \in [Tabs -> Pages] /\ tabs'[t] = p
      /\ \A o \in Tabs \ {t} : tabs'[o] = IF tabs[o].open THEN [tabs[o] EXCEPT !.missed = tabs[o].missed \cup keys]
                                          ELSE tabs[o]
  BY <1>1, <1>3 DEF OtherTabs
<1>5. \A o \in Tabs \ {t} :
          /\ tabs'[o].open = tabs[o].open /\ tabs'[o].menu = tabs[o].menu /\ tabs'[o].shown = tabs[o].shown
          /\ tabs'[o].name = tabs[o].name /\ tabs'[o].language = tabs[o].language /\ tabs'[o].switch = tabs[o].switch
          /\ tabs[o].open => tabs'[o].missed = tabs[o].missed \cup keys
  BY <1>1, <1>4 DEF Pages
<1>6. SettingsTypeOK'
  BY <1>1, <1>4, TypeKept
<1>7. Lasting'
  BY DEF SettingsInv, Lasting, Kept
<1>8. Kept'
  BY <1>2, UnsetAssumption DEF SettingsInv, Kept
<1>9. OpenTabs'
  BY <1>1, <1>2, <1>4, <1>5, ZenonT(60) DEF SettingsInv, OpenTabs
<1>10. PagesShown'
  <2> SUFFICES ASSUME NEW o \in Tabs, tabs'[o].open PROVE Shows(tabs'[o], storage', dark')
    BY DEF PagesShown
  <2>1. CASE o = t
    BY <1>4, <2>1
  <2>2. CASE o # t
    <3>1. tabs[o].open /\ Shows(tabs[o], storage, dark)
      BY <1>5, <2>2 DEF SettingsInv, PagesShown
    <3>2. (PrefillRandomIcons(storage') <=> PrefillRandomIcons(storage)) \/ "icons" \in keys
      BY DEF PrefillRandomIcons
    <3>3. GetCurrentLanguage(storage') = GetCurrentLanguage(storage) \/ "language" \in keys
      BY DEF GetCurrentLanguage
    <3>4. QED BY <1>5, <2>2, <3>1, <3>2, <3>3 DEF Shows
  <2>3. QED BY <2>1, <2>2
<1>11. QED BY <1>6, <1>7, <1>8, <1>9, <1>10 DEF SettingsInv

LEMMA Picked ==
    ASSUME SettingsInv, NEW t \in Windows, NEW key, NEW value, Pick(t, key, value)
    PROVE  /\ t \in Tabs /\ tabs[t] \in Pages /\ tabs[t].menu \notin NoMenu /\ tabs[t].open
           /\ Shows(tabs[t], storage, dark)
           /\ chosen' = [chosen EXCEPT ![key] = value] /\ UNCHANGED <<desktop, injected, dark>>
           /\ storage \in AllSettings /\ chosen \in AllSettings /\ lost \in SUBSET Keys
           /\ \A k \in Keys \ lost : storage[k] = chosen[k]
<1>1. t \in Tabs /\ tabs[t] \in Pages /\ tabs[t].menu \notin NoMenu
  BY WindowsAre, StateIs DEF SettingsInv, Pick
<1>2. tabs[t].open
  <2>1. tabs[t].menu # "none" /\ OpenTabs /\ t \in Tabs
    BY <1>1 DEF NoMenu, SettingsInv
  <2>2. QED BY <2>1, MenuIsOpen
<1>3. QED BY <1>1, <1>2, StateIs DEF SettingsInv, Pick, PagesShown, Lasting

LEMMA UpdateThemeKeeps ==
    ASSUME SettingsInv, NEW t \in Windows, NEW theme \in Themes \cup {Unset}, UpdateTheme(t, theme) PROVE SettingsInv'
<1> DEFINE tab == ShowTheme(tabs[t], theme, dark)
           n == ThemeName(theme)
           p == [tab EXCEPT !.menu = n, !.missed = tab.missed \ {"tick"}]
<1>1. /\ Pick(t, "theme", theme) /\ storage' = [storage EXCEPT !.theme = theme]
      /\ tabs' = [OtherTabs(t, tabs, {"theme", "tick"}) EXCEPT ![t] = p]
      /\ kept' = (IF desktop THEN storage' ELSE kept) /\ lost' = lost \ {"theme"}
  BY DEF UpdateTheme, NotifySettingsChanged
<1>2. /\ t \in Tabs /\ tabs[t] \in Pages /\ tabs[t].menu \notin NoMenu /\ tabs[t].open
      /\ Shows(tabs[t], storage, dark)
      /\ chosen' = [chosen EXCEPT !["theme"] = theme] /\ UNCHANGED <<desktop, injected, dark>>
      /\ storage \in AllSettings /\ chosen \in AllSettings /\ lost \in SUBSET Keys
      /\ \A k \in Keys \ lost : storage[k] = chosen[k]
  BY <1>1, Picked
<1>3. /\ storage' \in AllSettings /\ storage'.theme = theme /\ storage'.language = storage.language
      /\ storage'.icons = storage.icons /\ \A k \in Keys \ {"theme"} : storage'[k] = storage[k]
      /\ chosen' \in AllSettings /\ chosen'.theme = theme /\ \A k \in Keys \ {"theme"} : chosen'[k] = chosen[k]
  BY <1>1, <1>2 DEF AllSettings, Keys
<1>4. n \in Names
  BY ThemesAre
<1>5. /\ tab \in Pages /\ tab.open = tabs[t].open /\ tab.shown = ThemeShown(theme, dark) /\ tab.name = n
      /\ tab.language = tabs[t].language /\ tab.switch = tabs[t].switch /\ tab.missed = tabs[t].missed \ {"theme"}
  <2>1. tabs[t] \in Pages
    BY <1>2
  <2>2. QED BY <2>1, ThemeIsShown
<1> HIDE DEF tab, n
<1>6. /\ p \in Pages /\ p.open = tab.open /\ p.shown = tab.shown /\ p.name = tab.name /\ p.menu = n
      /\ p.language = tab.language /\ p.switch = tab.switch /\ p.missed = tab.missed \ {"tick"}
  BY <1>4, <1>5 DEF Pages
<1> HIDE DEF p
<1>7. Shows(p, storage', dark)
  <2>1. (PrefillRandomIcons(storage') <=> PrefillRandomIcons(storage)) /\ GetCurrentLanguage(storage') = GetCurrentLanguage(storage)
    BY <1>3 DEF PrefillRandomIcons, GetCurrentLanguage
  <2>2. n = ThemeName(storage'.theme) /\ p.shown = ThemeShown(storage'.theme, dark)
    BY <1>3, <1>5, <1>6 DEF n
  <2>3. QED BY <1>2, <1>5, <1>6, <2>1, <2>2 DEF Shows
<1>8. \A k \in Keys \ lost' : storage'[k] = chosen'[k]
  BY <1>1, <1>2, <1>3
<1>9. {"theme", "tick"} \in SUBSET (Keys \cup {"tick"})
  BY DEF Keys
<1>10. lost' \in SUBSET Keys /\ p.open = tabs[t].open
  BY <1>1, <1>2, <1>5, <1>6
<1>11. QED BY <1>1, <1>2, <1>3, <1>6, <1>7, <1>8, <1>9, <1>10, StateIs, PickKeeps DEF SettingsInv

LEMMA StoreLanguageKeeps ==
    ASSUME SettingsInv, NEW t \in Windows, NEW language \in Languages, StoreLanguage(t, language) PROVE SettingsInv'
<1> DEFINE p == [tabs[t] EXCEPT !.language = language, !.missed = tabs[t].missed \ {"language"}]
           ts == OtherTabs(t, tabs, {"language"})
<1>1. /\ Pick(t, "language", language) /\ storage' = [storage EXCEPT !.language = language]
      /\ tabs' = [ts EXCEPT ![t].language = language, ![t].missed = @ \ {"language"}]
      /\ kept' = (IF desktop THEN storage' ELSE kept) /\ lost' = lost \ {"language"}
  BY DEF StoreLanguage, NotifySettingsChanged
<1>2. /\ t \in Tabs /\ tabs[t] \in Pages /\ tabs[t].menu \notin NoMenu /\ tabs[t].open
      /\ Shows(tabs[t], storage, dark)
      /\ chosen' = [chosen EXCEPT !["language"] = language] /\ UNCHANGED <<desktop, injected, dark>>
      /\ storage \in AllSettings /\ chosen \in AllSettings /\ lost \in SUBSET Keys
      /\ \A k \in Keys \ lost : storage[k] = chosen[k]
  BY <1>1, Picked
<1>3. ts[t] = tabs[t]
  BY <1>2 DEF OtherTabs
<1>4. tabs' = [ts EXCEPT ![t] = p]
  <2> HIDE DEF ts
  <2>1. [ts EXCEPT ![t].language = language, ![t].missed = @ \ {"language"}]
        = [ts EXCEPT ![t] = [ts[t] EXCEPT !.language = language, !.missed = ts[t].missed \ {"language"}]]
    <3>1. [ts[t] EXCEPT !.language = language].missed = ts[t].missed
      BY <1>2, <1>3 DEF Pages
    <3>2. QED BY <3>1
  <2>2. QED BY <1>1, <1>3, <2>1
<1>5. /\ storage' \in AllSettings /\ storage'.language = language /\ storage'.theme = storage.theme
      /\ storage'.icons = storage.icons /\ \A k \in Keys \ {"language"} : storage'[k] = storage[k]
      /\ chosen' \in AllSettings /\ chosen'.language = language /\ \A k \in Keys \ {"language"} : chosen'[k] = chosen[k]
  BY <1>1, <1>2 DEF AllSettings, Keys
<1>6. /\ p \in Pages /\ p.open = tabs[t].open /\ p.shown = tabs[t].shown /\ p.name = tabs[t].name /\ p.menu = tabs[t].menu
      /\ p.language = language /\ p.switch = tabs[t].switch /\ p.missed = tabs[t].missed \ {"language"}
  BY <1>2 DEF Pages
<1> HIDE DEF p
<1>7. Shows(p, storage', dark)
  <2>1. PrefillRandomIcons(storage') <=> PrefillRandomIcons(storage)
    BY <1>5 DEF PrefillRandomIcons
  <2>2. GetCurrentLanguage(storage') = language
    BY <1>5, SettingsAssumption DEF GetCurrentLanguage
  <2>3. QED BY <1>2, <1>5, <1>6, <2>1, <2>2 DEF Shows
<1>8. \A k \in Keys \ lost' : storage'[k] = chosen'[k]
  BY <1>1, <1>2, <1>5
<1>9. {"language"} \in SUBSET (Keys \cup {"tick"})
  BY DEF Keys
<1>10. lost' \in SUBSET Keys
  BY <1>1, <1>2
<1>11. QED BY <1>1, <1>2, <1>4, <1>5, <1>6, <1>7, <1>8, <1>9, <1>10, StateIs, PickKeeps DEF SettingsInv

LEMMA ToggleKeeps == ASSUME SettingsInv, NEW t \in Windows, ToggleRandomIcons(t) PROVE SettingsInv'
<1> DEFINE p == Toggled(tabs[t], storage)
           sw == ~tabs[t].switch
           ic == ~PrefillRandomIcons(storage)
<1>1. /\ Pick(t, "icons", sw) /\ storage' = [storage EXCEPT !.icons = ic]
      /\ tabs' = [OtherTabs(t, tabs, {"icons"}) EXCEPT ![t] = p]
      /\ kept' = (IF desktop THEN storage' ELSE kept)
      /\ lost' = IF "icons" \in tabs[t].missed THEN lost \cup {"icons"} ELSE lost \ {"icons"}
  BY DEF ToggleRandomIcons, NotifySettingsChanged
<1>2. /\ t \in Tabs /\ tabs[t] \in Pages /\ tabs[t].menu \notin NoMenu /\ tabs[t].open
      /\ Shows(tabs[t], storage, dark)
      /\ chosen' = [chosen EXCEPT !["icons"] = sw] /\ UNCHANGED <<desktop, injected, dark>>
      /\ storage \in AllSettings /\ chosen \in AllSettings /\ lost \in SUBSET Keys
      /\ \A k \in Keys \ lost : storage[k] = chosen[k]
  BY <1>1, Picked
<1>3. sw \in BOOLEAN /\ ic \in BOOLEAN
  OBVIOUS
<1>4. "icons" \notin tabs[t].missed => sw = ic
  BY <1>2, SettingsAre DEF Shows, Pages
<1>5. p = [tabs[t] EXCEPT !.switch = sw]
  BY DEF Toggled
<1>6. (PrefillRandomIcons([storage EXCEPT !.icons = ic]) <=> ic)
  BY <1>2, <1>3 DEF PrefillRandomIcons, AllSettings
<1>a. "icons" \notin tabs[t].missed => (sw <=> ic)
  BY <1>4
<1> HIDE DEF ic, p
<1>7. /\ storage' \in AllSettings /\ storage'.icons = ic /\ storage'.theme = storage.theme
      /\ storage'.language = storage.language /\ \A k \in Keys \ {"icons"} : storage'[k] = storage[k]
  BY <1>1, <1>2, <1>3 DEF AllSettings, Keys
<1> HIDE DEF sw
<1>8. chosen' \in AllSettings /\ chosen'.icons = sw /\ \A k \in Keys \ {"icons"} : chosen'[k] = chosen[k]
  BY <1>2, <1>3 DEF AllSettings, Keys
<1>9. /\ p \in Pages /\ p.open = tabs[t].open /\ p.shown = tabs[t].shown /\ p.name = tabs[t].name /\ p.menu = tabs[t].menu
      /\ p.language = tabs[t].language /\ p.switch = sw /\ p.missed = tabs[t].missed
  BY <1>2, <1>3, <1>5 DEF Pages
<1>10. Shows(p, storage', dark)
  <2>1. PrefillRandomIcons(storage') <=> ic
    BY <1>1, <1>6
  <2>2. GetCurrentLanguage(storage') = GetCurrentLanguage(storage)
    BY <1>7 DEF GetCurrentLanguage
  <2>3. "icons" \notin p.missed => (p.switch <=> PrefillRandomIcons(storage'))
    BY <1>a, <1>9, <2>1
  <2>4. QED BY <1>2, <1>7, <1>9, <2>2, <2>3 DEF Shows
<1>11. \A k \in Keys \ lost' : storage'[k] = chosen'[k]
  BY <1>1, <1>2, <1>4, <1>7, <1>8
<1>12. {"icons"} \in SUBSET (Keys \cup {"tick"}) /\ lost' \in SUBSET Keys
  BY <1>1, <1>2 DEF Keys
<1>13. QED BY <1>1, <1>2, <1>7, <1>8, <1>9, <1>10, <1>11, <1>12, StateIs, PickKeeps DEF SettingsInv

LEMMA SystemKeeps == ASSUME SettingsInv, SystemChanges PROVE SettingsInv'
<1>1. /\ storage \in AllSettings /\ tabs \in [Tabs -> Pages] /\ dark \in BOOLEAN
      /\ storage.theme \in Themes \cup {Unset}
  BY TypeIs, SettingsAre DEF SettingsInv
<1>2. /\ (dark' <=> ~dark) /\ dark' \in BOOLEAN /\ UNCHANGED <<storage, desktop, kept, injected, chosen, lost>>
      /\ tabs' = [t \in Tabs |-> IF tabs[t].open /\ storage.theme = Unset
                                 THEN ShowTheme(tabs[t], Unset, ~dark) ELSE tabs[t]]
  BY DEF SystemChanges
<1>3. ASSUME NEW t \in Tabs
      PROVE  /\ tabs'[t] \in Pages /\ tabs'[t].open = tabs[t].open /\ tabs'[t].menu = tabs[t].menu
             /\ Shows(tabs[t], storage, dark) /\ tabs[t].open => Shows(tabs'[t], storage, dark')
  <2>1. CASE tabs[t].open /\ storage.theme = Unset
    <3> DEFINE p == ShowTheme(tabs[t], Unset, ~dark)
    <3>1. tabs'[t] = p
      BY <1>2, <2>1
    <3>2. /\ p \in Pages /\ p.open = tabs[t].open /\ p.shown = ThemeShown(Unset, ~dark) /\ p.name = ThemeName(Unset)
          /\ p.language = tabs[t].language /\ p.menu = tabs[t].menu /\ p.switch = tabs[t].switch
          /\ p.missed = tabs[t].missed \ {"theme"}
      <4>1. tabs[t] \in Pages /\ Unset \in Themes \cup {Unset}
        BY <1>1
      <4>2. QED BY <4>1, ThemeIsShown
    <3> HIDE DEF p
    <3>3. ThemeShown(Unset, ~dark) = ThemeShown(storage.theme, dark')
      BY <1>2, <2>1 DEF ThemeShown
    <3>4. QED BY <2>1, <3>1, <3>2, <3>3 DEF Shows
  <2>2. CASE ~(tabs[t].open /\ storage.theme = Unset)
    <3>1. tabs'[t] = tabs[t]
      BY <1>2, <2>2
    <3>2. tabs[t].open => ThemeShown(storage.theme, dark') = ThemeShown(storage.theme, dark)
      BY <2>2 DEF ThemeShown
    <3>3. QED BY <1>1, <3>1, <3>2 DEF Shows
  <2>3. QED BY <2>1, <2>2
<1>4. tabs' \in [Tabs -> Pages]
  BY <1>2, <1>3
<1>5. SettingsTypeOK'
  BY <1>1, <1>2, <1>4, TypeIs, TypeKept DEF SettingsInv
<1>6. Lasting' /\ Kept' /\ OpenTabs' /\ PagesShown'
  BY <1>2, <1>3 DEF SettingsInv, Lasting, Kept, OpenTabs, PagesShown, Windows
<1>7. QED BY <1>5, <1>6 DEF SettingsInv

LEMMA SettingsStep == ASSUME SettingsInv, [SettingsNext]_settingsVars PROVE SettingsInv'
<1>1. CASE UNCHANGED settingsVars
  BY <1>1 DEF settingsVars, SettingsInv, SettingsTypeOK, Lasting, Kept, OpenTabs, PagesShown, Windows
<1>2. QED BY <1>1, OpenTabKeeps, StartApplicationKeeps, LoadHomepageKeeps, ShowSidebarKeeps, UserKnownKeeps,
      MenuKeeps, UpdateThemeKeeps, StoreLanguageKeeps, ToggleKeeps, SystemKeeps DEF SettingsNext

\* The storage, the blob of the desktop application, the pages and their menus agree
\* with what the user chose (UserSettings, theme.ts, the settings menu of the sidebar),
\* for any tabs, languages and number of events.
THEOREM SettingsStay == SettingsSpec => []SettingsAgree
<1>1. SettingsInv => SettingsAgree
  <2>1. ASSUME SettingsInv PROVE SettingsAgree
    <3>1. SettingsTypeOK
      BY <2>1 DEF SettingsInv
    <3>2. SettingsLast
      BY <2>1 DEF SettingsInv, Lasting, SettingsLast
    <3>3. PageShowsSettings
      <4> SUFFICES ASSUME NEW t \in Tabs, tabs[t].open
                   PROVE  LET tab == tabs[t]
                          IN  /\ "theme" \notin tab.missed => /\ tab.shown = ThemeShown(storage.theme, dark)
                                                              /\ tab.name = ThemeName(storage.theme)
                              /\ "language" \notin tab.missed => tab.language = GetCurrentLanguage(storage)
                              /\ tab.menu \notin NoMenu =>
                                   /\ "tick" \notin tab.missed => tab.menu = ThemeName(storage.theme)
                                   /\ "icons" \notin tab.missed => tab.switch = PrefillRandomIcons(storage)
        BY DEF PageShowsSettings
      <4>1. Shows(tabs[t], storage, dark)
        BY <2>1 DEF SettingsInv, PagesShown
      <4>2. tabs[t].switch \in BOOLEAN /\ PrefillRandomIcons(storage) \in BOOLEAN
        BY <2>1, StateIs, SettingsAre DEF SettingsInv, Pages
      <4>3. (tabs[t].switch <=> PrefillRandomIcons(storage)) => tabs[t].switch = PrefillRandomIcons(storage)
        BY <4>2
      <4>4. QED BY <4>1, <4>3 DEF Shows
    <3>4. QED BY <3>1, <3>2, <3>3 DEF SettingsAgree
  <2>2. QED BY <2>1
<1>2. QED BY <1>1, SettingsStart, SettingsStep, PTL DEF SettingsSpec

-----------------------------------------------------------------------------
(* Chatbot: the conversation.                                              *)

Messages == Saying({"user", "assistant", "error"})
Talks == [open : BOOLEAN, typed : BOOLEAN, loading : BOOLEAN,
          messages : Seq(Messages), history : Seq(Saying({"user", "assistant"}))]

\* The conversation that is sent is what was said without the errors.
HistoryOf(ms, h) ==
    /\ Len(h) = Cardinality(Spoken(ms, Len(ms)))
    /\ \A k \in Spoken(ms, Len(ms)) : h[Cardinality(Spoken(ms, k))] = ms[k]

LEMMA SpokenIs ==
    ASSUME NEW S, NEW ms \in Seq(S), NEW k \in 0 .. Len(ms)
    PROVE  /\ IsFiniteSet(Spoken(ms, k)) /\ Cardinality(Spoken(ms, k)) \in Nat
           /\ Cardinality(Spoken(ms, k)) <= Cardinality(Spoken(ms, Len(ms)))
           /\ k \in Spoken(ms, Len(ms)) => Cardinality(Spoken(ms, k)) >= 1
<1>1. k \in Int /\ 1 \in Int /\ Len(ms) \in Nat
  OBVIOUS
<1>2. ASSUME NEW i \in Int PROVE IsFiniteSet(Spoken(ms, i))
  <2>1. IsFiniteSet(1 .. i)
    BY FS_Interval
  <2>2. Spoken(ms, i) \in SUBSET (1 .. i)
    BY DEF Spoken
  <2>3. QED BY <2>1, <2>2, FS_Subset
<1>3. IsFiniteSet(Spoken(ms, k)) /\ IsFiniteSet(Spoken(ms, Len(ms)))
  BY <1>1, <1>2
<1>4. Spoken(ms, k) \in SUBSET Spoken(ms, Len(ms))
  BY <1>1 DEF Spoken
<1>5. Cardinality(Spoken(ms, k)) \in Nat /\ Cardinality(Spoken(ms, k)) <= Cardinality(Spoken(ms, Len(ms)))
  BY <1>3, <1>4, FS_Subset, FS_CardinalityType
<1>6. ASSUME k \in Spoken(ms, Len(ms)) PROVE Cardinality(Spoken(ms, k)) >= 1
  <2>1. k \in Spoken(ms, k)
    BY <1>6 DEF Spoken
  <2>2. Cardinality(Spoken(ms, k)) # 0
    BY <1>3, <2>1, FS_EmptySet
  <2>3. QED BY <1>5, <2>2
<1>7. QED BY <1>3, <1>5, <1>6

\* One message more.
LEMMA SaidIs ==
    ASSUME NEW S, NEW ms \in Seq(S), NEW e \in S
    PROVE  /\ Append(ms, e) \in Seq(S) /\ Len(Append(ms, e)) = Len(ms) + 1 /\ Len(ms) \in Nat
           /\ Append(ms, e)[Len(ms) + 1] = e /\ \A i \in 1 .. Len(ms) : Append(ms, e)[i] = ms[i]
           /\ DOMAIN ms = 1 .. Len(ms) /\ DOMAIN Append(ms, e) = 1 .. Len(ms) + 1
OBVIOUS

LEMMA SpokenMore ==
    ASSUME NEW S, NEW ms \in Seq(S), NEW e \in S
    PROVE  LET n == Len(ms)
               more == Append(ms, e)
           IN /\ \A k \in 0 .. n : Spoken(more, k) = Spoken(ms, k)
              /\ e.who = "error" => Spoken(more, n + 1) = Spoken(ms, n)
              /\ e.who # "error" => Spoken(more, n + 1) = Spoken(ms, n) \cup {n + 1}
              /\ n + 1 \notin Spoken(ms, n)
<1> DEFINE n == Len(ms)
           more == Append(ms, e)
<1>1. n \in Nat /\ more[n + 1] = e /\ \A i \in 1 .. n : more[i] = ms[i]
  BY SaidIs
<1> HIDE DEF n, more
<1>2. \A k \in 0 .. n : Spoken(more, k) = Spoken(ms, k)
  BY <1>1 DEF Spoken
<1>3. \A j : j \in 1 .. n + 1 <=> j \in 1 .. n \/ j = n + 1
  BY <1>1
<1>4. /\ e.who = "error" => Spoken(more, n + 1) = Spoken(ms, n)
      /\ e.who # "error" => Spoken(more, n + 1) = Spoken(ms, n) \cup {n + 1}
  BY <1>1, <1>3 DEF Spoken
<1>5. n + 1 \notin Spoken(ms, n)
  BY <1>1 DEF Spoken
<1>6. QED BY <1>2, <1>4, <1>5 DEF n, more

LEMMA HistorySaid ==
    ASSUME NEW ms \in Seq(Messages), NEW h \in Seq(Saying({"user", "assistant"})), HistoryOf(ms, h),
           NEW e \in Saying({"user", "assistant"})
    PROVE  /\ HistoryOf(Append(ms, e), Append(h, e)) /\ Append(h, e) \in Seq(Saying({"user", "assistant"}))
           /\ Append(h, e)[Len(Append(h, e))] = e
<1> DEFINE n == Len(ms)
           more == Append(ms, e)
           H == Append(h, e)
           c == Cardinality(Spoken(ms, n))
<1>0. e \in Messages /\ e.who # "error"
  BY DEF Messages, Saying
<1>1. /\ n \in Nat /\ Len(more) = n + 1 /\ more[n + 1] = e /\ \A i \in 1 .. n : more[i] = ms[i]
      /\ \A k \in 0 .. n : Spoken(more, k) = Spoken(ms, k)
      /\ Spoken(more, n + 1) = Spoken(ms, n) \cup {n + 1} /\ n + 1 \notin Spoken(ms, n)
  BY <1>0, SaidIs, SpokenMore
<1>2. /\ Len(h) = c /\ c \in Nat /\ IsFiniteSet(Spoken(ms, n))
      /\ \A k \in Spoken(ms, n) : h[Cardinality(Spoken(ms, k))] = ms[k]
  <2>1. n \in 0 .. Len(ms)
    BY <1>1
  <2>2. QED BY <2>1, SpokenIs DEF HistoryOf
<1>3. Len(H) = c + 1 /\ H[c + 1] = e /\ (\A i \in 1 .. c : H[i] = h[i]) /\ H \in Seq(Saying({"user", "assistant"}))
  BY <1>2, SaidIs
<1>4. Cardinality(Spoken(more, n + 1)) = c + 1
  BY <1>1, <1>2, FS_AddElement
<1> HIDE DEF H, more, c
<1>5. ASSUME NEW k \in Spoken(more, n + 1) PROVE H[Cardinality(Spoken(more, k))] = more[k]
  <2>1. CASE k = n + 1
    BY <1>1, <1>3, <1>4, <2>1
  <2>2. CASE k \in Spoken(ms, n)
    <3>1. k \in 1 .. n /\ k \in 0 .. n
      BY <1>1, <2>2 DEF Spoken
    <3>2. Cardinality(Spoken(ms, k)) \in 1 .. c
      BY <1>2, <2>2, <3>1, SpokenIs DEF c
    <3>3. QED BY <1>1, <1>2, <1>3, <2>2, <3>1, <3>2
  <2>3. QED BY <1>1, <2>1, <2>2
<1>6. HistoryOf(more, H)
  BY <1>1, <1>3, <1>4, <1>5 DEF HistoryOf
<1>7. QED BY <1>3, <1>6 DEF H, more

LEMMA HistoryFailed ==
    ASSUME NEW ms \in Seq(Messages), NEW h, HistoryOf(ms, h), NEW e \in Messages, e.who = "error"
    PROVE  HistoryOf(Append(ms, e), h)
<1> DEFINE n == Len(ms)
           more == Append(ms, e)
<1>1. /\ n \in Nat /\ Len(more) = n + 1 /\ \A i \in 1 .. n : more[i] = ms[i]
      /\ \A k \in 0 .. n : Spoken(more, k) = Spoken(ms, k)
      /\ Spoken(more, n + 1) = Spoken(ms, n)
  <2>1. n \in Nat /\ Len(more) = n + 1 /\ \A i \in 1 .. n : more[i] = ms[i]
    BY SaidIs
  <2>2. /\ \A k \in 0 .. n : Spoken(more, k) = Spoken(ms, k)
        /\ Spoken(more, n + 1) = Spoken(ms, n)
    BY SpokenMore
  <2>3. QED BY <2>1, <2>2
<1> HIDE DEF more
<1>2. \A k \in Spoken(ms, n) : k \in 1 .. n /\ k \in 0 .. n
  BY <1>1 DEF Spoken
<1>3. HistoryOf(more, h)
  BY <1>1, <1>2 DEF HistoryOf
<1>4. QED BY <1>3 DEF more

-----------------------------------------------------------------------------
(* What the page knows of the board it shows.                              *)

Loads == [kind : {"blocks", "members", "user"}, board : Rooms, person : People \cup {Nothing}, no : Nat,
          answer : (SUBSET Notes) \cup (SUBSET People) \cup {Nothing}]
Lookings == [board : Rooms \cup {Nothing}, views : Rooms \cup {Nothing}, notes : SUBSET (Notes \ NoteTemplates),
             members : [Rooms -> (SUBSET People) \cup {Nothing}], people : SUBSET People]
LoadOK(l) ==
    /\ l \in Loads /\ (l.kind = "user" => l.person \in People)
    /\ l.answer # Nothing => l.answer \in SUBSET (IF l.kind = "blocks" THEN Notes ELSE People)

LookTyped ==
    /\ looking \in Lookings /\ \A l \in loads : LoadOK(l)
    /\ notes \in SUBSET Notes /\ joined \in [Rooms -> SUBSET People] /\ fresh \in SUBSET Loaded /\ turns \in Nat

\* What came from an answer that was true is true.
FreshIsTrue ==
    /\ fresh # {} => looking.board # Nothing
    /\ "cards" \in fresh => NotesIn(looking.board, looking.notes) = NotesIn(looking.board, notes)
    /\ "members" \in fresh => looking.members[looking.board] = joined[looking.board]
    /\ "people" \in fresh => joined[looking.board] \subseteq looking.people

LookInv == LookTyped /\ FreshIsTrue

LEMMA LookingIs ==
    ASSUME LookTyped
    PROVE  /\ looking \in Lookings /\ looking.board \in Rooms \cup {Nothing} /\ looking.views \in Rooms \cup {Nothing}
           /\ looking.notes \in SUBSET (Notes \ NoteTemplates)
           /\ looking.members \in [Rooms -> (SUBSET People) \cup {Nothing}] /\ looking.people \in SUBSET People
           /\ notes \in SUBSET Notes /\ joined \in [Rooms -> SUBSET People]
           /\ \A r \in Rooms : joined[r] \in SUBSET People
           /\ fresh \in SUBSET Loaded /\ turns \in Nat /\ Nothing \notin Rooms /\ RoomOf \in [Notes -> Rooms]
BY ChatbotAssumption DEF LookTyped, Lookings

LEMMA LoadIs ==
    ASSUME LookTyped, NEW l \in loads
    PROVE  /\ l \in Loads /\ l.board \in Rooms /\ l.kind \in {"blocks", "members", "user"}
           /\ (l.kind = "user" => l.person \in People) /\ l.no \in Nat
           /\ l.answer # Nothing => l.answer \in SUBSET (IF l.kind = "blocks" THEN Notes ELSE People)
BY DEF LookTyped, LoadOK, Loads

LEMMA NothingLookedIs == NothingLooked \in Lookings
<1> DEFINE m == [r \in Rooms |-> Nothing]
<1>1. m \in [Rooms -> (SUBSET People) \cup {Nothing}]
  OBVIOUS
<1>2. {} \in SUBSET (Notes \ NoteTemplates) /\ {} \in SUBSET People
  OBVIOUS
<1>3. NothingLooked = [board |-> Nothing, views |-> Nothing, notes |-> {}, members |-> m, people |-> {}]
  BY DEF NothingLooked
<1> HIDE DEF m
<1>4. QED BY <1>1, <1>2, <1>3 DEF Lookings

LEMMA LookStart == ASSUME ChatInit PROVE LookInv
<1>1. NothingLooked \in Lookings
  BY NothingLookedIs
<1>2. QED BY <1>1 DEF ChatInit, LookInv, LookTyped, FreshIsTrue

LEMMA NewLoadIs ==
    ASSUME LookTyped, Turn, NEW kind \in {"blocks", "user"}, NEW r \in Rooms, NEW p \in People \cup {Nothing},
           kind = "user" => p \in People
    PROVE  LoadOK(LoadOf(kind, r, p)) /\ turns' \in Nat
<1>1. turns' \in Nat
  BY DEF LookTyped, Turn
<1>2. LoadOf(kind, r, p) \in Loads /\ LoadOf(kind, r, p).answer = Nothing
      /\ LoadOf(kind, r, p).kind = kind /\ LoadOf(kind, r, p).person = p
  BY <1>1 DEF LoadOf, Loads
<1>3. QED BY <1>1, <1>2 DEF LoadOK

LEMMA ReloadLook == ASSUME LookInv, ReloadPage PROVE LookInv'
<1>1. NothingLooked \in Lookings
  BY NothingLookedIs
<1>2. /\ turns' \in Nat /\ looking' = NothingLooked /\ loads' = {} /\ fresh' = {} /\ UNCHANGED <<notes, joined>>
  BY DEF ReloadPage, Turn, LookInv, LookTyped
<1>3. QED BY <1>1, <1>2 DEF LookInv, LookTyped, FreshIsTrue

LEMMA ShowRoomLook == ASSUME LookInv, NEW r \in Rooms, ShowRoom(r) PROVE LookInv'
<1>1. /\ Turn /\ looking' = [looking EXCEPT !.board = r]
      /\ loads' = loads \cup {LoadOf("blocks", r, Nothing)} /\ fresh' = {} /\ UNCHANGED <<notes, joined>>
  BY DEF ShowRoom
<1>2. looking' \in Lookings
  BY <1>1 DEF LookInv, LookTyped, Lookings
<1>3. LoadOK(LoadOf("blocks", r, Nothing)) /\ turns' \in Nat
  BY <1>1, NewLoadIs DEF LookInv
<1>4. \A l \in loads' : LoadOK(l)
  BY <1>1, <1>3 DEF LookInv, LookTyped
<1>5. QED BY <1>1, <1>2, <1>3, <1>4 DEF LookInv, LookTyped, FreshIsTrue

LEMMA TrueAnswerIs ==
    ASSUME LookTyped, NEW l \in loads
    PROVE  TrueAnswer(l) \in SUBSET (IF l.kind = "blocks" THEN Notes ELSE People)
BY LoadIs, LookingIs DEF TrueAnswer

LEMMA ServeLook == ASSUME LookInv, NEW l \in loads, ServeLoad(l) PROVE LookInv'
<1> DEFINE a == TrueAnswer(l)
           n == [l EXCEPT !.answer = a]
<1>1. /\ loads' = (loads \ {l}) \cup {n} /\ UNCHANGED <<looking, notes, joined, fresh, turns>>
  BY DEF ServeLoad
<1>2. a \in SUBSET (IF l.kind = "blocks" THEN Notes ELSE People)
  BY TrueAnswerIs DEF LookInv
<1>3. l \in Loads /\ LoadOK(l)
  BY DEF LookInv, LookTyped, LoadOK
<1> HIDE DEF a
<1>4. n \in Loads /\ n.kind = l.kind /\ n.answer = a /\ n.person = l.person
  BY <1>2, <1>3 DEF Loads
<1> HIDE DEF n
<1>5. LoadOK(n)
  BY <1>2, <1>3, <1>4 DEF LoadOK
<1>6. \A o \in loads' : LoadOK(o)
  BY <1>1, <1>5 DEF LookInv, LookTyped
<1>7. QED BY <1>1, <1>6 DEF LookInv, LookTyped, FreshIsTrue

LEMMA NotesLook == ASSUME LookInv, NEW l \in loads, NotesLoaded(l) PROVE LookInv'
<1> DEFINE n == [l EXCEPT !.kind = "members", !.answer = Nothing]
<1>1. /\ l.kind = "blocks" /\ l.answer # Nothing
      /\ looking' = [looking EXCEPT !.views = l.board, !.notes = l.answer \ NoteTemplates]
      /\ loads' = (loads \ {l}) \cup {n} /\ UNCHANGED <<notes, joined, turns>>
      /\ fresh' = IF l.board = looking.board /\ l.answer = TrueAnswer(l) THEN fresh \cup {"cards"} ELSE fresh \ {"cards"}
  BY DEF NotesLoaded
<1>2. l \in Loads /\ l.board \in Rooms /\ l.answer \in SUBSET Notes
  BY <1>1, LoadIs DEF LookInv
<1>3. looking \in Lookings /\ Nothing \notin Rooms /\ fresh \in SUBSET Loaded
  BY LookingIs DEF LookInv
<1>4. n \in Loads /\ n.answer = Nothing /\ n.kind = "members"
  BY <1>2 DEF Loads
<1> HIDE DEF n
<1>5. \A o \in loads' : LoadOK(o)
  BY <1>1, <1>4 DEF LookInv, LookTyped, LoadOK
<1>6. /\ looking' \in Lookings /\ looking'.board = looking.board /\ looking'.notes = l.answer \ NoteTemplates
      /\ looking'.members = looking.members /\ looking'.people = looking.people
  BY <1>1, <1>2, <1>3 DEF Lookings
<1>7. fresh' \in SUBSET Loaded
  BY <1>1, <1>3 DEF Loaded
<1>8. "cards" \in fresh' => NotesIn(looking'.board, looking'.notes) = NotesIn(looking'.board, notes')
  <2>1. SUFFICES ASSUME l.board = looking.board, l.answer = TrueAnswer(l)
                 PROVE  NotesIn(looking'.board, looking'.notes) = NotesIn(looking'.board, notes')
    BY <1>1
  <2>2. l.answer = {m \in notes : RoomOf[m] = looking.board}
    BY <1>1, <2>1 DEF TrueAnswer
  <2>3. QED BY <1>1, <1>6, <2>2 DEF NotesIn
<1>9. fresh' # {} => looking'.board # Nothing
  BY <1>1, <1>2, <1>3, <1>6 DEF LookInv, FreshIsTrue
<1>10. QED BY <1>1, <1>5, <1>6, <1>7, <1>8, <1>9 DEF LookInv, LookTyped, FreshIsTrue

LEMMA MembersLook == ASSUME LookInv, NEW l \in loads, MembersLoaded(l) PROVE LookInv'
<1>1. /\ l.kind = "members" /\ l.answer # Nothing
      /\ looking' = [looking EXCEPT !.members[l.board] = l.answer, !.people = l.answer]
      /\ loads' = loads \ {l} /\ UNCHANGED <<notes, joined, turns>>
      /\ fresh' = IF l.board # looking.board THEN fresh \ {"people"}
                  ELSE IF l.answer = TrueAnswer(l) THEN fresh \cup {"members", "people"}
                  ELSE fresh \ {"members", "people"}
  BY DEF MembersLoaded
<1>2. l \in Loads /\ l.board \in Rooms /\ l.answer \in SUBSET People
  BY <1>1, LoadIs DEF LookInv
<1>3. /\ looking \in Lookings /\ Nothing \notin Rooms /\ fresh \in SUBSET Loaded
      /\ looking.members \in [Rooms -> (SUBSET People) \cup {Nothing}] /\ looking.board \in Rooms \cup {Nothing}
  BY LookingIs DEF LookInv
<1> DEFINE ms == [looking.members EXCEPT ![l.board] = l.answer]
<1>4. ms \in [Rooms -> (SUBSET People) \cup {Nothing}] /\ \A r \in Rooms : ms[r] = IF r = l.board THEN l.answer ELSE looking.members[r]
  BY <1>2, <1>3
<1>5. looking' = [looking EXCEPT !.members = ms, !.people = l.answer]
  BY <1>1, <1>3 DEF Lookings
<1> HIDE DEF ms
<1>6. /\ looking' \in Lookings /\ looking'.board = looking.board /\ looking'.notes = looking.notes
      /\ looking'.members = ms /\ looking'.people = l.answer
  BY <1>2, <1>3, <1>4, <1>5 DEF Lookings
<1>7. fresh' \in SUBSET Loaded
  BY <1>1, <1>3 DEF Loaded
<1>8. \A o \in loads' : LoadOK(o)
  BY <1>1 DEF LookInv, LookTyped
<1>9. TrueAnswer(l) = joined[l.board]
  BY <1>1 DEF TrueAnswer
<1>10. FreshIsTrue'
  <2>1. CASE l.board # looking.board
    BY <1>1, <1>3, <1>4, <1>6, <2>1 DEF LookInv, FreshIsTrue
  <2>2. CASE l.board = looking.board
    BY <1>1, <1>2, <1>3, <1>4, <1>6, <1>9, <2>2 DEF LookInv, FreshIsTrue
  <2>3. QED BY <2>1, <2>2
<1>11. QED BY <1>1, <1>6, <1>7, <1>8, <1>10 DEF LookInv, LookTyped

LEMMA UserLook == ASSUME LookInv, NEW l \in loads, UserLoaded(l) PROVE LookInv'
<1>1. /\ l.kind = "user" /\ l.answer # Nothing /\ looking' = [looking EXCEPT !.people = @ \cup l.answer]
      /\ loads' = loads \ {l} /\ UNCHANGED <<notes, joined, fresh, turns>>
  BY DEF UserLoaded
<1>2. l.answer \in SUBSET People /\ looking \in Lookings
  BY <1>1, LoadIs, LookingIs DEF LookInv
<1>3. /\ looking' \in Lookings /\ looking'.board = looking.board /\ looking'.notes = looking.notes
      /\ looking'.members = looking.members /\ looking.people \subseteq looking'.people
  BY <1>1, <1>2 DEF Lookings
<1>4. QED BY <1>1, <1>3 DEF LookInv, LookTyped, FreshIsTrue

LEMMA ChangeLook == ASSUME LookInv, NEW n \in Notes, ChangeNote(n) PROVE LookInv'
<1>1. /\ looking \in Lookings /\ notes \in SUBSET Notes /\ looking.notes \in SUBSET (Notes \ NoteTemplates)
  BY LookingIs DEF LookInv
<1>2. PICK ns : /\ looking' = [looking EXCEPT !.notes = ns]
                /\ \/ n \notin notes /\ notes' = notes \cup {n}
                      /\ ns = (IF n \in NoteTemplates THEN looking.notes ELSE looking.notes \cup {n})
                   \/ n \in notes /\ notes' = notes \ {n} /\ ns = looking.notes \ {n}
  BY <1>1 DEF ChangeNote, Lookings
<1>3. turns' \in Nat /\ UNCHANGED <<loads, joined, fresh>>
  BY DEF ChangeNote, Turn, LookInv, LookTyped
<1>4. ns \in SUBSET (Notes \ NoteTemplates) /\ notes' \in SUBSET Notes
  BY <1>1, <1>2
<1>5. /\ looking' \in Lookings /\ looking'.board = looking.board /\ looking'.notes = ns
      /\ looking'.members = looking.members /\ looking'.people = looking.people
  BY <1>1, <1>2, <1>4 DEF Lookings
<1>6. NotesIn(looking.board, looking.notes) = NotesIn(looking.board, notes)
      => NotesIn(looking.board, ns) = NotesIn(looking.board, notes')
  BY <1>1, <1>2 DEF NotesIn
<1>7. QED BY <1>3, <1>4, <1>5, <1>6 DEF LookInv, LookTyped, FreshIsTrue

LEMMA JoinLook == ASSUME LookInv, NEW p \in People, NEW r \in Rooms, Join(p, r) \/ Leave(p, r) PROVE LookInv'
<1>1. /\ looking \in Lookings /\ Nothing \notin Rooms /\ fresh \in SUBSET Loaded
      /\ looking.members \in [Rooms -> (SUBSET People) \cup {Nothing}] /\ looking.board \in Rooms \cup {Nothing}
      /\ looking.people \in SUBSET People /\ joined \in [Rooms -> SUBSET People]
  BY LookingIs DEF LookInv
<1>2. Nothing \notin SUBSET People
  BY NothingAssumption
<1>3. CASE Join(p, r)
  <2> DEFINE m == IF looking.members[r] = Nothing THEN Nothing ELSE looking.members[r] \cup {p}
             ms == [looking.members EXCEPT ![r] = m]
  <2>1. m \in (SUBSET People) \cup {Nothing}
    BY <1>1
  <2>2. ms \in [Rooms -> (SUBSET People) \cup {Nothing}] /\ \A o \in Rooms : ms[o] = IF o = r THEN m ELSE looking.members[o]
    BY <1>1, <2>1
  <2>3. looking' = [looking EXCEPT !.members = ms, !.people = looking.people]
    BY <1>1, <1>3 DEF Join, Lookings
  <2>4. /\ looking' \in Lookings /\ looking'.board = looking.board /\ looking'.notes = looking.notes
        /\ looking'.members = ms /\ looking'.people = looking.people
    <3> HIDE DEF ms
    <3>1. QED BY <1>1, <2>2, <2>3 DEF Lookings
  <2> HIDE DEF ms
  <2>5. /\ joined' \in [Rooms -> SUBSET People] /\ notes' = notes
        /\ \A o \in Rooms : joined'[o] = IF o = r THEN joined[o] \cup {p} ELSE joined[o]
    BY <1>1, <1>3 DEF Join
  <2>6. /\ Turn
        /\ \/ p \in looking.people /\ UNCHANGED <<loads, fresh>>
           \/ /\ p \notin looking.people /\ loads' = loads \cup {LoadOf("user", r, p)}
              /\ fresh' = IF r = looking.board THEN fresh \ {"people"} ELSE fresh
    BY <1>3 DEF Join
  <2>7. turns' \in Nat /\ \A l \in loads' : LoadOK(l)
    <3>1. LoadOK(LoadOf("user", r, p)) /\ turns' \in Nat
      BY <2>6, NewLoadIs DEF LookInv
    <3>2. QED BY <2>6, <3>1 DEF LookInv, LookTyped
  <2>8. fresh' \in SUBSET Loaded
    BY <1>1, <2>6
  <2>9. FreshIsTrue'
    <3>1. fresh' # {} => looking'.board # Nothing
      BY <2>4, <2>6 DEF LookInv, FreshIsTrue
    <3>2. "cards" \in fresh' => NotesIn(looking'.board, looking'.notes) = NotesIn(looking'.board, notes')
      BY <2>4, <2>5, <2>6 DEF LookInv, FreshIsTrue
    <3>3. ASSUME "members" \in fresh' PROVE looking'.members[looking'.board] = joined'[looking'.board]
      <4>1. looking.members[looking.board] = joined[looking.board] /\ looking.board \in Rooms
        BY <1>1, <2>6, <3>3 DEF LookInv, FreshIsTrue
      <4>2. joined[looking.board] # Nothing
        BY <1>1, <1>2, <4>1
      <4>3. QED BY <2>2, <2>4, <2>5, <4>1, <4>2, ZenonT(60)
    <3>4. ASSUME "people" \in fresh' PROVE joined'[looking'.board] \subseteq looking'.people
      <4>1. joined[looking.board] \subseteq looking.people /\ looking.board \in Rooms
            /\ (looking.board = r => p \in looking.people)
        BY <1>1, <2>6, <3>4 DEF LookInv, FreshIsTrue
      <4>2. QED BY <2>4, <2>5, <4>1
    <3>5. QED BY <3>1, <3>2, <3>3, <3>4 DEF FreshIsTrue
  <2>10. QED BY <1>1, <2>4, <2>5, <2>7, <2>8, <2>9, LookingIs DEF LookInv, LookTyped
<1>4. CASE Leave(p, r)
  <2> DEFINE m == IF looking.members[r] = Nothing THEN Nothing ELSE looking.members[r] \ {p}
             ms == [looking.members EXCEPT ![r] = m]
             ps == looking.people \ {p}
  <2>1. m \in (SUBSET People) \cup {Nothing} /\ ps \in SUBSET People
    BY <1>1
  <2>2. ms \in [Rooms -> (SUBSET People) \cup {Nothing}] /\ \A o \in Rooms : ms[o] = IF o = r THEN m ELSE looking.members[o]
    BY <1>1, <2>1
  <2>3. looking' = [looking EXCEPT !.members = ms, !.people = ps]
    BY <1>1, <1>4 DEF Leave, Lookings
  <2>4. /\ looking' \in Lookings /\ looking'.board = looking.board /\ looking'.notes = looking.notes
        /\ looking'.members = ms /\ looking'.people = looking.people \ {p}
    <3> HIDE DEF ms, ps
    <3>1. looking'.people = ps
      BY <1>1, <2>1, <2>2, <2>3 DEF Lookings
    <3>2. QED BY <1>1, <2>1, <2>2, <2>3, <3>1 DEF Lookings, ps
  <2> HIDE DEF ms
  <2>5. /\ joined' \in [Rooms -> SUBSET People] /\ UNCHANGED <<notes, loads>>
        /\ \A o \in Rooms : joined'[o] = IF o = r THEN joined[o] \ {p} ELSE joined[o]
    BY <1>1, <1>4 DEF Leave
  <2>6. Turn /\ fresh' = IF r # looking.board THEN fresh \ {"people"} ELSE fresh
    BY <1>4 DEF Leave
  <2>7. turns' \in Nat
    BY <2>6 DEF Turn, LookInv, LookTyped
  <2>8. fresh' \in SUBSET Loaded
    BY <1>1, <2>6
  <2>9. FreshIsTrue'
    <3>1. fresh' # {} => looking'.board # Nothing
      BY <2>4, <2>6 DEF LookInv, FreshIsTrue
    <3>2. "cards" \in fresh' => NotesIn(looking'.board, looking'.notes) = NotesIn(looking'.board, notes')
      BY <2>4, <2>5, <2>6 DEF LookInv, FreshIsTrue
    <3>3. ASSUME "members" \in fresh' PROVE looking'.members[looking'.board] = joined'[looking'.board]
      <4>1. looking.members[looking.board] = joined[looking.board] /\ looking.board \in Rooms
        BY <1>1, <2>6, <3>3 DEF LookInv, FreshIsTrue
      <4>2. joined[looking.board] # Nothing
        BY <1>1, <1>2, <4>1
      <4>3. QED BY <2>2, <2>4, <2>5, <4>1, <4>2, SMTT(40)
    <3>4. ASSUME "people" \in fresh' PROVE joined'[looking'.board] \subseteq looking'.people
      <4>1. joined[looking.board] \subseteq looking.people /\ looking.board = r /\ looking.board \in Rooms
        BY <1>1, <2>6, <3>4 DEF LookInv, FreshIsTrue
      <4>2. QED BY <2>4, <2>5, <4>1
    <3>5. QED BY <3>1, <3>2, <3>3, <3>4 DEF FreshIsTrue
  <2>10. QED BY <1>1, <2>4, <2>5, <2>7, <2>8, <2>9, LookingIs DEF LookInv, LookTyped
<1>5. QED BY <1>3, <1>4

LEMMA TalkLook ==
    ASSUME LookInv, ToggleChat \/ Write \/ HandleSendMessage \/ Reply
    PROVE  LookInv'
<1>1. UNCHANGED <<looking, loads, notes, joined, fresh, turns>>
  BY DEF ToggleChat, Write, HandleSendMessage, Reply
<1>2. QED BY <1>1 DEF LookInv, LookTyped, FreshIsTrue

LEMMA LookStep == ASSUME LookInv, [ChatNext]_chatVars PROVE LookInv'
<1>1. CASE UNCHANGED chatVars
  BY <1>1 DEF chatVars, LookInv, LookTyped, FreshIsTrue
<1>2. CASE ToggleChat \/ Write \/ HandleSendMessage \/ Reply
  BY <1>2, TalkLook
<1>3. CASE ReloadPage \/ \E r \in Rooms : ShowRoom(r)
  BY <1>3, ReloadLook, ShowRoomLook
<1>4. CASE \E l \in loads : ServeLoad(l) \/ NotesLoaded(l) \/ MembersLoaded(l) \/ UserLoaded(l)
  BY <1>4, ServeLook, NotesLook, MembersLook, UserLook
<1>5. CASE (\E n \in Notes : ChangeNote(n)) \/ \E p \in People, r \in Rooms : Join(p, r) \/ Leave(p, r)
  BY <1>5, ChangeLook, JoinLook
<1>6. QED BY <1>1, <1>2, <1>3, <1>4, <1>5 DEF ChatNext

-----------------------------------------------------------------------------
(* What the assistant is told.                                             *)

LEMMA ListingsAre ==
    ASSUME LookInv, NEW listed \in Listings
    PROVE  LET all == CurrentNotes(looking)
           IN  /\ all \in SUBSET Notes /\ Cardinality(all) \in Nat /\ listed \in SUBSET all
               /\ Cardinality(listed) < Cardinality(all) => Cardinality(listed) = NoteLimit
<1> DEFINE all == CurrentNotes(looking)
<1>1. all \in SUBSET Notes
  BY LookingIs DEF LookInv, CurrentNotes, NotesIn
<1>2. IsFiniteSet(all) /\ Cardinality(all) \in Nat
  BY <1>1, FS_Subset, FS_CardinalityType, ChatbotAssumption
<1>3. listed \in SUBSET all
      /\ Cardinality(listed) = IF Cardinality(all) <= NoteLimit THEN Cardinality(all) ELSE NoteLimit
  BY DEF Listings
<1> HIDE DEF all
<1>4. Cardinality(listed) < Cardinality(all) => Cardinality(listed) = NoteLimit
  BY <1>2, <1>3
<1>5. QED BY <1>1, <1>2, <1>3, <1>4 DEF all

\* What is asked is typed, and what is told is true, when it is asked.
LEMMA ToldWhenAsked ==
    ASSUME LookInv, NEW listed \in Listings, NEW history \in Seq(Saying({"user", "assistant"})),
           GetResponse(history, Told(listed))
    PROVE  asking' \in Askings /\ asking'.sent = history /\ ToldIsTrue'
<1> DEFINE b == looking.board
           all == CurrentNotes(looking)
           ns == IF b = Nothing THEN {} ELSE NotesIn(b, notes)
           js == IF b = Nothing THEN {} ELSE joined[b]
           ps == BoardMembers(looking)
           view == IF looking.views = b THEN looking.views ELSE Nothing
           told == [board |-> b, view |-> view, total |-> Cardinality(all), listed |-> listed, members |-> ps]
<1>1. /\ b \in Rooms \cup {Nothing} /\ looking.views \in Rooms \cup {Nothing} /\ looking.people \in SUBSET People
      /\ looking.members \in [Rooms -> (SUBSET People) \cup {Nothing}] /\ notes \in SUBSET Notes
      /\ joined \in [Rooms -> SUBSET People] /\ fresh \in SUBSET Loaded /\ Nothing \notin SUBSET People
  BY LookingIs, NothingAssumption DEF LookInv
<1>2. /\ all \in SUBSET Notes /\ Cardinality(all) \in Nat /\ listed \in SUBSET all /\ listed \in SUBSET Notes
      /\ Cardinality(listed) < Cardinality(all) => Cardinality(listed) = NoteLimit
  BY ListingsAre
<1>3. ns \in SUBSET Notes /\ js \in SUBSET People /\ view \in {b, Nothing} /\ view \in Rooms \cup {Nothing}
  BY <1>1 DEF NotesIn
<1>4. ps \in SUBSET People
  BY <1>1 DEF BoardMembers
<1>5. asking' = [sent |-> history, told |-> told, fresh |-> fresh, notes |-> ns, members |-> js]
  BY DEF GetResponse, Told
<1>6. b = Nothing => all = {} /\ ps = {}
  BY DEF CurrentNotes, BoardMembers
<1>7. Cardinality({}) = 0
  BY FS_EmptySet
<1>8. ASSUME "cards" \in fresh PROVE all = ns
  BY <1>1, <1>8 DEF LookInv, FreshIsTrue, CurrentNotes
<1>9. ASSUME "members" \in fresh PROVE ps \subseteq js /\ ("people" \in fresh => ps = js)
  <2>1. b # Nothing /\ looking.members[b] = joined[b] /\ joined[b] \in SUBSET People
    BY <1>1, <1>9 DEF LookInv, FreshIsTrue
  <2>2. ps = joined[b] \cap looking.people /\ js = joined[b]
    BY <1>1, <2>1 DEF BoardMembers
  <2>3. "people" \in fresh => joined[b] \subseteq looking.people
    BY DEF LookInv, FreshIsTrue
  <2>4. QED BY <2>2, <2>3
<1> HIDE DEF b, all, ns, js, ps, view
<1>10. told \in Tellings
  BY <1>1, <1>2, <1>3, <1>4 DEF Tellings
<1>11. /\ told.board = b /\ told.view = view /\ told.total = Cardinality(all) /\ told.listed = listed
       /\ told.members = ps
  OBVIOUS
<1> HIDE DEF told
<1>12. asking' \in Askings
  BY <1>1, <1>3, <1>5, <1>10 DEF Askings
<1>13. /\ asking'.sent = history /\ asking'.told = told /\ asking'.fresh = fresh /\ asking'.notes = ns
       /\ asking'.members = js
  BY <1>5
<1>14. ToldIsTrue'
  <2>1. told.view \in {told.board, Nothing}
    BY <1>3, <1>11
  <2>2. told.board = Nothing => told.total = 0 /\ told.members = {}
    BY <1>6, <1>7, <1>11
  <2>3. "cards" \in fresh => /\ told.total = Cardinality(ns) /\ told.listed \subseteq ns
                             /\ Cardinality(told.listed) < told.total => Cardinality(told.listed) = NoteLimit
    BY <1>2, <1>8, <1>11
  <2>4. "members" \in fresh => /\ told.members \subseteq js
                               /\ "people" \in fresh => told.members = js
    BY <1>9, <1>11
  <2>5. QED BY <1>13, <2>1, <2>2, <2>3, <2>4 DEF ToldIsTrue
<1>15. QED BY <1>12, <1>13, <1>14

-----------------------------------------------------------------------------
(* The questions and their answers.                                        *)

\* Questions and answers by turns.
ByTurns(ms) ==
    \A i \in DOMAIN ms : /\ ms[i].who = "user" <=> i % 2 = 1
                         /\ i % 2 = 0 => ms[i].no = ms[i - 1].no

LEMMA TurnIs ==
    ChatInTurn <=>
      /\ ByTurns(talk.messages) /\ HistoryOf(talk.messages, talk.history)
      /\ talk.loading <=> Len(talk.messages) % 2 = 1
      /\ talk.loading <=> asking # Nothing
      /\ asking # Nothing => /\ asking.sent = talk.history
                             /\ asking.sent[Len(asking.sent)] = talk.messages[Len(talk.messages)]
BY DEF ChatInTurn, ByTurns, HistoryOf

LEMMA OneMoreTurn ==
    ASSUME NEW ms \in Seq(Messages), ByTurns(ms), NEW e \in Messages,
           e.who = "user" <=> Len(ms) % 2 = 0,
           Len(ms) % 2 = 1 => e.no = ms[Len(ms)].no
    PROVE  ByTurns(Append(ms, e)) /\ (Len(Append(ms, e)) % 2 = 1 <=> Len(ms) % 2 = 0)
<1> DEFINE n == Len(ms)
           more == Append(ms, e)
<1>1. /\ n \in Nat /\ Len(more) = n + 1 /\ more[n + 1] = e /\ \A i \in 1 .. n : more[i] = ms[i]
      /\ DOMAIN ms = 1 .. n /\ DOMAIN more = 1 .. n + 1
  BY SaidIs
<1>2. e.who = "user" <=> n % 2 = 0
  OBVIOUS
<1>3. n % 2 = 1 => e.no = ms[n].no
  OBVIOUS
<1>4. ByTurns(ms)
  OBVIOUS
<1> HIDE DEF n, more
<1>5. (n + 1) % 2 = 1 <=> n % 2 = 0
  BY <1>1
<1>6. (n + 1) % 2 = 0 <=> n % 2 = 1
  BY <1>1
<1>7. ASSUME NEW i \in 1 .. n + 1
      PROVE  /\ more[i].who = "user" <=> i % 2 = 1
             /\ i % 2 = 0 => more[i].no = more[i - 1].no
  <2>1. CASE i = n + 1
    <3>1. n % 2 = 1 => n \in 1 .. n
      BY <1>1
    <3>2. i - 1 = n
      BY <1>1, <2>1
    <3>3. QED BY <1>1, <1>2, <1>3, <1>5, <1>6, <2>1, <3>1, <3>2
  <2>2. CASE i \in 1 .. n
    <3>1. more[i] = ms[i] /\ i \in DOMAIN ms
      BY <1>1, <2>2
    <3>2. i % 2 = 0 => i - 1 \in 1 .. n
      BY <1>1, <2>2
    <3>3. i % 2 = 0 => more[i - 1] = ms[i - 1]
      BY <1>1, <3>2
    <3>4. QED BY <1>4, <3>1, <3>3 DEF ByTurns
  <2>3. QED BY <1>1, <2>1, <2>2
<1>8. ByTurns(more)
  BY <1>1, <1>7 DEF ByTurns
<1>9. QED BY <1>1, <1>5, <1>8 DEF n, more

TalkInv ==
    /\ talk \in Talks /\ asking \in Askings \cup {Nothing} /\ questions \in 0 .. MaxQuestions
    /\ ChatInTurn /\ ToldIsTrue

ChatInv == LookInv /\ TalkInv

LEMMA TalkIs ==
    ASSUME TalkInv
    PROVE  /\ talk \in Talks /\ talk.messages \in Seq(Messages) /\ talk.history \in Seq(Saying({"user", "assistant"}))
           /\ talk.loading \in BOOLEAN /\ Len(talk.messages) \in Nat /\ questions \in Nat /\ MaxQuestions \in Nat
BY ChatbotAssumption DEF TalkInv, Talks

LEMMA Conversation ==
    ASSUME TalkInv
    PROVE  /\ ByTurns(talk.messages) /\ HistoryOf(talk.messages, talk.history)
           /\ talk.loading <=> Len(talk.messages) % 2 = 1
           /\ talk.loading <=> asking # Nothing
           /\ asking # Nothing => /\ asking.sent = talk.history
                                  /\ asking.sent[Len(asking.sent)] = talk.messages[Len(talk.messages)]
BY TurnIs DEF TalkInv

\* The same of the conversation that follows.
LEMMA NextTurnIs ==
    ASSUME ByTurns(talk'.messages), HistoryOf(talk'.messages, talk'.history),
           talk'.loading <=> Len(talk'.messages) % 2 = 1,
           talk'.loading <=> asking' # Nothing,
           asking' # Nothing => /\ asking'.sent = talk'.history
                                /\ asking'.sent[Len(asking'.sent)] = talk'.messages[Len(talk'.messages)]
    PROVE  ChatInTurn'
<1>1. \A i \in DOMAIN talk'.messages :
         /\ talk'.messages[i].who = "user" <=> i % 2 = 1
         /\ i % 2 = 0 => talk'.messages[i].no = talk'.messages[i - 1].no
  BY DEF ByTurns
<1>2. /\ Len(talk'.history) = Cardinality(Spoken(talk'.messages, Len(talk'.messages)))
      /\ \A k \in Spoken(talk'.messages, Len(talk'.messages)) :
            talk'.history[Cardinality(Spoken(talk'.messages, k))] = talk'.messages[k]
  BY DEF HistoryOf
<1>3. QED BY <1>1, <1>2 DEF ChatInTurn

LEMMA NewTalkIs ==
    /\ NewTalk \in Talks /\ NewTalk.messages = <<>> /\ NewTalk.history = <<>> /\ ~NewTalk.loading
    /\ ByTurns(<<>>) /\ HistoryOf(<<>>, <<>>) /\ Len(<<>>) % 2 = 0
<1>1. NewTalk \in Talks /\ NewTalk.messages = <<>> /\ NewTalk.history = <<>> /\ ~NewTalk.loading
  BY DEF NewTalk, Talks
<1>2. Len(<<>>) = 0 /\ Len(<<>>) % 2 = 0 /\ DOMAIN <<>> = {}
  OBVIOUS
<1>3. Spoken(<<>>, 0) = {}
  BY DEF Spoken
<1>4. Cardinality({}) = 0
  BY FS_EmptySet
<1>5. QED BY <1>1, <1>2, <1>3, <1>4 DEF ByTurns, HistoryOf

LEMMA TalkStart == ASSUME ChatInit PROVE TalkInv
<1>1. talk = NewTalk /\ asking = Nothing /\ questions = 0
  BY DEF ChatInit
<1>2. 0 \in 0 .. MaxQuestions
  BY ChatbotAssumption
<1>3. talk.loading <=> Len(talk.messages) % 2 = 1
  BY <1>1, NewTalkIs
<1>4. ChatInTurn
  BY <1>1, <1>3, NewTalkIs, TurnIs
<1>5. ToldIsTrue
  BY <1>1 DEF ToldIsTrue
<1>6. QED BY <1>1, <1>2, <1>4, <1>5, NewTalkIs DEF TalkInv

LEMMA TalkReload == ASSUME TalkInv, ReloadPage PROVE TalkInv'
<1>1. talk' = NewTalk /\ asking' = Nothing /\ questions' = questions
  BY DEF ReloadPage
<1>2. talk'.loading <=> Len(talk'.messages) % 2 = 1
  BY <1>1, NewTalkIs
<1>3. ChatInTurn'
  BY <1>1, <1>2, NewTalkIs, NextTurnIs
<1>4. ToldIsTrue'
  BY <1>1 DEF ToldIsTrue
<1>5. QED BY <1>1, <1>3, <1>4, NewTalkIs DEF TalkInv

LEMMA TalkOpened == ASSUME TalkInv, ToggleChat \/ Write PROVE TalkInv'
<1>1. /\ UNCHANGED <<asking, questions>> /\ talk' \in Talks
      /\ talk'.messages = talk.messages /\ talk'.history = talk.history /\ talk'.loading = talk.loading
  <2>1. ASSUME ToggleChat PROVE /\ talk' \in Talks /\ talk'.messages = talk.messages
                                /\ talk'.history = talk.history /\ talk'.loading = talk.loading
                                /\ UNCHANGED <<asking, questions>>
    <3> DEFINE o == ~talk.open
    <3>1. talk' = [talk EXCEPT !.open = o] /\ UNCHANGED <<asking, questions>>
      BY <2>1, Zenon DEF ToggleChat
    <3>2. o \in BOOLEAN
      OBVIOUS
    <3> HIDE DEF o
    <3>3. QED BY <3>1, <3>2, TalkIs DEF Talks
  <2>2. ASSUME Write PROVE /\ talk' \in Talks /\ talk'.messages = talk.messages
                           /\ talk'.history = talk.history /\ talk'.loading = talk.loading
                           /\ UNCHANGED <<asking, questions>>
    BY <2>2, TalkIs DEF Write, Talks
  <2>3. QED BY <2>1, <2>2
<1>2. ChatInTurn'
  BY <1>1, Conversation, NextTurnIs
<1>3. ToldIsTrue'
  BY <1>1 DEF ToldIsTrue, TalkInv
<1>4. QED BY <1>1, <1>2, <1>3 DEF TalkInv

LEMMA TalkAsked == ASSUME ChatInv, HandleSendMessage PROVE TalkInv'
<1> DEFINE said == [who |-> "user", no |-> questions']
           ms == Append(talk.messages, said)
           h == Append(talk.history, said)
<1>1. /\ ~talk.loading /\ questions < MaxQuestions /\ questions' = questions + 1
      /\ talk' = [talk EXCEPT !.typed = FALSE, !.loading = TRUE, !.history = h, !.messages = ms]
      /\ \E listed \in Listings : GetResponse(h, Told(listed))
  BY DEF HandleSendMessage
<1>2. questions' \in 0 .. MaxQuestions /\ questions' \in 1 .. MaxQuestions
  BY <1>1, TalkIs DEF ChatInv
<1>3. said \in Messages /\ said \in Saying({"user", "assistant"}) /\ said.who = "user"
  BY <1>2 DEF Messages, Saying
<1> HIDE DEF said
<1>4. /\ ms \in Seq(Messages) /\ ms[Len(ms)] = said
  BY <1>3, TalkIs, SaidIs DEF ChatInv
<1>5. HistoryOf(ms, h) /\ h \in Seq(Saying({"user", "assistant"})) /\ h[Len(h)] = said
  BY <1>3, TalkIs, Conversation, HistorySaid DEF ChatInv
<1>6. Len(talk.messages) % 2 # 1 /\ Len(talk.messages) % 2 = 0
  <2>1. Len(talk.messages) % 2 # 1
    BY <1>1, Conversation DEF ChatInv
  <2>2. Len(talk.messages) \in Nat
    BY TalkIs DEF ChatInv
  <2> DEFINE n == Len(talk.messages)
  <2>3. n \in Nat /\ n % 2 # 1
    BY <2>1, <2>2
  <2> HIDE DEF n
  <2>4. n % 2 = 0
    BY <2>3
  <2>5. QED BY <2>1, <2>4 DEF n
<1>7. ByTurns(ms) /\ Len(ms) % 2 = 1
  BY <1>3, <1>6, TalkIs, Conversation, OneMoreTurn DEF ChatInv
<1> HIDE DEF ms, h
<1>8. talk' \in Talks /\ talk'.messages = ms /\ talk'.history = h /\ talk'.loading
  BY <1>1, <1>4, <1>5, TalkIs DEF ChatInv, Talks
<1>9. asking' \in Askings /\ asking'.sent = h /\ ToldIsTrue'
  BY <1>1, <1>5, ToldWhenAsked DEF ChatInv
<1>10. asking' # Nothing
  BY <1>9, NothingAssumption
<1>11. ChatInTurn'
  BY <1>4, <1>5, <1>7, <1>8, <1>9, <1>10, NextTurnIs
<1>12. QED BY <1>2, <1>8, <1>9, <1>11 DEF TalkInv, ChatbotAssumption

LEMMA TalkAnswered == ASSUME TalkInv, Reply PROVE TalkInv'
<1> DEFINE n == Len(talk.messages)
<1>1. PICK who \in {"assistant", "error"} : talk' = Replied(talk, [who |-> who, no |-> talk.messages[n].no])
  BY DEF Reply
<1>2. asking # Nothing /\ asking' = Nothing /\ questions' = questions
  BY DEF Reply
<1>3. n \in Nat /\ n % 2 = 1
  BY <1>2, TalkIs, Conversation
<1>4. n \in 1 .. n
  <2> HIDE DEF n
  <2>1. QED BY <1>3
<1>5. talk.messages[n] \in Messages
  BY <1>4, TalkIs
<1> DEFINE e == [who |-> who, no |-> talk.messages[n].no]
           ms == Append(talk.messages, e)
           h == IF who = "error" THEN talk.history ELSE Append(talk.history, e)
<1>6. e \in Messages /\ e.who = who /\ e.no = talk.messages[n].no /\ e.who # "user"
      /\ (who # "error" => e \in Saying({"user", "assistant"}))
  BY <1>5 DEF Messages, Saying
<1>7. talk' = [talk EXCEPT !.loading = FALSE, !.messages = ms, !.history = h]
  BY <1>1, <1>6, TalkIs DEF Replied, Talks
<1> HIDE DEF e
<1>8. ms \in Seq(Messages)
  BY <1>6, TalkIs, SaidIs
<1>9. HistoryOf(ms, h) /\ h \in Seq(Saying({"user", "assistant"}))
  <2>1. ASSUME who = "error" PROVE HistoryOf(ms, h) /\ h \in Seq(Saying({"user", "assistant"}))
    BY <1>6, <2>1, TalkIs, Conversation, HistoryFailed
  <2>2. ASSUME who # "error" PROVE HistoryOf(ms, h) /\ h \in Seq(Saying({"user", "assistant"}))
    BY <1>6, <2>2, TalkIs, Conversation, HistorySaid
  <2>3. QED BY <2>1, <2>2
<1>10. ByTurns(ms) /\ Len(ms) % 2 # 1
  <2>1. n % 2 # 0
    <3> HIDE DEF n
    <3>1. QED BY <1>3
  <2>2. ByTurns(talk.messages) /\ talk.messages \in Seq(Messages)
    BY TalkIs, Conversation
  <2>3. QED BY <1>6, <2>1, <2>2, OneMoreTurn
<1> HIDE DEF ms, h
<1>11. talk' \in Talks /\ talk'.messages = ms /\ talk'.history = h /\ ~talk'.loading
  BY <1>7, <1>8, <1>9, TalkIs DEF Talks
<1>12. ChatInTurn'
  BY <1>2, <1>9, <1>10, <1>11, NextTurnIs
<1>13. ToldIsTrue'
  BY <1>2 DEF ToldIsTrue
<1>14. QED BY <1>2, <1>11, <1>12, <1>13 DEF TalkInv

LEMMA TalkStays == ASSUME TalkInv, UNCHANGED <<talk, asking, questions>> PROVE TalkInv'
<1>1. ChatInTurn'
  BY Conversation, NextTurnIs
<1>2. ToldIsTrue'
  BY DEF ToldIsTrue, TalkInv
<1>3. QED BY <1>1, <1>2 DEF TalkInv

LEMMA TalkStep == ASSUME ChatInv, [ChatNext]_chatVars PROVE TalkInv'
<1>1. TalkInv
  BY DEF ChatInv
<1>2. CASE ToggleChat \/ Write
  BY <1>1, <1>2, TalkOpened
<1>3. CASE HandleSendMessage
  BY <1>3, TalkAsked
<1>4. CASE Reply
  BY <1>1, <1>4, TalkAnswered
<1>5. CASE ReloadPage
  BY <1>1, <1>5, TalkReload
<1>6. CASE UNCHANGED <<talk, asking, questions>>
  BY <1>1, <1>6, TalkStays
<1>7. CASE \E r \in Rooms : ShowRoom(r)
  BY <1>6, <1>7 DEF ShowRoom
<1>8. CASE \E l \in loads : ServeLoad(l) \/ NotesLoaded(l) \/ MembersLoaded(l) \/ UserLoaded(l)
  BY <1>6, <1>8, SMTT(40) DEF ServeLoad, NotesLoaded, MembersLoaded, UserLoaded
<1>9. CASE (\E n \in Notes : ChangeNote(n)) \/ \E p \in People, r \in Rooms : Join(p, r) \/ Leave(p, r)
  BY <1>6, <1>9 DEF ChangeNote, Join, Leave
<1>10. CASE UNCHANGED chatVars
  BY <1>6, <1>10 DEF chatVars
<1>11. QED BY <1>2, <1>3, <1>4, <1>5, <1>7, <1>8, <1>9, <1>10 DEF ChatNext

-----------------------------------------------------------------------------
(* The theorem.                                                            *)

LEMMA ChatInvAgrees == ASSUME ChatInv PROVE ChatAgrees
<1>1. \A l \in loads : /\ l.kind \in {"blocks", "members", "user"} /\ l.board \in Rooms
                       /\ l.answer # Nothing => l.answer \subseteq Notes \cup People
  BY LoadIs DEF ChatInv, LookInv
<1>2. ChatTypeOK
  BY <1>1 DEF ChatTypeOK, ChatInv, LookInv, LookTyped, TalkInv, Talks, Messages, Lookings
<1>3. QED BY <1>2 DEF ChatAgrees, ChatInv, TalkInv

\* The conversation with the assistant goes by turns, what is sent is what was
\* said, and the assistant is told what is true of the open board, whatever the
\* page loads in whatever order and whatever other users change.
THEOREM ChatIsTrue == ChatSpec => []ChatAgrees
<1>1. ChatInit => ChatInv
  BY LookStart, TalkStart DEF ChatInv
<1>2. ChatInv /\ [ChatNext]_chatVars => ChatInv'
  BY LookStep, TalkStep DEF ChatInv
<1>3. ChatInv => ChatAgrees
  BY ChatInvAgrees
<1>4. QED BY <1>1, <1>2, <1>3, PTL DEF ChatSpec
-----------------------------------------------------------------------------
(* CardPage: sequences and sets of numbers.                                *)

LEMMA LeastOf == ASSUME NEW S, S \subseteq Nat, S # {} PROVE \E m \in S : \A k \in S : m <= k
<1> DEFINE R == OpToRel(<, Nat)
<1>1. IsWellFoundedOn(R, Nat)
  BY NatLessThanWellFounded
<1>2. \A m, k \in Nat : <<k, m>> \in R <=> k < m
  BY DEF OpToRel
<1> HIDE DEF R
<1>3. \E m \in S : \A k \in S : ~(<<k, m>> \in R)
  BY <1>1, WFMin
<1>4. PICK m \in S : \A k \in S : ~(<<k, m>> \in R)
  BY <1>3
<1>5. ASSUME NEW k \in S PROVE m <= k
  <2>1. ~(k < m) /\ k \in Nat /\ m \in Nat
    BY <1>2, <1>4
  <2>2. QED BY <2>1
<1>6. QED BY <1>5

LEMMA ListedOnce == ASSUME NEW S, IsFiniteSet(S) PROVE SetToSeq(S) \in Seq(S)
<1>1. Cardinality(S) \in Nat /\ ExistsBijection(1 .. Cardinality(S), S)
  BY FS_CardinalityType
<1>2. PICK f : f \in [1 .. Cardinality(S) -> S] /\ IsInjective(f)
  BY <1>1 DEF ExistsBijection, Bijection, Injection
<1>3. SetToSeq(S) \in [1 .. Cardinality(S) -> S]
  BY <1>2, Zenon DEF SetToSeq
<1>4. QED BY <1>1, <1>3

LEMMA MembersAre ==
    ASSUME NEW S, NEW q \in Seq(S), NEW e \in S
    PROVE  /\ ToSet(Append(q, e)) = ToSet(q) \cup {e} /\ Append(q, e) \in Seq(S)
           /\ \A x : Contains(q, x) <=> x \in ToSet(q)
<1>1. DOMAIN q = 1 .. Len(q) /\ Len(q) \in Nat
  OBVIOUS
<1>2. /\ Append(q, e) \in Seq(S) /\ DOMAIN Append(q, e) = 1 .. Len(q) + 1
      /\ \A i \in 1 .. Len(q) + 1 : Append(q, e)[i] = IF i = Len(q) + 1 THEN e ELSE q[i]
  OBVIOUS
<1>3. 1 .. Len(q) + 1 = (1 .. Len(q)) \cup {Len(q) + 1} /\ Len(q) + 1 \notin 1 .. Len(q)
  BY <1>1
<1>4. ToSet(Append(q, e)) = ToSet(q) \cup {e}
  BY <1>1, <1>2, <1>3 DEF ToSet
<1>5. \A x : Contains(q, x) <=> x \in ToSet(q)
  BY <1>1 DEF Contains, ToSet
<1>6. QED BY <1>2, <1>4, <1>5

\* One of a sequence is replaced or removed; f tells where the rest comes from.
Places(q, p, i, t, f) ==
    /\ f \in [DOMAIN q -> DOMAIN p]
    /\ \A j, k \in DOMAIN q : j < k => f[j] < f[k]
    /\ \A j \in DOMAIN q : q[j] = IF f[j] = i THEN t ELSE p[f[j]]
    /\ \A m \in DOMAIN p \ {i} : \E j \in DOMAIN q : f[j] = m
LEMMA Replaces ==
    ASSUME NEW S, NEW p \in Seq(S), NEW q \in Seq(S), NEW i \in DOMAIN p, NEW t \in S,
           DOMAIN q = DOMAIN p, q[i] = t, \A j \in DOMAIN p \ {i} : q[j] = p[j]
    PROVE  \E f : Places(q, p, i, t, f) /\ \E j \in DOMAIN q : f[j] = i
<1> DEFINE f == [j \in DOMAIN p |-> j]
<1>1. DOMAIN p = 1 .. Len(p) /\ Len(p) \in Nat
  OBVIOUS
<1>2. f \in [DOMAIN p -> DOMAIN p] /\ \A j \in DOMAIN p : f[j] = j
  OBVIOUS
<1> HIDE DEF f
<1>3. Places(q, p, i, t, f) /\ f[i] = i
  BY <1>2 DEF Places
<1>4. QED BY <1>3

LEMMA Removes ==
    ASSUME NEW S, NEW p \in Seq(S), NEW i \in DOMAIN p, NEW t
    PROVE  /\ RemoveAt(p, i) \in Seq(S)
           /\ \E f : Places(RemoveAt(p, i), p, i, t, f) /\ \A j \in DOMAIN RemoveAt(p, i) : f[j] # i
<1> DEFINE a == SubSeq(p, 1, i - 1)
           b == SubSeq(p, i + 1, Len(p))
           q == RemoveAt(p, i)
           f == [j \in 1 .. Len(p) - 1 |-> IF j < i THEN j ELSE j + 1]
<1>1. DOMAIN p = 1 .. Len(p) /\ Len(p) \in Nat /\ i \in 1 .. Len(p)
  OBVIOUS
<1>2. a \in Seq(S) /\ Len(a) = i - 1 /\ \A j \in 1 .. i - 1 : a[j] = p[j]
  BY <1>1
<1>3. b \in Seq(S) /\ Len(b) = Len(p) - i /\ \A j \in 1 .. Len(p) - i : b[j] = p[i + j]
  BY <1>1, SMTT(40)
<1> HIDE DEF a, b
<1>4. q = a \o b
  BY DEF RemoveAt, a, b
<1>5. q \in Seq(S) /\ Len(q) = Len(p) - 1
  <2>1. a \o b \in Seq(S) /\ Len(a \o b) = Len(a) + Len(b)
    <3>1. a \in Seq(S) /\ b \in Seq(S)
      BY <1>2, <1>3
    <3>2. QED BY <3>1
  <2>2. Len(a) + Len(b) = Len(p) - 1
    BY <1>1, <1>2, <1>3
  <2>3. QED BY <1>4, <2>1, <2>2
<1>6. \A j \in 1 .. Len(p) - 1 : q[j] = IF j < i THEN p[j] ELSE p[j + 1]
  <2> TAKE j \in 1 .. Len(p) - 1
  <2>1. q[j] = IF j <= Len(a) THEN a[j] ELSE b[j - Len(a)]
    <3>1. j \in 1 .. Len(a) + Len(b)
      BY <1>1, <1>2, <1>3
    <3>2. (a \o b)[j] = IF j <= Len(a) THEN a[j] ELSE b[j - Len(a)]
      BY <1>2, <1>3, <3>1, SMTT(40)
    <3>3. QED BY <1>4, <3>2
  <2>2. CASE j < i
    BY <1>1, <1>2, <2>1, <2>2
  <2>3. CASE ~(j < i)
    <3>1. q[j] = b[j - (i - 1)] /\ j - (i - 1) \in 1 .. Len(p) - i
      BY <1>1, <1>2, <2>1, <2>3
    <3>2. i + (j - (i - 1)) = j + 1
      BY <1>1
    <3>3. QED BY <1>3, <2>3, <3>1, <3>2
  <2>4. QED BY <2>2, <2>3
<1> HIDE DEF q
<1>7. DOMAIN q = 1 .. Len(p) - 1
  BY <1>1, <1>5
<1>8. /\ f \in [1 .. Len(p) - 1 -> 1 .. Len(p)] /\ \A j \in 1 .. Len(p) - 1 : f[j] = IF j < i THEN j ELSE j + 1
  BY <1>1
<1> HIDE DEF f
<1>9. \A m \in DOMAIN p \ {i} : \E j \in DOMAIN q : f[j] = m
  <2> TAKE m \in DOMAIN p \ {i}
  <2>1. CASE m < i
    BY <1>1, <1>7, <1>8, <2>1
  <2>2. CASE m > i
    <3>1. m - 1 \in 1 .. Len(p) - 1 /\ ~(m - 1 < i) /\ (m - 1) + 1 = m
      BY <1>1, <2>2
    <3>2. QED BY <1>7, <1>8, <3>1
  <2>3. QED BY <1>1, <2>1, <2>2
<1>10. Places(q, p, i, t, f) /\ \A j \in DOMAIN q : f[j] # i
  <2>1. f \in [DOMAIN q -> DOMAIN p]
    BY <1>1, <1>7, <1>8
  <2>2. \A j, k \in DOMAIN q : j < k => f[j] < f[k]
    BY <1>1, <1>7, <1>8
  <2>3. \A j \in DOMAIN q : f[j] # i /\ q[j] = p[f[j]]
    BY <1>1, <1>6, <1>7, <1>8
  <2>4. QED BY <1>9, <2>1, <2>2, <2>3 DEF Places
<1>11. QED BY <1>5, <1>10 DEF q

-----------------------------------------------------------------------------
(* CardPage: the invariant.                                                *)

ListSteps == {<<"insert", "added", "order">>, <<"added", "order">>,
              <<"duplicate", "copied", "order">>, <<"copied", "order">>, <<"order">>}
OtherSteps == {<<"insert", "added">>, <<"added">>, <<"duplicate", "copied">>, <<"copied">>, <<"delete", "close">>,
               <<"close">>, <<"delete">>, <<"unorder", "close", "delete">>, <<"close", "delete">>, <<"unorder", "close">>}
Rows == [board : Boards, to : Views \cup {NoView}, template : BOOLEAN, titled : BOOLEAN, live : BOOLEAN]
Addresses == [board : Boards, view : Views \cup {NoView}, card : Nat]
Scripts == [todo : ListSteps \cup OtherSteps, card : Nat, template : BOOLEAN, show : BOOLEAN, list : BOOLEAN,
            at : Addresses, hadSelection : BOOLEAN, base : Seq(Nat), new : Nat]
AllNews == [view : Views \cup {NoView}, card : Nat, order : Seq(Nat), live : BOOLEAN]

\* An order with cards there are, or the empty id of a copy that failed.
Numbers(q) == q \in Seq(Nat) /\ \A c \in ToSet(q) : c <= Len(rows)
IsAddress(p) ==
    /\ p \in Addresses /\ p.card <= Len(rows)
    /\ IF p.view = NoView THEN p.card = NoCard ELSE BoardOf[p.view] = p.board
IsScript(s) ==
    /\ s \in Scripts /\ (s.list => s.todo \in ListSteps) /\ (~s.list => s.todo \in OtherSteps)
    /\ IsAddress(s.at) /\ s.at.view \in Views
    /\ Numbers(s.base) /\ s.new <= Len(rows)
    /\ Contains(s.todo, "delete") \/ Head(s.todo) = "duplicate" => s.card \in Ids
    /\ Head(s.todo) \in {"added", "copied"} => s.new \in Ids /\ rows[s.new].board = s.at.board
    /\ s.list => /\ s.new # NoCard => rows[s.new].to = s.at.view
                 /\ Head(s.todo) \in {"insert", "duplicate"} => s.new = NoCard
IsNews(n) == /\ n \in AllNews /\ Numbers(n.order)
             /\ IF n.view = NoView THEN n.card \in Ids ELSE n.card = NoCard

StoreTyped ==
    /\ IsAddress(page) /\ stored \subseteq Ids
    /\ orders \in [Views -> Seq(Nat)] /\ \A v \in Views : Numbers(orders[v])
ListsTyped == orderRows \in [Views -> Seq(Nat)] /\ \A v \in Views : Numbers(orderRows[v])
ScriptsTyped == scripts \in Seq(Scripts) /\ \A i \in DOMAIN scripts : IsScript(scripts[i])
NewsTyped == news \in Seq(AllNews) /\ \A k \in DOMAIN news : IsNews(news[k])
IsAddition(s) == s \in Scripts /\ IsAddress(s.at) /\ s.at.view \in Views /\ Numbers(s.base) /\ s.new <= Len(rows)
AddedTyped == added \in Seq(Scripts) /\ (added # <<>> => IsAddition(added[1]))
PageTyped == rows \in Seq(Rows) /\ StoreTyped /\ ListsTyped /\ ScriptsTyped /\ NewsTyped /\ AddedTyped

\* What is told is so, or told again later.
OfSame(m, n) == m.view = n.view /\ m.card = n.card
IsTrue(n) == IF n.view = NoView THEN n.live = rows[n.card].live ELSE n.order = orderRows[n.view]
NewsAreTrue == \A k \in DOMAIN news : \E m \in DOMAIN news : m >= k /\ OfSame(news[m], news[k]) /\ IsTrue(news[m])

\* The page differs from the server only in what news or an addition will bring.
CardComes(c) == \E k \in DOMAIN news : news[k].view = NoView /\ news[k].card = c
CardsAreTrue ==
    "doomed" \notin mishaps =>
        \A c \in Ids : rows[c].board = page.board => (c \in stored <=> rows[c].live) \/ CardComes(c)
OrderComes(v) == \E k \in DOMAIN news : news[k].view = v
ShowsAdded(s, v) == s.list /\ s.at.view = v /\ orders[v] = Append(s.base, s.new)
Writes(s, v) == ShowsAdded(s, v) /\ Head(s.todo) = "order"
OrderIsTrue(v) ==
    \/ orders[v] = orderRows[v] \/ OrderComes(v) \/ \E i \in DOMAIN scripts : Writes(scripts[i], v)
    \/ \E s \in missed : ShowsAdded(s, v)
\* The page has what the order of a view has, or it will be told.
SeesOrder(v) == OrderComes(v) \/ ToSet(orderRows[v]) \subseteq ToSet(orders[v])
AddedSlips == {"blind", "crossed", "another", "blank", "undone"}
OrdersAreTrue ==
    \A v \in Views : BoardOf[v] = page.board => OrderIsTrue(v) /\ (mishaps \cap AddedSlips = {} => SeesOrder(v))

\* The open card is there, or it is about to be closed.
Deletes(s, c) == s.card = c /\ Contains(s.todo, "delete")
OpenIsThere ==
    mishaps \cap {"doomed", "another"} = {} /\ page.card # NoCard =>
        /\ rows[page.card].board = page.board
        /\ \A i \in DOMAIN scripts : Deletes(scripts[i], page.card) => Head(scripts[i].todo) = "delete" /\ Len(scripts[i].todo) = 2
        /\ rows[page.card].live \/ \E i \in DOMAIN scripts : Head(scripts[i].todo) = "close"

\* Who writes an order knows what it says already, and what is about to be added.
NoBlank(q) == NoCard \notin ToSet(q)
Knows(q, s) == s.new \in ToSet(q) => ToSet(s.base) \subseteq ToSet(q)
AddsWell(s) ==
    s.list =>
        /\ Head(s.todo) = "order" => s.new \in Ids
        /\ s.new \notin ToSet(s.base)
        /\ ToSet(orderRows[s.at.view]) \subseteq ToSet(s.base)
        /\ Knows(orders[s.at.view], s)
        /\ \A k \in DOMAIN news : news[k].view = s.at.view => Knows(news[k].order, s)
        /\ s.show /\ Head(s.todo) = "order" /\ "older" \notin mishaps => s.new \in ToSet(orders[s.at.view])
InTurn(s, t) ==
    s.list /\ t.list /\ s.at.view = t.at.view =>
        /\ Head(s.todo) = "order"
        /\ s.new \in ToSet(t.base) /\ ToSet(s.base) \subseteq ToSet(t.base)
        /\ t.new \notin ToSet(s.base) \cup {s.new}
\* An undo that has put the order back, and one that will.
Unadds(s, c) == Deletes(s, c) /\ s.new = c /\ Head(s.todo) # "unorder"
Misses(c) == \E s \in missed : s.new = c
Undoes(s) == Head(s.todo) = "unorder" => s.card = s.new /\ (Contains(s.todo, "delete") \/ Misses(s.new))
IsListed(c) ==
    rows[c].live /\ rows[c].to # NoView =>
        \/ c \in ToSet(orderRows[rows[c].to])
        \/ \E i \in DOMAIN scripts : scripts[i].list /\ scripts[i].new = c
        \/ \E i \in DOMAIN scripts : Unadds(scripts[i], c)
        \/ Misses(c)
NoBlanks ==
    /\ \A v \in Views : NoBlank(orders[v]) /\ NoBlank(orderRows[v])
    /\ \A k \in DOMAIN news : NoBlank(news[k].order)
    /\ \A i \in DOMAIN scripts : NoBlank(scripts[i].base)
    /\ added # <<>> => NoBlank(added[1].base)
AllAddWell == \A i \in DOMAIN scripts : AddsWell(scripts[i])
AllInTurn == \A i, j \in DOMAIN scripts : i < j => InTurn(scripts[i], scripts[j])
UndoneAlone ==
    \A i \in DOMAIN scripts :
        Undoes(scripts[i]) /\ (Head(scripts[i].todo) = "unorder" => \A j \in DOMAIN scripts : ~scripts[j].list)
AllListed ==
    mishaps \cap AddedSlips = {} =>
        (\A c \in Ids : IsListed(c)) /\ NoBlanks /\ AllAddWell /\ AllInTurn /\ UndoneAlone
PageInv == PageTyped /\ NewsAreTrue /\ CardsAreTrue /\ OrdersAreTrue /\ OpenIsThere /\ AllListed

-----------------------------------------------------------------------------
(* CardPage: steps of scripts.                                             *)

LEMMA ListStepsAre ==
    ASSUME NEW q \in ListSteps
    PROVE  /\ Len(q) \in 1 .. 3 /\ ~Contains(q, "delete")
           /\ Head(q) \in {"insert", "duplicate", "added", "copied", "order"}
           /\ Len(q) = 1 <=> Head(q) = "order"
           /\ Len(q) # 1 => Tail(q) \in ListSteps
           /\ Head(q) \in {"insert", "duplicate"} => Head(Tail(q)) \in {"added", "copied"}
           /\ Head(q) \in {"added", "copied"} => Head(Tail(q)) = "order"
<1>1. CASE q = <<"insert", "added", "order">>
  BY <1>1 DEF ListSteps, Contains
<1>2. CASE q = <<"added", "order">>
  BY <1>2 DEF ListSteps, Contains
<1>3. CASE q = <<"duplicate", "copied", "order">>
  BY <1>3 DEF ListSteps, Contains
<1>4. CASE q = <<"copied", "order">>
  BY <1>4 DEF ListSteps, Contains
<1>5. CASE q = <<"order">>
  BY <1>5 DEF ListSteps, Contains
<1>6. QED BY <1>1, <1>2, <1>3, <1>4, <1>5 DEF ListSteps

LEMMA OtherStepsAre ==
    ASSUME NEW q \in OtherSteps
    PROVE  /\ Len(q) \in 1 .. 3
           /\ Head(q) \in {"insert", "duplicate", "added", "copied", "delete", "close", "unorder"}
           /\ Len(q) # 1 => /\ Tail(q) \in OtherSteps /\ Head(Tail(q)) # "unorder"
                            /\ Contains(Tail(q), "delete") <=> Contains(q, "delete") /\ Head(q) # "delete"
           /\ Contains(q, "delete") => Head(q) = "delete" \/ (Len(q) # 1 /\ Head(q) \in {"close", "unorder"})
           /\ Head(q) = "delete" => Contains(q, "delete")
           /\ Head(q) = "unorder" => Len(q) # 1 /\ Head(Tail(q)) = "close"
           /\ Head(q) = "close" /\ Len(q) # 1 => Head(Tail(q)) = "delete"
           /\ Head(q) = "delete" /\ Len(q) # 1 => Len(q) = 2 /\ Head(Tail(q)) = "close"
           /\ Head(q) \in {"insert", "duplicate"} => Len(q) = 2 /\ Head(Tail(q)) \in {"added", "copied"}
           /\ Head(q) \in {"added", "copied"} => Len(q) = 1
<1>1. CASE q = <<"insert", "added">>
  BY <1>1 DEF OtherSteps, Contains
<1>2. CASE q = <<"added">>
  BY <1>2 DEF OtherSteps, Contains
<1>3. CASE q = <<"duplicate", "copied">>
  BY <1>3 DEF OtherSteps, Contains
<1>4. CASE q = <<"copied">>
  BY <1>4 DEF OtherSteps, Contains
<1>5. CASE q = <<"delete", "close">>
  BY <1>5 DEF OtherSteps, Contains
<1>6. CASE q = <<"close">>
  BY <1>6 DEF OtherSteps, Contains
<1>7. CASE q = <<"delete">>
  BY <1>7 DEF OtherSteps, Contains
<1>8. CASE q = <<"unorder", "close", "delete">>
  BY <1>8 DEF OtherSteps, Contains
<1>9. CASE q = <<"close", "delete">>
  BY <1>9 DEF OtherSteps, Contains
<1>10. CASE q = <<"unorder", "close">>
  BY <1>10 DEF OtherSteps, Contains
<1>11. QED BY <1>1, <1>2, <1>3, <1>4, <1>5, <1>6, <1>7, <1>8, <1>9, <1>10 DEF OtherSteps

\* The i-th script becomes one of T, or it ends.
Rest(i) == DOMAIN scripts \ {i}
Become(i, T) ==
    /\ scripts' \in Seq(Scripts)
    /\ \A j \in DOMAIN scripts' : scripts'[j] \in T \/ \E m \in Rest(i) : scripts'[j] = scripts[m]
    /\ \A m \in Rest(i) : \E j \in DOMAIN scripts' : scripts'[j] = scripts[m]
    /\ \A t \in T : \E j \in DOMAIN scripts' : scripts'[j] = t
    /\ \A j, k \in DOMAIN scripts' : j < k =>
          \/ \E m, n \in Rest(i) : m < n /\ scripts'[j] = scripts[m] /\ scripts'[k] = scripts[n]
          \/ scripts'[j] \in T /\ \E n \in Rest(i) : i < n /\ scripts'[k] = scripts[n]
          \/ scripts'[k] \in T /\ \E m \in Rest(i) : m < i /\ scripts'[j] = scripts[m]

LEMMA Becomes ==
    ASSUME scripts \in Seq(Scripts), scripts' \in Seq(Scripts), NEW i \in DOMAIN scripts, NEW t, NEW T, NEW f,
           Places(scripts', scripts, i, t, f), T \subseteq {t}, (\E j \in DOMAIN scripts' : f[j] = i) => t \in T,
           t \in T => \E j \in DOMAIN scripts' : f[j] = i
    PROVE  Become(i, T)
<1>1. /\ \A j \in DOMAIN scripts' : f[j] \in DOMAIN scripts /\ scripts'[j] = IF f[j] = i THEN t ELSE scripts[f[j]]
      /\ \A j, k \in DOMAIN scripts' : j < k => f[j] < f[k]
      /\ \A m \in Rest(i) : \E j \in DOMAIN scripts' : f[j] = m
  BY DEF Places, Rest
<1>2. \A j \in DOMAIN scripts' : \/ f[j] = i /\ scripts'[j] \in T
                                 \/ f[j] \in Rest(i) /\ scripts'[j] = scripts[f[j]]
  BY <1>1 DEF Rest
<1>3. \A m \in Rest(i) : \E j \in DOMAIN scripts' : scripts'[j] = scripts[m]
  BY <1>1 DEF Rest
<1>4. \A u \in T : \E j \in DOMAIN scripts' : scripts'[j] = u
  BY <1>1
<1>5. i \notin Rest(i)
  BY DEF Rest
<1>6. ASSUME NEW j \in DOMAIN scripts', NEW k \in DOMAIN scripts', j < k
      PROVE  \/ \E m, n \in Rest(i) : m < n /\ scripts'[j] = scripts[m] /\ scripts'[k] = scripts[n]
             \/ scripts'[j] \in T /\ \E n \in Rest(i) : i < n /\ scripts'[k] = scripts[n]
             \/ scripts'[k] \in T /\ \E m \in Rest(i) : m < i /\ scripts'[j] = scripts[m]
  <2>1. f[j] < f[k] /\ i \in Int
    BY <1>1, <1>6
  <2>2. ~(f[j] = i /\ f[k] = i)
    BY <2>1
  <2>3. QED BY <1>2, <2>1, <2>2
<1>7. QED BY <1>2, <1>3, <1>4, <1>6 DEF Become

LEMMA DropIs == ASSUME PageTyped, NEW i \in DOMAIN scripts, scripts' = Drop(i) PROVE Become(i, {})
<1>1. scripts \in Seq(Scripts)
  BY DEF PageTyped, ScriptsTyped
<1>2. RemoveAt(scripts, i) \in Seq(Scripts)
      /\ \E f : Places(RemoveAt(scripts, i), scripts, i, 0, f) /\ \A j \in DOMAIN RemoveAt(scripts, i) : f[j] # i
  BY <1>1, Removes
<1>3. PICK f : Places(scripts', scripts, i, 0, f) /\ \A j \in DOMAIN scripts' : f[j] # i
  BY <1>2 DEF Drop
<1>4. scripts' \in Seq(Scripts)
  BY <1>2 DEF Drop
<1>5. 0 \notin {} /\ {} \subseteq {0}
  OBVIOUS
<1>6. QED BY <1>1, <1>3, <1>4, <1>5, Becomes, SMTT(40)
LEMMA PutIs ==
    ASSUME scripts \in Seq(Scripts), NEW i \in DOMAIN scripts, NEW t \in Scripts, scripts' = [scripts EXCEPT ![i] = t]
    PROVE  Become(i, {t})
<1>1. scripts' \in Seq(Scripts) /\ DOMAIN scripts' = DOMAIN scripts
  OBVIOUS
<1>2. scripts'[i] = t /\ \A j \in DOMAIN scripts \ {i} : scripts'[j] = scripts[j]
  OBVIOUS
<1>3. \E f : Places(scripts', scripts, i, t, f) /\ \E j \in DOMAIN scripts' : f[j] = i
  BY ONLY scripts \in Seq(Scripts), i \in DOMAIN scripts, t \in Scripts, <1>1, <1>2, Replaces
<1>4. PICK f : Places(scripts', scripts, i, t, f) /\ \E j \in DOMAIN scripts' : f[j] = i
  BY <1>3
<1>5. QED BY <1>1, <1>4, Becomes

\* A script goes on, with what it learnt.
Further(s) == [s EXCEPT !.todo = Tail(@)]
LEMMA DoneIs ==
    ASSUME PageTyped, NEW i \in DOMAIN scripts, NEW s \in Scripts, scripts' = Done(i, s)
    PROVE  /\ Len(s.todo) = 1 => Become(i, {})
           /\ Len(s.todo) # 1 /\ Further(s) \in Scripts => Become(i, {Further(s)})
<1>1. scripts \in Seq(Scripts)
  BY DEF PageTyped, ScriptsTyped
<1>2. CASE Len(s.todo) = 1
  BY <1>2, DropIs DEF Done
<1>3. CASE Len(s.todo) # 1 /\ Further(s) \in Scripts
  <2>1. scripts' = [scripts EXCEPT ![i] = Further(s)]
    BY <1>3 DEF Done, Further
  <2>2. PICK t : t = Further(s) /\ t \in Scripts
    BY <1>3
  <2>3. scripts' = [scripts EXCEPT ![i] = t]
    BY <2>1, <2>2
  <2>4. Become(i, {t})
    BY <1>1, <2>2, <2>3, PutIs
  <2>5. QED BY <1>3, <2>2, <2>4
<1>4. QED BY <1>2, <1>3

-----------------------------------------------------------------------------
(* CardPage: what stays as it is when the server goes on.                  *)

RowsKeep ==
    /\ rows' \in Seq(Rows) /\ Len(rows) <= Len(rows)'
    /\ \A c \in Ids : rows'[c].board = rows[c].board /\ rows'[c].to = rows[c].to
LEMMA StillTyped ==
    ASSUME PageTyped, RowsKeep
    PROVE  /\ Ids \subseteq Ids' /\ \A p : IsAddress(p) => IsAddress(p)'
           /\ \A q : Numbers(q) => Numbers(q)'
           /\ \A s : IsScript(s) => IsScript(s)'
           /\ \A s : IsAddition(s) => IsAddition(s)'
           /\ \A n : IsNews(n) => IsNews(n)'
<1>1. rows \in Seq(Rows) /\ rows' \in Seq(Rows) /\ Len(rows) \in Nat /\ Len(rows)' \in Nat /\ Len(rows) <= Len(rows)'
  BY DEF PageTyped, RowsKeep
<1>2. Ids = 1 .. Len(rows) /\ Ids' = 1 .. Len(rows)'
  BY <1>1 DEF Ids
<1>3. Ids \subseteq Ids'
  BY <1>1, <1>2
<1>4. \A c \in Nat : c <= Len(rows) => c <= Len(rows)'
  BY <1>1
<1>5. ASSUME NEW q, Numbers(q) PROVE Numbers(q)'
  <2>1. \A c \in ToSet(q) : c \in Nat
    BY <1>5 DEF Numbers, ToSet
  <2>2. QED BY <1>4, <1>5, <2>1 DEF Numbers
<1>6. ASSUME NEW p, IsAddress(p) PROVE IsAddress(p)'
  <2>1. p.card \in Nat
    BY <1>6 DEF IsAddress, Addresses
  <2>2. QED BY <1>4, <1>6, <2>1 DEF IsAddress
<1>7. ASSUME NEW s, IsScript(s) PROVE IsScript(s)'
  <2>1. s.new \in Nat /\ s.new <= Len(rows) /\ s.new <= Len(rows)'
    BY <1>4, <1>7 DEF IsScript, Scripts
  <2>2. s.new # NoCard => s.new \in Ids
    BY <1>1, <1>2, <2>1 DEF NoCard
  <2>3. IsAddress(s.at)' /\ Numbers(s.base)'
    BY <1>5, <1>6, <1>7 DEF IsScript
  <2>4. \A c \in Ids : rows'[c].board = rows[c].board /\ rows'[c].to = rows[c].to
    BY DEF RowsKeep
  <2> HIDE DEF Ids
  <2>5. QED BY <1>3, <1>7, <2>1, <2>2, <2>3, <2>4 DEF IsScript
<1>8. ASSUME NEW n, IsNews(n) PROVE IsNews(n)'
  BY <1>3, <1>5, <1>8 DEF IsNews
<1>9. ASSUME NEW s, IsAddition(s) PROVE IsAddition(s)'
  <2>1. s.new \in Nat /\ s.new <= Len(rows) /\ s.new <= Len(rows)'
    BY <1>4, <1>9 DEF IsAddition, Scripts
  <2>2. IsAddress(s.at)' /\ Numbers(s.base)'
    BY <1>5, <1>6, <1>9 DEF IsAddition
  <2>3. QED BY <1>9, <2>1, <2>2 DEF IsAddition
<1>10. QED BY <1>3, <1>5, <1>6, <1>7, <1>8, <1>9

\* The server tells something.
Comes(n) ==
    /\ news' \in Seq(AllNews)
    /\ \A k \in DOMAIN news : k \in DOMAIN news' /\ news'[k] = news[k]
    /\ \E k \in DOMAIN news' : news'[k] = n
    /\ \A k \in DOMAIN news' : news'[k] = n \/ \E m \in DOMAIN news : news'[k] = news[m]
\* IsTrue after the step.
TrueThen(n) == IF n.view = NoView THEN n.live = rows'[n.card].live ELSE n.order = orderRows'[n.view]
LEMMA NewsCome ==
    ASSUME PageTyped, NewsAreTrue, NEW n \in AllNews, news' = Append(news, n), TrueThen(n),
           \A x \in AllNews : IsNews(x) /\ IsTrue(x) /\ ~OfSame(n, x) => TrueThen(x)
    PROVE  NewsAreTrue' /\ Comes(n)
<1>1. news \in Seq(AllNews) /\ \A k \in DOMAIN news : IsNews(news[k]) /\ news[k] \in AllNews
  BY DEF PageTyped, NewsTyped, IsNews
<1>2. /\ news' \in Seq(AllNews) /\ DOMAIN news = 1 .. Len(news) /\ DOMAIN news' = 1 .. Len(news) + 1 /\ Len(news) \in Nat
      /\ \A k \in 1 .. Len(news) : news'[k] = news[k]
      /\ news'[Len(news) + 1] = n
  BY <1>1
<1>3. Comes(n)
  BY <1>2 DEF Comes
<1>4. ASSUME NEW k \in DOMAIN news'
      PROVE  \E m \in DOMAIN news' : m >= k /\ OfSame(news'[m], news'[k]) /\ TrueThen(news'[m])
  <2>1. Len(news) + 1 \in DOMAIN news' /\ Len(news) + 1 >= k
    BY <1>2
  <2>2. CASE OfSame(n, news'[k])
    <3>1. OfSame(news'[Len(news) + 1], news'[k]) /\ TrueThen(news'[Len(news) + 1])
      BY <1>2, <2>2
    <3>2. QED BY <2>1, <3>1
  <2>3. CASE ~OfSame(n, news'[k])
    <3>1. k \in DOMAIN news /\ news'[k] = news[k]
      BY <1>2, <2>3 DEF OfSame
    <3>2. PICK m \in DOMAIN news : m >= k /\ OfSame(news[m], news[k]) /\ IsTrue(news[m])
      BY <3>1 DEF NewsAreTrue
    <3>3. ~OfSame(n, news[m])
      BY <2>3, <3>1, <3>2 DEF OfSame
    <3>4. TrueThen(news[m])
      BY <1>1, <3>2, <3>3
    <3>5. news'[m] = news[m] /\ m \in DOMAIN news'
      BY <1>2, <3>2
    <3>6. OfSame(news'[m], news'[k]) /\ TrueThen(news'[m])
      BY <3>1, <3>2, <3>4, <3>5
    <3>7. QED BY <3>2, <3>5, <3>6
  <2>4. QED BY <2>2, <2>3
<1>5. NewsAreTrue'
  BY <1>4 DEF NewsAreTrue, IsTrue, OfSame, TrueThen
<1>6. QED BY <1>3, <1>5
LEMMA NewsStay ==
    ASSUME PageTyped, NewsAreTrue, news' = news, \A x \in AllNews : IsNews(x) /\ IsTrue(x) => TrueThen(x)
    PROVE  NewsAreTrue'
<1>1. \A k \in DOMAIN news : news[k] \in AllNews /\ IsNews(news[k])
  BY DEF PageTyped, NewsTyped, IsNews
<1>2. \A k \in DOMAIN news : \E m \in DOMAIN news : m >= k /\ OfSame(news[m], news[k]) /\ TrueThen(news[m])
  BY <1>1 DEF NewsAreTrue
<1>3. QED BY <1>2 DEF NewsAreTrue, IsTrue, OfSame, TrueThen
LEMMA PartsStay ==
    ASSUME PageTyped, RowsKeep
    PROVE  /\ UNCHANGED <<page, stored, orders>> => StoreTyped'
           /\ UNCHANGED orderRows => ListsTyped'
           /\ UNCHANGED scripts => ScriptsTyped'
           /\ UNCHANGED news => NewsTyped'
           /\ UNCHANGED added => AddedTyped'
<1>1. /\ Ids \subseteq Ids' /\ \A p : IsAddress(p) => IsAddress(p)'
      /\ \A q : Numbers(q) => Numbers(q)'
      /\ \A s : IsScript(s) => IsScript(s)'
      /\ \A n : IsNews(n) => IsNews(n)'
  BY StillTyped
<1>2. ASSUME UNCHANGED <<page, stored, orders>> PROVE StoreTyped'
  <2>1. IsAddress(page)'
    <3>1. PICK p : p = page /\ p = page'
      BY <1>2
    <3>2. IsAddress(p)'
      BY <1>1, <3>1 DEF PageTyped, StoreTyped
    <3>3. QED BY <3>1, <3>2 DEF IsAddress
  <2>2. (\A v \in Views : Numbers(orders[v]))'
    <3>1. \A v \in Views : \E q : q = orders[v] /\ q = orders'[v] /\ Numbers(q)'
      BY <1>1, <1>2 DEF PageTyped, StoreTyped
    <3>2. QED BY <3>1 DEF Numbers
  <2>3. QED BY <1>1, <1>2, <2>1, <2>2 DEF PageTyped, StoreTyped
<1>3. ASSUME UNCHANGED orderRows PROVE ListsTyped'
  <2>1. \A v \in Views : \E q : q = orderRows[v] /\ q = orderRows'[v] /\ Numbers(q)'
    BY <1>1, <1>3 DEF PageTyped, ListsTyped
  <2>2. QED BY <1>3, <2>1 DEF PageTyped, ListsTyped, Numbers
<1>4. ASSUME UNCHANGED scripts PROVE ScriptsTyped'
  <2>1. \A i \in DOMAIN scripts' : \E s : s = scripts'[i] /\ IsScript(s)'
    BY <1>1, <1>4 DEF PageTyped, ScriptsTyped
  <2>2. QED BY <1>4, <2>1 DEF PageTyped, ScriptsTyped, IsScript
<1>5. ASSUME UNCHANGED news PROVE NewsTyped'
  <2>1. \A k \in DOMAIN news' : \E n : n = news'[k] /\ IsNews(n)'
    BY <1>1, <1>5 DEF PageTyped, NewsTyped
  <2>2. QED BY <1>5, <2>1 DEF PageTyped, NewsTyped, IsNews
<1>6. ASSUME UNCHANGED added PROVE AddedTyped'
  <2>1. ASSUME added # <<>> PROVE IsAddition(added[1])'
    <3>1. PICK s : s = added[1] /\ s = added'[1] /\ IsAddition(s)
      BY <1>6, <2>1 DEF PageTyped, AddedTyped
    <3>2. IsAddition(s)'
      BY <3>1, StillTyped
    <3>3. QED BY <3>1, <3>2 DEF IsAddition
  <2>2. QED BY <1>6, <2>1 DEF PageTyped, AddedTyped
<1>7. QED BY <1>2, <1>3, <1>4, <1>5, <1>6
LEMMA ScriptsStayTyped ==
    ASSUME PageTyped, RowsKeep, NEW i \in DOMAIN scripts, NEW T, Become(i, T), \A t \in T : IsScript(t)'
    PROVE  ScriptsTyped'
<1>1. \A j \in DOMAIN scripts' : \E s : s = scripts'[j] /\ IsScript(s)'
  BY StillTyped DEF Become, Rest, PageTyped, ScriptsTyped
<1>2. QED BY <1>1 DEF Become, ScriptsTyped, IsScript
LEMMA NewsStayTyped == ASSUME PageTyped, RowsKeep, NEW n, Comes(n), IsNews(n)' PROVE NewsTyped'
<1>1. \A k \in DOMAIN news' : \E m : m = news'[k] /\ IsNews(m)'
  BY StillTyped DEF Comes, PageTyped, NewsTyped
<1>2. QED BY <1>1 DEF Comes, NewsTyped, IsNews

\* The page and the store stay as they are.
LEMMA CardsStayTrue ==
    ASSUME CardsAreTrue, RowsKeep, UNCHANGED <<page, stored>>, mishaps \subseteq mishaps',
           \A k \in DOMAIN news : \E m \in DOMAIN news' : news'[m] = news[k],
           \A c \in Ids' : \/ c \in Ids /\ (rows'[c].live <=> rows[c].live)
                           \/ \E m \in DOMAIN news' : news'[m].view = NoView /\ news'[m].card = c
    PROVE  CardsAreTrue'
<1>1. SUFFICES ASSUME "doomed" \notin mishaps', NEW c \in Ids', rows'[c].board = page.board, c \in Ids,
                      rows'[c].live <=> rows[c].live
               PROVE  (c \in stored <=> rows'[c].live) \/ CardComes(c)'
  BY DEF CardsAreTrue, CardComes
<1>2. (c \in stored <=> rows[c].live) \/ CardComes(c)
  BY <1>1 DEF CardsAreTrue, RowsKeep
<1>3. CardComes(c) => CardComes(c)'
  BY DEF CardComes
<1>4. QED BY <1>1, <1>2, <1>3
LEMMA OrdersStayTrue ==
    ASSUME OrdersAreTrue, UNCHANGED <<page, orders>>, mishaps \subseteq mishaps', missed \subseteq missed',
           \A k \in DOMAIN news : \E m \in DOMAIN news' : news'[m] = news[k],
           \A v \in Views : \/ orderRows'[v] = orderRows[v]
                            \/ \E m \in DOMAIN news' : news'[m].view = v,
           \A i \in DOMAIN scripts : \A v \in Views : Writes(scripts[i], v) =>
               \/ \E j \in DOMAIN scripts' : Writes(scripts'[j], v)
               \/ \E m \in DOMAIN news' : news'[m].view = v
               \/ \E t \in missed' : ShowsAdded(t, v)
    PROVE  OrdersAreTrue'
<1>1. \A v \in Views : OrderComes(v) => OrderComes(v)'
  BY DEF OrderComes
<1>2. \A t : \A v \in Views : (ShowsAdded(t, v) <=> ShowsAdded(t, v)') /\ (Writes(t, v) <=> Writes(t, v)')
  BY DEF ShowsAdded, Writes
<1>3. ASSUME NEW v \in Views, BoardOf[v] = page.board
      PROVE  OrderIsTrue(v)' /\ (mishaps' \cap AddedSlips = {} => SeesOrder(v)')
  <2>1. OrderIsTrue(v) /\ (mishaps \cap AddedSlips = {} => SeesOrder(v))
    BY <1>3 DEF OrdersAreTrue
  <2>2. CASE orderRows'[v] # orderRows[v] \/ OrderComes(v)
    <3>1. OrderComes(v)'
      BY <1>1, <1>3, <2>2 DEF OrderComes
    <3>2. QED BY <3>1 DEF OrderIsTrue, SeesOrder
  <2>3. CASE orderRows'[v] = orderRows[v] /\ ~OrderComes(v)
    <3>1. mishaps' \cap AddedSlips = {} => SeesOrder(v)'
      BY <2>1, <2>3 DEF SeesOrder
    <3>2. CASE orders[v] = orderRows[v]
      BY <2>3, <3>1, <3>2 DEF OrderIsTrue
    <3>3. CASE \E i \in DOMAIN scripts : Writes(scripts[i], v)
      <4>1. \/ \E j \in DOMAIN scripts' : Writes(scripts'[j], v)
            \/ \E m \in DOMAIN news' : news'[m].view = v
            \/ \E t \in missed' : ShowsAdded(t, v)
        BY <1>3, <3>3
      <4>2. (\E j \in DOMAIN scripts' : Writes(scripts'[j], v)) => OrderIsTrue(v)'
        BY <1>3 DEF OrderIsTrue, ShowsAdded, Writes
      <4>3. (\E m \in DOMAIN news' : news'[m].view = v) => OrderIsTrue(v)'
        BY DEF OrderIsTrue, OrderComes
      <4>4. (\E t \in missed' : ShowsAdded(t, v)) => OrderIsTrue(v)'
        BY DEF OrderIsTrue, ShowsAdded
      <4>5. QED BY <3>1, <4>1, <4>2, <4>3, <4>4
    <3>4. CASE \E t \in missed : ShowsAdded(t, v)
      <4>1. OrderIsTrue(v)'
        BY <3>4 DEF OrderIsTrue, ShowsAdded
      <4>2. QED BY <3>1, <4>1
    <3>5. QED BY <2>1, <2>3, <3>2, <3>3, <3>4 DEF OrderIsTrue
  <2>4. QED BY <2>2, <2>3
<1>4. QED BY <1>3 DEF OrdersAreTrue
LEMMA OpenStaysThere ==
    ASSUME PageTyped, OpenIsThere, RowsKeep, UNCHANGED page, mishaps \subseteq mishaps',
           \A c \in Ids : rows'[c].live <=> rows[c].live,
           NEW i \in DOMAIN scripts, NEW T, Become(i, T), Head(scripts[i].todo) # "close",
           \A t \in T : Deletes(t, page.card) => /\ Deletes(scripts[i], page.card)
                                               /\ (t.todo = scripts[i].todo \/ Head(scripts[i].todo) # "delete")
    PROVE  OpenIsThere'
<1>1. SUFFICES ASSUME mishaps' \cap {"doomed", "another"} = {}, page.card # NoCard
      PROVE  /\ rows'[page.card].board = page.board
             /\ \A j \in DOMAIN scripts' : Deletes(scripts'[j], page.card) => Head(scripts'[j].todo) = "delete" /\ Len(scripts'[j].todo) = 2
             /\ rows'[page.card].live \/ \E j \in DOMAIN scripts' : Head(scripts'[j].todo) = "close"
  BY DEF OpenIsThere, Deletes
<1>2. page.card \in Ids
  BY <1>1 DEF PageTyped, StoreTyped, IsAddress, Addresses, Ids, NoCard
<1>3. /\ rows[page.card].board = page.board
      /\ \A j \in DOMAIN scripts : Deletes(scripts[j], page.card) => Head(scripts[j].todo) = "delete" /\ Len(scripts[j].todo) = 2
      /\ rows[page.card].live \/ \E j \in DOMAIN scripts : Head(scripts[j].todo) = "close"
  BY <1>1 DEF OpenIsThere
<1>4. rows'[page.card].board = page.board
  BY <1>2, <1>3 DEF RowsKeep
<1>5. \A j \in DOMAIN scripts' : Deletes(scripts'[j], page.card) => Head(scripts'[j].todo) = "delete" /\ Len(scripts'[j].todo) = 2
  BY <1>3 DEF Become, Rest
<1>6. rows'[page.card].live \/ \E j \in DOMAIN scripts' : Head(scripts'[j].todo) = "close"
  BY <1>2, <1>3 DEF Become, Rest
<1>7. QED BY <1>4, <1>5, <1>6

-----------------------------------------------------------------------------
(* CardPage: what the server does.                                         *)

Steps3 == ListSteps \cup OtherSteps
LEMMA ScriptIs ==
    ASSUME PageTyped, NEW i \in DOMAIN scripts
    PROVE  /\ IsScript(scripts[i]) /\ scripts[i] \in Scripts /\ scripts[i].list \in BOOLEAN
           /\ scripts[i].card \in Nat /\ scripts[i].new \in Nat /\ scripts[i].at.view \in Views
           /\ scripts[i].list => scripts[i].todo \in ListSteps
           /\ ~scripts[i].list => scripts[i].todo \in OtherSteps
<1>1. IsScript(scripts[i])
  BY DEF PageTyped, ScriptsTyped
<1>2. QED BY <1>1 DEF IsScript, Scripts
LEMMA FurtherIs ==
    ASSUME NEW s \in Scripts, Tail(s.todo) \in Steps3
    PROVE  /\ Further(s) \in Scripts /\ Further(s).todo = Tail(s.todo) /\ Further(s).card = s.card
           /\ Further(s).show = s.show /\ Further(s).list = s.list /\ Further(s).at = s.at
           /\ Further(s).base = s.base /\ Further(s).new = s.new
BY DEF Further, Scripts, Steps3
LEMMA LearnsIs ==
    ASSUME NEW s \in Scripts, NEW c \in Nat, NEW r, r = [s EXCEPT !.new = c]
    PROVE  /\ r \in Scripts /\ r.todo = s.todo /\ r.card = s.card
           /\ r.show = s.show /\ r.list = s.list /\ r.at = s.at /\ r.base = s.base /\ r.new = c
BY DEF Scripts

-----------------------------------------------------------------------------
(* CardPage: what the server does with each request.                       *)

LEMMA ViewsAre == NoView \notin Views
BY CardPageAssumption DEF NoView

\* insertBlock and duplicateBlock: there is a new card, and its script goes on, or
\* it ends and is missed.
CardCame(i, s, T, t, c, n) ==
    /\ i \in DOMAIN scripts /\ s = scripts[i] /\ Head(s.todo) \in {"insert", "duplicate"}
    /\ c \notin Ids /\ c \in Nat /\ c # NoCard /\ Len(rows)' = c /\ Len(rows) < c /\ Ids' = Ids \cup {c}
    /\ rows'[c].board = s.at.board /\ rows'[c].live /\ rows'[c].to = IF s.list THEN s.at.view ELSE NoView
    /\ RowsKeep /\ \A d \in Ids : rows'[d] = rows[d]
    /\ Become(i, T) /\ T \subseteq {t} /\ (T = {} => \E m \in missed' : m.new = c)
    /\ t \in Scripts /\ t.todo = Tail(s.todo) /\ t.card = s.card
    /\ t.show = s.show /\ t.list = s.list /\ t.at = s.at /\ t.base = s.base /\ t.new = c
    /\ n \in AllNews /\ n.view = NoView /\ n.card = c /\ n.order = <<>> /\ n.live /\ news' = Append(news, n)
    /\ UNCHANGED <<page, stored, orders, orderRows, added>> /\ mishaps \subseteq mishaps' /\ missed \subseteq missed'

LEMMA InsertsAre ==
    ASSUME PageTyped, NEW i \in DOMAIN scripts, NEW s, s = scripts[i], Head(s.todo) \in {"insert", "duplicate"}
    PROVE  /\ Len(s.todo) # 1 /\ ~Contains(s.todo, "delete")
           /\ s.list => Tail(s.todo) \in ListSteps
           /\ ~s.list => Tail(s.todo) \in OtherSteps
           /\ Head(Tail(s.todo)) \in {"added", "copied"} /\ ~Contains(Tail(s.todo), "delete")
<1> DEFINE q == s.todo
<1>1. /\ s.list => q \in ListSteps
      /\ ~s.list => q \in OtherSteps
      /\ Head(q) \in {"insert", "duplicate"}
  BY ScriptIs
<1> HIDE DEF q
<1>2. CASE q \in ListSteps
  <2>1. Len(q) # 1 /\ ~Contains(q, "delete") /\ Tail(q) \in ListSteps /\ Head(Tail(q)) \in {"added", "copied"}
    BY <1>1, <1>2, ListStepsAre
  <2>2. ~Contains(Tail(q), "delete")
    BY <2>1, ListStepsAre
  <2>3. Head(q) \notin {"insert", "duplicate"} \/ s.list \/ Tail(q) \in OtherSteps
    BY <1>1, <2>1, OtherStepsAre
  <2>4. QED BY <1>1, <2>1, <2>2, <2>3 DEF q
<1>3. CASE q \in OtherSteps /\ ~s.list
  <2>1. Len(q) = 2 /\ Tail(q) \in OtherSteps /\ Head(Tail(q)) \in {"added", "copied"}
    BY <1>1, <1>3, OtherStepsAre
  <2>2. ~Contains(q, "delete")
    BY <1>1, <1>3, OtherStepsAre
  <2>3. ~Contains(Tail(q), "delete")
    BY <1>3, <2>1, <2>2, OtherStepsAre
  <2>4. QED BY <1>3, <2>1, <2>2, <2>3, SMTT(40) DEF q
<1>4. QED BY <1>1, <1>2, <1>3

LEMMA CardCameIs ==
    ASSUME PageTyped, NEW i \in DOMAIN scripts, Head(scripts[i].todo) \in {"insert", "duplicate"},
           NEW x \in Rows, x.board = scripts[i].at.board, x.live,
           x.to = IF scripts[i].list THEN scripts[i].at.view ELSE NoView,
           rows' = Append(rows, x), news' = Append(news, CardNews(Len(rows) + 1, TRUE)),
           \/ scripts' = Done(i, [scripts[i] EXCEPT !.new = Len(rows) + 1])
           \/ scripts' = Drop(i) /\ \E m \in missed' : m.new = Len(rows) + 1,
           UNCHANGED <<page, stored, orders, orderRows, added>>, mishaps \subseteq mishaps', missed \subseteq missed'
    PROVE  \E s, T, t, c, n : CardCame(i, s, T, t, c, n)
<1> DEFINE s == scripts[i]
           c == Len(rows) + 1
           r == [s EXCEPT !.new = c]
           t == Further(r)
           n == CardNews(c, TRUE)
<1>1. /\ Ids = 1 .. Len(rows) /\ Len(rows) \in Nat /\ c \in Nat /\ c \notin Ids /\ c # NoCard /\ Len(rows) < c
      /\ rows' \in Seq(Rows) /\ Len(rows)' = c /\ Ids' = Ids \cup {c}
      /\ rows'[c] = x /\ \A d \in Ids : rows'[d] = rows[d]
  <2>1. rows \in Seq(Rows)
    BY DEF PageTyped
  <2>2. Ids = 1 .. Len(rows) /\ Len(rows) \in Nat
    BY <2>1 DEF Ids
  <2>3. rows' \in Seq(Rows) /\ Len(rows)' = c /\ DOMAIN rows' = 1 .. c /\ rows'[c] = x /\ \A d \in 1 .. Len(rows) : rows'[d] = rows[d]
    BY <2>1
  <2>4. 1 .. c = (1 .. Len(rows)) \cup {c} /\ c \notin 1 .. Len(rows)
    BY <2>2
  <2>5. Ids' = 1 .. c
    BY <2>3 DEF Ids
  <2>6. QED BY <2>2, <2>3, <2>4, <2>5 DEF NoCard
<1>2. RowsKeep
  BY <1>1 DEF RowsKeep
<1>3. s \in Scripts /\ Tail(s.todo) \in Steps3 /\ Len(s.todo) # 1
  BY ScriptIs, InsertsAre DEF Steps3
<1>4. /\ scripts' = Done(i, r) \/ (scripts' = Drop(i) /\ \E m \in missed' : m.new = c)
      /\ news' = Append(news, n) /\ Head(s.todo) \in {"insert", "duplicate"}
      /\ rows'[c].board = s.at.board /\ rows'[c].live /\ rows'[c].to = IF s.list THEN s.at.view ELSE NoView
  BY <1>1
<1>5. /\ r \in Scripts /\ r.todo = s.todo /\ r.card = s.card
      /\ r.show = s.show /\ r.list = s.list /\ r.at = s.at /\ r.base = s.base /\ r.new = c
  BY <1>1, <1>3, LearnsIs
<1> HIDE DEF s, c, r
<1>6. /\ t \in Scripts /\ t.todo = Tail(s.todo) /\ t.card = s.card
      /\ t.show = s.show /\ t.list = s.list /\ t.at = s.at /\ t.base = s.base /\ t.new = c
  <2>1. Tail(r.todo) \in Steps3
    BY <1>3, <1>5
  <2>2. QED BY <1>5, <2>1, FurtherIs
<1>7. PICK T : Become(i, T) /\ T \subseteq {t} /\ (T = {} => \E m \in missed' : m.new = c)
  <2>1. Len(r.todo) # 1 /\ Further(r) \in Scripts
    BY <1>3, <1>5, <1>6
  <2>2. CASE scripts' = Done(i, r)
    <3>1. Become(i, {t})
      BY <1>5, <2>1, <2>2, DoneIs
    <3>2. QED BY <3>1
  <2>3. CASE scripts' = Drop(i) /\ \E m \in missed' : m.new = c
    <3>1. Become(i, {})
      BY <2>3, DropIs
    <3>2. QED BY <2>3, <3>1
  <2>4. QED BY <1>4, <2>2, <2>3
<1>8. n \in AllNews /\ n.view = NoView /\ n.card = c /\ n.order = <<>> /\ n.live
  BY <1>1 DEF CardNews, AllNews, NoView
<1> HIDE DEF t, n
<1>9. s = scripts[i]
  BY DEF s
<1>10. CardCame(i, s, T, t, c, n)
  BY <1>1, <1>2, <1>4, <1>6, <1>7, <1>8, <1>9 DEF CardCame
<1>11. QED BY <1>10

\* What holds of all scripts stays true when one of them goes on.
LEMMA TurnsStay ==
    ASSUME AllInTurn, NEW i \in DOMAIN scripts, NEW T, Become(i, T),
           \A t \in T : t.list => \A m \in DOMAIN scripts : /\ i < m => InTurn(t, scripts[m])
                                                            /\ m < i => InTurn(scripts[m], t)
    PROVE  AllInTurn'
<1>1. \A m, k \in Rest(i) : m < k => InTurn(scripts[m], scripts[k])
  BY DEF AllInTurn, Rest
<1>2. \A t \in T : \A m \in Rest(i) : /\ i < m => InTurn(t, scripts[m])
                                      /\ m < i => InTurn(scripts[m], t)
  BY DEF Rest, InTurn
<1>3. \A j, k \in DOMAIN scripts' : j < k => InTurn(scripts'[j], scripts'[k])
  <2> TAKE j, k \in DOMAIN scripts'
  <2> HAVE j < k
  <2>1. CASE \E m, n \in Rest(i) : m < n /\ scripts'[j] = scripts[m] /\ scripts'[k] = scripts[n]
    BY <1>1, <2>1
  <2>2. CASE scripts'[j] \in T /\ \E n \in Rest(i) : i < n /\ scripts'[k] = scripts[n]
    BY <1>2, <2>2
  <2>3. CASE scripts'[k] \in T /\ \E m \in Rest(i) : m < i /\ scripts'[j] = scripts[m]
    BY <1>2, <2>3
  <2>4. QED BY <2>1, <2>2, <2>3 DEF Become
<1>4. QED BY <1>3 DEF AllInTurn, InTurn
LEMMA UndoesStay ==
    ASSUME UndoneAlone, NEW i \in DOMAIN scripts, NEW T, Become(i, T), missed \subseteq missed',
           \A t \in T : Head(t.todo) # "unorder" /\ (t.list => scripts[i].list)
    PROVE  UndoneAlone'
<1>1. \A j \in DOMAIN scripts' : \E m \in DOMAIN scripts : /\ Head(scripts'[j].todo) = "unorder" => Head(scripts[m].todo) = "unorder"
                                                           /\ scripts'[j].list => scripts[m].list
  BY DEF Become, Rest
<1>2. \A c : Misses(c) => Misses(c)'
  BY DEF Misses
<1>3. \A u : Undoes(u) \/ Head(u.todo) # "unorder" => Undoes(u)'
  BY <1>2 DEF Undoes
<1>4. ASSUME NEW j \in DOMAIN scripts' PROVE Undoes(scripts[j])'
  <2>1. PICK u : u = scripts'[j]
    OBVIOUS
  <2>2. Undoes(u) \/ Head(u.todo) # "unorder"
    BY <2>1 DEF Become, Rest, UndoneAlone
  <2>3. Undoes(u)'
    BY <1>3, <2>2
  <2>4. QED BY <2>1, <2>3 DEF Undoes, Misses
<1>5. QED BY <1>1, <1>4 DEF UndoneAlone

LEMMA CardComesWell ==
    ASSUME PageInv, NEW i, NEW s, NEW T, NEW t, NEW c, NEW n, CardCame(i, s, T, t, c, n)
    PROVE  PageInv'
<1>0. i \in DOMAIN scripts /\ s = scripts[i] /\ Head(s.todo) \in {"insert", "duplicate"}
  BY DEF CardCame
<1>1. /\ c \notin Ids /\ c \in Nat /\ c # NoCard /\ Len(rows)' = c /\ Len(rows) < c /\ Ids' = Ids \cup {c}
      /\ \A d \in Ids : rows'[d] = rows[d]
  BY DEF CardCame
<1>2. RowsKeep /\ rows' \in Seq(Rows)
  BY DEF CardCame, RowsKeep
<1>3. rows'[c].board = s.at.board /\ rows'[c].live /\ rows'[c].to = IF s.list THEN s.at.view ELSE NoView
  BY DEF CardCame
<1>4. /\ Len(s.todo) # 1 /\ ~Contains(s.todo, "delete")
      /\ s.list => Tail(s.todo) \in ListSteps
      /\ ~s.list => Tail(s.todo) \in OtherSteps
      /\ Head(Tail(s.todo)) \in {"added", "copied"} /\ ~Contains(Tail(s.todo), "delete")
  BY <1>0, InsertsAre DEF PageInv
<1>5. IsScript(s) /\ s \in Scripts /\ s.at.view \in Views
  BY <1>0, ScriptIs DEF PageInv
<1>6. /\ t \in Scripts /\ t.todo = Tail(s.todo) /\ t.card = s.card
      /\ t.show = s.show /\ t.list = s.list /\ t.at = s.at /\ t.base = s.base /\ t.new = c
  BY DEF CardCame
<1>7. Become(i, T) /\ T \subseteq {t} /\ (T = {} => \E m \in missed' : m.new = c)
  BY DEF CardCame
<1>8. n \in AllNews /\ n.view = NoView /\ n.card = c /\ n.order = <<>> /\ n.live /\ news' = Append(news, n)
  BY DEF CardCame
<1>u. UNCHANGED <<page, stored, orders, orderRows, added>> /\ mishaps \subseteq mishaps' /\ missed \subseteq missed'
  BY DEF CardCame
<1>9. Comes(n) /\ NewsAreTrue'
  <2>1. TrueThen(n)
    BY <1>3, <1>8 DEF TrueThen
  <2>2. \A y \in AllNews : IsNews(y) /\ IsTrue(y) => TrueThen(y)
    BY <1>1, <1>u DEF IsNews, IsTrue, TrueThen
  <2>3. QED BY <1>8, <2>1, <2>2, NewsCome DEF PageInv
<1>10. IsScript(t)'
  <2>1. IsAddress(s.at)' /\ Numbers(s.base)'
    BY <1>2, <1>5, StillTyped DEF PageInv, IsScript
  <2>2. IsAddress(t.at)' /\ Numbers(t.base)' /\ t.at.view \in Views
    BY <1>5, <1>6, <2>1 DEF IsAddress, Numbers
  <2>3. t.new <= Len(rows)' /\ t.new \in Ids' /\ rows'[t.new].board = t.at.board
    BY <1>1, <1>3, <1>6
  <2>4. t.list => rows'[t.new].to = t.at.view
    BY <1>1, <1>3, <1>6
  <2>5. QED BY <1>4, <1>6, <2>2, <2>3, <2>4 DEF IsScript
<1>11. PageTyped'
  <2>1. StoreTyped' /\ ListsTyped' /\ AddedTyped'
    BY <1>2, <1>u, PartsStay DEF PageInv
  <2>2. ScriptsTyped'
    BY <1>0, <1>2, <1>7, <1>10, ScriptsStayTyped DEF PageInv
  <2>3. IsNews(n)'
    BY <1>1, <1>8 DEF IsNews, Numbers, ToSet
  <2>4. NewsTyped'
    BY <1>2, <1>9, <2>3, NewsStayTyped DEF PageInv
  <2>5. QED BY <1>2, <2>1, <2>2, <2>4 DEF PageTyped
<1>12. \A k \in DOMAIN news : \E m \in DOMAIN news' : news'[m] = news[k]
  BY <1>9 DEF Comes
<1>13. CardsAreTrue'
  <2>1. \A d \in Ids' : \/ d \in Ids /\ (rows'[d].live <=> rows[d].live)
                        \/ \E m \in DOMAIN news' : news'[m].view = NoView /\ news'[m].card = d
    BY <1>1, <1>8, <1>9 DEF Comes
  <2>2. QED BY <1>2, <1>12, <1>u, <2>1, CardsStayTrue DEF PageInv
<1>14. OrdersAreTrue'
  <2>1. \A m \in DOMAIN scripts : \A v \in Views : Writes(scripts[m], v) => \E j \in DOMAIN scripts' : Writes(scripts'[j], v)
    BY <1>0, <1>7 DEF Become, Rest, Writes
  <2>2. QED BY <1>12, <1>u, <2>1, OrdersStayTrue DEF PageInv
<1>15. OpenIsThere'
  <2>1. ~Deletes(t, page.card)
    BY <1>4, <1>6 DEF Deletes
  <2>2. QED BY <1>0, <1>1, <1>2, <1>7, <1>u, <2>1, OpenStaysThere DEF PageInv
<1>16. ASSUME mishaps' \cap AddedSlips = {}
       PROVE  (\A d \in Ids : IsListed(d))' /\ NoBlanks' /\ AllAddWell' /\ AllInTurn' /\ UndoneAlone'
  <2>1. (\A d \in Ids : IsListed(d)) /\ NoBlanks /\ AllAddWell /\ AllInTurn /\ UndoneAlone
    BY <1>16, <1>u DEF PageInv, AllListed
  <2>2. \A d \in Ids : IsListed(d)'
    <3> SUFFICES ASSUME NEW d \in Ids, rows[d].live, rows[d].to # NoView,
                        ~(d \in ToSet(orderRows[rows[d].to]))
                 PROVE  \/ \E j \in DOMAIN scripts' : scripts'[j].list /\ scripts'[j].new = d
                        \/ \E j \in DOMAIN scripts' : Unadds(scripts'[j], d)
                        \/ Misses(d)
      BY <1>1, <1>u DEF IsListed, Unadds, Deletes, Misses
    <3>1. \/ \E j \in DOMAIN scripts : scripts[j].list /\ scripts[j].new = d
          \/ \E j \in DOMAIN scripts : Unadds(scripts[j], d)
          \/ Misses(d)
      BY <2>1 DEF IsListed
    <3>2. ~Unadds(s, d)
      BY <1>4 DEF Unadds, Deletes
    <3>3. s.list => s.new # d
      <4>1. NoCard \notin Ids
        BY DEF PageInv, PageTyped, Ids, NoCard
      <4>2. QED BY <1>0, <1>5, <4>1 DEF IsScript
    <3>4. \A m \in Rest(i) : \E j \in DOMAIN scripts' : scripts'[j] = scripts[m]
      BY <1>7 DEF Become
    <3>5. \/ \E m \in Rest(i) : scripts[m].list /\ scripts[m].new = d
          \/ \E m \in Rest(i) : Unadds(scripts[m], d)
          \/ Misses(d)
      BY <1>0, <3>1, <3>2, <3>3 DEF Rest
    <3>6. QED BY <3>4, <3>5
  <2>3. IsListed(c)'
    <3>1. s.list \/ rows'[c].to = NoView
      BY <1>3
    <3>2. T = {} => Misses(c)'
      BY <1>7 DEF Misses
    <3>3. ASSUME T # {}, s.list PROVE \E j \in DOMAIN scripts' : scripts'[j].list /\ scripts'[j].new = c
      <4>1. t \in T
        BY <1>7, <3>3
      <4>2. \E j \in DOMAIN scripts' : scripts'[j] = t
        BY <1>7, <4>1 DEF Become
      <4>3. t.list /\ t.new = c
        BY <1>6, <3>3
      <4>4. QED BY <4>2, <4>3
    <3>4. QED BY <3>1, <3>2, <3>3 DEF IsListed
  <2>4. NoBlanks'
    <3>1. \A j \in DOMAIN scripts' : NoBlank(scripts'[j].base)
      <4>1. NoBlank(t.base) /\ \A m \in DOMAIN scripts : NoBlank(scripts[m].base)
        BY <1>0, <1>6, <2>1 DEF NoBlanks
      <4>2. QED BY <1>7, <4>1 DEF Become, Rest
    <3>2. \A k \in DOMAIN news' : NoBlank(news'[k].order)
      BY <1>8, <1>9, <2>1 DEF Comes, NoBlanks, NoBlank, ToSet
    <3>3. QED BY <1>u, <2>1, <3>1, <3>2 DEF NoBlanks, NoBlank
  <2>5. \A q : Numbers(q) => c \notin ToSet(q)
    BY <1>1 DEF Numbers
  <2>6. \A u \in Scripts : IsScript(u) /\ u.at.view \in Views /\ AddsWell(u) => AddsWell(u)'
    <3> SUFFICES ASSUME NEW u \in Scripts, u.list, u.at.view \in Views, AddsWell(u)
                 PROVE  AddsWell(u)'
      BY DEF AddsWell
    <3>1. \A k \in DOMAIN news' : news'[k].view = u.at.view => Knows(news'[k].order, u)
      BY <1>8, <1>9, ViewsAre DEF Comes, AddsWell
    <3>2. QED BY <1>1, <1>u, <3>1 DEF AddsWell, Knows
  <2>7. AddsWell(t)'
    <3> SUFFICES ASSUME s.list PROVE AddsWell(t)'
      BY <1>6 DEF AddsWell
    <3>1. /\ c \notin ToSet(s.base) /\ c \notin ToSet(orders[s.at.view])
          /\ \A k \in DOMAIN news : c \notin ToSet(news[k].order)
      BY <1>5, <2>5 DEF PageInv, PageTyped, StoreTyped, NewsTyped, IsNews, IsScript
    <3>2. ToSet(orderRows[s.at.view]) \subseteq ToSet(s.base)
      BY <1>0, <2>1 DEF AllAddWell, AddsWell
    <3>3. \A k \in DOMAIN news' : c \notin ToSet(news'[k].order)
      BY <1>8, <1>9, <3>1 DEF Comes, ToSet
    <3>4. Head(t.todo) # "order"
      BY <1>4, <1>6
    <3>5. QED BY <1>6, <1>u, <3>1, <3>2, <3>3, <3>4 DEF AddsWell, Knows
  <2>8. AllAddWell'
    <3>1. \A j \in DOMAIN scripts' : \E u : u = scripts'[j] /\ AddsWell(u)'
      <4>1. \A m \in DOMAIN scripts : IsScript(scripts[m]) /\ scripts[m] \in Scripts /\ scripts[m].at.view \in Views /\ AddsWell(scripts[m])
        BY <2>1, ScriptIs DEF PageInv, AllAddWell
      <4>2. QED BY <1>7, <2>6, <2>7, <4>1 DEF Become, Rest
    <3>2. QED BY <3>1 DEF AllAddWell, AddsWell, Knows
  <2>9. AllInTurn'
    <3>1. \A m \in DOMAIN scripts : i < m => InTurn(t, scripts[m])
      <4> SUFFICES ASSUME NEW m \in DOMAIN scripts, i < m PROVE InTurn(t, scripts[m])
        OBVIOUS
      <4>1. InTurn(s, scripts[m]) /\ Head(s.todo) # "order"
        BY <1>0, <2>1 DEF AllInTurn
      <4>2. QED BY <1>6, <4>1 DEF InTurn
    <3>2. \A m \in DOMAIN scripts : m < i => InTurn(scripts[m], t)
      <4> SUFFICES ASSUME NEW m \in DOMAIN scripts, m < i PROVE InTurn(scripts[m], t)
        OBVIOUS
      <4>1. InTurn(scripts[m], s)
        BY <1>0, <2>1 DEF AllInTurn
      <4>2. c \notin ToSet(scripts[m].base) /\ c # scripts[m].new
        <5>1. IsScript(scripts[m]) /\ scripts[m].new \in Nat
          BY ScriptIs DEF PageInv
        <5>2. QED BY <1>1, <2>5, <5>1 DEF IsScript
      <4>3. QED BY <1>6, <4>1, <4>2 DEF InTurn
    <3>3. \A m, k \in Rest(i) : m < k => InTurn(scripts[m], scripts[k])
      BY <2>1 DEF AllInTurn, Rest
    <3>4. \A j, k \in DOMAIN scripts' : j < k => InTurn(scripts'[j], scripts'[k])
      BY <1>7, <3>1, <3>2, <3>3 DEF Become, Rest
    <3>5. QED BY <3>4 DEF AllInTurn, InTurn
  <2>10. UndoneAlone'
    <3>1. \A u \in T : Head(u.todo) # "unorder" /\ (u.list <=> s.list)
      BY <1>4, <1>6, <1>7
    <3>2. QED BY <1>0, <1>7, <1>u, <2>1, <3>1, UndoesStay
  <2>11. QED BY <1>1, <2>2, <2>3, <2>4, <2>8, <2>9, <2>10
<1>17. AllListed'
  BY <1>16 DEF AllListed
<1>18. QED BY <1>9, <1>11, <1>13, <1>14, <1>15, <1>17 DEF PageInv

LEMMA AddsStay ==
    ASSUME PageTyped, AllAddWell, NEW i \in DOMAIN scripts, NEW T, Become(i, T), Ids \subseteq Ids', UNCHANGED orders,
           mishaps \subseteq mishaps', \A t \in T : t.list => AddsWell(t)',
           \A m \in Rest(i) : scripts[m].list =>
               /\ ToSet(orderRows'[scripts[m].at.view]) \subseteq ToSet(scripts[m].base)
               /\ \A k \in DOMAIN news' : news'[k].view = scripts[m].at.view => Knows(news'[k].order, scripts[m])
    PROVE  AllAddWell'
<1>1. ASSUME NEW m \in Rest(i), NEW u, u = scripts[m] PROVE AddsWell(u)'
  <2>1. AddsWell(u)
    BY <1>1 DEF AllAddWell, Rest
  <2>2. u.list => /\ ToSet(orderRows'[u.at.view]) \subseteq ToSet(u.base)
                  /\ \A k \in DOMAIN news' : news'[k].view = u.at.view => Knows(news'[k].order, u)
    BY <1>1
  <2>3. QED BY <2>1, <2>2 DEF AddsWell, Knows
<1>2. \A j \in DOMAIN scripts' : \E u : u = scripts'[j] /\ AddsWell(u)'
  <2> TAKE j \in DOMAIN scripts'
  <2>1. CASE scripts'[j] \in T
    <3>1. PICK t \in T : t = scripts'[j]
      BY <2>1
    <3>2. AddsWell(t)'
      BY <3>1 DEF AddsWell
    <3>3. QED BY <3>1, <3>2
  <2>2. CASE \E m \in Rest(i) : scripts'[j] = scripts[m]
    BY <1>1, <2>2
  <2>3. QED BY <2>1, <2>2 DEF Become
<1>3. QED BY <1>2, SMTT(40) DEF AllAddWell, AddsWell, Knows
LEMMA ListedStay ==
    ASSUME PageTyped, \A c \in Ids : IsListed(c), NEW i \in DOMAIN scripts, NEW T, Become(i, T), RowsKeep, Ids' = Ids, missed \subseteq missed',
           \A c \in Ids : rows'[c].live => rows[c].live,
           \A c \in Ids : /\ rows'[c].live /\ rows[c].to \in Views
                          /\ \/ c \in ToSet(orderRows[rows[c].to])
                             \/ scripts[i].list /\ scripts[i].new = c
                             \/ Unadds(scripts[i], c)
              => \/ c \in ToSet(orderRows'[rows[c].to])
                 \/ \E j \in DOMAIN scripts' : scripts'[j].list /\ scripts'[j].new = c
                 \/ \E j \in DOMAIN scripts' : Unadds(scripts'[j], c)
                 \/ \E m \in missed' : m.new = c
    PROVE  (\A c \in Ids : IsListed(c))'
<1>1. ASSUME NEW c \in Ids, rows'[c].live, rows'[c].to # NoView
      PROVE  \/ c \in ToSet(orderRows'[rows[c].to])
             \/ \E j \in DOMAIN scripts' : scripts'[j].list /\ scripts'[j].new = c
             \/ \E j \in DOMAIN scripts' : Unadds(scripts'[j], c)
             \/ \E m \in missed' : m.new = c
  <2>1. rows[c].live /\ rows[c].to = rows'[c].to /\ rows[c].to \in Views
    <3>1. rows[c].live /\ rows[c].to = rows'[c].to
      BY <1>1 DEF RowsKeep
    <3>2. rows[c] \in Rows
      BY DEF PageTyped, Ids
    <3>3. rows[c].to \in Views \cup {NoView}
      BY <3>2 DEF Rows
    <3>4. QED BY <1>1, <3>1, <3>3
  <2>2. \/ c \in ToSet(orderRows[rows[c].to])
        \/ \E j \in DOMAIN scripts : scripts[j].list /\ scripts[j].new = c
        \/ \E j \in DOMAIN scripts : Unadds(scripts[j], c)
        \/ \E m \in missed : m.new = c
    BY <1>1, <2>1 DEF IsListed, Misses
  <2>3. \A m \in Rest(i) : \E j \in DOMAIN scripts' : scripts'[j] = scripts[m]
    BY DEF Become
  <2>4. \A j \in DOMAIN scripts : j = i \/ j \in Rest(i)
    BY DEF Rest
  <2>5. QED BY <1>1, <2>1, <2>2, <2>3, <2>4
<1>2. QED BY <1>1 DEF IsListed, RowsKeep, Unadds, Deletes, Misses

\* A request that fails or finds nothing ends its script, or makes it write the
\* order with an empty id.
LEMMA FailsWell ==
    ASSUME PageInv, NEW i \in DOMAIN scripts, Head(scripts[i].todo) \in {"insert", "duplicate"},
           NEW T, Become(i, T), \A t \in T : IsScript(t) /\ Head(t.todo) = "order" /\ t.list /\ "blank" \in mishaps',
           mishaps \subseteq mishaps', missed \subseteq missed', UNCHANGED <<page, stored, orders, rows, orderRows, news, added>>
    PROVE  PageInv'
<1> DEFINE s == scripts[i]
<1>1. RowsKeep /\ Ids' = Ids
  BY DEF PageInv, PageTyped, RowsKeep, Ids
<1>2. ~Contains(s.todo, "delete") /\ (s.list => s.new = NoCard)
  BY InsertsAre, ScriptIs DEF PageInv, IsScript
<1>3. \A t \in T : ~Contains(t.todo, "delete")
  BY ListStepsAre DEF IsScript
<1>4. PageTyped'
  <2>1. StoreTyped' /\ ListsTyped' /\ NewsTyped' /\ AddedTyped'
    BY <1>1, PartsStay DEF PageInv
  <2>2. \A t \in T : IsScript(t)'
    BY <1>1, StillTyped DEF PageInv
  <2>3. ScriptsTyped'
    BY <1>1, <2>2, ScriptsStayTyped DEF PageInv
  <2>4. QED BY <1>1, <2>1, <2>3 DEF PageTyped, RowsKeep
<1>5. NewsAreTrue'
  BY NewsStay DEF PageInv, IsTrue, TrueThen
<1>6. CardsAreTrue'
  BY <1>1, CardsStayTrue DEF PageInv
<1>7. OrdersAreTrue'
  <2>1. \A m \in DOMAIN scripts : \A v \in Views : Writes(scripts[m], v) => \E j \in DOMAIN scripts' : Writes(scripts'[j], v)
    BY DEF Become, Rest, Writes
  <2>2. QED BY <2>1, OrdersStayTrue DEF PageInv
<1>8. OpenIsThere'
  <2>1. \A t \in T : ~Deletes(t, page.card)
    BY <1>3 DEF Deletes
  <2>2. QED BY <1>1, <2>1, OpenStaysThere DEF PageInv
<1>9. ASSUME mishaps' \cap AddedSlips = {}
      PROVE  (\A c \in Ids : IsListed(c))' /\ NoBlanks' /\ AllAddWell' /\ AllInTurn' /\ UndoneAlone'
  <2>1. (\A d \in Ids : IsListed(d)) /\ NoBlanks /\ AllAddWell /\ AllInTurn /\ UndoneAlone
    BY <1>9 DEF PageInv, AllListed
  <2>2. T = {}
    BY <1>9 DEF AddedSlips
  <2>3. (\A c \in Ids : IsListed(c))'
    <3>1. \A c \in Ids : ~(scripts[i].list /\ scripts[i].new = c) /\ ~Unadds(scripts[i], c)
      <4>1. NoCard \notin Ids
        BY DEF PageInv, PageTyped, Ids, NoCard
      <4>2. QED BY <1>2, <4>1 DEF Unadds, Deletes
    <3>2. QED BY <1>1, <2>1, <3>1, ListedStay DEF PageInv
  <2>4. NoBlanks'
    BY <2>1, <2>2 DEF NoBlanks, Become, Rest
  <2>5. AllAddWell'
    <3>1. \A m \in Rest(i) : scripts[m].list =>
               /\ ToSet(orderRows'[scripts[m].at.view]) \subseteq ToSet(scripts[m].base)
               /\ \A k \in DOMAIN news' : news'[k].view = scripts[m].at.view => Knows(news'[k].order, scripts[m])
      BY <2>1 DEF AllAddWell, AddsWell, Rest
    <3>2. QED BY <1>1, <2>1, <2>2, <3>1, AddsStay DEF PageInv
  <2>6. AllInTurn' /\ UndoneAlone'
    BY <2>1, <2>2, TurnsStay, UndoesStay
  <2>7. QED BY <2>3, <2>4, <2>5, <2>6
<1>10. AllListed'
  BY <1>9 DEF AllListed
<1>11. QED BY <1>4, <1>5, <1>6, <1>7, <1>8, <1>10 DEF PageInv

\* The order is written by who was the first to start an addition in the view.
LEMMA WriteIs ==
    ASSUME PageTyped, NEW i \in DOMAIN scripts, NEW s, s = scripts[i], Head(s.todo) = "order"
    PROVE  /\ s.list /\ Len(s.todo) = 1 /\ ~Contains(s.todo, "delete") /\ s.at.view \in Views /\ s.new \in Nat
           /\ Append(s.base, s.new) \in Seq(Nat) /\ ToSet(Append(s.base, s.new)) = ToSet(s.base) \cup {s.new}
           /\ s.base \in Seq(Nat) /\ Numbers(Append(s.base, s.new)) /\ s.new <= Len(rows)
<1>1. IsScript(s) /\ s \in Scripts /\ s.at.view \in Views /\ s.new \in Nat
      /\ (s.list => s.todo \in ListSteps) /\ (~s.list => s.todo \in OtherSteps)
  BY ScriptIs
<1>2. s.list
  <2> DEFINE q == s.todo
  <2>1. Head(q) = "order" /\ (~s.list => q \in OtherSteps)
    BY <1>1
  <2> HIDE DEF q
  <2>2. QED BY <2>1, OtherStepsAre
<1>3. Len(s.todo) = 1 /\ ~Contains(s.todo, "delete")
  BY <1>1, <1>2, ListStepsAre
<1>4. s.base \in Seq(Nat) /\ Numbers(s.base) /\ s.new <= Len(rows)
  BY <1>1 DEF IsScript, Numbers
<1>5. Append(s.base, s.new) \in Seq(Nat) /\ ToSet(Append(s.base, s.new)) = ToSet(s.base) \cup {s.new}
  BY <1>1, <1>4, MembersAre
<1>6. Numbers(Append(s.base, s.new))
  BY <1>4, <1>5 DEF Numbers
<1>7. QED BY <1>1, <1>2, <1>3, <1>4, <1>5, <1>6

\* An order comes to the server, from an addition or its undo.
OrderCame(i, T, v, q, n) ==
    /\ i \in DOMAIN scripts /\ v \in Views /\ q \in Seq(Nat) /\ Numbers(q) /\ Become(i, T)
    /\ orderRows' = [orderRows EXCEPT ![v] = q]
    /\ n = ViewNews(v, q) /\ news' = Append(news, n)
    /\ missed \subseteq missed' /\ mishaps \subseteq mishaps' /\ UNCHANGED <<page, stored, orders, rows>>
LEMMA OrderComesWell ==
    ASSUME PageInv, NEW i, NEW T, NEW v, NEW q, NEW n, OrderCame(i, T, v, q, n),
           \A t \in T : IsScript(t), AddedTyped', Head(scripts[i].todo) # "close",
           \A w \in Views : Writes(scripts[i], w) => w = v,
           \A t \in T : Deletes(t, page.card) => /\ Deletes(scripts[i], page.card)
                                               /\ (t.todo = scripts[i].todo \/ Head(scripts[i].todo) # "delete")
    PROVE  /\ PageTyped' /\ NewsAreTrue' /\ CardsAreTrue' /\ OrdersAreTrue' /\ OpenIsThere'
           /\ RowsKeep /\ Ids' = Ids /\ missed \subseteq missed' /\ Comes(n) /\ n.view = v /\ n.order = q
           /\ orderRows'[v] = q /\ \A w \in Views \ {v} : orderRows'[w] = orderRows[w]
<1>1. i \in DOMAIN scripts /\ v \in Views /\ q \in Seq(Nat) /\ Numbers(q) /\ Become(i, T)
      /\ mishaps \subseteq mishaps' /\ missed \subseteq missed' /\ UNCHANGED <<page, stored, orders, rows>>
  BY DEF OrderCame
<1>2. RowsKeep /\ Ids' = Ids
  BY <1>1 DEF PageInv, PageTyped, RowsKeep, Ids
<1>3. n \in AllNews /\ n.view = v /\ n.order = q /\ n.card = NoCard /\ v # NoView /\ news' = Append(news, n)
  <2>1. n = ViewNews(v, q) /\ v # NoView /\ news' = Append(news, n)
    BY <1>1, ViewsAre DEF OrderCame
  <2>2. QED BY <1>1, <2>1 DEF ViewNews, AllNews, NoCard
<1>4. /\ orderRows' \in [Views -> Seq(Nat)] /\ orderRows'[v] = q
      /\ \A w \in Views \ {v} : orderRows'[w] = orderRows[w]
  BY <1>1 DEF OrderCame, PageInv, PageTyped, ListsTyped
<1>5. Comes(n) /\ NewsAreTrue'
  <2>1. TrueThen(n)
    BY <1>3, <1>4 DEF TrueThen
  <2>2. \A y \in AllNews : IsNews(y) /\ IsTrue(y) /\ ~OfSame(n, y) => TrueThen(y)
    <3> SUFFICES ASSUME NEW y \in AllNews, IsNews(y), IsTrue(y), ~OfSame(n, y) PROVE TrueThen(y)
      OBVIOUS
    <3>1. CASE y.view = NoView
      BY <1>1, <3>1 DEF IsTrue, TrueThen
    <3>2. CASE y.view # NoView
      <4>1. y.card = NoCard /\ y.view \in Views
        BY <3>2 DEF IsNews, AllNews
      <4>2. y.view # v
        BY <1>3, <4>1 DEF OfSame
      <4>3. QED BY <1>4, <3>2, <4>1, <4>2 DEF IsTrue, TrueThen
    <3>3. QED BY <3>1, <3>2
  <2>3. QED BY <1>3, <2>1, <2>2, NewsCome DEF PageInv
<1>6. PageTyped'
  <2>1. StoreTyped'
    BY <1>1, <1>2, PartsStay DEF PageInv
  <2>2. ListsTyped'
    <3>1. \A w \in Views : \E p : p = orderRows'[w] /\ Numbers(p)'
      <4>1. \A p : Numbers(p) => Numbers(p)'
        BY <1>2, StillTyped DEF PageInv
      <4>2. QED BY <1>1, <1>4, <4>1 DEF PageInv, PageTyped, ListsTyped
    <3>2. QED BY <1>4, <3>1 DEF ListsTyped, Numbers
  <2>3. ScriptsTyped'
    <3>1. \A t \in T : IsScript(t)'
      BY <1>2, StillTyped DEF PageInv
    <3>2. QED BY <1>1, <1>2, <3>1, ScriptsStayTyped DEF PageInv
  <2>4. NewsTyped'
    <3>1. IsNews(n)'
      <4>1. Numbers(q)'
        BY <1>1, <1>2, StillTyped DEF PageInv
      <4>2. Numbers(n.order)'
        BY <1>3, <4>1 DEF Numbers
      <4>3. QED BY <1>3, <4>2 DEF IsNews
    <3>2. QED BY <1>2, <1>5, <3>1, NewsStayTyped DEF PageInv
  <2>5. QED BY <1>2, <2>1, <2>2, <2>3, <2>4 DEF PageTyped, RowsKeep
<1>7. \A k \in DOMAIN news : \E m \in DOMAIN news' : news'[m] = news[k]
  BY <1>5 DEF Comes
<1>8. CardsAreTrue'
  BY <1>1, <1>2, <1>7, CardsStayTrue DEF PageInv
<1>9. OrdersAreTrue'
  <2>1. \E m \in DOMAIN news' : news'[m].view = v
    BY <1>3, <1>5 DEF Comes
  <2>2. \A m \in DOMAIN scripts : \A w \in Views : Writes(scripts[m], w) =>
               \/ \E j \in DOMAIN scripts' : Writes(scripts'[j], w)
               \/ \E k \in DOMAIN news' : news'[k].view = w
    <3> SUFFICES ASSUME NEW m \in DOMAIN scripts, NEW w \in Views, Writes(scripts[m], w)
                 PROVE  \/ \E j \in DOMAIN scripts' : Writes(scripts'[j], w)
                        \/ \E k \in DOMAIN news' : news'[k].view = w
      OBVIOUS
    <3>1. CASE m = i
      BY <2>1, <3>1
    <3>2. CASE m # i
      BY <1>1, <3>2 DEF Become, Rest
    <3>3. QED BY <3>1, <3>2
  <2>3. \A w \in Views : orderRows'[w] = orderRows[w] \/ \E m \in DOMAIN news' : news'[m].view = w
    BY <1>4, <2>1
  <2>4. QED BY <1>1, <1>7, <2>2, <2>3, OrdersStayTrue DEF PageInv
<1>10. OpenIsThere'
  BY <1>1, <1>2, OpenStaysThere DEF PageInv
<1>11. QED BY <1>1, <1>2, <1>3, <1>4, <1>5, <1>6, <1>8, <1>9, <1>10

LEMMA WritesWell == ASSUME PageInv, NEW i \in DOMAIN scripts, WriteOrder(i) PROVE PageInv'
<1> DEFINE s == scripts[i]
           v == s.at.view
           q == Append(s.base, s.new)
           n == ViewNews(v, q)
<1>1. /\ Head(s.todo) = "order" /\ s = scripts[i] /\ n = ViewNews(v, q)
      /\ orderRows' = [orderRows EXCEPT ![v] = q] /\ news' = Append(news, n) /\ added' = <<s>> /\ scripts' = Drop(i)
      /\ mishaps \subseteq mishaps' /\ UNCHANGED <<page, stored, orders, rows, missed>>
      /\ (\E j \in 1 .. i - 1 : scripts[j].list /\ scripts[j].at.view = v) => "crossed" \in mishaps'
  BY DEF WriteOrder, Step, Mishap, address, store
<1> HIDE DEF s, v, q, n
<1>2. /\ s.list /\ Len(s.todo) = 1 /\ ~Contains(s.todo, "delete") /\ v \in Views /\ s.new \in Nat
      /\ q \in Seq(Nat) /\ ToSet(q) = ToSet(s.base) \cup {s.new}
      /\ s.base \in Seq(Nat) /\ Numbers(q) /\ s.new <= Len(rows)
  BY <1>1, WriteIs DEF PageInv, v, q
<1>3. IsScript(s) /\ s \in Scripts /\ s.at.view = v
  BY <1>1, ScriptIs DEF PageInv, v
<1>4. Become(i, {})
  BY <1>1, DropIs DEF PageInv
<1>5. OrderCame(i, {}, v, q, n)
  BY <1>1, <1>2, <1>4 DEF OrderCame
<1>6. AddedTyped'
  <2>1. RowsKeep
    BY <1>1 DEF PageInv, PageTyped, RowsKeep
  <2>2. added' \in Seq(Scripts) /\ added'[1] = s
    BY <1>1, <1>3
  <2>3. PICK u : u = s /\ u = added'[1] /\ IsAddition(u)
    BY <1>3, <2>2 DEF IsScript, IsAddition
  <2>4. IsAddition(u)'
    BY <2>1, <2>3, StillTyped DEF PageInv
  <2>5. QED BY <2>2, <2>3, <2>4 DEF AddedTyped, IsAddition
<1>7. /\ PageTyped' /\ NewsAreTrue' /\ CardsAreTrue' /\ OrdersAreTrue' /\ OpenIsThere'
      /\ RowsKeep /\ Ids' = Ids /\ missed \subseteq missed' /\ Comes(n) /\ n.view = v /\ n.order = q
      /\ orderRows'[v] = q /\ \A w \in Views \ {v} : orderRows'[w] = orderRows[w]
  <2>1. Head(scripts[i].todo) # "close" /\ \A w \in Views : Writes(scripts[i], w) => w = v
    BY <1>1, <1>3 DEF Writes, ShowsAdded
  <2>2. QED BY <1>5, <1>6, <2>1, OrderComesWell
<1>8. ASSUME mishaps' \cap AddedSlips = {}
      PROVE  (\A c \in Ids : IsListed(c))' /\ NoBlanks' /\ AllAddWell' /\ AllInTurn' /\ UndoneAlone'
  <2>1. (\A d \in Ids : IsListed(d)) /\ NoBlanks /\ AllAddWell /\ AllInTurn /\ UndoneAlone
    BY <1>1, <1>8 DEF PageInv, AllListed
  <2>2. AddsWell(s) /\ s.new \in Ids /\ NoBlank(s.base) /\ ToSet(orderRows[v]) \subseteq ToSet(s.base)
    BY <1>1, <1>2, <1>3, <2>1 DEF AllAddWell, AddsWell, NoBlanks
  <2>3. NoCard \notin Ids
    BY DEF PageInv, PageTyped, Ids, NoCard
  <2>4. (\A c \in Ids : IsListed(c))'
    <3>1. ASSUME NEW c \in Ids, rows[c].to \in Views,
                 \/ c \in ToSet(orderRows[rows[c].to])
                 \/ scripts[i].list /\ scripts[i].new = c
                 \/ Unadds(scripts[i], c)
          PROVE  c \in ToSet(orderRows'[rows[c].to])
      <4>1. CASE c \in ToSet(orderRows[rows[c].to]) /\ rows[c].to = v
        BY <1>2, <1>7, <2>2, <4>1
      <4>2. CASE c \in ToSet(orderRows[rows[c].to]) /\ rows[c].to # v
        BY <1>7, <3>1, <4>2
      <4>3. CASE s.new = c
        <5>1. rows[c].to = v
          BY <1>2, <1>3, <2>3, <4>3 DEF IsScript
        <5>2. QED BY <1>2, <1>7, <4>3, <5>1
      <4>4. ~Unadds(s, c)
        BY <1>2 DEF Unadds, Deletes
      <4>5. QED BY <1>1, <3>1, <4>1, <4>2, <4>3, <4>4
    <3>2. \A c \in Ids : rows'[c].live => rows[c].live
      BY <1>1
    <3>3. QED BY <1>4, <1>7, <2>1, <3>1, <3>2, ListedStay DEF PageInv
  <2>5. NoBlanks'
    <3>1. NoBlank(q)
      BY <1>2, <2>2, <2>3 DEF NoBlank
    <3>2. \A k \in DOMAIN news' : NoBlank(news'[k].order)
      BY <1>7, <2>1, <3>1 DEF Comes, NoBlanks
    <3>3. \A w \in Views : NoBlank(orders'[w]) /\ NoBlank(orderRows'[w])
      BY <1>1, <1>7, <2>1, <3>1 DEF NoBlanks
    <3>4. \A j \in DOMAIN scripts' : NoBlank(scripts'[j].base)
      BY <1>4, <2>1 DEF Become, Rest, NoBlanks
    <3>5. NoBlank(added'[1].base)
      BY <1>1, <2>2
    <3>6. QED BY <3>2, <3>3, <3>4, <3>5 DEF NoBlanks, NoBlank
  <2>6. ASSUME NEW m \in Rest(i), scripts[m].list
        PROVE  /\ ToSet(orderRows'[scripts[m].at.view]) \subseteq ToSet(scripts[m].base)
               /\ \A k \in DOMAIN news' : news'[k].view = scripts[m].at.view => Knows(news'[k].order, scripts[m])
    <3>1. AddsWell(scripts[m]) /\ scripts[m].at.view \in Views
      BY <2>1, <2>6, ScriptIs DEF AllAddWell, Rest, PageInv
    <3>2. /\ ToSet(orderRows[scripts[m].at.view]) \subseteq ToSet(scripts[m].base)
          /\ \A k \in DOMAIN news : news[k].view = scripts[m].at.view => Knows(news[k].order, scripts[m])
      BY <2>6, <3>1 DEF AddsWell
    <3>3. CASE scripts[m].at.view # v
      BY <1>7, <3>1, <3>2, <3>3 DEF Comes
    <3>4. CASE scripts[m].at.view = v
      <4>1. m \in Int /\ i \in Int /\ m \in DOMAIN scripts /\ m # i /\ m >= 1
        BY <2>6 DEF Rest, PageInv, PageTyped, ScriptsTyped
      <4>2. ~(m < i)
        <5>1. "crossed" \notin mishaps'
          BY <1>8 DEF AddedSlips
        <5>2. m \notin 1 .. i - 1
          BY <1>1, <2>6, <3>4, <5>1
        <5>3. QED BY <4>1, <5>2
      <4>3. InTurn(s, scripts[m])
        BY <1>1, <2>1, <4>1, <4>2 DEF AllInTurn
      <4>4. /\ s.new \in ToSet(scripts[m].base) /\ ToSet(s.base) \subseteq ToSet(scripts[m].base)
            /\ scripts[m].new \notin ToSet(s.base) \cup {s.new}
        BY <1>2, <1>3, <2>6, <3>4, <4>3 DEF InTurn
      <4>5. Knows(q, scripts[m])
        BY <1>2, <4>4 DEF Knows
      <4>6. QED BY <1>2, <1>7, <3>2, <3>4, <4>4, <4>5, SMTT(40) DEF Comes
    <3>5. QED BY <3>3, <3>4
  <2>7. AllAddWell'
    <3>1. /\ PageTyped /\ AllAddWell /\ Become(i, {}) /\ UNCHANGED orders /\ mishaps \subseteq mishaps' /\ Ids' = Ids
          /\ \A t \in {} : t.list => AddsWell(t)'
      BY <1>1, <1>4, <1>7, <2>1 DEF PageInv
    <3>2. QED BY ONLY <2>6, <3>1, i \in DOMAIN scripts, AddsStay
  <2>8. AllInTurn' /\ UndoneAlone'
    BY <1>1, <1>4, <2>1, TurnsStay, UndoesStay
  <2>9. QED BY <2>4, <2>5, <2>7, <2>8
<1>9. AllListed'
  BY <1>8 DEF AllListed
<1>10. QED BY <1>7, <1>9 DEF PageInv

\* What is left of a deletion or an undo after a step that only the server sees.
LEMMA RestIs ==
    ASSUME PageTyped, NEW i \in DOMAIN scripts, NEW s, s = scripts[i], Head(s.todo) \in {"delete", "close", "unorder"}
    PROVE  /\ ~s.list /\ s.todo \in OtherSteps /\ s \in Scripts /\ s.at.view \in Views
           /\ Head(s.todo) = "delete" => Contains(s.todo, "delete") /\ s.card \in Ids
           /\ Head(s.todo) = "unorder" => Len(s.todo) # 1
           /\ Len(s.todo) # 1 =>
                /\ IsScript(Further(s)) /\ Further(s) \in Scripts /\ ~Further(s).list /\ Further(s).card = s.card
                /\ Further(s).base = s.base /\ Further(s).new = s.new /\ Head(Further(s).todo) \in {"close", "delete"}
                /\ Contains(Further(s).todo, "delete") <=> Contains(s.todo, "delete") /\ Head(s.todo) # "delete"
                /\ Head(s.todo) = "delete" => Head(Further(s).todo) = "close" /\ Len(s.todo) = 2
<1>1. IsScript(s) /\ s \in Scripts /\ s.at.view \in Views
      /\ (s.list => s.todo \in ListSteps) /\ (~s.list => s.todo \in OtherSteps)
  BY ScriptIs
<1> DEFINE q == s.todo
<1>2. ~s.list /\ q \in OtherSteps
  <2>1. Head(q) \in {"delete", "close", "unorder"} /\ (s.list => q \in ListSteps)
    BY <1>1
  <2> HIDE DEF q
  <2>2. ~s.list
    BY <2>1, ListStepsAre
  <2>3. QED BY <1>1, <2>2 DEF q
<1>3. Head(q) \in {"delete", "close", "unorder"} /\ (Contains(q, "delete") => s.card \in Ids)
  BY <1>1 DEF IsScript
<1>4. q = s.todo
  OBVIOUS
<1> HIDE DEF q
<1>5. Head(q) = "delete" => Contains(q, "delete")
  BY <1>2, <1>3, OtherStepsAre
<1>6. Head(q) = "unorder" => Len(q) # 1
  BY <1>2, OtherStepsAre
<1>7. ASSUME Len(q) # 1
      PROVE  /\ Tail(q) \in OtherSteps /\ Head(Tail(q)) \in {"close", "delete"}
             /\ Contains(Tail(q), "delete") <=> Contains(q, "delete") /\ Head(q) # "delete"
             /\ Head(q) = "delete" => Head(Tail(q)) = "close" /\ Len(q) = 2
  BY <1>2, <1>3, <1>7, OtherStepsAre
<1>8. ASSUME Len(q) # 1
      PROVE  /\ IsScript(Further(s)) /\ Further(s) \in Scripts /\ ~Further(s).list /\ Further(s).card = s.card
             /\ Further(s).base = s.base /\ Further(s).new = s.new /\ Further(s).todo = Tail(q)
  <2>1. /\ Further(s) \in Scripts /\ Further(s).todo = Tail(q) /\ Further(s).card = s.card
        /\ Further(s).show = s.show /\ Further(s).list = s.list /\ Further(s).at = s.at
        /\ Further(s).base = s.base /\ Further(s).new = s.new
    BY <1>1, <1>4, <1>7, <1>8, FurtherIs DEF Steps3
  <2>2. /\ IsAddress(s.at) /\ Numbers(s.base) /\ s.new <= Len(rows)
    BY <1>1 DEF IsScript
  <2>3. QED BY <1>1, <1>2, <1>3, <1>7, <1>8, <2>1, <2>2 DEF IsScript
<1>9. QED BY <1>1, <1>2, <1>3, <1>4, <1>5, <1>6, <1>7, <1>8

LEMMA PutsBackWell == ASSUME PageInv, NEW i \in DOMAIN scripts, PutOrderBack(i) PROVE PageInv'
<1> DEFINE s == scripts[i]
           v == s.at.view
           q == s.base
           n == ViewNews(v, q)
           t == Further(s)
<1>1. /\ Head(s.todo) = "unorder" /\ s = scripts[i] /\ n = ViewNews(v, q) /\ t = Further(s) /\ q = s.base /\ v = s.at.view
      /\ orderRows' = [orderRows EXCEPT ![v] = q] /\ news' = Append(news, n) /\ UNCHANGED added /\ scripts' = Done(i, s)
      /\ mishaps \subseteq mishaps' /\ UNCHANGED <<page, stored, orders, rows, missed>>
      /\ orderRows[v] \in {q, Append(q, s.card)} \/ "undone" \in mishaps'
  BY DEF PutOrderBack, Step, Mishap, address, store
<1> HIDE DEF s, v, q, n, t
<1>2. /\ ~s.list /\ s \in Scripts /\ v \in Views /\ Len(s.todo) # 1
      /\ IsScript(t) /\ t \in Scripts /\ ~t.list /\ t.card = s.card /\ t.base = q /\ t.new = s.new
      /\ Head(t.todo) \in {"close", "delete"} /\ (Contains(t.todo, "delete") <=> Contains(s.todo, "delete"))
  <2>1. Head(s.todo) \in {"delete", "close", "unorder"} /\ Head(s.todo) # "delete"
    BY <1>1
  <2>2. Len(s.todo) # 1
    BY <1>1, <2>1, RestIs DEF PageInv
  <2>3. QED BY <1>1, <2>1, <2>2, RestIs DEF PageInv
<1>3. q \in Seq(Nat) /\ Numbers(q)
  BY <1>1, ScriptIs DEF PageInv, IsScript, Numbers
<1>4. Become(i, {t})
  BY <1>1, <1>2, DoneIs DEF PageInv
<1>5. OrderCame(i, {t}, v, q, n)
  BY <1>1, <1>2, <1>3, <1>4 DEF OrderCame
<1>6. AddedTyped'
  <2>1. RowsKeep
    BY <1>1 DEF PageInv, PageTyped, RowsKeep
  <2>2. QED BY <1>1, <2>1, PartsStay DEF PageInv
<1>7. /\ PageTyped' /\ NewsAreTrue' /\ CardsAreTrue' /\ OrdersAreTrue' /\ OpenIsThere'
      /\ RowsKeep /\ Ids' = Ids /\ missed \subseteq missed' /\ Comes(n) /\ n.view = v /\ n.order = q
      /\ orderRows'[v] = q /\ \A w \in Views \ {v} : orderRows'[w] = orderRows[w]
  <2>1. Head(scripts[i].todo) # "close" /\ \A w \in Views : ~Writes(scripts[i], w)
    BY <1>1, <1>2 DEF Writes, ShowsAdded
  <2>2. \A u \in {t} : IsScript(u)
    BY <1>2
  <2>3. \A u \in {t} : Deletes(u, page.card) => /\ Deletes(scripts[i], page.card)
                                                /\ (u.todo = scripts[i].todo \/ Head(scripts[i].todo) # "delete")
    BY <1>1, <1>2 DEF Deletes
  <2>4. QED BY <1>5, <1>6, <2>1, <2>2, <2>3, OrderComesWell
<1>8. ASSUME mishaps' \cap AddedSlips = {}
      PROVE  (\A c \in Ids : IsListed(c))' /\ NoBlanks' /\ AllAddWell' /\ AllInTurn' /\ UndoneAlone'
  <2>1. (\A d \in Ids : IsListed(d)) /\ NoBlanks /\ AllAddWell /\ AllInTurn /\ UndoneAlone
    BY <1>1, <1>8 DEF PageInv, AllListed
  <2>2. \A j \in DOMAIN scripts : ~scripts[j].list
    BY <1>1, <2>1 DEF UndoneAlone
  <2>3. ToSet(orderRows[v]) \subseteq ToSet(q) \cup {s.card}
    <3>1. "undone" \notin mishaps'
      BY <1>8 DEF AddedSlips
    <3>2. s.card \in Nat
      BY <1>2 DEF Scripts
    <3>3. ToSet(Append(q, s.card)) = ToSet(q) \cup {s.card}
      BY <1>3, <3>2, MembersAre
    <3>4. QED BY <1>1, <3>1, <3>3
  <2>4. (\A c \in Ids : IsListed(c))'
    <3>1. ASSUME NEW c \in Ids, rows[c].to \in Views,
                 \/ c \in ToSet(orderRows[rows[c].to])
                 \/ scripts[i].list /\ scripts[i].new = c
                 \/ Unadds(scripts[i], c)
          PROVE  \/ c \in ToSet(orderRows'[rows[c].to])
                 \/ \E j \in DOMAIN scripts' : Unadds(scripts'[j], c)
                 \/ \E m \in missed' : m.new = c
      <4>1. c \in ToSet(orderRows[rows[c].to])
        BY <1>1, <1>2, <3>1 DEF Unadds
      <4>2. CASE c = s.card
        <5>1. s.card = s.new /\ (Contains(s.todo, "delete") \/ Misses(s.new))
          BY <1>1, <2>1 DEF UndoneAlone, Undoes
        <5>2. CASE Contains(s.todo, "delete")
          <6>1. Unadds(t, c)
            BY <1>2, <4>2, <5>1, <5>2 DEF Unadds, Deletes
          <6>2. \E j \in DOMAIN scripts' : scripts'[j] = t
            BY <1>4 DEF Become
          <6>3. QED BY <6>1, <6>2
        <5>3. CASE Misses(s.new)
          BY <1>1, <4>2, <5>1, <5>3 DEF Misses
        <5>4. QED BY <5>1, <5>2, <5>3
      <4>3. CASE c # s.card
        <5>2. CASE rows[c].to = v
          BY <1>7, <2>3, <4>1, <4>3, <5>2
        <5>3. CASE rows[c].to # v
          BY <1>7, <3>1, <4>1, <5>3
        <5>4. QED BY <5>2, <5>3
      <4>4. QED BY <4>2, <4>3
    <3>2. \A c \in Ids : rows'[c].live => rows[c].live
      BY <1>1
    <3>3. QED BY <1>4, <1>7, <2>1, <3>1, <3>2, ListedStay DEF PageInv
  <2>5. NoBlanks'
    <3>1. NoBlank(q)
      BY <1>1, <2>1 DEF NoBlanks
    <3>2. \A k \in DOMAIN news' : NoBlank(news'[k].order)
      BY <1>7, <2>1, <3>1 DEF Comes, NoBlanks
    <3>3. \A w \in Views : NoBlank(orders'[w]) /\ NoBlank(orderRows'[w])
      BY <1>1, <1>7, <2>1, <3>1 DEF NoBlanks
    <3>4. \A j \in DOMAIN scripts' : NoBlank(scripts'[j].base)
      BY <1>2, <1>4, <2>1, <3>1 DEF Become, Rest, NoBlanks
    <3>5. added' # <<>> => NoBlank(added'[1].base)
      BY <1>1, <2>1 DEF NoBlanks
    <3>6. QED BY <3>2, <3>3, <3>4, <3>5 DEF NoBlanks, NoBlank
  <2>6. AllAddWell'
    <3>1. \A j \in DOMAIN scripts' : ~scripts'[j].list
      BY <1>2, <1>4, <2>2 DEF Become, Rest
    <3>2. QED BY <3>1 DEF AllAddWell, AddsWell
  <2>7. AllInTurn' /\ UndoneAlone'
    BY <1>1, <1>2, <1>4, <2>1, TurnsStay, UndoesStay
  <2>8. QED BY <2>4, <2>5, <2>6, <2>7
<1>9. AllListed'
  BY <1>8 DEF AllListed
<1>10. QED BY <1>7, <1>9 DEF PageInv

LEMMA RowDies ==
    ASSUME PageTyped, NEW d \in Ids, rows' = [rows EXCEPT ![d].live = FALSE]
    PROVE  /\ rows' \in Seq(Rows) /\ Len(rows)' = Len(rows) /\ Ids' = Ids /\ Len(rows) \in Nat
           /\ rows'[d].live = FALSE /\ (\A c \in Ids \ {d} : rows'[c] = rows[c]) /\ RowsKeep
<1>1. /\ rows' \in Seq(Rows) /\ Len(rows)' = Len(rows) /\ Ids' = Ids /\ Len(rows) \in Nat
      /\ rows'[d] = [rows[d] EXCEPT !.live = FALSE] /\ \A c \in Ids \ {d} : rows'[c] = rows[c]
  <2>1. rows \in Seq(Rows) /\ d \in DOMAIN rows
    BY DEF PageTyped, Ids
  <2>2. [rows[d] EXCEPT !.live = FALSE] \in Rows
    <3>1. rows[d] \in Rows
      BY <2>1
    <3>2. QED BY <3>1 DEF Rows
  <2>3. rows' = [rows EXCEPT ![d] = [rows[d] EXCEPT !.live = FALSE]]
    OBVIOUS
  <2> DEFINE r == [rows[d] EXCEPT !.live = FALSE]
  <2> HIDE DEF r
  <2>4. rows' = [rows EXCEPT ![d] = r] /\ r \in Rows
    BY <2>2, <2>3 DEF r
  <2>5. rows' \in Seq(Rows) /\ Len(rows)' = Len(rows) /\ DOMAIN rows' = DOMAIN rows /\ Len(rows) \in Nat
        /\ rows'[d] = r /\ \A c \in DOMAIN rows \ {d} : rows'[c] = rows[c]
    BY ONLY <2>1, <2>4
  <2>6. QED BY <2>5 DEF Ids, r
<1>2. /\ rows'[d].board = rows[d].board /\ rows'[d].to = rows[d].to /\ rows'[d].live = FALSE
  <2>1. rows[d] \in Rows
    BY DEF PageTyped, Ids
  <2>2. QED BY <1>1, <2>1 DEF Rows
<1>3. RowsKeep
  <2>1. \A c \in Ids : rows'[c].board = rows[c].board /\ rows'[c].to = rows[c].to
    BY <1>1, <1>2
  <2>2. QED BY <1>1, <2>1 DEF RowsKeep
<1>4. QED BY <1>1, <1>2, <1>3

LEMMA DeletesWell == ASSUME PageInv, NEW i \in DOMAIN scripts, DeleteBlock(i) PROVE PageInv'
<1> DEFINE s == scripts[i]
           d == s.card
           n == CardNews(d, FALSE)
           t == Further(s)
           T == IF Len(s.todo) = 1 THEN {} ELSE {t}
<1>1. /\ Head(s.todo) = "delete" /\ s = scripts[i] /\ t = Further(s) /\ d = s.card /\ scripts' = Done(i, s)
      /\ rows' = [rows EXCEPT ![d].live = FALSE]
      /\ IF rows[d].live THEN news' = Append(news, n) ELSE UNCHANGED news
      /\ UNCHANGED <<page, stored, orders, orderRows, missed, added, mishaps>>
  BY DEF DeleteBlock, Step, address, store
<1> HIDE DEF s, d, n, t
<1>2. /\ ~s.list /\ s \in Scripts /\ Contains(s.todo, "delete") /\ d \in Ids
      /\ Len(s.todo) # 1 => /\ IsScript(t) /\ t \in Scripts /\ ~t.list /\ t.base = s.base
                            /\ Head(t.todo) = "close" /\ ~Contains(t.todo, "delete") /\ Len(s.todo) = 2
  <2>1. Head(s.todo) \in {"delete", "close", "unorder"} /\ Head(s.todo) = "delete"
    BY <1>1
  <2>2. ~s.list /\ s \in Scripts /\ Contains(s.todo, "delete") /\ d \in Ids
    BY <1>1, <2>1, RestIs DEF PageInv
  <2>3. ASSUME Len(s.todo) # 1
        PROVE  /\ IsScript(t) /\ t \in Scripts /\ ~t.list /\ t.base = s.base
               /\ Head(t.todo) = "close" /\ ~Contains(t.todo, "delete") /\ Len(s.todo) = 2
    BY <1>1, <2>1, <2>3, RestIs DEF PageInv
  <2>4. QED BY <2>2, <2>3
<1>3. Become(i, T)
  BY <1>1, <1>2, DoneIs DEF PageInv
<1>t. \A u \in T : u = t /\ Len(s.todo) # 1
  OBVIOUS
<1>e. Len(s.todo) # 1 => T = {t}
  OBVIOUS
<1> HIDE DEF T
<1>4. /\ rows' \in Seq(Rows) /\ Len(rows)' = Len(rows) /\ Ids' = Ids /\ Len(rows) \in Nat
      /\ rows'[d].live = FALSE /\ (\A c \in Ids \ {d} : rows'[c] = rows[c]) /\ RowsKeep
  BY <1>1, <1>2, RowDies DEF PageInv
<1>5. rows'[d].live = FALSE /\ rows'[d].board = rows[d].board /\ rows'[d].to = rows[d].to
  BY <1>2, <1>4 DEF RowsKeep
<1>6. RowsKeep
  BY <1>4
<1>7. n \in AllNews /\ n.view = NoView /\ n.card = d /\ n.order = <<>> /\ n.live = FALSE
  BY <1>2 DEF n, CardNews, AllNews, NoView, Ids, PageInv, PageTyped
<1>8. NewsAreTrue' /\ ((news' = news /\ ~rows[d].live) \/ Comes(n))
  <2>1. CASE rows[d].live
    <3>1. TrueThen(n)
      BY <1>5, <1>7 DEF TrueThen
    <3>2. \A y \in AllNews : IsNews(y) /\ IsTrue(y) /\ ~OfSame(n, y) => TrueThen(y)
      BY <1>1, <1>4, <1>7 DEF IsNews, IsTrue, TrueThen, OfSame
    <3>3. news' = Append(news, n)
      BY <1>1, <2>1
    <3>4. QED BY <1>7, <3>1, <3>2, <3>3, NewsCome DEF PageInv
  <2>2. CASE ~rows[d].live
    <3>1. ASSUME NEW y \in AllNews, IsNews(y), IsTrue(y) PROVE TrueThen(y)
      <4>1. CASE y.view # NoView
        BY <1>1, <3>1, <4>1 DEF IsTrue, TrueThen
      <4>2. CASE y.view = NoView /\ y.card = d
        <5>1. y.live = rows[d].live /\ y.live \in BOOLEAN
          BY <3>1, <4>2 DEF IsTrue, AllNews
        <5>2. rows'[d].live \in BOOLEAN /\ rows[d].live \in BOOLEAN
          <6>1. rows[d] \in Rows
            BY <1>2 DEF Ids, PageInv, PageTyped
          <6>2. QED BY <1>5, <6>1 DEF Rows
        <5>3. y.live = rows'[d].live
          BY <1>5, <2>2, <5>1, <5>2
        <5>4. QED BY <4>2, <5>3 DEF TrueThen
      <4>3. CASE y.view = NoView /\ y.card # d
        BY <1>4, <3>1, <4>3 DEF IsNews, IsTrue, TrueThen
      <4>4. QED BY <4>1, <4>2, <4>3
    <3>2. news' = news
      BY <1>1, <2>2
    <3>3. QED BY <2>2, <3>1, <3>2, NewsStay DEF PageInv
  <2>3. QED BY <2>1, <2>2
<1>9. \A k \in DOMAIN news : \E m \in DOMAIN news' : news'[m] = news[k]
  BY <1>8 DEF Comes
<1>10. \A k \in DOMAIN news' : news'[k] = n \/ \E m \in DOMAIN news : news'[k] = news[m]
  BY <1>8 DEF Comes
<1>11. PageTyped'
  <2>1. StoreTyped' /\ ListsTyped' /\ AddedTyped'
    BY <1>1, <1>6, PartsStay DEF PageInv
  <2>2. ScriptsTyped'
    <3>1. \A u \in T : IsScript(u)
      BY <1>2, <1>t
    <3>2. \A u \in T : IsScript(u)'
      BY <1>6, <3>1, StillTyped DEF PageInv
    <3>3. QED BY <1>3, <1>6, <3>2, ScriptsStayTyped DEF PageInv
  <2>3. NewsTyped'
    <3>2. CASE Comes(n)
      <4>1. PICK u : u = n
        OBVIOUS
      <4>2. u \in AllNews /\ u.view = NoView /\ u.card \in Ids' /\ u.order = <<>>
        BY <1>2, <1>4, <1>7, <4>1
      <4>3. Comes(u) /\ IsNews(u)'
        BY <3>2, <4>1, <4>2 DEF IsNews, Numbers, ToSet
      <4>4. QED BY <1>6, <4>3, NewsStayTyped DEF PageInv
    <3>3. CASE news' = news
      BY <1>6, <3>3, PartsStay DEF PageInv
    <3>4. QED BY <1>8, <3>2, <3>3
  <2>4. QED BY <1>4, <2>1, <2>2, <2>3 DEF PageTyped
<1>12. CardsAreTrue'
  <2>1. \A c \in Ids' : \/ c \in Ids /\ (rows'[c].live <=> rows[c].live)
                        \/ \E m \in DOMAIN news' : news'[m].view = NoView /\ news'[m].card = c
    <3>1. \A c \in Ids \ {d} : rows'[c].live <=> rows[c].live
      BY <1>4
    <3>2. CASE Comes(n)
      <4>1. \E m \in DOMAIN news' : news'[m].view = NoView /\ news'[m].card = d
        BY <1>7, <3>2 DEF Comes
      <4>2. QED BY <1>4, <3>1, <4>1
    <3>3. CASE ~rows[d].live
      BY <1>2, <1>4, <1>5, <3>1, <3>3
    <3>4. QED BY <1>8, <3>2, <3>3
  <2>2. QED BY <1>1, <1>6, <1>9, <2>1, CardsStayTrue DEF PageInv
<1>13. OrdersAreTrue'
  <2>1. \A m \in DOMAIN scripts : \A v \in Views : Writes(scripts[m], v) => \E j \in DOMAIN scripts' : Writes(scripts'[j], v)
    BY <1>1, <1>2, <1>3 DEF Become, Rest, Writes
  <2>2. QED BY <1>1, <1>9, <2>1, OrdersStayTrue DEF PageInv
<1>14. OpenIsThere'
  <2>1. SUFFICES ASSUME mishaps' \cap {"doomed", "another"} = {}, page.card # NoCard
        PROVE  /\ rows'[page.card].board = page.board
               /\ \A j \in DOMAIN scripts' : Deletes(scripts'[j], page.card) => Head(scripts'[j].todo) = "delete" /\ Len(scripts'[j].todo) = 2
               /\ rows'[page.card].live \/ \E j \in DOMAIN scripts' : Head(scripts'[j].todo) = "close"
    BY <1>1 DEF OpenIsThere, Deletes
  <2>2. page.card \in Ids
    BY <2>1 DEF PageInv, PageTyped, StoreTyped, IsAddress, Addresses, Ids, NoCard
  <2>3. /\ rows[page.card].board = page.board
        /\ \A j \in DOMAIN scripts : Deletes(scripts[j], page.card) => Head(scripts[j].todo) = "delete" /\ Len(scripts[j].todo) = 2
        /\ rows[page.card].live \/ \E j \in DOMAIN scripts : Head(scripts[j].todo) = "close"
    BY <1>1, <2>1 DEF PageInv, OpenIsThere
  <2>4. rows'[page.card].board = page.board
    BY <1>6, <2>2, <2>3 DEF RowsKeep
  <2>5. \A j \in DOMAIN scripts' : Deletes(scripts'[j], page.card) => Head(scripts'[j].todo) = "delete" /\ Len(scripts'[j].todo) = 2
    <3>1. \A u \in T : ~Deletes(u, page.card)
      BY <1>2, <1>t DEF Deletes
    <3>2. QED BY <1>3, <2>3, <3>1 DEF Become, Rest
  <2>6. CASE page.card = d
    <3>1. Len(s.todo) = 2
      BY <1>1, <1>2, <2>3, <2>6 DEF Deletes
    <3>2. \E j \in DOMAIN scripts' : scripts'[j] = t
      BY <1>3, <1>e, <3>1 DEF Become
    <3>3. \E j \in DOMAIN scripts' : Head(scripts'[j].todo) = "close"
      BY <1>2, <3>1, <3>2
    <3>4. QED BY <2>4, <2>5, <3>3
  <2>7. CASE page.card # d
    <3>1. CASE rows[page.card].live
      BY <1>4, <2>2, <2>4, <2>5, <2>7, <3>1
    <3>2. CASE \E j \in DOMAIN scripts : Head(scripts[j].todo) = "close"
      <4>1. \E j \in DOMAIN scripts' : Head(scripts'[j].todo) = "close"
        BY <1>1, <1>3, <3>2 DEF Become, Rest
      <4>2. QED BY <2>4, <2>5, <4>1
    <3>3. QED BY <2>3, <3>1, <3>2
  <2>8. QED BY <2>6, <2>7
<1>15. ASSUME mishaps' \cap AddedSlips = {}
      PROVE  (\A c \in Ids : IsListed(c))' /\ NoBlanks' /\ AllAddWell' /\ AllInTurn' /\ UndoneAlone'
  <2>1. (\A c \in Ids : IsListed(c)) /\ NoBlanks /\ AllAddWell /\ AllInTurn /\ UndoneAlone
    BY <1>1, <1>15 DEF PageInv, AllListed
  <2>2. (\A c \in Ids : IsListed(c))'
    <3>1. \A c \in Ids : rows'[c].live => c # d /\ rows[c].live
      BY <1>4, <1>5
    <3>2. \A c \in Ids : c # d => ~(scripts[i].list /\ scripts[i].new = c) /\ ~Unadds(scripts[i], c)
      BY <1>1, <1>2 DEF Unadds, Deletes
    <3>3. QED BY <1>1, <1>3, <1>4, <1>6, <2>1, <3>1, <3>2, ListedStay DEF PageInv
  <2>3. NoBlanks'
    <3>1. \A k \in DOMAIN news' : NoBlank(news'[k].order)
      BY <1>7, <1>10, <2>1 DEF NoBlanks, NoBlank, ToSet
    <3>2. NoBlank(s.base)
      BY <1>1, <2>1 DEF NoBlanks
    <3>3. \A j \in DOMAIN scripts' : NoBlank(scripts'[j].base)
      BY <1>2, <1>3, <1>t, <2>1, <3>2 DEF Become, Rest, NoBlanks
    <3>4. QED BY <1>1, <2>1, <3>1, <3>3 DEF NoBlanks, NoBlank
  <2>4. AllAddWell'
    <3>1. ASSUME NEW m \in Rest(i), scripts[m].list
          PROVE  /\ ToSet(orderRows'[scripts[m].at.view]) \subseteq ToSet(scripts[m].base)
                 /\ \A k \in DOMAIN news' : news'[k].view = scripts[m].at.view => Knows(news'[k].order, scripts[m])
      <4>1. AddsWell(scripts[m]) /\ scripts[m].at.view \in Views
        BY <2>1, <3>1, ScriptIs DEF AllAddWell, Rest, PageInv
      <4>2. scripts[m].at.view # n.view
        BY <1>7, <4>1, ViewsAre
      <4>3. QED BY <1>1, <1>10, <3>1, <4>1, <4>2 DEF AddsWell
    <3>2. \A u \in T : ~u.list
      BY <1>2, <1>t
    <3>3. QED BY <1>1, <1>3, <1>4, <2>1, <3>1, <3>2, AddsStay DEF PageInv
  <2>5. AllInTurn' /\ UndoneAlone'
    <3>1. \A u \in T : ~u.list /\ Head(u.todo) # "unorder"
      BY <1>2, <1>t
    <3>2. QED BY <1>1, <1>3, <2>1, <3>1, TurnsStay, UndoesStay
  <2>6. QED BY <2>2, <2>3, <2>4, <2>5
<1>16. AllListed'
  BY <1>15 DEF AllListed
<1>17. QED BY <1>8, <1>11, <1>12, <1>13, <1>14, <1>16 DEF PageInv

\* A request that is refused ends its script or not, and changes nothing.
LEMMA ListedOrNot ==
    ASSUME NEW s, IsAddition(s), NEW x \in BOOLEAN, NEW r, r = [s EXCEPT !.list = x]
    PROVE  IsAddition(r) /\ r.base = s.base
<1>1. r \in Scripts /\ r.at = s.at /\ r.base = s.base /\ r.new = s.new
  BY DEF IsAddition, Scripts
<1>2. QED BY <1>1 DEF IsAddition

LEMMA RefusesWell == ASSUME PageInv, NEW i \in DOMAIN scripts, RequestFails(i) PROVE PageInv'
<1>0. PICK s : s = scripts[i]
  OBVIOUS
<1>t. PICK t : t = Further(s)
  OBVIOUS
<1>1. PICK ends \in BOOLEAN :
          /\ s = scripts[i] /\ t = Further(s) /\ Head(s.todo) \in {"order", "delete", "unorder"}
          /\ scripts' = Drop(i) \/ scripts' = Done(i, s)
          /\ added' = IF s.list THEN <<[s EXCEPT !.list = ~ends]>> ELSE added
          /\ Head(s.todo) # "unorder" => s \in missed'
          /\ missed \subseteq missed' /\ mishaps \subseteq mishaps'
          /\ UNCHANGED <<page, stored, orders, rows, orderRows, news>>
  BY <1>0, <1>t DEF RequestFails, Step, address, store
<1>2. /\ IsScript(s) /\ s \in Scripts
      /\ Head(s.todo) = "order" => s.list /\ Len(s.todo) = 1 /\ ~Contains(s.todo, "delete")
      /\ Head(s.todo) # "order" => ~s.list
      /\ Len(s.todo) # 1 =>
            /\ IsScript(t) /\ t \in Scripts /\ ~t.list /\ t.card = s.card /\ t.base = s.base
            /\ Head(t.todo) \in {"close", "delete"}
            /\ Contains(t.todo, "delete") => Contains(s.todo, "delete") /\ Head(s.todo) # "delete"
  <2>1. CASE Head(s.todo) = "order"
    BY <1>1, <2>1, ScriptIs, WriteIs DEF PageInv
  <2>2. CASE Head(s.todo) \in {"delete", "unorder"}
    <3>1. Head(s.todo) \in {"delete", "close", "unorder"}
      BY <2>2
    <3>2. QED BY <1>1, <2>2, <3>1, ScriptIs, RestIs DEF PageInv
  <2>3. QED BY <1>1, <2>1, <2>2
<1>3. PICK T : Become(i, T) /\ (\A u \in T : u = t /\ Len(s.todo) # 1)
  <2>1. CASE scripts' = Drop(i) \/ Len(s.todo) = 1
    <3>1. Become(i, {})
      BY <1>1, <1>2, <2>1, DropIs, DoneIs DEF PageInv
    <3>2. QED BY <3>1
  <2>2. CASE scripts' = Done(i, s) /\ Len(s.todo) # 1
    <3>1. Become(i, {t})
      BY <1>1, <1>2, <2>2, DoneIs DEF PageInv
    <3>2. QED BY <2>2, <3>1
  <2>3. QED BY <1>1, <2>1, <2>2
<1>4. \A u \in T : IsScript(u) /\ ~u.list /\ u.card = s.card /\ u.base = s.base /\ Head(u.todo) # "unorder"
      /\ (Contains(u.todo, "delete") => Contains(s.todo, "delete") /\ Head(s.todo) # "delete")
  BY <1>2, <1>3
<1>5. RowsKeep /\ Ids' = Ids
  BY <1>1 DEF PageInv, PageTyped, RowsKeep, Ids
<1>6. PageTyped'
  <2>1. StoreTyped' /\ ListsTyped' /\ NewsTyped'
    BY <1>1, <1>5, PartsStay DEF PageInv
  <2>2. ScriptsTyped'
    <3>1. \A u \in T : IsScript(u)'
      BY <1>4, <1>5, StillTyped DEF PageInv
    <3>2. QED BY <1>3, <1>5, <3>1, ScriptsStayTyped DEF PageInv
  <2>3. AddedTyped'
    <3>1. CASE s.list
      <4>1. PICK r : r = [s EXCEPT !.list = ~ends] /\ added' = <<r>>
        BY <1>1, <3>1
      <4>2. IsAddition(r) /\ r \in Scripts
        <5>1. IsAddition(s)
          BY <1>2 DEF IsScript, IsAddition
        <5>2. QED BY <4>1, <5>1, ListedOrNot DEF IsAddition
      <4>3. IsAddition(r)'
        BY <1>5, <4>2, StillTyped DEF PageInv
      <4>4. added' \in Seq(Scripts) /\ added'[1] = r
        BY <4>1, <4>2
      <4>5. QED BY <4>3, <4>4 DEF AddedTyped, IsAddition
    <3>2. CASE ~s.list
      BY <1>1, <1>5, <3>2, PartsStay DEF PageInv
    <3>3. QED BY <3>1, <3>2
  <2>4. QED BY <1>5, <2>1, <2>2, <2>3 DEF PageTyped, RowsKeep
<1>7. NewsAreTrue'
  BY <1>1, NewsStay DEF PageInv, IsTrue, TrueThen
<1>8. CardsAreTrue'
  BY <1>1, <1>5, CardsStayTrue DEF PageInv
<1>9. OrdersAreTrue'
  <2>1. ASSUME NEW m \in DOMAIN scripts, NEW v \in Views, Writes(scripts[m], v)
        PROVE  (\E j \in DOMAIN scripts' : Writes(scripts'[j], v)) \/ \E u \in missed' : ShowsAdded(u, v)
    <3>1. CASE m = i
      BY <1>1, <2>1, <3>1 DEF Writes
    <3>2. CASE m # i
      BY <1>3, <2>1, <3>2 DEF Become, Rest
    <3>3. QED BY <3>1, <3>2
  <2>2. QED BY <1>1, <2>1, OrdersStayTrue DEF PageInv
<1>10. OpenIsThere'
  <2>1. \A u \in T : Deletes(u, page.card) => Deletes(scripts[i], page.card) /\ Head(scripts[i].todo) # "delete"
    BY <1>1, <1>4 DEF Deletes
  <2>2. Head(scripts[i].todo) # "close"
    BY <1>1
  <2>3. QED BY <1>1, <1>3, <1>5, <2>1, <2>2, OpenStaysThere DEF PageInv
<1>11. ASSUME mishaps' \cap AddedSlips = {}
       PROVE  (\A c \in Ids : IsListed(c))' /\ NoBlanks' /\ AllAddWell' /\ AllInTurn' /\ UndoneAlone'
  <2>1. (\A d \in Ids : IsListed(d)) /\ NoBlanks /\ AllAddWell /\ AllInTurn /\ UndoneAlone
    BY <1>1, <1>11 DEF PageInv, AllListed
  <2>2. (\A c \in Ids : IsListed(c))'
    <3>1. ASSUME NEW c \in Ids, (s.list /\ s.new = c) \/ Unadds(s, c) PROVE \E m \in missed' : m.new = c
      <4>1. Head(s.todo) # "unorder"
        BY <1>1, <1>2, <3>1 DEF Unadds
      <4>2. QED BY <1>1, <3>1, <4>1 DEF Unadds
    <3>2. QED BY <1>1, <1>3, <1>5, <2>1, <3>1, ListedStay DEF PageInv
  <2>3. NoBlanks'
    <3>1. NoBlank(s.base)
      BY <1>1, <2>1 DEF NoBlanks
    <3>2. \A j \in DOMAIN scripts' : NoBlank(scripts'[j].base)
      BY <1>3, <1>4, <2>1, <3>1 DEF Become, Rest, NoBlanks
    <3>3. added' # <<>> => NoBlank(added'[1].base)
      <4>1. CASE s.list
        <5>1. PICK r : r = [s EXCEPT !.list = ~ends] /\ added' = <<r>>
          BY <1>1, <4>1
        <5>2. r.base = s.base
          BY <1>2, <5>1 DEF Scripts
        <5>3. QED BY <3>1, <5>1, <5>2
      <4>2. CASE ~s.list
        BY <1>1, <2>1, <4>2 DEF NoBlanks
      <4>3. QED BY <4>1, <4>2
    <3>4. QED BY <1>1, <2>1, <3>2, <3>3 DEF NoBlanks, NoBlank
  <2>4. AllAddWell'
    <3>1. \A m \in Rest(i) : scripts[m].list =>
               /\ ToSet(orderRows'[scripts[m].at.view]) \subseteq ToSet(scripts[m].base)
               /\ \A k \in DOMAIN news' : news'[k].view = scripts[m].at.view => Knows(news'[k].order, scripts[m])
      BY <1>1, <2>1 DEF AllAddWell, AddsWell, Rest
    <3>2. QED BY <1>1, <1>3, <1>4, <1>5, <2>1, <3>1, AddsStay DEF PageInv
  <2>5. AllInTurn' /\ UndoneAlone'
    BY <1>1, <1>3, <1>4, <2>1, TurnsStay, UndoesStay
  <2>6. QED BY <2>2, <2>3, <2>4, <2>5
<1>12. AllListed'
  BY <1>11 DEF AllListed
<1>13. QED BY <1>6, <1>7, <1>8, <1>9, <1>10, <1>12 DEF PageInv

-----------------------------------------------------------------------------
(* CardPage: the page moves, and the store with it.                        *)

Came(to, ids, lists) ==
    /\ page' = to /\ IsAddress(to)
    /\ stored' = IF to.board # page.board THEN LiveOn(to.board) ELSE ids
    /\ orders' = IF to.board # page.board THEN orderRows ELSE lists
    /\ mishaps \subseteq mishaps'
    /\ "older" \notin mishaps' => \A v \in Views : ToSet(lists[v]) \subseteq ToSet(orders'[v])
    /\ UNCHANGED <<rows, orderRows, missed, news, added>>
LEMMA CameIs ==
    ASSUME NEW to, NEW ids, NEW lists, NEW slip, GoTo(to, ids, lists, slip), IsAddress(to),
           UNCHANGED <<rows, orderRows, missed, news, added>>
    PROVE  Came(to, ids, lists) /\ slip \subseteq mishaps'
BY DEF GoTo, Came, Mishap

\* A script that is to write this order.
Carries(s, v, q) == s.list /\ s.at.view = v /\ Head(s.todo) = "order" /\ q = Append(s.base, s.new)
LEMMA StoreMoves ==
    ASSUME PageInv, NEW to, NEW ids, NEW lists, Came(to, ids, lists), stored \subseteq ids, ids \subseteq Ids,
           \A c \in ids \ stored : rows[c].live \/ "doomed" \in mishaps',
           lists \in [Views -> Seq(Nat)], \A v \in Views : Numbers(lists[v]),
           \A v \in Views :
               \/ lists[v] = orders[v]
               \/ /\ \E j \in DOMAIN scripts' : Carries(scripts'[j], v, lists[v])
                  /\ mishaps' \cap AddedSlips = {} => ToSet(orderRows[v]) \subseteq ToSet(lists[v]),
           \A v \in Views : \A m \in DOMAIN scripts :
               Writes(scripts[m], v) /\ lists[v] = orders[v] => \E j \in DOMAIN scripts' : Carries(scripts'[j], v, lists[v])
    PROVE  /\ RowsKeep /\ Ids' = Ids /\ StoreTyped' /\ ListsTyped' /\ NewsTyped' /\ AddedTyped'
           /\ NewsAreTrue' /\ CardsAreTrue' /\ OrdersAreTrue'
<1>1. /\ page' = to /\ IsAddress(to) /\ mishaps \subseteq mishaps' /\ UNCHANGED <<rows, orderRows, missed, news, added>>
      /\ to.board # page.board => stored' = LiveOn(to.board) /\ orders' = orderRows
      /\ to.board = page.board => stored' = ids /\ orders' = lists
  BY DEF Came
<1>2. RowsKeep /\ Ids' = Ids
  BY <1>1 DEF PageInv, PageTyped, RowsKeep, Ids
<1>3. ListsTyped' /\ NewsTyped' /\ AddedTyped'
  BY <1>1, <1>2, PartsStay DEF PageInv
<1>4. StoreTyped'
  <2>1. IsAddress(to)' /\ \A q : Numbers(q) => Numbers(q)'
    BY <1>1, <1>2, StillTyped DEF PageInv
  <2>2. IsAddress(page)'
    BY <1>1, <2>1 DEF IsAddress
  <2>3. stored' \subseteq Ids' /\ orders' \in [Views -> Seq(Nat)] /\ \A v \in Views : Numbers(orders'[v])
    BY <1>1, <1>2 DEF LiveOn, PageInv, PageTyped, ListsTyped
  <2>4. \A v \in Views : \E q : q = orders'[v] /\ Numbers(q)'
    BY <2>1, <2>3
  <2>5. QED BY <2>2, <2>3, <2>4 DEF StoreTyped, Numbers
<1>5. NewsAreTrue'
  BY <1>1, NewsStay DEF PageInv, IsTrue, TrueThen
<1>6. CardsAreTrue'
  <2>1. SUFFICES ASSUME "doomed" \notin mishaps', NEW c \in Ids, rows[c].board = to.board
                 PROVE  (c \in stored' <=> rows[c].live) \/ CardComes(c)
    BY <1>1, <1>2 DEF CardsAreTrue, CardComes
  <2>2. CASE to.board # page.board
    BY <1>1, <2>1, <2>2 DEF LiveOn
  <2>3. CASE to.board = page.board
    <3>1. (c \in stored <=> rows[c].live) \/ CardComes(c)
      BY <1>1, <2>1, <2>3 DEF PageInv, CardsAreTrue
    <3>2. QED BY <1>1, <2>1, <2>3, <3>1
  <2>4. QED BY <2>2, <2>3
<1>7. OrdersAreTrue'
  <2>1. ASSUME NEW v \in Views, BoardOf[v] = to.board
        PROVE  /\ \/ orders'[v] = orderRows[v] \/ OrderComes(v)
                  \/ \E j \in DOMAIN scripts' : Carries(scripts'[j], v, orders'[v])
                  \/ \E m \in missed : m.list /\ m.at.view = v /\ orders'[v] = Append(m.base, m.new)
               /\ mishaps' \cap AddedSlips = {} => OrderComes(v) \/ ToSet(orderRows[v]) \subseteq ToSet(orders'[v])
    <3>1. CASE to.board # page.board
      BY <1>1, <3>1
    <3>2. CASE to.board = page.board
      <4>1. OrderIsTrue(v) /\ (mishaps \cap AddedSlips = {} => SeesOrder(v)) /\ orders' = lists
        BY <1>1, <2>1, <3>2 DEF PageInv, OrdersAreTrue
      <4>2. CASE lists[v] = orders[v]
        BY <1>1, <4>1, <4>2 DEF OrderIsTrue, SeesOrder, ShowsAdded
      <4>3. CASE lists[v] # orders[v]
        BY <4>1, <4>3
      <4>4. QED BY <4>2, <4>3
    <3>3. QED BY <3>1, <3>2
  <2>2. \A v \in Views : BoardOf[v] = page'.board =>
            OrderIsTrue(v)' /\ (mishaps' \cap AddedSlips = {} => SeesOrder(v)')
    BY <1>1, <2>1 DEF OrderIsTrue, SeesOrder, OrderComes, Writes, ShowsAdded, Carries
  <2>3. QED BY <2>2 DEF OrdersAreTrue
<1>8. QED BY <1>2, <1>3, <1>4, <1>5, <1>6, <1>7

LEMMA OpenMoves ==
    ASSUME UNCHANGED rows,
           page'.card # NoCard => /\ rows[page'.card].board = page'.board
                                  /\ \/ "doomed" \in mishaps'
                                     \/ /\ rows[page'.card].live
                                        /\ \A j \in DOMAIN scripts' : ~Deletes(scripts'[j], page'.card)
    PROVE  OpenIsThere'
BY DEF OpenIsThere, Deletes

\* Nothing is lost of an order, or it is noted.
LEMMA KnowsMore ==
    ASSUME NEW u, AddsWell(u), u.at.view \in Views, mishaps \subseteq mishaps', UNCHANGED <<rows, orderRows, news>>,
           orders'[u.at.view] = orders[u.at.view] \/ orders'[u.at.view] = orderRows[u.at.view],
           "older" \notin mishaps' => ToSet(orders[u.at.view]) \subseteq ToSet(orders'[u.at.view])
    PROVE  AddsWell(u)'
<1>1. SUFFICES ASSUME u.list PROVE AddsWell(u)'
  BY DEF AddsWell
<1>2. /\ Head(u.todo) = "order" => u.new \in Ids
      /\ u.new \notin ToSet(u.base)
      /\ ToSet(orderRows[u.at.view]) \subseteq ToSet(u.base)
      /\ Knows(orders[u.at.view], u)
      /\ \A k \in DOMAIN news : news[k].view = u.at.view => Knows(news[k].order, u)
      /\ u.show /\ Head(u.todo) = "order" /\ "older" \notin mishaps => u.new \in ToSet(orders[u.at.view])
  BY <1>1 DEF AddsWell
<1>3. Knows(orders'[u.at.view], u)
  BY <1>2 DEF Knows
<1>4. Ids' = Ids
  BY DEF Ids
<1>5. u.show /\ Head(u.todo) = "order" /\ "older" \notin mishaps' => u.new \in ToSet(orders'[u.at.view])
  BY <1>2
<1>6. QED BY <1>2, <1>3, <1>4, <1>5 DEF AddsWell, Knows

\* The user goes somewhere, or opens or closes a card.
LEMMA MovesWell ==
    ASSUME PageInv, NEW to, NEW slip, GoTo(to, stored, orders, slip), IsAddress(to),
           UNCHANGED <<rows, orderRows, missed, news, scripts, added>>,
           to.card # NoCard => rows[to.card].board = to.board /\ (Doomed(to.card) => "doomed" \in slip)
    PROVE  PageInv'
<1>1. Came(to, stored, orders) /\ slip \subseteq mishaps'
  BY CameIs
<1>2. /\ RowsKeep /\ Ids' = Ids /\ StoreTyped' /\ ListsTyped' /\ NewsTyped' /\ AddedTyped'
      /\ NewsAreTrue' /\ CardsAreTrue' /\ OrdersAreTrue'
  <2>1. stored \subseteq Ids /\ orders \in [Views -> Seq(Nat)] /\ \A v \in Views : Numbers(orders[v])
    BY DEF PageInv, PageTyped, StoreTyped
  <2>2. \A v \in Views : \A m \in DOMAIN scripts :
            Writes(scripts[m], v) => \E j \in DOMAIN scripts' : Carries(scripts'[j], v, orders[v])
    BY DEF Writes, ShowsAdded, Carries
  <2>3. QED BY <1>1, <2>1, <2>2, StoreMoves
<1>3. PageTyped'
  <2>1. ScriptsTyped'
    BY <1>2, PartsStay DEF PageInv
  <2>2. QED BY <1>2, <2>1 DEF PageTyped, RowsKeep
<1>4. OpenIsThere'
  <2>1. page' = to
    BY <1>1 DEF Came
  <2>2. QED BY <1>1, <2>1, OpenMoves DEF Doomed, Deletes
<1>5. ASSUME mishaps' \cap AddedSlips = {}
      PROVE  (\A c \in Ids : IsListed(c))' /\ NoBlanks' /\ AllAddWell' /\ AllInTurn' /\ UndoneAlone'
  <2>1. /\ mishaps \subseteq mishaps' /\ (orders' = orders \/ orders' = orderRows)
        /\ "older" \notin mishaps' => \A v \in Views : ToSet(orders[v]) \subseteq ToSet(orders'[v])
    BY <1>1 DEF Came
  <2>2. (\A c \in Ids : IsListed(c)) /\ NoBlanks /\ AllAddWell /\ AllInTurn /\ UndoneAlone
    BY <1>5, <2>1 DEF PageInv, AllListed
  <2>3. (\A c \in Ids : IsListed(c))'
    BY <1>2, <2>2 DEF IsListed, Unadds, Deletes, Misses
  <2>4. NoBlanks'
    BY <2>1, <2>2 DEF NoBlanks, NoBlank
  <2>5. AllAddWell'
    <3>1. \A j \in DOMAIN scripts' : \E u : u = scripts'[j] /\ AddsWell(u)'
      <4>1. \A j \in DOMAIN scripts : scripts[j].at.view \in Views /\ AddsWell(scripts[j])
        BY <2>2, ScriptIs DEF PageInv, AllAddWell
      <4>2. UNCHANGED <<rows, orderRows, news>>
        OBVIOUS
      <4>3. \A u : AddsWell(u) /\ u.at.view \in Views => AddsWell(u)'
        BY <2>1, <4>2, KnowsMore
      <4>4. QED BY <4>1, <4>3
    <3>2. QED BY <3>1, SMTT(40) DEF AllAddWell, AddsWell, Knows
  <2>6. AllInTurn' /\ UndoneAlone'
    BY <2>2 DEF AllInTurn, UndoneAlone, InTurn, Undoes, Misses
  <2>7. QED BY <2>3, <2>4, <2>5, <2>6
<1>6. AllListed'
  BY <1>5 DEF AllListed
<1>7. QED BY <1>2, <1>3, <1>4, <1>6 DEF PageInv

-----------------------------------------------------------------------------
(* CardPage: what the client does with the answers.                        *)

\* What is left of an addition after its card came: to write the order, or nothing.
Left(s) == IF s.list THEN {Further(s)} ELSE {}
LEMMA AddedIs ==
    ASSUME PageTyped, NEW i \in DOMAIN scripts, NEW s, s = scripts[i], Head(s.todo) \in {"added", "copied"},
           scripts' = Done(i, s)
    PROVE  /\ Become(i, Left(s)) /\ s.list \in BOOLEAN
           /\ s.new \in Ids /\ s.new # NoCard /\ s.new \in Nat /\ rows[s.new].board = s.at.board
           /\ ~Contains(s.todo, "delete") /\ IsAddress(s.at) /\ s.at \in Addresses /\ s.at.view \in Views
           /\ s.base \in Seq(Nat) /\ Numbers(s.base) /\ s.new <= Len(rows) /\ (s.list => rows[s.new].to = s.at.view)
           /\ \A t \in Left(s) : /\ IsScript(t) /\ s.list /\ t.list /\ Head(t.todo) = "order" /\ ~Contains(t.todo, "delete")
                                 /\ t.at = s.at /\ t.base = s.base /\ t.new = s.new /\ t.show = s.show
<1>1. IsScript(s) /\ s \in Scripts /\ s.list \in BOOLEAN /\ s.at.view \in Views /\ s.new \in Nat
      /\ (s.list => s.todo \in ListSteps) /\ (~s.list => s.todo \in OtherSteps)
  BY ScriptIs
<1>2. /\ s.new \in Ids /\ rows[s.new].board = s.at.board /\ IsAddress(s.at) /\ s.at \in Addresses
      /\ s.base \in Seq(Nat) /\ Numbers(s.base) /\ s.new <= Len(rows)
  BY <1>1 DEF IsScript, IsAddress, Numbers
<1>3. s.new # NoCard
  BY <1>2 DEF PageTyped, Ids, NoCard
<1>4. s.list => rows[s.new].to = s.at.view
  BY <1>1, <1>3 DEF IsScript
<1> DEFINE q == s.todo
<1>5. q = s.todo /\ Head(q) \in {"added", "copied"} /\ (s.list => q \in ListSteps) /\ (~s.list => q \in OtherSteps)
  BY <1>1
<1> HIDE DEF q
<1>6. s.list => Tail(q) \in ListSteps /\ Len(q) # 1 /\ Head(Tail(q)) = "order" /\ ~Contains(q, "delete")
  BY <1>5, ListStepsAre
<1>7. s.list => ~Contains(Tail(q), "delete")
  BY <1>6, ListStepsAre
<1>8. ~s.list => Len(q) = 1 /\ ~Contains(q, "delete")
  BY <1>5, OtherStepsAre
<1>9. CASE s.list
  <2>1. /\ Further(s) \in Scripts /\ Further(s).todo = Tail(q) /\ Further(s).card = s.card
        /\ Further(s).show = s.show /\ Further(s).list = s.list /\ Further(s).at = s.at
        /\ Further(s).base = s.base /\ Further(s).new = s.new
    BY <1>1, <1>5, <1>6, <1>9, FurtherIs DEF Steps3
  <2>2. IsScript(Further(s))
    BY <1>1, <1>2, <1>4, <1>6, <1>7, <1>9, <2>1 DEF IsScript
  <2>3. Become(i, {Further(s)})
    BY <1>1, <1>5, <1>6, <1>9, <2>1, DoneIs
  <2>4. Left(s) = {Further(s)}
    BY <1>9 DEF Left
  <2>5. QED BY <1>1, <1>2, <1>3, <1>4, <1>5, <1>6, <1>7, <1>9, <2>1, <2>2, <2>3, <2>4
<1>10. CASE ~s.list
  <2>1. Left(s) = {}
    BY <1>10 DEF Left
  <2>2. Become(i, {})
    BY <1>1, <1>5, <1>8, <1>10, DoneIs
  <2>3. QED BY <1>1, <1>2, <1>3, <1>4, <1>5, <1>8, <1>10, <2>1, <2>2
<1>11. QED BY <1>1, <1>9, <1>10

LEMMA ListedIs ==
    ASSUME PageTyped, NEW s \in Scripts, s.base \in Seq(Nat), Numbers(s.base), s.new \in Nat, s.new <= Len(rows),
           s.at.view \in Views
    PROVE  /\ Listed(s, orders) \in [Views -> Seq(Nat)] /\ \A v \in Views : Numbers(Listed(s, orders)[v])
           /\ \A v \in Views : (s.list /\ v = s.at.view) \/ Listed(s, orders)[v] = orders[v]
           /\ s.list => /\ Listed(s, orders)[s.at.view] = Append(s.base, s.new)
                        /\ ToSet(Listed(s, orders)[s.at.view]) = ToSet(s.base) \cup {s.new}
<1>1. orders \in [Views -> Seq(Nat)] /\ \A v \in Views : Numbers(orders[v])
  BY DEF PageTyped, StoreTyped
<1> DEFINE q == Append(s.base, s.new)
<1>2. q \in Seq(Nat) /\ ToSet(q) = ToSet(s.base) \cup {s.new}
  BY MembersAre
<1>3. Numbers(q)
  BY <1>2 DEF Numbers
<1>0. s.list \in BOOLEAN
  BY DEF Scripts
<1>4. CASE s.list
  <2>1. Listed(s, orders) = [orders EXCEPT ![s.at.view] = q]
    BY <1>4 DEF Listed
  <2> HIDE DEF q
  <2>2. /\ Listed(s, orders) \in [Views -> Seq(Nat)] /\ Listed(s, orders)[s.at.view] = q
        /\ \A v \in Views : v # s.at.view => Listed(s, orders)[v] = orders[v]
    BY <1>1, <1>2, <2>1
  <2>3. Listed(s, orders)[s.at.view] = Append(s.base, s.new)
    BY <2>2 DEF q
  <2>4. QED BY <1>1, <1>2, <1>3, <1>4, <2>2, <2>3
<1>5. CASE ~s.list
  <2>1. Listed(s, orders) = orders
    BY <1>5 DEF Listed
  <2>2. QED BY <1>1, <1>5, <2>1
<1>6. QED BY <1>0, <1>4, <1>5

\* The new card is opened, and the page with it.
LEMMA ShowsWell ==
    ASSUME PageInv, NEW i \in DOMAIN scripts, NEW s, s = scripts[i], Head(s.todo) \in {"added", "copied"},
           scripts' = Done(i, s), NEW slip, s.new # NoCard /\ Doomed(s.new) => "doomed" \in slip,
           GoTo([s.at EXCEPT !.card = s.new], stored \cup {s.new}, Listed(s, orders), slip),
           UNCHANGED <<rows, orderRows, missed, news, added>>
    PROVE  PageInv'
<1> DEFINE to == [s.at EXCEPT !.card = s.new]
           v == s.at.view
           lists == Listed(s, orders)
           T == Left(s)
<1>1. /\ Become(i, T) /\ s.list \in BOOLEAN
      /\ s.new \in Ids /\ s.new # NoCard /\ s.new \in Nat /\ rows[s.new].board = s.at.board
      /\ ~Contains(s.todo, "delete") /\ IsAddress(s.at) /\ s.at \in Addresses /\ v \in Views
      /\ s.base \in Seq(Nat) /\ Numbers(s.base) /\ s.new <= Len(rows) /\ (s.list => rows[s.new].to = v)
      /\ \A t \in T : /\ IsScript(t) /\ s.list /\ t.list /\ Head(t.todo) = "order" /\ ~Contains(t.todo, "delete")
                      /\ t.at = s.at /\ t.base = s.base /\ t.new = s.new /\ t.show = s.show
  BY AddedIs DEF PageInv
<1>2. to.card = s.new /\ to.board = s.at.board /\ to.view = v /\ IsAddress(to)
  <2>1. to.card = s.new /\ to.board = s.at.board /\ to.view = v /\ to \in Addresses
    BY <1>1 DEF Addresses
  <2>2. QED BY <1>1, <2>1, ViewsAre DEF IsAddress
<1>3. /\ lists \in [Views -> Seq(Nat)] /\ \A w \in Views : Numbers(lists[w])
      /\ \A w \in Views : (s.list /\ w = v) \/ lists[w] = orders[w]
      /\ s.list => lists[v] = Append(s.base, s.new) /\ ToSet(lists[v]) = ToSet(s.base) \cup {s.new}
  <2>0. s \in Scripts /\ PageTyped
    BY ScriptIs DEF PageInv
  <2>1. s.base \in Seq(Nat) /\ Numbers(s.base) /\ s.new \in Nat /\ s.new <= Len(rows)
        /\ s.at.view \in Views
    BY <1>1
  <2>2. /\ Listed(s, orders) \in [Views -> Seq(Nat)] /\ \A w \in Views : Numbers(Listed(s, orders)[w])
        /\ \A w \in Views : (s.list /\ w = s.at.view) \/ Listed(s, orders)[w] = orders[w]
        /\ s.list => /\ Listed(s, orders)[s.at.view] = Append(s.base, s.new)
                     /\ ToSet(Listed(s, orders)[s.at.view]) = ToSet(s.base) \cup {s.new}
    BY ONLY <2>0, <2>1, ListedIs
  <2>3. QED BY <2>2
<1>4. Came(to, stored \cup {s.new}, lists) /\ slip \subseteq mishaps'
  BY <1>2, CameIs
<1>5. s.list => \E t \in T : TRUE
  BY DEF Left
<1> HIDE DEF to, lists, T, v
<1>6. /\ RowsKeep /\ Ids' = Ids /\ StoreTyped' /\ ListsTyped' /\ NewsTyped' /\ AddedTyped'
      /\ NewsAreTrue' /\ CardsAreTrue' /\ OrdersAreTrue'
  <2>1. stored \cup {s.new} \subseteq Ids
    BY <1>1 DEF PageInv, PageTyped, StoreTyped
  <2>2. \A c \in (stored \cup {s.new}) \ stored : rows[c].live \/ "doomed" \in mishaps'
    BY <1>1, <1>4 DEF Doomed
  <2>3. s.list => \E j \in DOMAIN scripts' : Carries(scripts'[j], v, lists[v])
    <3> SUFFICES ASSUME s.list PROVE \E j \in DOMAIN scripts' : Carries(scripts'[j], v, lists[v])
      OBVIOUS
    <3>1. PICK u \in T : TRUE
      BY <1>5
    <3>2. Carries(u, v, lists[v])
      BY <1>1, <1>3 DEF Carries, v
    <3>3. \E j \in DOMAIN scripts' : scripts'[j] = u
      BY <1>1 DEF Become
    <3>4. QED BY <3>2, <3>3
  <2>4. s.list /\ mishaps' \cap AddedSlips = {} => ToSet(orderRows[v]) \subseteq ToSet(lists[v])
    <3>1. mishaps' \cap AddedSlips = {} => mishaps \cap AddedSlips = {}
      BY <1>4 DEF Came
    <3>2. mishaps \cap AddedSlips = {} => AddsWell(s)
      BY DEF PageInv, AllListed, AllAddWell
    <3>3. QED BY <1>3, <3>1, <3>2 DEF AddsWell, v
  <2>5. \A w \in Views : \/ lists[w] = orders[w]
                          \/ /\ \E j \in DOMAIN scripts' : Carries(scripts'[j], w, lists[w])
                             /\ mishaps' \cap AddedSlips = {} => ToSet(orderRows[w]) \subseteq ToSet(lists[w])
    BY <1>3, <2>3, <2>4
  <2>6. \A w \in Views : \A m \in DOMAIN scripts :
            Writes(scripts[m], w) /\ lists[w] = orders[w] => \E j \in DOMAIN scripts' : Carries(scripts'[j], w, lists[w])
    <3> SUFFICES ASSUME NEW w \in Views, NEW m \in DOMAIN scripts, Writes(scripts[m], w), lists[w] = orders[w]
                 PROVE  \E j \in DOMAIN scripts' : Carries(scripts'[j], w, lists[w])
      OBVIOUS
    <3>1. m \in Rest(i)
      BY DEF Writes, Rest
    <3>2. \E j \in DOMAIN scripts' : scripts'[j] = scripts[m]
      BY <1>1, <3>1 DEF Become
    <3>3. QED BY <3>2 DEF Writes, ShowsAdded, Carries
  <2>7. QED BY <1>3, <1>4, <2>1, <2>2, <2>5, <2>6, StoreMoves
<1>7. /\ page' = to /\ mishaps \subseteq mishaps'
      /\ "older" \notin mishaps' => \A w \in Views : ToSet(lists[w]) \subseteq ToSet(orders'[w])
      /\ (orders' = lists \/ orders' = orderRows)
      /\ UNCHANGED <<rows, orderRows, missed, news, added>>
  BY <1>4 DEF Came
<1>8. PageTyped'
  <2>1. \A t \in T : IsScript(t)'
    BY <1>1, <1>6, StillTyped DEF PageInv
  <2>2. ScriptsTyped'
    BY <1>1, <1>6, <2>1, ScriptsStayTyped DEF PageInv
  <2>3. QED BY <1>6, <2>2 DEF PageTyped, RowsKeep
<1>9. OpenIsThere'
  <2>1. CASE Doomed(s.new)
    BY <1>1, <1>2, <1>4, <1>7, <2>1, OpenMoves
  <2>2. CASE ~Doomed(s.new)
    <3>1. rows[s.new].live /\ \A j \in DOMAIN scripts : ~Deletes(scripts[j], s.new)
      BY <2>2 DEF Doomed, Deletes
    <3>4. \A t \in T : ~Deletes(t, s.new)
      BY <1>1 DEF Deletes
    <3>2. \A j \in DOMAIN scripts' : ~Deletes(scripts'[j], s.new)
      <4>1. \A j \in DOMAIN scripts' : scripts'[j] \in T \/ \E m \in DOMAIN scripts : scripts'[j] = scripts[m]
        BY <1>1 DEF Become, Rest
      <4>2. QED BY <3>1, <3>4, <4>1
    <3>3. QED BY <1>1, <1>2, <1>7, <3>1, <3>2, OpenMoves
  <2>3. QED BY <2>1, <2>2
<1>10. ASSUME mishaps' \cap AddedSlips = {}
       PROVE  (\A c \in Ids : IsListed(c))' /\ NoBlanks' /\ AllAddWell' /\ AllInTurn' /\ UndoneAlone'
  <2>1. (\A c \in Ids : IsListed(c)) /\ NoBlanks /\ AllAddWell /\ AllInTurn /\ UndoneAlone
    BY <1>7, <1>10 DEF PageInv, AllListed
  <2>2. (\A c \in Ids : IsListed(c))'
    <3>1. \A c \in Ids : scripts[i].list /\ scripts[i].new = c => \E j \in DOMAIN scripts' : scripts'[j].list /\ scripts'[j].new = c
      BY <1>1, <1>5, SMTT(40) DEF Become
    <3>2. \A c \in Ids : ~Unadds(scripts[i], c)
      BY <1>1 DEF Unadds, Deletes
    <3>3. \A c \in Ids : rows'[c].live => rows[c].live
      BY <1>7
    <3>4. QED BY <1>1, <1>6, <1>7, <2>1, <3>1, <3>2, <3>3, ListedStay DEF PageInv
  <2>3. AddsWell(s) /\ NoBlank(s.base)
    BY <2>1 DEF AllAddWell, NoBlanks
  <2>4. NoBlanks'
    <3>1. \A w \in Views : NoBlank(lists[w])
      BY <1>1, <1>3, <2>1, <2>3 DEF NoBlanks, NoBlank
    <3>2. \A w \in Views : NoBlank(orders'[w])
      BY <1>7, <2>1, <3>1 DEF NoBlanks
    <3>3. \A j \in DOMAIN scripts' : NoBlank(scripts'[j].base)
      BY <1>1, <2>1, <2>3 DEF Become, Rest, NoBlanks
    <3>4. QED BY <1>7, <2>1, <3>2, <3>3 DEF NoBlanks, NoBlank
  <2>5. ASSUME NEW m \in Rest(i), scripts[m].list, scripts[m].at.view = v, s.list
        PROVE  m < i /\ InTurn(scripts[m], s)
    <3>1. m \in Int /\ i \in Int /\ m \in DOMAIN scripts /\ m # i
      BY <2>5 DEF Rest, PageInv, PageTyped, ScriptsTyped
    <3>2. ~(i < m)
      BY <2>1, <2>5, <3>1 DEF AllInTurn, InTurn, v
    <3>3. QED BY <2>1, <3>1, <3>2 DEF AllInTurn
  <2>6. ASSUME NEW u, NEW m \in Rest(i), u = scripts[m] PROVE AddsWell(u)'
    <3>1. AddsWell(u) /\ u.at.view \in Views
      BY <2>1, <2>6, ScriptIs DEF AllAddWell, Rest, PageInv
    <3>2. ASSUME lists[u.at.view] = orders[u.at.view] PROVE AddsWell(u)'
      <4>1. "older" \notin mishaps' => ToSet(orders[u.at.view]) \subseteq ToSet(orders'[u.at.view])
        BY <1>7, <3>1, <3>2
      <4>2. orders'[u.at.view] = orders[u.at.view] \/ orders'[u.at.view] = orderRows[u.at.view]
        BY <1>7, <3>2
      <4>3. QED BY <1>7, <3>1, <4>1, <4>2, KnowsMore
    <3>3. ASSUME ~u.list PROVE AddsWell(u)'
      BY <3>3 DEF AddsWell
    <3>4. ASSUME u.list, s.list, u.at.view = v PROVE AddsWell(u)'
      <4>1. /\ Head(u.todo) = "order" /\ u.new \in ToSet(s.base) /\ ToSet(u.base) \subseteq ToSet(s.base)
        BY <2>5, <2>6, <3>4 DEF InTurn, v
      <4>2. s.new \notin ToSet(s.base) /\ ToSet(orderRows[v]) \subseteq ToSet(s.base)
        BY <2>3, <3>4 DEF AddsWell, v
      <4>3. /\ u.new \in Ids /\ u.new \notin ToSet(u.base) /\ ToSet(orderRows[v]) \subseteq ToSet(u.base)
            /\ \A k \in DOMAIN news : news[k].view = v => Knows(news[k].order, u)
        BY <3>1, <3>4, <4>1 DEF AddsWell
      <4>4. Knows(orders'[v], u) /\ ("older" \notin mishaps' => u.new \in ToSet(orders'[v]))
        <5>1. CASE orders' = lists
          BY <1>3, <3>4, <4>1, <5>1 DEF Knows
        <5>2. CASE orders' = orderRows
          <6>1. s.new \in ToSet(lists[v]) /\ s.new \notin ToSet(orders'[v])
            BY <1>3, <3>4, <4>2, <5>2
          <6>2. "older" \in mishaps'
            BY <1>1, <1>7, <6>1
          <6>3. QED BY <4>3, <5>2, <6>2 DEF Knows
        <5>3. QED BY <1>7, <5>1, <5>2
      <4>5. QED BY <1>6, <1>7, <3>4, <4>3, <4>4 DEF AddsWell, Knows
    <3>5. QED BY <1>3, <3>1, <3>2, <3>3, <3>4
  <2>7. ASSUME NEW t \in T PROVE AddsWell(t)'
    <3>1. s.list /\ t.list /\ t.at.view = v /\ t.base = s.base /\ t.new = s.new /\ t.show = s.show /\ t.at = s.at
      BY <1>1 DEF v
    <3>2. /\ s.new \notin ToSet(s.base) /\ ToSet(orderRows[v]) \subseteq ToSet(s.base)
          /\ \A k \in DOMAIN news : news[k].view = v => Knows(news[k].order, s)
      BY <2>3, <3>1 DEF AddsWell, v
    <3>3. Knows(orders'[v], s) /\ ("older" \notin mishaps' => s.new \in ToSet(orders'[v]))
      <4>1. CASE orders' = lists
        BY <1>3, <3>1, <4>1 DEF Knows
      <4>2. CASE orders' = orderRows
        <5>1. s.new \in ToSet(lists[v]) /\ s.new \notin ToSet(orders'[v])
          BY <1>3, <3>1, <3>2, <4>2
        <5>2. "older" \in mishaps'
          BY <1>1, <1>7, <5>1
        <5>3. QED BY <5>1, <5>2 DEF Knows
      <4>3. QED BY <1>7, <4>1, <4>2
    <3>4. Knows(orders'[v], t) /\ \A k \in DOMAIN news : news[k].view = v => Knows(news[k].order, t)
      BY <3>1, <3>2, <3>3 DEF Knows
    <3>5. t.new \in Ids'
      BY <1>1, <1>6, <3>1
    <3>6. QED BY <1>7, <3>1, <3>2, <3>3, <3>4, <3>5 DEF AddsWell, Knows
  <2>8. AllAddWell'
    <3>1. \A j \in DOMAIN scripts' : \E u : u = scripts'[j] /\ AddsWell(u)'
      BY <1>1, <2>6, <2>7 DEF Become
    <3>2. QED BY ONLY <3>1, SMTT(40) DEF AllAddWell, AddsWell, Knows
  <2>9. AllInTurn'
    <3>1. ASSUME NEW t \in T, NEW m \in Rest(i)
          PROVE  /\ i < m => InTurn(t, scripts[m])
                 /\ m < i => InTurn(scripts[m], t)
      <4>1. s.list /\ t.at.view = v /\ t.base = s.base /\ t.new = s.new /\ s.at.view = v
        BY <1>1 DEF v
      <4>2. CASE scripts[m].list /\ scripts[m].at.view = v
        <5>1. m < i /\ InTurn(scripts[m], s) /\ ~(i < m)
          <6>1. m \in Int /\ i \in Int
            BY DEF Rest, PageInv, PageTyped, ScriptsTyped
          <6>2. QED BY <2>5, <4>1, <4>2, <6>1
        <5>2. QED BY <4>1, <4>2, <5>1 DEF InTurn
      <4>3. CASE ~(scripts[m].list /\ scripts[m].at.view = v)
        BY <4>1, <4>3 DEF InTurn
      <4>4. QED BY <4>2, <4>3
    <3>2. \A t \in T : t.list => \A m \in DOMAIN scripts : /\ i < m => InTurn(t, scripts[m])
                                                           /\ m < i => InTurn(scripts[m], t)
      <4>1. i \in Int
        BY DEF PageInv, PageTyped, ScriptsTyped
      <4>2. QED BY <3>1, <4>1 DEF Rest
    <3>3. QED BY <1>1, <2>1, <3>2, TurnsStay
  <2>10. UndoneAlone'
    BY <1>1, <2>1, UndoesStay
  <2>11. QED BY <2>2, <2>4, <2>8, <2>9, <2>10
<1>11. AllListed'
  BY <1>10 DEF AllListed
<1>12. QED BY <1>6, <1>8, <1>9, <1>11 DEF PageInv

\* The new card is not opened; a copy is put in the store.
LEMMA ComesQuietly ==
    ASSUME PageInv, NEW i \in DOMAIN scripts, NEW s, s = scripts[i], Head(s.todo) \in {"added", "copied"}, ~s.show,
           scripts' = Done(i, s), stored' = stored \/ stored' = stored \cup {s.new},
           stored' = stored \/ rows[s.new].live \/ "doomed" \in mishaps', mishaps \subseteq mishaps',
           UNCHANGED <<page, orders, rows, orderRows, missed, news, added>>
    PROVE  PageInv'
<1> DEFINE T == Left(s)
           v == s.at.view
<1>1. /\ Become(i, T) /\ s.list \in BOOLEAN
      /\ s.new \in Ids /\ s.new # NoCard /\ s.new \in Nat /\ rows[s.new].board = s.at.board
      /\ ~Contains(s.todo, "delete") /\ v \in Views /\ Numbers(s.base) /\ (s.list => rows[s.new].to = v)
      /\ \A t \in T : /\ IsScript(t) /\ s.list /\ t.list /\ Head(t.todo) = "order" /\ ~Contains(t.todo, "delete")
                      /\ t.at = s.at /\ t.base = s.base /\ t.new = s.new /\ t.show = s.show
  BY AddedIs DEF PageInv
<1>2. s.list => \E t \in T : TRUE
  BY DEF Left
<1> HIDE DEF T, v
<1>3. RowsKeep /\ Ids' = Ids
  BY DEF PageInv, PageTyped, RowsKeep, Ids
<1>4. PageTyped'
  <2>1. ListsTyped' /\ NewsTyped' /\ AddedTyped'
    BY <1>3, PartsStay DEF PageInv
  <2>2. \A t \in T : IsScript(t)'
    BY <1>1, <1>3, StillTyped DEF PageInv
  <2>3. ScriptsTyped'
    BY <1>1, <1>3, <2>2, ScriptsStayTyped DEF PageInv
  <2>4. StoreTyped'
    <3>1. stored' \subseteq Ids'
      BY <1>1, <1>3 DEF PageInv, PageTyped, StoreTyped
    <3>2. QED BY <3>1 DEF PageInv, PageTyped, StoreTyped, IsAddress, Numbers
  <2>5. QED BY <1>3, <2>1, <2>3, <2>4 DEF PageTyped, RowsKeep
<1>5. NewsAreTrue'
  BY NewsStay DEF PageInv, IsTrue, TrueThen
<1>6. CardsAreTrue'
  <2>1. SUFFICES ASSUME "doomed" \notin mishaps', NEW c \in Ids, rows[c].board = page.board
                 PROVE  (c \in stored' <=> rows[c].live) \/ CardComes(c)
    BY <1>3 DEF CardsAreTrue, CardComes
  <2>2. (c \in stored <=> rows[c].live) \/ CardComes(c)
    BY <2>1 DEF PageInv, CardsAreTrue
  <2>3. QED BY <2>1, <2>2
<1>7. OrdersAreTrue'
  <2>1. \A m \in DOMAIN scripts : \A w \in Views : Writes(scripts[m], w) => \E j \in DOMAIN scripts' : Writes(scripts'[j], w)
    <3> SUFFICES ASSUME NEW m \in DOMAIN scripts, NEW w \in Views, Writes(scripts[m], w)
                 PROVE  \E j \in DOMAIN scripts' : Writes(scripts'[j], w)
      OBVIOUS
    <3>1. m \in Rest(i)
      BY DEF Writes, Rest
    <3>2. \E j \in DOMAIN scripts' : scripts'[j] = scripts[m]
      BY <1>1, <3>1 DEF Become
    <3>3. QED BY <3>2 DEF Writes, ShowsAdded
  <2>2. QED BY <2>1, OrdersStayTrue DEF PageInv
<1>8. OpenIsThere'
  <2>1. \A t \in T : ~Deletes(t, page.card)
    BY <1>1 DEF Deletes
  <2>2. QED BY <1>1, <1>3, <2>1, OpenStaysThere DEF PageInv
<1>9. ASSUME mishaps' \cap AddedSlips = {}
      PROVE  (\A c \in Ids : IsListed(c))' /\ NoBlanks' /\ AllAddWell' /\ AllInTurn' /\ UndoneAlone'
  <2>1. (\A c \in Ids : IsListed(c)) /\ NoBlanks /\ AllAddWell /\ AllInTurn /\ UndoneAlone
    BY <1>9 DEF PageInv, AllListed
  <2>2. (\A c \in Ids : IsListed(c))'
    <3>1. \A c \in Ids : scripts[i].list /\ scripts[i].new = c => \E j \in DOMAIN scripts' : scripts'[j].list /\ scripts'[j].new = c
      BY <1>1, <1>2 DEF Become
    <3>2. \A c \in Ids : ~Unadds(scripts[i], c)
      BY <1>1 DEF Unadds, Deletes
    <3>3. QED BY <1>1, <1>3, <2>1, <3>1, <3>2, ListedStay DEF PageInv
  <2>3. AddsWell(s) /\ NoBlank(s.base)
    BY <2>1 DEF AllAddWell, NoBlanks
  <2>4. NoBlanks'
    <3>1. \A j \in DOMAIN scripts' : NoBlank(scripts'[j].base)
      BY <1>1, <2>1, <2>3 DEF Become, Rest, NoBlanks
    <3>2. QED BY <2>1, <3>1 DEF NoBlanks, NoBlank
  <2>5. AllAddWell'
    <3>1. \A t \in T : t.list => AddsWell(t)'
      <4> SUFFICES ASSUME NEW t \in T PROVE AddsWell(t)'
        OBVIOUS
      <4>1. s.list /\ t.list /\ t.at.view = s.at.view /\ t.base = s.base /\ t.new = s.new /\ ~t.show
        BY <1>1
      <4>2. /\ s.new \notin ToSet(s.base) /\ ToSet(orderRows[s.at.view]) \subseteq ToSet(s.base)
            /\ Knows(orders[s.at.view], s)
            /\ \A k \in DOMAIN news : news[k].view = s.at.view => Knows(news[k].order, s)
        BY <2>3, <4>1 DEF AddsWell
      <4>3. /\ t.new \in Ids' /\ t.new \notin ToSet(t.base) /\ ToSet(orderRows[t.at.view]) \subseteq ToSet(t.base)
            /\ Knows(orders[t.at.view], t)
            /\ \A k \in DOMAIN news : news[k].view = t.at.view => Knows(news[k].order, t)
        BY <1>1, <1>3, <4>1, <4>2 DEF Knows
      <4>4. QED BY <4>1, <4>3 DEF AddsWell, Knows
    <3>2. \A m \in Rest(i) : scripts[m].list =>
               /\ ToSet(orderRows'[scripts[m].at.view]) \subseteq ToSet(scripts[m].base)
               /\ \A k \in DOMAIN news' : news'[k].view = scripts[m].at.view => Knows(news'[k].order, scripts[m])
      BY <2>1 DEF AllAddWell, AddsWell, Rest
    <3>3. QED BY <1>1, <1>3, <2>1, <3>1, <3>2, AddsStay DEF PageInv
  <2>6. AllInTurn'
    <3>1. \A t \in T : \A m \in DOMAIN scripts : /\ i < m => InTurn(t, scripts[m])
                                                 /\ m < i => InTurn(scripts[m], t)
      <4> SUFFICES ASSUME NEW t \in T, NEW m \in DOMAIN scripts
                   PROVE  /\ i < m => InTurn(t, scripts[m])
                          /\ m < i => InTurn(scripts[m], t)
        OBVIOUS
      <4>1. s.list /\ t.list /\ t.at = s.at /\ t.base = s.base /\ t.new = s.new
        BY <1>1
      <4>2. i < m => ~(scripts[m].list /\ scripts[m].at.view = s.at.view)
        BY <2>1, <4>1 DEF AllInTurn, InTurn
      <4>3. m < i => InTurn(scripts[m], s)
        BY <2>1 DEF AllInTurn
      <4>4. QED BY <4>1, <4>2, <4>3 DEF InTurn
    <3>2. QED BY <1>1, <2>1, <3>1, TurnsStay
  <2>7. UndoneAlone'
    BY <1>1, <2>1, UndoesStay
  <2>8. QED BY <2>2, <2>4, <2>5, <2>6, <2>7
<1>10. AllListed'
  BY <1>9 DEF AllListed
<1>11. QED BY <1>4, <1>5, <1>6, <1>7, <1>8, <1>10 DEF PageInv

LEMMA AddedWell == ASSUME PageInv, NEW i \in DOMAIN scripts, CardAdded(i) PROVE PageInv'
<1> DEFINE s == scripts[i]
           slip == Mishap("doomed", s.new # NoCard /\ Doomed(s.new))
<1>1. Head(s.todo) \in {"added", "copied"} /\ scripts' = Done(i, s)
      /\ UNCHANGED <<rows, orderRows, missed, news, added>>
  BY DEF CardAdded, Step, server
<1>2. CASE s.show
  <2>1. GoTo([s.at EXCEPT !.card = s.new], stored \cup {s.new}, Listed(s, orders), slip)
    BY <1>2 DEF CardAdded, ShowCard
  <2>2. s.new # NoCard /\ Doomed(s.new) => "doomed" \in slip
    BY DEF Mishap
  <2> HIDE DEF slip
  <2>3. QED BY <1>1, <2>1, <2>2, ShowsWell
<1>3. CASE ~s.show
  <2>1. UNCHANGED <<page, stored, orders, mishaps>>
    BY <1>3 DEF CardAdded, address
  <2>2. QED BY <1>1, <1>3, <2>1, ComesQuietly
<1>4. QED BY <1>2, <1>3
LEMMA CopiedWell == ASSUME PageInv, NEW i \in DOMAIN scripts, CardCopied(i) PROVE PageInv'
<1> DEFINE s == scripts[i]
           slip == Mishap("doomed", s.new # NoCard /\ Doomed(s.new))
<1>1. Head(s.todo) \in {"added", "copied"} /\ scripts' = Done(i, s)
      /\ UNCHANGED <<rows, orderRows, missed, news, added>>
  BY DEF CardCopied, Step, server
<1>2. CASE s.show
  <2>1. GoTo([s.at EXCEPT !.card = s.new], stored \cup {s.new}, Listed(s, orders), slip)
    BY <1>2 DEF CardCopied, ShowCard
  <2>2. s.new # NoCard /\ Doomed(s.new) => "doomed" \in slip
    BY DEF Mishap
  <2> HIDE DEF slip
  <2>3. QED BY <1>1, <2>1, <2>2, ShowsWell
<1>3. CASE ~s.show
  <2>1. /\ stored' = stored \cup {s.new} /\ mishaps' = mishaps \cup Mishap("doomed", Doomed(s.new))
        /\ UNCHANGED <<page, orders>>
    BY <1>3 DEF CardCopied, address
  <2>2. rows[s.new].live \/ "doomed" \in mishaps'
    BY <2>1 DEF Mishap, Doomed
  <2>3. mishaps \subseteq mishaps'
    BY <2>1
  <2>4. QED BY <1>1, <1>3, <2>1, <2>2, <2>3, ComesQuietly
<1>4. QED BY <1>2, <1>3

\* The dialog closes after a deletion, or before an undo deletes the card.
LEMMA ClosesWell == ASSUME PageInv, NEW i \in DOMAIN scripts, DialogClosed(i) PROVE PageInv'
<1> DEFINE s == scripts[i]
           t == Further(s)
           T == IF Len(s.todo) = 1 THEN {} ELSE {t}
           to == [s.at EXCEPT !.card = NoCard]
           slip == Mishap("doomed", NoCard # NoCard /\ Doomed(NoCard))
<1>1. /\ Head(s.todo) = "close" /\ s = scripts[i] /\ scripts' = Done(i, s) /\ t = Further(s)
      /\ UNCHANGED <<rows, orderRows, missed, news, added>> /\ missed \subseteq missed'
  BY DEF DialogClosed, Step, server
<1>2. GoTo(to, stored, orders, slip)
  BY DEF DialogClosed, ShowCard
<1> HIDE DEF t, slip
<1>3. /\ ~s.list /\ s \in Scripts /\ s.at.view \in Views
      /\ Len(s.todo) # 1 => /\ IsScript(t) /\ t \in Scripts /\ ~t.list /\ t.base = s.base /\ t.card = s.card /\ t.new = s.new
                            /\ Head(t.todo) \in {"close", "delete"}
                            /\ Contains(t.todo, "delete") <=> Contains(s.todo, "delete")
      /\ Len(s.todo) = 1 => ~Contains(s.todo, "delete")
  <2>1. Head(s.todo) \in {"delete", "close", "unorder"} /\ Head(s.todo) # "delete"
    BY <1>1
  <2>2. ~s.list /\ s \in Scripts /\ s.at.view \in Views /\ s.todo \in OtherSteps
    BY <1>1, <2>1, RestIs DEF PageInv
  <2>3. ASSUME Len(s.todo) # 1
        PROVE  /\ IsScript(t) /\ t \in Scripts /\ ~t.list /\ t.base = s.base /\ t.card = s.card /\ t.new = s.new
               /\ Head(t.todo) \in {"close", "delete"}
               /\ Contains(t.todo, "delete") <=> Contains(s.todo, "delete")
    BY <1>1, <2>1, <2>3, RestIs DEF PageInv
  <2>4. Len(s.todo) = 1 => ~Contains(s.todo, "delete")
    BY <1>1, <2>2, OtherStepsAre
  <2>5. QED BY <2>2, <2>3, <2>4
<1>4. Become(i, T)
  BY <1>1, <1>3, DoneIs DEF PageInv
<1>5. \A u \in T : u = t /\ Len(s.todo) # 1
  OBVIOUS
<1>6. Len(s.todo) # 1 => t \in T
  OBVIOUS
<1>7. to.card = NoCard /\ to.view = s.at.view /\ IsAddress(to)
  <2>1. IsAddress(s.at) /\ s.at \in Addresses
    BY <1>1, ScriptIs DEF PageInv, IsScript, IsAddress
  <2>2. to.card = NoCard /\ to.board = s.at.board /\ to.view = s.at.view /\ to \in Addresses
    BY <2>1 DEF Addresses, NoCard
  <2>3. NoCard <= Len(rows)
    BY DEF PageInv, PageTyped, NoCard
  <2>4. QED BY <1>3, <2>1, <2>2, <2>3, ViewsAre DEF IsAddress
<1>8. Came(to, stored, orders)
  BY <1>1, <1>2, <1>7, CameIs
<1> HIDE DEF T, to
<1>9. /\ RowsKeep /\ Ids' = Ids /\ StoreTyped' /\ ListsTyped' /\ NewsTyped' /\ AddedTyped'
      /\ NewsAreTrue' /\ CardsAreTrue' /\ OrdersAreTrue'
  <2>1. stored \subseteq Ids /\ orders \in [Views -> Seq(Nat)] /\ \A v \in Views : Numbers(orders[v])
    BY DEF PageInv, PageTyped, StoreTyped
  <2>2. \A w \in Views : \A m \in DOMAIN scripts :
            Writes(scripts[m], w) => \E j \in DOMAIN scripts' : Carries(scripts'[j], w, orders[w])
    <3> SUFFICES ASSUME NEW w \in Views, NEW m \in DOMAIN scripts, Writes(scripts[m], w)
                 PROVE  \E j \in DOMAIN scripts' : Carries(scripts'[j], w, orders[w])
      OBVIOUS
    <3>1. m \in Rest(i)
      BY <1>1 DEF Writes, Rest
    <3>2. \E j \in DOMAIN scripts' : scripts'[j] = scripts[m]
      BY <1>4, <3>1 DEF Become
    <3>3. QED BY <3>2 DEF Writes, ShowsAdded, Carries
  <2>3. QED BY <1>8, <2>1, <2>2, StoreMoves
<1>10. /\ page' = to /\ mishaps \subseteq mishaps' /\ (orders' = orders \/ orders' = orderRows)
       /\ "older" \notin mishaps' => \A v \in Views : ToSet(orders[v]) \subseteq ToSet(orders'[v])
  BY <1>8 DEF Came
<1>11. PageTyped'
  <2>1. \A u \in T : IsScript(u)'
    BY <1>3, <1>5, <1>9, StillTyped DEF PageInv
  <2>2. ScriptsTyped'
    BY <1>4, <1>9, <2>1, ScriptsStayTyped DEF PageInv
  <2>3. QED BY <1>9, <2>2 DEF PageTyped, RowsKeep
<1>12. OpenIsThere'
  BY <1>1, <1>7, <1>10, OpenMoves
<1>13. ASSUME mishaps' \cap AddedSlips = {}
       PROVE  (\A c \in Ids : IsListed(c))' /\ NoBlanks' /\ AllAddWell' /\ AllInTurn' /\ UndoneAlone'
  <2>1. (\A c \in Ids : IsListed(c)) /\ NoBlanks /\ AllAddWell /\ AllInTurn /\ UndoneAlone
    BY <1>10, <1>13 DEF PageInv, AllListed
  <2>2. (\A c \in Ids : IsListed(c))'
    <3>1. \A c \in Ids : Unadds(scripts[i], c) => \E j \in DOMAIN scripts' : Unadds(scripts'[j], c)
      <4> SUFFICES ASSUME NEW c \in Ids, Unadds(s, c) PROVE \E j \in DOMAIN scripts' : Unadds(scripts'[j], c)
        BY <1>1
      <4>1. Len(s.todo) # 1 /\ Unadds(t, c)
        BY <1>3 DEF Unadds, Deletes
      <4>2. \E j \in DOMAIN scripts' : scripts'[j] = t
        BY <1>4, <1>6, <4>1 DEF Become
      <4>3. QED BY <4>1, <4>2
    <3>2. \A c \in Ids : ~(scripts[i].list /\ scripts[i].new = c)
      BY <1>1, <1>3
    <3>3. QED BY <1>1, <1>4, <1>9, <2>1, <3>1, <3>2, ListedStay DEF PageInv
  <2>3. NoBlanks'
    <3>1. \A j \in DOMAIN scripts' : NoBlank(scripts'[j].base)
      BY <1>1, <1>3, <1>4, <1>5, <2>1 DEF Become, Rest, NoBlanks
    <3>2. QED BY <1>1, <1>10, <2>1, <3>1 DEF NoBlanks, NoBlank
  <2>4. AllAddWell'
    <3>1. \A u \in T : AddsWell(u)'
      BY <1>3, <1>5 DEF AddsWell
    <3>2. \A m \in Rest(i) : \E u : u = scripts[m] /\ AddsWell(u)'
      <4>1. \A m \in Rest(i) : scripts[m].at.view \in Views /\ AddsWell(scripts[m])
        BY <2>1, ScriptIs DEF PageInv, AllAddWell, Rest
      <4>2. UNCHANGED <<rows, orderRows, news>>
        BY <1>1
      <4>3. \A u : AddsWell(u) /\ u.at.view \in Views => AddsWell(u)'
        BY <1>10, <4>2, KnowsMore
      <4>4. QED BY <4>1, <4>3
    <3>3. \A j \in DOMAIN scripts' : \E u : u = scripts'[j] /\ AddsWell(u)'
      <4> TAKE j \in DOMAIN scripts'
      <4>1. CASE scripts'[j] \in T
        <5>1. PICK u \in T : u = scripts'[j]
          BY <4>1
        <5>2. AddsWell(u)'
          BY <3>1 DEF AddsWell
        <5>3. QED BY <5>1, <5>2
      <4>2. CASE \E m \in Rest(i) : scripts'[j] = scripts[m]
        BY <3>2, <4>2
      <4>3. QED BY <1>4, <4>1, <4>2 DEF Become
    <3>4. QED BY <3>3 DEF AllAddWell, AddsWell, Knows
  <2>5. AllInTurn' /\ UndoneAlone'
    <3>1. \A u \in T : ~u.list /\ Head(u.todo) # "unorder"
      BY <1>3, <1>5
    <3>2. QED BY <1>1, <1>4, <2>1, <3>1, TurnsStay, UndoesStay
  <2>6. QED BY <2>2, <2>3, <2>4, <2>5
<1>14. AllListed'
  BY <1>13 DEF AllListed
<1>15. QED BY <1>9, <1>11, <1>12, <1>14 DEF PageInv

\* The steps of Serve and Continue.
LEMMA RowIs ==
    ASSUME PageTyped, NEW i \in DOMAIN scripts, NEW s, s = scripts[i], NEW titled \in BOOLEAN
    PROVE  /\ RowOf(s, titled) \in Rows /\ RowOf(s, titled).board = s.at.board /\ RowOf(s, titled).live
           /\ RowOf(s, titled).to = IF s.list THEN s.at.view ELSE NoView
<1>1. s \in Scripts /\ s.at \in Addresses /\ s.at.view \in Views /\ s.template \in BOOLEAN /\ s.at.board \in Boards
  BY ScriptIs DEF IsScript, Scripts, Addresses
<1>2. QED BY <1>1 DEF RowOf, Rows
LEMMA InsertWell == ASSUME PageInv, NEW i \in DOMAIN scripts, InsertBlock(i) PROVE PageInv'
<1> DEFINE s == scripts[i]
           x == RowOf(s, FALSE)
<1>1. /\ Head(s.todo) \in {"insert", "duplicate"} /\ rows' = Append(rows, x)
      /\ scripts' = Done(i, [s EXCEPT !.new = Len(rows) + 1]) /\ news' = Append(news, CardNews(Len(rows) + 1, TRUE))
      /\ UNCHANGED <<page, stored, orders, orderRows, missed, added, mishaps>>
  BY DEF InsertBlock, Step, address, store
<1>2. x \in Rows /\ x.board = s.at.board /\ x.live /\ x.to = IF s.list THEN s.at.view ELSE NoView
  BY RowIs DEF PageInv
<1> HIDE DEF x
<1>3. \E r, T, t, c, n : CardCame(i, r, T, t, c, n)
  BY <1>1, <1>2, CardCameIs DEF PageInv
<1>4. QED BY <1>3, CardComesWell
LEMMA DuplicateWell == ASSUME PageInv, NEW i \in DOMAIN scripts, DuplicateBlock(i) PROVE PageInv'
<1> DEFINE s == scripts[i]
           e == s.template \/ ~rows[s.card].template
           x == RowOf(s, e)
<1>1. /\ Head(s.todo) \in {"insert", "duplicate"} /\ rows' = Append(rows, x)
      /\ scripts' = Done(i, [s EXCEPT !.new = Len(rows) + 1]) /\ news' = Append(news, CardNews(Len(rows) + 1, TRUE))
      /\ UNCHANGED <<page, stored, orders, orderRows, missed, added, mishaps>>
  BY DEF DuplicateBlock, Step, address, store
<1>2. x \in Rows /\ x.board = s.at.board /\ x.live /\ x.to = IF s.list THEN s.at.view ELSE NoView
  <2>1. e \in BOOLEAN
    OBVIOUS
  <2> HIDE DEF e
  <2>2. QED BY <2>1, RowIs DEF PageInv
<1> HIDE DEF x
<1>3. \E r, T, t, c, n : CardCame(i, r, T, t, c, n)
  BY <1>1, <1>2, CardCameIs DEF PageInv
<1>4. QED BY <1>3, CardComesWell
\* A copy whose patch was not answered is one of the additions the server has only in part.
LEMMA CopyEndsWell == ASSUME PageInv, NEW i \in DOMAIN scripts, CopyPatchFails(i) PROVE PageInv'
<1> DEFINE s == scripts[i]
           x == RowOf(s, rows[s.card].titled)
           part == [s EXCEPT !.list = FALSE, !.new = Len(rows) + 1]
<1>1. /\ Head(s.todo) \in {"insert", "duplicate"} /\ rows' = Append(rows, x)
      /\ news' = Append(news, CardNews(Len(rows) + 1, TRUE))
      /\ rows[s.card].live /\ Step(i, "duplicate") /\ mishaps \subseteq mishaps'
      /\ UNCHANGED <<page, stored, orders, orderRows, added>>
  BY DEF CopyPatchFails, Step, address, store
<1>2. \/ scripts' = Drop(i) /\ missed' = missed \cup {part}
      \/ scripts' = Done(i, [s EXCEPT !.new = Len(rows) + 1]) /\ missed' = missed
  BY DEF CopyPatchFails
<1>3. part.new = Len(rows) + 1
  BY ScriptIs DEF PageInv, Scripts
<1>4. x \in Rows /\ x.board = s.at.board /\ x.live /\ x.to = IF s.list THEN s.at.view ELSE NoView
  <2>1. s.card \in Ids
    BY <1>1, ScriptIs DEF PageInv, IsScript, Step
  <2>2. rows[s.card].titled \in BOOLEAN
    <3>1. rows[s.card] \in Rows
      BY <2>1 DEF PageInv, PageTyped, Ids
    <3>2. QED BY <3>1 DEF Rows
  <2>3. QED BY <2>2, RowIs DEF PageInv
<1> HIDE DEF x, part
<1>5. /\ missed \subseteq missed'
      /\ \/ scripts' = Done(i, [s EXCEPT !.new = Len(rows) + 1])
         \/ scripts' = Drop(i) /\ \E m \in missed' : m.new = Len(rows) + 1
  BY <1>2, <1>3
<1>6. \E r, T, t, c, n : CardCame(i, r, T, t, c, n)
  BY <1>1, <1>4, <1>5, CardCameIs DEF PageInv
<1>7. QED BY <1>6, CardComesWell
LEMMA InsertEndsWell == ASSUME PageInv, NEW i \in DOMAIN scripts, InsertFails(i) PROVE PageInv'
<1>1. /\ Head(scripts[i].todo) \in {"insert", "duplicate"} /\ scripts' = Drop(i) /\ mishaps \subseteq mishaps'
      /\ UNCHANGED <<page, stored, orders, rows, orderRows, missed, news, added>>
  BY DEF InsertFails, Step, address, store, server
<1>2. Become(i, {})
  BY <1>1, DropIs DEF PageInv
<1>3. QED BY <1>1, <1>2, FailsWell
LEMMA DuplicateEndsWell == ASSUME PageInv, NEW i \in DOMAIN scripts, DuplicateFails(i) PROVE PageInv'
<1> DEFINE s == scripts[i]
           t == [s EXCEPT !.todo = <<"order">>, !.new = NoCard]
<1>1. /\ Head(s.todo) \in {"insert", "duplicate"} /\ mishaps \subseteq mishaps'
      /\ UNCHANGED <<page, stored, orders, rows, orderRows, missed, news, added>>
      /\ s.list => scripts' = [scripts EXCEPT ![i].todo = <<"order">>, ![i].new = NoCard] /\ "blank" \in mishaps'
      /\ ~s.list => scripts' = Drop(i)
  BY DEF DuplicateFails, Step, address, store, server
<1>2. IsScript(s) /\ s \in Scripts
  BY ScriptIs DEF PageInv
<1>3. CASE ~s.list
  <2>1. Become(i, {})
    BY <1>1, <1>3, DropIs DEF PageInv
  <2>2. QED BY <1>1, <2>1, FailsWell
<1>4. CASE s.list
  <2>1. <<"order">> \in ListSteps /\ Head(<<"order">>) = "order" /\ ~Contains(<<"order">>, "delete")
    BY DEF ListSteps, Contains
  <2>2. /\ t \in Scripts /\ t.todo = <<"order">> /\ t.card = s.card /\ t.list = s.list /\ t.at = s.at
        /\ t.base = s.base /\ t.new = NoCard
    BY <1>2, <2>1 DEF Scripts, NoCard
  <2>3. scripts' = [scripts EXCEPT ![i] = t]
    <3>1. scripts \in Seq(Scripts)
      BY DEF PageInv, PageTyped, ScriptsTyped
    <3>2. QED BY <1>1, <1>4, <3>1
  <2> HIDE DEF t
  <2>4. Become(i, {t})
    BY <2>2, <2>3, PutIs DEF PageInv, PageTyped, ScriptsTyped
  <2>5. IsScript(t) /\ t.list /\ Head(t.todo) = "order"
    <3>1. t.list /\ Head(t.todo) = "order" /\ ~Contains(t.todo, "delete") /\ Head(t.todo) \notin {"added", "copied", "insert", "duplicate"}
      BY <1>4, <2>1, <2>2
    <3>2. NoCard <= Len(rows)
      BY DEF PageInv, PageTyped, NoCard
    <3>3. IsAddress(s.at) /\ s.at.view \in Views /\ Numbers(s.base)
      BY <1>2 DEF IsScript
    <3>4. IsAddress(t.at) /\ t.at.view \in Views /\ Numbers(t.base) /\ t.new <= Len(rows)
      BY <2>2, <3>2, <3>3
    <3>5. QED BY <2>1, <2>2, <3>1, <3>4 DEF IsScript
  <2>6. QED BY <1>1, <1>4, <2>4, <2>5, FailsWell
<1>5. QED BY <1>3, <1>4
LEMMA ServesWell == ASSUME PageInv, NEW i \in DOMAIN scripts, Serve(i) \/ Continue(i) PROVE PageInv'
BY InsertWell, InsertEndsWell, DuplicateWell, DuplicateEndsWell, CopyEndsWell, WritesWell, DeletesWell, PutsBackWell,
   RefusesWell, AddedWell, CopiedWell, ClosesWell DEF Serve, Continue

-----------------------------------------------------------------------------
(* CardPage: what the user starts.                                         *)

\* New scripts come after the others; of those that write an order only one.
Newest == DOMAIN scripts' \ DOMAIN scripts
Joined(T) ==
    /\ scripts' \in Seq(Scripts)
    /\ \A j \in DOMAIN scripts : j \in DOMAIN scripts' /\ scripts'[j] = scripts[j]
    /\ \A j \in Newest : scripts'[j] \in T
    /\ \A j \in DOMAIN scripts : \A k \in Newest : j < k
    /\ \A j, k \in Newest : j = k \/ ~scripts'[j].list
LEMMA JoinIs ==
    ASSUME PageTyped, NEW new \in Seq(Scripts), scripts' = scripts \o new,
           Len(new) <= 1 \/ \A k \in DOMAIN new : ~new[k].list
    PROVE  Joined({new[k] : k \in DOMAIN new})
<1>1. scripts \in Seq(Scripts)
  BY DEF PageTyped, ScriptsTyped
<1>2. /\ scripts' \in Seq(Scripts) /\ Len(scripts') = Len(scripts) + Len(new)
      /\ \A j \in 1 .. Len(scripts) : scripts'[j] = scripts[j]
      /\ \A k \in 1 .. Len(new) : scripts'[Len(scripts) + k] = new[k]
  BY <1>1
<1>3. /\ DOMAIN scripts = 1 .. Len(scripts) /\ DOMAIN new = 1 .. Len(new) /\ DOMAIN scripts' = 1 .. Len(scripts')
      /\ Len(scripts) \in Nat /\ Len(new) \in Nat
  BY <1>1, <1>2
<1>4. \A j \in Newest : \E k \in DOMAIN new : j = Len(scripts) + k /\ scripts'[j] = new[k]
  <2> TAKE j \in Newest
  <2>1. j \in Int /\ j > Len(scripts) /\ j <= Len(scripts) + Len(new)
    BY <1>2, <1>3 DEF Newest
  <2>2. j - Len(scripts) \in 1 .. Len(new) /\ j = Len(scripts) + (j - Len(scripts))
    BY <1>3, <2>1
  <2>3. QED BY <1>2, <1>3, <2>2
<1>5. \A j, k \in Newest : j = k \/ ~scripts'[j].list
  <2> TAKE j, k \in Newest
  <2>1. CASE Len(new) <= 1
    BY <1>3, <1>4, <2>1
  <2>2. CASE \A m \in DOMAIN new : ~new[m].list
    BY <1>4, <2>2
  <2>3. QED BY <2>1, <2>2
<1>6. \A j \in DOMAIN scripts : \A k \in Newest : j < k
  BY <1>3, <1>4
<1>7. \A j \in DOMAIN scripts : j \in DOMAIN scripts' /\ scripts'[j] = scripts[j]
  BY <1>2, <1>3
<1>8. QED BY <1>2, <1>4, <1>5, <1>6, <1>7 DEF Joined

LEMMA JoinsWell ==
    ASSUME PageInv, NEW T, Joined(T), \A t \in T : IsScript(t), added' = added \/ added' = <<>>,
           UNCHANGED <<page, stored, orders, rows, orderRows, news>>, mishaps \subseteq mishaps', missed \subseteq missed',
           \A t \in T : page.card # NoCard /\ Deletes(t, page.card) => Head(t.todo) = "delete" /\ Len(t.todo) = 2,
           \A t \in T : Head(t.todo) = "unorder" =>
               /\ scripts = <<>> /\ \A u \in T : ~u.list
               /\ t.card = t.new /\ (Contains(t.todo, "delete") \/ \E m \in missed' : m.new = t.new),
           mishaps' \cap AddedSlips = {} =>
               \A t \in T : /\ NoBlank(t.base)
                            /\ t.list => /\ AddsWell(t)
                                         /\ \A m \in DOMAIN scripts : InTurn(scripts[m], t) /\ Head(scripts[m].todo) # "unorder"
    PROVE  PageInv'
<1>1. RowsKeep /\ Ids' = Ids
  BY DEF PageInv, PageTyped, RowsKeep, Ids
<1>2. /\ \A j \in DOMAIN scripts : j \in DOMAIN scripts' /\ scripts'[j] = scripts[j]
      /\ \A j \in DOMAIN scripts' : \/ j \in DOMAIN scripts /\ scripts'[j] = scripts[j]
                                    \/ j \in Newest /\ scripts'[j] \in T
  BY DEF Joined, Newest
<1>3. PageTyped'
  <2>1. StoreTyped' /\ ListsTyped' /\ NewsTyped'
    BY <1>1, PartsStay DEF PageInv
  <2>2. AddedTyped'
    <3>1. CASE added' = added
      BY <1>1, <3>1, PartsStay DEF PageInv
    <3>2. CASE added' = <<>>
      BY <3>2 DEF AddedTyped
    <3>3. QED BY <3>1, <3>2
  <2>3. ScriptsTyped'
    <3>1. \A s : IsScript(s) => IsScript(s)'
      BY <1>1, StillTyped DEF PageInv
    <3>2. \A j \in DOMAIN scripts' : \E s : s = scripts'[j] /\ IsScript(s)'
      BY <1>2, <3>1 DEF PageInv, PageTyped, ScriptsTyped
    <3>3. QED BY <3>2 DEF Joined, ScriptsTyped, IsScript
  <2>4. QED BY <1>1, <2>1, <2>2, <2>3 DEF PageTyped, RowsKeep
<1>4. NewsAreTrue'
  BY NewsStay DEF PageInv, IsTrue, TrueThen
<1>5. CardsAreTrue'
  BY <1>1, CardsStayTrue DEF PageInv
<1>6. OrdersAreTrue'
  <2>1. \A m \in DOMAIN scripts : \A v \in Views : Writes(scripts[m], v) => \E j \in DOMAIN scripts' : Writes(scripts'[j], v)
    BY <1>2
  <2>2. QED BY <2>1, OrdersStayTrue DEF PageInv
<1>7. OpenIsThere'
  <2>1. SUFFICES ASSUME mishaps' \cap {"doomed", "another"} = {}, page.card # NoCard
        PROVE  /\ rows[page.card].board = page.board
               /\ \A j \in DOMAIN scripts' : Deletes(scripts'[j], page.card) => Head(scripts'[j].todo) = "delete" /\ Len(scripts'[j].todo) = 2
               /\ rows[page.card].live \/ \E j \in DOMAIN scripts' : Head(scripts'[j].todo) = "close"
    BY DEF OpenIsThere, Deletes
  <2>2. /\ rows[page.card].board = page.board
        /\ \A j \in DOMAIN scripts : Deletes(scripts[j], page.card) => Head(scripts[j].todo) = "delete" /\ Len(scripts[j].todo) = 2
        /\ rows[page.card].live \/ \E j \in DOMAIN scripts : Head(scripts[j].todo) = "close"
    BY <2>1 DEF PageInv, OpenIsThere
  <2>3. \A j \in DOMAIN scripts' : Deletes(scripts'[j], page.card) => Head(scripts'[j].todo) = "delete" /\ Len(scripts'[j].todo) = 2
    BY <1>2, <2>1, <2>2
  <2>4. rows[page.card].live \/ \E j \in DOMAIN scripts' : Head(scripts'[j].todo) = "close"
    BY <1>2, <2>2
  <2>5. QED BY <2>2, <2>3, <2>4
<1>8. ASSUME mishaps' \cap AddedSlips = {}
      PROVE  (\A c \in Ids : IsListed(c))' /\ NoBlanks' /\ AllAddWell' /\ AllInTurn' /\ UndoneAlone'
  <2>1. (\A c \in Ids : IsListed(c)) /\ NoBlanks /\ AllAddWell /\ AllInTurn /\ UndoneAlone
    BY <1>8 DEF PageInv, AllListed
  <2>2. \A t \in T : /\ NoBlank(t.base)
                     /\ t.list => /\ AddsWell(t)
                                  /\ \A m \in DOMAIN scripts : InTurn(scripts[m], t) /\ Head(scripts[m].todo) # "unorder"
    BY <1>8
  <2>3. (\A c \in Ids : IsListed(c))'
    <3> SUFFICES ASSUME NEW c \in Ids, rows[c].live, rows[c].to # NoView, ~(c \in ToSet(orderRows[rows[c].to]))
                 PROVE  \/ \E j \in DOMAIN scripts' : scripts'[j].list /\ scripts'[j].new = c
                        \/ \E j \in DOMAIN scripts' : Unadds(scripts'[j], c)
                        \/ \E m \in missed' : m.new = c
      BY <1>1 DEF IsListed, Unadds, Deletes, Misses
    <3>1. \/ \E j \in DOMAIN scripts : scripts[j].list /\ scripts[j].new = c
          \/ \E j \in DOMAIN scripts : Unadds(scripts[j], c)
          \/ \E m \in missed : m.new = c
      BY <2>1 DEF IsListed, Misses
    <3>2. QED BY <1>2, <3>1
  <2>4. NoBlanks'
    <3>1. \A j \in DOMAIN scripts' : NoBlank(scripts'[j].base)
      BY <1>2, <2>1, <2>2 DEF NoBlanks
    <3>2. QED BY <2>1, <3>1 DEF NoBlanks, NoBlank
  <2>5. AllAddWell'
    <3>1. \A u : AddsWell(u) => AddsWell(u)'
      BY <1>1 DEF AddsWell, Knows
    <3>2. \A j \in DOMAIN scripts' : AddsWell(scripts'[j])
      <4>1. \A t \in T : AddsWell(t)
        BY <2>2 DEF AddsWell
      <4>2. QED BY <1>2, <2>1, <4>1 DEF AllAddWell
    <3>3. \A j \in DOMAIN scripts' : \E u : u = scripts'[j] /\ AddsWell(u)'
      BY <3>1, <3>2
    <3>4. QED BY ONLY <3>3, SMTT(40) DEF AllAddWell, AddsWell, Knows
  <2>6. AllInTurn'
    <3>1. ASSUME NEW j \in DOMAIN scripts', NEW k \in DOMAIN scripts', j < k PROVE InTurn(scripts'[j], scripts'[k])
      <4>1. CASE k \in DOMAIN scripts
        <5>1. j \in DOMAIN scripts
          <6>1. DOMAIN scripts = 1 .. Len(scripts) /\ Len(scripts) \in Nat /\ DOMAIN scripts' = 1 .. Len(scripts') /\ Len(scripts') \in Nat
            BY DEF PageInv, PageTyped, ScriptsTyped, Joined
          <6>2. QED BY <3>1, <4>1, <6>1
        <5>2. QED BY <1>2, <2>1, <3>1, <4>1, <5>1 DEF AllInTurn
      <4>2. CASE k \in Newest /\ scripts'[k] \in T
        <5>1. CASE j \in DOMAIN scripts
          <6>1. scripts'[k].list => InTurn(scripts'[j], scripts'[k])
            BY <1>2, <2>2, <4>2, <5>1
          <6>2. QED BY <6>1 DEF InTurn
        <5>2. CASE j \in Newest
          <6>1. j # k
            <7>1. j \in Int /\ k \in Int
              BY DEF Joined
            <7>2. QED BY <3>1, <7>1
          <6>2. ~scripts'[j].list
            BY <4>2, <5>2, <6>1 DEF Joined
          <6>3. QED BY <6>2 DEF InTurn
        <5>3. QED BY <5>1, <5>2 DEF Newest
      <4>3. QED BY <1>2, <4>1, <4>2
    <3>2. QED BY <3>1 DEF AllInTurn, InTurn
  <2>7. UndoneAlone'
    <3>1. ASSUME NEW j \in DOMAIN scripts', NEW k \in DOMAIN scripts', Head(scripts'[j].todo) = "unorder" PROVE ~scripts'[k].list
      <4>1. CASE j \in DOMAIN scripts
        BY <1>2, <2>1, <2>2, <3>1, <4>1 DEF UndoneAlone
      <4>2. CASE scripts'[j] \in T
        <5>1. scripts = <<>> /\ \A u \in T : ~u.list
          BY <3>1, <4>2
        <5>2. DOMAIN scripts = {}
          BY <5>1
        <5>3. QED BY <1>2, <5>1, <5>2
      <4>3. QED BY <1>2, <4>1, <4>2
    <3>2. ASSUME NEW j \in DOMAIN scripts', Head(scripts'[j].todo) = "unorder"
          PROVE  /\ scripts'[j].card = scripts'[j].new
                 /\ Contains(scripts'[j].todo, "delete") \/ \E m \in missed' : m.new = scripts'[j].new
      <4>1. CASE j \in DOMAIN scripts /\ scripts'[j] = scripts[j]
        BY <2>1, <3>2, <4>1 DEF UndoneAlone, Undoes, Misses
      <4>2. CASE scripts'[j] \in T
        BY <3>2, <4>2
      <4>3. QED BY <1>2, <4>1, <4>2
    <3>3. QED BY <3>1, <3>2 DEF UndoneAlone, Undoes, Misses
  <2>8. QED BY <2>3, <2>4, <2>5, <2>6, <2>7
<1>9. AllListed'
  BY <1>8 DEF AllListed
<1>10. QED BY <1>3, <1>4, <1>5, <1>6, <1>7, <1>9 DEF PageInv

\* An addition that is not blind knows all that is and will be in the order.
LEMMA SeesAll ==
    ASSUME PageInv, ~Blind, mishaps \cap AddedSlips = {}, page.view \in Views, NEW t, t.list, t.at.view = page.view,
           t.base = orders[page.view], t.new = NoCard, Head(t.todo) # "order"
    PROVE  /\ NoBlank(t.base) /\ AddsWell(t)
           /\ \A m \in DOMAIN scripts : InTurn(scripts[m], t) /\ Head(scripts[m].todo) # "unorder"
<1> DEFINE v == page.view
<1>1. (\A c \in Ids : IsListed(c)) /\ NoBlanks /\ AllAddWell /\ AllInTurn /\ UndoneAlone
  BY DEF PageInv, AllListed
<1>2. NoBlank(t.base) /\ NoBlank(orders[v]) /\ \A k \in DOMAIN news : NoBlank(news[k].order)
  BY <1>1 DEF NoBlanks
<1>3. ASSUME NEW m \in DOMAIN scripts, scripts[m].list, scripts[m].at.view = v
      PROVE  /\ Head(scripts[m].todo) = "order" /\ scripts[m].new \in Ids /\ scripts[m].new \in ToSet(orders[v])
             /\ ToSet(scripts[m].base) \subseteq ToSet(orders[v]) /\ ToSet(orderRows[v]) \subseteq ToSet(scripts[m].base)
  <2>1. /\ scripts[m].show /\ Head(scripts[m].todo) = "order"
        /\ "older" \in mishaps => Contains(orders[v], scripts[m].new)
    BY <1>3 DEF Blind
  <2>2. AddsWell(scripts[m])
    BY <1>1 DEF AllAddWell
  <2>3. "older" \in mishaps => scripts[m].new \in ToSet(orders[v])
    <3>1. orders[v] \in Seq(Nat)
      BY DEF PageInv, PageTyped, StoreTyped
    <3>2. DOMAIN orders[v] = 1 .. Len(orders[v])
      BY <3>1
    <3>3. QED BY <2>1, <3>2 DEF Contains, ToSet
  <2>4. scripts[m].new \in ToSet(orders[v])
    BY <1>3, <2>1, <2>2, <2>3 DEF AddsWell
  <2>5. QED BY <1>3, <2>1, <2>2, <2>4 DEF AddsWell, Knows
<1>4. \A k \in DOMAIN news : news[k].view = v => news[k].order = orders[v]
  BY DEF Blind
<1>5. \A m \in DOMAIN scripts : Head(scripts[m].todo) # "unorder"
  BY DEF Blind
<1>6. ToSet(orderRows[v]) \subseteq ToSet(orders[v])
  <2>1. BoardOf[v] = page.board /\ v # NoView
    BY ViewsAre DEF PageInv, PageTyped, StoreTyped, IsAddress
  <2>2. OrderComes(v) \/ ToSet(orderRows[v]) \subseteq ToSet(orders[v])
    BY <2>1 DEF PageInv, OrdersAreTrue, SeesOrder
  <2>3. CASE OrderComes(v)
    <3>1. PICK k \in DOMAIN news : news[k].view = v
      BY <2>3 DEF OrderComes
    <3>2. PICK m \in DOMAIN news : news[m].view = v /\ IsTrue(news[m])
      BY <3>1 DEF PageInv, NewsAreTrue, OfSame
    <3>3. news[m].order = orderRows[v]
      BY <2>1, <3>2 DEF IsTrue
    <3>4. QED BY <1>4, <3>2, <3>3
  <2>4. QED BY <2>2, <2>3
<1>7. AddsWell(t)
  <2>1. Knows(orders[v], t) /\ \A k \in DOMAIN news : Knows(news[k].order, t)
    BY <1>2 DEF Knows, NoBlank
  <2>2. t.new \notin ToSet(t.base)
    BY <1>2 DEF NoBlank
  <2>3. QED BY <1>6, <2>1, <2>2 DEF AddsWell
<1>8. \A m \in DOMAIN scripts : InTurn(scripts[m], t)
  <2> SUFFICES ASSUME NEW m \in DOMAIN scripts, scripts[m].list, scripts[m].at.view = v PROVE InTurn(scripts[m], t)
    BY DEF InTurn
  <2>1. scripts[m].new # NoCard
    <3>1. NoCard \notin Ids
      BY DEF PageInv, PageTyped, Ids, NoCard
    <3>2. QED BY <1>3, <3>1
  <2>2. NoBlank(scripts[m].base)
    BY <1>1 DEF NoBlanks
  <2>3. QED BY <1>3, <2>1, <2>2 DEF InTurn, NoBlank
<1>9. QED BY <1>2, <1>5, <1>7, <1>8

LEMMA ViewIs == ASSUME PageTyped, HasView PROVE page.view \in Views /\ IsAddress(page) /\ page.card \in Nat
BY DEF PageTyped, StoreTyped, IsAddress, Addresses, HasView, NoView
LEMMA ScriptFields ==
    ASSUME PageTyped, HasView, NEW todo \in Steps3, NEW c \in Nat, NEW template \in BOOLEAN, NEW show \in BOOLEAN,
           NEW list \in BOOLEAN, list => todo \in ListSteps, ~list => todo \in OtherSteps,
           Head(todo) \notin {"added", "copied"}, Contains(todo, "delete") \/ Head(todo) = "duplicate" => c \in Ids,
           NEW s, s = Script(todo, c, template, show, list)
    PROVE  /\ s \in Scripts /\ IsScript(s) /\ s.todo = todo /\ s.card = c /\ s.list = list /\ s.at.view = page.view
           /\ s.new = NoCard /\ s.base = IF list THEN orders[page.view] ELSE <<>>
<1> DEFINE e == selected # <<>>
           b == IF list THEN orders[page.view] ELSE <<>>
<1>1. s = [todo |-> todo, card |-> c, template |-> template, show |-> show, list |-> list, at |-> page,
           hadSelection |-> e, base |-> b, new |-> NoCard]
  BY DEF Script
<1>2. e \in BOOLEAN
  OBVIOUS
<1>3. page.view \in Views /\ IsAddress(page) /\ page \in Addresses
  BY ViewIs DEF IsAddress
<1>4. b \in Seq(Nat) /\ Numbers(b)
  <2>1. CASE list
    BY <1>3, <2>1 DEF PageTyped, StoreTyped
  <2>2. CASE ~list
    BY <2>2 DEF Numbers, ToSet
  <2>3. QED BY <2>1, <2>2
<1>5. NoCard <= Len(rows) /\ NoCard \in Nat
  BY DEF PageTyped, NoCard
<1> HIDE DEF e
<1>6. /\ s.todo = todo /\ s.card = c /\ s.list = list /\ s.at = page /\ s.new = NoCard /\ s.base = b
  BY <1>1
<1> HIDE DEF b
<1>7. s \in Scripts
  BY <1>1, <1>2, <1>3, <1>4, <1>5 DEF Scripts, Steps3
<1>8. IsScript(s)
  BY <1>3, <1>4, <1>5, <1>6, <1>7 DEF IsScript
<1>9. QED BY <1>6, <1>7, <1>8 DEF b

\* One script is started on the page as it is.
LEMMA RunsWell ==
    ASSUME PageInv, HasView, NEW todo \in Steps3, NEW c \in Nat, NEW template \in BOOLEAN, NEW show \in BOOLEAN,
           NEW list \in BOOLEAN, list => todo \in ListSteps, ~list => todo \in OtherSteps,
           Head(todo) \notin {"added", "copied", "order", "unorder"}, Contains(todo, "delete") \/ Head(todo) = "duplicate" => c \in Ids,
           page.card # NoCard /\ c = page.card /\ Contains(todo, "delete") => Head(todo) = "delete" /\ Len(todo) = 2,
           NEW s, s = Script(todo, c, template, show, list),
           scripts' = scripts \o <<s>>, mishaps \subseteq mishaps', list /\ Blind => "blind" \in mishaps',
           UNCHANGED <<page, stored, orders, rows, orderRows, missed, news, added>>
    PROVE  PageInv'
<1>1. /\ s \in Scripts /\ IsScript(s) /\ s.todo = todo /\ s.card = c /\ s.list = list /\ s.at.view = page.view
      /\ s.new = NoCard /\ s.base = IF list THEN orders[page.view] ELSE <<>>
  BY ScriptFields DEF PageInv
<1>2. Joined({s})
  <2> DEFINE new == <<s>>
  <2>1. new \in Seq(Scripts) /\ Len(new) <= 1 /\ {new[k] : k \in DOMAIN new} = {s}
    BY <1>1
  <2>2. scripts' = scripts \o new
    OBVIOUS
  <2> HIDE DEF new
  <2>3. Joined({new[k] : k \in DOMAIN new})
    BY <2>1, <2>2, JoinIs DEF PageInv
  <2>4. QED BY <2>1, <2>3
<1>3. ASSUME mishaps' \cap AddedSlips = {}
      PROVE  /\ NoBlank(s.base)
             /\ s.list => /\ AddsWell(s)
                          /\ \A m \in DOMAIN scripts : InTurn(scripts[m], s) /\ Head(scripts[m].todo) # "unorder"
  <2>1. CASE list
    <3>1. ~Blind /\ mishaps \cap AddedSlips = {}
      BY <1>3, <2>1 DEF AddedSlips
    <3>2. page.view \in Views
      BY ViewIs DEF PageInv
    <3>3. s.list /\ s.base = orders[page.view] /\ Head(s.todo) # "order" /\ s.new = NoCard /\ s.at.view = page.view
      BY <1>1, <2>1
    <3>4. QED BY <3>1, <3>2, <3>3, SeesAll
  <2>2. CASE ~list
    BY <1>1, <2>2 DEF NoBlank, ToSet
  <2>3. QED BY <2>1, <2>2
<1>4. /\ \A t \in {s} : IsScript(t)
      /\ \A t \in {s} : page.card # NoCard /\ Deletes(t, page.card) => Head(t.todo) = "delete" /\ Len(t.todo) = 2
      /\ \A t \in {s} : Head(t.todo) # "unorder"
      /\ mishaps' \cap AddedSlips = {} =>
               \A t \in {s} : /\ NoBlank(t.base)
                              /\ t.list => /\ AddsWell(t)
                                           /\ \A m \in DOMAIN scripts : InTurn(scripts[m], t) /\ Head(scripts[m].todo) # "unorder"
  BY <1>1, <1>3 DEF Deletes
<1>5. QED BY <1>2, <1>4, JoinsWell

\* The keys start a script for each selected card.
LEMMA KeysWell ==
    ASSUME PageInv, HasView, page.card = NoCard, NEW todo \in OtherSteps, Head(todo) \in {"delete", "duplicate"},
           NEW q \in Seq(Ids),
           scripts' = scripts \o [k \in DOMAIN q |-> Script(todo, q[k], FALSE, FALSE, FALSE)],
           UNCHANGED <<page, stored, orders, rows, orderRows, missed, news, added, mishaps>>
    PROVE  PageInv'
<1> DEFINE new == [k \in DOMAIN q |-> Script(todo, q[k], FALSE, FALSE, FALSE)]
           T == {new[k] : k \in DOMAIN new}
<1>1. \A k \in DOMAIN q : q[k] \in Ids /\ q[k] \in Nat
  <2>1. Ids \subseteq Nat
    BY DEF PageInv, PageTyped, Ids
  <2>2. \A k \in DOMAIN q : q[k] \in Ids
    BY ONLY q \in Seq(Ids)
  <2>3. QED BY <2>1, <2>2
<1>2. todo \in Steps3
  BY DEF Steps3
<1>3. ASSUME NEW k \in DOMAIN q, NEW s, s = Script(todo, q[k], FALSE, FALSE, FALSE)
      PROVE  s \in Scripts /\ IsScript(s) /\ s.todo = todo /\ ~s.list /\ s.base = <<>>
  <2>1. PICK f \in BOOLEAN : f = FALSE
    OBVIOUS
  <2>2. s = Script(todo, q[k], f, f, f)
    BY <1>3, <2>1, Zenon
  <2>3. /\ s \in Scripts /\ IsScript(s) /\ s.todo = todo /\ s.list = f
        /\ s.base = IF f THEN orders[page.view] ELSE <<>>
    <3>1. q[k] \in Nat /\ q[k] \in Ids /\ Head(todo) \notin {"added", "copied"} /\ ~f
      BY <1>1, <1>3, <2>1
    <3>2. QED BY ONLY PageInv, HasView, todo \in OtherSteps, f \in BOOLEAN, <1>2, <2>2, <3>1, ScriptFields DEF PageInv
  <2>4. QED BY <2>1, <2>3
<1>4. DOMAIN q = 1 .. Len(q) /\ Len(q) \in Nat
  OBVIOUS
<1>5. DOMAIN new = DOMAIN q /\ \A k \in DOMAIN q : new[k] = Script(todo, q[k], FALSE, FALSE, FALSE)
  OBVIOUS
<1>6. new \in Seq(Scripts)
  <2>1. new \in [1 .. Len(q) -> Scripts]
    BY <1>3, <1>4
  <2> HIDE DEF new
  <2>2. QED BY <1>4, <2>1
<1>7. scripts' = scripts \o new
  OBVIOUS
<1> HIDE DEF new
<1>8. \A t \in T : IsScript(t) /\ t.todo = todo /\ ~t.list /\ t.base = <<>>
  BY <1>3, <1>5
<1>9. Joined(T)
  <2>1. \A k \in DOMAIN new : ~new[k].list
    BY <1>3, <1>5
  <2>2. QED BY <1>6, <1>7, <2>1, JoinIs DEF PageInv
<1> HIDE DEF T
<1>10. \A t \in T : Head(t.todo) # "unorder" /\ NoBlank(t.base)
  BY <1>8 DEF NoBlank, ToSet
<1>11. QED BY <1>8, <1>9, <1>10, JoinsWell

LEMMA SeqIs == ASSUME NEW S, NEW q \in Seq(S) PROVE q = [j \in 1 .. Len(q) |-> q[j]]
OBVIOUS
LEMMA ConcatIs ==
    ASSUME NEW S, NEW x \in Seq(S), NEW y \in Seq(S)
    PROVE  /\ x \o y \in Seq(S) /\ Len(x \o y) = Len(x) + Len(y)
           /\ \A j \in 1 .. Len(x) + Len(y) : (x \o y)[j] = IF j <= Len(x) THEN x[j] ELSE y[j - Len(x)]
OBVIOUS
LEMMA OneMoreAtEnd ==
    ASSUME NEW S, NEW x \in Seq(S), NEW e \in S
    PROVE  x \o <<e>> = Append(x, e)
<1>0. Len(x) \in Nat
  OBVIOUS
<1>y. PICK y : y = <<e>>
  OBVIOUS
<1>1. y = <<e>> /\ y \in Seq(S) /\ Len(y) = 1 /\ y[1] = e
  BY <1>y
<1>2. PICK r : r = x \o y
  OBVIOUS
<1>3. r \in Seq(S) /\ Len(r) = Len(x) + 1 /\ \A j \in 1 .. Len(x) + 1 : r[j] = IF j <= Len(x) THEN x[j] ELSE y[j - Len(x)]
  BY <1>1, <1>2, ConcatIs
<1>t. PICK t : t = Append(x, e)
  OBVIOUS
<1>4. t = Append(x, e) /\ t \in Seq(S) /\ Len(t) = Len(x) + 1
  BY <1>t
<1>5. \A j \in 1 .. Len(x) + 1 : t[j] = IF j <= Len(x) THEN x[j] ELSE e
  BY <1>4
<1>6. \A j \in 1 .. Len(x) + 1 : ~(j <= Len(x)) => j - Len(x) = 1
  BY <1>0
<1>7. \A j \in 1 .. Len(x) + 1 : r[j] = t[j]
  BY <1>1, <1>3, <1>5, <1>6
<1>8. r = [j \in 1 .. Len(x) + 1 |-> r[j]] /\ t = [j \in 1 .. Len(x) + 1 |-> t[j]]
  BY <1>3, <1>4, SeqIs
<1>9. r = t
  BY <1>7, <1>8
<1>10. QED BY <1>1, <1>2, <1>4, <1>9
LEMMA NoneAtEnd == ASSUME NEW S, NEW x \in Seq(S) PROVE x \o <<>> = x
<1>z. PICK z : z = <<>>
  OBVIOUS
<1>1. z = <<>> /\ z \in Seq(S) /\ Len(z) = 0
  BY <1>z
<1>2. PICK w : w = x \o z
  OBVIOUS
<1>3. w \in Seq(S) /\ Len(w) = Len(x) + 0 /\ \A j \in 1 .. Len(x) + 0 : w[j] = IF j <= Len(x) THEN x[j] ELSE z[j - Len(x)]
  BY <1>1, <1>2, ConcatIs
<1>4. Len(x) + 0 = Len(x) /\ \A j \in 1 .. Len(x) : j <= Len(x)
  OBVIOUS
<1>5. w = [j \in 1 .. Len(x) |-> w[j]] /\ x = [j \in 1 .. Len(x) |-> x[j]]
  BY <1>3, <1>4, SeqIs
<1>6. w = x
  BY <1>3, <1>4, <1>5
<1>7. QED BY <1>1, <1>2, <1>6
LEMMA SameSeq ==
    ASSUME NEW S, NEW q \in Seq(S), NEW r \in Seq(S), Len(q) = Len(r), \A j \in 1 .. Len(q) : q[j] = r[j]
    PROVE  q = r
<1>1. q = [j \in 1 .. Len(q) |-> q[j]] /\ r = [j \in 1 .. Len(r) |-> r[j]]
  BY SeqIs
<1>2. QED BY <1>1
LEMMA AppendIs ==
    ASSUME NEW S, NEW q \in Seq(S), NEW e \in S
    PROVE  /\ Append(q, e) \in Seq(S) /\ Len(Append(q, e)) = Len(q) + 1
           /\ Append(q, e)[Len(q) + 1] = e /\ \A i \in 1 .. Len(q) : Append(q, e)[i] = q[i]
  OBVIOUS
LEMMA TuplesAre ==
    ASSUME NEW a, NEW b, NEW c
    PROVE  Append(<<>>, a) = <<a>> /\ Append(<<a>>, b) = <<a, b>> /\ Append(<<a, b>>, c) = <<a, b, c>>
<1> DEFINE S == {a, b, c}
<1>1. PICK t0, t1, t2, t3 : t0 = <<>> /\ t1 = <<a>> /\ t2 = <<a, b>> /\ t3 = <<a, b, c>>
  OBVIOUS
<1>2. /\ t0 \in Seq(S) /\ Len(t0) = 0 /\ t1 \in Seq(S) /\ Len(t1) = 1 /\ t1[1] = a
      /\ t2 \in Seq(S) /\ Len(t2) = 2 /\ t2[1] = a /\ t2[2] = b
      /\ t3 \in Seq(S) /\ Len(t3) = 3 /\ t3[1] = a /\ t3[2] = b /\ t3[3] = c
  BY <1>1
<1>3. a \in S /\ b \in S /\ c \in S
  OBVIOUS
<1> HIDE DEF S
<1>5. /\ Append(t0, a) \in Seq(S) /\ Len(Append(t0, a)) = 1 /\ Append(t0, a)[1] = a
      /\ Append(t1, b) \in Seq(S) /\ Len(Append(t1, b)) = 2 /\ Append(t1, b)[1] = a /\ Append(t1, b)[2] = b
      /\ Append(t2, c) \in Seq(S) /\ Len(Append(t2, c)) = 3
      /\ Append(t2, c)[1] = a /\ Append(t2, c)[2] = b /\ Append(t2, c)[3] = c
  <2>1. 0 + 1 = 1 /\ 1 + 1 = 2 /\ 2 + 1 = 3 /\ 0 \in Nat /\ 1 \in Nat /\ 2 \in Nat /\ 1 \in 1 .. 1 /\ 1 \in 1 .. 2 /\ 2 \in 1 .. 2
    OBVIOUS
  <2>2. Append(t0, a) \in Seq(S) /\ Len(Append(t0, a)) = 1 /\ Append(t0, a)[1] = a
    <3>1. t0 \in Seq(S) /\ Len(t0) = 0
      BY <1>2
    <3>2. QED BY <1>3, <2>1, <3>1, AppendIs
  <2>3. Append(t1, b) \in Seq(S) /\ Len(Append(t1, b)) = 2 /\ Append(t1, b)[1] = a /\ Append(t1, b)[2] = b
    <3>1. t1 \in Seq(S) /\ Len(t1) = 1 /\ t1[1] = a
      BY <1>2
    <3>2. /\ Append(t1, b) \in Seq(S) /\ Len(Append(t1, b)) = Len(t1) + 1
          /\ Append(t1, b)[Len(t1) + 1] = b /\ \A i \in 1 .. Len(t1) : Append(t1, b)[i] = t1[i]
      BY <1>3, <3>1, AppendIs
    <3>3. QED BY <2>1, <3>1, <3>2, Zenon
  <2>4. /\ Append(t2, c) \in Seq(S) /\ Len(Append(t2, c)) = 3
        /\ Append(t2, c)[1] = a /\ Append(t2, c)[2] = b /\ Append(t2, c)[3] = c
    <3>1. t2 \in Seq(S) /\ Len(t2) = 2 /\ t2[1] = a /\ t2[2] = b
      BY <1>2
    <3>2. /\ Append(t2, c) \in Seq(S) /\ Len(Append(t2, c)) = Len(t2) + 1
          /\ Append(t2, c)[Len(t2) + 1] = c /\ \A i \in 1 .. Len(t2) : Append(t2, c)[i] = t2[i]
      <4>1. t2 \in Seq(S) /\ c \in S
        BY <1>3, <3>1
      <4>2. QED BY ONLY <4>1, AppendIs
    <3>3. QED BY <2>1, <3>1, <3>2, Zenon
  <2>5. QED BY <2>2, <2>3, <2>4
<1>6. Append(t0, a) = t1 /\ Append(t1, b) = t2 /\ Append(t2, c) = t3
  <2>1. 1 .. 1 = {1} /\ 1 .. 2 = {1, 2} /\ 1 .. 3 = {1, 2, 3}
    OBVIOUS
  <2>2. Append(t0, a) = t1
    BY <1>2, <1>5, <2>1, SameSeq
  <2>3. Append(t1, b) = t2
    BY <1>2, <1>5, <2>1, SameSeq
  <2>4. Append(t2, c) = t3
    BY <1>2, <1>5, <2>1, SameSeq
  <2>5. QED BY <2>2, <2>3, <2>4
<1>7. QED BY <1>1, <1>6
LEMMA UndoStepsAre ==
    ASSUME NEW s \in Scripts
    PROVE  /\ UndoSteps(s) \in OtherSteps /\ Head(UndoSteps(s)) \in {"unorder", "close"}
           /\ s.card = NoCard => Contains(UndoSteps(s), "delete")
<1> DEFINE OtherNames == {"unorder", "close", "delete"}
           a == IF s.list THEN <<"unorder">> ELSE <<>>
           d == IF s.card = NoCard THEN <<"delete">> ELSE <<>>
           p == a \o <<"close">>
           q == p \o d
<1>0. /\ <<"unorder">> \in Seq(OtherNames) /\ <<>> \in Seq(OtherNames) /\ "close" \in OtherNames /\ "delete" \in OtherNames
      /\ <<"unorder", "close">> \in Seq(OtherNames) /\ <<"close">> \in Seq(OtherNames)
  OBVIOUS
<1>1. p = IF s.list THEN <<"unorder", "close">> ELSE <<"close">>
  <2>1. /\ <<"unorder">> \o <<"close">> = Append(<<"unorder">>, "close")
        /\ <<>> \o <<"close">> = Append(<<>>, "close")
    BY <1>0, OneMoreAtEnd
  <2>2. Append(<<"unorder">>, "close") = <<"unorder", "close">> /\ Append(<<>>, "close") = <<"close">>
    BY TuplesAre
  <2>3. QED BY <2>1, <2>2
<1>2. q = IF s.card = NoCard THEN Append(p, "delete") ELSE p
  <2>1. p \in Seq(OtherNames)
    BY <1>0, <1>1
  <2> HIDE DEF p
  <2>2. p \o <<>> = p /\ p \o <<"delete">> = Append(p, "delete")
    BY <1>0, <2>1, OneMoreAtEnd, NoneAtEnd
  <2>3. QED BY <2>2
<1>3. /\ Append(<<"unorder", "close">>, "delete") = <<"unorder", "close", "delete">>
      /\ Append(<<"close">>, "delete") = <<"close", "delete">>
  BY TuplesAre
<1>4. UndoSteps(s) = q
  BY DEF UndoSteps
<1> HIDE DEF p, q
<1>5. \/ q \in {<<"unorder", "close", "delete">>, <<"close", "delete">>}
      \/ q \in {<<"unorder", "close">>, <<"close">>} /\ s.card # NoCard
  BY <1>1, <1>2, <1>3
<1>6. Contains(<<"unorder", "close", "delete">>, "delete") /\ Contains(<<"close", "delete">>, "delete")
  BY DEF Contains
<1>7. q \in OtherSteps /\ Head(q) \in {"unorder", "close"}
  BY <1>5 DEF OtherSteps
<1>8. QED BY <1>4, <1>5, <1>6, <1>7
\* What was added is there; what is left of it after its undo has no deletion is noted.
LEMMA UndoesWell == ASSUME PageInv, UndoAddition PROVE PageInv'
<1>1. PICK a, t, todo :
      /\ a = added[1] /\ todo = UndoSteps(a) /\ t = [a EXCEPT !.todo = todo, !.card = a.new, !.list = FALSE]
      /\ added # <<>> /\ a.new # NoCard /\ scripts = <<>> /\ scripts' = <<t>> /\ added' = <<>> /\ page.card = NoCard
      /\ missed' = IF a.card = NoCard THEN missed ELSE missed \cup {[a EXCEPT !.list = FALSE]}
      /\ UNCHANGED <<page, stored, orders, rows, orderRows, news, mishaps>>
  BY DEF UndoAddition, Free, Dialog, address, store, server
<1>2. IsAddition(a) /\ a \in Scripts
  BY <1>1 DEF PageInv, PageTyped, AddedTyped, IsAddition
<1>3. todo \in OtherSteps /\ Head(todo) \in {"unorder", "close"} /\ (a.card = NoCard => Contains(todo, "delete"))
  BY <1>1, <1>2, UndoStepsAre
<1>4. a.new \in Ids
  <2>1. a.new \in Nat /\ a.new <= Len(rows)
    BY <1>2 DEF IsAddition, Scripts
  <2>2. QED BY <1>1, <2>1 DEF PageInv, PageTyped, Ids, NoCard
<1>5. /\ t \in Scripts /\ t.todo = todo /\ t.card = a.new /\ t.list = FALSE /\ t.at = a.at
      /\ t.base = a.base /\ t.new = a.new
  <2>1. a.new \in Nat
    BY <1>2 DEF Scripts
  <2>2. QED BY <1>1, <1>2, <1>3, <2>1 DEF Scripts
<1>6. /\ missed \subseteq missed'
      /\ Contains(todo, "delete") \/ \E m \in missed' : m.new = a.new
  <2>1. a.card # NoCard => \E m : m \in missed' /\ m.new = a.new
    <3>1. PICK m : m = [a EXCEPT !.list = FALSE]
      OBVIOUS
    <3>2. m.new = a.new
      BY <1>2, <3>1 DEF Scripts
    <3>3. QED BY <1>1, <3>1, <3>2
  <2>2. QED BY <1>1, <1>3, <2>1
<1>7. IsScript(t) /\ ~t.list
  <2>1. IsAddress(a.at) /\ a.at.view \in Views /\ Numbers(a.base) /\ a.new <= Len(rows)
    BY <1>2 DEF IsAddition
  <2>2. /\ IsAddress(t.at) /\ t.at.view \in Views /\ Numbers(t.base) /\ t.new <= Len(rows) /\ t.card \in Ids
        /\ Head(t.todo) \in {"unorder", "close"} /\ t.todo \in OtherSteps
    BY <1>3, <1>4, <1>5, <2>1
  <2>3. QED BY <1>5, <2>2 DEF IsScript
<1>8. Joined({t})
  <2> DEFINE new == <<t>>
  <2>1. new \in Seq(Scripts) /\ Len(new) <= 1 /\ {new[k] : k \in DOMAIN new} = {t}
    BY <1>5
  <2>2. scripts' = scripts \o new
    BY <1>1, <2>1
  <2> HIDE DEF new
  <2>3. Joined({new[k] : k \in DOMAIN new})
    BY <2>1, <2>2, JoinIs DEF PageInv
  <2>4. QED BY <2>1, <2>3
<1>9. mishaps' \cap AddedSlips = {} => NoBlank(t.base)
  BY <1>1, <1>5 DEF PageInv, AllListed, NoBlanks, NoBlank
<1>10. \A u \in {t} : /\ IsScript(u) /\ ~u.list /\ u.card = u.new
                      /\ Contains(u.todo, "delete") \/ \E m \in missed' : m.new = u.new
  BY <1>5, <1>6, <1>7
<1>11. /\ missed \subseteq missed' /\ mishaps \subseteq mishaps' /\ added' = <<>>
       /\ \A u \in {t} : page.card # NoCard /\ Deletes(u, page.card) => Head(u.todo) = "delete" /\ Len(u.todo) = 2
       /\ mishaps' \cap AddedSlips = {} => \A u \in {t} : NoBlank(u.base)
  BY <1>1, <1>6, <1>9
<1>12. /\ \A u \in {t} : IsScript(u)
       /\ UNCHANGED <<page, stored, orders, rows, orderRows, news>>
       /\ \A u \in {t} : Head(u.todo) = "unorder" =>
             /\ scripts = <<>> /\ \A w \in {t} : ~w.list
             /\ u.card = u.new /\ (Contains(u.todo, "delete") \/ \E m \in missed' : m.new = u.new)
       /\ mishaps' \cap AddedSlips = {} =>
             \A u \in {t} : /\ NoBlank(u.base)
                            /\ u.list => /\ AddsWell(u)
                                         /\ \A m \in DOMAIN scripts : InTurn(scripts[m], u) /\ Head(scripts[m].todo) # "unorder"
  BY ONLY <1>1, <1>10, <1>11
<1>13. QED BY ONLY PageInv, <1>8, <1>11, <1>12, JoinsWell

\* What changes neither the page nor what it rests on.
LEMMA RestsWell ==
    ASSUME PageInv, UNCHANGED <<page, stored, orders, rows, orderRows, missed, scripts, news, added, mishaps>>
    PROVE  PageInv'
<1>1. Joined({})
  BY DEF Joined, Newest, PageInv, PageTyped, ScriptsTyped
<1>2. QED BY <1>1, JoinsWell

LEMMA ShowsHere ==
    ASSUME PageInv, HasView, NEW c \in Nat, c = NoCard \/ (c \in Ids /\ rows[c].board = page.board), ShowHere(c), Still
    PROVE  PageInv'
<1> DEFINE to == [page EXCEPT !.card = c]
           slip == Mishap("doomed", c # NoCard /\ Doomed(c))
<1>1. GoTo(to, stored, orders, slip) /\ UNCHANGED <<rows, orderRows, missed, news, scripts, added>>
  BY DEF ShowHere, ShowCard, Still, server
<1>2. page.view \in Views /\ IsAddress(page) /\ page \in Addresses
  BY ViewIs DEF PageInv, IsAddress
<1>3. c <= Len(rows)
  BY DEF PageInv, PageTyped, Ids, NoCard
<1>4. to.card = c /\ to.board = page.board /\ to.view = page.view /\ to \in Addresses
  BY <1>2 DEF Addresses
<1>5. IsAddress(to)
  BY <1>2, <1>3, <1>4, ViewsAre DEF IsAddress
<1>6. to.card # NoCard => rows[to.card].board = to.board /\ (Doomed(to.card) => "doomed" \in slip)
  BY <1>4 DEF Mishap
<1> HIDE DEF to, slip
<1>7. QED BY <1>1, <1>5, <1>6, MovesWell

LEMMA GoesWell ==
    ASSUME PageInv, NEW to, NEW slip, IsAddress(to), to.card = NoCard, GoTo(to, stored, orders, slip), Still
    PROVE  PageInv'
<1>1. UNCHANGED <<rows, orderRows, missed, news, scripts, added>>
  BY DEF Still, server
<1>2. QED BY <1>1, MovesWell

LEMMA FirstViewIs == ASSUME NEW b \in Boards PROVE FirstView(b) \in Views /\ BoardOf[FirstView(b)] = b
<1> DEFINE S == {v \in Views : BoardOf[v] = b}
<1>1. S \subseteq Nat /\ S # {}
  BY CardPageAssumption DEF Boards
<1>2. \E v \in S : \A w \in S : v <= w
  BY <1>1, LeastOf
<1>3. \E v \in Views : BoardOf[v] = b /\ \A w \in Views : BoardOf[w] = b => v <= w
  BY <1>2
<1>4. QED BY <1>3 DEF FirstView

LEMMA VisitsWell == ASSUME PageInv, Visits PROVE PageInv'
<1>1. NoCard \in Nat /\ NoCard <= Len(rows) /\ Ids \subseteq Nat
  BY DEF NoCard, PageInv, PageTyped, Ids
<1>2. ASSUME CloseDialog PROVE PageInv'
  BY <1>1, <1>2, ShowsHere DEF CloseDialog, Dialog, Answered
<1>3. ASSUME NEW c \in Ids, CardClicked(c) \/ OpenButton(c) PROVE PageInv'
  <2>1. HasView /\ ShowHere(c) /\ Still /\ rows[c].board = page.board /\ c \in Nat
    BY <1>1, <1>3 DEF CardClicked, OpenButton, Free, Looks, Here
  <2>2. QED BY <2>1, ShowsHere
<1>4. ASSUME NEW v \in Views, OpenView(v) PROVE PageInv'
  <2> DEFINE to == [board |-> BoardOf[v], view |-> v, card |-> NoCard]
  <2>1. GoTo(to, stored, orders, {}) /\ Still
    BY <1>4 DEF OpenView, Looks
  <2>2. IsAddress(to) /\ to.card = NoCard
    <3>1. BoardOf[v] \in Boards /\ v # NoView
      BY ViewsAre DEF Boards
    <3>2. to \in Addresses
      BY <1>1, <3>1 DEF Addresses
    <3>3. QED BY <1>1, <3>1, <3>2 DEF IsAddress
  <2> HIDE DEF to
  <2>3. QED BY <2>1, <2>2, GoesWell
<1>5. ASSUME NEW b \in Boards, SwitchBoard(b) PROVE PageInv'
  <2> DEFINE w == IF page.card = NoCard THEN FirstView(b) ELSE NoView
             to == [board |-> b, view |-> w, card |-> NoCard]
             slip == Mishap("left", page.card # NoCard)
  <2>1. GoTo(to, stored, orders, slip) /\ Still
    BY <1>5 DEF SwitchBoard, Leaves, Looks
  <2>2. w \in Views \cup {NoView} /\ (w # NoView => BoardOf[w] = b)
    BY FirstViewIs
  <2> HIDE DEF w
  <2>3. IsAddress(to) /\ to.card = NoCard
    <3>1. to \in Addresses
      BY <1>1, <2>2 DEF Addresses
    <3>2. QED BY <1>1, <2>2, <3>1 DEF IsAddress
  <2> HIDE DEF to, slip
  <2>4. QED BY <2>1, <2>3, GoesWell
<1>6. ASSUME Back PROVE PageInv'
  <2> DEFINE to == [page EXCEPT !.card = NoCard]
             slip == Mishap("left", page.card # NoCard)
  <2>1. GoTo(to, stored, orders, slip) /\ Still /\ HasView
    BY <1>6 DEF Back, Leaves, Looks, Dialog
  <2>2. page.view \in Views /\ IsAddress(page) /\ page \in Addresses
    BY <2>1, ViewIs DEF PageInv, IsAddress
  <2>3. IsAddress(to) /\ to.card = NoCard
    <3>1. to.card = NoCard /\ to.board = page.board /\ to.view = page.view /\ to \in Addresses
      BY <1>1, <2>2 DEF Addresses
    <3>2. QED BY <1>1, <2>2, <3>1, ViewsAre DEF IsAddress
  <2> HIDE DEF to, slip
  <2>4. QED BY <2>1, <2>3, GoesWell
<1>7. QED BY <1>2, <1>3, <1>4, <1>5, <1>6 DEF Visits

\* A broadcast arrives: what it said is in the store, or is told again.
LEMMA TailIs ==
    ASSUME PageTyped, NewsAreTrue, news # <<>>, news' = Tail(news), NEW n, n = Head(news)
    PROVE  /\ IsNews(n) /\ n \in AllNews /\ news' \in Seq(AllNews) /\ 1 \in DOMAIN news /\ news[1] = n
           /\ \A k \in DOMAIN news' : k + 1 \in DOMAIN news /\ news'[k] = news[k + 1] /\ k \in Nat
           /\ \A k \in DOMAIN news : k = 1 \/ (k - 1 \in DOMAIN news' /\ news'[k - 1] = news[k] /\ k \in Int)
           /\ IsTrue(n) \/ \E m \in DOMAIN news' : OfSame(news'[m], n)
<1>1. news \in Seq(AllNews) /\ Len(news) \in Nat /\ Len(news) >= 1 /\ DOMAIN news = 1 .. Len(news)
  BY DEF PageTyped, NewsTyped
<1>2. /\ news' \in Seq(AllNews) /\ DOMAIN news' = 1 .. Len(news) - 1 /\ \A k \in 1 .. Len(news) - 1 : news'[k] = news[k + 1]
      /\ n = news[1]
  BY <1>1
<1>3. 1 \in DOMAIN news /\ IsNews(n) /\ n \in AllNews
  BY <1>1, <1>2 DEF PageTyped, NewsTyped, IsNews
<1>4. \A k \in DOMAIN news' : k + 1 \in DOMAIN news /\ news'[k] = news[k + 1] /\ k \in Nat
  BY <1>1, <1>2
<1>5. ASSUME NEW k \in DOMAIN news, k # 1 PROVE k - 1 \in DOMAIN news' /\ news'[k - 1] = news[k] /\ k \in Int
  <2>1. k \in Int /\ k - 1 \in 1 .. Len(news) - 1 /\ (k - 1) + 1 = k
    BY <1>1, <1>5
  <2>2. QED BY <1>2, <2>1
<1>6. IsTrue(n) \/ \E m \in DOMAIN news' : OfSame(news'[m], n)
  <2>1. PICK m \in DOMAIN news : OfSame(news[m], news[1]) /\ IsTrue(news[m])
    BY <1>3 DEF NewsAreTrue
  <2>2. CASE m = 1
    BY <1>2, <2>1, <2>2
  <2>3. CASE m # 1
    BY <1>2, <1>5, <2>1, <2>3
  <2>4. QED BY <2>2, <2>3
<1>7. QED BY <1>2, <1>3, <1>4, <1>5, <1>6

LEMMA DeliversWell == ASSUME PageInv, Deliver PROVE PageInv'
<1> DEFINE n == Head(news)
<1>1. /\ news # <<>> /\ news' = Tail(news) /\ mishaps \subseteq mishaps'
      /\ UNCHANGED <<page, rows, orderRows, missed, scripts, added>>
  BY DEF Deliver, server
<1>2. /\ IsNews(n) /\ n \in AllNews /\ news' \in Seq(AllNews) /\ 1 \in DOMAIN news /\ news[1] = n
      /\ \A k \in DOMAIN news' : k + 1 \in DOMAIN news /\ news'[k] = news[k + 1] /\ k \in Nat
      /\ \A k \in DOMAIN news : k = 1 \/ (k - 1 \in DOMAIN news' /\ news'[k - 1] = news[k] /\ k \in Int)
      /\ IsTrue(n) \/ \E m \in DOMAIN news' : OfSame(news'[m], n)
  BY <1>1, TailIs DEF PageInv
<1>3. /\ n.view # NoView => /\ orders' = [orders EXCEPT ![n.view] = n.order] /\ UNCHANGED stored
                            /\ "older" \notin mishaps' => ToSet(orders[n.view]) \subseteq ToSet(n.order)
      /\ n.view = NoView => stored' = UpdatedCards(n) /\ UNCHANGED <<orders, mishaps>>
  BY DEF Deliver, Mishap
<1> HIDE DEF n
<1>4. RowsKeep /\ Ids' = Ids
  BY <1>1 DEF PageInv, PageTyped, RowsKeep, Ids
<1>5. n.view = NoView => n.card \in Ids
  BY <1>2 DEF IsNews
<1>6. n.view # NoView => n.view \in Views /\ n.order \in Seq(Nat) /\ Numbers(n.order) /\ n.card = NoCard
  BY <1>2 DEF IsNews, AllNews
<1>7. /\ orders \in [Views -> Seq(Nat)] /\ \A v \in Views : Numbers(orders[v])
      /\ stored \subseteq Ids /\ IsAddress(page)
  BY DEF PageInv, PageTyped, StoreTyped
<1>8. /\ orders' \in [Views -> Seq(Nat)]
      /\ \A v \in Views : orders'[v] = IF v = n.view /\ n.view # NoView THEN n.order ELSE orders[v]
  <2>1. CASE n.view = NoView
    BY <1>3, <1>7, <2>1
  <2>2. CASE n.view # NoView
    BY <1>3, <1>6, <1>7, <2>2
  <2>3. QED BY <2>1, <2>2
<1>9. /\ \A c \in Ids : c # n.card => (c \in stored' <=> c \in stored)
      /\ n.view = NoView => (n.card \in stored' <=> n.live)
      /\ n.view # NoView => stored' = stored
      /\ stored' \subseteq Ids
  <2>1. CASE n.view = NoView
    BY <1>3, <1>5, <1>7, <2>1 DEF UpdatedCards
  <2>2. CASE n.view # NoView
    BY <1>3, <1>7, <2>2
  <2>3. QED BY <2>1, <2>2
<1>10. PageTyped'
  <2>1. ListsTyped' /\ ScriptsTyped' /\ AddedTyped'
    BY <1>1, <1>4, PartsStay DEF PageInv
  <2>2. NewsTyped'
    <3>1. \A k \in DOMAIN news' : \E m : m = news'[k] /\ IsNews(m)'
      <4>1. \A m : IsNews(m) => IsNews(m)'
        BY <1>4, StillTyped DEF PageInv
      <4>2. \A k \in DOMAIN news' : IsNews(news'[k])
        BY <1>2 DEF PageInv, PageTyped, NewsTyped
      <4>3. QED BY <4>1, <4>2
    <3>2. QED BY <1>2, <3>1 DEF NewsTyped, IsNews
  <2>3. StoreTyped'
    <3>1. (\A p : IsAddress(p) => IsAddress(p)') /\ \A q : Numbers(q) => Numbers(q)'
      BY <1>4, StillTyped DEF PageInv
    <3>2. IsAddress(page)'
      BY <1>1, <1>7, <3>1 DEF IsAddress
    <3>3. \A v \in Views : \E q : q = orders'[v] /\ Numbers(q)'
      BY <1>6, <1>7, <1>8, <3>1
    <3>4. QED BY <1>4, <1>8, <1>9, <3>2, <3>3 DEF StoreTyped, Numbers
  <2>4. QED BY <1>4, <2>1, <2>2, <2>3 DEF PageTyped, RowsKeep
<1>11. NewsAreTrue'
  <2>1. ASSUME NEW k \in DOMAIN news' PROVE \E m \in DOMAIN news' : m >= k /\ OfSame(news'[m], news'[k]) /\ IsTrue(news'[m])
    <3>1. k + 1 \in DOMAIN news /\ news'[k] = news[k + 1] /\ k \in Nat
      BY <1>2
    <3>2. PICK m \in DOMAIN news : m >= k + 1 /\ OfSame(news[m], news[k + 1]) /\ IsTrue(news[m])
      BY <3>1 DEF PageInv, NewsAreTrue
    <3>3. m \in Int
      BY DEF PageInv, PageTyped, NewsTyped
    <3>4. CASE m = 1
      <4>1. k = 0
        BY <3>1, <3>2, <3>4
      <4>2. 0 \notin DOMAIN news'
        BY <1>2
      <4>3. QED BY <4>1, <4>2
    <3>5. CASE m # 1
      <4>1. m - 1 \in DOMAIN news' /\ news'[m - 1] = news[m] /\ m - 1 >= k
        BY <1>2, <3>1, <3>2, <3>3, <3>5
      <4>2. OfSame(news'[m - 1], news'[k]) /\ IsTrue(news'[m - 1])
        BY <3>1, <3>2, <4>1
      <4>3. QED BY <4>1, <4>2
    <3>6. QED BY <3>4, <3>5
  <2>2. QED BY <1>1, <2>1 DEF NewsAreTrue, OfSame, IsTrue
<1>12. CardsAreTrue'
  <2>1. SUFFICES ASSUME "doomed" \notin mishaps', NEW c \in Ids, rows[c].board = page.board
                 PROVE  (c \in stored' <=> rows[c].live) \/ \E k \in DOMAIN news' : news'[k].view = NoView /\ news'[k].card = c
    BY <1>1, <1>4 DEF CardsAreTrue, CardComes
  <2>2. CASE n.view = NoView /\ n.card = c
    <3>1. CASE IsTrue(n)
      BY <1>9, <2>2, <3>1 DEF IsTrue
    <3>2. CASE \E m \in DOMAIN news' : OfSame(news'[m], n)
      BY <2>2, <3>2 DEF OfSame
    <3>3. QED BY <1>2, <3>1, <3>2
  <2>3. CASE ~(n.view = NoView /\ n.card = c)
    <3>1. (c \in stored <=> rows[c].live) \/ CardComes(c)
      BY <1>1, <2>1 DEF PageInv, CardsAreTrue
    <3>2. c \in stored' <=> c \in stored
      BY <1>9, <2>3
    <3>3. CardComes(c) => \E k \in DOMAIN news' : news'[k].view = NoView /\ news'[k].card = c
      BY <1>2, <2>3 DEF CardComes
    <3>4. QED BY <3>1, <3>2, <3>3
  <2>4. QED BY <2>2, <2>3
<1>13. OrdersAreTrue'
  <2> DEFINE Brought(v) == \E k \in DOMAIN news' : news'[k].view = v
  <2>1. SUFFICES ASSUME NEW v \in Views, BoardOf[v] = page.board
                 PROVE  /\ \/ orders'[v] = orderRows[v] \/ Brought(v)
                           \/ \E j \in DOMAIN scripts : Carries(scripts[j], v, orders'[v])
                           \/ \E m \in missed : m.list /\ m.at.view = v /\ orders'[v] = Append(m.base, m.new)
                        /\ mishaps' \cap AddedSlips = {} => Brought(v) \/ ToSet(orderRows[v]) \subseteq ToSet(orders'[v])
    <3>1. \A v \in Views : BoardOf[v] = page'.board => OrderIsTrue(v)' /\ (mishaps' \cap AddedSlips = {} => SeesOrder(v)')
      BY <1>1, <2>1 DEF OrderIsTrue, SeesOrder, OrderComes, Writes, ShowsAdded, Carries
    <3>2. QED BY <3>1 DEF OrdersAreTrue
  <2>2. v # NoView
    BY ViewsAre
  <2>3. CASE n.view = v
    <3>1. CASE IsTrue(n)
      BY <1>8, <2>2, <2>3, <3>1 DEF IsTrue
    <3>2. CASE \E m \in DOMAIN news' : OfSame(news'[m], n)
      BY <2>3, <3>2 DEF OfSame
    <3>3. QED BY <1>2, <3>1, <3>2
  <2>4. CASE n.view # v
    <3>1. orders'[v] = orders[v]
      BY <1>8, <2>4
    <3>2. OrderIsTrue(v) /\ (mishaps' \cap AddedSlips = {} => SeesOrder(v))
      BY <1>1, <2>1 DEF PageInv, OrdersAreTrue
    <3>3. OrderComes(v) => Brought(v)
      BY <1>2, <2>4 DEF OrderComes
    <3> HIDE DEF Brought
    <3>4. QED BY <3>1, <3>2, <3>3 DEF OrderIsTrue, SeesOrder, Writes, ShowsAdded, Carries
  <2>5. QED BY <2>3, <2>4
<1>14. OpenIsThere'
  BY <1>1 DEF PageInv, OpenIsThere, Deletes
<1>15. ASSUME mishaps' \cap AddedSlips = {}
       PROVE  (\A c \in Ids : IsListed(c))' /\ NoBlanks' /\ AllAddWell' /\ AllInTurn' /\ UndoneAlone'
  <2>1. (\A c \in Ids : IsListed(c)) /\ NoBlanks /\ AllAddWell /\ AllInTurn /\ UndoneAlone
    BY <1>1, <1>15 DEF PageInv, AllListed
  <2>2. (\A c \in Ids : IsListed(c))'
    BY <1>1, <1>4, <2>1 DEF IsListed, Unadds, Deletes, Misses
  <2>3. NoBlanks'
    <3>1. \A v \in Views : NoBlank(orders'[v])
      BY <1>2, <1>8, <2>1 DEF NoBlanks
    <3>2. \A k \in DOMAIN news' : NoBlank(news'[k].order)
      BY <1>2, <2>1 DEF NoBlanks
    <3>3. QED BY <1>1, <2>1, <3>1, <3>2 DEF NoBlanks, NoBlank
  <2>4. AllAddWell'
    <3>1. ASSUME NEW u, AddsWell(u), u.at.view \in Views, u.list PROVE AddsWell(u)'
      <4>1. /\ Head(u.todo) = "order" => u.new \in Ids
            /\ u.new \notin ToSet(u.base)
            /\ ToSet(orderRows[u.at.view]) \subseteq ToSet(u.base)
            /\ Knows(orders[u.at.view], u)
            /\ \A k \in DOMAIN news : news[k].view = u.at.view => Knows(news[k].order, u)
            /\ u.show /\ Head(u.todo) = "order" /\ "older" \notin mishaps => u.new \in ToSet(orders[u.at.view])
        BY <3>1 DEF AddsWell
      <4>2. Knows(orders'[u.at.view], u)
        BY <1>2, <1>8, <3>1, <4>1
      <4>3. \A k \in DOMAIN news' : news'[k].view = u.at.view => Knows(news'[k].order, u)
        BY <1>2, <4>1
      <4>4. u.show /\ Head(u.todo) = "order" /\ "older" \notin mishaps' => u.new \in ToSet(orders'[u.at.view])
        BY <1>1, <1>3, <1>8, <3>1, <4>1
      <4>5. QED BY <1>1, <1>4, <4>1, <4>2, <4>3, <4>4 DEF AddsWell, Knows
    <3>2. \A u : ~u.list => AddsWell(u)'
      BY DEF AddsWell
    <3>3. \A j \in DOMAIN scripts' : \E u : u = scripts'[j] /\ AddsWell(u)'
      <4>1. \A j \in DOMAIN scripts : scripts[j].at.view \in Views /\ AddsWell(scripts[j])
        BY <2>1, ScriptIs DEF PageInv, AllAddWell
      <4>2. QED BY <1>1, <3>1, <3>2, <4>1
    <3>4. QED BY ONLY <3>3 DEF AllAddWell, AddsWell, Knows
  <2>5. AllInTurn' /\ UndoneAlone'
    BY <1>1, <2>1 DEF AllInTurn, UndoneAlone, InTurn, Undoes, Misses
  <2>6. QED BY <2>2, <2>3, <2>4, <2>5
<1>16. AllListed'
  BY <1>15 DEF AllListed
<1>17. QED BY <1>10, <1>11, <1>12, <1>13, <1>14, <1>16 DEF PageInv

\* Someone else deletes a card.
LEMMA OthersDelete ==
    ASSUME PageInv, NEW d \in Ids, rows[d].live, rows' = [rows EXCEPT ![d].live = FALSE],
           news' = Append(news, CardNews(d, FALSE)), "another" \in mishaps', mishaps \subseteq mishaps',
           UNCHANGED <<page, stored, orders, orderRows, missed, scripts, added>>
    PROVE  PageInv'
<1>0. PICK n : n = CardNews(d, FALSE)
  OBVIOUS
<1>1. news' = Append(news, n)
  BY <1>0
<1>2. n \in AllNews /\ n.view = NoView /\ n.card = d /\ n.order = <<>> /\ n.live = FALSE
  BY <1>0 DEF CardNews, AllNews, NoView, Ids, PageInv, PageTyped
<1>3. /\ rows' \in Seq(Rows) /\ Len(rows)' = Len(rows) /\ Ids' = Ids /\ Len(rows) \in Nat
      /\ rows'[d].live = FALSE /\ (\A c \in Ids \ {d} : rows'[c] = rows[c]) /\ RowsKeep
  BY RowDies DEF PageInv
<1>4. NewsAreTrue' /\ Comes(n)
  <2>1. TrueThen(n)
    BY <1>2, <1>3 DEF TrueThen
  <2>2. \A y \in AllNews : IsNews(y) /\ IsTrue(y) /\ ~OfSame(n, y) => TrueThen(y)
    BY <1>2, <1>3 DEF IsNews, IsTrue, TrueThen, OfSame
  <2>3. QED BY <1>1, <1>2, <2>1, <2>2, NewsCome DEF PageInv
<1>5. PageTyped'
  <2>1. StoreTyped' /\ ListsTyped' /\ AddedTyped' /\ ScriptsTyped'
    BY <1>3, PartsStay DEF PageInv
  <2>2. NewsTyped'
    <3>1. n \in AllNews /\ n.view = NoView /\ n.card \in Ids' /\ n.order = <<>>
      BY <1>2, <1>3
    <3>2. IsNews(n)'
      BY ONLY <3>1 DEF IsNews, Numbers, ToSet
    <3>3. QED BY <1>3, <1>4, <3>2, NewsStayTyped DEF PageInv
  <2>3. QED BY <1>3, <2>1, <2>2 DEF PageTyped
<1>6. \A k \in DOMAIN news : \E m \in DOMAIN news' : news'[m] = news[k]
  BY <1>4 DEF Comes
<1>7. CardsAreTrue'
  <2>1. \A c \in Ids' : \/ c \in Ids /\ (rows'[c].live <=> rows[c].live)
                        \/ \E m \in DOMAIN news' : news'[m].view = NoView /\ news'[m].card = c
    <3>1. \E m \in DOMAIN news' : news'[m].view = NoView /\ news'[m].card = d
      BY <1>2, <1>4 DEF Comes
    <3>2. \A c \in Ids \ {d} : rows'[c].live <=> rows[c].live
      BY <1>3
    <3>3. QED BY <1>3, <3>1, <3>2
  <2>2. QED BY <1>3, <1>6, <2>1, CardsStayTrue DEF PageInv
<1>8. OrdersAreTrue'
  BY <1>6, OrdersStayTrue DEF PageInv
<1>9. OpenIsThere' /\ AllListed'
  BY DEF OpenIsThere, AllListed, AddedSlips
<1>10. QED BY <1>4, <1>5, <1>7, <1>8, <1>9 DEF PageInv

\* Someone else moves cards of a view.
LEMMA ReversedIs == ASSUME NEW q \in Seq(Nat), Numbers(q) PROVE Reverse(q) \in Seq(Nat) /\ Numbers(Reverse(q))
<1>1. Len(q) \in Nat /\ DOMAIN q = 1 .. Len(q)
  OBVIOUS
<1>2. \A k \in 1 .. Len(q) : (Len(q) - k) + 1 \in 1 .. Len(q)
  BY <1>1
<1>3. /\ Reverse(q) \in [1 .. Len(q) -> Nat] /\ DOMAIN Reverse(q) = 1 .. Len(q)
      /\ \A k \in 1 .. Len(q) : Reverse(q)[k] = q[(Len(q) - k) + 1]
  BY <1>1, <1>2 DEF Reverse
<1>4. Reverse(q) \in Seq(Nat)
  BY <1>1, <1>3
<1>5. ToSet(Reverse(q)) \subseteq ToSet(q)
  BY <1>1, <1>2, <1>3 DEF ToSet
<1>6. QED BY <1>4, <1>5 DEF Numbers
LEMMA OthersMove ==
    ASSUME PageInv, NEW v \in Views, orderRows' = [orderRows EXCEPT ![v] = Reverse(@)],
           news' = Append(news, ViewNews(v, orderRows'[v])), "another" \in mishaps', mishaps \subseteq mishaps',
           UNCHANGED <<page, stored, orders, rows, missed, scripts, added>>
    PROVE  PageInv'
<1>1. RowsKeep /\ Ids' = Ids
  BY DEF PageInv, PageTyped, RowsKeep, Ids
<1>2. PICK q : q = orderRows'[v]
  OBVIOUS
<1>3. /\ orderRows' \in [Views -> Seq(Nat)] /\ q \in Seq(Nat) /\ Numbers(q)
      /\ \A w \in Views \ {v} : orderRows'[w] = orderRows[w]
  <2>1. orderRows \in [Views -> Seq(Nat)] /\ Numbers(orderRows[v]) /\ orderRows[v] \in Seq(Nat)
    BY DEF PageInv, PageTyped, ListsTyped
  <2>2. PICK r : r = Reverse(orderRows[v]) /\ r \in Seq(Nat) /\ Numbers(r)
    BY <2>1, ReversedIs
  <2>3. orderRows' = [orderRows EXCEPT ![v] = r]
    BY <2>2
  <2>4. QED BY ONLY <1>2, <2>1, <2>2, <2>3
<1>4. PICK n : n = ViewNews(v, q)
  OBVIOUS
<1>5. n \in AllNews /\ n.view = v /\ n.order = q /\ n.card = NoCard /\ v # NoView /\ news' = Append(news, n)
  BY <1>2, <1>3, <1>4, ViewsAre DEF ViewNews, AllNews, NoCard
<1>6. NewsAreTrue' /\ Comes(n)
  <2>1. TrueThen(n)
    BY <1>2, <1>5 DEF TrueThen
  <2>2. \A y \in AllNews : IsNews(y) /\ IsTrue(y) /\ ~OfSame(n, y) => TrueThen(y)
    <3> SUFFICES ASSUME NEW y \in AllNews, IsNews(y), IsTrue(y), ~OfSame(n, y) PROVE TrueThen(y)
      OBVIOUS
    <3>1. CASE y.view = NoView
      BY <3>1 DEF IsTrue, TrueThen
    <3>2. CASE y.view # NoView
      <4>1. y.card = NoCard /\ y.view \in Views
        BY <3>2 DEF IsNews, AllNews
      <4>2. y.view # v
        BY <1>5, <4>1 DEF OfSame
      <4>3. QED BY <1>3, <3>2, <4>1, <4>2 DEF IsTrue, TrueThen
    <3>3. QED BY <3>1, <3>2
  <2>3. QED BY <1>5, <2>1, <2>2, NewsCome DEF PageInv
<1>7. PageTyped'
  <2>1. StoreTyped' /\ ScriptsTyped' /\ AddedTyped'
    BY <1>1, PartsStay DEF PageInv
  <2>2. \A p : Numbers(p) => Numbers(p)'
    BY <1>1, StillTyped DEF PageInv
  <2>3. ListsTyped'
    <3>1. \A w \in Views : \E p : p = orderRows'[w] /\ Numbers(p)'
      BY <1>2, <1>3, <2>2 DEF PageInv, PageTyped, ListsTyped
    <3>2. QED BY <1>3, <3>1 DEF ListsTyped, Numbers
  <2>4. NewsTyped'
    <3>1. Numbers(q)'
      BY <1>3, <2>2
    <3>2. Numbers(n.order)'
      BY <1>5, <3>1 DEF Numbers
    <3>3. IsNews(n)'
      BY <1>5, <3>2 DEF IsNews
    <3>4. QED BY <1>1, <1>6, <3>3, NewsStayTyped DEF PageInv
  <2>5. QED BY <1>1, <2>1, <2>3, <2>4 DEF PageTyped, RowsKeep
<1>8. \A k \in DOMAIN news : \E m \in DOMAIN news' : news'[m] = news[k]
  BY <1>6 DEF Comes
<1>9. CardsAreTrue'
  BY <1>1, <1>8, CardsStayTrue DEF PageInv
<1>10. OrdersAreTrue'
  <2>1. \E m \in DOMAIN news' : news'[m].view = v
    BY <1>5, <1>6 DEF Comes
  <2>2. \A w \in Views : orderRows'[w] = orderRows[w] \/ \E m \in DOMAIN news' : news'[m].view = w
    BY <1>3, <2>1
  <2>3. QED BY <1>8, <2>2, OrdersStayTrue DEF PageInv
<1>11. OpenIsThere' /\ AllListed'
  BY DEF OpenIsThere, AllListed, AddedSlips
<1>12. QED BY <1>6, <1>7, <1>9, <1>10, <1>11 DEF PageInv
LEMMA AnotherWell == ASSUME PageInv, AnotherActs PROVE PageInv'
<1>1. "another" \in mishaps' /\ mishaps \subseteq mishaps' /\ UNCHANGED <<page, stored, orders, missed, scripts, added>>
  BY DEF AnotherActs, address, store
<1>2. ASSUME NEW d \in LiveOn(page.board), rows' = [rows EXCEPT ![d].live = FALSE],
             news' = Append(news, CardNews(d, FALSE)), UNCHANGED orderRows
      PROVE  PageInv'
  <2>1. d \in Ids /\ rows[d].live
    BY <1>2 DEF LiveOn
  <2>2. QED BY <1>1, <1>2, <2>1, OthersDelete
<1>3. ASSUME NEW v \in Views, orderRows' = [orderRows EXCEPT ![v] = Reverse(@)],
             news' = Append(news, ViewNews(v, orderRows'[v])), UNCHANGED rows
      PROVE  PageInv'
  BY <1>1, <1>3, OthersMove
<1>4. QED BY <1>2, <1>3 DEF AnotherActs

\* The user's additions and deletions.
LEMMA StartsWell ==
    ASSUME PageInv, HasView, NEW todo \in Steps3, NEW c \in Nat, NEW template \in BOOLEAN, NEW show \in BOOLEAN,
           NEW list \in BOOLEAN, list => todo \in ListSteps, ~list => todo \in OtherSteps,
           Head(todo) \notin {"added", "copied", "order", "unorder"}, Contains(todo, "delete") \/ Head(todo) = "duplicate" => c \in Ids,
           page.card # NoCard /\ c = page.card /\ Contains(todo, "delete") => Head(todo) = "delete" /\ Len(todo) = 2,
           Runs(Script(todo, c, template, show, list))
    PROVE  PageInv'
<1>1. PICK s : s = Script(todo, c, template, show, list)
  OBVIOUS
<1>2. Runs(s)
  BY <1>1
<1>3. s.list = list
  BY <1>1, ScriptFields DEF PageInv
<1>4. /\ scripts' = scripts \o <<s>> /\ mishaps' = mishaps \cup Mishap("blind", s.list /\ Blind)
      /\ UNCHANGED <<page, stored, orders, rows, orderRows, missed, news, added>>
  BY <1>2 DEF Runs, Starts, Adds, address, server
<1>5. list /\ Blind => "blind" \in mishaps'
  BY <1>3, <1>4 DEF Mishap
<1>6. mishaps \subseteq mishaps'
  BY <1>4
<1>7. QED BY <1>1, <1>4, <1>5, <1>6, RunsWell
LEMMA AddsCardWell == ASSUME PageInv, Free, NEW show \in BOOLEAN, AddCard(show) PROVE PageInv'
<1> DEFINE todo == <<"insert", "added", "order">>
<1>1. PICK f, t \in BOOLEAN : ~f /\ t /\ f = FALSE /\ t = TRUE
  OBVIOUS
<1>2. todo \in ListSteps /\ todo \in Steps3 /\ Head(todo) = "insert" /\ ~Contains(todo, "delete")
  BY DEF ListSteps, Steps3, Contains
<1>3. Runs(Script(todo, NoCard, f, show, t))
  BY <1>1, Zenon DEF AddCard
<1>4. HasView /\ NoCard \in Nat
  BY DEF Free, NoCard
<1> HIDE DEF todo
<1>5. QED BY <1>1, <1>2, <1>3, <1>4, StartsWell
LEMMA CopiesWell ==
    ASSUME PageInv, HasView, NEW c \in Ids, NEW template \in BOOLEAN, NEW show \in BOOLEAN,
           \/ Runs(Script(<<"duplicate", "copied", "order">>, c, template, show, TRUE))
           \/ Runs(Script(<<"duplicate", "copied">>, c, template, show, FALSE))
    PROVE  PageInv'
<1> DEFINE todo == <<"duplicate", "copied", "order">>
           todo2 == <<"duplicate", "copied">>
<1>1. PICK f, t \in BOOLEAN : ~f /\ t /\ f = FALSE /\ t = TRUE
  OBVIOUS
<1>2. todo \in ListSteps /\ todo \in Steps3 /\ Head(todo) = "duplicate" /\ ~Contains(todo, "delete")
  BY DEF ListSteps, Steps3, Contains
<1>3. todo2 \in OtherSteps /\ todo2 \in Steps3 /\ Head(todo2) = "duplicate" /\ ~Contains(todo2, "delete")
  BY DEF OtherSteps, Steps3, Contains
<1>4. Runs(Script(todo, c, template, show, t)) \/ Runs(Script(todo2, c, template, show, f))
  BY <1>1, Zenon
<1>5. c \in Nat
  BY DEF PageInv, PageTyped, Ids
<1> HIDE DEF todo, todo2
<1>6. CASE Runs(Script(todo, c, template, show, t))
  BY ONLY PageInv, HasView, c \in Ids, template \in BOOLEAN, show \in BOOLEAN, <1>1, <1>2, <1>5, <1>6, StartsWell
<1>7. CASE Runs(Script(todo2, c, template, show, f))
  BY ONLY PageInv, HasView, c \in Ids, template \in BOOLEAN, show \in BOOLEAN, <1>1, <1>3, <1>5, <1>7, StartsWell
<1>8. QED BY <1>4, <1>6, <1>7
LEMMA DeletionIs ==
    ASSUME NEW c, NEW closes \in BOOLEAN
    PROVE  \E f \in BOOLEAN : \E todo \in OtherSteps :
              /\ f = FALSE /\ Deletion(c, closes) = Script(todo, c, f, f, f)
              /\ Head(todo) = "delete" /\ (closes => Len(todo) = 2)
<1> DEFINE todo == IF closes THEN <<"delete", "close">> ELSE <<"delete">>
<1>1. todo \in OtherSteps /\ Head(todo) = "delete" /\ (closes => Len(todo) = 2)
  BY DEF OtherSteps
<1>2. PICK f \in BOOLEAN : f = FALSE
  OBVIOUS
<1>3. Deletion(c, closes) = Script(todo, c, f, f, f)
  BY <1>2, Zenon DEF Deletion
<1> HIDE DEF todo
<1>4. QED BY <1>1, <1>2, <1>3
LEMMA DropsWell ==
    ASSUME PageInv, HasView, NEW c \in Ids, NEW closes \in BOOLEAN, page.card = NoCard \/ (c = page.card => closes),
           scripts' = scripts \o <<Deletion(c, closes)>>, mishaps \subseteq mishaps',
           UNCHANGED <<page, stored, orders, rows, orderRows, missed, news, added>>
    PROVE  PageInv'
<1>1. PICK f \in BOOLEAN, todo \in OtherSteps :
         /\ f = FALSE /\ Deletion(c, closes) = Script(todo, c, f, f, f)
         /\ Head(todo) = "delete" /\ (closes => Len(todo) = 2)
  BY DeletionIs
<1>2. PICK s : s = Deletion(c, closes)
  OBVIOUS
<1>3. scripts' = scripts \o <<s>> /\ s = Script(todo, c, f, f, f) /\ ~f /\ todo \in Steps3 /\ c \in Nat
  BY <1>1, <1>2 DEF PageInv, PageTyped, Ids, Steps3
<1>4. page.card # NoCard /\ c = page.card => Len(todo) = 2
  BY <1>1
<1>5. QED BY <1>1, <1>3, <1>4, RunsWell

LEMMA AsksWell ==
    ASSUME PageInv, HasView, NEW c \in Ids, NEW closes \in BOOLEAN, page.card = NoCard \/ (c = page.card => closes),
           AskToDelete(c, closes)
    PROVE  PageInv'
<1>1. ASSUME Ask(c) PROVE PageInv'
  BY <1>1, RestsWell DEF Ask, Looks, Still, server
<1>2. ASSUME Runs(Deletion(c, closes)) PROVE PageInv'
  <2>1. /\ scripts' = scripts \o <<Deletion(c, closes)>> /\ mishaps \subseteq mishaps'
        /\ UNCHANGED <<page, stored, orders, rows, orderRows, missed, news, added>>
    BY <1>2 DEF Runs, Starts, Adds, address, server
  <2>2. QED BY <2>1, DropsWell
<1>3. QED BY <1>1, <1>2 DEF AskToDelete

LEMMA SelectsWell == ASSUME PageInv, NEW ids, Select(ids) PROVE PageInv'
BY RestsWell DEF Select, Looks, Still, server

LEMMA SelectedAre == ASSUME PageTyped PROVE SelectedShown \in Seq(Ids)
<1> DEFINE S == {c \in Here : Contains(selected, c)}
<1>1. S \subseteq Ids
  BY DEF Here, PageTyped, StoreTyped
<1>2. IsFiniteSet(S)
  <2>1. Ids = 1 .. Len(rows) /\ Len(rows) \in Int
    BY DEF Ids, PageTyped
  <2>2. IsFiniteSet(1 .. Len(rows))
    BY <2>1, FS_Interval
  <2>3. QED BY <1>1, <2>1, <2>2, FS_Subset
<1>3. SetToSeq(S) \in Seq(S)
  BY <1>2, ListedOnce
<1> HIDE DEF S
<1>4. SetToSeq(S) \in Seq(Ids)
  BY <1>1, <1>3
<1>5. QED BY <1>4 DEF SelectedShown, S

LEMMA CardEditsWell ==
    ASSUME PageInv, NEW c \in Ids,
           \/ EditCardTemplate(c) \/ ToggleSelected(c) \/ ExtendSelection(c)
           \/ TemplateItem(c) \/ DeleteTemplate(c) \/ KanbanCard(c) \/ TableRow(c) \/ GalleryCard(c)
    PROVE  PageInv'
<1>1. ASSUME Free PROVE HasView /\ page.card = NoCard
  BY <1>1 DEF Free, Dialog
<1>2. PICK f, t \in BOOLEAN : f = FALSE /\ t = TRUE
  OBVIOUS
<1>3. ASSUME EditCardTemplate(c) PROVE PageInv'
  <2>1. HasView /\ ShowHere(c) /\ Still /\ rows[c].board = page.board /\ c \in Nat
    BY <1>1, <1>3 DEF EditCardTemplate, Looks, Templates, PageInv, PageTyped, Ids
  <2>2. QED BY <2>1, ShowsHere
<1>4. ASSUME ToggleSelected(c) \/ ExtendSelection(c) PROVE PageInv'
  BY <1>4, SelectsWell DEF ToggleSelected, ExtendSelection
<1>5. ASSUME TemplateItem(c) PROVE PageInv'
  <2>1. HasView /\ Runs(Script(<<"duplicate", "copied", "order">>, c, f, t, TRUE))
    BY <1>1, <1>2, <1>5, Zenon DEF TemplateItem, AddCardFromTemplate
  <2>2. QED BY <2>1, CopiesWell
<1>6. ASSUME DeleteTemplate(c) PROVE PageInv'
  <2>1. HasView /\ page.card = NoCard
    BY <1>1, <1>6 DEF DeleteTemplate
  <2>2. /\ scripts' = Append(scripts, Deletion(c, FALSE))
        /\ UNCHANGED <<page, stored, orders, rows, orderRows, missed, news, added, mishaps>>
    BY <1>6 DEF DeleteTemplate, address, server
  <2>3. PICK s : s = Deletion(c, FALSE) /\ s = Deletion(c, f)
    BY <1>2, Zenon
  <2>4. scripts' = scripts \o <<s>>
    <3>1. scripts \in Seq(Scripts \cup {s}) /\ s \in Scripts \cup {s}
      BY DEF PageInv, PageTyped, ScriptsTyped
    <3>2. Append(scripts, s) = scripts \o <<s>>
      BY ONLY <3>1
    <3>3. QED BY <2>2, <2>3, <3>2
  <2>5. scripts' = scripts \o <<Deletion(c, f)>>
    BY <2>3, <2>4
  <2>6. QED BY <1>2, <2>1, <2>2, <2>5, DropsWell
<1>7. ASSUME NEW show \in BOOLEAN, DuplicateFromMenu(c, show) PROVE PageInv'
  <2>1. HasView /\ Runs(Script(<<"duplicate", "copied">>, c, f, show, FALSE))
    BY <1>1, <1>2, <1>7, Zenon DEF DuplicateFromMenu
  <2>2. QED BY <2>1, CopiesWell
<1>8. ASSUME Free, AskToDelete(c, FALSE) PROVE PageInv'
  <2>1. AskToDelete(c, f)
    BY <1>2, <1>8, Zenon
  <2>2. QED BY <1>1, <1>8, <2>1, AsksWell
<1>9. ASSUME Free, AddCard(FALSE) PROVE PageInv'
  <2>1. AddCard(f)
    BY <1>2, <1>9, Zenon
  <2>2. QED BY <1>9, <2>1, AddsCardWell
<1>10. ASSUME Ask(c) PROVE PageInv'
  BY <1>10, RestsWell DEF Ask, Looks, Still, server
<1>11. ASSUME KanbanCard(c) PROVE PageInv'
  <2>1. CASE Free /\ AskToDelete(c, FALSE)
    BY <1>8, <2>1
  <2>2. CASE DuplicateFromMenu(c, TRUE)
    <3>1. DuplicateFromMenu(c, t)
      BY <1>2, <2>2, Zenon
    <3>2. QED BY <1>7, <3>1
  <2>3. QED BY <1>11, <2>1, <2>2 DEF KanbanCard
<1>12. ASSUME TableRow(c) PROVE PageInv'
  <2>1. CASE Free /\ AskToDelete(c, FALSE)
    BY <1>8, <2>1
  <2>2. CASE DuplicateFromMenu(c, TRUE)
    <3>1. DuplicateFromMenu(c, t)
      BY <1>2, <2>2, Zenon
    <3>2. QED BY <1>7, <3>1
  <2>3. CASE Free /\ AddCard(FALSE)
    BY <1>9, <2>3
  <2>4. QED BY <1>12, <2>1, <2>2, <2>3 DEF TableRow
<1>13. ASSUME GalleryCard(c) PROVE PageInv'
  <2>1. CASE DuplicateFromMenu(c, FALSE)
    <3>1. DuplicateFromMenu(c, f)
      BY <1>2, <2>1, Zenon
    <3>2. QED BY <1>7, <3>1
  <2>2. QED BY <1>10, <1>13, <2>1 DEF GalleryCard
<1>14. QED BY <1>3, <1>4, <1>5, <1>6, <1>11, <1>12, <1>13

\* A question is asked on a view.
AskedInView == asked # NoCard => HasView
LEMMA EditsWell == ASSUME PageInv, AskedInView, Edits PROVE PageInv'
<1>1. ASSUME Free PROVE HasView /\ page.card = NoCard
  BY <1>1 DEF Free, Dialog
<1>2. PICK f, t \in BOOLEAN : f = FALSE /\ t = TRUE
  OBVIOUS
<1>3. ASSUME NEW c, SetDefault(c) PROVE PageInv'
  BY <1>3, RestsWell DEF SetDefault, address, server
<1>4. ASSUME ClearSelection PROVE PageInv'
  BY <1>4, SelectsWell DEF ClearSelection
<1>5. ASSUME Free, AddCard(TRUE) PROVE PageInv'
  <2>1. AddCard(t)
    BY <1>2, <1>5, Zenon
  <2>2. QED BY <1>5, <2>1, AddsCardWell
<1>6. ASSUME Free, NEW c \in Templates, AddCardFromTemplate(c) PROVE PageInv'
  <2>1. HasView /\ c \in Ids
    BY <1>1, <1>6 DEF Templates, PageInv, PageTyped, StoreTyped
  <2>2. Runs(Script(<<"duplicate", "copied", "order">>, c, f, t, TRUE))
    BY <1>2, <1>6, Zenon DEF AddCardFromTemplate
  <2>3. QED BY <2>1, <2>2, CopiesWell
<1>7. ASSUME NewCardButton \/ EmptyCardButton \/ NewInColumn \/ NewInGallery PROVE PageInv'
  BY <1>5, <1>6, <1>7 DEF NewCardButton, EmptyCardButton, NewInColumn, NewInGallery
<1>8. ASSUME NewRow PROVE PageInv'
  <2>1. Free /\ AddCard(f)
    BY <1>2, <1>8, Zenon DEF NewRow
  <2>2. QED BY <2>1, AddsCardWell
<1>9. ASSUME AddCardTemplate PROVE PageInv'
  <2> DEFINE todo == <<"insert", "added">>
  <2>1. todo \in OtherSteps /\ todo \in Steps3 /\ Head(todo) = "insert" /\ ~Contains(todo, "delete")
    BY DEF OtherSteps, Steps3, Contains
  <2>2. Runs(Script(todo, NoCard, t, t, f)) /\ HasView
    BY <1>1, <1>2, <1>9, Zenon DEF AddCardTemplate
  <2>3. NoCard \in Nat /\ ~f
    BY <1>2 DEF NoCard
  <2> HIDE DEF todo
  <2>4. QED BY ONLY PageInv, f \in BOOLEAN, t \in BOOLEAN, <2>1, <2>2, <2>3, StartsWell
<1>10. ASSUME ConfirmDeletion PROVE PageInv'
  <2> DEFINE e == asked = page.card
  <2>1. e \in BOOLEAN /\ (asked = page.card => e)
    OBVIOUS
  <2>2. /\ scripts' = scripts \o <<Deletion(asked, e)>> /\ asked # NoCard /\ asked \in stored
        /\ UNCHANGED <<page, stored, orders, rows, orderRows, missed, news, added, mishaps>>
    BY <1>10 DEF ConfirmDeletion, Decides, Adds, Known, server
  <2> HIDE DEF e
  <2>3. HasView /\ asked \in Ids
    BY <2>2 DEF AskedInView, PageInv, PageTyped, StoreTyped
  <2>4. QED BY <2>1, <2>2, <2>3, DropsWell
<1>11. ASSUME CancelDeletion PROVE PageInv'
  <2>1. /\ scripts' = scripts \o <<>> /\ UNCHANGED <<page, stored, orders, rows, orderRows, missed, news, added, mishaps>>
    BY <1>11 DEF CancelDeletion, Decides, Adds, server
  <2>2. scripts' = scripts
    BY <2>1 DEF PageInv, PageTyped, ScriptsTyped
  <2>3. QED BY <2>1, <2>2, RestsWell
<1>12. ASSUME DeleteFromDialog PROVE PageInv'
  <2>1. HasView /\ AskToDelete(page.card, t) /\ page.card \in Ids
    <3>1. AskToDelete(page.card, t)
      BY <1>2, <1>12, Zenon DEF DeleteFromDialog
    <3>2. QED BY <1>12, <3>1 DEF DeleteFromDialog, Dialog, Known, PageInv, PageTyped, StoreTyped
  <2>2. QED BY <1>2, <2>1, AsksWell
<1>13. ASSUME MakeTemplate PROVE PageInv'
  <2>1. HasView /\ page.card \in Ids
    BY <1>13 DEF MakeTemplate, Dialog, CurrentCard, PageInv, PageTyped, StoreTyped
  <2>2. Runs(Script(<<"duplicate", "copied">>, page.card, t, t, FALSE))
    BY <1>2, <1>13, Zenon DEF MakeTemplate
  <2>3. QED BY <2>1, <2>2, CopiesWell
<1>14. ASSUME DeleteKey PROVE PageInv'
  <2>1. HasView /\ page.card = NoCard /\ SelectedShown \in Seq(Ids)
    BY <1>1, <1>14, SelectedAre DEF DeleteKey, PageInv
  <2>2. /\ scripts' = scripts \o [k \in DOMAIN SelectedShown |-> Deletion(SelectedShown[k], FALSE)]
        /\ UNCHANGED <<page, stored, orders, rows, orderRows, missed, news, added, mishaps>>
    BY <1>14 DEF DeleteKey, Starts, Adds, server
  <2>3. /\ [k \in DOMAIN SelectedShown |-> Deletion(SelectedShown[k], FALSE)]
             = [k \in DOMAIN SelectedShown |-> Script(<<"delete">>, SelectedShown[k], FALSE, FALSE, FALSE)]
    BY Zenon DEF Deletion
  <2>4. <<"delete">> \in OtherSteps /\ Head(<<"delete">>) \in {"delete", "duplicate"}
    BY DEF OtherSteps
  <2>5. PICK q : q = SelectedShown
    OBVIOUS
  <2>6. q \in Seq(Ids) /\ scripts' = scripts \o [k \in DOMAIN q |-> Script(<<"delete">>, q[k], FALSE, FALSE, FALSE)]
    BY <2>1, <2>2, <2>3, <2>5, Zenon
  <2>7. QED BY <2>1, <2>2, <2>4, <2>6, KeysWell
<1>15. ASSUME DuplicateKey PROVE PageInv'
  <2>1. HasView /\ page.card = NoCard /\ SelectedShown \in Seq(Ids)
    BY <1>1, <1>15, SelectedAre DEF DuplicateKey, PageInv
  <2>2. /\ scripts' = scripts \o [k \in DOMAIN SelectedShown |->
                                     Script(<<"duplicate", "copied">>, SelectedShown[k], FALSE, FALSE, FALSE)]
        /\ UNCHANGED <<page, stored, orders, rows, orderRows, missed, news, added, mishaps>>
    BY <1>15 DEF DuplicateKey, Starts, Adds, server
  <2>4. <<"duplicate", "copied">> \in OtherSteps /\ Head(<<"duplicate", "copied">>) \in {"delete", "duplicate"}
    BY DEF OtherSteps
  <2>5. PICK q : q = SelectedShown
    OBVIOUS
  <2>6. q \in Seq(Ids) /\ scripts' = scripts \o [k \in DOMAIN q |-> Script(<<"duplicate", "copied">>, q[k], FALSE, FALSE, FALSE)]
    BY <2>1, <2>2, <2>5, Zenon
  <2>7. QED BY <2>1, <2>2, <2>4, <2>6, KeysWell
<1>16. ASSUME NEW c \in Ids, \/ EditCardTemplate(c) \/ ToggleSelected(c) \/ ExtendSelection(c)
                             \/ TemplateItem(c) \/ DeleteTemplate(c) \/ KanbanCard(c) \/ TableRow(c) \/ GalleryCard(c)
       PROVE  PageInv'
  BY <1>16, CardEditsWell
<1>17. QED BY <1>3, <1>4, <1>7, <1>8, <1>9, <1>10, <1>11, <1>12, <1>13, <1>14, <1>15, <1>16, UndoesWell DEF Edits

LEMMA AskedStays == ASSUME AskedInView, page'.view = page.view, asked' \in {asked, NoCard} \/ HasView PROVE AskedInView'
BY DEF AskedInView, HasView

LEMMA ShowsAView ==
    ASSUME AskedInView, NEW at \in Addresses, at.view # NoView, NEW h, NEW c, NEW ids, NEW lists, ShowCard(at, h, c, ids, lists)
    PROVE  AskedInView'
<1>1. page' = [at EXCEPT !.card = c]
  BY DEF ShowCard, GoTo
<1>2. page'.view = at.view
  BY <1>1 DEF Addresses
<1>3. QED BY <1>2 DEF AskedInView, HasView

LEMMA AnswersAsk == ASSUME PageInv, AskedInView, Answers \/ AnotherActs PROVE AskedInView'
<1>1. ASSUME Deliver PROVE AskedInView'
  <2>1. page' = page /\ asked' \in {asked, NoCard}
    BY <1>1 DEF Deliver
  <2>2. QED BY <2>1, AskedStays
<1>2. ASSUME UNCHANGED address PROVE AskedInView'
  BY <1>2, AskedStays, SMTT(40) DEF address
<1>3. ASSUME NEW i \in DOMAIN scripts, Serve(i) PROVE AskedInView'
  BY <1>2, <1>3 DEF Serve, InsertBlock, InsertFails, DuplicateBlock, DuplicateFails, CopyPatchFails, RequestFails, WriteOrder, DeleteBlock, PutOrderBack
<1>4. ASSUME NEW i \in DOMAIN scripts, Continue(i) PROVE AskedInView'
  <2> DEFINE s == scripts[i]
  <2>1. s.at \in Addresses /\ s.at.view # NoView
    <3>1. IsScript(s)
      BY ScriptIs DEF PageInv
    <3>2. QED BY <3>1, CardPageAssumption DEF IsScript, IsAddress, NoView
  <2>2. \/ UNCHANGED address
        \/ \E c, ids, lists : ShowCard(s.at, s.hadSelection, c, ids, lists)
    <3>1. CASE CardAdded(i)
      BY <3>1 DEF CardAdded
    <3>2. CASE CardCopied(i)
      BY <3>2 DEF CardCopied
    <3>3. CASE DialogClosed(i)
      BY <3>3 DEF DialogClosed
    <3> QED BY <1>4, <3>1, <3>2, <3>3 DEF Continue
  <2> HIDE DEF s
  <2>3. QED BY <1>2, <2>1, <2>2, ShowsAView
<1>5. ASSUME AnotherActs PROVE AskedInView'
  BY <1>2, <1>5 DEF AnotherActs
<1>6. QED BY <1>1, <1>3, <1>4, <1>5 DEF Answers

LEMMA VisitsAsk == ASSUME PageInv, AskedInView, Visits PROVE AskedInView'
<1>1. ASSUME HasView, NEW c, ShowHere(c) PROVE AskedInView'
  <2>1. page \in Addresses /\ page.view # NoView
    BY <1>1 DEF HasView, PageInv, PageTyped, StoreTyped, IsAddress
  <2>2. ShowCard(page, selected # <<>>, c, stored, orders)
    BY <1>1 DEF ShowHere
  <2>3. QED BY <2>1, <2>2, ShowsAView
<1>2. ASSUME CloseDialog PROVE AskedInView'
  BY <1>1, <1>2 DEF CloseDialog, Dialog
<1>3. ASSUME NEW c, CardClicked(c) \/ OpenButton(c) PROVE AskedInView'
  BY <1>1, <1>3 DEF CardClicked, OpenButton, Free
<1>4. ASSUME asked = NoCard, UNCHANGED asked PROVE AskedInView'
  BY <1>4 DEF AskedInView
<1>5. ASSUME Back PROVE AskedInView'
  BY <1>4, <1>5 DEF Back, Leaves
<1>6. ASSUME NEW v, OpenView(v) PROVE AskedInView'
  BY <1>4, <1>6 DEF OpenView
<1>7. ASSUME NEW b, SwitchBoard(b) PROVE AskedInView'
  BY <1>4, <1>7 DEF SwitchBoard, Leaves
<1>8. QED BY <1>2, <1>3, <1>5, <1>6, <1>7 DEF Visits

LEMMA EditsAsk == ASSUME PageInv, AskedInView, Edits PROVE AskedInView'
<1>1. ASSUME UNCHANGED page, asked' \in {asked, NoCard} \/ HasView PROVE AskedInView'
  BY <1>1, AskedStays
<1>2. ASSUME NEW s, Runs(s) PROVE AskedInView'
  BY <1>1, <1>2 DEF Runs, address
<1>3. ASSUME HasView, NEW c, Ask(c) PROVE AskedInView'
  BY <1>1, <1>3 DEF Ask
<1>4. ASSUME HasView, NEW c, NEW closes, AskToDelete(c, closes) PROVE AskedInView'
  BY <1>2, <1>3, <1>4 DEF AskToDelete
<1>5. ASSUME NEW show, AddCard(show) PROVE AskedInView'
  BY <1>2, <1>5 DEF AddCard
<1>6. ASSUME NEW c, AddCardFromTemplate(c) PROVE AskedInView'
  BY <1>2, <1>6 DEF AddCardFromTemplate
<1>7. ASSUME NEW c, NEW show, DuplicateFromMenu(c, show) PROVE AskedInView'
  BY <1>2, <1>7 DEF DuplicateFromMenu
<1>8. ASSUME NEW ids, Select(ids) PROVE AskedInView'
  BY <1>1, <1>8 DEF Select
<1>9. ASSUME NEW c, EditCardTemplate(c) PROVE AskedInView'
  <2>1. page \in Addresses /\ page.view # NoView
    BY <1>9 DEF EditCardTemplate, Free, HasView, PageInv, PageTyped, StoreTyped, IsAddress
  <2>2. ShowCard(page, selected # <<>>, c, stored, orders)
    BY <1>9 DEF EditCardTemplate, ShowHere
  <2>3. QED BY <2>1, <2>2, ShowsAView
<1>10. ASSUME NEW c, ToggleSelected(c) \/ ExtendSelection(c) PROVE AskedInView'
  BY <1>8, <1>10 DEF ToggleSelected, ExtendSelection
<1>11. ASSUME NEW c, TemplateItem(c) \/ DeleteTemplate(c) PROVE AskedInView'
  BY <1>1, <1>6, <1>11 DEF TemplateItem, DeleteTemplate, address
<1>12. ASSUME NEW c, KanbanCard(c) \/ TableRow(c) \/ GalleryCard(c) PROVE AskedInView'
  <2>1. HasView
    BY <1>12 DEF KanbanCard, TableRow, GalleryCard, Free
  <2>2. \/ AskToDelete(c, FALSE) \/ DuplicateFromMenu(c, TRUE) \/ AddCard(FALSE)
        \/ Ask(c) \/ DuplicateFromMenu(c, FALSE)
    BY <1>12, Zenon DEF KanbanCard, TableRow, GalleryCard
  <2>3. CASE AskToDelete(c, FALSE)
    BY <1>4, <2>1, <2>3, Zenon
  <2>4. CASE DuplicateFromMenu(c, TRUE)
    BY <1>7, <2>4, Zenon
  <2>5. CASE AddCard(FALSE)
    BY <1>5, <2>5, Zenon
  <2>6. CASE DuplicateFromMenu(c, FALSE)
    BY <1>7, <2>6, Zenon
  <2>7. QED BY <1>3, <2>1, <2>2, <2>3, <2>4, <2>5, <2>6
<1>13. ASSUME NEW c, SetDefault(c) PROVE AskedInView'
  BY <1>1, <1>13 DEF SetDefault, address
<1>14. ASSUME ClearSelection PROVE AskedInView'
  BY <1>8, <1>14 DEF ClearSelection
<1>15. ASSUME DeleteKey \/ DuplicateKey \/ UndoAddition PROVE AskedInView'
  BY <1>1, <1>15 DEF DeleteKey, DuplicateKey, UndoAddition, address
<1>16. ASSUME AddCardTemplate \/ MakeTemplate PROVE AskedInView'
  BY <1>2, <1>16 DEF AddCardTemplate, MakeTemplate
<1>17. ASSUME AddCard(TRUE) \/ AddCard(FALSE) PROVE AskedInView'
  BY <1>5, <1>17, Zenon
<1>18. ASSUME NewCardButton \/ EmptyCardButton \/ NewInColumn \/ NewRow \/ NewInGallery PROVE AskedInView'
  BY <1>6, <1>17, <1>18, Zenon DEF NewCardButton, EmptyCardButton, NewInColumn, NewRow, NewInGallery
<1>19. ASSUME ConfirmDeletion \/ CancelDeletion PROVE AskedInView'
  BY <1>1, <1>19 DEF ConfirmDeletion, CancelDeletion, Decides
<1>20. ASSUME DeleteFromDialog PROVE AskedInView'
  <2>1. HasView /\ AskToDelete(page.card, TRUE)
    BY <1>20 DEF DeleteFromDialog, Dialog
  <2>2. QED BY <1>4, <2>1, Zenon
<1>21. QED BY <1>9, <1>10, <1>11, <1>12, <1>13, <1>14, <1>15, <1>16, <1>18, <1>19, <1>20, Zenon DEF Edits

\* Every step keeps the invariant, whatever the bounds are.
LEMMA PageSteps ==
    ASSUME PageInv, AskedInView, Next \/ UNCHANGED pageVars
    PROVE  PageInv' /\ AskedInView'
<1>1. CASE Visits
  BY <1>1, VisitsWell, VisitsAsk
<1>2. CASE Edits
  BY <1>2, EditsWell, EditsAsk
<1>3. CASE AnotherActs
  BY <1>3, AnotherWell, AnswersAsk
<1>4. CASE Answers
  <2>1. PageInv'
    BY <1>4, DeliversWell, ServesWell DEF Answers
  <2>2. QED BY <1>4, <2>1, AnswersAsk
<1>5. CASE UNCHANGED pageVars
  <2>1. /\ UNCHANGED <<page, stored, orders, rows, orderRows, missed, scripts, news, added, mishaps>>
        /\ UNCHANGED <<page, asked>>
    BY <1>5 DEF pageVars, address, store, server
  <2>2. PageInv'
    BY <2>1, RestsWell
  <2>3. AskedInView'
    BY <2>1 DEF AskedInView, HasView
  <2>4. QED BY <2>2, <2>3
<1>6. QED BY <1>1, <1>2, <1>3, <1>4, <1>5 DEF Next

LEMMA JoinAt ==
    ASSUME NEW S, NEW p \in Seq(S), NEW q \in Seq(S), NEW c \in 1 .. Len(p) + Len(q)
    PROVE  (p \o q)[c] = IF c <= Len(p) THEN p[c] ELSE q[c - Len(p)]
OBVIOUS

LEMMA FirstRowsAre ==
    ASSUME Opened
    PROVE  /\ rows \in Seq(Rows) /\ DOMAIN FirstCards \subseteq Ids
           /\ \A c \in Ids : rows[c].live /\ rows[c].to = NoView
<1> DEFINE n == Len(FirstCards)
           first == [c \in DOMAIN FirstCards |-> FirstRow(FirstCards[c])]
<1>1. FirstCards \in Seq(Boards) /\ DOMAIN FirstCards = 1 .. n /\ n \in Nat /\ \A c \in 1 .. n : FirstCards[c] \in Boards
  BY CardPageAssumption DEF Boards
<1>2. ASSUME NEW b \in Boards
      PROVE  FirstRow(b) \in Rows /\ FirstRow(b).live /\ FirstRow(b).to = NoView
  BY DEF FirstRow, Rows, NoView
<1>3. first \in Seq(Rows) /\ Len(first) = n /\ \A c \in 1 .. n : first[c].live /\ first[c].to = NoView
  <2>1. \A c \in 1 .. n : FirstRow(FirstCards[c]) \in Rows /\ FirstRow(FirstCards[c]).live /\ FirstRow(FirstCards[c]).to = NoView
    BY <1>1, <1>2
  <2>2. first \in [1 .. n -> Rows] /\ \A c \in 1 .. n : first[c].live /\ first[c].to = NoView
    BY <1>1, <2>1
  <2>3. QED BY <1>1, <2>2
<1>4. FirstTemplate \in Rows /\ FirstTemplate.live /\ FirstTemplate.to = NoView
  <2>1. BoardOf[1] \in Boards
    BY CardPageAssumption DEF Boards
  <2>2. FirstTemplate = [FirstRow(BoardOf[1]) EXCEPT !.template = TRUE]
    BY DEF FirstTemplate
  <2>3. QED BY <2>1, <2>2 DEF FirstRow, Rows, NoView
<1> HIDE DEF first
<1>5. rows = first \o <<FirstTemplate>>
  BY DEF Opened, first
<1>6. /\ rows \in Seq(Rows) /\ Len(rows) = n + 1
      /\ \A c \in 1 .. n + 1 : rows[c] = IF c <= n THEN first[c] ELSE FirstTemplate
  <2>1. <<FirstTemplate>> \in Seq(Rows) /\ Len(<<FirstTemplate>>) = 1 /\ <<FirstTemplate>>[1] = FirstTemplate
    BY <1>4
  <2> DEFINE last == <<FirstTemplate>>
  <2> HIDE DEF last
  <2>2. first \o last \in Seq(Rows) /\ Len(first \o last) = n + 1
    BY <1>1, <1>3, <2>1 DEF last
  <2>3. ASSUME NEW c \in 1 .. n + 1
        PROVE  (first \o last)[c] = IF c <= n THEN first[c] ELSE FirstTemplate
    <3>1. last \in Seq(Rows) /\ Len(last) = 1 /\ last[1] = FirstTemplate
      BY <2>1 DEF last
    <3>2. c \in 1 .. Len(first) + Len(last)
      BY <1>3, <3>1
    <3>3. (first \o last)[c] = IF c <= Len(first) THEN first[c] ELSE last[c - Len(first)]
      BY <1>3, <3>1, <3>2, JoinAt
    <3>4. c <= n \/ c - n = 1
      BY <1>1
    <3>5. QED BY <1>3, <3>1, <3>3, <3>4
  <2>4. QED BY <1>5, <2>2, <2>3 DEF last
<1>7. Ids = 1 .. n + 1
  BY <1>6 DEF Ids
<1>8. \A c \in 1 .. n + 1 : rows[c].live /\ rows[c].to = NoView
  <2> TAKE c \in 1 .. n + 1
  <2>1. CASE c <= n
    BY <1>1, <1>3, <1>6, <2>1
  <2>2. CASE ~(c <= n)
    BY <1>4, <1>6, <2>2
  <2>3. QED BY <2>1, <2>2
<1>9. QED BY <1>1, <1>6, <1>7, <1>8

LEMMA SeqsOfMore == ASSUME NEW S, NEW T, S \subseteq T, NEW q \in Seq(S) PROVE q \in Seq(T)
OBVIOUS

LEMMA FirstOrdersAre ==
    ASSUME Opened
    PROVE  ListsTyped /\ \A v \in Views : NoBlank(orderRows[v])
<1>1. rows \in Seq(Rows) /\ DOMAIN FirstCards \subseteq Ids
  BY FirstRowsAre
<1>2. DOMAIN FirstCards = 1 .. Len(FirstCards) /\ Len(FirstCards) \in Nat
  BY CardPageAssumption
<1>3. ASSUME NEW v \in Views
      PROVE  Numbers(orderRows[v]) /\ NoBlank(orderRows[v]) /\ orderRows[v] \in Seq(Nat)
  <2> DEFINE S == {c \in DOMAIN FirstCards : FirstCards[c] = BoardOf[v]}
  <2>1. IsFiniteSet(S)
    <3>1. IsFiniteSet(1 .. Len(FirstCards))
      BY <1>2, FS_Interval
    <3>2. S \subseteq 1 .. Len(FirstCards)
      BY <1>2
    <3>3. QED BY <3>1, <3>2, FS_Subset
  <2>2. orderRows[v] = SetToSeq(S)
    BY DEF Opened
  <2>3. S \subseteq 1 .. Len(FirstCards) /\ S \subseteq Ids
    BY <1>1, <1>2
  <2> HIDE DEF S
  <2>4. orderRows[v] \in Seq(S)
    BY <2>1, <2>2, ListedOnce
  <2>5. ToSet(orderRows[v]) \subseteq S
    BY <2>4 DEF ToSet
  <2>6. S \subseteq Nat /\ NoCard \notin S
    BY <1>2, <2>3 DEF NoCard
  <2>7. orderRows[v] \in Seq(Nat)
    BY <2>4, <2>6, SeqsOfMore
  <2>8. \A c \in Ids : c <= Len(rows)
    BY <1>1 DEF Ids
  <2>9. QED BY <2>3, <2>5, <2>6, <2>7, <2>8 DEF Numbers, NoBlank
<1>4. orderRows \in [Views -> Seq(Nat)]
  BY <1>3 DEF Opened
<1>5. QED BY <1>3, <1>4 DEF ListsTyped

LEMMA PageOpened == Opened => PageInv /\ AskedInView
<1> SUFFICES ASSUME Opened PROVE PageInv /\ AskedInView
  OBVIOUS
<1>1. /\ rows \in Seq(Rows) /\ \A c \in Ids : rows[c].live /\ rows[c].to = NoView
  BY FirstRowsAre
<1>2. ListsTyped /\ \A v \in Views : NoBlank(orderRows[v])
  BY FirstOrdersAre
<1>3. /\ page \in [board : Boards, view : Views, card : {NoCard}] /\ page.board = BoardOf[page.view]
      /\ stored = LiveOn(page.board) /\ orders = orderRows
      /\ asked = NoCard /\ scripts = <<>> /\ news = <<>> /\ added = <<>>
  BY DEF Opened
<1>4. Len(rows) \in Nat /\ page.card = NoCard /\ NoCard <= Len(rows) /\ NoCard \in Nat /\ NoView \notin Views
  BY <1>1, <1>3, CardPageAssumption DEF NoCard, NoView
<1>5. IsAddress(page)
  <2>1. page \in Addresses
    BY <1>3, <1>4 DEF Addresses
  <2>2. page.view \in Views
    BY <1>3
  <2>3. QED BY <1>3, <1>4, <2>1, <2>2 DEF IsAddress
<1>6. StoreTyped
  BY <1>2, <1>3, <1>5 DEF StoreTyped, ListsTyped, LiveOn
<1>7. PageTyped
  <2>1. scripts \in Seq(Scripts) /\ DOMAIN scripts = {} /\ news \in Seq(AllNews) /\ DOMAIN news = {} /\ added \in Seq(Scripts)
    BY <1>3
  <2>2. QED BY <1>1, <1>2, <1>3, <1>6, <2>1 DEF PageTyped, ScriptsTyped, NewsTyped, AddedTyped
<1>8. NewsAreTrue /\ CardsAreTrue /\ OrdersAreTrue /\ OpenIsThere
  <2>1. DOMAIN news = {}
    BY <1>3
  <2>2. CardsAreTrue
    BY <1>3 DEF CardsAreTrue, LiveOn
  <2>3. OrdersAreTrue
    BY <1>3 DEF OrdersAreTrue, OrderIsTrue, SeesOrder
  <2>4. QED BY <1>3, <2>1, <2>2, <2>3 DEF NewsAreTrue, OpenIsThere
<1>9. AllListed
  <2>1. DOMAIN news = {} /\ DOMAIN scripts = {}
    BY <1>3
  <2>2. \A c \in Ids : IsListed(c)
    BY <1>1 DEF IsListed
  <2>3. NoBlanks
    BY <1>2, <1>3, <2>1 DEF NoBlanks
  <2>4. QED BY <2>1, <2>2, <2>3 DEF AllListed, AllAddWell, AllInTurn, UndoneAlone
<1>10. QED BY <1>3, <1>7, <1>8, <1>9 DEF PageInv, AskedInView

LEMMA PageAtRest == PageInv => AddedStaysListed /\ PageFollowsServer
<1> SUFFICES ASSUME PageInv PROVE AddedStaysListed /\ PageFollowsServer
  OBVIOUS
<1>1. ASSUME Quiet PROVE DOMAIN scripts = {} /\ DOMAIN news = {}
  BY <1>1 DEF Quiet
<1>2. AddedStaysListed
  <2> SUFFICES ASSUME Quiet, mishaps \cap AddedSlips = {}
               PROVE  /\ \A c \in Ids : rows[c].live /\ rows[c].to # NoView =>
                            c \in ToSet(orderRows[rows[c].to]) \/ \E s \in missed : s.new = c
                      /\ \A v \in Views : NoCard \notin ToSet(orderRows[v])
    BY DEF AddedStaysListed, NoneOf, AddedSlips
  <2>1. (\A c \in Ids : IsListed(c)) /\ NoBlanks
    BY DEF PageInv, AllListed
  <2>2. QED BY <1>1, <2>1 DEF IsListed, Misses, NoBlanks, NoBlank
<1>3. OpenCardExists
  <2> SUFFICES ASSUME Quiet, Dialog, NoneOf({"doomed", "another"})
               PROVE  rows[page.card].live /\ rows[page.card].board = page.board
    BY DEF OpenCardExists
  <2>1. QED BY <1>1 DEF PageInv, OpenIsThere, NoneOf, Dialog
<1>4. ASSUME Quiet, NEW v \in Views, BoardOf[v] = page.board
      PROVE  \/ orders[v] = orderRows[v]
             \/ \E s \in missed : s.list /\ s.at.view = v /\ orders[v] = Append(s.base, s.new)
  <2>1. OrderIsTrue(v)
    BY <1>4 DEF PageInv, OrdersAreTrue
  <2>2. QED BY <1>1, <1>4, <2>1 DEF OrderIsTrue, OrderComes, ShowsAdded
<1>5. ASSUME Quiet, NoneOf({"doomed"})
      PROVE  {c \in stored : rows[c].board = page.board} = LiveOn(page.board)
  <2>1. stored \subseteq Ids /\ "doomed" \notin mishaps
    BY <1>5 DEF PageInv, PageTyped, StoreTyped, NoneOf
  <2>2. \A c \in Ids : rows[c].board = page.board => (c \in stored <=> rows[c].live)
    BY <1>1, <1>5, <2>1 DEF PageInv, CardsAreTrue, CardComes
  <2>3. QED BY <2>1, <2>2 DEF LiveOn
<1>6. QED BY <1>2, <1>3, <1>4, <1>5 DEF PageFollowsServer

-----------------------------------------------------------------------------
(* Tour: the positions.                                                    *)

LEMMA JoinedIs ==
    /\ \A e : <<e>> \o <<>> = <<e>> /\ <<>> \o <<e>> = <<e>> /\ Append(<<>>, e) = <<e>>
              /\ RemoveAt(<<e>>, 1) = <<>> /\ DOMAIN <<e>> = {1} /\ <<e>>[1] = e /\ <<e>> # <<>> /\ Len(<<e>>) = 1
    /\ <<>> \o <<>> = <<>> /\ Len(<<>>) = 0 /\ DOMAIN <<>> = {}
    /\ \A e, f : Len(<<e>> \o <<f>>) > 1
<1>1. ASSUME NEW e
      PROVE  /\ <<e>> \o <<>> = <<e>> /\ <<>> \o <<e>> = <<e>> /\ Append(<<>>, e) = <<e>>
             /\ RemoveAt(<<e>>, 1) = <<>> /\ DOMAIN <<e>> = {1} /\ <<e>>[1] = e /\ <<e>> # <<>> /\ Len(<<e>>) = 1
  <2>1. <<e>> \o <<>> = <<e>>
    OBVIOUS
  <2>2. <<>> \o <<e>> = <<e>>
    OBVIOUS
  <2>3. Append(<<>>, e) = <<e>>
    OBVIOUS
  <2>4. RemoveAt(<<e>>, 1) = <<>>
    BY DEF RemoveAt
  <2>5. DOMAIN <<e>> = {1} /\ <<e>>[1] = e /\ <<e>> # <<>> /\ Len(<<e>>) = 1
    OBVIOUS
  <2>6. QED BY <2>1, <2>2, <2>3, <2>4, <2>5
<1>2. ASSUME NEW e, NEW f PROVE Len(<<e>> \o <<f>>) > 1
  <2>1. <<e>> \in Seq({e, f}) /\ <<f>> \in Seq({e, f}) /\ Len(<<e>>) = 1 /\ Len(<<f>>) = 1
    OBVIOUS
  <2>2. Len(<<e>> \o <<f>>) = Len(<<e>>) + Len(<<f>>)
    BY <2>1
  <2>3. QED BY <2>1, <2>2
<1>3. <<>> \o <<>> = <<>> /\ Len(<<>>) = 0 /\ DOMAIN <<>> = {}
  OBVIOUS
<1>4. QED BY <1>1, <1>2, <1>3

LEMMA IndexIs == Index("onboarding") = 1 /\ Index("card") = 2 /\ Index("board") = 3 /\ Index("sidebar") = 4
<1>1. ASSUME NEW c PROVE Index(c) = LET I == {i \in 1 .. 4 : TOUR_ORDER[i] = c} IN IF I # {} THEN Min(I) ELSE 0
  <2>1. Len(TOUR_ORDER) = 4
    BY DEF TOUR_ORDER
  <2>2. QED BY <2>1, Zenon DEF Index, SelectInSeq
<1>2. ASSUME NEW i \in 1 .. 4 PROVE {j \in 1 .. 4 : TOUR_ORDER[j] = TOUR_ORDER[i]} = {i}
  BY DEF TOUR_ORDER
<1>3. ASSUME NEW i \in 1 .. 4 PROVE Min({i}) = i
  BY DEF Min
<1>4. ASSUME NEW i \in 1 .. 4 PROVE Index(TOUR_ORDER[i]) = i
  BY <1>1, <1>2, <1>3
<1>5. TOUR_ORDER[1] = "onboarding" /\ TOUR_ORDER[2] = "card" /\ TOUR_ORDER[3] = "board" /\ TOUR_ORDER[4] = "sidebar"
  BY DEF TOUR_ORDER
<1>6. Index(TOUR_ORDER[1]) = 1 /\ Index(TOUR_ORDER[2]) = 2 /\ Index(TOUR_ORDER[3]) = 3 /\ Index(TOUR_ORDER[4]) = 4
  BY <1>4
<1>7. QED BY <1>5, <1>6

LEMMA LastStepIs == LastStep["card"] = 2 /\ LastStep["board"] = 2 /\ LastStep["sidebar"] = 2 /\ LastStep["onboarding"] = 0
BY DEF LastStep

LEMMA AtIs ==
    ASSUME NEW c, NEW s
    PROVE  /\ At(c, s).category = c /\ At(c, s).step = s
           /\ \A d, t : At(c, s) = At(d, t) <=> c = d /\ s = t
BY DEF At

LEMMA PositionIs ==
    ASSUME NEW c \in Positions
    PROVE  /\ c.category \in {"onboarding", "card", "board", "sidebar"} /\ c.step \in Steps /\ c.step \in Nat
           /\ c = At(c.category, c.step) /\ c # Off /\ (c.category = "onboarding" => c.step = 0)
           /\ (c.step # FINISHED => c.step \in 0 .. 2)
<1>1. CASE c = At("onboarding", 0)
  BY <1>1, AtIs DEF Steps, Off, FINISHED
<1>2. CASE \E k \in {"card", "board", "sidebar"}, s \in Steps : c = At(k, s)
  <2>1. PICK k \in {"card", "board", "sidebar"}, s \in Steps : c = At(k, s)
    BY <1>2
  <2>2. c.category = k /\ c.step = s
    BY <2>1, AtIs
  <2>3. s \in Nat /\ (s # FINISHED => s \in 0 .. 2)
    BY DEF Steps, FINISHED
  <2>4. c # Off
    BY <2>1, AtIs DEF Off
  <2>5. QED BY <2>1, <2>2, <2>3, <2>4
<1>3. QED BY <1>1, <1>2 DEF Positions

LEMMA PositionsAre ==
    ASSUME NEW c \in {"card", "board", "sidebar"}, NEW s \in Steps
    PROVE  At(c, s) \in Positions
BY DEF Positions

LEMMA StepsAre == {0, 1, 2, FINISHED} \subseteq Steps /\ (\A i \in 0 .. 2 : i \in Steps) /\ FINISHED = 999
                  /\ At("onboarding", 0) \in Positions
BY DEF Steps, FINISHED, Positions

-----------------------------------------------------------------------------
(* Tour: the invariant.                                                    *)
\* Where a patch may lead that is under way: nothing is sent at an end but what
\* begins the next category, and from the last category only the tour starts anew.
Leads(c, d) ==
    /\ d \in Positions /\ (c.step = FINISHED => d.step = 0)
    /\ c.category = "sidebar" => d.category \in {"sidebar", "onboarding"}
Onward(c, d) == d = c \/ Position(d) > Position(c)
MaySend(c, p, sl) == Leads(c, Patched(c, p)) /\ ("back" \notin sl => Onward(c, Patched(c, p)))

\* At most one patch is under way.
Resting(c, s, ps, as) == ps = <<>> /\ as = <<>> /\ c = s
Sending(c, s, ps, as, sl) == \E p : ps = <<p>> /\ as = <<>> /\ c = s /\ MaySend(c, p, sl)
Answering(c, s, ps, as, sl) == ps = <<>> /\ as = <<s>> /\ Leads(c, s) /\ ("back" \notin sl => Onward(c, s))
OneAtATime(c, s, ps, as, sl) ==
    /\ c \in Positions /\ s \in Positions
    /\ Resting(c, s, ps, as) \/ Sending(c, s, ps, as, sl) \/ Answering(c, s, ps, as, sl)
\* Where a tour begins its patch is under way.
Begun(l, ps, as) ==
    StartsBoardTour(l) \/ (l.at = At("board", FINISHED) /\ l.card = NoCard) => ps # <<>> \/ as # <<>>
CardIsOpen ==
    /\ \E b, v, c : page = [board |-> b, view |-> v, card |-> c]
    /\ page.view = NoView => page.card = NoCard
    /\ "left" \notin mishaps => current = page.card
Running ==
    /\ OneAtATime(config, saved, patches, answers, slips)
    /\ "failed" \notin slips => Begun(Seen, patches, answers)
    /\ delay \in {"none", "running", "done"} /\ (BoardTourBegins(Seen) => delay # "none")
    /\ CardIsOpen
TourInv == "mixed" \in slips \/ config = Off \/ Running

\* A patch sent from a position, with the slips that are noted.
LEMMA SaveMay ==
    ASSUME NEW c \in Positions, c.category # "onboarding", NEW i \in Steps, c.step \in 0 .. 2, NEW sl,
           i < c.step => "back" \in sl
    PROVE  MaySend(c, At(Same, i), sl)
<1>1. c.category \in {"card", "board", "sidebar"} /\ c = At(c.category, c.step) /\ c.step # FINISHED /\ c.step \in Nat
  BY PositionIs, StepsAre
<1>2. Patched(c, At(Same, i)) = At(c.category, i)
  BY AtIs DEF Patched
<1>3. At(c.category, i) \in Positions /\ At(c.category, i).category = c.category /\ At(c.category, i).step = i
  BY <1>1, PositionsAre, AtIs
<1>4. Index(c.category) \in Nat
  BY <1>1, IndexIs
<1>5. i \in Nat
  BY DEF Steps, FINISHED
<1>6. "back" \notin sl => Onward(c, At(c.category, i))
  <2>1. SUFFICES ASSUME i >= c.step, i # c.step PROVE Position(At(c.category, i)) > Position(c)
    BY <1>1, <1>5 DEF Onward
  <2>2. Position(At(c.category, i)) = Index(c.category) * 1000 + i /\ Position(c) = Index(c.category) * 1000 + c.step
    BY <1>3 DEF Position
  <2>3. QED BY <1>1, <1>4, <1>5, <2>1, <2>2
<1>7. Leads(c, At(c.category, i))
  BY <1>1, <1>3 DEF Leads
<1>8. QED BY <1>2, <1>6, <1>7 DEF MaySend

\* A patch that begins a category, or ends the last one.
LEMMA BeginMay ==
    ASSUME NEW c \in Positions, NEW d \in Positions, NEW sl,
           c.step = FINISHED => d.step = 0,
           c.category = "sidebar" => d = At("sidebar", FINISHED) /\ c.step \in 0 .. 2,
           c.category # "sidebar" => Index(d.category) = Index(c.category) + 1,
           d.category # Same
    PROVE  MaySend(c, d, sl)
<1>1. Patched(c, d) = d
  BY PositionIs DEF Patched
<1>2. c.step \in 0 .. 999 /\ d.step \in 0 .. 999 /\ c.category \in {"onboarding", "card", "board", "sidebar"}
  BY PositionIs, StepsAre
<1>3. Position(d) > Position(c)
  <2>1. Position(d) = Index(d.category) * 1000 + d.step /\ Position(c) = Index(c.category) * 1000 + c.step
    BY DEF Position
  <2>2. Index(c.category) \in Nat
    BY <1>2, IndexIs
  <2>3. CASE c.category = "sidebar"
    <3>1. d.category = "sidebar" /\ d.step = 999
      BY <2>3, AtIs, StepsAre
    <3>2. QED BY <1>2, <2>1, <2>2, <2>3, <3>1
  <2>4. CASE c.category # "sidebar"
    <3> DEFINE i == Index(c.category)
               j == Index(d.category)
               x == c.step
               y == d.step
    <3>1. i \in Nat /\ j = i + 1 /\ x \in 0 .. 999 /\ y \in 0 .. 999
      BY <1>2, <2>2, <2>4
    <3>2. Position(d) = j * 1000 + y /\ Position(c) = i * 1000 + x
      BY <2>1
    <3> HIDE DEF i, j, x, y
    <3>3. j * 1000 + y > i * 1000 + x
      BY <3>1
    <3>4. QED BY <3>2, <3>3
  <2>5. QED BY <2>3, <2>4
<1>4. Leads(c, d)
  BY AtIs DEF Leads
<1>5. QED BY <1>1, <1>3, <1>4 DEF MaySend, Onward

LEMMA TemplateMay ==
    ASSUME NEW c \in Positions, NEW sl, "back" \in sl
    PROVE  MaySend(c, At("onboarding", 0), sl)
<1>1. Patched(c, At("onboarding", 0)) = At("onboarding", 0)
  BY AtIs DEF Patched, Same
<1>2. QED BY <1>1, AtIs, StepsAre DEF MaySend, Leads

\* What the effects of the components send.
LEMMA EffectMay ==
    ASSUME NEW c \in Positions, NEW p, NEW sl,
           \/ c = At("onboarding", 0) /\ p = At("card", 0)
           \/ c = At("card", FINISHED) /\ p = At("board", 0)
           \/ c = At("board", FINISHED) /\ p = At("sidebar", 0)
    PROVE  MaySend(c, p, sl)
<1>1. p \in Positions /\ p.step = 0 /\ p.category \in {"card", "board", "sidebar"}
  BY AtIs, PositionsAre, StepsAre
<1>2. c.category # "sidebar" /\ Index(p.category) = Index(c.category) + 1 /\ p.category # Same
  BY AtIs, IndexIs DEF Same
<1>3. QED BY <1>1, <1>2, BeginMay

\* NextTour of a position with a tip.
LEMMA NextTourMay ==
    ASSUME config \in Positions, config.category # "onboarding", config.step \in 0 .. 2, NEW sl
    PROVE  MaySend(config, NextTour, sl)
<1>1. config.category \in {"card", "board", "sidebar"}
  BY PositionIs
<1>2. Len(TOUR_ORDER) = 4 /\ TOUR_ORDER[3] = "board" /\ TOUR_ORDER[4] = "sidebar"
  BY DEF TOUR_ORDER
<1>3. NextTour = IF config.category = "card" THEN At("board", 0)
                 ELSE IF config.category = "board" THEN At("sidebar", 0) ELSE At("sidebar", FINISHED)
  BY <1>1, <1>2, IndexIs DEF NextTour
<1>4. NextTour \in Positions /\ NextTour.category # Same
  BY <1>3, PositionsAre, StepsAre, AtIs DEF Same
<1>5. config.step # FINISHED
  BY StepsAre
<1>6. config.category = "sidebar" => NextTour = At("sidebar", FINISHED)
  BY <1>3
<1>7. config.category # "sidebar" => Index(NextTour.category) = Index(config.category) + 1
  BY <1>1, <1>3, AtIs, IndexIs
<1>8. QED BY <1>4, <1>5, <1>6, <1>7, BeginMay

-----------------------------------------------------------------------------
(* Tour: what is sent.                                                     *)

LEMMA EffectsAre ==
    ASSUME NEW l, NEW m
    PROVE  /\ \/ Effects(l, m) = <<>>
              \/ \E e : /\ Effects(l, m) = <<e>>
                        /\ \/ m.at = At("onboarding", 0) /\ e = At("card", 0)
                           \/ m.at = At("card", FINISHED) /\ e = At("board", 0)
                           \/ m.at = At("board", FINISHED) /\ e = At("sidebar", 0)
           /\ l # m /\ StartsBoardTour(m) => Effects(l, m) # <<>>
           /\ StartsSidebarTour(l, m) => Effects(l, m) # <<>>
<1>1. StartsCardTour(l, m) => m.at = At("onboarding", 0)
  BY DEF StartsCardTour
<1>2. StartsBoardTour(m) => m.at = At("card", FINISHED)
  BY DEF StartsBoardTour
<1>3. StartsSidebarTour(l, m) => m.at = At("board", FINISHED)
  BY DEF StartsSidebarTour
<1> DEFINE A == StartsCardTour(l, m)
           B == l # m /\ StartsBoardTour(m)
           C == StartsSidebarTour(l, m)
           a == Sent(A, "card")
           b == Sent(B, "board")
           c == Sent(C, "sidebar")
<1>4. Effects(l, m) = a \o b \o c
  BY DEF Effects
<1>5. /\ (A => a = <<At("card", 0)>>) /\ (~A => a = <<>>)
      /\ (B => b = <<At("board", 0)>>) /\ (~B => b = <<>>)
      /\ (C => c = <<At("sidebar", 0)>>) /\ (~C => c = <<>>)
  BY DEF Sent
<1>6. ~(A /\ B) /\ ~(A /\ C) /\ ~(B /\ C)
  BY <1>1, <1>2, <1>3, AtIs
<1> HIDE DEF A, B, C, a, b, c
<1>7. CASE A
  <2>1. Effects(l, m) = <<At("card", 0)>>
    BY <1>4, <1>5, <1>6, <1>7, JoinedIs
  <2>2. QED BY <1>1, <1>7, <2>1, JoinedIs DEF A
<1>8. CASE B
  <2>1. Effects(l, m) = <<At("board", 0)>>
    BY <1>4, <1>5, <1>6, <1>8, JoinedIs
  <2>2. QED BY <1>2, <1>8, <2>1, JoinedIs DEF B
<1>9. CASE C
  <2>1. Effects(l, m) = <<At("sidebar", 0)>>
    BY <1>4, <1>5, <1>6, <1>9, JoinedIs
  <2>2. QED BY <1>3, <1>9, <2>1, JoinedIs DEF C
<1>10. CASE ~A /\ ~B /\ ~C
  <2>1. Effects(l, m) = <<>>
    BY <1>4, <1>5, <1>10, JoinedIs
  <2>2. QED BY <1>10, <2>1 DEF A, B, C
<1>11. QED BY <1>7, <1>8, <1>9, <1>10

\* One more patch, or none, while at most one is under way.
LEMMA OneMore ==
    ASSUME NEW c, NEW s, NEW ps, NEW as, NEW sl, NEW slip, NEW new, OneAtATime(c, s, ps, as, sl),
           NEW sl2, sl \cup slip \subseteq sl2, "mixed" \notin sl2,
           Len(new) > 1 \/ (new # <<>> /\ (ps # <<>> \/ as # <<>>)) => "mixed" \in sl2,
           new = <<>> \/ (\E p : new = <<p>> /\ MaySend(c, p, sl \cup slip)) \/ Len(new) > 1
    PROVE  /\ OneAtATime(c, s, ps \o new, as, sl2)
           /\ (ps # <<>> \/ new # <<>>) => ps \o new # <<>>
<1>2. ~(Len(new) > 1 \/ (new # <<>> /\ (ps # <<>> \/ as # <<>>)))
  OBVIOUS
<1>3. "back" \notin sl2 => "back" \notin sl /\ "back" \notin sl \cup slip
  OBVIOUS
<1>4. CASE new = <<>>
  <2>1. ps \o new = ps
    BY <1>4, JoinedIs DEF OneAtATime, Resting, Sending, Answering
  <2>2. OneAtATime(c, s, ps, as, sl2)
    BY <1>3 DEF OneAtATime, Resting, Sending, Answering, MaySend
  <2>3. QED BY <1>4, <2>1, <2>2
<1>5. CASE new # <<>>
  <2>1. ps = <<>> /\ as = <<>> /\ ~(Len(new) > 1)
    BY <1>2, <1>5
  <2>2. PICK p : new = <<p>> /\ MaySend(c, p, sl \cup slip)
    BY <1>5, <2>1
  <2>3. c = s /\ c \in Positions
    BY <2>1, JoinedIs DEF OneAtATime, Resting, Sending, Answering
  <2>4. ps \o new = <<p>> /\ <<p>> # <<>>
    BY <2>1, <2>2, JoinedIs
  <2>5. MaySend(c, p, sl2)
    BY <1>3, <2>2 DEF MaySend
  <2>6. QED BY <2>1, <2>3, <2>4, <2>5 DEF OneAtATime, Sending
<1>6. QED BY <1>4, <1>5

\* What is sent while another patch is under way is noted.
LEMMA SendsNotes ==
    ASSUME NEW new, NEW slip, Sends(new, slip)
    PROVE  /\ patches' = patches \o new /\ slips \cup slip \subseteq slips'
           /\ Len(new) > 1 \/ (new # <<>> /\ (patches # <<>> \/ answers' # <<>>)) => "mixed" \in slips'
<1> DEFINE M == Len(new) > 1 \/ (new # <<>> /\ (patches # <<>> \/ answers' # <<>>))
<1>1. patches' = patches \o new /\ slips' = slips \cup slip \cup Mishap("mixed", M)
  BY DEF Sends
<1>2. M => "mixed" \in slips'
  <2> HIDE DEF M
  <2>1. M => "mixed" \in Mishap("mixed", M)
    BY DEF Mishap
  <2>2. QED BY <1>1, <2>1
<1>3. slips \cup slip \subseteq slips'
  <2> HIDE DEF M
  <2>1. QED BY <1>1
<1>4. QED BY <1>1, <1>2, <1>3

LEMMA Going ==
    ASSUME NEW l, NEW m, NEW sent, NEW slip, m.at = config',
           OneAtATime(config', saved', patches, answers', slips),
           Sends(sent \o Effects(l, m), slip), "mixed" \notin slips',
           sent = <<>> \/ \E p : sent = <<p>> /\ MaySend(config', p, slips \cup slip)
    PROVE  /\ OneAtATime(config', saved', patches', answers', slips')
           /\ patches # <<>> \/ Effects(l, m) # <<>> => patches' # <<>>
<1> DEFINE e == Effects(l, m)
           new == sent \o e
<1>1. /\ patches' = patches \o new /\ slips \cup slip \subseteq slips'
      /\ Len(new) > 1 \/ (new # <<>> /\ (patches # <<>> \/ answers' # <<>>)) => "mixed" \in slips'
  BY SendsNotes
<1>2. config' \in Positions
  BY DEF OneAtATime
<1>3. e = <<>> \/ \E p : e = <<p>> /\ MaySend(config', p, slips \cup slip)
  <2>1. ASSUME NEW p, e = <<p>>, \/ m.at = At("onboarding", 0) /\ p = At("card", 0)
                                 \/ m.at = At("card", FINISHED) /\ p = At("board", 0)
                                 \/ m.at = At("board", FINISHED) /\ p = At("sidebar", 0)
        PROVE  MaySend(config', p, slips \cup slip)
    BY <1>2, <2>1, EffectMay
  <2>2. QED BY <2>1, EffectsAre
<1> HIDE DEF e
<1>4. /\ new = <<>> \/ (\E p : new = <<p>> /\ MaySend(config', p, slips \cup slip)) \/ Len(new) > 1
      /\ e # <<>> => new # <<>>
  <2>1. CASE sent = <<>>
    BY <1>3, <2>1, JoinedIs
  <2>2. CASE sent # <<>>
    <3>1. PICK p : sent = <<p>> /\ MaySend(config', p, slips \cup slip)
      BY <2>2
    <3>2. CASE e = <<>>
      BY <3>1, <3>2, JoinedIs
    <3>3. CASE e # <<>>
      <4>1. PICK q : e = <<q>>
        BY <1>3, <3>3
      <4>2. Len(new) > 1
        BY <3>1, <4>1, JoinedIs
      <4>3. new # <<>>
        BY <4>2, JoinedIs
      <4>4. QED BY <4>2, <4>3
    <3>4. QED BY <3>2, <3>3
  <2>3. QED BY <2>1, <2>2
<1> HIDE DEF new
<1>5. OneAtATime(config', saved', patches \o new, answers', slips')
  BY <1>1, <1>4, OneMore, Zenon
<1>6. patches # <<>> \/ new # <<>> => patches \o new # <<>>
  BY <1>1, <1>4, OneMore, SMT
<1>7. QED BY <1>1, <1>4, <1>5, <1>6 DEF e

LEMMA Waits ==
    ASSUME NEW l, NEW m, NEW ps, NEW as, Effects(l, m) # <<>> => ps # <<>>,
           \/ l.at = m.at /\ Begun(l, ps, as)
           \/ Leads(l.at, m.at)
           \/ l.at = Off /\ m.at # Off
    PROVE  Begun(m, ps, as)
<1>1. (l # m /\ StartsBoardTour(m)) \/ StartsSidebarTour(l, m) => ps # <<>>
  BY EffectsAre
<1>2. /\ At("sidebar", 0).category = "sidebar" /\ At("sidebar", 0) # Off /\ At("board", FINISHED) # Off
      /\ At("board", FINISHED).step = FINISHED /\ At("card", FINISHED).step = FINISHED /\ FINISHED # 0
      /\ At("board", FINISHED).category = "board" /\ At("card", FINISHED) # Off
  BY AtIs, StepsAre DEF Off
<1>3. ASSUME StartsBoardTour(m), ps = <<>>, as = <<>> PROVE FALSE
  <2>1. l = m
    BY <1>1, <1>3
  <2>2. m.at = At("card", FINISHED)
    BY <1>3 DEF StartsBoardTour
  <2>3. QED BY <1>2, <1>3, <2>1, <2>2 DEF Begun, Leads
<1>4. ASSUME m.at = At("board", FINISHED), m.card = NoCard, ps = <<>>, as = <<>> PROVE FALSE
  <2>1. SidebarTourViewed(l)
    BY <1>1, <1>4 DEF StartsSidebarTour, SidebarTourViewed
  <2>2. l.card = NoCard /\ l.at \in {At("sidebar", 0), At("board", FINISHED)}
    BY <2>1 DEF SidebarTourViewed
  <2>3. QED BY <1>2, <1>4, <2>2 DEF Begun, Leads
<1>5. QED BY <1>3, <1>4 DEF Begun

LEMMA DelayIs ==
    ASSUME Running, NEW l, NEW m
    PROVE  Delay(l, m) \in {"none", "running", "done"} /\ (BoardTourBegins(m) => Delay(l, m) # "none")
BY DEF Delay, Running

LEMMA SeenAt == Seen.at = config /\ Seen.card = CurrentCard
<1> DEFINE h == HasView
           d == Dialog
<1>1. Seen = [at |-> config, board |-> page.board, page |-> h, dialog |-> d, card |-> CurrentCard]
  BY DEF Seen
<1> HIDE DEF h, d
<1>2. QED BY <1>1

LEMMA SeenAtNext == Seen'.at = config' /\ Seen'.card = CurrentCard'
<1>1. (Seen.at = config /\ Seen.card = CurrentCard)'
  BY SeenAt, PTL
<1>2. QED BY <1>1

LEMMA SeenStays == ASSUME UNCHANGED <<pageVars, config>> PROVE Seen' = Seen
BY Zenon DEF pageVars, address, store, server, Seen, HasView, Dialog, CurrentCard

\* Every action of the components ends so.
LEMMA Reacted ==
    ASSUME Running, NEW sent, NEW show, NEW slip, React(sent, show, slip),
           OneAtATime(config', saved', patches, answers', slips), "mixed" \notin slips',
           sent = <<>> \/ (\E p : sent = <<p>> /\ MaySend(config', p, slips \cup slip)),
           "failed" \notin slips' => \/ config' = config /\ answers' = answers /\ Begun(Seen, patches, answers)
                                     \/ Leads(config, config'),
           CardIsOpen'
    PROVE  Running'
<1>1. delay' = Delay(Seen, Seen') /\ Sends(sent \o Effects(Seen, Seen'), slip)
  BY DEF React
<1>2. /\ OneAtATime(config', saved', patches', answers', slips')
      /\ patches # <<>> \/ Effects(Seen, Seen') # <<>> => patches' # <<>>
  BY <1>1, SeenAtNext, Going
<1>3. ASSUME "failed" \notin slips' PROVE Begun(Seen', patches', answers')
  <2>1. CASE Leads(config, config')
    BY <1>2, <2>1, SeenAt, SeenAtNext, Waits
  <2>2. CASE config' = config /\ answers' = answers /\ Begun(Seen, patches, answers)
    <3>1. Begun(Seen, patches', answers')
      BY <1>2, <2>2 DEF Begun
    <3>2. QED BY <1>2, <2>2, <3>1, SeenAt, SeenAtNext, Waits
  <2>3. QED BY <1>3, <2>1, <2>2
<1>4. delay' \in {"none", "running", "done"} /\ (BoardTourBegins(Seen') => delay' # "none")
  BY <1>1, DelayIs
<1>5. QED BY <1>2, <1>3, <1>4 DEF Running

-----------------------------------------------------------------------------
(* Tour: the open card.                                                    *)

LEMMA CardStays == ASSUME CardIsOpen, UNCHANGED <<page, current, mishaps>> PROVE CardIsOpen'
BY DEF CardIsOpen

LEMMA CardGoes ==
    ASSUME NEW b, NEW v, NEW c, page' = [board |-> b, view |-> v, card |-> c],
           v = NoView => c = NoCard, "left" \notin mishaps' => current' = c
    PROVE  CardIsOpen'
<1>1. page'.view = v /\ page'.card = c
  OBVIOUS
<1>2. QED BY <1>1 DEF CardIsOpen

\* A card is shown, or closed, where a view is.
LEMMA ShowKeeps == ASSUME CardIsOpen, HasView, NEW c, ShowHere(c) PROVE CardIsOpen'
<1>1. page' = [page EXCEPT !.card = c] /\ current' = c
  BY DEF ShowHere, ShowCard, GoTo
<1>2. PICK b, v, d : page = [board |-> b, view |-> v, card |-> d]
  BY DEF CardIsOpen
<1>3. page' = [board |-> b, view |-> v, card |-> c] /\ v # NoView
  BY <1>1, <1>2 DEF HasView
<1>4. QED BY <1>1, <1>3, CardGoes

\* The address changes and the store keeps its current card.
LEMMA LeaveKeeps ==
    ASSUME CardIsOpen, NEW b, NEW v, page' = [board |-> b, view |-> v, card |-> NoCard], current' = current,
           mishaps \subseteq mishaps', page.card # NoCard => "left" \in mishaps'
    PROVE  CardIsOpen'
<1>1. "left" \notin mishaps' => current' = NoCard
  BY DEF CardIsOpen
<1>2. QED BY <1>1, CardGoes

LEMMA LeavesIs ==
    ASSUME NEW to, Leaves(to)
    PROVE  page' = to /\ current' = current /\ mishaps \subseteq mishaps' /\ (page.card # NoCard => "left" \in mishaps')
<1> DEFINE M == page.card # NoCard
<1>1. /\ page' = to /\ current' = current
      /\ mishaps \subseteq mishaps' /\ Mishap("left", M) \subseteq mishaps'
  BY DEF Leaves, GoTo
<1>2. M => "left" \in Mishap("left", M)
  BY DEF Mishap
<1> HIDE DEF M
<1>3. mishaps \subseteq mishaps' /\ (M => "left" \in mishaps')
  BY <1>1, <1>2
<1>4. QED BY <1>1, <1>3 DEF M

LEMMA NotOpen == ASSUME CardIsOpen, ~Dialog PROVE page.card = NoCard
BY DEF CardIsOpen, Dialog, HasView

LEMMA VisitsKeep == ASSUME CardIsOpen, Visits \/ \E b \in Boards : SwitchBoard(b) PROVE CardIsOpen'
<1>1. ASSUME CloseDialog PROVE CardIsOpen'
  BY <1>1, ShowKeeps DEF CloseDialog, Dialog
<1>2. ASSUME NEW c, CardClicked(c) \/ OpenButton(c) PROVE CardIsOpen'
  BY <1>2, ShowKeeps DEF CardClicked, OpenButton, Free
<1>3. ASSUME Back PROVE CardIsOpen'
  <2> DEFINE to == [page EXCEPT !.card = NoCard]
  <2>1. Leaves(to)
    BY <1>3 DEF Back
  <2>2. PICK b, v, d : page = [board |-> b, view |-> v, card |-> d]
    BY DEF CardIsOpen
  <2>3. to = [board |-> b, view |-> v, card |-> NoCard]
    BY <2>2
  <2> HIDE DEF to
  <2>4. QED BY <2>1, <2>3, LeavesIs, LeaveKeeps
<1>4. ASSUME NEW v, OpenView(v) PROVE CardIsOpen'
  <2>1. /\ page' = [board |-> BoardOf[v], view |-> v, card |-> NoCard] /\ UNCHANGED current /\ mishaps \subseteq mishaps'
        /\ ~Dialog
    BY <1>4 DEF OpenView, GoTo
  <2>2. QED BY <2>1, NotOpen, LeaveKeeps
<1>5. ASSUME NEW b, SwitchBoard(b) PROVE CardIsOpen'
  <2> DEFINE v == IF page.card = NoCard THEN FirstView(b) ELSE NoView
             to == [board |-> b, view |-> v, card |-> NoCard]
  <2>1. Leaves(to)
    BY <1>5 DEF SwitchBoard
  <2> HIDE DEF v
  <2>2. QED BY <2>1, LeavesIs, LeaveKeeps
<1>6. QED BY <1>1, <1>2, <1>3, <1>4, <1>5 DEF Visits

-----------------------------------------------------------------------------
(* Tour: the actions.                                                      *)

LEMMA WithTip ==
    ASSUME Running, Tip(Seen, delay)
    PROVE  config \in Positions /\ config.category # "onboarding" /\ config.step \in 0 .. 2
<1>1. config \in {At("card", 0), At("card", 1), At("card", 2), At("board", 0), At("board", 2),
                  At("sidebar", 0), At("sidebar", 1), At("sidebar", 2)}
  BY SeenAt DEF Tip, BoardTourBegins
<1>2. config.category # "onboarding" /\ config.step \in 0 .. 2
  BY <1>1, AtIs
<1>3. config \in Positions
  BY DEF Running, OneAtATime
<1>4. QED BY <1>2, <1>3

LEMMA SlipsStay == ASSUME TourNext, config # Off PROVE slips \subseteq slips'
<1>1. ASSUME NEW sent, NEW show, NEW slip, React(sent, show, slip) PROVE slips \subseteq slips'
  BY <1>1, SendsNotes DEF React
<1>2. ASSUME NEW new, NEW slip, Sends(new, slip) PROVE slips \subseteq slips'
  BY <1>2, SendsNotes
<1>3. LooksAround \/ UseWelcomeTemplate \/ HandleNext \/ HandlePrevious \/ HandleDismiss \/ BackdropClicked
      \/ HandleHide \/ HandleOpen \/ (\E i \in 0 .. 2 : Dot(i)) \/ (\E k \in DOMAIN answers : PatchAnswered(k))
      => slips \subseteq slips'
  BY <1>1 DEF LooksAround, UseWelcomeTemplate, HandleNext, HandlePrevious, HandleDismiss, BackdropClicked, HandleHide,
     HandleOpen, Dot, PatchAnswered, SavePreferences
<1>4. Reload \/ RendersAgain => slips \subseteq slips'
  BY <1>2 DEF Reload, RendersAgain
<1>5. DelayPasses \/ (\E i \in DOMAIN patches : UpdateUserConfig(i) \/ PatchFails(i)) => slips \subseteq slips'
  BY DEF DelayPasses, UpdateUserConfig, PatchFails
<1>6. QED BY <1>3, <1>4, <1>5 DEF TourNext

\* What the user does with the page or a tip: the position stays.
LEMMA ReactedHere ==
    ASSUME Running, UNCHANGED <<config, saved, answers>>, NEW sent, NEW show, NEW slip, React(sent, show, slip),
           "mixed" \notin slips',
           sent = <<>> \/ (\E p : sent = <<p>> /\ MaySend(config, p, slips \cup slip)), CardIsOpen'
    PROVE  Running'
<1>1. OneAtATime(config', saved', patches, answers', slips)
  BY DEF Running
<1>2. slips \subseteq slips'
  BY SendsNotes DEF React
<1>3. sent = <<>> \/ (\E p : sent = <<p>> /\ MaySend(config', p, slips \cup slip))
  OBVIOUS
<1>4. "failed" \notin slips' => config' = config /\ answers' = answers /\ Begun(Seen, patches, answers)
  BY <1>2 DEF Running
<1>5. QED BY <1>1, <1>3, <1>4, Reacted

LEMMA TouchedKeeps ==
    ASSUME Running, Touched
    PROVE  CardIsOpen' /\ UNCHANGED <<config, saved, answers>>
BY CardStays DEF Touched, Running, address

LEMMA LooksKeep == ASSUME Running, LooksAround, "mixed" \notin slips' PROVE Running'
BY VisitsKeep, ReactedHere DEF LooksAround, Running

LEMMA SaveKeeps ==
    ASSUME Running, Shown, NEW i \in Steps, SavePreferences(i), "mixed" \notin slips'
    PROVE  Running'
<1>1. config \in Positions /\ config.category # "onboarding" /\ config.step \in 0 .. 2
  BY WithTip DEF Shown
<1> DEFINE M == i < config.step
           slip == Mishap("back", M)
           p == At(Same, i)
<1>2. Touched /\ React(<<p>>, FALSE, slip)
  BY DEF SavePreferences
<1>3. M => "back" \in slips \cup slip
  BY DEF Mishap
<1> HIDE DEF slip
<1>4. MaySend(config, p, slips \cup slip)
  BY <1>1, <1>3, SaveMay
<1> HIDE DEF p
<1>5. QED BY <1>2, <1>4, TouchedKeeps, ReactedHere

LEMMA TipsKeep ==
    ASSUME Running, "mixed" \notin slips',
           HandleNext \/ HandlePrevious \/ HandleDismiss \/ BackdropClicked \/ HandleHide \/ HandleOpen
           \/ \E i \in 0 .. 2 : Dot(i)
    PROVE  Running'
<1>1. Shown => config \in Positions /\ config.category # "onboarding" /\ config.step \in 0 .. 2
  BY WithTip DEF Shown
<1>2. ASSUME HandleNext PROVE Running'
  <2>1. Shown /\ config.category \in {"card", "board", "sidebar"} /\ config.step \in 0 .. 2
    BY <1>1, <1>2, PositionIs DEF HandleNext
  <2>2. LastStep[config.category] = 2
    BY <2>1, LastStepIs
  <2>3. (IF config.step = LastStep[config.category] THEN FINISHED ELSE config.step + 1) \in Steps
    BY <2>1, <2>2, StepsAre
  <2>4. QED BY <1>2, <2>1, <2>3, SaveKeeps DEF HandleNext
<1>3. ASSUME HandlePrevious PROVE Running'
  <2>1. Shown /\ config.step - 1 \in Steps /\ SavePreferences(config.step - 1)
    BY <1>1, <1>3, StepsAre DEF HandlePrevious
  <2>2. QED BY <2>1, SaveKeeps
<1>4. ASSUME NEW i \in 0 .. 2, Dot(i) PROVE Running'
  BY <1>4, StepsAre, SaveKeeps DEF Dot
<1>5. ASSUME HandleDismiss \/ BackdropClicked PROVE Running'
  <2>1. PICK show : Shown /\ Touched /\ React(<<NextTour>>, show, {})
    BY <1>5 DEF HandleDismiss, BackdropClicked, Covered
  <2>2. MaySend(config, NextTour, slips \cup {})
    BY <1>1, <2>1, NextTourMay
  <2>3. QED BY <2>1, <2>2, TouchedKeeps, ReactedHere
<1>6. ASSUME HandleHide \/ HandleOpen PROVE Running'
  <2>1. PICK show : Touched /\ React(<<>>, show, {})
    BY <1>6 DEF HandleHide, HandleOpen
  <2>2. QED BY <2>1, TouchedKeeps, ReactedHere
<1>7. QED BY <1>2, <1>3, <1>4, <1>5, <1>6

LEMMA TemplateKeeps == ASSUME Running, UseWelcomeTemplate, "mixed" \notin slips' PROVE Running'
<1>1. /\ ~Dialog /\ page' = [board |-> WelcomeBoard, view |-> FirstView(WelcomeBoard), card |-> NoCard]
      /\ UNCHANGED <<current, config, saved, answers>> /\ mishaps \subseteq mishaps'
      /\ React(<<At("onboarding", 0)>>, shown, {"back"})
  BY DEF UseWelcomeTemplate, GoTo
<1>2. CardIsOpen'
  BY <1>1, NotOpen, LeaveKeeps DEF Running
<1>3. MaySend(config, At("onboarding", 0), slips \cup {"back"})
  BY TemplateMay DEF Running, OneAtATime
<1>4. QED BY <1>1, <1>2, <1>3, ReactedHere

LEMMA AnswerKeeps ==
    ASSUME Running, NEW k \in DOMAIN answers, PatchAnswered(k), "mixed" \notin slips'
    PROVE  Running' /\ ("back" \notin slips => Onward(config, config'))
<1>1. /\ config' = answers[k] /\ answers' = RemoveAt(answers, k) /\ UNCHANGED <<pageVars, saved>>
      /\ React(<<>>, shown, {})
  BY DEF PatchAnswered, PatchProps
<1>2. /\ patches = <<>> /\ answers = <<saved>> /\ Leads(config, saved) /\ saved \in Positions
      /\ ("back" \notin slips => Onward(config, saved))
  <2>1. answers # <<>>
    BY JoinedIs
  <2>2. QED BY <2>1 DEF Running, OneAtATime, Resting, Sending, Answering
<1>3. k = 1 /\ config' = saved /\ answers' = <<>>
  BY <1>1, <1>2, JoinedIs
<1>4. OneAtATime(config', saved', patches, answers', slips)
  BY <1>1, <1>2, <1>3 DEF OneAtATime, Resting
<1>5. CardIsOpen'
  BY <1>1, CardStays DEF Running, pageVars, address
<1>6. Leads(config, config')
  BY <1>2, <1>3
<1>7. QED BY <1>1, <1>2, <1>3, <1>4, <1>5, <1>6, Reacted

LEMMA ServerKeeps ==
    ASSUME Running, NEW i \in DOMAIN patches, UpdateUserConfig(i) \/ PatchFails(i)
    PROVE  Running'
<1>1. PICK p : /\ patches = <<p>> /\ answers = <<>> /\ config = saved /\ config \in Positions /\ MaySend(config, p, slips)
  <2>1. patches # <<>>
    BY JoinedIs
  <2>2. QED BY <2>1 DEF Running, OneAtATime, Resting, Sending, Answering
<1>2. i = 1 /\ RemoveAt(patches, i) = <<>>
  BY <1>1, JoinedIs
<1>3. Seen' = Seen /\ CardIsOpen' /\ config' = config /\ delay' = delay
  BY SeenStays, CardStays DEF UpdateUserConfig, PatchFails, Running, pageVars, address
<1>4. CASE UpdateUserConfig(i)
  <2>1. /\ saved' = Patched(config, p) /\ patches' = <<>> /\ answers' = <<saved'>> /\ slips' = slips
    BY <1>1, <1>2, <1>4, JoinedIs DEF UpdateUserConfig
  <2>2. OneAtATime(config', saved', patches', answers', slips')
    BY <1>1, <1>3, <2>1 DEF OneAtATime, Answering, MaySend, Leads
  <2>3. Begun(Seen', patches', answers')
    BY <2>1, JoinedIs DEF Begun
  <2>4. QED BY <1>3, <2>2, <2>3 DEF Running
<1>5. CASE PatchFails(i)
  <2>1. patches' = <<>> /\ "failed" \in slips' /\ UNCHANGED <<saved, answers>>
    BY <1>2, <1>5 DEF PatchFails
  <2>2. OneAtATime(config', saved', patches', answers', slips')
    BY <1>1, <1>3, <2>1 DEF OneAtATime, Resting
  <2>3. QED BY <1>3, <2>1, <2>2 DEF Running
<1>6. QED BY <1>4, <1>5

LEMMA TimerKeeps == ASSUME Running, DelayPasses PROVE Running'
<1>1. /\ delay' = "done" /\ UNCHANGED <<pageVars, config, saved, patches, answers, slips>>
  BY DEF DelayPasses
<1>2. Seen' = Seen /\ CardIsOpen'
  BY <1>1, SeenStays, CardStays DEF Running, pageVars, address
<1>3. QED BY <1>1, <1>2 DEF Running

LEMMA RenderKeeps == ASSUME Running, RendersAgain, "mixed" \notin slips' PROVE Running'
<1> DEFINE l == Seen
           d == [l EXCEPT !.dialog = FALSE]
           A == StartsBoardTour(l)
           B == StartsCardTour(d, l)
           a == Sent(A, "board")
           b == Sent(B, "card")
<1>1. /\ Sends(a \o b, {}) /\ answers' = answers
      /\ UNCHANGED <<page, current, stored, orders, defaults, rows, mishaps, config, saved, delay>>
  BY DEF RendersAgain, address, store, server
<1>2. Seen' = Seen
  BY <1>1, Zenon DEF Seen, HasView, Dialog, CurrentCard
<1>3. CardIsOpen'
  BY <1>1, CardStays DEF Running
<1>4. (A => config = At("card", FINISHED)) /\ (B => config = At("onboarding", 0))
  BY SeenAt DEF StartsBoardTour, StartsCardTour
<1>5. /\ (A => a = <<At("board", 0)>>) /\ (~A => a = <<>>)
      /\ (B => b = <<At("card", 0)>>) /\ (~B => b = <<>>)
  BY DEF Sent
<1>6. config \in Positions
  BY DEF Running, OneAtATime
<1> HIDE DEF l, d, A, B, a, b
<1>7. MaySend(config, At("board", 0), slips \cup {}) \/ ~A
  BY <1>4, <1>6, EffectMay
<1>8. MaySend(config, At("card", 0), slips \cup {}) \/ ~B
  BY <1>4, <1>6, EffectMay
<1>9. ~(A /\ B)
  BY <1>4, AtIs
<1> DEFINE new == a \o b
<1>10. new = <<>> \/ (\E p : new = <<p>> /\ MaySend(config, p, slips \cup {})) \/ Len(new) > 1
  BY <1>5, <1>7, <1>8, <1>9, JoinedIs
<1>11. /\ patches' = patches \o new /\ slips \cup {} \subseteq slips'
       /\ Len(new) > 1 \/ (new # <<>> /\ (patches # <<>> \/ answers # <<>>)) => "mixed" \in slips'
  BY <1>1, SendsNotes
<1> HIDE DEF new
<1>12. OneAtATime(config, saved, patches, answers, slips)
  BY DEF Running
<1>13. OneAtATime(config, saved, patches \o new, answers, slips')
  BY <1>10, <1>11, <1>12, OneMore, Zenon
<1>14. patches # <<>> => patches \o new # <<>>
  BY <1>10, <1>11, <1>12, OneMore, SMT
<1>15. "failed" \notin slips' => Begun(Seen', patches', answers')
  BY <1>1, <1>2, <1>11, <1>14 DEF Running, Begun
<1>16. OneAtATime(config', saved', patches', answers', slips')
  BY <1>1, <1>11, <1>13
<1>17. QED BY <1>1, <1>2, <1>3, <1>15, <1>16 DEF Running

LEMMA ReloadKeeps ==
    ASSUME Running, Reload, "mixed" \notin slips'
    PROVE  Running' /\ ("back" \notin slips => Onward(config, config'))
<1> DEFINE h == HasView
           dg == Dialog
           m == [Seen EXCEPT !.at = saved, !.card = NoCard]
           l == [m EXCEPT !.page = FALSE, !.at = Off]
<1>1. /\ ~Dialog /\ config' = saved /\ answers' = <<>> /\ current' = NoCard
      /\ UNCHANGED <<page, mishaps, saved>>
      /\ delay' = Delay(l, m) /\ Sends(Effects(l, m), {})
  BY DEF Reload
<1>2. CurrentCard' = NoCard
  BY <1>1 DEF CurrentCard
<1>3. m = Seen' /\ l.at = Off /\ m.at = saved
  <2>1. Seen = [at |-> config, board |-> page.board, page |-> h, dialog |-> dg, card |-> CurrentCard]
    BY DEF Seen
  <2>2. Seen' = [at |-> config', board |-> page'.board, page |-> h', dialog |-> dg', card |-> CurrentCard']
    BY DEF Seen
  <2>3. h' = h /\ dg' = dg
    BY <1>1, Zenon DEF HasView, Dialog
  <2> HIDE DEF h, dg
  <2>4. m = Seen' /\ m.at = saved
    <3>1. Seen' = [at |-> saved, board |-> page.board, page |-> h, dialog |-> dg, card |-> NoCard]
      BY <1>1, <1>2, <2>2, <2>3, Zenon
    <3>2. m = [at |-> saved, board |-> page.board, page |-> h, dialog |-> dg, card |-> NoCard]
      <4> DEFINE t == [Seen EXCEPT !.at = saved]
      <4>1. t = [at |-> saved, board |-> page.board, page |-> h, dialog |-> dg, card |-> CurrentCard]
        BY <2>1
      <4>2. [t EXCEPT !.card = NoCard] = m
        OBVIOUS
      <4> HIDE DEF t, m
      <4>3. [t EXCEPT !.card = NoCard] = [at |-> saved, board |-> page.board, page |-> h, dialog |-> dg, card |-> NoCard]
        BY <4>1
      <4>4. QED BY <4>2, <4>3
    <3> HIDE DEF m
    <3>3. QED BY <3>1, <3>2
  <2>5. l.at = Off
    <3>1. m = [at |-> config', board |-> page'.board, page |-> h', dialog |-> dg', card |-> CurrentCard']
      BY <2>2, <2>4
    <3> HIDE DEF m
    <3>2. QED BY <3>1
  <2>6. QED BY <2>4, <2>5
<1> HIDE DEF m, l
<1>4. OneAtATime(config', saved', patches, answers', slips)
      /\ ("back" \notin slips => Onward(config, saved)) /\ saved \in Positions
  BY <1>1 DEF Running, OneAtATime, Resting, Sending, Answering, Onward
<1>5. Sends(<<>> \o Effects(l, m), {})
  <2>1. <<>> \o Effects(l, m) = Effects(l, m)
    BY EffectsAre, JoinedIs
  <2>2. QED BY <1>1, <2>1
<1>6. /\ OneAtATime(config', saved', patches', answers', slips')
      /\ patches # <<>> \/ Effects(l, m) # <<>> => patches' # <<>>
  BY <1>1, <1>3, <1>4, <1>5, Going
<1>7. Begun(Seen', patches', answers')
  <2>1. m.at # Off
    BY <1>3, <1>4, PositionIs
  <2>2. QED BY <1>3, <1>6, <2>1, Waits
<1>8. delay' \in {"none", "running", "done"} /\ (BoardTourBegins(Seen') => delay' # "none")
  BY <1>1, <1>3, DelayIs
<1>9. CardIsOpen'
  <2>1. page.card = NoCard
    BY <1>1, NotOpen DEF Running
  <2>2. QED BY <1>1, <2>1 DEF Running, CardIsOpen
<1>10. QED BY <1>1, <1>4, <1>6, <1>7, <1>8, <1>9 DEF Running

LEMMA TourStep ==
    ASSUME TourInv, [TourNext]_tourVars
    PROVE  TourInv' /\ (config' # config => \/ Onward(config, config')
                                             \/ slips' \cap {"back", "mixed"} # {})
<1>1. CASE UNCHANGED tourVars
  <2>1. UNCHANGED <<pageVars, config, saved, patches, answers, delay, slips>>
    BY <1>1 DEF tourVars, tour
  <2>2. Seen' = Seen /\ (Running => CardIsOpen')
    BY <2>1, SeenStays, CardStays DEF Running, pageVars, address
  <2>3. QED BY <2>1, <2>2 DEF TourInv, Running
<1>2. CASE TourNext /\ config = Off
  <2>1. UNCHANGED <<config, slips>>
    BY <1>2 DEF TourNext, tour
  <2>2. QED BY <1>2, <2>1 DEF TourInv
<1>3. CASE TourNext /\ config # Off /\ "mixed" \in slips'
  BY <1>3 DEF TourInv
<1>4. CASE TourNext /\ config # Off /\ "mixed" \notin slips'
  <2>1. slips \subseteq slips' /\ Running
    BY <1>4, SlipsStay DEF TourInv
  <2>2. LooksAround \/ UseWelcomeTemplate \/ RendersAgain \/ DelayPasses
        \/ HandleNext \/ HandlePrevious \/ HandleDismiss \/ BackdropClicked \/ HandleHide \/ HandleOpen
        \/ (\E i \in 0 .. 2 : Dot(i)) \/ (\E i \in DOMAIN patches : UpdateUserConfig(i) \/ PatchFails(i))
        => Running' /\ config' = config
    <3>1. LooksAround \/ UseWelcomeTemplate \/ RendersAgain \/ DelayPasses
          \/ HandleNext \/ HandlePrevious \/ HandleDismiss \/ BackdropClicked \/ HandleHide \/ HandleOpen
          \/ (\E i \in 0 .. 2 : Dot(i)) \/ (\E i \in DOMAIN patches : UpdateUserConfig(i) \/ PatchFails(i))
          => config' = config
      BY DEF LooksAround, UseWelcomeTemplate, RendersAgain, DelayPasses, HandleNext, HandlePrevious, HandleDismiss,
         BackdropClicked, HandleHide, HandleOpen, Dot, UpdateUserConfig, PatchFails, SavePreferences, Touched
    <3>2. QED BY <1>4, <2>1, <3>1, LooksKeep, TemplateKeeps, RenderKeeps, TimerKeeps, TipsKeep, ServerKeeps
  <2>3. Reload \/ (\E k \in DOMAIN answers : PatchAnswered(k))
        => Running' /\ ("back" \notin slips => Onward(config, config'))
    BY <1>4, <2>1, ReloadKeeps, AnswerKeeps
  <2>4. Running' /\ (config' # config => ("back" \notin slips => Onward(config, config')))
    BY <1>4, <2>2, <2>3 DEF TourNext
  <2>5. QED BY <2>1, <2>4 DEF TourInv
<1>5. QED BY <1>1, <1>2, <1>3, <1>4

LEMMA TourStart == ASSUME TourInit PROVE TourInv
<1> DEFINE m == Seen
           l == [m EXCEPT !.page = FALSE, !.at = Off]
<1>1. /\ config \in TourStarts \cup {Off} /\ saved = config /\ answers = <<>> /\ Opened
      /\ patches = Effects(l, m) /\ delay = IF BoardTourBegins(m) THEN "running" ELSE "none"
  BY DEF TourInit
<1>2. l.at = Off /\ m.at = config
  <2>1. Seen.at = config
    BY SeenAt
  <2> DEFINE h == HasView
             d == Dialog
  <2>2. Seen = [at |-> config, board |-> page.board, page |-> h, dialog |-> d, card |-> CurrentCard]
    BY DEF Seen
  <2> HIDE DEF h, d
  <2>3. QED BY <2>1, <2>2
<1> HIDE DEF l, m
<1>3. SUFFICES ASSUME config # Off PROVE Running
  BY DEF TourInv
<1>4. config \in Positions
  BY <1>1, <1>3, TourAssumption
<1>5. OneAtATime(config, saved, patches, answers, slips)
  <2>1. CASE Effects(l, m) = <<>>
    BY <1>1, <1>4, <2>1 DEF OneAtATime, Resting
  <2>2. CASE Effects(l, m) # <<>>
    <3>1. PICK e : /\ Effects(l, m) = <<e>>
                   /\ \/ m.at = At("onboarding", 0) /\ e = At("card", 0)
                      \/ m.at = At("card", FINISHED) /\ e = At("board", 0)
                      \/ m.at = At("board", FINISHED) /\ e = At("sidebar", 0)
      BY <2>2, EffectsAre
    <3>2. MaySend(config, e, slips)
      BY <1>2, <1>4, <3>1, EffectMay
    <3>3. QED BY <1>1, <1>4, <3>1, <3>2 DEF OneAtATime, Sending
  <2>3. QED BY <2>1, <2>2
<1>6. Begun(m, patches, answers)
  BY <1>1, <1>2, <1>3, Waits
<1>7. CardIsOpen
  <2>1. page \in [board : Boards, view : Views, card : {NoCard}] /\ current = NoCard
    BY <1>1 DEF Opened
  <2>2. page = [board |-> page.board, view |-> page.view, card |-> page.card] /\ page.card = NoCard
    BY <2>1
  <2>3. QED BY <2>1, <2>2 DEF CardIsOpen
<1>8. QED BY <1>1, <1>5, <1>6, <1>7 DEF Running, m

LEMMA TourInvGoesOn == ASSUME TourInv PROVE TourGoesOn
<1> SUFFICES ASSUME Settled, config # Off, slips \cap {"failed", "mixed"} = {}
             PROVE  /\ config = saved
                    /\ config.category = "onboarding" => config.step = 0
                    /\ config.step # FINISHED => config.step <= LastStep[config.category]
                    /\ ~Dialog /\ NoneOf({"left"}) =>
                          /\ config \in {At("card", FINISHED), At("board", 0), At("board", 2)} => ~OnWelcomePage(Seen) \/ Tip(Seen, delay)
                          /\ config \in {At("board", FINISHED), At("sidebar", 0), At("sidebar", 1), At("sidebar", 2)} => Tip(Seen, delay)
  BY DEF TourGoesOn
<1>1. Running /\ "failed" \notin slips
  BY DEF TourInv
<1>2. patches = <<>> /\ answers = <<>> /\ delay # "running"
  BY DEF Settled
<1>3. config = saved /\ config \in Positions
  BY <1>1, <1>2, JoinedIs DEF Running, OneAtATime, Resting, Sending, Answering
<1>4. config.step # FINISHED => config.step <= LastStep[config.category]
  BY <1>3, PositionIs, LastStepIs
<1>5. ASSUME ~Dialog, NoneOf({"left"})
      PROVE  /\ config \in {At("card", FINISHED), At("board", 0), At("board", 2)} => ~OnWelcomePage(Seen) \/ Tip(Seen, delay)
             /\ config \in {At("board", FINISHED), At("sidebar", 0), At("sidebar", 1), At("sidebar", 2)} => Tip(Seen, delay)
  <2>1. current = NoCard
    BY <1>1, <1>5, NotOpen DEF Running, CardIsOpen, NoneOf
  <2>2. Seen.card = NoCard /\ Seen.at = config
    BY <2>1, SeenAt DEF CurrentCard
  <2>3. ~StartsBoardTour(Seen) /\ config # At("board", FINISHED)
    BY <1>1, <1>2, <2>2 DEF Running, Begun
  <2>4. ASSUME config = At("board", 0), OnWelcomePage(Seen) PROVE Tip(Seen, delay)
    <3>1. BoardTourBegins(Seen)
      BY <2>2, <2>4 DEF BoardTourBegins
    <3>2. delay = "done"
      BY <1>1, <1>2, <3>1 DEF Running
    <3>3. QED BY <3>1, <3>2 DEF Tip
  <2>5. config = At("card", FINISHED) => ~OnWelcomePage(Seen)
    BY <2>2, <2>3 DEF StartsBoardTour
  <2>6. config = At("board", 2) /\ OnWelcomePage(Seen) => Tip(Seen, delay)
    BY <2>2 DEF Tip
  <2>7. config \in {At("sidebar", 0), At("sidebar", 1), At("sidebar", 2)} => Tip(Seen, delay)
    BY <2>2 DEF Tip
  <2>8. QED BY <2>3, <2>4, <2>5, <2>6, <2>7
<1>6. QED BY <1>3, <1>4, <1>5, PositionIs

-----------------------------------------------------------------------------
(* Tour: the theorems.                                                     *)

LEMMA TourIsKept == TourSpec => []TourInv
BY TourStart, TourStep, PTL DEF TourSpec

\* At rest the client has the configuration of the server and the tour can go on
\* (the effects of the center panel, the card dialog and the sidebar, the tip
\* manager), from any positions and whatever the user does meanwhile.
THEOREM TourReachesItsTips == TourSpec => []TourGoesOn
BY TourIsKept, TourInvGoesOn, PTL

\* The tour only goes on, unless the user went back or a patch was sent while
\* another one was not answered (handleSavePreferences, patchProps).
THEOREM TourNeverFallsBack == TourSpec => TourMovesOn
<1>1. TourInv /\ [TourNext]_tourVars =>
        [config' # config => \/ Position(config') > Position(config)
                             \/ slips' \cap {"back", "mixed"} # {}]_tourVars
  BY TourStep DEF Onward
<1>2. QED BY <1>1, TourIsKept, PTL DEF TourSpec, TourMovesOn

-----------------------------------------------------------------------------
(* The page of a board, with the tour over it.                             *)

\* The tour moves on the page only as the page's own actions do.
LEMMA TourOnPage ==
    ASSUME PageInv, AskedInView, TourNext \/ UNCHANGED tourVars
    PROVE  PageInv' /\ AskedInView'
<1>1. ASSUME Next \/ UNCHANGED pageVars PROVE PageInv' /\ AskedInView'
  BY <1>1, PageSteps
<1>2. ASSUME UNCHANGED <<page, asked, store, server, scripts, news, added, mishaps>> PROVE PageInv' /\ AskedInView'
  <2>1. UNCHANGED <<page, stored, orders, rows, orderRows, missed, scripts, news, added, mishaps>>
    BY <1>2 DEF store, server
  <2>2. PageInv'
    BY <2>1, RestsWell
  <2>3. page'.view = page.view /\ asked' \in {asked, NoCard}
    BY <1>2
  <2>4. QED BY <2>2, <2>3, AskedStays
<1>3. ASSUME LooksAround PROVE PageInv' /\ AskedInView'
  <2>1. Visits
    BY <1>3 DEF LooksAround, Visits
  <2>2. QED BY <1>1, <2>1 DEF Next
<1>4. ASSUME Reload PROVE PageInv' /\ AskedInView'
  BY <1>2, <1>4 DEF Reload
<1>5. ASSUME UseWelcomeTemplate PROVE PageInv' /\ AskedInView'
  <2> DEFINE v == FirstView(WelcomeBoard)
             to == [board |-> WelcomeBoard, view |-> v, card |-> NoCard]
  <2>1. v \in Views /\ BoardOf[v] = WelcomeBoard /\ WelcomeBoard \in Boards
    BY TourAssumption, FirstViewIs
  <2>2. GoTo(to, stored, orders, {}) /\ Still
    BY <1>5 DEF UseWelcomeTemplate, Still, server
  <2> HIDE DEF v
  <2>3. IsAddress(to) /\ to.card = NoCard /\ to.view # NoView
    <3>1. NoCard \in Nat /\ NoCard <= Len(rows) /\ v # NoView
      BY <2>1, CardPageAssumption DEF NoCard, NoView, PageInv, PageTyped
    <3>2. to \in Addresses
      BY <2>1, <3>1 DEF Addresses
    <3>3. QED BY <2>1, <3>1, <3>2 DEF IsAddress
  <2>4. page' = to
    BY <2>2 DEF GoTo
  <2> HIDE DEF to
  <2>5. PageInv'
    BY <2>2, <2>3, GoesWell
  <2>6. QED BY <2>3, <2>4, <2>5 DEF AskedInView, HasView
<1>6. ASSUME Touched PROVE PageInv' /\ AskedInView'
  BY <1>2, <1>6, SMTT(40) DEF Touched, address
<1>7. ASSUME RendersAgain \/ DelayPasses PROVE PageInv' /\ AskedInView'
  BY <1>1, <1>2, <1>7 DEF RendersAgain, DelayPasses, address
<1>8. ASSUME HandleNext \/ HandlePrevious \/ HandleDismiss \/ BackdropClicked \/ HandleHide \/ HandleOpen PROVE PageInv' /\ AskedInView'
  BY <1>6, <1>8 DEF HandleNext, HandlePrevious, HandleDismiss, BackdropClicked, HandleHide, HandleOpen, SavePreferences
<1>9. ASSUME NEW i, Dot(i) PROVE PageInv' /\ AskedInView'
  BY <1>6, <1>9 DEF Dot, SavePreferences
<1>10. ASSUME NEW i, UpdateUserConfig(i) \/ PatchFails(i) \/ PatchAnswered(i) PROVE PageInv' /\ AskedInView'
  BY <1>1, <1>10 DEF UpdateUserConfig, PatchFails, PatchAnswered
<1>11. QED BY <1>1, <1>3, <1>4, <1>5, <1>7, <1>8, <1>9, <1>10 DEF TourNext, tourVars

LEMMA PageIsKept == (Spec => []PageInv) /\ (TourSpec => []PageInv)
<1>1. Init => PageInv /\ AskedInView
  BY PageOpened DEF Init
<1>2. TourInit => PageInv /\ AskedInView
  BY PageOpened DEF TourInit
<1>3. PageInv /\ AskedInView /\ [Next]_pageVars => PageInv' /\ AskedInView'
  BY PageSteps
<1>4. PageInv /\ AskedInView /\ [TourNext]_tourVars => PageInv' /\ AskedInView'
  BY TourOnPage
<1>5. QED BY <1>1, <1>2, <1>3, <1>4, PTL DEF Spec, TourSpec

\* However many cards are added at once, whatever the order in which the answers
\* and broadcasts arrive and whichever request fails, at rest every card that was
\* added in a view is in its order, unless the request that writes this order
\* failed, or for what the property excuses
\* (centerPanel.tsx addCard and addCardFromTemplate: each writes the whole order).
THEOREM AddedCardsAreListed == (Spec => []AddedStaysListed) /\ (TourSpec => []AddedStaysListed)
BY PageIsKept, PageAtRest, PTL

\* At rest the page shows the cards of the server, the open card exists, and the
\* page has the order that the server has of each view, or still the one that a
\* failed request should have written (the callbacks of centerPanel.tsx and
\* mutator.ts, and onClose of the card dialog), with any number of views, cards
\* and acts.
THEOREM PageShowsTheServer == (Spec => []PageFollowsServer) /\ (TourSpec => []PageFollowsServer)
BY PageIsKept, PageAtRest, PTL
=============================================================================
