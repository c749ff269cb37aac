--------------------------- MODULE NextDepartures ---------------------------
(***************************************************************************)
(* The board of a journey: the candidates laid on the days their services  *)
(* run, the rows cut at a limit, the departures not gone yet, read again   *)
(* without the trips a feed strikes out, and the next day the journey runs *)
(* when the board is empty.                                                *)
(* A clock is counted from its service day's midnight and may pass it; a   *)
(* moment is a count of the same unit, the zones being one.                *)
(***************************************************************************)
EXTENDS Integers, Sequences, FiniteSetsExt, Functions

CONSTANTS
    DayLength,      \* units of a day
    Week,           \* days of a week
    LIMIT,          \* rows the query is cut at
    BOARD,          \* departures listed
    HORIZON,        \* days the next service day is looked for
    Days,           \* the days of the calendars
    Timetables,     \* [trips, services]: a trip names its service, when it
                    \* leaves, the place of its row in the database and of
                    \* its id among the ids; a service its window, weekdays,
                    \* added and removed days
    Moments,        \* when the board may be read
    Strikes         \* what a feed may strike out: pairs of a trip and a
                    \* service day, or AnyDay

ASSUME BoardAssumption ==
    /\ DayLength \in Nat \ {0} /\ Week \in Nat \ {0}
    /\ LIMIT \in Nat \ {0} /\ BOARD \in Nat \ {0} /\ HORIZON \in Nat
    /\ Days \subseteq Nat /\ Moments \subseteq Nat

\* No two trips of a timetable share a row or an id.
ASSUME TimetablesAssumption == \A t \in Timetables :
    /\ IsFiniteSet(t.trips)
    /\ \A trip \in t.trips :
          /\ trip.leaves \in Nat /\ trip.row \in Nat /\ trip.nth \in Nat
          /\ LET s == t.services[trip.service] IN s.last \in Int /\ IsFiniteSet(s.added)
    /\ \A x, y \in t.trips : x # y => x.row # y.row /\ x.nth # y.nth

AnyDay == -1
NoDay == -2

VARIABLES timetable, moment, phase, rows, board, struck, nextDay

departures == <<timetable, moment, phase, rows, board, struck, nextDay>>

-----------------------------------------------------------------------------
(* The days a service runs *)

ReadingDay == moment \div DayLength
Instant(trip, day) == day * DayLength + trip.leaves

\* _day_offset
DayOffset(trip) == trip.leaves \div DayLength

\* _runs_on, _removed_on, and the window of the calendar row.
Calendar(s, day) ==
    /\ s.first <= day /\ day <= s.last
    /\ day % Week \in s.weekdays
    /\ day \notin s.removed

\* The days read start as far back as the latest departure asks for.
BackOneDay(trips) == 1

BackDays(trips) == Max({1} \cup {DayOffset(trip) : trip \in trips})

\* cal_expand and valid_dates: an added day is one whatever the window.
ValidDates(trips, s) ==
    {day \in ReadingDay - BackDays(trips)..s.last : Calendar(s, day)} \cup s.added

InOrder(S, Less(_, _)) ==
    [n \in 1..Cardinality(S) |-> CHOOSE r \in S : Cardinality({s \in S : Less(s, r)}) = n - 1]

\* The rows of the departure query, in its order: service day, then clock,
\* then as the database happens to give them.
Before(r, s) ==
    \/ r.day < s.day
    \/ r.day = s.day /\ r.trip.leaves < s.trip.leaves
    \/ r.day = s.day /\ r.trip.leaves = s.trip.leaves /\ r.trip.row < s.trip.row

Rows(window, limit) ==
    LET found == UNION {{[trip |-> trip, day |-> day] :
                            day \in {d \in ValidDates(timetable.trips, timetable.services[trip.service]) :
                                        d \in window /\ Instant(trip, d) >= moment}} : trip \in timetable.trips}
        sorted == InOrder(found, Before)
    IN  SubSeq(sorted, 1, Min({limit, Len(sorted)}))

-----------------------------------------------------------------------------
(* The board *)

\* _departure_timetable's key: the departure, then the trip's id.
Sooner(r, s) ==
    \/ Instant(r.trip, r.day) < Instant(s.trip, s.day)
    \/ Instant(r.trip, r.day) = Instant(s.trip, s.day) /\ r.trip.nth < s.trip.nth

\* The list made of the rows not gone; none when all are.
Upcoming(kept, now) ==
    LET ahead == {r \in kept : Instant(r.trip, r.day) > now}
        sorted == InOrder(ahead, Sooner)
    IN  SubSeq(sorted, 1, Min({BOARD, Len(sorted)}))

\* on_service_day, for every day a feed names for a trip.
StruckOut(r, strikes) == \E s \in strikes : s.trip = r.trip.id /\ s.day \in {AnyDay, r.day}

\* get_next_service_date, from a day on.
NextServiceDate(from) ==
    LET runs(day) == \E trip \in timetable.trips :
                        LET s == timetable.services[trip.service] IN Calendar(s, day) \/ day \in s.added
        days == {day \in from..from + HORIZON : runs(day)}
    IN  IF days = {} THEN NoDay ELSE Min(days)

\* first_departure_row: the first row of the next day the journey runs.
FirstRow(from) ==
    LET day == NextServiceDate(from) IN IF day = NoDay THEN <<>> ELSE Rows({day}, 1)

-----------------------------------------------------------------------------

DeparturesIdle == phase = "asked" /\ rows = <<>> /\ board = <<>> /\ struck = {} /\ nextDay = NoDay
DeparturesInit == timetable \in Timetables /\ moment \in Moments /\ DeparturesIdle

\* get_next_departure, and next_service_date_for when nothing is left.
ReadDepartures ==
    /\ phase = "asked"
    /\ phase' = "read"
    /\ rows' = Rows(Days, LIMIT)
    /\ board' = Upcoming(Range(rows'), moment)
    /\ nextDay' = IF board' = <<>> THEN NextServiceDate(ReadingDay) ELSE NoDay
    /\ UNCHANGED <<timetable, moment, struck>>

\* drop_departure_trips, at a later cycle: the rows kept are read again at
\* its moment without the ones struck; the board stands when none is.
DropDepartures ==
    /\ phase = "read" /\ board # <<>>
    /\ phase' = "struck"
    /\ \E later \in {t \in Moments : t >= moment}, strikes \in Strikes :
          LET kept == {r \in Range(rows) : ~StruckOut(r, strikes)} IN
          /\ kept # Range(rows)
          /\ moment' = later /\ struck' = strikes
          /\ board' = Upcoming(kept, later)
          /\ nextDay' = IF board' = <<>> THEN NextServiceDate(later \div DayLength) ELSE NoDay
    /\ UNCHANGED <<timetable, rows>>

DeparturesNext == ReadDepartures \/ DropDepartures

DeparturesSpec == DeparturesInit /\ [][DeparturesNext]_departures

-----------------------------------------------------------------------------
(* Properties *)

\* What is due, by the reading GTFS gives of its calendars.
DueOn(trip, day) == LET s == timetable.services[trip.service] IN Calendar(s, day) \/ day \in s.added

Ahead == {r \in [trip : timetable.trips, day : Days] :
             DueOn(r.trip, r.day) /\ Instant(r.trip, r.day) > moment /\ ~StruckOut(r, struck)}

\* The board holds the soonest departures to come that no feed struck, over
\* midnights, added and removed days and a reading made for an earlier
\* moment; one it leaves out comes after all it lists, or after every row
\* the query was cut at.  A later day the journey is said to run has a
\* first departure.
SoonestAreShown ==
    phase # "asked" =>
        /\ Range(board) \subseteq Ahead
        /\ \A m, n \in DOMAIN board : m < n =>
              Instant(board[m].trip, board[m].day) <= Instant(board[n].trip, board[n].day)
        /\ \A r \in Ahead \ Range(board) :
              \/ /\ Len(board) = BOARD
                 /\ \A s \in Range(board) : Instant(s.trip, s.day) <= Instant(r.trip, r.day)
              \/ Len(rows) = LIMIT /\ \A s \in Range(rows) : Before(s, r)
        /\ \A from \in {day \in Days : day > ReadingDay} :
              NextServiceDate(from) # NoDay =>
                  FirstRow(from) # <<>> /\ FirstRow(from)[1].day = NextServiceDate(from)
=============================================================================
