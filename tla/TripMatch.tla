------------------------------ MODULE TripMatch ------------------------------
(***************************************************************************)
(* What a feed of trip updates says of one stop: the trips followed, the   *)
(* calls that time the stop, the timetable's time each is laid on, and the *)
(* departures told with their delays, less the trips struck out.           *)
(* A trip id stands for a run a day; the feed speaks of one, and the time  *)
(* or the delay it writes are that run's.  One line, whose departures are  *)
(* all filed under the direction of the reader; a trip calls here once.    *)
(***************************************************************************)
EXTENDS Integers, FiniteSetsExt, SequencesExt

CONSTANTS
    DayUnits,       \* the length of a day
    Times,          \* per trip id: when it leaves here past its service
                    \* day's midnight, the number it calls here with, and
                    \* whether the timetable knows the id
    Lingers,        \* how long a feed announces a run past its own time
    Qualified,      \* <<seen, watched>>: an id that holds another whole
    TripFeeds,      \* sequences of trip updates, see Entity
    Askings         \* who reads, and when: [at, board, shown, elsewhere,
                    \* local, database], board and shown being runs

NoTime == -99       \* a time, a delay or a number that is not given

VARIABLES tripFeed, asking, matched, told, struckOut

tripMatch == <<tripFeed, asking, matched, told, struckOut>>

StopUpdate == [stop : {"here", "boarding", "other", ""}, number : Nat \cup {NoTime}, late : {l \in Int : l > NoTime},
               kind : {"scheduled", "skipped", "no_data"}, form : {"time", "delay", "both", "zero", "nothing"}]
TripUpdate == [trip : DOMAIN Times, day : Nat, saysDay : BOOLEAN, line : {"own", "other", "none"}, short : BOOLEAN,
               way : {"own", "other", "none"}, cancelled : BOOLEAN, updates : Seq(StopUpdate)]
Run == [trip : DOMAIN Times, day : Nat]

ASSUME DayUnitsAssumption == DayUnits \in Nat \ {0} /\ Lingers \in Nat
ASSUME TimesAssumption == \A t \in DOMAIN Times : Times[t] \in [leaves : Nat, number : Nat, known : BOOLEAN]
ASSUME TripFeedsAssumption == \A f \in TripFeeds : f \in Seq(TripUpdate)
\* What is listed or shown is read from the database, and one run is shown.
ASSUME AskingsAssumption == \A a \in Askings :
    /\ a.at \in Nat /\ a.board \subseteq Run /\ a.shown \subseteq Run /\ a.database \in BOOLEAN
    /\ \A r \in a.board \cup a.shown : Times[r.trip].known
    /\ \A r, s \in a.shown : r = s

-----------------------------------------------------------------------------
(* What is known of the trips *)

RunOn(e) == [trip |-> e.trip, day |-> e.day]
DueAt(trip, day) == day * DayUnits + Times[trip].leaves

\* _scheduled_departures: the first run of the board by that id.
OnBoard == {r.trip : r \in asking.board \cup asking.shown}
RunsListed(a, trip) ==
    LET its(runs) == {r \in runs : r.trip = trip}
    IN  IF its(a.board) # {} THEN its(a.board) ELSE its(a.shown)
BoardTime(trip) == Min({DueAt(trip, r.day) : r \in RunsListed(asking, trip)})

TripList == IF asking.local THEN {} ELSE {r.trip : r \in asking.board}
Shown == {r.trip : r \in asking.shown}

\* _names_trip
NamesTrip(seen) == \E watched \in Shown : seen = watched \/ <<seen, watched>> \in Qualified

\* _trip_group_route_direction and _follows_trip: a feed that names no line
\* is read by trip, as a local stop always is.
Follows(e) ==
    \/ e.trip \in TripList
    \/ IF asking.local \/ e.line = "none" THEN e.trip \in Shown \/ (e.short /\ Shown # {})
       ELSE IF e.way = "none" THEN NamesTrip(e.trip)
       ELSE e.way = "own" /\ e.line = "own"

FollowedTrips == {n \in DOMAIN tripFeed : Follows(tripFeed[n])}

\* _timetable_here: the trips only the database can tell about; with none,
\* the board's are taken to call with the number of the one shown.
InTimetable ==
    {tripFeed[n].trip : n \in {n \in FollowedTrips :
        LET e == tripFeed[n] IN
        /\ asking.database /\ ~e.cancelled /\ Times[e.trip].known
        /\ e.trip \notin OnBoard \/ \A k \in DOMAIN e.updates : e.updates[k].stop # "here"}}

NumberOf(trip) ==
    IF trip \in InTimetable THEN Times[trip].number
    ELSE IF trip \in Shown \/ (~asking.database /\ trip \in OnBoard /\ Shown # {})
    THEN Min({Times[t].number : t \in Shown})
    ELSE NoTime

-----------------------------------------------------------------------------
(* The calls of an update *)

\* stop_update_clock, of a feed that writes a time, a delay, both, a zero
\* for every delay, or neither.
WhenSaid(e, u) == IF u.form \in {"time", "both", "zero"} THEN DueAt(e.trip, e.day) + u.late ELSE NoTime
DelaySaid(u) == IF u.form \in {"delay", "both"} THEN u.late ELSE IF u.form = "zero" THEN 0 ELSE NoTime

\* The latest update before this stop, those skipped left aside.
BeforeIt(updates, number) ==
    {k \in DOMAIN updates : /\ updates[k].number # NoTime /\ updates[k].number < number
                            /\ updates[k].kind # "skipped"}

Latest(updates, number) == updates[CHOOSE k \in BeforeIt(updates, number) :
        \A l \in BeforeIt(updates, number) : updates[l].number <= updates[k].number]

\* _calls_here: the update of this stop, by its id or by its number, else
\* the delay that holds from the latest one before.
OwnCalls(updates, number) ==
    {k \in DOMAIN updates : \/ updates[k].stop = "here"
                            \/ updates[k].stop = "" /\ number # NoTime /\ updates[k].number = number}

Carried(number, delay) ==
    [stop |-> "here", number |-> number, kind |-> "scheduled", form |-> "delay", late |-> delay]

CallsHere(updates, number) ==
    LET own == OwnCalls(updates, number)
        latest == Latest(updates, number)
    IN  IF own # {} \/ number = NoTime \/ BeforeIt(updates, number) = {} THEN {updates[k] : k \in own}
        ELSE IF latest.kind = "no_data" \/ DelaySaid(latest) = NoTime THEN {}
        ELSE {Carried(number, DelaySaid(latest))}

FirstCall(updates, number) ==
    LET own == OwnCalls(updates, number)
    IN  IF own # {} THEN updates[Min(own)] ELSE CHOOSE u \in CallsHere(updates, number) : TRUE

-----------------------------------------------------------------------------
(* The timetable's time *)

Distance(a, b) == IF a < b THEN b - a ELSE a - b

\* _due_on_its_day: the day the feed names, else the nearest of three.
DueToday(e, near) == DueAt(e.trip, IF e.saysDay THEN e.day ELSE near \div DayUnits)

DueOnItsDay(e, near) ==
    LET today == near \div DayUnits
        days3 == IF e.saysDay THEN {e.day} ELSE today - 1..today + 1
        nearest == {d \in days3 : \A c \in days3 : Distance(DueAt(e.trip, d), near) <= Distance(DueAt(e.trip, c), near)}
    IN  DueAt(e.trip, Min(nearest))

\* _scheduled_off_board: a followed trip the board does not list, when the
\* feed says something of it here: a time, or a delay counted from now.
Tells(e) ==
    LET number == Times[e.trip].number
        call == FirstCall(e.updates, number)
    IN  CallsHere(e.updates, number) # {} /\ (WhenSaid(e, call) # NoTime \/ DelaySaid(call) # NoTime)

MomentSaid(e, at) ==
    LET call == FirstCall(e.updates, Times[e.trip].number)
    IN  IF WhenSaid(e, call) # NoTime THEN WhenSaid(e, call) ELSE at + DelaySaid(call)

Scheduled(trip) ==
    LET telling == {n \in FollowedTrips :
                       /\ tripFeed[n].trip = trip /\ Tells(tripFeed[n])
                       /\ trip \notin OnBoard /\ trip \in InTimetable}
    IN  IF trip \in OnBoard THEN BoardTime(trip)
        ELSE IF telling = {} THEN NoTime
        ELSE DueOnItsDay(tripFeed[Max(telling)], MomentSaid(tripFeed[Max(telling)], asking.at))

-----------------------------------------------------------------------------
(* The departures told *)

\* _stop_time_and_delay, delay_of
TimeAndDelay(e, u) ==
    LET when == WhenSaid(e, u)
        delay == DelaySaid(u)
        due == Scheduled(e.trip)
    IN  IF when = NoTime /\ delay # NoTime /\ due # NoTime THEN <<due + delay, delay>>
        ELSE IF when # NoTime /\ due # NoTime /\ delay \in {NoTime, 0} THEN <<when, when - due>>
        ELSE <<when, delay>>

\* _read_stop_updates: what one followed trip update gives at this stop,
\* the past left out.
Departures(n) ==
    LET e == tripFeed[n]
        calls == {u \in CallsHere(e.updates, NumberOf(e.trip)) : u.kind = "scheduled"}
    IN  {[of |-> n, when |-> TimeAndDelay(e, u)[1], delay |-> TimeAndDelay(e, u)[2]] :
            u \in {u \in calls : TimeAndDelay(e, u)[1] >= asking.at}}

\* It strikes the trip it skips here, or where the board gets on it.
Skips(n) ==
    LET e == tripFeed[n] IN
    \/ \E u \in CallsHere(e.updates, NumberOf(e.trip)) : u.kind = "skipped"
    \/ e.trip \in asking.elsewhere /\ \E u \in ToSet(e.updates) : u.stop = "boarding" /\ u.kind = "skipped"

DayNamed(e) == IF e.saysDay THEN e.day ELSE NoTime

\* A feed drops a run some time after its own.
FeedsAt(at) == {f \in TripFeeds : \A n \in DOMAIN f : DueAt(f[n].trip, f[n].day) + Lingers >= at}

TripsIdle == matched = FALSE /\ told = {} /\ struckOut = {}
TripsInit ==
    /\ asking \in Askings
    /\ tripFeed \in FeedsAt(asking.at)
    /\ TripsIdle

\* get_rt_route_trip_statuses, struck_trips
ReadTrips ==
    /\ ~matched /\ matched' = TRUE
    /\ LET running == {n \in FollowedTrips : ~tripFeed[n].cancelled} IN
       /\ told' = UNION {Departures(n) : n \in running}
       /\ struckOut' = {<<tripFeed[n].trip, DayNamed(tripFeed[n])>> :
                           n \in {n \in FollowedTrips : tripFeed[n].cancelled \/ Skips(n)}}
    /\ UNCHANGED <<tripFeed, asking>>

TripsSpec == TripsInit /\ [][ReadTrips]_tripMatch

-----------------------------------------------------------------------------
(* Properties *)

\* The last word of the feed on the delay at this stop, its calls read
\* forward: a skipped call says nothing, one without data takes it back, and
\* so does one that times itself alone, unless it is this one.
CallsAt(e, k) == {u \in ToSet(e.updates) : u.number = k \/ (k = Times[e.trip].number /\ u.stop = "here")}
Word(e, k, before) ==
    IF CallsAt(e, k) = {} THEN before
    ELSE LET u == CHOOSE u \in CallsAt(e, k) : TRUE IN
         IF u.kind = "skipped" /\ k < Times[e.trip].number THEN before
         ELSE IF u.kind # "scheduled" \/ u.form = "nothing" THEN NoTime
         ELSE IF k = Times[e.trip].number THEN u.late ELSE DelaySaid(u)
LastWord(e) ==
    LET word[k \in -1..Times[e.trip].number] == IF k < 0 THEN NoTime ELSE Word(e, k, word[k - 1])
    IN  word[Times[e.trip].number]

\* "the delay belongs to this departure" (domain/realtime.py:405): whatever
\* the feed writes, a time, a delay or a zero, here or at a call before, of a
\* trip the board lists or has dropped, on either side of midnight, each
\* departure told is its run's timetable time and the delay told with it, no
\* cancelled run is, and a run of the board the feed times to come is.
TimesAddUp ==
    /\ \A d \in told :
          LET e == tripFeed[d.of] IN
          Times[e.trip].known /\ (asking.database \/ Times[e.trip].number = NumberOf(e.trip)) =>
              /\ ~e.cancelled
              /\ d.delay = LastWord(e) /\ d.when = DueAt(e.trip, e.day) + d.delay
    /\ matched =>
          \A n \in FollowedTrips :
              LET e == tripFeed[n] IN
              /\ RunOn(e) \in asking.board /\ asking.database /\ ~e.cancelled
              /\ LastWord(e) # NoTime /\ DueAt(e.trip, e.day) + LastWord(e) >= asking.at
              => \E d \in told : d.of = n

\* What it rests on: a feed tells of one run of a trip, of each call of it
\* once, this stop by its id or by the number the trip calls here with.
PlainCalls(e) ==
    LET number == Times[e.trip].number
        ofThis(u) == u.stop = "here" \/ u.number = number
    IN  /\ \A k, l \in DOMAIN e.updates :
              LET u == e.updates[k] v == e.updates[l] IN
              (u.number # NoTime /\ u.number = v.number) \/ (ofThis(u) /\ ofThis(v)) => k = l
        /\ \A u \in ToSet(e.updates) :
              /\ u.stop = "here" => u.number \in {number, NoTime}
              /\ u.number = number => u.stop \in {"here", ""}

\* The run is the first one the board lists; off the board, with no day said,
\* it is due within half a day of what is said of it, and its service day is
\* that moment's day, the one before or the one after.
PlainDay(e, a) ==
    LET near == MomentSaid(e, a.at) IN
    IF RunsListed(a, e.trip) # {}
    THEN RunOn(e) \in RunsListed(a, e.trip) /\ \A r \in RunsListed(a, e.trip) : e.day <= r.day
    ELSE ~e.saysDay /\ Tells(e) =>
            /\ 2 * Distance(DueAt(e.trip, e.day), near) < DayUnits
            /\ near \div DayUnits \in e.day - 1..e.day + 1

PlainFeeds ==
    \A a \in Askings : \A f \in FeedsAt(a.at) :
        /\ \A m, n \in DOMAIN f : f[m].trip = f[n].trip => m = n
        /\ \A n \in DOMAIN f : Times[f[n].trip].known => PlainCalls(f[n]) /\ PlainDay(f[n], a)
=============================================================================
