------------------------------ MODULE MCReadings ------------------------------
(***************************************************************************)
(* The parts of a reading that share no state: when a host is asked for    *)
(* news, when the realtime feeds of a source are read, which rides a       *)
(* journey has, its board, its alerts, and what a feed of trip updates     *)
(* says of it.  A behaviour is one of a single part of Parts, the others   *)
(* staying in one of their initial states.                                 *)
(***************************************************************************)
EXTENDS NightLooks, RtWindow, RidePairs, NextDepartures, AlertMatch, TripMatch

CONSTANT Parts

VARIABLE part

vars == <<part, looks, window, rides, departures, alerts, tripMatch>>

-----------------------------------------------------------------------------
(* The host and the feeds of a source: clocks that change, short and long  *)
(* stops; days that end before and after midnight, and a day of rest.      *)

MCShifts == {[at |-> 1000, by |-> 0], [at |-> 52, by |-> 2], [at |-> 54, by |-> -2]}
MCLookBudgets == {[stops |-> 1, changes |-> 0, failures |-> 0], [stops |-> 0, changes |-> 1, failures |-> 1]}

MCServices == {<<<<5, 20>>, Rest>>, <<<<10, 36>>, <<15, 25>>>>, <<<<5, 28>>, <<8, 20>>>>}
MCWindowBudgets == {[restarts |-> 2, failures |-> 0], [restarts |-> 0, failures |-> 1]}

-----------------------------------------------------------------------------
(* Journeys: every trip of two to four calls between two places, whichever *)
(* get on or off; two trips each way round a loop; several stops an end.   *)

SeqsFrom(S, m, n) == UNION {[1..k -> S] : k \in m..n}
FullCall(place) == [at |-> place, on |-> TRUE, off |-> TRUE, timed |-> TRUE]
TripOf(w, p, c) == [way |-> w, pace |-> p, calls |-> c]
AskedFor(line, from, to, train) == [line |-> line, from |-> from, to |-> to, train |-> train]

OneTrip == {AskedFor({TripOf("0", 1, c)}, {"o"}, {"d"}, FALSE) :
               c \in SeqsFrom([at : {"o", "d"}, on : BOOLEAN, off : BOOLEAN, timed : {TRUE}], 2, 4)}
LoopWays == SeqsFrom({FullCall(p) : p \in {"o", "d", "x"}}, 3, 4)
LoopTrips == {AskedFor({TripOf("0", 1, c), TripOf(w, 2, e)}, {"o"}, {"d"}, FALSE) :
                 c \in {c \in LoopWays : c[1].at = c[Len(c)].at}, e \in {e \in LoopWays : e[1].at # "x"}, w \in {"1", NoWay}}
BetweenSeveral(train) == {AskedFor({TripOf("0", 1, c)}, {"o", "p"}, {"d", "e"}, train) :
                             c \in SeqsFrom({FullCall(p) : p \in {"o", "p", "d", "e"}}, 2, 4)}
MCJourneys == OneTrip \cup LoopTrips \cup BetweenSeveral(TRUE)
MCSeveral == BetweenSeveral(FALSE)

-----------------------------------------------------------------------------
(* Boards: services with and without a window, weekdays, days added and    *)
(* removed; trips that leave on their day, or one or two midnights later,  *)
(* at the same time as another or not.                                     *)

Service(f, l, w, r, a) == [first |-> f, last |-> l, weekdays |-> w, removed |-> r, added |-> a]
MCTimetables ==
    {[trips |-> {[id |-> "t", service |-> "s", leaves |-> x, row |-> 2, nth |-> 1],
                 [id |-> "u", service |-> "v", leaves |-> 3, row |-> 1, nth |-> 2]},
      services |-> [s |-> Service(f, l, w, r, a), v |-> v]] :
        x \in {1, 3, 7, 9}, f \in {0, 3}, l \in {2, 5}, w \in {{}, {0}, {0, 1}}, r \in {{}, {2}}, a \in {{}, {2}, {6}},
        v \in {Service(0, 4, {0}, {}, {}), Service(1, 0, {}, {}, {3})}}
MCStruck == {{[trip |-> "t", day |-> AnyDay]}, {[trip |-> "t", day |-> 2]},
             {[trip |-> "u", day |-> 2], [trip |-> "t", day |-> 3]}}

-----------------------------------------------------------------------------
(* Alerts: every entity of up to five fields alone, eight telling ones two *)
(* by two, and three alerts of other words, effects and periods.           *)

About(s, r, t, a, w) == [stop |-> s, route |-> r, trip |-> t, agency |-> a, kind |-> Unsaid, way |-> w]
AboutTrip(t) == About(Unsaid, NoId, t, Unsaid, Unsaid)
AboutStop(s, t) == About(s, NoId, t, Unsaid, Unsaid)
AnyEntity == {About(s, r, t, a, w) :
    s \in {Unsaid, "o", "d", "y", "z"}, r \in {NoId, <<":", "1">>, <<"2", "1">>},
    t \in {NoId, <<"a">>, <<"a", "1">>, <<"b">>}, a \in {Unsaid, "X", "Y"}, w \in {Unsaid, "1"}}
Telling == {AboutTrip(<<"a">>), AboutTrip(<<"b">>), AboutStop("o", <<"b">>), AboutStop("y", NoId), AboutStop("d", NoId),
            About(Unsaid, <<"1">>, NoId, Unsaid, Unsaid), About(Unsaid, NoId, NoId, "X", Unsaid), AboutStop("z", NoId)}
MCPeriods == {{}, {[start |-> 0, end |-> 1]}, {[start |-> 0, end |-> 1], [start |-> 3, end |-> 9]}, {[start |-> 5, end |-> 6]}}
Alert(es, f, w, p) == [entities |-> es, effect |-> f, words |-> w, periods |-> p]
MCAlertFeeds ==
    {<<Alert({e}, 1, "w", {})>> : e \in AnyEntity}
    \cup {<<Alert({e, f}, 1, "w", {})>> : e \in Telling, f \in Telling}
    \cup {<<Alert({e}, x, "w", p), Alert({f}, 2, "v", q), Alert({AboutStop("o", NoId)}, 3, "u", r)>> :
             e \in Telling, f \in Telling, x \in {1, 2}, p \in MCPeriods, q \in MCPeriods, r \in MCPeriods}
\* Two alerts told in the same words.
MCSameWords == {<<Alert({e}, 1, "w", p), Alert({f}, 1, "w", q)>> :
                   e \in Telling, f \in Telling, p \in MCPeriods, q \in MCPeriods}
MCJourneyRides ==
    {[line |-> <<"1">>, agency |-> a, kind |-> Unsaid, way |-> w, head |-> <<"a", "1", "1">>, listed |-> {<<"b", "1">>},
      origin |-> {"o"}, destination |-> {"d"}, between |-> {"y"}] : a \in {Unsaid, "X"}, w \in {Unsaid, "0"}}

-----------------------------------------------------------------------------
(* Trip updates: two trips of the day, one past midnight, and one the      *)
(* timetable does not know whose id holds another; every form of update at *)
(* the stop and before it; one update, or two of two trips.                *)

Here(l, n, k) == [leaves |-> l, number |-> n, known |-> k]
MCTimes == [a |-> Here(10, 3, TRUE), b |-> Here(12, 2, TRUE), n |-> Here(25, 3, TRUE), u |-> Here(11, 3, FALSE)]
MCQualified == {<<"u", "a">>}
RunOf(t, d) == [trip |-> t, day |-> d]
Asking(t, listed, first, bystop, others, db) ==
    [at |-> t, board |-> listed, shown |-> first, local |-> bystop, elsewhere |-> others, database |-> db]
MCAskings ==
    UNION {{Asking(56, {RunOf("a", 2), RunOf("b", 2)}, {RunOf("a", 2)}, FALSE, w, db),
            Asking(59, {RunOf("b", 2)}, {RunOf("b", 2)}, FALSE, {}, db),
            Asking(48, {RunOf("n", 1), RunOf("a", 2)}, {RunOf("n", 1)}, FALSE, w, db),
            Asking(50, {RunOf("a", 2)}, {RunOf("a", 2)}, FALSE, {}, db),
            Asking(50, {}, {}, FALSE, {}, db),
            Asking(48, {}, {RunOf("n", 1)}, TRUE, {}, db),
            Asking(59, {}, {RunOf("a", 2)}, TRUE, {}, db)} : w \in {{}, {"a"}}, db \in BOOLEAN}
CallUpdate(s, n, k, f, l) == [stop |-> s, number |-> n, kind |-> k, form |-> f, late |-> l]
Forms == {"time", "delay", "both", "zero", "nothing"}
Told == {<<"scheduled", f>> : f \in Forms} \cup {<<"skipped", "delay">>, <<"no_data", "delay">>}
Perhaps(S) == {<<>>} \cup {<<x>> : x \in S}
AtFirst == Perhaps({CallUpdate("other", 1, "scheduled", "delay", 1)})
AtSecond == Perhaps({CallUpdate("boarding", 2, t[1], t[2], 2) : t \in Told})
AtThis(n) == Perhaps({CallUpdate(s, n, t[1], t[2], 3) : s \in {"here", ""}, t \in Told}
                     \cup {CallUpdate("here", NoTime, "scheduled", "time", 3)})
Updates(t) == IF t = "b" THEN {x \o y : x \in AtFirst, y \in AtThis(2)}
              ELSE {x \o y \o z : x \in AtFirst, y \in AtSecond, z \in AtThis(3)}
Update(r, s, l, w, h, c, u) ==
    [trip |-> r.trip, day |-> r.day, saysDay |-> s, line |-> l, way |-> w, short |-> h, cancelled |-> c, updates |-> u]
SaysHere(r, f) == <<CallUpdate("here", MCTimes[r.trip].number, "scheduled", f, 3)>>
Runs == {RunOf("a", 2), RunOf("b", 2), RunOf("n", 1), RunOf("u", 2)}
MCTripFeeds ==
    UNION {{<<Update(r, s, "own", "own", FALSE, FALSE, u)>> : u \in Updates(r.trip), s \in BOOLEAN} : r \in Runs}
    \cup {<<Update(r, s, l, w, h, c, SaysHere(r, f))>> :
             r \in Runs, s \in BOOLEAN, l \in {"own", "other", "none"}, w \in {"own", "other", "none"},
             h \in BOOLEAN, c \in BOOLEAN, f \in {"time", "delay"}}
    \cup {<<Update(RunOf("a", 2), s, "own", "own", FALSE, c, SaysHere(RunOf("a", 2), f)),
            Update(r, FALSE, "own", "own", FALSE, FALSE, SaysHere(r, g))>> :
             r \in Runs \ {RunOf("a", 2)}, s \in BOOLEAN, c \in BOOLEAN, f \in Forms, g \in Forms}

\* The theorem about these feeds rests on it.
ASSUME PlainAssumption == PlainFeeds

-----------------------------------------------------------------------------
(* One part at a time *)

FirstOf(S) == CHOOSE x \in S : TRUE
FirstShift == FirstOf(Shifts)
FirstHour == FirstOf(Hours)
FirstInterval == FirstOf(Intervals)
FirstLookBudget == FirstOf(LookBudgets)
FirstServices == FirstOf(Services)
FirstDelay == FirstOf(Delays)
NoMishap == [restarts |-> 0, failures |-> 0, met |-> FALSE, unsure |-> 0]
FirstJourney == FirstOf(Journeys)
FirstTimetable == FirstOf(Timetables)
FirstMoment == FirstOf(Moments)
FirstAlerts == FirstOf(AlertFeeds)
FirstRide == FirstOf(JourneyRides)
FirstTrips == <<>>
FirstAsking == FirstOf(Askings)

Init ==
    /\ part \in Parts
    /\ IF part = "looks" THEN LooksInit
       ELSE /\ shift = FirstShift /\ hour = FirstHour /\ interval = FirstInterval /\ chances = FirstLookBudget
            /\ LooksIdle
    /\ IF part = "window" THEN WindowInit
       ELSE days = FirstServices /\ delay = FirstDelay /\ mishaps = NoMishap /\ WindowIdle
    /\ IF part = "rides" THEN RidesInit ELSE journey = FirstJourney /\ readers = <<>>
    /\ IF part = "departures" THEN DeparturesInit
       ELSE timetable = FirstTimetable /\ moment = FirstMoment /\ DeparturesIdle
    /\ IF part = "alerts" THEN AlertsInit ELSE feed = FirstAlerts /\ ride = FirstRide /\ said = <<>>
    /\ IF part = "trips" THEN TripsInit ELSE tripFeed = FirstTrips /\ asking = FirstAsking /\ TripsIdle

Next ==
    \/ part = "looks" /\ LooksNext /\ UNCHANGED <<part, window, rides, departures, alerts, tripMatch>>
    \/ part = "window" /\ WindowNext /\ UNCHANGED <<part, looks, rides, departures, alerts, tripMatch>>
    \/ part = "rides" /\ ReadRides /\ UNCHANGED <<part, looks, window, departures, alerts, tripMatch>>
    \/ part = "departures" /\ DeparturesNext /\ UNCHANGED <<part, looks, window, rides, alerts, tripMatch>>
    \/ part = "alerts" /\ ReadAlerts /\ UNCHANGED <<part, looks, window, rides, departures, tripMatch>>
    \/ part = "trips" /\ ReadTrips /\ UNCHANGED <<part, looks, window, rides, departures, alerts>>

Spec == Init /\ [][Next]_vars
===============================================================================
