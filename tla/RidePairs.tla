----------------------------- MODULE RidePairs -----------------------------
(***************************************************************************)
(* Which calls of a trip a journey rides between: the candidates of the    *)
(* departure query, for a line between two places, for several stops at an *)
(* end and for a train; and the other readers of the same question, the    *)
(* flow's test that the journey exists, the shortest ride of a trip and    *)
(* the direction kept at a loop's terminus.                                *)
(* A trip is its direction, its pace and its calls; a call names its place *)
(* (the records of one place are one), whether riders get on, off, and     *)
(* whether the feed gives it a time.                                       *)
(***************************************************************************)
EXTENDS Integers, Sequences, FiniteSetsExt

CONSTANT Journeys   \* the questions: [line, from, to, train], the line a set
                    \* of trips, from and to the places of each end

\* The places offered to ride to leave out the one ridden from.
ASSUME JourneysAssumption ==
    \A j \in Journeys :
        /\ \A trip \in j.line : DOMAIN trip.calls = 1..Len(trip.calls) /\ Len(trip.calls) \in Nat
        /\ IsFiniteSet(j.from) /\ IsFiniteSet(j.to) /\ j.train \in BOOLEAN
        /\ Cardinality(j.from) = 1 /\ Cardinality(j.to) = 1 => j.from # j.to

NoWay == "none"     \* a trip with no direction_id, or no direction to keep

VARIABLES journey, readers

rides == <<journey, readers>>

-----------------------------------------------------------------------------
(* The candidates of the departure query *)

\* _boards, _alights, at the places of one end.
GetsOn(c, places) == c.at \in places /\ c.on
GetsOff(c, places) == c.at \in places /\ c.off

\* _no_call_between: no call the rider can use at either end in between.
AnyCallBetween(calls, i, j, from, to) == \A k \in i + 1..j - 1 : calls[k].at \notin from \cup to

NoCallBetween(calls, i, j, from, to) ==
    \A k \in i + 1..j - 1 : ~GetsOn(calls[k], from) /\ ~GetsOff(calls[k], to)

\* A boarding at one of these places before the ride's counts, unless the
\* ends share a place and it is where the ride ends, or the rider was set
\* down since.
BoardsEarlier(places, calls, i, j, from, to) ==
    \E k \in 1..i - 1 :
        /\ GetsOn(calls[k], places)
        /\ from \cap to # {} => /\ calls[k].at # calls[j].at
                                /\ \A l \in k + 1..i - 1 : ~GetsOff(calls[l], to)

AlightsLater(places, calls, i, j, from, to) ==
    \E k \in j + 1..Len(calls) :
        /\ GetsOff(calls[k], places)
        /\ from \cap to # {} => /\ calls[k].at # calls[i].at
                                /\ \A l \in j + 1..k - 1 : ~GetsOn(calls[l], from)

\* Between connections: not back to where it began, and not the other way,
\* no call at the destination's own places before, at the origin's after.
HoldsToOneWay(calls, i, j, from, to) ==
    from \cap to # {} =>
        /\ calls[i].at # calls[j].at
        /\ \A k \in 1..i - 1 : calls[k].at \notin to \ from
        /\ \A k \in j + 1..Len(calls) : calls[k].at \notin from \ to

\* A train through several stations is read where the rider first gets on
\* and last gets off.
TrainRide(calls, i, j, from, to) ==
    /\ Cardinality(from) > 1 => ~BoardsEarlier(from, calls, i, j, from, to)
    /\ Cardinality(to) > 1 => ~AlightsLater(to, calls, i, j, from, to)
    /\ HoldsToOneWay(calls, i, j, from, to)

\* _several_stops: as a train's, the shortest ride holding within a place.
SeveralStops(calls, i, j, from, to) ==
    /\ NoCallBetween(calls, i, j, {calls[i].at}, {calls[j].at})
    /\ ~BoardsEarlier(from \ {calls[i].at}, calls, i, j, from, to)
    /\ ~AlightsLater(to \ {calls[j].at}, calls, i, j, from, to)
    /\ HoldsToOneWay(calls, i, j, from, to)

BusRide(calls, i, j, from, to) ==
    IF Cardinality(from) > 1 \/ Cardinality(to) > 1 THEN SeveralStops(calls, i, j, from, to)
                                                    ELSE NoCallBetween(calls, i, j, from, to)

\* _departure_candidates: a call with no time is no end of a ride.
Candidates(trip, from, to, train) ==
    LET calls == trip.calls
        timed == {k \in DOMAIN calls : calls[k].timed}
    IN  {r \in timed \X timed :
            /\ r[1] < r[2] /\ GetsOn(calls[r[1]], from) /\ GetsOff(calls[r[2]], to)
            /\ IF train THEN TrainRide(calls, r[1], r[2], from, to)
                        ELSE BusRide(calls, r[1], r[2], from, to)}

\* A bus entry that keeps a direction reads the trips of it, and the
\* undirected ones.
Listed(line, from, to, train, way) ==
    {r \in UNION {{trip} \X Candidates(trip, from, to, train) : trip \in line} :
        train \/ way = NoWay \/ r[1].way \in {way, NoWay}}

-----------------------------------------------------------------------------
(* The other readers, between two places of a line *)

\* has_trip_between
HasTripBetween(line, from, to) ==
    \E trip \in line : \E i, j \in DOMAIN trip.calls :
        i < j /\ GetsOn(trip.calls[i], {from}) /\ GetsOff(trip.calls[j], {to})

\* _shortest_ride: one pass over the calls, from the last boarding met.
MeetCall(calls, n, from, to, met) ==
    IF GetsOn(calls[n], {from}) THEN [met EXCEPT !.on = n]
    ELSE IF GetsOff(calls[n], {to}) /\ met.on # 0
    THEN [on |-> 0,
          best |-> IF met.best = <<>> \/ n - met.on < met.best[2] - met.best[1] THEN <<met.on, n>>
                                                                                ELSE met.best]
    ELSE met

ShortestRide(calls, from, to) ==
    LET scan[n \in 0..Len(calls)] == IF n = 0 THEN [on |-> 0, best |-> <<>>]
                                              ELSE MeetCall(calls, n, from, to, scan[n - 1])
    IN  scan[Len(calls)].best

\* _loop_termini
LoopTermini(line) == {trip.calls[1].at : trip \in {t \in line : t.calls[1].at = t.calls[Len(t.calls)].at}}

\* Twice the median of the first fields of a set of pairs.
TwiceMedian(S) ==
    LET nth(n) == Min({a[1] : a \in {a \in S : Cardinality({b \in S : b[1] <= a[1]}) >= n}})
    IN  nth((Cardinality(S) + 1) \div 2) + nth(Cardinality(S) \div 2 + 1)

\* _quickest_rotations: the direction whose shortest rides take least.
Quickest(line, from, to, ways) ==
    LET took(way) == {<<r[1].pace * (r[2][2] - r[2][1]), r>> :
                         r \in {r \in Listed(line, {from}, {to}, FALSE, NoWay) : r[1].way = way}}
        timed == {way \in ways : took(way) # {}}
        medians == {TwiceMedian(took(way)) : way \in timed}
    IN  IF Cardinality(timed) < 2 \/ Cardinality(medians) < Cardinality(timed) THEN ways
        ELSE {way \in timed : TwiceMedian(took(way)) = Min(medians)}

\* get_pair_direction, nothing asked of the way out: at a loop's terminus
\* served both ways round, the way of the fewest stops.
PairDirection(line, from, to) ==
    LET found == {<<t, ShortestRide(t.calls, from, to)>> : t \in line}
        ridden == {r \in found : r[2] # <<>>}
        stops(r) == r[2][2] - r[2][1]
        fewest == {r \in ridden : \A s \in ridden : stops(r) <= stops(s)}
        ways == {r[1].way : r \in fewest} \ {NoWay}
        agreed == IF Cardinality(ways) > 1 THEN Quickest(line, from, to, ways) ELSE ways
    IN  IF /\ {from, to} \cap LoopTermini(line) # {}
           /\ Cardinality({r[1].way : r \in ridden}) > 1
           /\ Cardinality(agreed) = 1
        THEN CHOOSE way \in agreed : TRUE
        ELSE NoWay

-----------------------------------------------------------------------------

OnlyOf(S) == CHOOSE x \in S : TRUE

Simple == ~journey.train /\ Cardinality(journey.from) = 1 /\ Cardinality(journey.to) = 1

RidesInit == journey \in Journeys /\ readers = <<>>

\* The flow asks whether the journey exists and which way it goes, between
\* two places; the sensor reads its departures.
ReadRides ==
    /\ readers = <<>>
    /\ LET from == OnlyOf(journey.from)
           to == OnlyOf(journey.to)
           way == IF Simple THEN PairDirection(journey.line, from, to) ELSE NoWay
       IN  readers' = [way |-> way,
                       exists |-> HasTripBetween(journey.line, from, to),
                       listed |-> Listed(journey.line, journey.from, journey.to, journey.train, way)]
    /\ UNCHANGED journey

RidesSpec == RidesInit /\ [][ReadRides]_rides

-----------------------------------------------------------------------------
(* Properties *)

AllTimed == \A trip \in journey.line : \A k \in DOMAIN trip.calls : trip.calls[k].timed

\* What a trip offers between the ends, whatever the query makes of it.
RidesThrough(trip) ==
    \E i, j \in DOMAIN trip.calls : i < j /\ GetsOn(trip.calls[i], journey.from) /\ GetsOff(trip.calls[j], journey.to)

ListedOf(trip) == {r \in readers.listed : r[1] = trip}

\* The four readers of a journey between two places tell one story: a
\* journey the flow accepts has departures, the pass over the calls finds
\* the shortest ride of those the query lists, and the direction kept at a
\* loop's terminus leaves the sensor a ride of the fewest stops.  A train
\* between several stations is listed once, when it rides between the ends.
ReadersAgree ==
    /\ Simple /\ readers # <<>> /\ AllTimed =>
          LET from == OnlyOf(journey.from)
              to == OnlyOf(journey.to)
              all == Listed(journey.line, {from}, {to}, FALSE, NoWay)
              stops(r) == r[2][2] - r[2][1]
          IN  /\ readers.exists <=> all # {}
              /\ \A trip \in journey.line :
                    LET ride == ShortestRide(trip.calls, from, to)
                        its == {r \in all : r[1] = trip}
                    IN  IF ride = <<>> THEN its = {}
                        ELSE <<trip, ride>> \in its /\ \A r \in its : stops(<<trip, ride>>) <= stops(r)
              /\ readers.way # NoWay => \E r \in readers.listed : \A s \in all : stops(r) <= stops(s)
    /\ /\ journey.train /\ readers # <<>> /\ AllTimed
       /\ Cardinality(journey.from) > 1 /\ Cardinality(journey.to) > 1 /\ journey.from \cap journey.to = {}
       => \A trip \in journey.line : Cardinality(ListedOf(trip)) = IF RidesThrough(trip) THEN 1 ELSE 0

\* "every place of each end, each trip listed once, where the rider first
\* gets on and last gets off" (data/departures.py:212): a trip that rides
\* from an end to the other is listed.
TripIsListed ==
    readers # <<>> /\ ~journey.train /\ AllTimed /\ journey.from \cap journey.to = {} =>
        \A trip \in journey.line : RidesThrough(trip) => ListedOf(trip) # {}
=============================================================================
