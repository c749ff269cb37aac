----------------------------- MODULE AlertMatch -----------------------------
(***************************************************************************)
(* What an alert feed says of one journey: the alerts picked from the      *)
(* feed's indexes, the fields of each informed entity read together, the   *)
(* alerts of each end ranked, cut and told apart by their words, and the   *)
(* one whose sentence is shown.                                            *)
(* Ids are sequences of characters where one id may stand inside another:  *)
(* a trip cut before its agency, a line qualified before its number.       *)
(***************************************************************************)
EXTENDS Integers, Sequences, FiniteSetsExt, SequencesExt

CONSTANTS
    AlertFeeds,     \* what a host may publish: sequences of alerts, each
                    \* [entities, effect, words, periods]
    JourneyRides,   \* the journeys read: [line, agency, kind, way, head,
                    \* listed, origin, destination, between]
    Now,            \* the moment of the reading
    Leaves,         \* when the departure shown leaves
    ALERTS_KEPT     \* alerts published for an end

ASSUME KeptAssumption == ALERTS_KEPT \in Nat \ {0}
ASSUME AlertsAssumption ==
    \A f \in AlertFeeds : \A n \in DOMAIN f :
        /\ n \in Nat \ {0} /\ f[n].effect \in Nat
        /\ \A e \in f[n].entities : e.trip \in Seq(STRING)
ASSUME TripIdsAssumption ==
    \A r \in JourneyRides : {r.head} \cup r.listed \subseteq Seq(STRING)

Unsaid == "none"
NoId == <<>>
Digits == {"1", "2"}
Separator == ":"

VARIABLES feed, ride, said

alerts == <<feed, ride, said>>

-----------------------------------------------------------------------------
(* Ids *)

\* _same_trip: the id, or the id cut before the digit of its agency.
SameTrip(named, trip) ==
    /\ named # NoId /\ trip # NoId
    /\ named = trip \/ (IsStrictPrefix(named, trip) /\ trip[Len(named) + 1] \in Digits)

\* _same_route: the configured id, at the end of the one seen and after a
\* separator.
SameRoute(configured, seen) ==
    /\ configured # NoId /\ seen # NoId
    /\ configured = seen \/ (IsStrictSuffix(configured, seen) /\ seen[Len(seen) - Len(configured)] = Separator)

-----------------------------------------------------------------------------
(* One alert and the journey *)

Followed == {ride.head} \cup ride.listed
EndOf(stop) == IF stop \in ride.origin THEN "origin"
               ELSE IF stop \in ride.destination THEN "destination"
               ELSE IF stop \in ride.between THEN "journey" ELSE Unsaid
JourneyStops == ride.origin \cup ride.destination \cup ride.between

\* _about_something_else: an unknown fact of the journey judges nothing.
Another(named, its) == named # Unsaid /\ its # Unsaid /\ named # its
AboutSomethingElse(e) ==
    \/ e.route # NoId /\ ~SameRoute(ride.line, e.route)
    \/ Another(e.agency, ride.agency)
    \/ Another(e.kind, ride.kind)
    \/ Another(e.way, ride.way)

TripsNamed(e) == {trip \in Followed : SameTrip(e.trip, trip)}

\* _read_trip_entity: naming a trip, only the departure shown lets its stop
\* be one of the journey's ends.
StopIsRead(e) == ~AboutSomethingElse(e) /\ (e.trip = NoId \/ ride.head \in TripsNamed(e))

\* _read_stop_entity, of an entity whose stop is read.
NamesWholeLine(e) ==
    e.stop = Unsaid /\ (e.route # NoId \/ (e.trip = NoId /\ (e.agency # Unsaid \/ e.kind # Unsaid)))

\* _scope_of, over all the informed entities.
ScopeOf(entities) ==
    LET read == {e \in entities : StopIsRead(e)}
        told == {e \in entities : ~AboutSomethingElse(e) /\ TripsNamed(e) # {}}
    IN  [ends  |-> {EndOf(e.stop) : e \in {e \in read : e.stop # Unsaid}} \ {Unsaid},
         route |-> \E e \in read : NamesWholeLine(e),
         trips |-> UNION {TripsNamed(e) : e \in told},
         stops |-> {e.stop : e \in read \cup told} \cap JourneyStops]

Hits(scope) == scope.ends # {} \/ scope.route \/ scope.trips # {}

\* "later_only": about a later departure of the board, and nothing else.
LaterOnly(scope) ==
    scope.trips # {} /\ ride.head \notin scope.trips /\ scope.ends = {} /\ ~scope.route

Covers(p) == p.start <= Leaves /\ p.end >= Now

\* _alert_when
When(alert) ==
    IF alert.periods = {} \/ \E p \in alert.periods : Covers(p) THEN "now"
    ELSE IF \E p \in alert.periods : p.start > Leaves THEN "later" ELSE "over"

-----------------------------------------------------------------------------
(* The alerts of a feed *)

\* _prepared and _candidates: by a trip or its id cut, by a stop, by the
\* line where no stop is named, and the ones as wide as an operator.
CutsOf(trip) == {SubSeq(trip, 1, n) : n \in {n \in 1..Len(trip) : n = Len(trip) \/ trip[n + 1] \in Digits}}

Picked(e) ==
    \/ e.trip # NoId /\ \E trip \in Followed : e.trip \in CutsOf(trip)
    \/ e.stop # Unsaid /\ e.stop \in JourneyStops
    \/ e.stop = Unsaid /\ e.route # NoId /\ SameRoute(ride.line, e.route)
    \/ e.stop = Unsaid /\ e.route = NoId /\ (e.agency # Unsaid \/ e.kind # Unsaid)

Candidate(n) == \E e \in feed[n].entities : Picked(e)

\* The items of one end: what names it, or speaks for the whole journey.
SpeaksFor(end, scope) == end \in scope.ends \/ "journey" \in scope.ends \/ scope.route \/ scope.trips # {}

ItemsOf(end) ==
    {n \in DOMAIN feed : /\ Candidate(n) /\ When(feed[n]) # "over"
                         /\ LET scope == ScopeOf(feed[n].entities) IN Hits(scope) /\ SpeaksFor(end, scope)}

SameWords(m, n) ==
    /\ feed[m].words = feed[n].words /\ feed[m].effect = feed[n].effect
    /\ ScopeOf(feed[m].entities).stops = ScopeOf(feed[n].entities).stops

\* _to_come, later_only: in the list, never in the sentence.
ForLater(n) == When(feed[n]) = "later" \/ LaterOnly(ScopeOf(feed[n].entities))

\* _alert_severity, the feed's order between equals.
EffectFirst(m, n) == feed[m].effect < feed[n].effect \/ (feed[m].effect = feed[n].effect /\ m < n)

Severer(m, n) ==
    IF ForLater(m) = ForLater(n)
    THEN feed[m].effect < feed[n].effect \/ (feed[m].effect = feed[n].effect /\ m < n)
    ELSE ForLater(n)

\* _rank_alerts: the first of each set of words, and the worst of them.
Ranked(items) ==
    LET unique == {n \in items : \A m \in items : SameWords(m, n) => n <= m}
    IN  {n \in unique : Cardinality({m \in unique : Severer(m, n)}) < ALERTS_KEPT}

\* _publish_alerts: the sentence of one end.
Sentence(end) ==
    LET now == {n \in Ranked(ItemsOf(end)) : ~ForLater(n)}
    IN  IF now = {} THEN 0 ELSE CHOOSE n \in now : \A m \in now \ {n} : Severer(n, m)

-----------------------------------------------------------------------------

AlertsInit == feed \in AlertFeeds /\ ride \in JourneyRides /\ said = <<>>

\* journey_alerts
ReadAlerts ==
    /\ said = <<>>
    /\ said' = <<Sentence("origin"), Sentence("destination")>>
    /\ UNCHANGED <<feed, ride>>

AlertsSpec == AlertsInit /\ [][ReadAlerts]_alerts

-----------------------------------------------------------------------------
(* Properties *)

\* An alert about the ride ahead, read from every alert of the feed: in
\* force, and naming the end, a stop on the way, the line, or the train.
AboutThisRide(end, n) ==
    LET scope == ScopeOf(feed[n].entities) IN
    /\ When(feed[n]) = "now"
    /\ SpeaksFor(end, scope) /\ ~LaterOnly(scope)

\* "they take the worst of them instead of whichever the feed published last"
\* (domain/alerts.py:729): at each end the sentence is of the worst alert in
\* force about the ride ahead, whatever the indexes, the cut ids, the alerts
\* for later that fill the list, and there is one as soon as there is any.
WorstIsSaid ==
    said # <<>> =>
        \A end \in {"origin", "destination"} :
            LET shown == said[IF end = "origin" THEN 1 ELSE 2]
                about == {n \in DOMAIN feed : AboutThisRide(end, n)}
            IN  IF shown = 0 THEN about = {}
                ELSE shown \in about /\ \A n \in about : feed[shown].effect <= feed[n].effect
=============================================================================
