--------------------------- MODULE MCJourneyFlow ---------------------------
(***************************************************************************)
(* A bus line, one whose ends do not say its way, and two train lines, one *)
(* of which rides one way only.                                            *)
(***************************************************************************)
EXTENDS JourneyFlow
CONSTANTS k1, k2
MCBus == {"b1", "c1"}
MCTrains == {"t1", "t2"}
AB == <<"A", "B">>
BA == <<"B", "A">>
MCRides == [b1 |-> {AB, BA}, c1 |-> {AB, BA}, t1 |-> {AB, BA}, t2 |-> {AB}]
Begin(loaded, callers, j, f, p, o) ==
    [loaded |-> loaded, callers |-> callers, journeys |-> j, faults |-> f, partial |-> p, others |-> o]
MCBegins == {Begin({}, Callers, 0, 0, 1, 0), Begin({"b1", "t1"}, Callers, 0, 0, 0, 1),
             Begin({"b1", "t1"}, {k1}, 1, 1, 0, 0), Begin({}, {k1}, 0, 1, 1, 0)}
MCTyped == {<<"mine">>}
=============================================================================
