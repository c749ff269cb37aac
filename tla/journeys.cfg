SPECIFICATION FlowSpec
CONSTANTS
    Bus <- MCBus
    Trains <- MCTrains
    Rides <- MCRides
    Circular = {"c1"}
    Between = {"b1", "t1"}
    Typed <- MCTyped
    k1 = k1
    k2 = k2
    Callers = {k1, k2}
    BusyAt = {"agency", "destination_train"}
    MaxAlso = 1
    Begins <- MCBegins
INVARIANTS FlowTypeOK NamesDistinct
PROPERTIES PartialIsTold EntryOfOneJourney OnLinesLoaded ProgressLeft
CHECK_DEADLOCK FALSE
