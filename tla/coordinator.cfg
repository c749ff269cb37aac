SPECIFICATION FairSpec
CONSTANTS
    Journeys = {journey}
    LocalStops = {stops}
    Setups = {{journey}, {stops}}
    MaxEvents = 3
    Running = {1, 3}
    None = None
INVARIANTS
    TypeOK
    KnowsItsFile
    UsesItsSchedule
    DelaysOfThisBoard
PROPERTIES
    Settles
