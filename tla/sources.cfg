SPECIFICATION Spec
CONSTANTS
    Windows = {w1, w2}
    Adders = {w1}
    Removers = {w2}
    Journeys = {1, 2}
    Plain = {p1}
    Envelopes = {e1}
    Networks = {n1}
    Feeds = {0, 1}
    p1 = p1
    Held <- MCHeld
    MaxEdits = 2
    MaxFaults = 1
    Happens = {"add", "settings", "import", "remove", "delete", "fail"}
INVARIANTS TypeOK OneEntryPerSource
PROPERTIES NewSourceOwnsItsZip TakeOverKeeps SavesMerge EntryLeavesLast TakenOver
CHECK_DEADLOCK FALSE
