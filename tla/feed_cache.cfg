SPECIFICATION Spec
CONSTANTS
    Readers = {one, two}
    Feeds = {trips, alerts}
    Stamped = {trips}
    TTL = 2
    FailTTL = 1
    Keep = 6
    Lag = 1
    MaxAge = 4
    BeatMax = 9
    Beat = 3
    LastTick = 10
INVARIANTS TypeOK NoRepeat NotLeftBehind
PROPERTY Spared
CHECK_DEADLOCK FALSE
