SPECIFICATION Spec
CONSTANTS
    Parts = {"looks", "window", "rides", "departures", "alerts", "trips"}
    Intervals = {7, 24, 48}
    Hours = {5}
    Shifts <- MCShifts
    Horizon = 160
    Downtimes = {1, 30}
    LookBudgets <- MCLookBudgets
    Day = 30
    Services <- MCServices
    Delays = {0, 5, 20}
    WindowBudgets <- MCWindowBudgets
    Journeys <- MCJourneys
    DayLength = 4
    Week = 2
    LIMIT = 4
    BOARD = 2
    HORIZON = 3
    Days = {0, 1, 2, 3, 4, 5, 6}
    Timetables <- MCTimetables
    Moments = {8, 9, 11, 13}
    Strikes <- MCStruck
    AlertFeeds <- MCAlertFeeds
    JourneyRides <- MCJourneyRides
    Now = 2
    Leaves = 3
    ALERTS_KEPT = 2
    DayUnits = 24
    Times <- MCTimes
    Lingers = 6
    Qualified <- MCQualified
    TripFeeds <- MCTripFeeds
    Askings <- MCAskings
INVARIANTS
    LooksKept
    SpareReadings
    ReadersAgree
    SoonestAreShown
    WorstIsSaid
    TimesAddUp
PROPERTIES
    LateIsFollowed
CHECK_DEADLOCK FALSE
