SPECIFICATION Spec
CONSTANTS
    Parts = {"alerts"}
    Intervals = {5, 24, 48}
    Hours = {4}
    Shifts <- MCShifts
    Horizon = 160
    Downtimes = {1, 30}
    LookBudgets <- MCLookBudgets
    Day = 30
    Services <- MCServices
    Delays = {0, 3, 20}
    WindowBudgets <- MCWindowBudgets
    Journeys <- MCJourneys
    DayLength = 4
    Week = 2
    LIMIT = 4
    BOARD = 2
    HORIZON = 3
    Days = {0, 1, 2, 3, 4, 5, 6}
    Timetables <- MCTimetables
    Moments = {8, 9, 11, 13}
    Strikes <- MCStruck
    AlertFeeds <- MCSameWords
    JourneyRides <- MCJourneyRides
    Now = 2
    Leaves = 3
    ALERTS_KEPT = 2
    DayUnits = 24
    Times <- MCTimes
    Lingers = 6
    Qualified <- MCQualified
    TripFeeds <- MCTripFeeds
    Askings <- MCAskings
INVARIANTS
    WorstIsSaid
CHECK_DEADLOCK FALSE
