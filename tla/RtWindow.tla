------------------------------ MODULE RtWindow ------------------------------
(***************************************************************************)
(* The realtime window of one source: its feeds are read between the first *)
(* and the last passage of a service day and their margins, and past the   *)
(* close while the last reading announces a vehicle still under way.  The  *)
(* readers of the source share the gate's state and the cache of the feed; *)
(* both are lost at a restart.  Time is counted in ten minutes on the      *)
(* feed's own clock, in days shortened to Day of them.                     *)
(***************************************************************************)
EXTENDS Integers, Sequences, FiniteSetsExt

CONSTANTS
    Day,            \* the length of a day
    Services,       \* what may run: per service day, its first and last
                    \* passage, or Rest
    Delays,         \* how long after its day's last passage a vehicle may run
    WindowBudgets   \* how many restarts and readings that fail

Rest == <<>>
Never == -1

LEAD == 1
TRAIL == 2
EXTEND == 1
OVERTIME_CAP == 12

ASSUME DayAssumption == Day \in Nat \ {0} /\ Delays \subseteq Nat

\* A service day ends, its overtime included, before the midnight after the
\* next; and its last passage comes before that of the next day.
ASSUME ServicesAssumption ==
    \A s \in Services :
        /\ s \in Seq({Rest} \cup (Nat \X Nat))
        /\ \A d \in DOMAIN s : s[d] # Rest =>
              /\ s[d][1] <= s[d][2] /\ s[d][2] + TRAIL + OVERTIME_CAP < 2 * Day
              /\ d + 1 \in DOMAIN s /\ s[d + 1] # Rest => s[d][2] <= Day + s[d + 1][2]

ASSUME WindowBudgetsAssumption == WindowBudgets \subseteq [restarts : Nat, failures : Nat]

VARIABLES
    clock,      \* the moment
    days,       \* what runs on each service day
    delay,      \* how late its last vehicle is
    state,      \* _STATE of the source: paused, extended_until,
                \* read_after_close
    cache,      \* the last passage the feed's cache announces, or Never
    reading,    \* a reader let through is reading the feed
    checked,    \* the gate was asked in these ten minutes
    readAt,     \* when the feed was read last
    spare,      \* readings since the close that had nothing to follow
    mishaps     \* restarts and failures left, whether one failed, and how
                \* often the gate could not tell

window == <<clock, days, delay, state, cache, reading, checked, readAt, spare, mishaps>>

NoState == [paused |-> "unknown", extended |-> Never, readAfter |-> Never]

-----------------------------------------------------------------------------
(* The gate *)

Today == clock \div Day + 1

\* _window_for: what a service day keeps open; it may end the day after.
WindowFor(d) ==
    IF d \notin DOMAIN days \/ days[d] = Rest THEN {}
    ELSE {<<(d - 1) * Day + days[d][1] - LEAD, (d - 1) * Day + days[d][2] + TRAIL>>}

TodaysWindow == WindowFor(Today)

\* The gate tests yesterday's window besides today's.
Windows == WindowFor(Today - 1) \cup WindowFor(Today)

Open == \E w \in Windows : w[1] <= clock /\ clock <= w[2]
Closes == {w[2] : w \in {w \in Windows : w[2] < clock}}

\* cached_feed_has_future_stop
FutureStop == cache > clock

Reads(st) == [st EXCEPT !.paused = "no"]

ReadOnceUnnoted(st, close) == Reads(st)

\* One reading tells after a start, the cache empty; once a close.
ReadOnce(st, close) == [Reads(st) EXCEPT !.readAfter = close]

Asleep == [state EXCEPT !.paused = IF WindowFor(Today) # {} THEN "out_of_window"
                                                           ELSE "no_service_today"]

\* _after_close: the stretch while a vehicle is under way, its tail, the one
\* reading after a start, or the end of the budget.
AfterClose(close) ==
    LET cap == close + OVERTIME_CAP IN
    IF clock <= cap
    THEN IF FutureStop THEN [Reads(state) EXCEPT !.extended = Min({clock + EXTEND, cap})]
         ELSE IF state.extended # Never /\ clock <= state.extended THEN Reads(state)
         ELSE IF cache = Never /\ state.readAfter # close THEN ReadOnce(state, close)
         ELSE Asleep
    ELSE IF state.extended # Never /\ state.extended >= cap
         THEN [state EXCEPT !.paused = "overtime_cap"]
         ELSE Asleep

\* _gate, asked by a reader of the source; one let through reads the feed.
Gate ==
    /\ state' = IF Open THEN [Reads(state) EXCEPT !.extended = Never]
                ELSE IF Closes = {} THEN Asleep
                ELSE AfterClose(Max(Closes))
    /\ reading' = (reading \/ state'.paused = "no")
    /\ checked' = TRUE
    /\ spare' = IF Open THEN 0 ELSE spare
    /\ UNCHANGED <<clock, days, delay, cache, readAt, mishaps>>

\* _decide: a timetable that cannot be read leaves the realtime on.
GateUnsure ==
    /\ mishaps.failures > 0
    /\ mishaps' = [mishaps EXCEPT !.failures = @ - 1, !.met = TRUE, !.unsure = @ + 1]
    /\ state' = Reads(state)
    /\ reading' = TRUE /\ checked' = TRUE
    /\ spare' = IF Open THEN 0 ELSE spare
    /\ UNCHANGED <<clock, days, delay, cache, readAt>>

-----------------------------------------------------------------------------
(* The feed, the process and the clock *)

\* When the last vehicle of the days so far comes in.
LastIn == Max({0} \cup {(d - 1) * Day + days[d][2] + delay : d \in {d \in 1..Today : d \in DOMAIN days /\ days[d] # Rest}})

\* The feed announces every passage to come, the last of them included.
FeedRead ==
    /\ reading
    /\ reading' = FALSE
    /\ readAt' = clock
    /\ cache' = LastIn
    /\ spare' = IF Open \/ LastIn > clock \/ readAt = clock THEN spare ELSE spare + 1
    /\ UNCHANGED <<clock, days, delay, state, checked, mishaps>>

FeedFails ==
    /\ reading /\ mishaps.failures > 0
    /\ mishaps' = [mishaps EXCEPT !.failures = @ - 1, !.met = TRUE]
    /\ reading' = FALSE
    /\ UNCHANGED <<clock, days, delay, state, cache, checked, readAt, spare>>

\* A call of another source forgets a feed not read for ten minutes.
Forgotten ==
    /\ cache # Never /\ readAt + 1 < clock
    /\ cache' = Never
    /\ UNCHANGED <<clock, days, delay, state, reading, checked, readAt, spare, mishaps>>

Restart ==
    /\ mishaps.restarts > 0
    /\ mishaps' = [mishaps EXCEPT !.restarts = @ - 1]
    /\ state' = NoState /\ cache' = Never /\ reading' = FALSE
    /\ checked' = FALSE /\ spare' = 0
    /\ UNCHANGED <<clock, days, delay, readAt>>

\* A cycle of every reader comes within ten minutes, and its reading ends.
TenMinutes ==
    /\ checked /\ ~reading /\ clock < Len(days) * Day
    /\ clock' = clock + 1 /\ checked' = FALSE
    /\ UNCHANGED <<days, delay, state, cache, reading, readAt, spare, mishaps>>

WindowIdle ==
    /\ clock = 0 /\ state = NoState /\ cache = Never
    /\ reading = FALSE /\ checked = FALSE /\ readAt = Never /\ spare = 0

WindowInit ==
    /\ days \in Services /\ delay \in Delays
    /\ mishaps \in {[restarts |-> b.restarts, failures |-> b.failures, met |-> FALSE, unsure |-> 0] : b \in WindowBudgets}
    /\ WindowIdle

WindowNext == Gate \/ GateUnsure \/ FeedRead \/ FeedFails \/ Forgotten \/ Restart \/ TenMinutes

WindowSpec == WindowInit /\ [][WindowNext]_window

-----------------------------------------------------------------------------
(* Properties *)

\* A vehicle still out after its day's last passage is followed: the feed is
\* read every ten minutes until it is in or the budget is spent, over the
\* close, midnight, a forgotten cache and a restart, unless a reading failed.
LateIsFollowed ==
    [][clock' # clock /\ ~mishaps.met
         /\ (\E d \in 1..Today : d \in DOMAIN days /\ days[d] # Rest
                /\ LET last == (d - 1) * Day + days[d][2]
                   IN  last <= clock /\ clock < last + Min({delay, TRAIL + OVERTIME_CAP}))
       => readAt = clock]_window

\* Past the close with nothing left to follow, the feed is read no more than
\* the stretch's tail, once to make sure, and each time the timetable could not
\* tell: a host that sleeps is let sleep.
SpareReadings == spare <= 1 + EXTEND + mishaps.unsure
=============================================================================
