----------------------------- MODULE NightLooks -----------------------------
(***************************************************************************)
(* When a source's host is asked for news: at hours of the day picked from *)
(* the interval the user chose, gated by the last look when the interval   *)
(* is longer than a day, with one late look after a start or a change of   *)
(* options.                                                                *)
(* Time is counted in half hours of UTC, from a midnight before the clocks *)
(* change; a look is over within its half hour.                            *)
(***************************************************************************)
EXTENDS Integers, FiniteSets

CONSTANTS
    Intervals,      \* the intervals chosen, in hours
    Hours,          \* hours the source's own night slot may be at
    Shifts,         \* changes of the clocks: [at, by], in half hours
    Horizon,        \* the half hour the model ends at
    Downtimes,      \* half hours Home Assistant may be down for
    LookBudgets     \* how many stops, changes of options, probes that fail

ASSUME IntervalsAssumption == Intervals \subseteq 1..360
ASSUME HoursAssumption == Hours \subseteq 3..5
ASSUME ClocksAssumption == /\ \A s \in Shifts : s.at \in Nat /\ s.at >= 2 /\ s.by \in {-2, 0, 2}
                           /\ Downtimes \subseteq Nat

NoLook == -1

VARIABLES
    now, shift, hour, interval,
    up,         \* Home Assistant runs
    armed,      \* when the check was armed last
    catchUp,    \* when the late look is to be considered, or NoLook
    noted,      \* checked_at of the probe state, in memory
    sidecar,    \* checked_at of the zip's sidecar
    asked,      \* when the host was asked last
    stopped,    \* when Home Assistant went down last
    chances     \* of stops, changes and failures, those left

looks == <<now, shift, hour, interval, up, armed, catchUp, noted, sidecar,
           asked, stopped, chances>>

-----------------------------------------------------------------------------
(* The clock pattern *)

Smaller(a, b) == IF a < b THEN a ELSE b
Larger(a, b) == IF a > b THEN a ELSE b

\* Hours of the day, as half hours of UTC stand on the local clock.
LocalTime(t) == t + (IF t >= shift.at THEN shift.by ELSE 0)

\* check_hours, without the minute: the night slot, and passes through the
\* day spaced from it when the interval is shorter than a day.
CheckHoursFrom1(h, n) == IF n < 24 THEN {(h + k * n) % 24 : k \in 1..(23 \div n)} ELSE {h}

CheckHours(h, n) == IF n < 24 THEN {(h + k * n) % 24 : k \in 0..(23 \div n)} ELSE {h}

\* async_track_time_change at those hours of the local clock: one it leaves
\* out is not made up for.
AtHours(s, n) == s % 2 = 0 /\ (s \div 2) % 24 \in CheckHours(hour, n)
OnPattern(t) == AtHours(LocalTime(t), interval)

\* _look_again_at: twelve hours of slack keep the cadence in its slot.
LookAgainAt(last) == last + 2 * (interval - 12)

\* last_look: this run's, else the sidecar's.
LastLook == IF noted # NoLook THEN noted ELSE sidecar

\* _async_look_due: which nights count, for an interval longer than a day.
LookDue(t) == interval > 24 /\ LastLook # NoLook => t >= LookAgainAt(LastLook)

\* _catch_up: the late look is made when the last one is overdue.
Overdue(t) == LastLook = NoLook \/ t - LastLook > 2 * (interval + 1)

-----------------------------------------------------------------------------
(* The looks *)

\* _async_probe: an answer is kept past a restart, an error is not.
Asks(t) ==
    /\ asked' = t /\ noted' = t
    /\ \/ sidecar' = t /\ UNCHANGED chances
       \/ /\ chances.failures > 0
          /\ chances' = [chances EXCEPT !.failures = @ - 1]
          /\ UNCHANGED sidecar

\* async_check_source up to the probe, no rebuild holding the source's lock.
Checks(t) == IF LookDue(t) THEN Asks(t) ELSE UNCHANGED <<asked, noted, sidecar, chances>>

\* Half an hour goes by, and the timers of its end run.
Pass ==
    /\ now < Horizon /\ (up \/ \E d \in Downtimes : now - stopped < d)
    /\ now' = now + 1
    /\ IF up /\ (OnPattern(now') \/ (catchUp = now' /\ Overdue(now')))
       THEN Checks(now')
       ELSE UNCHANGED <<asked, noted, sidecar, chances>>
    /\ catchUp' = IF catchUp = now' THEN NoLook ELSE catchUp
    /\ UNCHANGED <<shift, hour, interval, up, armed, stopped>>

\* async_arm_source_check: the catch-up comes ten minutes after.
Arms == armed' = now /\ catchUp' = now + 1

Stop ==
    /\ up /\ chances.stops > 0
    /\ chances' = [chances EXCEPT !.stops = @ - 1]
    /\ up' = FALSE /\ stopped' = now
    /\ noted' = NoLook /\ catchUp' = NoLook
    /\ UNCHANGED <<now, shift, hour, interval, armed, sidecar, asked>>

Start ==
    /\ ~up /\ now - stopped \in Downtimes
    /\ up' = TRUE
    /\ Arms
    /\ UNCHANGED <<now, shift, hour, interval, noted, sidecar, asked, stopped, chances>>

\* async_rearm_source_check, on a change of the source's options.
Rearm(n) ==
    /\ up /\ n # interval /\ chances.changes > 0
    /\ chances' = [chances EXCEPT !.changes = @ - 1]
    /\ interval' = n
    /\ Arms
    /\ UNCHANGED <<now, shift, hour, up, noted, sidecar, asked, stopped>>

LooksIdle ==
    /\ now = 0 /\ up = TRUE /\ armed = 0 /\ catchUp = 1
    /\ noted = NoLook /\ sidecar = NoLook /\ asked = NoLook /\ stopped = NoLook

LooksInit ==
    /\ shift \in Shifts /\ hour \in Hours /\ interval \in Intervals
    /\ chances \in LookBudgets
    /\ LooksIdle

LooksNext == Pass \/ Stop \/ Start \/ \E n \in Intervals : Rearm(n)

LooksSpec == LooksInit /\ [][LooksNext]_looks

-----------------------------------------------------------------------------
(* Properties *)

\* The longest two looks may be apart while Home Assistant runs: half a day
\* more where a look out of its slot (a late one) is followed by the slack,
\* an hour more where the clocks go back, and one more wait for a slot where
\* they go forward over its hour.
Spacing(n) == IF n > 24 THEN n + 12 ELSE n
SlotLost(n) == \E s \in shift.at..shift.at + shift.by - 1 : AtHours(s, n)
Apart(n) == 2 * Spacing(n) + (IF shift.by < 0 THEN -shift.by
                              ELSE IF SlotLost(n) THEN 2 * Smaller(n, 24) - shift.by ELSE 0)

\* A source is not left unasked: while Home Assistant runs, its looks are no
\* further apart than the interval allows, over nights, clock changes,
\* failures and changes of options; over a stop, no more than an interval,
\* its catch-up's hour and the wait for the next slot.
LooksKept ==
    up /\ now > armed =>
        /\ now - Larger(armed, asked) <= Apart(interval)
        /\ now - asked <= 2 * (interval + 1) + Apart(Smaller(interval, 24))
=============================================================================
