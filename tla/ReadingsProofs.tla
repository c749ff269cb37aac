---------------------------- MODULE ReadingsProofs ----------------------------
(***************************************************************************)
(* What the parts of a reading keep for any input.  The realtime window of *)
(* a source: for any timetable, delay and number of restarts and failures  *)
(* a late vehicle is followed and few readings are made with no departure  *)
(* ahead.  The alerts of a journey: the sentence of each end is of the     *)
(* worst in force.  Its rides: for any trips of a line the readers of one  *)
(* question agree.  Its host: for any interval, hour and clock change a    *)
(* source is not left unasked.  Its board: for any timetable the soonest   *)
(* departures are shown.  Its trip updates: whatever their form, each      *)
(* departure told is its run's time and the delay said last.               *)
(***************************************************************************)
EXTENDS NightLooks, RtWindow, AlertMatch, RidePairs, NextDepartures, TripMatch, FiniteSetTheorems,
        FunctionTheorems, SequenceTheorems, WellFoundedInduction, TLAPS

USE DEF Never, LEAD, TRAIL, EXTEND, OVERTIME_CAP

----------------------------------------------------------------------------
(* Least and greatest numbers of a set *)

LEMMA LeastOf ==
    ASSUME NEW S, S \subseteq Nat, S # {}
    PROVE  \E m \in S : \A k \in S : m <= k
<1>1. PICK m \in S : \A k \in S : <<k, m>> \notin OpToRel(<, Nat)
  BY WFMin, NatLessThanWellFounded, Zenon
<1>2. \A k \in S : k \in Nat /\ m \in Nat /\ ~(k < m)
  <2>1. ASSUME NEW k \in S PROVE k \in Nat /\ m \in Nat /\ ~(k < m)
    <3>1. k \in Nat /\ m \in Nat
      OBVIOUS
    <3>2. <<k, m>> \in Nat \X Nat
      BY <3>1
    <3>3. k < m => <<k, m>> \in OpToRel(<, Nat)
      BY <3>2 DEF OpToRel
    <3>4. QED
      BY <1>1, <3>1, <3>3
  <2>2. QED
    BY <2>1
<1>3. QED
  BY <1>2

LEMMA GreatestOf ==
    ASSUME NEW S, NEW top \in Nat, S \subseteq 0..top, S # {}
    PROVE  /\ \E m \in S : \A k \in S : m >= k
           /\ Max(S) \in S /\ \A k \in S : Max(S) >= k
<1> DEFINE below == {top - k : k \in S}
<1>1. below \subseteq Nat /\ below # {}
  <2>1. \A k \in S : top - k \in Nat
    OBVIOUS
  <2> HIDE DEF below
  <2>2. QED
    BY <2>1, Zenon DEF below
<1>2. PICK b \in below : \A k \in below : b <= k
  BY <1>1, LeastOf
<1>3. PICK m \in S : b = top - m
  OBVIOUS
<1>4. \A k \in S : m >= k
  <2>1. ASSUME NEW k \in S PROVE m >= k
    <3>1. top - k \in below
      OBVIOUS
    <3>2. b <= top - k
      BY <1>2, <3>1
    <3>3. QED
      BY <1>3, <3>2
  <2>2. QED
    BY <2>1
<1>5. QED
  BY <1>4 DEF Max

LEMMA MinOfTwo == \A a, b \in Nat : Min({a, b}) = IF a <= b THEN a ELSE b
<1>1. ASSUME NEW a \in Nat, NEW b \in Nat PROVE Min({a, b}) = IF a <= b THEN a ELSE b
  <2>1. \E m \in {a, b} : \A k \in {a, b} : m <= k
    OBVIOUS
  <2>2. Min({a, b}) \in {a, b} /\ \A k \in {a, b} : Min({a, b}) <= k
    BY <2>1 DEF Min
  <2>3. QED
    BY <2>2
<1>2. QED
  BY <1>1

----------------------------------------------------------------------------
(* The days of a timetable, at any moment *)

DayOf(t) == t \div Day + 1
StartOf(d) == (d - 1) * Day
Runs(d) == d \in DOMAIN days /\ days[d] # Rest
Opens(d) == StartOf(d) + days[d][1] - LEAD
LastOf(d) == StartOf(d) + days[d][2]
CloseOf(d) == LastOf(d) + TRAIL

DaysAt(t) == {d \in {DayOf(t) - 1, DayOf(t)} : Runs(d)}
OpenAt(t) == \E d \in DaysAt(t) : Opens(d) <= t /\ t <= CloseOf(d)
ClosesAt(t) == {CloseOf(d) : d \in {d \in DaysAt(t) : CloseOf(d) < t}}
PendingAt(t) == \E d \in DaysAt(t) : t < Opens(d)
LastInAt(t) == Max({0} \cup {LastOf(d) + delay : d \in {d \in 1..DayOf(t) : Runs(d)}})

\* The constants' assumptions, of what runs in this behaviour.
Timetable ==
    /\ delay \in Nat
    /\ \A d : Runs(d) =>
          /\ d \in Nat \ {0} /\ days[d][1] \in Nat /\ days[d][2] \in Nat
          /\ days[d][1] <= days[d][2] /\ days[d][2] + TRAIL + OVERTIME_CAP < 2 * Day
          /\ Runs(d + 1) => days[d][2] <= Day + days[d + 1][2]

LEMMA TimetableOf == ASSUME days \in Services, delay \in Delays PROVE Timetable
<1>1. days \in Seq({Rest} \cup (Nat \X Nat)) /\ delay \in Nat
  BY ServicesAssumption, DayAssumption
<1>2. ASSUME NEW d, Runs(d)
      PROVE  /\ d \in Nat \ {0} /\ days[d][1] \in Nat /\ days[d][2] \in Nat
             /\ days[d][1] <= days[d][2] /\ days[d][2] + TRAIL + OVERTIME_CAP < 2 * Day
             /\ Runs(d + 1) => days[d][2] <= Day + days[d + 1][2]
  <2>1. d \in 1..Len(days) /\ days[d] \in Nat \X Nat
    BY <1>1, <1>2 DEF Runs
  <2>2. d \in DOMAIN days /\ days[d] # Rest
    BY <1>2 DEF Runs
  <2>3. /\ days[d][1] <= days[d][2] /\ days[d][2] + TRAIL + OVERTIME_CAP < 2 * Day
        /\ d + 1 \in DOMAIN days /\ days[d + 1] # Rest => days[d][2] <= Day + days[d + 1][2]
    BY <2>2, ServicesAssumption
  <2>4. QED
    BY <2>1, <2>3 DEF Runs
<1>3. QED
  BY <1>1, <1>2 DEF Timetable

LEMMA DayIs ==
    ASSUME NEW t \in Nat
    PROVE  /\ DayOf(t) \in Nat \ {0} /\ StartOf(DayOf(t)) <= t /\ t < StartOf(DayOf(t)) + Day
           /\ StartOf(DayOf(t)) \in Nat
<1>1. Day \in Nat /\ Day > 0
  BY DayAssumption
<1>2. PICK q \in Nat : q = t \div Day
  BY <1>1
<1>3. q * Day <= t /\ t < q * Day + Day /\ q * Day \in Nat
  BY <1>1, <1>2
<1>4. QED
  BY <1>2, <1>3 DEF DayOf, StartOf

LEMMA Starts ==
    ASSUME NEW d \in Nat \ {0}, NEW e \in Nat \ {0}
    PROVE  /\ StartOf(d) \in Nat /\ StartOf(d + 1) = StartOf(d) + Day
           /\ d < e => StartOf(d) + Day <= StartOf(e)
<1>1. Day \in Nat /\ Day > 0
  BY DayAssumption
<1>2. StartOf(d) \in Nat /\ StartOf(d + 1) = StartOf(d) + Day
  BY <1>1 DEF StartOf
<1>3. ASSUME d < e PROVE StartOf(d) + Day <= StartOf(e)
  <2>1. PICK k \in Nat : e = d + 1 + k
    BY <1>3
  <2>2. StartOf(e) = (d - 1) * Day + Day + k * Day /\ k * Day >= 0
    BY <1>1, <2>1 DEF StartOf
  <2>3. QED
    BY <1>1, <2>2 DEF StartOf
<1>4. QED
  BY <1>2, <1>3

\* The next moment is of the same day, or the first of the next.
LEMMA NextDay ==
    ASSUME NEW t \in Nat
    PROVE  \/ DayOf(t + 1) = DayOf(t)
           \/ DayOf(t + 1) = DayOf(t) + 1 /\ t + 1 = StartOf(DayOf(t) + 1)
<1> DEFINE d == DayOf(t)
           e == DayOf(t + 1)
<1>1. /\ d \in Nat \ {0} /\ e \in Nat \ {0}
      /\ StartOf(d) <= t /\ t < StartOf(d) + Day /\ StartOf(e) <= t + 1 /\ t + 1 < StartOf(e) + Day
  BY DayIs
<1> HIDE DEF d, e
<1>2. Day \in Nat /\ StartOf(d) \in Nat /\ StartOf(e) \in Nat /\ StartOf(d + 1) = StartOf(d) + Day
  BY <1>1, Starts, DayAssumption
<1>3. ~(e < d)
  <2>1. e < d => StartOf(e) + Day <= StartOf(d)
    BY <1>1, Starts
  <2>2. QED
    BY <1>1, <1>2, <2>1
<1>4. ~(d + 1 < e)
  <2>1. d + 1 < e => StartOf(d + 1) + Day <= StartOf(e)
    BY <1>1, Starts
  <2>2. QED
    BY <1>1, <1>2, <2>1, DayAssumption
<1>5. e = d + 1 => t + 1 = StartOf(d + 1)
  BY <1>1, <1>2
<1>6. QED
  BY <1>1, <1>3, <1>4, <1>5 DEF d, e
\* What a day that runs opens and closes, within its two days.
LEMMA DayRuns ==
    ASSUME Timetable, NEW d, Runs(d)
    PROVE  /\ d \in Nat \ {0} /\ StartOf(d) \in Nat /\ LastOf(d) \in Nat /\ CloseOf(d) \in Nat
           /\ Opens(d) \in Int /\ StartOf(d) - LEAD <= Opens(d) /\ Opens(d) < LastOf(d)
           /\ StartOf(d) <= LastOf(d) /\ LastOf(d) + TRAIL = CloseOf(d)
           /\ CloseOf(d) + OVERTIME_CAP < StartOf(d) + 2 * Day
           /\ Runs(d + 1) => CloseOf(d) <= CloseOf(d + 1)
<1>1. /\ d \in Nat \ {0} /\ days[d][1] \in Nat /\ days[d][2] \in Nat
      /\ days[d][1] <= days[d][2] /\ days[d][2] + TRAIL + OVERTIME_CAP < 2 * Day
      /\ Runs(d + 1) => days[d][2] <= Day + days[d + 1][2]
  BY DEF Timetable
<1>2. StartOf(d) \in Nat /\ StartOf(d + 1) = StartOf(d) + Day /\ Day \in Nat
  BY <1>1, Starts, DayAssumption
<1>3. Runs(d + 1) => days[d + 1][2] \in Nat
  BY DEF Timetable
<1>4. QED
  BY <1>1, <1>2, <1>3 DEF Opens, LastOf, CloseOf

\* The gate's own words for it.
LEMMA GateIs ==
    /\ Today = DayOf(clock)
    /\ Open <=> OpenAt(clock)
    /\ Closes = ClosesAt(clock)
    /\ LastIn = LastInAt(clock)
<1>1. Today = DayOf(clock)
  BY DEF Today, DayOf
<1>2. Windows = {<<Opens(d), CloseOf(d)>> : d \in DaysAt(clock)}
  <2>1. \A d : WindowFor(d) = IF Runs(d) THEN {<<Opens(d), CloseOf(d)>>} ELSE {}
    BY DEF WindowFor, Runs, Opens, CloseOf, LastOf, StartOf
  <2>2. QED
    BY <1>1, <2>1 DEF Windows, DaysAt
<1> DEFINE W(d) == <<Opens(d), CloseOf(d)>>
<1>0. /\ \A d \in DaysAt(clock) : W(d) \in Windows /\ W(d)[1] = Opens(d) /\ W(d)[2] = CloseOf(d)
      /\ \A w \in Windows : \E d \in DaysAt(clock) : w = W(d)
  BY <1>2
<1> HIDE DEF W
<1>3. Open <=> OpenAt(clock)
  BY <1>0 DEF Open, OpenAt
<1>4. Closes = ClosesAt(clock)
  <2>1. \A c : c \in Closes <=> \E w \in Windows : w[2] < clock /\ c = w[2]
    BY Zenon DEF Closes
  <2>2. \A c : c \in ClosesAt(clock) <=> \E d \in DaysAt(clock) : CloseOf(d) < clock /\ c = CloseOf(d)
    BY Zenon DEF ClosesAt
  <2>3. \A c : c \in Closes <=> c \in ClosesAt(clock)
    BY <1>0, <2>1, <2>2
  <2>4. QED
    BY <2>3, Zenon
<1>5. LastIn = LastInAt(clock)
  BY <1>1 DEF LastIn, LastInAt, Runs, LastOf, StartOf
<1>6. QED
  BY <1>1, <1>3, <1>4, <1>5

\* The last close past is one of yesterday's and today's.
LEMMA LastClose ==
    ASSUME Timetable, NEW t \in Nat, ClosesAt(t) # {}
    PROVE  /\ Max(ClosesAt(t)) \in ClosesAt(t)
           /\ \A c \in ClosesAt(t) : c \in Nat /\ c < t /\ Max(ClosesAt(t)) >= c
<1>1. \A c \in ClosesAt(t) : c \in Nat /\ c < t
  BY DayRuns DEF ClosesAt, DaysAt
<1>2. ClosesAt(t) \subseteq 0..t
  BY <1>1
<1>3. QED
  BY <1>1, <1>2, GreatestOf

\* When the last vehicle of the days so far comes in.
LEMMA LastInIs ==
    ASSUME Timetable, NEW t \in Nat
    PROVE  /\ LastInAt(t) \in Nat
           /\ \A d \in 1..DayOf(t) : Runs(d) => LastOf(d) + delay <= LastInAt(t)
           /\ LastInAt(t) = 0 \/ \E d \in 1..DayOf(t) : Runs(d) /\ LastInAt(t) = LastOf(d) + delay
<1> DEFINE S == {0} \cup {LastOf(d) + delay : d \in {d \in 1..DayOf(t) : Runs(d)}}
           top == StartOf(DayOf(t)) + 2 * Day + delay
<1>1. DayOf(t) \in Nat \ {0} /\ StartOf(DayOf(t)) \in Nat /\ Day \in Nat /\ delay \in Nat
  BY DayIs, DayAssumption DEF Timetable
<1>2. top \in Nat
  BY <1>1
<1>3. \A d \in 1..DayOf(t) : Runs(d) => LastOf(d) + delay \in 0..top
  <2>1. ASSUME NEW d \in 1..DayOf(t), Runs(d) PROVE LastOf(d) + delay \in 0..top
    <3>1. /\ d \in Nat \ {0} /\ StartOf(d) \in Nat /\ LastOf(d) \in Nat
          /\ LastOf(d) < StartOf(d) + 2 * Day
      BY <1>1, <2>1, DayRuns
    <3>2. StartOf(d) <= StartOf(DayOf(t))
      BY <1>1, <2>1, Starts
    <3>3. QED
      BY <1>1, <3>1, <3>2
  <2>2. QED
    BY <2>1
<1> HIDE DEF top
<1>4. S \subseteq 0..top /\ S # {}
  BY <1>2, <1>3
<1>5. Max(S) \in S /\ \A k \in S : Max(S) >= k
  BY <1>2, <1>4, GreatestOf
<1>6. LastInAt(t) = Max(S)
  BY DEF LastInAt
<1>7. LastInAt(t) \in Nat
  BY <1>2, <1>4, <1>5, <1>6
<1>8. \A d \in 1..DayOf(t) : Runs(d) => LastOf(d) + delay <= LastInAt(t)
  <2>1. \A d \in 1..DayOf(t) : Runs(d) => LastOf(d) + delay \in S
    OBVIOUS
  <2>2. \A d \in 1..DayOf(t) : Runs(d) => LastOf(d) + delay \in Nat
    BY <1>2, <1>3
  <2> HIDE DEF S
  <2>3. QED
    BY <1>5, <1>6, <1>7, <2>1, <2>2
<1>9. QED
  <2>1. LastInAt(t) \in S
    BY <1>5, <1>6
  <2>2. QED
    BY <1>7, <1>8, <2>1, Zenon
----------------------------------------------------------------------------
(* Ten minutes later *)

\* A day counts until its overtime is over, and from its own midnight.
LEMMA DaysStep ==
    ASSUME Timetable, NEW t \in Nat
    PROVE  /\ \A d \in DaysAt(t) : t < CloseOf(d) + OVERTIME_CAP => d \in DaysAt(t + 1)
           /\ \A d \in DaysAt(t + 1) : d \in DaysAt(t) \/ StartOf(d) = t + 1
<1> DEFINE T == DayOf(t)
           U == DayOf(t + 1)
<1>1. T \in Nat \ {0} /\ (U = T \/ (U = T + 1 /\ t + 1 = StartOf(T + 1)))
  BY DayIs, NextDay
<1>2. /\ \A d : d \in DaysAt(t) <=> (d = T - 1 \/ d = T) /\ Runs(d)
      /\ \A d : d \in DaysAt(t + 1) <=> (d = U - 1 \/ d = U) /\ Runs(d)
  BY DEF DaysAt
<1> HIDE DEF T, U
<1>3. ASSUME NEW d \in DaysAt(t), t < CloseOf(d) + OVERTIME_CAP PROVE d \in DaysAt(t + 1)
  <2>1. CASE U = T
    BY <1>2, <1>3, <2>1
  <2>2. CASE U = T + 1 /\ t + 1 = StartOf(T + 1)
    <3>1. /\ d \in Nat \ {0} /\ StartOf(d) \in Nat /\ CloseOf(d) \in Nat
          /\ CloseOf(d) + OVERTIME_CAP < StartOf(d) + 2 * Day
      BY <1>2, <1>3, DayRuns
    <3>2. d = T - 1 => StartOf(T + 1) = StartOf(d) + Day + Day
      <4>1. StartOf(d + 1) = StartOf(d) + Day /\ StartOf((d + 1) + 1) = StartOf(d + 1) + Day
        BY <3>1, Starts
      <4>2. d = T - 1 => (d + 1) + 1 = T + 1
        BY <1>1
      <4>3. QED
        BY <4>1, <4>2
    <3>3. d # T - 1
      BY <1>3, <2>2, <3>1, <3>2, DayAssumption
    <3>4. QED
      BY <1>1, <1>2, <1>3, <2>2, <3>3
  <2>3. QED
    BY <1>1, <2>1, <2>2
<1>4. ASSUME NEW d \in DaysAt(t + 1) PROVE d \in DaysAt(t) \/ StartOf(d) = t + 1
  BY <1>1, <1>2, <1>4
<1>5. QED
  BY <1>3, <1>4

\* No window comes up unseen.
LEMMA StillPending ==
    ASSUME Timetable, NEW t \in Nat, PendingAt(t), ~OpenAt(t + 1)
    PROVE  PendingAt(t + 1)
<1>1. PICK d \in DaysAt(t) : t < Opens(d)
  BY DEF PendingAt
<1>2. Opens(d) \in Int /\ CloseOf(d) \in Nat /\ Opens(d) < CloseOf(d)
  BY <1>1, DayRuns DEF DaysAt
<1>3. d \in DaysAt(t + 1)
  BY <1>1, <1>2, DaysStep
<1>4. QED
  BY <1>1, <1>2, <1>3 DEF PendingAt, OpenAt

LEMMA PendingIn == ASSUME Timetable, NEW t \in Nat, PendingAt(t) PROVE t < LastInAt(t)
<1>1. PICK d \in DaysAt(t) : t < Opens(d)
  BY DEF PendingAt
<1>2. /\ Runs(d) /\ d \in 1..DayOf(t) /\ Opens(d) \in Int /\ LastOf(d) \in Nat
      /\ Opens(d) < LastOf(d) /\ delay \in Nat
  BY <1>1, DayRuns, DayIs DEF DaysAt, Timetable
<1>3. LastOf(d) + delay <= LastInAt(t) /\ LastInAt(t) \in Nat
  BY <1>2, LastInIs
<1>4. QED
  BY <1>1, <1>2, <1>3

\* The close that counts is the same until a window opens.
LEMMA SameClose ==
    ASSUME Timetable, NEW t \in Nat, ~OpenAt(t), ~OpenAt(t + 1), ClosesAt(t + 1) # {}
    PROVE  ClosesAt(t) # {} /\ Max(ClosesAt(t + 1)) = Max(ClosesAt(t))
<1> DEFINE b == Max(ClosesAt(t + 1))
           a == Max(ClosesAt(t))
<1>1. /\ b \in ClosesAt(t + 1)
      /\ \A c \in ClosesAt(t + 1) : c \in Nat /\ c < t + 1 /\ b >= c
  BY LastClose
<1>2. PICK e \in DaysAt(t + 1) : b = CloseOf(e) /\ CloseOf(e) < t + 1
  BY <1>1 DEF ClosesAt
<1>3. /\ Runs(e) /\ e \in Nat \ {0} /\ StartOf(e) \in Nat /\ CloseOf(e) \in Nat /\ Opens(e) \in Int
      /\ StartOf(e) <= CloseOf(e) /\ Opens(e) <= CloseOf(e)
      /\ StartOf(e) + TRAIL <= CloseOf(e)
  BY <1>2, DayRuns DEF DaysAt
<1>4. e \in DaysAt(t)
  BY <1>2, <1>3, DaysStep
<1>5. CloseOf(e) < t
  BY <1>2, <1>3, <1>4 DEF OpenAt
<1>6. b \in ClosesAt(t)
  BY <1>2, <1>4, <1>5 DEF ClosesAt
<1>7. a \in ClosesAt(t) /\ \A c \in ClosesAt(t) : c \in Nat /\ c < t /\ a >= c
  BY <1>6, LastClose
<1>8. PICK f \in DaysAt(t) : a = CloseOf(f) /\ CloseOf(f) < t
  BY <1>7 DEF ClosesAt
<1>9. b >= a
  <2>1. CASE f \in DaysAt(t + 1)
    <3>1. CloseOf(f) < t + 1
      BY <1>7, <1>8
    <3>2. CloseOf(f) \in ClosesAt(t + 1)
      BY <2>1, <3>1, Zenon DEF ClosesAt
    <3>3. QED
      BY <1>1, <1>8, <3>2
  <2>2. CASE f \notin DaysAt(t + 1)
    <3>1. Runs(f) /\ f \in Nat /\ (f = DayOf(t) - 1 \/ f = DayOf(t))
      BY <1>8, DayRuns DEF DaysAt
    <3>2. /\ e = DayOf(t) - 1 \/ e = DayOf(t)
          /\ e = DayOf(t + 1) - 1 \/ e = DayOf(t + 1)
          /\ f # DayOf(t + 1) - 1 /\ f # DayOf(t + 1)
      BY <1>2, <1>4, <2>2, <3>1 DEF DaysAt
    <3>3. e = f + 1
      BY <3>1, <3>2, NextDay, DayIs
    <3>4. QED
      BY <1>2, <1>3, <1>8, <3>1, <3>3, DayRuns
  <2>3. QED
    BY <2>1, <2>2
<1>10. QED
  BY <1>1, <1>6, <1>7, <1>9

\* A new day's last vehicle counts when its window is ahead, or opens.
LEMMA SameLastIn ==
    ASSUME Timetable, NEW t \in Nat, ~OpenAt(t + 1), ~PendingAt(t + 1)
    PROVE  LastInAt(t + 1) = LastInAt(t)
<1>1. DayOf(t) \in Nat
  BY DayIs
<1>2. CASE DayOf(t + 1) = DayOf(t)
  BY <1>2 DEF LastInAt
<1>3. CASE DayOf(t + 1) = DayOf(t) + 1 /\ t + 1 = StartOf(DayOf(t) + 1)
  <2> DEFINE d == DayOf(t) + 1
  <2>1. ASSUME Runs(d) PROVE FALSE
    <3>1. d \in DaysAt(t + 1)
      BY <1>3, <2>1 DEF DaysAt
    <3>2. /\ Opens(d) \in Int /\ CloseOf(d) \in Nat /\ LastOf(d) \in Nat /\ StartOf(d) \in Nat
          /\ StartOf(d) <= LastOf(d) /\ LastOf(d) + TRAIL = CloseOf(d)
      BY <2>1, DayRuns
    <3>3. Opens(d) <= t + 1 /\ t + 1 <= CloseOf(d)
      <4>1. ~(t + 1 < Opens(d))
        BY <3>1 DEF PendingAt
      <4>2. QED
        BY <1>3, <3>2, <4>1
    <3>4. QED
      BY <3>1, <3>3 DEF OpenAt
  <2>2. {e \in 1..DayOf(t + 1) : Runs(e)} = {e \in 1..DayOf(t) : Runs(e)}
    <3>1. \A e : e \in 1..DayOf(t + 1) <=> e \in 1..DayOf(t) \/ e = d
      BY <1>1, <1>3
    <3> HIDE DEF d
    <3>2. QED
      BY <2>1, <3>1
  <2>3. QED
    BY <2>2 DEF LastInAt
<1>4. QED
  BY <1>2, <1>3, NextDay

LEMMA LastInGrows == ASSUME Timetable, NEW t \in Nat PROVE LastInAt(t) <= LastInAt(t + 1)
<1>1. DayOf(t) \in Nat /\ DayOf(t + 1) \in Nat /\ DayOf(t) <= DayOf(t + 1)
  BY DayIs, NextDay
<1>2. LastInAt(t) \in Nat /\ LastInAt(t + 1) \in Nat
  BY LastInIs
<1>3. \A d \in 1..DayOf(t + 1) : Runs(d) => LastOf(d) + delay <= LastInAt(t + 1)
  BY LastInIs
<1>4. \A d \in 1..DayOf(t) : d \in 1..DayOf(t + 1)
  BY <1>1
<1>5. LastInAt(t) = 0 \/ \E d \in 1..DayOf(t) : Runs(d) /\ LastInAt(t) = LastOf(d) + delay
  BY LastInIs
<1>6. QED
  BY <1>2, <1>3, <1>4, <1>5

----------------------------------------------------------------------------
(* A vehicle still out *)

LateOf(d, t) ==
    /\ d \in 1..DayOf(t) /\ Runs(d)
    /\ LastOf(d) <= t /\ t < LastOf(d) + Min({delay, TRAIL + OVERTIME_CAP})

LEMMA LateIs ==
    ASSUME Timetable, NEW t \in Nat, NEW d, LateOf(d, t)
    PROVE  /\ d \in DaysAt(t) /\ t < CloseOf(d) + OVERTIME_CAP
           /\ t < LastOf(d) + delay /\ t < LastInAt(t)
<1>1. /\ d \in Nat \ {0} /\ StartOf(d) \in Nat /\ LastOf(d) \in Nat /\ LastOf(d) + TRAIL = CloseOf(d)
      /\ CloseOf(d) + OVERTIME_CAP < StartOf(d) + 2 * Day
  BY DayRuns DEF LateOf
<1>2. t < CloseOf(d) + OVERTIME_CAP /\ t < LastOf(d) + delay
  <2>1. delay \in Nat /\ TRAIL + OVERTIME_CAP \in Nat
    BY DEF Timetable
  <2>2. Min({delay, TRAIL + OVERTIME_CAP}) = IF delay <= TRAIL + OVERTIME_CAP THEN delay ELSE TRAIL + OVERTIME_CAP
    BY <2>1, MinOfTwo
  <2>3. QED
    BY <1>1, <2>1, <2>2 DEF LateOf
<1>3. d \in DaysAt(t)
  <2> DEFINE T == DayOf(t)
  <2>1. T \in Nat \ {0} /\ StartOf(T) <= t /\ StartOf(T) \in Nat /\ d <= T
    BY DayIs DEF LateOf
  <2>2. ASSUME d < T - 1 PROVE FALSE
    <3>1. d + 1 \in Nat \ {0} /\ d + 1 < T
      BY <1>1, <2>1, <2>2
    <3>2. StartOf(d + 1) = StartOf(d) + Day /\ StartOf(d + 1) + Day <= StartOf(T)
      BY <1>1, <2>1, <3>1, Starts
    <3>3. QED
      BY <1>1, <1>2, <2>1, <3>2, DayAssumption
  <2>3. QED
    BY <1>1, <2>1, <2>2 DEF LateOf, DaysAt
<1>4. t < LastInAt(t)
  <2>1. LastOf(d) + delay <= LastInAt(t) /\ LastInAt(t) \in Nat /\ delay \in Nat
    BY LastInIs DEF LateOf, Timetable
  <2>2. QED
    BY <1>1, <1>2, <2>1
<1>5. QED
  BY <1>2, <1>3, <1>4

\* Out past the close, it was out ten minutes before.
LEMMA LateBefore ==
    ASSUME Timetable, NEW t \in Nat, NEW d, LateOf(d, t), ~OpenAt(t)
    PROVE  /\ t - 1 \in Nat /\ LateOf(d, t - 1)
           /\ CloseOf(d) \in ClosesAt(t) /\ CloseOf(d) <= t - 1
<1>1. /\ d \in Nat \ {0} /\ StartOf(d) \in Nat /\ LastOf(d) \in Nat /\ LastOf(d) + TRAIL = CloseOf(d)
      /\ Opens(d) \in Int /\ Opens(d) < LastOf(d) /\ StartOf(d) <= LastOf(d)
  BY DayRuns DEF LateOf
<1>2. d \in DaysAt(t) /\ LastOf(d) <= t
  BY LateIs DEF LateOf
<1>3. CloseOf(d) < t
  BY <1>1, <1>2 DEF OpenAt
<1>4. t - 1 \in Nat /\ (t - 1) + 1 = t
  BY <1>1, <1>3
<1>5. d \in 1..DayOf(t - 1)
  <2>1. /\ DayOf(t) = DayOf(t - 1) \/ (DayOf(t) = DayOf(t - 1) + 1 /\ t = StartOf(DayOf(t - 1) + 1))
        /\ DayOf(t - 1) \in Nat /\ d \in 1..DayOf(t)
    BY <1>4, NextDay, DayIs DEF LateOf
  <2>2. QED
    BY <1>1, <1>3, <2>1
<1>6. t < LastOf(d) + Min({delay, TRAIL + OVERTIME_CAP}) /\ Min({delay, TRAIL + OVERTIME_CAP}) \in Nat
  <2>1. delay \in Nat /\ TRAIL + OVERTIME_CAP \in Nat
    BY DEF Timetable
  <2>2. QED
    BY <2>1, MinOfTwo DEF LateOf
<1>7. QED
  BY <1>1, <1>2, <1>3, <1>4, <1>5, <1>6 DEF LateOf, ClosesAt
----------------------------------------------------------------------------
(* The inductive invariant *)

TimesOrNever == Nat \cup {Never}
Verdicts == {"unknown", "no", "out_of_window", "no_service_today", "overtime_cap"}

MishapType == [restarts : Nat, failures : Nat, met : BOOLEAN, unsure : Nat]

WindowType ==
    /\ days \in Services /\ delay \in Delays /\ clock \in Nat
    /\ state \in [paused : Verdicts, extended : TimesOrNever, readAfter : TimesOrNever]
    /\ cache \in TimesOrNever /\ readAt \in TimesOrNever
    /\ reading \in BOOLEAN /\ checked \in BOOLEAN /\ spare \in Nat
    /\ mishaps \in MishapType

\* The one reading after the close was made, and the tail of the last stretch.
NotedAt(t) == ClosesAt(t) = {} \/ state.readAfter = Max(ClosesAt(t))
TailSpent == clock > LastInAt(clock) \/ (clock = LastInAt(clock) /\ readAt = clock)
One(b) == IF b THEN 1 ELSE 0

\* What the cache announces, and a stretch lasts to, the host announced.
Announced == cache <= LastInAt(clock) /\ state.extended <= LastInAt(clock)

\* The readings to spare are those allowed: a window that opens allows them
\* anew, and a day whose window is ahead leaves none unfollowed.
SpareInv ==
    /\ OpenAt(clock) /\ checked => spare = 0
    /\ spare <= 2 + mishaps.unsure
    /\ ~OpenAt(clock) /\ ~PendingAt(clock) =>
          spare <= mishaps.unsure + One(TailSpent) + One(NotedAt(clock))
    /\ reading /\ ~OpenAt(clock) /\ LastInAt(clock) <= clock /\ readAt # clock =>
          spare <= mishaps.unsure + One(NotedAt(clock))

\* The cache is what was read at readAt, or was lost since.
CacheInv ==
    /\ state.readAfter < clock
    /\ readAt <= clock
    /\ cache # Never => readAt # Never /\ cache = LastInAt(readAt)

\* While a vehicle is out: a gate asked means a feed read, ten minutes before
\* and now; and the one reading after the close was not lost on the way.
LateInv ==
    ~mishaps.met =>
        /\ \A d : LateOf(d, clock) /\ checked => reading \/ readAt = clock
        /\ \A d : clock > 0 /\ LateOf(d, clock - 1) => readAt >= clock - 1
        /\ \A d : LateOf(d, clock) /\ ~OpenAt(clock) /\ ClosesAt(clock) # {} /\ cache = Never
                    /\ state.readAfter = Max(ClosesAt(clock)) => reading

WindowInv == WindowType /\ Announced /\ SpareInv /\ CacheInv /\ LateInv

LEMMA Timetabled == ASSUME WindowType PROVE Timetable
BY TimetableOf DEF WindowType

\* Within the ten minutes the timetable says the same.
LEMMA SameMoment ==
    ASSUME UNCHANGED <<clock, days, delay>>
    PROVE  /\ OpenAt(clock)' <=> OpenAt(clock)
           /\ PendingAt(clock)' <=> PendingAt(clock)
           /\ ClosesAt(clock)' = ClosesAt(clock)
           /\ LastInAt(clock)' = LastInAt(clock)
           /\ \A t : LastInAt(t)' = LastInAt(t)
           /\ \A d, t : LateOf(d, t)' <=> LateOf(d, t)
BY DEF OpenAt, PendingAt, ClosesAt, LastInAt, LateOf, DaysAt, DayOf, Runs, Opens, CloseOf, LastOf, StartOf

LEMMA NextMoment ==
    ASSUME UNCHANGED <<days, delay>>, clock' = clock + 1
    PROVE  /\ OpenAt(clock)' <=> OpenAt(clock + 1)
           /\ PendingAt(clock)' <=> PendingAt(clock + 1)
           /\ ClosesAt(clock)' = ClosesAt(clock + 1)
           /\ LastInAt(clock)' = LastInAt(clock + 1)
           /\ \A t : LastInAt(t)' = LastInAt(t)
           /\ \A d, t : LateOf(d, t)' <=> LateOf(d, t)
BY DEF OpenAt, PendingAt, ClosesAt, LastInAt, LateOf, DaysAt, DayOf, Runs, Opens, CloseOf, LastOf, StartOf

\* _gate outside the windows: what it notes, when it lets a reader through,
\* and that it does while the cache announces a vehicle.
LEMMA GateLets ==
    ASSUME WindowType, Gate, ~OpenAt(clock)
    PROVE  /\ state' \in [paused : Verdicts, extended : TimesOrNever, readAfter : TimesOrNever]
           /\ state'.extended = state.extended \/ (clock < cache /\ state'.extended <= clock + 1)
           /\ \/ state'.readAfter = state.readAfter
              \/ /\ state'.paused = "no" /\ ClosesAt(clock) # {} /\ cache = Never
                 /\ state.readAfter # Max(ClosesAt(clock)) /\ state'.readAfter = Max(ClosesAt(clock))
           /\ state'.paused = "no" =>
                 /\ ClosesAt(clock) # {}
                 /\ \/ clock < cache
                    \/ clock <= state.extended
                    \/ state.readAfter # Max(ClosesAt(clock)) /\ state'.readAfter = Max(ClosesAt(clock))
           /\ ClosesAt(clock) # {} /\ clock <= Max(ClosesAt(clock)) + OVERTIME_CAP
                 /\ (clock < cache \/ (cache = Never /\ state.readAfter # Max(ClosesAt(clock)))) =>
                 state'.paused = "no"
<1> DEFINE close == Max(ClosesAt(clock))
           cap == close + OVERTIME_CAP
<1>1. /\ ~Open /\ Closes = ClosesAt(clock)
      /\ state' = IF Closes = {} THEN Asleep ELSE AfterClose(close)
  BY GateIs DEF Gate
<1>2. ClosesAt(clock) # {} => close \in Nat /\ close < clock
  BY Timetabled, LastClose DEF WindowType
<1>3. state \in [paused : Verdicts, extended : TimesOrNever, readAfter : TimesOrNever] /\ cache \in TimesOrNever /\ clock \in Nat
  BY DEF WindowType
<1>4. /\ Asleep \in [paused : Verdicts, extended : TimesOrNever, readAfter : TimesOrNever] /\ Asleep.paused # "no"
      /\ Asleep.extended = state.extended /\ Asleep.readAfter = state.readAfter
  BY <1>3 DEF Asleep, Verdicts
<1>5. CASE ClosesAt(clock) = {}
  BY <1>1, <1>4, <1>5
<1>6. ASSUME ClosesAt(clock) # {}, clock <= cap, clock < cache
      PROVE  state' = [Reads(state) EXCEPT !.extended = IF clock + 1 <= cap THEN clock + 1 ELSE cap]
  <2>1. cap \in Nat /\ clock + EXTEND \in Nat
    BY <1>2, <1>3, <1>6
  <2>2. Min({clock + EXTEND, cap}) = IF clock + 1 <= cap THEN clock + 1 ELSE cap
    BY <2>1, MinOfTwo
  <2>3. FutureStop
    BY <1>3, <1>6 DEF FutureStop
  <2> HIDE DEF close
  <2>4. AfterClose(close) = [Reads(state) EXCEPT !.extended = Min({clock + EXTEND, cap})]
    BY <1>6, <2>3 DEF AfterClose
  <2>5. QED
    BY <1>1, <1>6, <2>2, <2>4
<1>7. ASSUME ClosesAt(clock) # {}, ~(clock <= cap /\ clock < cache)
      PROVE  \/ state' = Reads(state) /\ state.extended # Never /\ clock <= state.extended /\ clock <= cap
             \/ /\ state' = ReadOnce(state, close) /\ cache = Never /\ state.readAfter # close /\ clock <= cap
             \/ state' = Asleep /\ (clock <= cap => ~(cache = Never /\ state.readAfter # close))
             \/ state' = [state EXCEPT !.paused = "overtime_cap"] /\ clock > cap
  <2>1. state' = AfterClose(close)
    BY <1>1, <1>7
  <2>2. FutureStop <=> clock < cache
    BY <1>3 DEF FutureStop
  <2>3. cap \in Nat
    BY <1>2, <1>7
  <2> HIDE DEF close, cap
  <2>4. clock <= cap \/ clock > cap
    BY <1>3, <2>3
  <2>5. QED
    BY <1>7, <2>1, <2>2, <2>4 DEF AfterClose, cap
<1>8. CASE ClosesAt(clock) # {}
  <2>1. /\ Reads(state) \in [paused : Verdicts, extended : TimesOrNever, readAfter : TimesOrNever]
        /\ Reads(state).paused = "no" /\ Reads(state).extended = state.extended
        /\ Reads(state).readAfter = state.readAfter
    BY <1>3 DEF Reads, Verdicts
  <2>2. CASE clock <= cap /\ clock < cache
    BY <1>2, <1>3, <1>6, <1>8, <2>1, <2>2 DEF TimesOrNever
  <2>3. CASE ~(clock <= cap /\ clock < cache)
    <3>1. CASE state' = Reads(state) /\ state.extended # Never /\ clock <= state.extended /\ clock <= cap
      BY <1>8, <2>1, <3>1
    <3>2. CASE state' = ReadOnce(state, close) /\ cache = Never /\ state.readAfter # close /\ clock <= cap
      <4>1. /\ state' = [Reads(state) EXCEPT !.readAfter = close] /\ close \in TimesOrNever
        BY <1>2, <1>8, <3>2 DEF ReadOnce, TimesOrNever
      <4> HIDE DEF close
      <4>2. /\ state' \in [paused : Verdicts, extended : TimesOrNever, readAfter : TimesOrNever]
            /\ state'.paused = "no" /\ state'.extended = state.extended /\ state'.readAfter = close
        BY <2>1, <4>1
      <4>3. QED
        BY <1>8, <3>2, <4>2 DEF close
    <3>3. CASE state' = Asleep /\ (clock <= cap => ~(cache = Never /\ state.readAfter # close))
      BY <1>4, <2>3, <3>3
    <3>4. CASE state' = [state EXCEPT !.paused = "overtime_cap"] /\ clock > cap
      <4>1. ~(clock <= cap)
        BY <1>2, <1>3, <1>8, <3>4
      <4>2. QED
        BY <1>3, <3>4, <4>1 DEF Verdicts
    <3>5. QED
      BY <1>7, <1>8, <2>3, <3>1, <3>2, <3>3, <3>4
  <2>4. QED
    BY <2>2, <2>3
<1>9. QED
  BY <1>5, <1>8
----------------------------------------------------------------------------
(* The steps *)

LEMMA OneMishap ==
    ASSUME NEW m \in MishapType, NEW f \in Nat
    PROVE  /\ [m EXCEPT !.restarts = f] \in MishapType
           /\ [m EXCEPT !.restarts = f].met = m.met /\ [m EXCEPT !.restarts = f].unsure = m.unsure
           /\ [m EXCEPT !.failures = f, !.met = TRUE] \in MishapType
           /\ [m EXCEPT !.failures = f, !.met = TRUE].met = TRUE
           /\ [m EXCEPT !.failures = f, !.met = TRUE].unsure = m.unsure
BY DEF MishapType

LEMMA GateStep == ASSUME WindowInv, Gate PROVE WindowInv'
<1> DEFINE t == clock
           close == Max(ClosesAt(t))
<1>1. /\ WindowType /\ Timetable /\ t \in Nat
      /\ UNCHANGED <<clock, days, delay, cache, readAt, mishaps>>
      /\ reading' = (reading \/ state'.paused = "no") /\ checked' = TRUE
      /\ spare' = IF OpenAt(t) THEN 0 ELSE spare
  BY Timetabled, GateIs DEF WindowInv, WindowType, Gate
<1>2. /\ LastInAt(t) \in Nat /\ (ClosesAt(t) # {} => close \in Nat /\ close < t)
  BY <1>1, LastInIs, LastClose
<1>3. /\ OpenAt(clock)' <=> OpenAt(t)
      /\ PendingAt(clock)' <=> PendingAt(t)
      /\ ClosesAt(clock)' = ClosesAt(t)
      /\ LastInAt(clock)' = LastInAt(t)
      /\ \A u : LastInAt(u)' = LastInAt(u)
      /\ \A d, u : LateOf(d, u)' <=> LateOf(d, u)
  BY <1>1, SameMoment
<1>4. /\ state.extended \in TimesOrNever /\ state.readAfter \in TimesOrNever /\ cache \in TimesOrNever /\ readAt \in TimesOrNever
      /\ spare \in Nat /\ mishaps.unsure \in Nat /\ reading \in BOOLEAN /\ checked \in BOOLEAN
      /\ cache <= LastInAt(t) /\ state.extended <= LastInAt(t)
  BY <1>1 DEF WindowInv, WindowType, MishapType, Announced
<1>5. CASE OpenAt(t)
  <2>1. state' = [Reads(state) EXCEPT !.extended = Never]
    BY <1>5, GateIs DEF Gate
  <2>2. /\ state' \in [paused : Verdicts, extended : TimesOrNever, readAfter : TimesOrNever]
        /\ state'.paused = "no" /\ state'.extended = Never /\ state'.readAfter = state.readAfter
    BY <1>1, <2>1 DEF WindowType, Reads, Verdicts, TimesOrNever
  <2>3. reading' = TRUE /\ spare' = 0
    BY <1>1, <1>5, <2>2
  <2>4. WindowType'
    BY <1>1, <2>2, <2>3 DEF WindowType
  <2>5. Announced'
    BY <1>1, <1>2, <1>3, <1>4, <2>2 DEF Announced
  <2>6. SpareInv'
    BY <1>1, <1>3, <1>4, <1>5, <2>3 DEF SpareInv, One
  <2>7. CacheInv'
    BY <1>1, <1>3, <2>2 DEF WindowInv, CacheInv
  <2>8. LateInv'
    BY <1>1, <1>3, <1>5, <2>3 DEF WindowInv, LateInv
  <2>9. QED
    BY <2>4, <2>5, <2>6, <2>7, <2>8 DEF WindowInv
<1>6. CASE ~OpenAt(t)
  <2>1. /\ state' \in [paused : Verdicts, extended : TimesOrNever, readAfter : TimesOrNever]
        /\ state'.extended = state.extended \/ (t < cache /\ state'.extended <= t + 1)
        /\ \/ state'.readAfter = state.readAfter
           \/ /\ state'.paused = "no" /\ ClosesAt(t) # {} /\ cache = Never
              /\ state.readAfter # close /\ state'.readAfter = close
        /\ state'.paused = "no" =>
              /\ ClosesAt(t) # {}
              /\ \/ t < cache
                 \/ t <= state.extended
                 \/ state.readAfter # close /\ state'.readAfter = close
        /\ ClosesAt(t) # {} /\ t <= close + OVERTIME_CAP
              /\ (t < cache \/ (cache = Never /\ state.readAfter # close)) =>
              state'.paused = "no"
    BY <1>1, <1>6, GateLets
  <2>2. state'.extended \in TimesOrNever /\ state'.readAfter \in TimesOrNever
    BY <2>1
  <2>3. WindowType'
    BY <1>1, <1>6, <2>1 DEF WindowType
  <2>4. Announced'
    BY <1>1, <1>2, <1>3, <1>4, <2>1, <2>2 DEF Announced, TimesOrNever
  <2>5. spare' = spare /\ mishaps' = mishaps
    BY <1>1, <1>6
  <2>6. NotedAt(t) => NotedAt(clock)'
    BY <1>1, <1>3, <2>1 DEF NotedAt
  <2>7. ~PendingAt(t) => spare <= mishaps.unsure + One(TailSpent) + One(NotedAt(t))
    BY <1>6 DEF WindowInv, SpareInv
  <2>8. TailSpent' <=> TailSpent
    BY <1>1, <1>3 DEF TailSpent
  <2>9. SpareInv'
    <3>1. ~PendingAt(t) => spare <= mishaps.unsure + One(TailSpent) + One(NotedAt(clock)')
      BY <1>4, <2>6, <2>7 DEF One
    <3>2. ASSUME reading', LastInAt(t) <= t, readAt # t
          PROVE  spare <= mishaps.unsure + One(NotedAt(clock)')
      <4>1. CASE reading
        <5>1. spare <= mishaps.unsure + One(NotedAt(t))
          BY <1>6, <3>2, <4>1 DEF WindowInv, SpareInv
        <5>2. QED
          BY <1>4, <2>6, <5>1 DEF One
      <4>2. CASE state'.paused = "no"
        <5>1. ~PendingAt(t)
          BY <1>1, <1>2, <3>2, PendingIn
        <5>2. ~(t < cache)
          BY <1>1, <1>2, <1>4, <3>2 DEF TimesOrNever
        <5>3. CASE t <= state.extended
          <6>1. ~TailSpent
            BY <1>1, <1>2, <1>4, <3>2, <5>3 DEF TailSpent, TimesOrNever
          <6>2. QED
            BY <1>4, <3>1, <5>1, <6>1 DEF One
        <5>4. CASE state.readAfter # close /\ state'.readAfter = close
          <6>1. ~NotedAt(t) /\ NotedAt(clock)'
            BY <1>1, <1>3, <2>1, <4>2, <5>4 DEF NotedAt
          <6>2. QED
            BY <1>4, <2>7, <5>1, <6>1 DEF One
        <5>5. QED
          BY <2>1, <4>2, <5>2, <5>3, <5>4
      <4>3. QED
        BY <1>1, <3>2, <4>1, <4>2
    <3>3. spare <= 2 + mishaps.unsure
      BY DEF WindowInv, SpareInv
    <3>4. One(NotedAt(clock))' = One(NotedAt(clock)') /\ One(TailSpent)' = One(TailSpent)
      BY <2>8 DEF One
    <3>5. QED
      BY <1>1, <1>3, <1>6, <2>5, <3>1, <3>2, <3>3, <3>4 DEF SpareInv
  <2>10. CacheInv'
    <3>1. state'.readAfter < t
      BY <1>1, <1>2, <2>1 DEF WindowInv, CacheInv
    <3>2. QED
      BY <1>1, <1>3, <3>1 DEF WindowInv, CacheInv
  <2>11. ASSUME ~mishaps.met, NEW d, LateOf(d, t) PROVE reading'
    <3>1. /\ t - 1 \in Nat /\ LateOf(d, t - 1) /\ t > 0
          /\ CloseOf(d) \in ClosesAt(t)
      BY <1>1, <1>6, <2>11, LateBefore
    <3>2. t < CloseOf(d) + OVERTIME_CAP /\ t < LastOf(d) + delay
      BY <1>1, <2>11, LateIs
    <3>3. t <= close + OVERTIME_CAP
      <4>1. CloseOf(d) \in Nat /\ close >= CloseOf(d)
        BY <1>1, <3>1, LastClose
      <4>2. QED
        BY <1>1, <1>2, <3>1, <3>2, <4>1
    <3>4. readAt >= t - 1 /\ readAt <= t
      BY <2>11, <3>1 DEF WindowInv, LateInv, CacheInv
    <3>5. CASE cache # Never
      <4>1. cache = LastInAt(readAt) /\ readAt \in Nat
        BY <1>4, <3>5 DEF WindowInv, CacheInv, TimesOrNever
      <4>2. readAt = t \/ readAt = t - 1
        BY <1>1, <3>4, <4>1
      <4>3. d \in 1..DayOf(readAt) /\ Runs(d)
        BY <2>11, <3>1, <4>2 DEF LateOf
      <4>4. LastOf(d) + delay <= LastInAt(readAt) /\ LastInAt(readAt) \in Nat
        BY <1>1, <4>1, <4>3, LastInIs
      <4>5. LastOf(d) + delay \in Nat
        BY <1>1, <4>3, DayRuns DEF Timetable
      <4>6. t < cache
        BY <1>1, <3>2, <4>1, <4>4, <4>5
      <4>7. QED
        BY <1>1, <2>1, <3>1, <3>3, <4>6
    <3>6. CASE cache = Never /\ state.readAfter # close
      BY <1>1, <2>1, <3>1, <3>3, <3>6
    <3>7. CASE cache = Never /\ state.readAfter = close
      <4>1. reading
        BY <1>6, <2>11, <3>1, <3>7 DEF WindowInv, LateInv
      <4>2. QED
        BY <1>1, <4>1
    <3>8. QED
      BY <3>5, <3>6, <3>7
  <2>12. LateInv'
    BY <1>1, <1>3, <2>11 DEF WindowInv, LateInv
  <2>13. QED
    BY <2>3, <2>4, <2>9, <2>10, <2>12 DEF WindowInv
<1>7. QED
  BY <1>5, <1>6
LEMMA GateUnsureStep == ASSUME WindowInv, GateUnsure PROVE WindowInv'
<1> DEFINE t == clock
<1>1. /\ WindowType /\ Timetable /\ t \in Nat
      /\ UNCHANGED <<clock, days, delay, cache, readAt>>
      /\ reading' = TRUE /\ checked' = TRUE /\ state' = Reads(state)
      /\ mishaps' = [mishaps EXCEPT !.failures = @ - 1, !.met = TRUE, !.unsure = @ + 1]
      /\ spare' = IF OpenAt(t) THEN 0 ELSE spare
  BY Timetabled, GateIs DEF WindowInv, WindowType, GateUnsure
<1>2. /\ OpenAt(clock)' <=> OpenAt(t)
      /\ PendingAt(clock)' <=> PendingAt(t)
      /\ ClosesAt(clock)' = ClosesAt(t)
      /\ LastInAt(clock)' = LastInAt(t)
      /\ \A u : LastInAt(u)' = LastInAt(u)
  BY <1>1, SameMoment
<1>3. /\ state' \in [paused : Verdicts, extended : TimesOrNever, readAfter : TimesOrNever]
      /\ state'.extended = state.extended /\ state'.readAfter = state.readAfter
  BY <1>1 DEF WindowType, Reads, Verdicts
<1>4. /\ mishaps' \in MishapType
      /\ mishaps'.met = TRUE /\ mishaps'.unsure = mishaps.unsure + 1
      /\ mishaps.unsure \in Nat /\ spare \in Nat
  <2>1. /\ mishaps \in MishapType /\ mishaps.failures > 0 /\ spare \in Nat
        /\ mishaps.failures \in Nat /\ mishaps.unsure \in Nat
    BY <1>1 DEF WindowType, GateUnsure, MishapType
  <2>2. mishaps.failures - 1 \in Nat /\ mishaps.unsure + 1 \in Nat
    BY <2>1
  <2>3. mishaps' = [mishaps EXCEPT !.failures = mishaps.failures - 1, !.met = TRUE, !.unsure = mishaps.unsure + 1]
    BY <1>1
  <2> DEFINE f == mishaps.failures - 1
             u == mishaps.unsure + 1
  <2> HIDE DEF f, u
  <2>4. mishaps' = [mishaps EXCEPT !.failures = f, !.met = TRUE, !.unsure = u] /\ f \in Nat /\ u \in Nat
    BY <2>2, <2>3 DEF f, u
  <2>5. /\ mishaps' \in MishapType /\ mishaps'.met = TRUE /\ mishaps'.unsure = u
    BY <2>1, <2>4 DEF MishapType
  <2>6. QED
    BY <2>1, <2>5 DEF u
<1>5. WindowType'
  BY <1>1, <1>3, <1>4 DEF WindowType
<1>6. Announced' /\ CacheInv'
  BY <1>1, <1>2, <1>3 DEF WindowInv, Announced, CacheInv
<1>7. LateInv'
  BY <1>4 DEF LateInv
<1>8. SpareInv'
  <2>1. NotedAt(clock)' <=> NotedAt(t)
    BY <1>2, <1>3 DEF NotedAt
  <2>2. TailSpent' <=> TailSpent
    BY <1>1, <1>2 DEF TailSpent
  <2>3. LastInAt(t) <= t => ~PendingAt(t)
    BY <1>1, LastInIs, PendingIn
  <2>4. One(NotedAt(clock))' = One(NotedAt(t)) /\ One(TailSpent)' = One(TailSpent)
    BY <2>1, <2>2 DEF One
  <2>5. One(NotedAt(t)) \in {0, 1} /\ One(TailSpent) \in {0, 1}
    BY DEF One
  <2>6. CASE OpenAt(t)
    BY <1>1, <1>2, <1>4, <2>6 DEF SpareInv
  <2>7. CASE ~OpenAt(t)
    <3>1. spare <= 2 + mishaps.unsure
      BY DEF WindowInv, SpareInv
    <3>2. ~PendingAt(t) => spare <= mishaps.unsure + One(TailSpent) + One(NotedAt(t))
      BY <2>7 DEF WindowInv, SpareInv
    <3>3. ~PendingAt(t) => spare <= mishaps'.unsure + One(NotedAt(t))
      BY <1>4, <2>5, <3>2
    <3>4. ~PendingAt(t) => spare <= mishaps'.unsure + One(TailSpent) + One(NotedAt(t))
      BY <1>4, <2>5, <3>2
    <3>5. QED
      BY <1>1, <1>2, <1>4, <2>3, <2>4, <2>7, <3>1, <3>3, <3>4 DEF SpareInv
  <2>8. QED
    BY <2>6, <2>7
<1>9. QED
  BY <1>5, <1>6, <1>7, <1>8 DEF WindowInv

LEMMA FeedReadStep == ASSUME WindowInv, FeedRead PROVE WindowInv'
<1> DEFINE t == clock
<1>1. /\ WindowType /\ Timetable /\ t \in Nat /\ reading
      /\ UNCHANGED <<clock, days, delay, state, checked, mishaps>>
      /\ reading' = FALSE /\ readAt' = t /\ cache' = LastInAt(t)
      /\ spare' = IF OpenAt(t) \/ LastInAt(t) > t \/ readAt = t THEN spare ELSE spare + 1
  BY Timetabled, GateIs DEF WindowInv, WindowType, FeedRead
<1>2. /\ OpenAt(clock)' <=> OpenAt(t)
      /\ PendingAt(clock)' <=> PendingAt(t)
      /\ ClosesAt(clock)' = ClosesAt(t)
      /\ LastInAt(clock)' = LastInAt(t)
      /\ \A u : LastInAt(u)' = LastInAt(u)
      /\ \A d, u : LateOf(d, u)' <=> LateOf(d, u)
  BY <1>1, SameMoment
<1>3. LastInAt(t) \in Nat /\ spare \in Nat /\ mishaps.unsure \in Nat
  BY <1>1, LastInIs DEF WindowType, MishapType
<1>4. WindowType'
  <2>1. spare' \in Nat
    BY <1>1, <1>3
  <2>2. cache' \in TimesOrNever /\ readAt' \in TimesOrNever
    BY <1>1, <1>3 DEF TimesOrNever
  <2>3. QED
    BY <1>1, <2>1, <2>2 DEF WindowType
<1>5. Announced' /\ CacheInv'
  BY <1>1, <1>2, <1>3 DEF WindowInv, Announced, CacheInv
<1>6. LateInv'
  BY <1>1, <1>2, <1>3 DEF WindowInv, LateInv
<1>7. SpareInv'
  <2>1. NotedAt(clock)' <=> NotedAt(t)
    BY <1>1, <1>2 DEF NotedAt
  <2>2. TailSpent => TailSpent'
    BY <1>1, <1>2 DEF TailSpent
  <2>3. One(NotedAt(clock))' = One(NotedAt(t)) /\ One(TailSpent) <= One(TailSpent)'
    BY <2>1, <2>2 DEF One
  <2>4. One(NotedAt(t)) \in {0, 1} /\ One(TailSpent) \in {0, 1} /\ One(TailSpent)' \in {0, 1}
    BY DEF One
  <2>5. /\ OpenAt(t) /\ checked => spare = 0
        /\ spare <= 2 + mishaps.unsure
        /\ ~OpenAt(t) /\ ~PendingAt(t) =>
              spare <= mishaps.unsure + One(TailSpent) + One(NotedAt(t))
    BY DEF WindowInv, SpareInv
  <2>6. CASE OpenAt(t) \/ LastInAt(t) > t \/ readAt = t
    <3>1. spare' = spare
      BY <1>1, <2>6
    <3>2. QED
      BY <1>1, <1>2, <1>3, <2>3, <2>4, <2>5, <3>1 DEF SpareInv
  <2>7. CASE ~(OpenAt(t) \/ LastInAt(t) > t \/ readAt = t)
    <3>1. spare' = spare + 1 /\ LastInAt(t) <= t
      BY <1>1, <1>3, <2>7
    <3>2. spare <= mishaps.unsure + One(NotedAt(t))
      BY <1>1, <2>7, <3>1 DEF WindowInv, SpareInv
    <3>3. TailSpent'
      BY <1>1, <1>2, <1>3, <3>1 DEF TailSpent
    <3>4. One(TailSpent)' = 1
      BY <3>3 DEF One
    <3>5. QED
      BY <1>1, <1>2, <1>3, <2>3, <2>4, <2>7, <3>1, <3>2, <3>4 DEF SpareInv
  <2>8. QED
    BY <2>6, <2>7
<1>8. QED
  BY <1>4, <1>5, <1>6, <1>7 DEF WindowInv

LEMMA FeedFailsStep == ASSUME WindowInv, FeedFails PROVE WindowInv'
<1>1. /\ UNCHANGED <<clock, days, delay, state, cache, checked, readAt, spare>> /\ reading' = FALSE
      /\ mishaps' = [mishaps EXCEPT !.failures = @ - 1, !.met = TRUE] /\ mishaps.failures > 0
  BY DEF FeedFails
<1>2. /\ OpenAt(clock)' <=> OpenAt(clock)
      /\ PendingAt(clock)' <=> PendingAt(clock)
      /\ ClosesAt(clock)' = ClosesAt(clock)
      /\ LastInAt(clock)' = LastInAt(clock)
      /\ \A u : LastInAt(u)' = LastInAt(u)
  BY <1>1, SameMoment
<1>3. /\ mishaps' \in MishapType
      /\ mishaps'.met = TRUE /\ mishaps'.unsure = mishaps.unsure
  <2>1. mishaps \in MishapType /\ mishaps.failures - 1 \in Nat
    BY <1>1 DEF WindowInv, WindowType, MishapType
  <2>2. QED
    BY <1>1, <2>1, OneMishap
<1>4. WindowType' /\ Announced' /\ CacheInv'
  BY <1>1, <1>2, <1>3 DEF WindowInv, WindowType, Announced, CacheInv
<1>5. LateInv'
  BY <1>3 DEF LateInv
<1>6. SpareInv'
  BY <1>1, <1>2, <1>3 DEF WindowInv, SpareInv, One, TailSpent, NotedAt
<1>7. QED
  BY <1>4, <1>5, <1>6 DEF WindowInv

\* The feed is not forgotten while a vehicle is followed.
LEMMA ForgottenStep == ASSUME WindowInv, Forgotten PROVE WindowInv'
<1>1. /\ UNCHANGED <<clock, days, delay, state, reading, checked, readAt, spare, mishaps>>
      /\ cache' = Never /\ readAt + 1 < clock
      /\ clock \in Nat /\ readAt \in TimesOrNever /\ WindowType /\ Timetable
  BY Timetabled DEF Forgotten, WindowInv, WindowType
<1>2. /\ OpenAt(clock)' <=> OpenAt(clock)
      /\ PendingAt(clock)' <=> PendingAt(clock)
      /\ ClosesAt(clock)' = ClosesAt(clock)
      /\ LastInAt(clock)' = LastInAt(clock)
      /\ \A u : LastInAt(u)' = LastInAt(u)
      /\ \A d, u : LateOf(d, u)' <=> LateOf(d, u)
  BY <1>1, SameMoment
<1>3. LastInAt(clock) \in Nat
  BY <1>1, LastInIs
<1>4. WindowType' /\ Announced' /\ CacheInv' /\ SpareInv'
  BY <1>1, <1>2, <1>3 DEF WindowInv, WindowType, Announced, CacheInv, SpareInv, One, TailSpent, NotedAt, TimesOrNever
<1>5. ASSUME ~mishaps.met, NEW d, LateOf(d, clock), ~OpenAt(clock) PROVE FALSE
  <2>1. clock > 0 /\ LateOf(d, clock - 1)
    BY <1>1, <1>5, LateBefore
  <2>2. readAt >= clock - 1
    BY <1>5, <2>1 DEF WindowInv, LateInv
  <2>3. QED
    BY <1>1, <2>2 DEF TimesOrNever
<1>6. LateInv'
  BY <1>1, <1>2, <1>5 DEF WindowInv, LateInv
<1>7. QED
  BY <1>4, <1>6 DEF WindowInv

LEMMA RestartStep == ASSUME WindowInv, Restart PROVE WindowInv'
<1>1. /\ UNCHANGED <<clock, days, delay, readAt>>
      /\ mishaps' = [mishaps EXCEPT !.restarts = @ - 1] /\ mishaps.restarts > 0
      /\ state' = NoState /\ cache' = Never /\ reading' = FALSE
      /\ checked' = FALSE /\ spare' = 0 /\ clock \in Nat /\ WindowType /\ Timetable
  BY Timetabled DEF Restart, WindowInv, WindowType
<1>2. /\ OpenAt(clock)' <=> OpenAt(clock)
      /\ ClosesAt(clock)' = ClosesAt(clock)
      /\ LastInAt(clock)' = LastInAt(clock)
      /\ \A d, u : LateOf(d, u)' <=> LateOf(d, u)
  BY <1>1, SameMoment
<1>3. LastInAt(clock) \in Nat /\ (ClosesAt(clock) # {} => Max(ClosesAt(clock)) \in Nat)
  BY <1>1, LastInIs, LastClose
<1>4. /\ mishaps' \in MishapType
      /\ mishaps'.met = mishaps.met /\ mishaps'.unsure = mishaps.unsure /\ mishaps.unsure \in Nat
  <2>1. mishaps \in MishapType /\ mishaps.restarts - 1 \in Nat /\ mishaps.unsure \in Nat
    BY <1>1 DEF WindowType, MishapType
  <2>2. QED
    BY <1>1, <2>1, OneMishap
<1>5. /\ state' \in [paused : Verdicts, extended : TimesOrNever, readAfter : TimesOrNever]
      /\ state'.extended = Never /\ state'.readAfter = Never
  BY <1>1 DEF NoState, Verdicts, TimesOrNever
<1>6. WindowType' /\ Announced' /\ CacheInv'
  <2>1. WindowType'
    BY <1>1, <1>4, <1>5 DEF WindowType, TimesOrNever
  <2>2. Announced'
    BY <1>1, <1>2, <1>3, <1>5 DEF Announced
  <2>3. CacheInv'
    BY <1>1, <1>5 DEF WindowInv, CacheInv
  <2>4. QED
    BY <2>1, <2>2, <2>3
<1>7. SpareInv'
  <2>1. One(NotedAt(clock))' \in {0, 1} /\ One(TailSpent)' \in {0, 1}
    BY DEF One
  <2>2. QED
    BY <1>1, <1>4, <2>1 DEF SpareInv
<1>8. LateInv'
  BY <1>1, <1>2, <1>3, <1>4, <1>5 DEF WindowInv, LateInv
<1>9. QED
  BY <1>6, <1>7, <1>8 DEF WindowInv
LEMMA TenMinutesStep == ASSUME WindowInv, TenMinutes PROVE WindowInv'
<1> DEFINE t == clock
<1>1. /\ WindowType /\ Timetable /\ t \in Nat /\ checked /\ ~reading
      /\ clock' = t + 1 /\ checked' = FALSE
      /\ UNCHANGED <<days, delay, state, cache, reading, readAt, spare, mishaps>>
  BY Timetabled DEF TenMinutes, WindowInv, WindowType
<1>2. /\ OpenAt(clock)' <=> OpenAt(t + 1)
      /\ PendingAt(clock)' <=> PendingAt(t + 1)
      /\ ClosesAt(clock)' = ClosesAt(t + 1)
      /\ LastInAt(clock)' = LastInAt(t + 1)
      /\ \A u : LastInAt(u)' = LastInAt(u)
      /\ \A d, u : LateOf(d, u)' <=> LateOf(d, u)
  BY <1>1, NextMoment
<1>3. /\ LastInAt(t) \in Nat /\ LastInAt(t + 1) \in Nat /\ LastInAt(t) <= LastInAt(t + 1)
      /\ state.extended \in TimesOrNever /\ state.readAfter \in TimesOrNever /\ cache \in TimesOrNever /\ readAt \in TimesOrNever
      /\ mishaps.unsure \in Nat /\ spare \in Nat
  BY <1>1, LastInIs, LastInGrows DEF WindowType, MishapType
<1>4. WindowType'
  <2>1. clock' \in Nat
    BY <1>1
  <2>2. checked' \in BOOLEAN
    BY <1>1, Zenon
  <2>3. QED
    BY <1>1, <2>1, <2>2 DEF WindowType, TimesOrNever
<1>5. Announced'
  BY <1>1, <1>2, <1>3 DEF WindowInv, Announced, TimesOrNever
<1>6. CacheInv'
  BY <1>1, <1>2, <1>3 DEF WindowInv, CacheInv, TimesOrNever
<1>7. SpareInv'
  <2>1. spare <= 2 + mishaps.unsure
    BY DEF WindowInv, SpareInv
  <2>2. One(NotedAt(clock))' \in {0, 1} /\ One(TailSpent)' \in {0, 1}
    BY DEF One
  <2>3. CASE OpenAt(t)
    <3>1. spare = 0
      BY <1>1, <2>3 DEF WindowInv, SpareInv
    <3>2. QED
      BY <1>1, <1>3, <2>2, <3>1 DEF SpareInv
  <2>4. CASE ~OpenAt(t)
    <3>1. ASSUME ~OpenAt(t + 1), ~PendingAt(t + 1)
          PROVE  spare <= mishaps.unsure + One(TailSpent)' + One(NotedAt(clock))'
      <4>1. ~PendingAt(t)
        BY <1>1, <3>1, StillPending
      <4>2. spare <= mishaps.unsure + One(TailSpent) + One(NotedAt(t))
        BY <2>4, <4>1 DEF WindowInv, SpareInv
      <4>3. LastInAt(t + 1) = LastInAt(t)
        BY <1>1, <3>1, SameLastIn
      <4>4. TailSpent => TailSpent'
        BY <1>1, <1>2, <1>3, <4>3 DEF TailSpent
      <4>5. ClosesAt(t + 1) # {} => ClosesAt(t) # {} /\ Max(ClosesAt(t + 1)) = Max(ClosesAt(t))
        BY <1>1, <2>4, <3>1, SameClose
      <4>6. NotedAt(t) => NotedAt(clock)'
        BY <1>1, <1>2, <4>5 DEF NotedAt
      <4>7. One(TailSpent) <= One(TailSpent)' /\ One(NotedAt(t)) <= One(NotedAt(clock))'
        BY <4>4, <4>6 DEF One
      <4>8. One(NotedAt(t)) \in {0, 1} /\ One(TailSpent) \in {0, 1}
        BY DEF One
      <4>9. QED
        BY <1>3, <2>2, <4>2, <4>7, <4>8
    <3>2. QED
      BY <1>1, <1>2, <2>1, <3>1 DEF SpareInv
  <2>5. QED
    BY <2>3, <2>4
<1>8. LateInv'
  <2>1. ASSUME ~mishaps.met, NEW d, LateOf(d, t) PROVE readAt >= t
    <3>1. readAt = t
      BY <1>1, <2>1 DEF WindowInv, LateInv
    <3>2. QED
      BY <1>1, <3>1
  <2>2. ASSUME ~mishaps.met, NEW d, LateOf(d, t + 1), ~OpenAt(t + 1), ClosesAt(t + 1) # {}, cache = Never,
               state.readAfter = Max(ClosesAt(t + 1))
        PROVE  FALSE
    <3>1. (t + 1) - 1 = t /\ t + 1 \in Nat
      BY <1>1
    <3>2. LateOf(d, t)
      <4>1. LateOf(d, (t + 1) - 1)
        BY <1>1, <2>2, <3>1, LateBefore
      <4>2. QED
        BY <3>1, <4>1
    <3>3. CASE ~OpenAt(t)
      <4>1. ClosesAt(t) # {} /\ Max(ClosesAt(t + 1)) = Max(ClosesAt(t))
        BY <1>1, <2>2, <3>3, SameClose
      <4>2. reading
        BY <2>2, <3>2, <3>3, <4>1 DEF WindowInv, LateInv
      <4>3. QED
        BY <1>1, <4>2
    <3>4. CASE OpenAt(t)
      <4>1. PICK f \in DaysAt(t) : Opens(f) <= t /\ t <= CloseOf(f)
        BY <3>4 DEF OpenAt
      <4>2. Opens(f) \in Int /\ CloseOf(f) \in Nat
        BY <1>1, <4>1, DayRuns DEF DaysAt
      <4>3. f \in DaysAt(t + 1)
        BY <1>1, <4>1, <4>2, DaysStep
      <4>4. ~(t + 1 <= CloseOf(f))
        BY <1>1, <2>2, <4>1, <4>2, <4>3 DEF OpenAt
      <4>5. CloseOf(f) = t /\ CloseOf(f) < t + 1
        BY <1>1, <4>1, <4>2, <4>4
      <4>6. CloseOf(f) \in ClosesAt(t + 1)
        BY <4>3, <4>5 DEF ClosesAt
      <4>7. Max(ClosesAt(t + 1)) >= CloseOf(f)
        BY <1>1, <3>1, <4>6, LastClose
      <4>8. state.readAfter < t
        BY DEF WindowInv, CacheInv
      <4>9. state.readAfter \in Int
        BY <1>3 DEF TimesOrNever
      <4>10. QED
        BY <1>1, <2>2, <4>5, <4>7, <4>8, <4>9
    <3>5. QED
      BY <3>3, <3>4
  <2>3. (t + 1) - 1 = t
    BY <1>1
  <2>4. ASSUME ~mishaps.met
        PROVE  /\ \A d : LateOf(d, (t + 1) - 1) => readAt >= (t + 1) - 1
               /\ \A d : ~(/\ LateOf(d, t + 1) /\ ~OpenAt(t + 1) /\ ClosesAt(t + 1) # {} /\ cache = Never
                           /\ state.readAfter = Max(ClosesAt(t + 1)))
    <3>1. \A d : LateOf(d, t) => readAt >= t
      BY <2>1, <2>4
    <3>2. QED
      BY <2>2, <2>3, <2>4, <3>1
  <2>5. QED
    BY <1>1, <1>2, <2>4 DEF LateInv
<1>9. QED
  BY <1>4, <1>5, <1>6, <1>7, <1>8 DEF WindowInv

LEMMA WindowInitInv == ASSUME WindowInit PROVE WindowInv
<1>1. PICK b \in WindowBudgets : mishaps = [restarts |-> b.restarts, failures |-> b.failures, met |-> FALSE, unsure |-> 0]
  BY DEF WindowInit
<1>2. WindowType
  <2>1. mishaps \in MishapType /\ mishaps.unsure = 0
    BY <1>1, WindowBudgetsAssumption DEF MishapType
  <2>2. QED
    BY <2>1 DEF WindowInit, WindowIdle, WindowType, NoState, Verdicts, TimesOrNever
<1>3. /\ Timetable /\ clock = 0 /\ LastInAt(clock) \in Nat /\ mishaps.unsure = 0
      /\ state.extended = Never /\ state.readAfter = Never /\ cache = Never /\ readAt = Never
      /\ ~checked /\ ~reading /\ spare = 0
  <2>1. clock = 0 /\ clock \in Nat /\ Timetable
    BY <1>2, Timetabled DEF WindowInit, WindowIdle
  <2>2. LastInAt(clock) \in Nat
    BY <2>1, LastInIs
  <2>3. QED
    BY <1>1, <2>1, <2>2 DEF WindowInit, WindowIdle, NoState
<1>4. Announced /\ CacheInv
  BY <1>3 DEF Announced, CacheInv
<1>5. SpareInv
  <2>1. One(NotedAt(clock)) \in {0, 1} /\ One(TailSpent) \in {0, 1}
    BY DEF One
  <2>2. QED
    BY <1>3, <2>1 DEF SpareInv
<1>6. LateInv
  <2>1. ClosesAt(clock) # {} => Max(ClosesAt(clock)) \in Nat
    BY <1>3, LastClose
  <2>2. QED
    BY <1>3, <2>1 DEF LateInv
<1>7. QED
  BY <1>2, <1>4, <1>5, <1>6 DEF WindowInv

LEMMA WindowStep == ASSUME WindowInv, [WindowNext]_window PROVE WindowInv'
<1>1. CASE UNCHANGED window
  <2>1. UNCHANGED <<clock, days, delay, state, cache, reading, checked, readAt, spare, mishaps>>
    BY <1>1 DEF window
  <2>2. /\ OpenAt(clock)' <=> OpenAt(clock)
        /\ PendingAt(clock)' <=> PendingAt(clock)
        /\ ClosesAt(clock)' = ClosesAt(clock)
        /\ LastInAt(clock)' = LastInAt(clock)
        /\ \A u : LastInAt(u)' = LastInAt(u)
        /\ \A d, u : LateOf(d, u)' <=> LateOf(d, u)
    BY <2>1, SameMoment
  <2>3. QED
    BY <2>1, <2>2 DEF WindowInv, WindowType, Announced, CacheInv, SpareInv, LateInv, One, TailSpent, NotedAt
<1>2. QED
  BY <1>1, GateStep, GateUnsureStep, FeedReadStep, FeedFailsStep, ForgottenStep, RestartStep, TenMinutesStep
     DEF WindowNext

\* _after_close: past the close with nothing left to follow, the feed is read
\* no more than the stretch's tail, once to make sure, and once each time the
\* timetable could not be read, whatever the hour, the day and the restarts.
THEOREM SpareReadingsFew == WindowSpec => []SpareReadings
<1>1. WindowInv => SpareReadings
  <2>1. ASSUME WindowInv PROVE spare <= 1 + 1 + mishaps.unsure
    <3>1. spare <= 2 + mishaps.unsure /\ mishaps.unsure \in Nat
      BY <2>1 DEF WindowInv, SpareInv, WindowType, MishapType
    <3>2. QED
      BY <3>1
  <2>2. QED
    BY <2>1 DEF SpareReadings
<1>2. QED
  BY <1>1, WindowInitInv, WindowStep, PTL DEF WindowSpec

\* rt_window_gate, with the cache of the feed: a vehicle out after its day's
\* last passage has its feed read every ten minutes until it is in or the
\* budget is spent, whatever forgets the cache and however often a restart
\* empties it and the gate's state.
THEOREM LateIsFollowedAlways == WindowSpec => LateIsFollowed
<1> DEFINE Heeded ==
        clock' # clock /\ ~mishaps.met
          /\ (\E d \in 1..Today : d \in DOMAIN days /\ days[d] # Rest
                 /\ LET last == (d - 1) * Day + days[d][2]
                    IN  last <= clock /\ clock < last + Min({delay, TRAIL + OVERTIME_CAP}))
        => readAt = clock
<1>1. ASSUME WindowInv, WindowNext PROVE Heeded
  <2>1. SUFFICES ASSUME clock' # clock, ~mishaps.met, NEW d, LateOf(d, clock) PROVE readAt = clock
    BY GateIs DEF LateOf, LastOf, StartOf, Runs
  <2>2. TenMinutes
    BY <1>1, <2>1 DEF WindowNext, Gate, GateUnsure, FeedRead, FeedFails, Forgotten, Restart
  <2>3. checked /\ ~reading
    BY <2>2 DEF TenMinutes
  <2>4. QED
    BY <1>1, <2>1, <2>3 DEF WindowInv, LateInv
<1>2. WindowInv /\ [WindowNext]_window => [Heeded]_window
  BY <1>1
<1>3. QED
  BY <1>2, WindowInitInv, WindowStep, PTL DEF WindowSpec, LateIsFollowed
----------------------------------------------------------------------------
(* The alert said at an end.  Three things could lose the worst: an index  *)
(* that misses an alert, an alert for later or a repeated one that takes   *)
(* the place of it, the cut of the list.  The order of the list is total,  *)
(* so the severest of the alerts in force stands before the cut.           *)

\* domain/alerts.py:_candidates: an id cut is found by every cut of the id
\* followed.
LEMMA CutIsFound ==
    ASSUME NEW named \in Seq(STRING), NEW trip \in Seq(STRING), SameTrip(named, trip)
    PROVE  named \in CutsOf(trip)
<1>1. named # <<>> /\ trip # <<>> /\ Len(named) \in Nat /\ Len(trip) \in Nat
  BY DEF SameTrip, NoId
<1>2. CASE named = trip
  <2>1. trip = SubSeq(trip, 1, Len(trip)) /\ Len(trip) \in 1..Len(trip)
    BY <1>1
  <2>2. QED
    BY <1>2, <2>1 DEF CutsOf
<1>3. CASE named # trip
  <2>1. /\ Len(named) <= Len(trip) /\ SubSeq(named, 1, Len(named)) = SubSeq(trip, 1, Len(named))
        /\ trip[Len(named) + 1] \in Digits
    BY <1>3 DEF SameTrip, IsStrictPrefix, IsPrefix
  <2>2. named = SubSeq(named, 1, Len(named)) /\ Len(named) \in 1..Len(trip)
    BY <1>1, <2>1
  <2>3. QED
    BY <2>1, <2>2 DEF CutsOf
<1>4. QED
  BY <1>2, <1>3

AlertsType == /\ DOMAIN feed \subseteq Nat \ {0}
              /\ \A n \in DOMAIN feed : /\ feed[n].effect \in Nat
                                        /\ \A e \in feed[n].entities : e.trip \in Seq(STRING)
              /\ Followed \subseteq Seq(STRING)

\* Two alerts told in the same words say the same of the same.
Repeats == \A m, n \in DOMAIN feed :
              feed[m].words = feed[n].words /\ feed[m].effect = feed[n].effect
              => feed[m].periods = feed[n].periods /\ feed[m].entities = feed[n].entities

\* _scope_of, over an alert no index finds: it says nothing of the journey.
LEMMA HitIsCandidate ==
    ASSUME AlertsType, NEW n \in DOMAIN feed, Hits(ScopeOf(feed[n].entities))
    PROVE  Candidate(n)
<1> DEFINE entities == feed[n].entities
           read == {e \in entities : StopIsRead(e)}
           named == {e \in entities : ~AboutSomethingElse(e) /\ TripsNamed(e) # {}}
<1>1. SUFFICES \E e \in entities : Picked(e)
  BY DEF Candidate
<1>2. \/ \E e \in read : e.stop # Unsaid /\ EndOf(e.stop) # Unsaid
      \/ \E e \in read : NamesWholeLine(e)
      \/ \E e \in named : TripsNamed(e) # {}
  BY DEF Hits, ScopeOf
<1>3. ASSUME NEW e \in read, e.stop # Unsaid, EndOf(e.stop) # Unsaid PROVE Picked(e)
  BY <1>3 DEF EndOf, JourneyStops, Picked
<1>4. ASSUME NEW e \in read, NamesWholeLine(e) PROVE Picked(e)
  <2>1. e.route # NoId => SameRoute(ride.line, e.route)
    BY DEF StopIsRead, AboutSomethingElse
  <2>2. QED
    BY <1>4, <2>1 DEF NamesWholeLine, Picked
<1>5. ASSUME NEW e \in named, NEW trip \in TripsNamed(e) PROVE Picked(e)
  <2>1. trip \in Followed /\ SameTrip(e.trip, trip)
    BY DEF TripsNamed
  <2>2. e.trip \in Seq(STRING) /\ trip \in Seq(STRING)
    BY <2>1 DEF AlertsType
  <2>3. QED
    BY <2>1, <2>2, CutIsFound DEF Picked, SameTrip
<1>6. QED
  BY <1>2, <1>3, <1>4, <1>5

\* _alert_items: the alerts about the ride ahead are the items in force of
\* the end.
LEMMA ItemsInForce ==
    ASSUME AlertsType, NEW end, NEW n
    PROVE  n \in DOMAIN feed /\ AboutThisRide(end, n) <=> n \in ItemsOf(end) /\ ~ForLater(n)
<1>1. ASSUME n \in DOMAIN feed, AboutThisRide(end, n) PROVE n \in ItemsOf(end) /\ ~ForLater(n)
  <2> DEFINE scope == ScopeOf(feed[n].entities)
  <2>1. When(feed[n]) = "now" /\ SpeaksFor(end, scope) /\ ~LaterOnly(scope)
    BY <1>1 DEF AboutThisRide
  <2>2. Hits(scope)
    BY <2>1 DEF SpeaksFor, Hits
  <2>3. Candidate(n)
    BY <1>1, <2>2, HitIsCandidate
  <2> HIDE DEF scope
  <2>4. n \in ItemsOf(end)
    BY <1>1, <2>1, <2>2, <2>3 DEF ItemsOf, scope
  <2>5. ~ForLater(n)
    BY <2>1 DEF ForLater, scope
  <2>6. QED
    BY <2>4, <2>5
<1>2. ASSUME n \in ItemsOf(end), ~ForLater(n) PROVE n \in DOMAIN feed /\ AboutThisRide(end, n)
  <2>1. /\ n \in DOMAIN feed /\ When(feed[n]) # "over"
        /\ SpeaksFor(end, ScopeOf(feed[n].entities))
    BY <1>2 DEF ItemsOf
  <2>2. When(feed[n]) # "later" /\ ~LaterOnly(ScopeOf(feed[n].entities))
    BY <1>2 DEF ForLater
  <2>3. When(feed[n]) \in {"now", "later", "over"}
    BY DEF When
  <2>4. QED
    BY <2>1, <2>2, <2>3 DEF AboutThisRide
<1>3. QED
  BY <1>1, <1>2

\* Of some alerts in force, one is severer than the others.
LEMMA Severest ==
    ASSUME AlertsType, NEW S, S \subseteq DOMAIN feed, S # {}, \A n \in S : ~ForLater(n)
    PROVE  \E b \in S : \A n \in S : n = b \/ Severer(b, n)
<1> DEFINE effects == {feed[n].effect : n \in S}
<1>1. S \subseteq Nat /\ effects \subseteq Nat /\ effects # {}
  BY DEF AlertsType
<1>2. PICK least \in effects : \A k \in effects : least <= k
  BY <1>1, LeastOf
<1> DEFINE worst == {n \in S : feed[n].effect = least}
<1>3. worst \subseteq Nat /\ worst # {}
  BY <1>1, <1>2
<1>4. PICK b \in worst : \A k \in worst : b <= k
  BY <1>3, LeastOf
<1>5. ASSUME NEW n \in S, n # b PROVE Severer(b, n)
  <2>0. ForLater(n) = ForLater(b) /\ n \in Nat /\ b \in Nat
    BY <1>1, <1>4 DEF ForLater
  <2>1. feed[n].effect \in Nat /\ least \in Nat /\ least <= feed[n].effect /\ feed[b].effect = least
    BY <1>1, <1>2, <1>4
  <2>2. CASE feed[n].effect = least
    BY <1>4, <1>5, <2>0, <2>1, <2>2 DEF Severer
  <2>3. CASE feed[n].effect # least
    BY <2>0, <2>1, <2>3 DEF Severer
  <2>4. QED
    BY <2>2, <2>3
<1>6. QED
  BY <1>4, <1>5
\* _rank_alerts: the first alert told in some words stands for the others.
UniqueOf(items) == {n \in items : \A m \in items : SameWords(m, n) => n <= m}

LEMMA FirstOfWords ==
    ASSUME AlertsType, NEW items, items \subseteq DOMAIN feed, NEW m \in items
    PROVE  \E u \in UniqueOf(items) : SameWords(u, m)
<1> DEFINE alike == {k \in items : SameWords(k, m)}
<1>1. alike \subseteq Nat /\ alike # {}
  BY DEF AlertsType, SameWords
<1>2. PICK u \in alike : \A k \in alike : u <= k
  BY <1>1, LeastOf
<1>3. ASSUME NEW k \in items, SameWords(k, u) PROVE u <= k
  BY <1>2, <1>3 DEF SameWords
<1>4. QED
  BY <1>2, <1>3 DEF UniqueOf

LEMMA SentenceIsWorst ==
    ASSUME AlertsType, Repeats, NEW end
    PROVE  LET about == {n \in DOMAIN feed : AboutThisRide(end, n)}
           IN  IF Sentence(end) = 0 THEN about = {}
               ELSE /\ Sentence(end) \in about
                    /\ \A n \in about : feed[Sentence(end)].effect <= feed[n].effect
<1> DEFINE about == {n \in DOMAIN feed : AboutThisRide(end, n)}
           items == ItemsOf(end)
           unique == UniqueOf(items)
           current == {n \in Ranked(items) : ~ForLater(n)}
           first == {n \in unique : ~ForLater(n)}
<1>1. items \subseteq DOMAIN feed /\ about = {n \in items : ~ForLater(n)}
  BY ItemsInForce DEF ItemsOf
<1>2. current = {n \in first : Cardinality({m \in unique : Severer(m, n)}) < ALERTS_KEPT}
  BY DEF Ranked, UniqueOf
<1>3. ASSUME NEW n \in about PROVE \E u \in first : feed[u].effect = feed[n].effect
  <2>1. n \in items /\ ~ForLater(n)
    BY <1>1
  <2>2. PICK u \in unique : SameWords(u, n)
    BY <1>1, <2>1, FirstOfWords
  <2>3. u \in DOMAIN feed /\ n \in DOMAIN feed
    BY <1>1, <2>1 DEF UniqueOf
  <2>4. /\ feed[u].effect = feed[n].effect /\ feed[u].periods = feed[n].periods
        /\ feed[u].entities = feed[n].entities
    BY <2>2, <2>3 DEF SameWords, Repeats
  <2>5. ~ForLater(u)
    BY <2>1, <2>4 DEF ForLater, When
  <2>6. QED
    BY <2>2, <2>4, <2>5
<1>4. unique \subseteq items /\ first \subseteq about
  BY <1>1 DEF UniqueOf
<1> HIDE DEF items, unique
<1>5. CASE first = {}
  <2>1. about = {} /\ current = {}
    BY <1>2, <1>3, <1>5
  <2>2. Sentence(end) = 0
    BY <2>1 DEF Sentence, items
  <2>3. QED
    BY <2>1, <2>2
<1>6. CASE first # {}
  <2>1. PICK b \in first : \A n \in first : n = b \/ Severer(b, n)
    BY <1>1, <1>4, <1>6, Severest
  <2>2. b \in current
    <3>1. ASSUME NEW m \in unique PROVE ~Severer(m, b)
      <4>1. m \in DOMAIN feed /\ b \in DOMAIN feed /\ ~ForLater(b)
        BY <1>1, <1>4
      <4>2. /\ m \in Nat /\ b \in Nat /\ feed[m].effect \in Nat /\ feed[b].effect \in Nat
        BY <4>1 DEF AlertsType
      <4>3. CASE ForLater(m)
        BY <4>1, <4>3 DEF Severer
      <4>4. CASE ~ForLater(m)
        <5>1. m = b \/ Severer(b, m)
          BY <2>1, <4>4
        <5>2. QED
          BY <4>1, <4>2, <4>4, <5>1 DEF Severer
      <4>5. QED
        BY <4>3, <4>4
    <3>2. {m \in unique : Severer(m, b)} = {}
      BY <3>1
    <3>3. Cardinality({m \in unique : Severer(m, b)}) = 0
      BY <3>2, FS_EmptySet
    <3>4. QED
      BY <1>2, <3>3, KeptAssumption
  <2> DEFINE foremost(n) == \A m \in current \ {n} : Severer(n, m)
  <2>3. foremost(b)
    BY <1>2, <2>1
  <2>4. Sentence(end) = CHOOSE n \in current : foremost(n)
    BY <2>2 DEF Sentence, items
  <2> HIDE DEF foremost
  <2>5. Sentence(end) \in current /\ foremost(Sentence(end))
    BY <2>2, <2>3, <2>4
  <2> DEFINE shown == Sentence(end)
  <2>6. shown \in first /\ shown \in about /\ shown \in DOMAIN feed /\ shown # 0
    BY <1>2, <1>4, <2>5 DEF AlertsType
  <2>7. feed[shown].effect <= feed[b].effect
    <3>1. shown = b \/ Severer(shown, b)
      BY <2>2, <2>5 DEF foremost
    <3>2. b \in DOMAIN feed /\ feed[shown].effect \in Nat /\ feed[b].effect \in Nat
      BY <1>4, <2>6 DEF AlertsType
    <3>3. QED
      BY <2>6, <3>1, <3>2 DEF Severer
  <2>8. ASSUME NEW n \in about PROVE feed[shown].effect <= feed[n].effect
    <3>1. PICK u \in first : feed[u].effect = feed[n].effect
      BY <1>3
    <3>2. /\ feed[shown].effect \in Nat /\ feed[b].effect \in Nat /\ feed[u].effect \in Nat
      BY <1>4, <2>6, <3>1 DEF AlertsType
    <3>3. feed[b].effect <= feed[u].effect
      BY <2>1, <3>1, <3>2 DEF Severer
    <3>4. QED
      BY <2>7, <3>1, <3>2, <3>3
  <2>9. QED
    BY <2>6, <2>8
<1>7. QED
  BY <1>5, <1>6

\* The sentence is one of the feed and the ride alone.
LEMMA SameSentence ==
    ASSUME feed' = feed, ride' = ride, NEW end
    PROVE  Sentence(end)' = Sentence(end)
<1>1. \A e : AboutSomethingElse(e)' <=> AboutSomethingElse(e)
  BY DEF AboutSomethingElse
<1>2. Followed' = Followed /\ JourneyStops' = JourneyStops /\ \A stop : EndOf(stop)' = EndOf(stop)
  BY DEF Followed, JourneyStops, EndOf
<1>3. \A e : TripsNamed(e)' = TripsNamed(e)
  BY <1>2 DEF TripsNamed
<1>4. \A e : StopIsRead(e)' <=> StopIsRead(e)
  BY <1>1, <1>3 DEF StopIsRead
<1>5. \A entities : ScopeOf(entities)' = ScopeOf(entities)
  BY <1>1, <1>2, <1>3, <1>4 DEF ScopeOf
<1>6. \A scope : LaterOnly(scope)' <=> LaterOnly(scope)
  BY DEF LaterOnly
<1>7. \A n : ForLater(n)' <=> ForLater(n)
  BY <1>5, <1>6 DEF ForLater
<1>8. \A e : Picked(e)' <=> Picked(e)
  BY <1>2 DEF Picked
<1>9. \A n : Candidate(n)' <=> Candidate(n)
  BY <1>8 DEF Candidate
<1>10. ItemsOf(end)' = ItemsOf(end)
  BY <1>5, <1>9 DEF ItemsOf
<1>11. \A m, n : SameWords(m, n)' <=> SameWords(m, n)
  BY <1>5 DEF SameWords
<1>12. \A m, n : Severer(m, n)' <=> Severer(m, n)
  BY <1>7 DEF Severer
<1>13. Ranked(ItemsOf(end))' = Ranked(ItemsOf(end))
  BY <1>10, <1>11, <1>12 DEF Ranked
<1> DEFINE current == {n \in Ranked(ItemsOf(end)) : ~ForLater(n)}
           shown == {n \in current : \A m \in current \ {n} : Severer(n, m)}
<1>14. current' = current
  BY <1>7, <1>13
<1>15. shown' = shown
  BY <1>12, <1>14
<1>16. Sentence(end) = (IF current = {} THEN 0 ELSE CHOOSE n \in shown : TRUE)
  BY DEF Sentence
<1>17. Sentence(end)' = (IF current' = {} THEN 0 ELSE CHOOSE n \in shown' : TRUE)
  BY DEF Sentence
<1> HIDE DEF current, shown
<1>18. QED
  BY <1>14, <1>15, <1>16, <1>17

\* What a feed says over and over in the same words, it says of the same
\* stops and the same days.
RepeatsOnly ==
    \A f \in AlertFeeds : \A m, n \in DOMAIN f :
        f[m].words = f[n].words /\ f[m].effect = f[n].effect
        => f[m].periods = f[n].periods /\ f[m].entities = f[n].entities

\* journey_alerts: for any feed, journey and length of the list, the sentence
\* of each end is of the worst alert in force about the ride ahead, and there
\* is one as soon as there is any.
THEOREM WorstIsSaidAlways == ASSUME RepeatsOnly PROVE AlertsSpec => []WorstIsSaid
<1> DEFINE Inv == /\ feed \in AlertFeeds /\ ride \in JourneyRides
                  /\ said \in {<<>>, <<Sentence("origin"), Sentence("destination")>>}
<1>1. AlertsInit => Inv
  BY DEF AlertsInit
<1>2. Inv /\ [ReadAlerts]_alerts => Inv'
  <2>1. SUFFICES ASSUME Inv, [ReadAlerts]_alerts PROVE Inv'
    OBVIOUS
  <2>2. feed' = feed /\ ride' = ride
    BY <2>1 DEF ReadAlerts, alerts
  <2>3. \A end : Sentence(end)' = Sentence(end)
    BY <2>2, SameSentence
  <2>4. QED
    BY <2>1, <2>2, <2>3 DEF ReadAlerts, alerts
<1>3. Inv => WorstIsSaid
  <2>1. SUFFICES ASSUME Inv PROVE WorstIsSaid
    OBVIOUS
  <2>2. AlertsType /\ Repeats
    BY <2>1, AlertsAssumption, TripIdsAssumption DEF AlertsType, Followed, Repeats, RepeatsOnly
  <2>3. SUFFICES ASSUME said = <<Sentence("origin"), Sentence("destination")>> PROVE WorstIsSaid
    BY <2>1 DEF WorstIsSaid
  <2>4. said[1] = Sentence("origin") /\ said[2] = Sentence("destination")
    BY <2>3
  <2>5. QED
    BY <2>2, <2>4, SentenceIsWorst DEF WorstIsSaid
<1>4. QED
  BY <1>1, <1>2, <1>3, PTL DEF AlertsSpec
----------------------------------------------------------------------------
(* The rides of a trip between two places *)

Rideable(calls, from, to, i, j) ==
    /\ i \in DOMAIN calls /\ j \in DOMAIN calls /\ i < j
    /\ GetsOn(calls[i], {from}) /\ GetsOff(calls[j], {to})
    /\ NoCallBetween(calls, i, j, {from}, {to})

TripShape(trip) == DOMAIN trip.calls = 1..Len(trip.calls) /\ Len(trip.calls) \in Nat
Timed(trip) == \A k \in DOMAIN trip.calls : trip.calls[k].timed

LEMMA CandidatesBetween ==
    ASSUME NEW trip, NEW from, NEW to, Timed(trip)
    PROVE  \A r : r \in Candidates(trip, {from}, {to}, FALSE)
                  <=> \E i, j \in DOMAIN trip.calls : r = <<i, j>> /\ Rideable(trip.calls, from, to, i, j)
<1> DEFINE D == DOMAIN trip.calls
           timed == {k \in D : trip.calls[k].timed}
<1>1. Cardinality({from}) = 1 /\ Cardinality({to}) = 1
  BY FS_Singleton
<1>2. timed = D
  BY DEF Timed
<1>3. \A i, j : BusRide(trip.calls, i, j, {from}, {to}) = NoCallBetween(trip.calls, i, j, {from}, {to})
  BY <1>1 DEF BusRide
<1>4. Candidates(trip, {from}, {to}, FALSE)
      = {r \in D \X D : /\ r[1] < r[2] /\ GetsOn(trip.calls[r[1]], {from}) /\ GetsOff(trip.calls[r[2]], {to})
                        /\ NoCallBetween(trip.calls, r[1], r[2], {from}, {to})}
  BY <1>2, <1>3 DEF Candidates
<1> HIDE DEF D
<1>5. \A r : r \in D \X D <=> \E i, j \in D : r = <<i, j>>
  OBVIOUS
<1>6. \A i, j : Rideable(trip.calls, from, to, i, j)
                <=> /\ i \in D /\ j \in D /\ i < j
                    /\ GetsOn(trip.calls[i], {from}) /\ GetsOff(trip.calls[j], {to})
                    /\ NoCallBetween(trip.calls, i, j, {from}, {to})
  BY DEF Rideable, D
<1>7. \A r : r \in Candidates(trip, {from}, {to}, FALSE)
             <=> \E i, j \in D : r = <<i, j>> /\ Rideable(trip.calls, from, to, i, j)
  <2>1. TAKE r
  <2>2. ASSUME NEW i \in D, NEW j \in D, r = <<i, j>>
        PROVE  r \in Candidates(trip, {from}, {to}, FALSE) <=> Rideable(trip.calls, from, to, i, j)
    BY <1>4, <1>6, <2>2
  <2>3. r \in Candidates(trip, {from}, {to}, FALSE) => r \in D \X D
    BY <1>4
  <2>4. QED
    BY <1>5, <2>2, <2>3
<1>8. QED
  BY <1>7 DEF D

\* A trip that lets on at one place and off later at the other holds a ride.
LEMMA RideWithin ==
    ASSUME NEW calls, NEW from, NEW to, DOMAIN calls = 1..Len(calls), Len(calls) \in Nat,
           NEW a \in DOMAIN calls, NEW b \in DOMAIN calls,
           a < b, GetsOn(calls[a], {from}), GetsOff(calls[b], {to})
    PROVE  \E i, j \in DOMAIN calls : Rideable(calls, from, to, i, j)
<1> DEFINE Ends(i, j) == /\ i \in DOMAIN calls /\ j \in DOMAIN calls /\ i < j
                         /\ GetsOn(calls[i], {from}) /\ GetsOff(calls[j], {to})
           Long == {n \in Nat : \E i, j \in DOMAIN calls : Ends(i, j) /\ n = j - i}
<1>1. \A i \in DOMAIN calls : i \in Nat
  OBVIOUS
<1>2. \A i, j \in DOMAIN calls : Ends(i, j) => j - i \in Long
  BY <1>1
<1>3. Ends(a, b)
  OBVIOUS
<1>4. \A n \in Long : \E i, j \in DOMAIN calls : Ends(i, j) /\ n = j - i
  OBVIOUS
<1>5. Long \subseteq Nat
  OBVIOUS
<1> HIDE DEF Long
<1>6. PICK n \in Long : \A m \in Long : n <= m
  <2>1. Long # {}
    BY <1>2, <1>3
  <2>2. QED
    BY <1>5, <2>1, LeastOf
<1>7. PICK i \in DOMAIN calls, j \in DOMAIN calls : Ends(i, j) /\ n = j - i
  BY <1>6, <1>4
<1>8. ASSUME NEW k \in i + 1..j - 1, GetsOn(calls[k], {from}) \/ GetsOff(calls[k], {to}) PROVE FALSE
  <2>1. k \in DOMAIN calls /\ i < k /\ k < j /\ k \in Nat /\ i \in Nat /\ j \in Nat
    BY <1>1, <1>7
  <2>2. CASE GetsOn(calls[k], {from})
    <3>1. Ends(k, j)
      BY <1>7, <2>1, <2>2
    <3>2. j - k \in Long
      BY <1>2, <2>1, <3>1
    <3>3. j - i <= j - k
      BY <1>6, <1>7, <3>2
    <3>4. QED
      BY <2>1, <3>3
  <2>3. CASE GetsOff(calls[k], {to})
    <3>1. Ends(i, k)
      BY <1>7, <2>1, <2>3
    <3>2. k - i \in Long
      BY <1>2, <2>1, <3>1
    <3>3. j - i <= k - i
      BY <1>6, <1>7, <3>2
    <3>4. QED
      BY <2>1, <3>3
  <2>4. QED
    BY <1>8, <2>2, <2>3
<1>9. QED
  BY <1>7, <1>8 DEF Rideable, NoCallBetween
\* What the pass over the calls has found after the first n: the ride it
\* keeps is none longer than any of theirs, and the boarding it holds is the
\* only one a ride can still begin with.
Held(calls, from, to, n, met) ==
    /\ met \in [on : Nat, best : {<<>>} \cup (Nat \X Nat)]
    /\ met.on # 0 => /\ met.on \in 1..n /\ GetsOn(calls[met.on], {from})
                     /\ \A k \in met.on + 1..n : ~GetsOn(calls[k], {from}) /\ ~GetsOff(calls[k], {to})
    /\ met.on = 0 => \A k \in 1..n : GetsOn(calls[k], {from}) => \E l \in k + 1..n : GetsOff(calls[l], {to})
    /\ met.best # <<>> => Rideable(calls, from, to, met.best[1], met.best[2])
    /\ \A i, j \in DOMAIN calls : j <= n /\ Rideable(calls, from, to, i, j)
                                  => met.best # <<>> /\ met.best[2] - met.best[1] <= j - i

LEMMA HeldBefore ==
    ASSUME NEW calls, NEW from, NEW to, DOMAIN calls = 1..Len(calls), Len(calls) \in Nat
    PROVE  Held(calls, from, to, 0, [on |-> 0, best |-> <<>>])
<1>1. \A j \in DOMAIN calls : ~(j <= 0)
  OBVIOUS
<1>2. QED
  BY <1>1 DEF Held

LEMMA HeldOn ==
    ASSUME NEW calls, NEW from, NEW to, DOMAIN calls = 1..Len(calls), Len(calls) \in Nat, from # to,
           NEW n \in DOMAIN calls, NEW met, Held(calls, from, to, n - 1, met)
    PROVE  Held(calls, from, to, n, MeetCall(calls, n, from, to, met))
<1> DEFINE on(k) == GetsOn(calls[k], {from})
           off(k) == GetsOff(calls[k], {to})
           next == MeetCall(calls, n, from, to, met)
           Ride(i, j) == Rideable(calls, from, to, i, j)
<1>1. /\ n \in Nat /\ 1 <= n /\ n - 1 \in Nat
      /\ \A k : k \in DOMAIN calls => k \in Nat /\ 1 <= k
      /\ \A k : k \in 1..n => k = n \/ k \in 1..n - 1
      /\ \A j \in DOMAIN calls : j <= n => j = n \/ j <= n - 1
  OBVIOUS
<1>2. \A k : ~(on(k) /\ off(k))
  BY DEF GetsOn, GetsOff
<1>3. /\ met \in [on : Nat, best : {<<>>} \cup (Nat \X Nat)]
      /\ met.on # 0 => /\ met.on \in 1..n - 1 /\ on(met.on)
                       /\ \A k \in met.on + 1..n - 1 : ~on(k) /\ ~off(k)
      /\ met.on = 0 => \A k \in 1..n - 1 : on(k) => \E l \in k + 1..n - 1 : off(l)
      /\ met.best # <<>> => Ride(met.best[1], met.best[2])
      /\ \A i, j \in DOMAIN calls : j <= n - 1 /\ Ride(i, j)
                                    => met.best # <<>> /\ met.best[2] - met.best[1] <= j - i
  BY DEF Held
<1>4. \A i \in DOMAIN calls : Ride(i, n) => /\ i \in 1..n - 1 /\ on(i) /\ off(n)
                                            /\ \A k \in i + 1..n - 1 : ~on(k) /\ ~off(k)
  <2>1. TAKE i \in DOMAIN calls
  <2>2. HAVE Ride(i, n)
  <2>3. i < n /\ on(i) /\ off(n) /\ NoCallBetween(calls, i, n, {from}, {to})
    BY <2>2 DEF Rideable
  <2>4. \A k \in i + 1..n - 1 : ~on(k) /\ ~off(k)
    BY <2>3 DEF NoCallBetween
  <2>5. i \in 1..n - 1
    BY <1>1, <2>3
  <2> HIDE DEF on, off
  <2>6. QED
    BY <2>3, <2>4, <2>5
<1>5. CASE on(n)
  <2>1. next = [met EXCEPT !.on = n]
    BY <1>5 DEF MeetCall
  <2>2. next \in [on : Nat, best : {<<>>} \cup (Nat \X Nat)] /\ next.on = n /\ next.best = met.best
    BY <1>1, <1>3, <2>1
  <2>3. \A i \in DOMAIN calls : ~Ride(i, n)
    BY <1>2, <1>4, <1>5
  <2>4. \A k \in n + 1..n : ~on(k) /\ ~off(k)
    BY <1>1
  <2> HIDE DEF next, on, off, Ride
  <2>5. \A i, j \in DOMAIN calls : j <= n /\ Ride(i, j)
                                   => next.best # <<>> /\ next.best[2] - next.best[1] <= j - i
    BY <1>1, <1>3, <2>2, <2>3
  <2>6. n \in 1..n /\ n # 0
    BY <1>1
  <2>7. QED
    BY <1>3, <1>5, <2>2, <2>4, <2>5, <2>6 DEF Held, next, on, off, Ride
<1>6. CASE ~on(n) /\ off(n) /\ met.on # 0
  <2> DEFINE m == met.on
             shorter == met.best = <<>> \/ n - m < met.best[2] - met.best[1]
  <2>1. next = [on |-> 0, best |-> IF shorter THEN <<m, n>> ELSE met.best]
    BY <1>6 DEF MeetCall
  <2>2. m \in Nat /\ m \in 1..n - 1 /\ on(m) /\ \A k \in m + 1..n - 1 : ~on(k) /\ ~off(k)
    BY <1>3, <1>6
  <2>3. Ride(m, n)
    <3>1. NoCallBetween(calls, m, n, {from}, {to})
      BY <2>2 DEF NoCallBetween
    <3>2. m \in DOMAIN calls /\ m < n
      BY <1>1, <2>2
    <3> HIDE DEF m
    <3>3. QED
      BY <1>6, <2>2, <3>1, <3>2 DEF Rideable
  <2>4. /\ next \in [on : Nat, best : {<<>>} \cup (Nat \X Nat)] /\ next.on = 0
        /\ next.best = IF shorter THEN <<m, n>> ELSE met.best
    BY <1>1, <1>3, <2>1, <2>2
  <2> HIDE DEF next
  <2>5. \A k \in 1..n : on(k) => \E l \in k + 1..n : off(l)
    <3>1. \A k \in 1..n - 1 : n \in k + 1..n
      BY <1>1
    <3> HIDE DEF on, off
    <3>2. QED
      BY <1>1, <1>6, <3>1
  <2>6. \A i \in DOMAIN calls : Ride(i, n) => i = m
    <3>1. TAKE i \in DOMAIN calls
    <3>2. HAVE Ride(i, n)
    <3>3. i \in 1..n - 1 /\ on(i) /\ \A k \in i + 1..n - 1 : ~on(k) /\ ~off(k)
      BY <1>4, <3>2
    <3> HIDE DEF on, off, m
    <3>4. ~(m \in i + 1..n - 1) /\ ~(i \in m + 1..n - 1)
      BY <2>2, <3>3
    <3>5. QED
      BY <1>1, <2>2, <3>3, <3>4
  <2>7. met.best # <<>> => met.best[1] \in Nat /\ met.best[2] \in Nat
    BY <1>3
  <2>8. /\ next.best # <<>> /\ Ride(next.best[1], next.best[2])
        /\ next.best[2] - next.best[1] <= n - m
        /\ met.best # <<>> => next.best[2] - next.best[1] <= met.best[2] - met.best[1]
    <3>1. CASE shorter
      <4>1. next.best[1] = m /\ next.best[2] = n /\ next.best # <<>>
        BY <2>4, <3>1
      <4> HIDE DEF m, Ride
      <4>2. n - m <= n - m
        BY <1>1, <2>2
      <4>3. met.best # <<>> => n - m <= met.best[2] - met.best[1]
        BY <1>1, <2>2, <2>7, <3>1
      <4>4. QED
        BY <2>3, <4>1, <4>2, <4>3
    <3>2. CASE ~shorter
      <4>1. next.best = met.best /\ met.best # <<>>
        BY <2>4, <3>2
      <4>2. Ride(met.best[1], met.best[2])
        BY <1>3, <4>1
      <4> HIDE DEF m, Ride
      <4>3. met.best[2] - met.best[1] <= n - m
        BY <1>1, <2>2, <2>7, <3>2, <4>1
      <4>4. met.best[2] - met.best[1] <= met.best[2] - met.best[1]
        BY <2>7, <4>1
      <4>5. QED
        BY <4>1, <4>2, <4>3, <4>4
    <3>3. QED
      BY <3>1, <3>2
  <2>9. \A i, j \in DOMAIN calls : j <= n /\ Ride(i, j)
                                   => next.best # <<>> /\ next.best[2] - next.best[1] <= j - i
    <3>1. TAKE i, j \in DOMAIN calls
    <3>2. HAVE j <= n /\ Ride(i, j)
    <3>3. i \in Nat /\ j \in Nat /\ next.best[1] \in Nat /\ next.best[2] \in Nat
      BY <1>1, <2>8 DEF Rideable
    <3> HIDE DEF m, Ride
    <3>4. CASE j = n
      BY <2>6, <2>8, <3>2, <3>4
    <3>5. CASE j <= n - 1
      <4>1. met.best # <<>> /\ met.best[2] - met.best[1] <= j - i
        BY <1>3, <3>2, <3>5
      <4>2. met.best[1] \in Nat /\ met.best[2] \in Nat
        BY <2>7, <4>1
      <4>3. next.best # <<>> /\ next.best[2] - next.best[1] <= met.best[2] - met.best[1]
        BY <2>8, <4>1
      <4>4. next.best[2] - next.best[1] <= j - i
        <5>1. PICK a, b \in Nat : a = next.best[1] /\ b = next.best[2]
          BY <3>3
        <5>2. PICK c, d \in Nat : c = met.best[1] /\ d = met.best[2]
          BY <4>2
        <5>3. b - a <= d - c
          BY <4>3, <5>1, <5>2
        <5>4. d - c <= j - i
          BY <4>1, <5>2
        <5>5. i \in Nat /\ j \in Nat
          BY <3>3
        <5>6. b - a <= j - i
          BY <5>3, <5>4, <5>5
        <5>7. QED
          BY <5>1, <5>6
      <4>5. QED
        BY <4>3, <4>4
    <3>6. QED
      BY <1>1, <3>2, <3>4, <3>5
  <2>10. QED
    <3> HIDE DEF on, off, Ride, m
    <3>1. QED
      BY <2>4, <2>5, <2>8, <2>9 DEF Held, next, on, off, Ride
<1>7. CASE ~on(n) /\ ~(off(n) /\ met.on # 0)
  <2>1. next = met
    BY <1>7 DEF MeetCall
  <2> HIDE DEF next
  <2>2. \A i \in DOMAIN calls : ~Ride(i, n)
    <3>1. SUFFICES ASSUME NEW i \in DOMAIN calls, Ride(i, n) PROVE FALSE
      OBVIOUS
    <3>2. i \in 1..n - 1 /\ on(i) /\ off(n) /\ \A k \in i + 1..n - 1 : ~on(k) /\ ~off(k)
      BY <1>4, <3>1
    <3>3. met.on = 0
      BY <1>7, <3>2
    <3> HIDE DEF on, off
    <3>4. QED
      BY <1>3, <3>2, <3>3
  <2>3. met.on = 0 => \A k \in 1..n : on(k) => \E l \in k + 1..n : off(l)
    <3>1. \A k \in 1..n - 1 : \A l \in k + 1..n - 1 : l \in k + 1..n
      BY <1>1
    <3> HIDE DEF on, off
    <3>2. QED
      BY <1>1, <1>3, <1>7, <3>1
  <2>4. met.on # 0 => /\ met.on \in 1..n
                      /\ \A k \in met.on + 1..n : ~on(k) /\ ~off(k)
    <3>1. \A k \in met.on + 1..n : met.on \in Nat => k = n \/ k \in met.on + 1..n - 1
      BY <1>1
    <3> HIDE DEF on, off
    <3>2. QED
      BY <1>1, <1>3, <1>7, <3>1
  <2>5. \A i, j \in DOMAIN calls : j <= n /\ Ride(i, j)
                                   => met.best # <<>> /\ met.best[2] - met.best[1] <= j - i
    <3> HIDE DEF Ride
    <3>1. QED
      BY <1>1, <1>3, <2>2
  <2>6. QED
    <3> HIDE DEF on, off, Ride
    <3>1. QED
      BY <1>3, <2>1, <2>3, <2>4, <2>5 DEF Held, next, on, off, Ride
<1>8. QED
  BY <1>5, <1>6, <1>7
\* _shortest_ride answers a ride of the trip, none of whose rides is shorter.
LEMMA ShortestIsRide ==
    ASSUME NEW calls, NEW from, NEW to, DOMAIN calls = 1..Len(calls), Len(calls) \in Nat, from # to
    PROVE  \E on \in Nat : Held(calls, from, to, Len(calls), [on |-> on, best |-> ShortestRide(calls, from, to)])
<1> DEFINE none == [on |-> 0, best |-> <<>>]
           Scan(n, f) == f = [k \in 0..n |-> IF k = 0 THEN none ELSE MeetCall(calls, k, from, to, f[k - 1])]
           Missing == {n \in Nat : n <= Len(calls) /\ ~\E f : Scan(n, f)}
<1>1. Missing = {}
  <2>1. SUFFICES ASSUME Missing # {} PROVE FALSE
    OBVIOUS
  <2>2. PICK m \in Missing : \A k \in Missing : m <= k
    BY <2>1, LeastOf
  <2>3. CASE m = 0
    <3>1. Scan(0, [k \in 0..0 |-> none])
      OBVIOUS
    <3> HIDE DEF Scan
    <3>2. QED
      BY <2>2, <2>3, <3>1
  <2>4. CASE m # 0
    <3>1. m \in Nat /\ m - 1 \in Nat /\ m - 1 <= Len(calls) /\ m - 1 \notin Missing
      <4>1. m \in Nat /\ m <= Len(calls)
        BY <2>2
      <4>2. m - 1 \in Nat /\ m - 1 <= Len(calls) /\ ~(m <= m - 1)
        BY <2>4, <4>1
      <4> HIDE DEF Missing
      <4>3. QED
        BY <2>2, <4>1, <4>2
    <3>2. PICK f : Scan(m - 1, f)
      BY <3>1
    <3> DEFINE g == [k \in 0..m |-> IF k = m THEN MeetCall(calls, k, from, to, f[k - 1]) ELSE f[k]]
    <3>3. ASSUME NEW k \in 0..m PROVE g[k] = IF k = 0 THEN none ELSE MeetCall(calls, k, from, to, g[k - 1])
      <4>1. CASE k = m
        <5>1. k # 0 /\ k - 1 \in 0..m /\ k - 1 # m
          BY <2>4, <3>1, <4>1
        <5>2. g[k - 1] = f[k - 1]
          BY <5>1
        <5>3. QED
          BY <4>1, <5>1, <5>2
      <4>2. CASE k # m
        <5>1. k \in 0..m - 1 /\ (k # 0 => k - 1 \in 0..m /\ k - 1 # m)
          BY <3>1, <4>2
        <5>2. f[k] = IF k = 0 THEN none ELSE MeetCall(calls, k, from, to, f[k - 1])
          BY <3>2, <5>1
        <5>3. g[k] = f[k] /\ (k # 0 => g[k - 1] = f[k - 1])
          BY <4>2, <5>1
        <5>4. QED
          BY <5>2, <5>3
      <4>3. QED
        BY <4>1, <4>2
    <3>4. Scan(m, g)
      BY <3>3
    <3> HIDE DEF g, Scan
    <3>5. QED
      BY <2>2, <3>4
  <2>5. QED
    BY <2>3, <2>4
<1> DEFINE e == CHOOSE f : Scan(Len(calls), f)
<1>2. ShortestRide(calls, from, to) = e[Len(calls)].best
  BY DEF ShortestRide
<1>3. Scan(Len(calls), e)
  <2>1. \E f : Scan(Len(calls), f)
    BY <1>1
  <2> HIDE DEF Scan
  <2>2. QED
    BY <2>1
<1>4. \A k \in 0..Len(calls) : e[k] = IF k = 0 THEN none ELSE MeetCall(calls, k, from, to, e[k - 1])
  BY <1>3
<1> HIDE DEF e
<1> DEFINE Odd == {n \in Nat : n <= Len(calls) /\ ~Held(calls, from, to, n, e[n])}
<1>5. Odd = {}
  <2>1. SUFFICES ASSUME Odd # {} PROVE FALSE
    OBVIOUS
  <2>2. PICK m \in Odd : \A k \in Odd : m <= k
    BY <2>1, LeastOf
  <2>3. e[m] = IF m = 0 THEN none ELSE MeetCall(calls, m, from, to, e[m - 1])
    BY <1>4, <2>2
  <2>4. CASE m = 0
    BY <2>2, <2>3, <2>4, HeldBefore
  <2>5. CASE m # 0
    <3>1. m \in Nat /\ m <= Len(calls) /\ ~Held(calls, from, to, m, e[m])
      BY <2>2
    <3>2. m \in DOMAIN calls /\ m - 1 \in Nat /\ m - 1 <= Len(calls) /\ ~(m <= m - 1)
      BY <2>5, <3>1
    <3>3. Held(calls, from, to, m - 1, e[m - 1])
      BY <2>2, <3>2
    <3>4. Held(calls, from, to, m, MeetCall(calls, m, from, to, e[m - 1]))
      BY <3>2, <3>3, HeldOn
    <3>5. QED
      BY <2>3, <2>5, <3>1, <3>4
  <2>6. QED
    BY <2>4, <2>5
<1>6. Held(calls, from, to, Len(calls), e[Len(calls)])
  BY <1>5
<1>7. PICK met : met = e[Len(calls)]
  OBVIOUS
<1>8. met \in [on : Nat, best : {<<>>} \cup (Nat \X Nat)]
  BY <1>6, <1>7 DEF Held
<1>9. met = [on |-> met.on, best |-> ShortestRide(calls, from, to)] /\ met.on \in Nat
  BY <1>2, <1>7, <1>8
<1>10. QED
  BY <1>6, <1>7, <1>9
LEMMA ShortestOfCandidates ==
    ASSUME NEW trip, NEW from, NEW to, TripShape(trip), Timed(trip), from # to
    PROVE  LET least == ShortestRide(trip.calls, from, to)
               found == Candidates(trip, {from}, {to}, FALSE)
           IN  /\ least # <<>> => least \in found /\ least[1] \in Nat /\ least[2] \in Nat
               /\ \A c \in found : /\ least # <<>> /\ least[2] - least[1] <= c[2] - c[1]
                                    /\ c[1] \in Nat /\ c[2] \in Nat
<1> DEFINE calls == trip.calls
           least == ShortestRide(calls, from, to)
           its == Candidates(trip, {from}, {to}, FALSE)
<1>1. DOMAIN calls = 1..Len(calls) /\ Len(calls) \in Nat
  BY DEF TripShape
<1>2. PICK on \in Nat : Held(calls, from, to, Len(calls), [on |-> on, best |-> least])
  BY <1>1, ShortestIsRide
<1>3. \A r : r \in its <=> \E i, j \in DOMAIN calls : r = <<i, j>> /\ Rideable(calls, from, to, i, j)
  BY CandidatesBetween
<1>4. /\ least \in {<<>>} \cup (Nat \X Nat)
      /\ least # <<>> => Rideable(calls, from, to, least[1], least[2])
      /\ \A i, j \in DOMAIN calls : j <= Len(calls) /\ Rideable(calls, from, to, i, j)
                                    => least # <<>> /\ least[2] - least[1] <= j - i
  <2>1. PICK met : met = [on |-> on, best |-> least]
    OBVIOUS
  <2>2. met.best = least /\ met \in [on : Nat, best : {<<>>} \cup (Nat \X Nat)]
    BY <1>2, <2>1 DEF Held
  <2> HIDE DEF least
  <2>3. QED
    BY <1>2, <2>1, <2>2 DEF Held
<1> HIDE DEF least, its
<1>5. ASSUME least # <<>> PROVE least \in its /\ least[1] \in Nat /\ least[2] \in Nat
  <2>1. least \in Nat \X Nat
    BY <1>4, <1>5
  <2>2. least = <<least[1], least[2]>> /\ least[1] \in Nat /\ least[2] \in Nat
    BY <2>1
  <2>3. Rideable(calls, from, to, least[1], least[2])
    BY <1>4, <1>5
  <2>4. least[1] \in DOMAIN calls /\ least[2] \in DOMAIN calls
    BY <2>3 DEF Rideable
  <2>5. QED
    BY <1>3, <2>2, <2>3, <2>4
<1>6. ASSUME NEW c \in its
      PROVE  least # <<>> /\ least[2] - least[1] <= c[2] - c[1] /\ c[1] \in Nat /\ c[2] \in Nat
  <2>1. PICK i \in DOMAIN calls, j \in DOMAIN calls : c = <<i, j>> /\ Rideable(calls, from, to, i, j)
    BY <1>3
  <2>2. c[1] = i /\ c[2] = j /\ i \in Nat /\ j \in Nat /\ j <= Len(calls)
    BY <1>1, <2>1
  <2>3. QED
    BY <1>4, <2>1, <2>2
<1>7. QED
  BY <1>5, <1>6 DEF least, its

LEMMA ListedRides ==
    ASSUME NEW line, NEW from, NEW to, NEW train \in BOOLEAN, NEW way
    PROVE  \A r : r \in Listed(line, from, to, train, way)
                  <=> \E trip \in line : \E c \in Candidates(trip, from, to, train) :
                         r = <<trip, c>> /\ (train \/ way = NoWay \/ trip.way \in {way, NoWay})
<1> DEFINE found(trip) == Candidates(trip, from, to, train)
           every == UNION {{trip} \X found(trip) : trip \in line}
<1>1. \A r : r \in every <=> \E trip \in line : r \in {trip} \X found(trip)
  OBVIOUS
<1>2. \A r, trip : r \in {trip} \X found(trip) <=> \E c \in found(trip) : r = <<trip, c>>
  <2> HIDE DEF found
  <2>1. QED
    OBVIOUS
<1> DEFINE kept(trip) == train \/ way = NoWay \/ trip.way \in {way, NoWay}
<1>3. \A r : r \in Listed(line, from, to, train, way) <=> r \in every /\ kept(r[1])
  BY DEF Listed
<1> HIDE DEF every, found, kept
<1>4. \A r, trip, c : r = <<trip, c>> => r[1] = trip
  OBVIOUS
<1>5. \A r : r \in Listed(line, from, to, train, way)
             <=> \E trip \in line : \E c \in found(trip) : r = <<trip, c>> /\ kept(trip)
  BY <1>1, <1>2, <1>3, <1>4
<1>6. QED
  BY <1>5 DEF found, kept

LEMMA ExistsIffListed ==
    ASSUME NEW line, NEW from, NEW to, \A trip \in line : TripShape(trip) /\ Timed(trip)
    PROVE  HasTripBetween(line, from, to) <=> Listed(line, {from}, {to}, FALSE, NoWay) # {}
<1> DEFINE all == Listed(line, {from}, {to}, FALSE, NoWay)
<1>1. \A r : r \in all <=> \E trip \in line : \E c \in Candidates(trip, {from}, {to}, FALSE) : r = <<trip, c>>
  <2>1. PICK bus \in BOOLEAN : bus = FALSE
    OBVIOUS
  <2>2. PICK f, t : f = {from} /\ t = {to}
    OBVIOUS
  <2>3. \A r : r \in Listed(line, f, t, bus, NoWay)
               <=> \E trip \in line : \E c \in Candidates(trip, f, t, bus) : r = <<trip, c>>
    BY ListedRides
  <2>4. QED
    BY <2>1, <2>2, <2>3
<1> HIDE DEF all
<1>2. ASSUME HasTripBetween(line, from, to) PROVE all # {}
  <2>1. PICK trip \in line : \E i, j \in DOMAIN trip.calls :
                                i < j /\ GetsOn(trip.calls[i], {from}) /\ GetsOff(trip.calls[j], {to})
    BY <1>2 DEF HasTripBetween
  <2>2. TripShape(trip) /\ Timed(trip)
    OBVIOUS
  <2>3. PICK i \in DOMAIN trip.calls, j \in DOMAIN trip.calls : Rideable(trip.calls, from, to, i, j)
    BY <2>1, <2>2, RideWithin DEF TripShape
  <2>4. <<i, j>> \in Candidates(trip, {from}, {to}, FALSE)
    BY <2>2, <2>3, CandidatesBetween
  <2>5. QED
    BY <1>1, <2>4
<1>3. ASSUME all # {} PROVE HasTripBetween(line, from, to)
  <2>1. PICK trip \in line : \E c : c \in Candidates(trip, {from}, {to}, FALSE)
    BY <1>1, <1>3
  <2>2. PICK i \in DOMAIN trip.calls, j \in DOMAIN trip.calls : Rideable(trip.calls, from, to, i, j)
    BY <2>1, CandidatesBetween
  <2>3. QED
    BY <2>2 DEF HasTripBetween, Rideable
<1>4. QED
  BY <1>2, <1>3 DEF all
\* A direction kept at a loop's terminus is that of a trip whose shortest
\* ride is none longer than any trip's.
LEMMA KeptWayIsShortest ==
    ASSUME NEW line, NEW from, NEW to, PairDirection(line, from, to) # NoWay
    PROVE  LET short(t) == ShortestRide(t.calls, from, to)
           IN  \E t \in line : /\ t.way = PairDirection(line, from, to) /\ short(t) # <<>>
                               /\ \A u \in line : short(u) # <<>> => short(t)[2] - short(t)[1] <= short(u)[2] - short(u)[1]
<1> DEFINE short(t) == ShortestRide(t.calls, from, to)
           found == {<<t, short(t)>> : t \in line}
           ridden == {r \in found : r[2] # <<>>}
           stops(r) == r[2][2] - r[2][1]
           fewest == {r \in ridden : \A s \in ridden : stops(r) <= stops(s)}
           ways == {r[1].way : r \in fewest} \ {NoWay}
           agreed == IF Cardinality(ways) > 1 THEN Quickest(line, from, to, ways) ELSE ways
           way == PairDirection(line, from, to)
<1>1. Quickest(line, from, to, ways) \subseteq ways
  <2> HIDE DEF ways
  <2>1. QED
    BY DEF Quickest
<1>2. Cardinality(agreed) = 1 /\ way = CHOOSE w \in agreed : TRUE
  <2> HIDE DEF fewest
  <2>1. way = IF /\ {from, to} \cap LoopTermini(line) # {}
                 /\ Cardinality({r[1].way : r \in ridden}) > 1
                 /\ Cardinality(agreed) = 1
              THEN CHOOSE w \in agreed : TRUE
              ELSE NoWay
    BY DEF PairDirection, fewest
  <2> HIDE DEF agreed, ridden, way
  <2>2. way # NoWay
    BY DEF way
  <2>3. QED
    BY <2>1, <2>2
<1>3. agreed \subseteq ways
  <2> HIDE DEF ways
  <2>1. QED
    BY <1>1
<1>4. way \in ways
  <2> HIDE DEF agreed, ways, way
  <2>1. agreed # {}
    BY <1>2, FS_EmptySet
  <2>2. QED
    BY <1>2, <1>3, <2>1
<1>5. PICK r \in fewest : way = r[1].way
  <2> HIDE DEF fewest, way
  <2>1. QED
    BY <1>4
<1>6. r \in ridden /\ \A s \in ridden : stops(r) <= stops(s)
  BY <1>5
<1>7. PICK t \in line : r = <<t, short(t)>>
  BY <1>6
<1>8. r[1] = t /\ r[2] = short(t) /\ r[2] # <<>>
  BY <1>6, <1>7
<1>9. ASSUME NEW u \in line, short(u) # <<>> PROVE short(t)[2] - short(t)[1] <= short(u)[2] - short(u)[1]
  <2>1. PICK s : s = <<u, short(u)>>
    OBVIOUS
  <2>2. s \in found
    BY <2>1
  <2> HIDE DEF short, found
  <2>3. s[2] = short(u) /\ s \in ridden
    BY <1>9, <2>1, <2>2
  <2> HIDE DEF ridden
  <2>4. stops(r) <= stops(s)
    BY <1>6, <2>3
  <2>5. QED
    BY <1>8, <2>3, <2>4
<1>10. t.way = way /\ short(t) # <<>>
  <2> HIDE DEF way, short
  <2>1. QED
    BY <1>5, <1>8
<1>11. QED
  BY <1>9, <1>10

\* A train between several stations has the ride from its first boarding to
\* its last alighting, and no other.
LEMMA TrainOnce ==
    ASSUME NEW trip, NEW from, NEW to, TripShape(trip), Timed(trip), from \cap to = {},
           Cardinality(from) > 1, Cardinality(to) > 1
    PROVE  LET its == Candidates(trip, from, to, TRUE)
           IN  IF \E i, j \in DOMAIN trip.calls : i < j /\ GetsOn(trip.calls[i], from) /\ GetsOff(trip.calls[j], to)
               THEN \E c : its = {c} ELSE its = {}
<1> DEFINE calls == trip.calls
           D == DOMAIN calls
           on(k) == GetsOn(calls[k], from)
           off(k) == GetsOff(calls[k], to)
           its == Candidates(trip, from, to, TRUE)
           FirstOn(i) == i \in D /\ on(i) /\ \A k \in 1..i - 1 : ~on(k)
           LastOff(j) == j \in D /\ off(j) /\ \A k \in j + 1..Len(calls) : ~off(k)
<1>1. D = 1..Len(calls) /\ Len(calls) \in Nat
  BY DEF TripShape
<1>2. \A i, j : TrainRide(calls, i, j, from, to)
                <=> (\A k \in 1..i - 1 : ~on(k)) /\ (\A k \in j + 1..Len(calls) : ~off(k))
  BY DEF TrainRide, BoardsEarlier, AlightsLater, HoldsToOneWay
<1>3. {k \in D : calls[k].timed} = D
  BY DEF Timed
<1>4. its = {r \in D \X D : /\ r[1] < r[2] /\ on(r[1]) /\ off(r[2])
                            /\ TrainRide(calls, r[1], r[2], from, to)}
  <2> HIDE DEF D
  <2>1. its = {r \in D \X D : /\ r[1] < r[2] /\ GetsOn(calls[r[1]], from) /\ GetsOff(calls[r[2]], to)
                              /\ IF TRUE THEN TrainRide(calls, r[1], r[2], from, to)
                                         ELSE BusRide(calls, r[1], r[2], from, to)}
    BY <1>3 DEF Candidates, D
  <2>2. QED
    BY <2>1
<1> HIDE DEF its, on, off
<1>5. \A i, j : <<i, j>> \in its <=> FirstOn(i) /\ LastOff(j) /\ i < j
  BY <1>2, <1>4
<1>6. \A r \in its : r = <<r[1], r[2]>>
  BY <1>4
<1>7. \A i, k : FirstOn(i) /\ FirstOn(k) => i = k
  BY <1>1
<1>8. \A j, k : LastOff(j) /\ LastOff(k) => j = k
  BY <1>1
<1>9. ASSUME NEW i \in D, NEW j \in D, i < j, on(i), off(j) PROVE \E c : its = {c}
  <2> DEFINE Ons == {k \in Nat : k \in D /\ on(k)}
             Offs == {k \in Nat : k \in D /\ off(k)}
  <2>1. i \in Ons /\ j \in Offs /\ Offs \subseteq 0..Len(calls)
    BY <1>1, <1>9
  <2>2. PICK a \in Ons : \A k \in Ons : a <= k
    BY <2>1, LeastOf
  <2>3. PICK b \in Offs : \A k \in Offs : b >= k
    <3> HIDE DEF Offs
    <3>1. QED
      BY <1>1, <2>1, GreatestOf
  <2>4. FirstOn(a)
    BY <1>1, <2>2
  <2>5. LastOff(b)
    BY <1>1, <2>3
  <2>6. a < b
    BY <1>1, <1>9, <2>1, <2>2, <2>3
  <2>7. <<a, b>> \in its
    BY <1>5, <2>4, <2>5, <2>6
  <2>8. \A r \in its : r = <<a, b>>
    <3> HIDE DEF FirstOn, LastOff
    <3>1. QED
      BY <1>5, <1>6, <1>7, <1>8, <2>4, <2>5
  <2>9. its = {<<a, b>>}
    BY <2>7, <2>8
  <2>10. QED
    BY <2>9
<1>10. ASSUME its # {} PROVE \E i, j \in D : i < j /\ on(i) /\ off(j)
  BY <1>4, <1>10
<1>11. QED
  BY <1>9, <1>10 DEF its, on, off
Answers ==
    LET from == OnlyOf(journey.from)
        to == OnlyOf(journey.to)
        way == IF Simple THEN PairDirection(journey.line, from, to) ELSE NoWay
    IN  [way |-> way,
         exists |-> HasTripBetween(journey.line, from, to),
         listed |-> Listed(journey.line, journey.from, journey.to, journey.train, way)]

LEMMA SimpleReaders ==
    ASSUME journey \in Journeys, Simple, AllTimed, readers = Answers
    PROVE  LET from == OnlyOf(journey.from)
               to == OnlyOf(journey.to)
               all == Listed(journey.line, {from}, {to}, FALSE, NoWay)
               stops(r) == r[2][2] - r[2][1]
           IN  /\ readers.exists <=> all # {}
               /\ \A trip \in journey.line :
                     LET shortest == ShortestRide(trip.calls, from, to)
                         its == {r \in all : r[1] = trip}
                     IN  IF shortest = <<>> THEN its = {}
                         ELSE <<trip, shortest>> \in its /\ \A r \in its : stops(<<trip, shortest>>) <= stops(r)
               /\ readers.way # NoWay => \E r \in readers.listed : \A s \in all : stops(r) <= stops(s)
<1> DEFINE line == journey.line
           from == OnlyOf(journey.from)
           to == OnlyOf(journey.to)
           way == PairDirection(line, from, to)
           all == Listed(line, {from}, {to}, FALSE, NoWay)
           stops(r) == r[2][2] - r[2][1]
           short(t) == ShortestRide(t.calls, from, to)
           Its(t) == Candidates(t, {from}, {to}, FALSE)
<1>1. journey.from = {from} /\ journey.to = {to} /\ from # to /\ journey.train = FALSE
  <2>1. /\ IsFiniteSet(journey.from) /\ IsFiniteSet(journey.to) /\ journey.train \in BOOLEAN
        /\ Cardinality(journey.from) = 1 /\ Cardinality(journey.to) = 1 => journey.from # journey.to
    BY JourneysAssumption
  <2>2. ~journey.train /\ Cardinality(journey.from) = 1 /\ Cardinality(journey.to) = 1
    BY DEF Simple
  <2>3. journey.train = FALSE
    BY <2>1, <2>2
  <2>4. (\E x : journey.from = {x}) /\ (\E x : journey.to = {x})
    BY <2>1, <2>2, FS_Singleton
  <2>5. QED
    BY <2>1, <2>2, <2>3, <2>4 DEF OnlyOf
<1>2. \A t \in line : TripShape(t) /\ Timed(t)
  BY JourneysAssumption DEF AllTimed, TripShape, Timed
<1>3. readers.way = way /\ readers.exists = HasTripBetween(line, from, to)
      /\ readers.listed = Listed(line, journey.from, journey.to, journey.train, way)
  BY DEF Answers
<1>4. readers.listed = Listed(line, {from}, {to}, FALSE, way)
  <2> HIDE DEF from, to, way, line
  <2>1. QED
    BY <1>1, <1>3
<1> HIDE DEF from, to, line
<1>5. /\ \A r : r \in all <=> \E t \in line : \E c \in Its(t) : r = <<t, c>>
      /\ \A t \in line : \A c \in Its(t) : t.way = way => <<t, c>> \in readers.listed
  <2>1. PICK bus \in BOOLEAN : bus = FALSE
    OBVIOUS
  <2>2. PICK f, g : f = {from} /\ g = {to}
    OBVIOUS
  <2>3. \A r : r \in Listed(line, f, g, bus, NoWay)
               <=> \E t \in line : \E c \in Candidates(t, f, g, bus) : r = <<t, c>>
    BY ListedRides
  <2>4. \A r : r \in Listed(line, f, g, bus, way)
               <=> \E t \in line : \E c \in Candidates(t, f, g, bus) :
                      r = <<t, c>> /\ (bus \/ way = NoWay \/ t.way \in {way, NoWay})
    <3> HIDE DEF way
    <3>1. QED
      BY ListedRides
  <2>5. \A t \in line : \A c \in Candidates(t, f, g, bus) : t.way = way => <<t, c>> \in Listed(line, f, g, bus, way)
    <3> HIDE DEF way
    <3>1. QED
      BY <2>4
  <2>6. all = Listed(line, f, g, bus, NoWay) /\ \A t : Its(t) = Candidates(t, f, g, bus)
    BY <2>1, <2>2
  <2>7. readers.listed = Listed(line, f, g, bus, way)
    <3> HIDE DEF all, Its, way
    <3>1. QED
      BY <1>4, <2>1, <2>2
  <2> HIDE DEF all, Its, way
  <2>8. QED
    BY <2>3, <2>5, <2>6, <2>7
<1>6. \A t \in line :
         /\ short(t) # <<>> => short(t) \in Its(t) /\ short(t)[1] \in Nat /\ short(t)[2] \in Nat
         /\ \A c \in Its(t) : /\ short(t) # <<>> /\ short(t)[2] - short(t)[1] <= c[2] - c[1]
                              /\ c[1] \in Nat /\ c[2] \in Nat
  BY <1>1, <1>2, ShortestOfCandidates
<1>7. HasTripBetween(line, from, to) <=> all # {}
  BY <1>2, ExistsIffListed
<1> HIDE DEF all, Its, way
<1>8. ASSUME NEW trip \in line
      PROVE  LET its == {r \in all : r[1] = trip}
             IN  IF short(trip) = <<>> THEN its = {}
                 ELSE <<trip, short(trip)>> \in its /\ \A r \in its : stops(<<trip, short(trip)>>) <= stops(r)
  <2> DEFINE its == {r \in all : r[1] = trip}
  <2> HIDE DEF short
  <2>1. \A r : r \in its <=> \E c \in Its(trip) : r = <<trip, c>>
    BY <1>5
  <2>2. ASSUME short(trip) = <<>> PROVE its = {}
    BY <1>6, <2>1, <2>2
  <2>3. ASSUME short(trip) # <<>> PROVE <<trip, short(trip)>> \in its
    BY <1>6, <2>1, <2>3
  <2>4. ASSUME NEW r \in its PROVE stops(<<trip, short(trip)>>) <= stops(r)
    <3>1. PICK c \in Its(trip) : r = <<trip, c>>
      BY <2>1
    <3>2. r[2] = c /\ <<trip, short(trip)>>[2] = short(trip)
      BY <3>1
    <3>3. QED
      BY <1>6, <3>2
  <2>5. QED
    BY <2>2, <2>3, <2>4
<1>9. ASSUME way # NoWay PROVE \E r \in readers.listed : \A s \in all : stops(r) <= stops(s)
  <2>1. PICK t \in line : /\ t.way = way /\ short(t) # <<>>
                          /\ \A u \in line : short(u) # <<>> =>
                                short(t)[2] - short(t)[1] <= short(u)[2] - short(u)[1]
    BY <1>9, KeptWayIsShortest DEF way
  <2> HIDE DEF short
  <2>2. <<t, short(t)>> \in readers.listed
    BY <1>5, <1>6, <2>1
  <2>3. ASSUME NEW s \in all PROVE stops(<<t, short(t)>>) <= stops(s)
    <3>1. PICK u \in line : \E c \in Its(u) : s = <<u, c>>
      BY <1>5
    <3>2. PICK c \in Its(u) : s = <<u, c>>
      BY <3>1
    <3>3. s[2] = c /\ <<t, short(t)>>[2] = short(t)
      BY <3>2
    <3>4. /\ short(u) # <<>> /\ short(u)[2] - short(u)[1] <= c[2] - c[1]
          /\ c[1] \in Nat /\ c[2] \in Nat /\ short(u)[1] \in Nat /\ short(u)[2] \in Nat
          /\ short(t)[1] \in Nat /\ short(t)[2] \in Nat
      BY <1>6, <2>1, <3>2
    <3>5. short(t)[2] - short(t)[1] <= short(u)[2] - short(u)[1]
      BY <2>1, <3>4
    <3>6. QED
      BY <3>3, <3>4, <3>5
  <2>4. QED
    BY <2>2, <2>3
<1>10. QED
  BY <1>3, <1>7, <1>8, <1>9 DEF all, from, to, line, way

LEMMA TrainReaders ==
    ASSUME journey \in Journeys, journey.train, AllTimed, readers = Answers,
           Cardinality(journey.from) > 1, Cardinality(journey.to) > 1, journey.from \cap journey.to = {}
    PROVE  \A trip \in journey.line : Cardinality(ListedOf(trip)) = IF RidesThrough(trip) THEN 1 ELSE 0
<1> DEFINE line == journey.line
           from == journey.from
           to == journey.to
           its(t) == Candidates(t, from, to, TRUE)
<1>1. journey.train = TRUE
  BY JourneysAssumption
<1>2. \A t \in line : TripShape(t) /\ Timed(t)
  BY JourneysAssumption DEF AllTimed, TripShape, Timed
<1>3. PICK way : readers.listed = Listed(line, from, to, journey.train, way)
  BY DEF Answers
<1>4. \A r : r \in readers.listed <=> \E t \in line : \E c \in its(t) : r = <<t, c>>
  <2>1. PICK train \in BOOLEAN : train = TRUE
    OBVIOUS
  <2>2. readers.listed = Listed(line, from, to, train, way)
    BY <1>1, <1>3, <2>1
  <2>3. \A r : r \in Listed(line, from, to, train, way)
               <=> \E t \in line : \E c \in Candidates(t, from, to, train) :
                      r = <<t, c>> /\ (train \/ way = NoWay \/ t.way \in {way, NoWay})
    BY ListedRides
  <2>4. \A r : r \in Listed(line, from, to, train, way)
               <=> \E t \in line : \E c \in Candidates(t, from, to, train) : r = <<t, c>>
    BY <2>1, <2>3
  <2>5. \A t : its(t) = Candidates(t, from, to, train)
    BY <2>1
  <2> HIDE DEF its
  <2>6. QED
    BY <2>2, <2>4, <2>5
<1>5. \A t \in line : IF RidesThrough(t) THEN \E c : its(t) = {c} ELSE its(t) = {}
  BY <1>2, TrainOnce DEF RidesThrough
<1> HIDE DEF its
<1>6. TAKE trip \in line
<1>7. \A r : r \in ListedOf(trip) <=> \E c \in its(trip) : r = <<trip, c>>
  BY <1>4 DEF ListedOf
<1>8. CASE RidesThrough(trip)
  <2>1. PICK c : its(trip) = {c}
    BY <1>5, <1>8
  <2>2. ListedOf(trip) = {<<trip, c>>}
    BY <1>7, <2>1
  <2>3. QED
    BY <1>8, <2>2, FS_Singleton
<1>9. CASE ~RidesThrough(trip)
  <2>1. ListedOf(trip) = {}
    BY <1>5, <1>7, <1>9
  <2>2. QED
    BY <1>9, <2>1, FS_EmptySet
<1>10. QED
  BY <1>8, <1>9

\* has_trip_between, _shortest_ride, get_pair_direction and the departure
\* query, for any line of any trips: the flow takes a journey exactly when it
\* has departures, the pass over the calls finds the shortest of them, the
\* direction kept leaves the sensor one of them, and a train between several
\* stations is listed once.
THEOREM ReadersAgreeAlways == RidesSpec => []ReadersAgree
<1> DEFINE Inv == journey \in Journeys /\ readers \in {<<>>, Answers}
<1>1. RidesInit => Inv
  BY DEF RidesInit
<1>2. Inv /\ [ReadRides]_rides => Inv'
  <2>1. SUFFICES ASSUME Inv, [ReadRides]_rides PROVE Inv'
    OBVIOUS
  <2>2. journey' = journey
    BY <2>1 DEF ReadRides, rides
  <2>3. Answers' = Answers
    BY <2>2 DEF Answers, Simple
  <2>4. ReadRides => readers' = Answers
    BY DEF ReadRides, Answers
  <2>5. QED
    BY <2>1, <2>2, <2>3, <2>4 DEF rides
<1>3. Inv => ReadersAgree
  <2>1. SUFFICES ASSUME journey \in Journeys, readers = Answers PROVE ReadersAgree
    BY DEF ReadersAgree
  <2>2. QED
    BY <2>1, SimpleReaders, TrainReaders DEF ReadersAgree
<1>4. QED
  BY <1>1, <1>2, <1>3, PTL DEF RidesSpec
----------------------------------------------------------------------------
(* When a source's host is asked *)

\* A number is a multiple and what is left of it.
LEMMA Division ==
    ASSUME NEW a \in Nat, NEW n \in Nat \ {0}
    PROVE  /\ a \div n \in Nat /\ n * (a \div n) \in Nat
           /\ n * (a \div n) <= a /\ a < n * (a \div n) + n
<1>1. PICK q \in Nat : q = a \div n
  OBVIOUS
<1>2. n * q <= a /\ a < n * q + n /\ n * q \in Nat
  BY <1>1
<1>3. QED
  BY <1>1, <1>2

\* The hour of the day after some hours: the same as after a day more.
LEMMA HourOfDay ==
    ASSUME NEW h \in Nat, NEW w \in Nat, NEW q \in Int, NEW v \in Int, v = h + 24 * q + w
    PROVE  v % 24 = (h + w) % 24
<1>1. v = (h + w) + 24 * q /\ h + w \in Int
  OBVIOUS
<1>2. QED
  BY <1>1

\* check_hours: from any hour the next of the pattern is no further than the
\* interval, over midnight too.
LEMMA NextHour ==
    ASSUME NEW u \in Nat, NEW n \in 1..24, NEW h \in 3..5
    PROVE  \E v \in u + 1..u + n : v % 24 \in CheckHours(h, n)
<1> DEFINE z == (u + 24 - h) % 24
           q == (u + 24 - h) \div 24
<1>1. z \in 0..23 /\ q \in Nat /\ u = h + 24 * (q - 1) + z
  OBVIOUS
<1> HIDE DEF z, q
<1>2. ASSUME n = 24
      PROVE \E v \in u + 1..u + n : v % 24 \in CheckHours(h, n)
  <2> DEFINE v == h + 24 * q
  <2>1. v \in u + 1..u + n
    BY <1>1, <1>2
  <2>2. v % 24 = h
    BY <1>1, HourOfDay
  <2>3. QED
    BY <1>2, <2>1, <2>2 DEF CheckHours
<1>3. ASSUME n < 24
      PROVE \E v \in u + 1..u + n : v % 24 \in CheckHours(h, n)
  <2> DEFINE k == z \div n
             K == 23 \div n
  <2>1. /\ k \in Nat /\ n * k \in Nat /\ n * k <= z /\ z < n * k + n
        /\ K \in Nat /\ n * K \in Nat /\ n * K <= 23 /\ 23 < n * K + n
    BY <1>1, Division
  <2> HIDE DEF k
  <2>2. \A j \in 0..K : (h + j * n) % 24 \in CheckHours(h, n)
    BY <1>3 DEF CheckHours
  <2> HIDE DEF K
  <2>3. CASE k < K
    <3> DEFINE w == (k + 1) * n
               v == h + 24 * (q - 1) + w
    <3>1. w = n * k + n /\ w \in Nat
      BY <2>1
    <3> HIDE DEF w
    <3>2. v \in u + 1..u + n
      BY <1>1, <2>1, <3>1
    <3>3. v % 24 = (h + w) % 24
      BY <1>1, <3>1, HourOfDay
    <3>4. v % 24 \in CheckHours(h, n)
      <4>1. k + 1 \in 0..K
        BY <2>1, <2>3
      <4>2. (h + w) % 24 \in CheckHours(h, n)
        BY <2>2, <4>1 DEF w
      <4>3. QED
        BY <3>3, <4>2
    <3>5. QED
      BY <3>2, <3>4
  <2>4. CASE k >= K
    <3> DEFINE v == h + 24 * q
    <3>1. n * K <= n * k
      BY <2>1, <2>4
    <3>2. v \in u + 1..u + n
      BY <1>1, <2>1, <3>1
    <3>3. v % 24 = (h + 0) % 24
      BY <1>1, HourOfDay
    <3>4. h + 0 * n = h + 0 /\ 0 \in 0..K
      BY <2>1
    <3>5. v % 24 \in CheckHours(h, n)
      BY <2>2, <3>3, <3>4
    <3>6. QED
      BY <3>2, <3>5
  <2>5. QED
    BY <2>1, <2>3, <2>4
<1>4. QED
  BY <1>2, <1>3

\* The same on a clock that runs in half hours.
LEMMA NextSlot ==
    ASSUME NEW y \in Nat, NEW n \in 1..24, hour \in 3..5
    PROVE  \E s \in y + 1..y + 2 * n : s % 2 = 0 /\ AtHours(s, n)
<1>1. PICK u \in Nat : u = y \div 2 /\ 2 * u <= y /\ y <= 2 * u + 1
  OBVIOUS
<1>2. PICK v \in u + 1..u + n : v % 24 \in CheckHours(hour, n)
  BY <1>1, NextHour
<1>3. 2 * v \in y + 1..y + 2 * n /\ (2 * v) % 2 = 0 /\ (2 * v) \div 2 = v
  BY <1>1, <1>2
<1>4. QED
  BY <1>2, <1>3 DEF AtHours

LooksGiven ==
    /\ shift.at \in Nat /\ shift.at >= 2 /\ shift.by \in {-2, 0, 2}
    /\ hour \in 3..5 /\ interval \in 1..360

LEMMA DailyPattern ==
    ASSUME LooksGiven
    PROVE  LET m == Smaller(interval, 24) IN
           /\ m \in 1..24 /\ \A s : AtHours(s, interval) <=> AtHours(s, m)
           /\ SlotLost(interval) <=> SlotLost(m)
<1> DEFINE m == Smaller(interval, 24)
<1>1. m \in 1..24 /\ (interval < 24 => m = interval) /\ (interval >= 24 => m = 24)
  BY DEF LooksGiven, Smaller
<1> HIDE DEF m
<1>2. CheckHours(hour, interval) = CheckHours(hour, m)
  <2>1. CASE interval < 24
    BY <1>1, <2>1
  <2>2. CASE interval >= 24
    BY <1>1, <2>2 DEF LooksGiven, CheckHours
  <2>3. QED
    BY <2>1, <2>2 DEF LooksGiven
<1>3. \A s : AtHours(s, interval) <=> AtHours(s, m)
  BY <1>2 DEF AtHours
<1>4. QED
  BY <1>1, <1>3 DEF SlotLost, m

\* async_track_time_change: from any moment the next tick is no further than
\* the interval, a clock change between them allowed for.
LEMMA NextTick ==
    ASSUME LooksGiven, NEW x \in Nat
    PROVE  \E t \in x + 1..x + Apart(Smaller(interval, 24)) : OnPattern(t)
<1> DEFINE m == Smaller(interval, 24)
<1> DEFINE extra == IF shift.by < 0 THEN -shift.by ELSE IF SlotLost(m) THEN 2 * m - shift.by ELSE 0
<1>1. m \in 1..24 /\ \A t : OnPattern(t) <=> AtHours(LocalTime(t), m)
  BY DailyPattern DEF OnPattern
<1>2. Apart(m) = 2 * m + extra
  <2>1. Smaller(m, 24) = m /\ Spacing(m) = m
    BY <1>1 DEF Smaller, Spacing
  <2>2. QED
    BY <2>1 DEF Apart
<1> HIDE DEF m
<1>3. extra \in Nat
  BY <1>1 DEF LooksGiven
<1>4. \A y \in Nat : \E s \in y + 1..y + 2 * m : s % 2 = 0 /\ AtHours(s, m)
  BY <1>1, NextSlot DEF LooksGiven
<1>5. ASSUME NEW s, NEW t \in x + 1..x + 2 * m + extra, LocalTime(t) = s, AtHours(s, m)
      PROVE \E r \in x + 1..x + Apart(Smaller(interval, 24)) : OnPattern(r)
  <2> HIDE DEF extra
  <2>1. OnPattern(t)
    BY <1>1, <1>5
  <2>2. t \in x + 1..x + Apart(m)
    BY <1>1, <1>2, <1>3
  <2>3. QED
    BY <2>1, <2>2 DEF m
<1>6. CASE x >= shift.at
  <2>1. PICK s \in x + shift.by + 1..x + shift.by + 2 * m : AtHours(s, m)
    <3>1. x + shift.by \in Nat
      BY <1>6 DEF LooksGiven
    <3>2. QED
      BY <1>4, <3>1
  <2> DEFINE t == s - shift.by
  <2>2. t \in x + 1..x + 2 * m + extra /\ LocalTime(t) = s
    BY <1>1, <1>3, <1>6, <2>1 DEF LooksGiven, LocalTime
  <2> HIDE DEF t, extra
  <2>3. QED
    BY <1>5, <2>1, <2>2
<1>7. CASE x < shift.at
  <2>1. PICK s \in x + 1..x + 2 * m : s % 2 = 0 /\ AtHours(s, m)
    BY <1>4
  <2>2. CASE s < shift.at
    <3>1. s \in x + 1..x + 2 * m + extra /\ LocalTime(s) = s
      BY <1>1, <1>3, <2>1, <2>2 DEF LooksGiven, LocalTime
    <3> HIDE DEF extra
    <3>2. QED
      BY <1>5, <2>1, <3>1
  <2>3. CASE s >= shift.at /\ (shift.by <= 0 \/ s >= shift.at + shift.by)
    <3> DEFINE t == s - shift.by
    <3>1. t \in x + 1..x + 2 * m + extra
      BY <1>1, <1>3, <1>7, <2>1, <2>3 DEF LooksGiven
    <3>2. LocalTime(t) = s
      BY <1>1, <2>1, <2>3 DEF LooksGiven, LocalTime
    <3> HIDE DEF t, extra
    <3>3. QED
      BY <1>5, <2>1, <3>1, <3>2
  <2>4. CASE shift.by = 2 /\ s \in shift.at..shift.at + 1
    <3>1. SlotLost(m)
      BY <2>1, <2>4 DEF LooksGiven, SlotLost
    <3>2. extra = 2 * m - 2
      BY <2>4, <3>1
    <3>3. PICK r \in s + 1..s + 2 * m : r % 2 = 0 /\ AtHours(r, m)
      <4>1. s \in Nat
        BY <2>1
      <4>2. QED
        BY <1>4, <4>1
    <3>4. r >= s + 2
      BY <1>1, <2>1, <3>3
    <3> DEFINE t == r - 2
    <3>5. t \in x + 1..x + 2 * m + extra
      BY <1>1, <1>7, <2>1, <2>4, <3>2, <3>3, <3>4 DEF LooksGiven
    <3>6. LocalTime(t) = r
      BY <1>1, <2>1, <2>4, <3>3, <3>4 DEF LooksGiven, LocalTime
    <3> HIDE DEF t, extra
    <3>7. QED
      BY <1>5, <3>3, <3>5, <3>6
  <2>5. QED
    BY <1>1, <2>1, <2>2, <2>3, <2>4 DEF LooksGiven
<1>8. QED
  BY <1>6, <1>7 DEF LooksGiven, m
\* The moment after which a look is counted from.
Counted == Larger(armed, asked)

LooksTyped ==
    /\ LooksGiven
    /\ now \in Nat /\ armed \in 0..now /\ asked \in -1..now
    /\ noted \in -1..asked /\ sidecar \in -1..asked

\* Since the check was armed and the host asked, every tick was one too many;
\* and past the late look's moment, that look was made or not overdue.
LooksInv ==
    /\ LooksTyped
    /\ up =>
          /\ catchUp = IF now = armed THEN armed + 1 ELSE NoLook
          /\ \A t \in Counted + 1..now : OnPattern(t) => ~LookDue(t)
          /\ now > armed /\ asked <= armed =>
                LastLook # NoLook /\ armed + 1 - LastLook <= 2 * (interval + 1)

LEMMA LookWas ==
    ASSUME LooksTyped
    PROVE  /\ LastLook \in -1..asked /\ Counted \in 0..now
           /\ Counted >= armed /\ Counted >= asked /\ (Counted = armed \/ Counted = asked)
  BY DEF LooksTyped, LastLook, NoLook, Counted, Larger

\* A look is due after the gate's time, whatever was asked before.
LEMMA DueThen ==
    ASSUME LooksTyped, NEW t \in Nat,
           interval > 24 /\ LastLook # NoLook => t >= LastLook + 2 * (interval - 12)
    PROVE  LookDue(t)
  BY DEF LookDue, LookAgainAt

LEMMA ApartIs ==
    ASSUME LooksGiven
    PROVE  LET m == Smaller(interval, 24) IN
           /\ Apart(m) \in Nat /\ (interval <= 24 => m = interval)
           /\ interval > 24 => m = 24 /\ Apart(interval) = Apart(m) + 2 * interval - 24
<1> DEFINE m == Smaller(interval, 24)
           extra(n) == IF shift.by < 0 THEN -shift.by ELSE IF SlotLost(n) THEN 2 * Smaller(n, 24) - shift.by ELSE 0
<1>1. m \in 1..24 /\ (SlotLost(interval) <=> SlotLost(m))
  BY DailyPattern
<1>2. (interval <= 24 => m = interval) /\ (interval > 24 => m = 24)
  BY DEF LooksGiven, Smaller
<1>3. Smaller(m, 24) = m /\ Smaller(interval, 24) = m
  BY <1>1 DEF Smaller
<1> HIDE DEF m
<1>4. extra(m) = extra(interval) /\ extra(m) \in Nat
  BY <1>1, <1>3 DEF LooksGiven
<1> HIDE DEF extra
<1>5. Apart(m) = 2 * Spacing(m) + extra(m) /\ Apart(interval) = 2 * Spacing(interval) + extra(interval)
  BY DEF Apart, extra
<1>6. Spacing(m) = m /\ (interval > 24 => Spacing(interval) = interval + 12)
  BY <1>1 DEF Spacing
<1>7. Apart(m) \in Nat /\ (interval > 24 => m = 24 /\ Apart(interval) = Apart(m) + 2 * interval - 24)
  BY <1>1, <1>2, <1>4, <1>5, <1>6 DEF LooksGiven
<1>8. QED
  BY <1>2, <1>7 DEF m

\* No tick that counts was let by: the next after x, if due, is still ahead.
LEMMA StillAhead ==
    ASSUME LooksInv, up, NEW x \in Nat, x >= Counted,
           interval > 24 /\ LastLook # NoLook => x + 1 >= LastLook + 2 * (interval - 12)
    PROVE  now < x + Apart(Smaller(interval, 24))
<1>1. LooksTyped /\ LooksGiven /\ now \in Nat /\ \A t \in Counted + 1..now : OnPattern(t) => ~LookDue(t)
  BY DEF LooksInv, LooksTyped
<1>2. Apart(Smaller(interval, 24)) \in Nat
  BY <1>1, ApartIs
<1>3. PICK t \in x + 1..x + Apart(Smaller(interval, 24)) : OnPattern(t)
  BY <1>1, NextTick
<1>4. t \in Nat /\ LastLook \in Int /\ Counted \in Nat /\ interval \in Nat
  BY <1>1, <1>2, LookWas DEF LooksGiven, LooksTyped
<1>5. LookDue(t)
  <2>1. interval > 24 /\ LastLook # NoLook => t >= LastLook + 2 * (interval - 12)
    BY <1>2, <1>3, <1>4
  <2>2. QED
    BY <1>1, <1>4, <2>1, DueThen
<1>6. ~(t <= now)
  BY <1>1, <1>2, <1>3, <1>4, <1>5
<1>7. QED
  BY <1>1, <1>2, <1>3, <1>4, <1>6

LEMMA LooksKeptThen == ASSUME LooksInv PROVE LooksKept
<1>1. SUFFICES ASSUME up, now > armed PROVE LooksKept
  BY DEF LooksKept
<1> DEFINE pattern == Apart(Smaller(interval, 24))
           gate == 2 * (interval - 12)
<1>2. LooksTyped /\ LooksGiven /\ LastLook \in -1..asked /\ Counted \in 0..now
  BY LookWas DEF LooksInv, LooksTyped
<1>3. /\ now \in Nat /\ armed \in Nat /\ asked \in Int /\ LastLook \in Int /\ Counted \in Nat
      /\ interval \in 1..360 /\ LastLook <= asked /\ Counted >= asked /\ Counted >= armed
      /\ (Counted = armed \/ Counted = asked)
  BY <1>2, LookWas DEF LooksTyped, LooksGiven
<1>4. /\ pattern \in Nat /\ (interval <= 24 => Apart(interval) = pattern)
      /\ interval > 24 => Apart(interval) = pattern + 2 * interval - 24
  BY <1>2, ApartIs
<1> HIDE DEF pattern
<1>5. now - Counted <= Apart(interval)
  <2>1. CASE interval <= 24
    <3>1. now < Counted + pattern
      BY <1>1, <1>3, <2>1, StillAhead DEF pattern
    <3>2. QED
      BY <1>3, <1>4, <2>1, <3>1
  <2>2. CASE interval > 24
    <3> DEFINE x == Counted + gate - 1
    <3>1. x \in Nat /\ x >= Counted /\ x + 1 >= LastLook + gate
      BY <1>3, <2>2
    <3>2. now < x + pattern
      BY <1>1, <3>1, StillAhead DEF pattern
    <3>3. QED
      BY <1>3, <1>4, <2>2, <3>2
  <2>3. QED
    BY <1>3, <2>1, <2>2
<1>6. now - asked <= 2 * (interval + 1) + pattern
  <2>1. CASE asked > armed
    BY <1>3, <1>4, <1>5, <2>1
  <2>2. CASE asked <= armed
    <3>1. LastLook # NoLook /\ armed + 1 - LastLook <= 2 * (interval + 1) /\ Counted = armed
      BY <1>1, <1>3, <2>2 DEF LooksInv
    <3>2. CASE interval > 24 /\ LastLook + gate - 1 >= armed
      <4> DEFINE x == LastLook + gate - 1
      <4>1. x \in Nat /\ x >= Counted /\ x + 1 >= LastLook + gate
        BY <1>3, <3>1, <3>2
      <4>2. now < x + pattern
        BY <1>1, <4>1, StillAhead DEF pattern
      <4>3. QED
        BY <1>3, <1>4, <3>2, <4>2
    <3>3. CASE interval <= 24 \/ LastLook + gate - 1 < armed
      <4>1. interval > 24 => armed + 1 >= LastLook + gate
        BY <1>3, <3>3
      <4>2. now < armed + pattern
        BY <1>1, <1>3, <3>1, <4>1, StillAhead DEF pattern
      <4>3. QED
        BY <1>3, <1>4, <3>1, <4>2
    <3>4. QED
      BY <1>3, <3>2, <3>3
  <2>3. QED
    BY <1>3, <2>1, <2>2
<1>7. QED
  BY <1>5, <1>6 DEF LooksKept, Counted, pattern

LEMMA LooksStart == ASSUME LooksInit PROVE LooksInv
<1>1. LooksGiven
  BY IntervalsAssumption, HoursAssumption, ClocksAssumption DEF LooksInit, LooksGiven
<1>2. now = 0 /\ armed = 0 /\ catchUp = 1 /\ noted = -1 /\ sidecar = -1 /\ asked = -1
  BY DEF LooksInit, LooksIdle, NoLook
<1>3. LooksTyped /\ Counted = 0
  BY <1>1, <1>2 DEF LooksTyped, Counted, Larger
<1>4. QED
  BY <1>2, <1>3 DEF LooksInv

LEMMA PassKeepsLooks == ASSUME LooksInv, Pass PROVE LooksInv'
<1>1. /\ LooksTyped /\ now' = now + 1 /\ UNCHANGED <<shift, hour, interval, up, armed>>
      /\ catchUp' = IF catchUp = now' THEN NoLook ELSE catchUp
  BY DEF LooksInv, Pass
<1>2. \/ asked' = now' /\ noted' = now' /\ (sidecar' = now' \/ sidecar' = sidecar) /\ up
      \/ UNCHANGED <<asked, noted, sidecar>>
  BY DEF Pass, Checks, Asks
<1>3. LooksGiven' /\ LooksTyped'
  BY <1>1, <1>2 DEF LooksTyped, LooksGiven
<1>4. SUFFICES ASSUME up
               PROVE  /\ catchUp' = IF now' = armed' THEN armed' + 1 ELSE NoLook
                      /\ \A t \in Counted' + 1..now' : OnPattern(t)' => ~LookDue(t)'
                      /\ now' > armed' /\ asked' <= armed' =>
                            LastLook' # NoLook /\ armed' + 1 - LastLook' <= 2 * (interval' + 1)
  BY <1>1, <1>3 DEF LooksInv
<1>5. /\ catchUp = IF now = armed THEN armed + 1 ELSE NoLook
      /\ \A t \in Counted + 1..now : OnPattern(t) => ~LookDue(t)
      /\ now > armed /\ asked <= armed => LastLook # NoLook /\ armed + 1 - LastLook <= 2 * (interval + 1)
      /\ now \in Nat /\ armed \in 0..now /\ asked \in -1..now /\ interval \in 1..360
      /\ LastLook \in -1..asked /\ Counted \in 0..now
  BY <1>1, <1>4, LookWas DEF LooksInv, LooksTyped, LooksGiven
<1>6. catchUp' = IF now' = armed' THEN armed' + 1 ELSE NoLook
  BY <1>1, <1>5 DEF NoLook
<1>7. CASE asked' = now'
  <2>1. Counted' = now'
    BY <1>1, <1>5, <1>7 DEF Counted, Larger
  <2>2. Counted' + 1..now' = {}
    BY <1>1, <1>5, <2>1
  <2>3. ~(asked' <= armed')
    BY <1>1, <1>5, <1>7
  <2>4. \A t \in Counted' + 1..now' : OnPattern(t)' => ~LookDue(t)'
    BY <2>2
  <2>5. QED
    BY <1>6, <2>3, <2>4
<1>8. CASE asked' # now'
  <2>1. UNCHANGED <<asked, noted, sidecar>>
    BY <1>2, <1>8
  <2>2. /\ Counted' = Counted /\ LastLook' = LastLook
        /\ \A t : OnPattern(t)' <=> OnPattern(t)
        /\ \A t : LookDue(t)' <=> LookDue(t)
    BY <1>1, <2>1 DEF Counted, LastLook, OnPattern, AtHours, LocalTime, LookDue, LookAgainAt
  <2>3. ~((OnPattern(now') \/ (catchUp = now' /\ Overdue(now'))) /\ LookDue(now'))
    BY <1>4, <1>8 DEF Pass, Checks, Asks
  <2>4. ASSUME NEW t \in Counted' + 1..now', OnPattern(t)' PROVE ~LookDue(t)'
    <3>1. CASE t = now'
      BY <2>2, <2>3, <2>4, <3>1
    <3>2. CASE t # now'
      <4>1. t \in Counted + 1..now
        BY <1>1, <1>5, <2>2, <3>2
      <4>2. QED
        BY <1>5, <2>2, <2>4, <4>1
    <3>3. QED
      BY <3>1, <3>2
  <2>5. ASSUME now' > armed', asked' <= armed'
        PROVE  LastLook' # NoLook /\ armed' + 1 - LastLook' <= 2 * (interval' + 1)
    <3>1. CASE now = armed
      <4>1. catchUp = now'
        BY <1>1, <1>5, <3>1
      <4>2. ~Overdue(now')
        <5>1. SUFFICES ASSUME Overdue(now') PROVE LookDue(now')
          BY <2>3, <4>1
        <5>2. QED
          BY <1>1, <1>5, <5>1 DEF Overdue, LookDue, LookAgainAt
      <4>3. QED
        BY <1>1, <1>5, <2>2, <3>1, <4>2 DEF Overdue
    <3>2. CASE now # armed
      BY <1>1, <1>5, <2>1, <2>2, <2>5, <3>2
    <3>3. QED
      BY <3>1, <3>2
  <2>6. QED
    BY <1>6, <2>4, <2>5
<1>9. QED
  BY <1>7, <1>8

LEMMA StopKeepsLooks == ASSUME LooksInv, Stop PROVE LooksInv'
<1>1. /\ LooksTyped /\ up' = FALSE /\ noted' = -1
      /\ UNCHANGED <<now, shift, hour, interval, armed, sidecar, asked>>
  BY DEF LooksInv, Stop, NoLook
<1>2. LooksTyped'
  BY <1>1 DEF LooksTyped, LooksGiven
<1>3. QED
  BY <1>1, <1>2 DEF LooksInv

LEMMA ArmsKeepsLooks ==
    ASSUME LooksInv, Arms, interval' \in 1..360, UNCHANGED <<now, shift, hour, noted, sidecar, asked>>
    PROVE  LooksInv'
<1>1. LooksTyped /\ armed' = now /\ catchUp' = now + 1
  BY DEF LooksInv, Arms
<1>2. LooksTyped'
  BY <1>1 DEF LooksTyped, LooksGiven
<1>3. Counted' = now' /\ now' = armed' /\ now' \in Nat
  BY <1>1 DEF LooksTyped, Counted, Larger
<1>4. catchUp' = (IF now' = armed' THEN armed' + 1 ELSE NoLook) /\ Counted' + 1..now' = {} /\ ~(now' > armed')
  BY <1>1, <1>3
<1>5. \A t \in Counted' + 1..now' : (OnPattern(t) => ~LookDue(t))'
  BY <1>4
<1>6. QED
  BY <1>2, <1>4, <1>5 DEF LooksInv

\* The schedule of a source's checks, its gate for the intervals longer than a
\* day and its late look: for any interval, any night slot and any change of
\* the clocks, over any number of stops, changes of options and probes that
\* fail, a source is not left unasked longer than they say.
THEOREM LooksKeptAlways == LooksSpec => []LooksKept
<1>1. LooksInit => LooksInv
  BY LooksStart
<1>2. LooksInv /\ [LooksNext]_looks => LooksInv'
  <2>1. SUFFICES ASSUME LooksInv, [LooksNext]_looks PROVE LooksInv'
    OBVIOUS
  <2>2. interval \in 1..360
    BY <2>1 DEF LooksInv, LooksTyped, LooksGiven
  <2>3. CASE Pass
    BY <2>1, <2>3, PassKeepsLooks
  <2>4. CASE Stop
    BY <2>1, <2>4, StopKeepsLooks
  <2>5. CASE Start
    BY <2>1, <2>2, <2>5, ArmsKeepsLooks DEF Start
  <2>6. CASE \E n \in Intervals : Rearm(n)
    <3>1. interval' \in 1..360 /\ Arms /\ UNCHANGED <<now, shift, hour, noted, sidecar, asked>>
      BY <2>6, IntervalsAssumption DEF Rearm
    <3>2. QED
      BY <2>1, <3>1, ArmsKeepsLooks
  <2>7. CASE UNCHANGED looks
    <3>1. UNCHANGED <<now, shift, hour, interval, up, armed, catchUp, noted, sidecar, asked>>
      BY <2>7 DEF looks
    <3>2. LooksTyped' /\ Counted' = Counted /\ LastLook' = LastLook
      BY <2>1, <3>1 DEF LooksInv, LooksTyped, LooksGiven, Counted, LastLook
    <3>3. (\A t : OnPattern(t)' <=> OnPattern(t)) /\ (\A t : LookDue(t)' <=> LookDue(t))
      BY <3>1 DEF LastLook, OnPattern, AtHours, LocalTime, LookDue, LookAgainAt
    <3>4. QED
      BY <2>1, <3>1, <3>2, <3>3 DEF LooksInv
  <2>8. QED
    BY <2>1, <2>3, <2>4, <2>5, <2>6, <2>7 DEF LooksNext
<1>3. LooksInv => LooksKept
  BY LooksKeptThen
<1>4. QED
  BY <1>1, <1>2, <1>3, PTL DEF LooksSpec
----------------------------------------------------------------------------
(* The board of a journey.  Its rows are sorted and cut twice, so the      *)
(* lemmas on a sorted list say what a cut keeps: the least, in order, and  *)
(* one left out only when the list is full of lesser ones.                 *)

\* What a function makes of finitely many values.
LEMMA FiniteImage ==
    ASSUME NEW S, NEW f, IsFiniteSet(S)
    PROVE  IsFiniteSet({f[x] : x \in S})
<1> DEFINE T == {f[x] : x \in S}
           g == [x \in S |-> f[x]]
<1>1. g \in Surjection(S, T)
  BY Zenon DEF Surjection
<1>2. QED
  BY <1>1, FS_Surjection, Zenon

\* A relation told as pairs: strict, transitive, and of any two.
Orders(R, S) == /\ \A x \in S : <<x, x>> \notin R
                /\ \A x, y, z \in S : <<x, y>> \in R /\ <<y, z>> \in R => <<x, z>> \in R
                /\ \A x, y \in S : x = y \/ <<x, y>> \in R \/ <<y, x>> \in R

Under(r, R, S) == {x \in S : <<x, r>> \in R}
PlaceOf(r, R, S) == Cardinality(Under(r, R, S))
InTurn(R, S) == [n \in 1..Cardinality(S) |-> CHOOSE r \in S : PlaceOf(r, R, S) = n - 1]

LEMMA Places ==
    ASSUME NEW S, NEW R, IsFiniteSet(S), Orders(R, S)
    PROVE  /\ Cardinality(S) \in Nat
           /\ \A r \in S : PlaceOf(r, R, S) \in 0..Cardinality(S) - 1
           /\ \A x, y \in S : <<x, y>> \in R => PlaceOf(x, R, S) < PlaceOf(y, R, S)
<1>1. \A r \in S : IsFiniteSet(Under(r, R, S)) /\ PlaceOf(r, R, S) \in Nat
  BY FS_Subset, FS_CardinalityType DEF Under, PlaceOf
<1>2. Cardinality(S) \in Nat
  BY FS_CardinalityType
<1>3. ASSUME NEW r \in S PROVE PlaceOf(r, R, S) \in 0..Cardinality(S) - 1
  <2>1. Under(r, R, S) \in SUBSET (S \ {r})
    BY DEF Orders, Under
  <2>2. IsFiniteSet(S \ {r}) /\ Cardinality(S \ {r}) = Cardinality(S) - 1
    BY FS_RemoveElement
  <2>3. Cardinality(Under(r, R, S)) <= Cardinality(S) - 1
    BY <2>1, <2>2, FS_Subset
  <2>4. QED
    BY <1>1, <1>2, <2>3 DEF PlaceOf
<1>4. ASSUME NEW x \in S, NEW y \in S, <<x, y>> \in R PROVE PlaceOf(x, R, S) < PlaceOf(y, R, S)
  <2> DEFINE U == Under(x, R, S)
  <2>1. x \notin U /\ U \cup {x} \in SUBSET Under(y, R, S)
    BY <1>4 DEF Orders, Under
  <2>2. Cardinality(U \cup {x}) = Cardinality(U) + 1
    BY <1>1, <2>1, FS_AddElement
  <2>3. Cardinality(U \cup {x}) <= Cardinality(Under(y, R, S))
    BY <1>1, <2>1, FS_Subset
  <2>4. QED
    BY <1>1, <2>2, <2>3 DEF PlaceOf
<1>5. QED
  BY <1>2, <1>3, <1>4

LEMMA EveryPlace ==
    ASSUME NEW S, NEW R, IsFiniteSet(S), Orders(R, S),
           NEW n \in 1..Cardinality(S)
    PROVE  \E r \in S : PlaceOf(r, R, S) = n - 1
<1> DEFINE T == 0..Cardinality(S) - 1
           f == [r \in S |-> PlaceOf(r, R, S)]
<1>1. Cardinality(S) \in Nat /\ f \in [S -> T]
  BY Places
<1>2. \A x, y \in S : f[x] = f[y] => x = y
  <2>1. ASSUME NEW x \in S, NEW y \in S, f[x] = f[y], x # y PROVE FALSE
    <3>1. <<x, y>> \in R \/ <<y, x>> \in R
      BY <2>1 DEF Orders
    <3>2. f[x] < f[y] \/ f[y] < f[x]
      BY <3>1, Places
    <3>3. f[x] \in Int /\ f[y] \in Int
      BY <1>1
    <3>4. QED
      BY <2>1, <3>2, <3>3
  <2>2. QED
    BY <2>1
<1>3. f \in Injection(S, T)
  BY <1>1, <1>2 DEF Injection, IsInjective
<1>4. IsFiniteSet(T) /\ Cardinality(T) = Cardinality(S)
  <2>1. PICK c \in Int : c = Cardinality(S) - 1
    BY <1>1
  <2>2. 0 \in Int
    OBVIOUS
  <2>3. IsFiniteSet(0..c) /\ Cardinality(0..c) = IF 0 > c THEN 0 ELSE c - 0 + 1
    BY <2>2, FS_Interval, Zenon
  <2>4. QED
    BY <1>1, <2>1, <2>3
<1>5. f \in Surjection(S, T)
  BY <1>3, <1>4, FS_Injection
<1>6. n - 1 \in T
  BY <1>1
<1>7. QED
  BY <1>5, <1>6 DEF Surjection

\* The list holds all, each once, in order.
LEMMA InTurnIs ==
    ASSUME NEW S, NEW R, IsFiniteSet(S), Orders(R, S)
    PROVE  /\ InTurn(R, S) \in Seq(S) /\ Len(InTurn(R, S)) = Cardinality(S)
           /\ Cardinality(S) \in Nat
           /\ \A r \in S : \E n \in 1..Cardinality(S) : InTurn(R, S)[n] = r
           /\ \A m, n \in 1..Cardinality(S) : m < n => <<InTurn(R, S)[m], InTurn(R, S)[n]>> \in R
<1> DEFINE q == InTurn(R, S)
<1>1. Cardinality(S) \in Nat
  BY Places
<1>2. ASSUME NEW n \in 1..Cardinality(S) PROVE q[n] \in S /\ PlaceOf(q[n], R, S) = n - 1
  <2>1. q[n] = CHOOSE r \in S : PlaceOf(r, R, S) = n - 1
    BY DEF InTurn
  <2>2. QED
    BY <2>1, EveryPlace, Zenon
<1>3. q \in Seq(S) /\ Len(q) = Cardinality(S)
  <2>1. q \in [1..Cardinality(S) -> S]
    BY <1>2 DEF InTurn
  <2>2. QED
    BY <1>1, <2>1, SeqDef
<1>4. ASSUME NEW x \in S, NEW y \in S, PlaceOf(x, R, S) <= PlaceOf(y, R, S)
      PROVE  x = y \/ <<x, y>> \in R
  <2>1. x = y \/ <<x, y>> \in R \/ <<y, x>> \in R
    BY DEF Orders
  <2>2. <<y, x>> \in R => PlaceOf(y, R, S) < PlaceOf(x, R, S)
    BY Places
  <2>3. PlaceOf(x, R, S) \in Int /\ PlaceOf(y, R, S) \in Int
    BY Places
  <2>4. QED
    BY <1>4, <2>1, <2>2, <2>3
<1>5. ASSUME NEW r \in S PROVE \E n \in 1..Cardinality(S) : q[n] = r
  <2>1. PICK n \in 1..Cardinality(S) : PlaceOf(r, R, S) = n - 1
    <3>1. PlaceOf(r, R, S) \in 0..Cardinality(S) - 1
      BY Places
    <3>2. PICK k \in Nat : k = PlaceOf(r, R, S)
      BY <3>1
    <3>3. k + 1 \in 1..Cardinality(S) /\ k = k + 1 - 1
      BY <1>1, <3>1, <3>2
    <3>4. QED
      BY <3>2, <3>3
  <2>2. q[n] \in S /\ PlaceOf(q[n], R, S) = PlaceOf(r, R, S)
    BY <1>2, <2>1
  <2>3. q[n] = r \/ <<q[n], r>> \in R
    BY <1>4, <2>1, <2>2
  <2>4. <<q[n], r>> \notin R
    BY <2>1, <2>2, Places
  <2>5. QED
    BY <2>3, <2>4
<1>6. ASSUME NEW m \in 1..Cardinality(S), NEW n \in 1..Cardinality(S), m < n
      PROVE  <<q[m], q[n]>> \in R
  <2>1. /\ q[m] \in S /\ PlaceOf(q[m], R, S) = m - 1
        /\ q[n] \in S /\ PlaceOf(q[n], R, S) = n - 1
    BY <1>2
  <2>2. q[m] = q[n] \/ <<q[m], q[n]>> \in R
    BY <1>4, <1>6, <2>1
  <2>3. q[m] # q[n]
    BY <1>6, <2>1
  <2>4. QED
    BY <2>2, <2>3
<1>7. QED
  BY <1>1, <1>3, <1>5, <1>6

\* The list cut: the least ones, in order, and full when one is left out.
LEMMA CutInOrder ==
    ASSUME NEW S, NEW R, IsFiniteSet(S), Orders(R, S), NEW limit \in Nat, NEW cut,
           cut = SubSeq(InTurn(R, S), 1, Min({limit, Len(InTurn(R, S))}))
    PROVE  /\ cut \in Seq(S)
           /\ \A m, n \in DOMAIN cut : m < n => <<cut[m], cut[n]>> \in R
           /\ \A r \in S \ Range(cut) : Len(cut) = limit /\ \A x \in Range(cut) : <<x, r>> \in R
<1> DEFINE q == InTurn(R, S)
           k == Min({limit, Len(q)})
<1>1. /\ q \in Seq(S) /\ Len(q) = Cardinality(S) /\ Cardinality(S) \in Nat
      /\ \A r \in S : \E n \in 1..Len(q) : q[n] = r
      /\ \A m, n \in 1..Len(q) : m < n => <<q[m], q[n]>> \in R
  BY InTurnIs
<1>2. k \in Nat /\ k <= Len(q) /\ k <= limit /\ (k < Len(q) => k = limit)
  <2>1. k = IF limit <= Len(q) THEN limit ELSE Len(q)
    BY <1>1, MinOfTwo
  <2>2. QED
    BY <1>1, <2>1
<1> HIDE DEF q, k
<1>3. cut = SubSeq(q, 1, k)
  BY DEF q, k
<1>4. \A i \in 1..k : q[i] \in S
  BY <1>1, <1>2, ElementOfSeq
<1>5. cut \in Seq(S) /\ Len(cut) = k /\ \A i \in 1..k : cut[i] = q[i]
  <2>1. /\ SubSeq(q, 1, k) \in Seq(S)
        /\ Len(SubSeq(q, 1, k)) = IF 1 <= k THEN k - 1 + 1 ELSE 0
        /\ \A i \in 1..k - 1 + 1 : SubSeq(q, 1, k)[i] = q[1 + i - 1]
    BY <1>2, <1>4, SubSeqProperties
  <2>2. Len(SubSeq(q, 1, k)) = k /\ 1..k - 1 + 1 = 1..k
    BY <1>2, <2>1
  <2>3. ASSUME NEW i \in 1..k PROVE cut[i] = q[i]
    <3>1. 1 + i - 1 = i
      BY <1>2
    <3>2. SubSeq(q, 1, k)[i] = q[1 + i - 1]
      BY <2>1, <2>2
    <3>3. QED
      BY <1>3, <3>1, <3>2
  <2>4. QED
    BY <1>3, <2>1, <2>2, <2>3
<1>6. DOMAIN cut = 1..k
  BY <1>5, LenProperties
<1>7. \A m, n \in DOMAIN cut : m < n => <<cut[m], cut[n]>> \in R
  <2>1. ASSUME NEW m \in 1..k, NEW n \in 1..k, m < n PROVE <<cut[m], cut[n]>> \in R
    <3>1. m \in 1..Len(q) /\ n \in 1..Len(q)
      BY <1>1, <1>2
    <3>2. QED
      BY <1>1, <1>5, <2>1, <3>1
  <2>2. QED
    BY <1>6, <2>1
<1>8. ASSUME NEW r \in S \ Range(cut) PROVE Len(cut) = limit /\ \A x \in Range(cut) : <<x, r>> \in R
  <2>1. PICK n \in 1..Len(q) : q[n] = r
    BY <1>1
  <2>2. n \notin 1..k
    BY <1>5, <1>6, <2>1 DEF Range
  <2>3. n > k /\ k < Len(q)
    BY <1>1, <1>2, <2>2
  <2>4. ASSUME NEW x \in Range(cut) PROVE <<x, r>> \in R
    <3>1. PICK m \in 1..k : x = cut[m]
      BY <1>6 DEF Range
    <3>2. m \in 1..Len(q) /\ m < n
      BY <1>1, <1>2, <2>3
    <3>3. x = q[m]
      BY <1>5, <3>1
    <3>4. QED
      BY <1>1, <2>1, <3>2, <3>3
  <2>5. QED
    BY <1>2, <1>5, <2>3, <2>4
<1>9. QED
  BY <1>5, <1>7, <1>8

\* A finite set of numbers has a greatest.
LEMMA GreatestOfFinite ==
    ASSUME NEW S, S \subseteq Nat, S # {}, IsFiniteSet(S)
    PROVE  Max(S) \in S /\ \A k \in S : Max(S) >= k
<1> DEFINE R == {p \in S \X S : p[1] < p[2]}
<1>1. \A x, y \in S : <<x, y>> \in R <=> x < y
  OBVIOUS
<1>2. Orders(R, S)
  <2> HIDE DEF R
  <2>1. ASSUME NEW x \in S, NEW y \in S, NEW z \in S
        PROVE  /\ <<x, x>> \notin R /\ (<<x, y>> \in R /\ <<y, z>> \in R => <<x, z>> \in R)
               /\ x = y \/ <<x, y>> \in R \/ <<y, x>> \in R
    <3>1. /\ <<x, x>> \in R <=> x < x
          /\ <<x, y>> \in R <=> x < y
          /\ <<y, z>> \in R <=> y < z
          /\ <<x, z>> \in R <=> x < z
          /\ <<y, x>> \in R <=> y < x
      BY <1>1
    <3>2. x \in Nat /\ y \in Nat /\ z \in Nat
      OBVIOUS
    <3>3. QED
      BY <3>1, <3>2
  <2>2. QED
    BY <2>1 DEF Orders
<1> HIDE DEF R
<1> DEFINE q == InTurn(R, S)
           top == q[Cardinality(S)]
<1>3. /\ q \in Seq(S) /\ Len(q) = Cardinality(S) /\ Cardinality(S) \in Nat
      /\ \A r \in S : \E n \in 1..Cardinality(S) : q[n] = r
      /\ \A m, n \in 1..Cardinality(S) : m < n => <<q[m], q[n]>> \in R
  BY <1>2, InTurnIs
<1> HIDE DEF q
<1>4. Cardinality(S) \in 1..Cardinality(S) /\ top \in S
  <2>1. Cardinality(S) # 0
    BY FS_EmptySet
  <2>2. Cardinality(S) \in 1..Cardinality(S)
    BY <1>3, <2>1
  <2>3. QED
    BY <1>3, <2>2, ElementOfSeq
<1>5. ASSUME NEW k \in S PROVE top >= k
  <2>1. PICK n \in 1..Cardinality(S) : q[n] = k
    BY <1>3
  <2>2. n = Cardinality(S) \/ n < Cardinality(S)
    BY <1>3
  <2>3. n < Cardinality(S) => <<k, top>> \in R
    BY <1>3, <1>4, <2>1
  <2>4. <<k, top>> \in R => k < top
    BY <1>1, <1>4
  <2>5. k \in Nat /\ top \in Nat
    BY <1>4
  <2>6. QED
    BY <2>1, <2>2, <2>3, <2>4, <2>5
<1>6. QED
  BY <1>4, <1>5 DEF Max

----------------------------------------------------------------------------
(* The rows of a journey *)

AllRows == [trip : timetable.trips, day : Nat]
DueIn(w) == {r \in [trip : timetable.trips, day : w] :
                DueOn(r.trip, r.day) /\ Instant(r.trip, r.day) >= moment}

LEMMA TimetableIs ==
    ASSUME timetable \in Timetables
    PROVE  /\ IsFiniteSet(timetable.trips)
           /\ \A trip \in timetable.trips :
                 /\ trip.leaves \in Nat /\ trip.row \in Nat /\ trip.nth \in Nat
                 /\ timetable.services[trip.service].last \in Int
                 /\ IsFiniteSet(timetable.services[trip.service].added)
           /\ \A x, y \in timetable.trips : x # y => x.row # y.row /\ x.nth # y.nth
BY TimetablesAssumption

LEMMA Multiples ==
    ASSUME NEW a \in Nat, NEW b \in Nat, NEW n \in Nat \ {0}
    PROVE  /\ a * n \in Nat
           /\ a < b => a * n + n <= b * n
<1>1. a * n \in Nat /\ b * n \in Nat
  OBVIOUS
<1>2. ASSUME a < b PROVE a * n + n <= b * n
  <2>1. PICK c \in Nat : b = a + 1 + c
    <3>1. b - a - 1 \in Nat /\ b = a + 1 + (b - a - 1)
      BY <1>2
    <3>2. QED
      BY <3>1
  <2>2. c * n \in Nat
    OBVIOUS
  <2>3. b * n = a * n + n + c * n
    BY <2>1
  <2>4. QED
    BY <1>1, <2>2, <2>3
<1>3. QED
  BY <1>1, <1>2

LEMMA InstantIs ==
    ASSUME timetable \in Timetables, NEW r \in AllRows
    PROVE  /\ r.trip \in timetable.trips /\ r.day \in Nat
           /\ Instant(r.trip, r.day) \in Nat
           /\ \A x \in AllRows : x.trip = r.trip /\ Instant(x.trip, x.day) = Instant(r.trip, r.day) => x = r
<1>1. r.trip \in timetable.trips /\ r.day \in Nat
  BY DEF AllRows
<1>2. \A x \in AllRows : x.trip \in timetable.trips /\ x.day \in Nat /\ x.day * DayLength \in Nat /\ x.trip.leaves \in Nat
  BY TimetableIs, BoardAssumption, Multiples DEF AllRows
<1>3. Instant(r.trip, r.day) \in Nat
  BY <1>2 DEF Instant
<1>4. ASSUME NEW x \in AllRows, x.trip = r.trip, Instant(x.trip, x.day) = Instant(r.trip, r.day)
      PROVE  x = r
  <2>1. x.day * DayLength = r.day * DayLength
    BY <1>2, <1>4 DEF Instant
  <2>2. /\ x.day < r.day => x.day * DayLength + DayLength <= r.day * DayLength
        /\ r.day < x.day => r.day * DayLength + DayLength <= x.day * DayLength
    BY <1>1, <1>2, BoardAssumption, Multiples
  <2>3. PICK a \in Nat, b \in Nat, n \in Nat \ {0} :
            a = x.day * DayLength /\ b = r.day * DayLength /\ n = DayLength
    BY <1>2, BoardAssumption
  <2>4. ~(x.day < r.day) /\ ~(r.day < x.day)
    BY <2>1, <2>2, <2>3
  <2>5. x.day = r.day
    BY <1>1, <1>2, <2>4
  <2>6. QED
    BY <1>4, <2>5 DEF AllRows
<1>5. QED
  BY <1>1, <1>3, <1>4

\* The order of the query, and the order of the list, are of any two rows.
LEMMA QueryOrders ==
    ASSUME timetable \in Timetables, NEW S \in SUBSET AllRows
    PROVE  Orders({p \in S \X S : Before(p[1], p[2])}, S)
<1> DEFINE R == {p \in S \X S : Before(p[1], p[2])}
<1>1. \A x, y \in S : <<x, y>> \in R <=> Before(x, y)
  OBVIOUS
<1>2. \A x \in S : /\ x.trip \in timetable.trips /\ x.day \in Nat
                   /\ x.trip.leaves \in Nat /\ x.trip.row \in Nat /\ x.trip.nth \in Nat
  BY TimetableIs, InstantIs
<1>3. \A x, y, z \in S : ~Before(x, x) /\ (Before(x, y) /\ Before(y, z) => Before(x, z))
  BY <1>2 DEF Before
<1>4. ASSUME NEW x \in S, NEW y \in S PROVE x = y \/ Before(x, y) \/ Before(y, x)
  <2>1. CASE x.day = y.day /\ x.trip.leaves = y.trip.leaves /\ x.trip.row = y.trip.row
    <3>1. x.trip = y.trip
      BY <1>2, <2>1, TimetableIs
    <3>2. QED
      BY <2>1, <3>1 DEF AllRows
  <2>2. CASE ~(x.day = y.day /\ x.trip.leaves = y.trip.leaves /\ x.trip.row = y.trip.row)
    BY <1>2, <2>2 DEF Before
  <2>3. QED
    BY <2>1, <2>2
<1>5. QED
  BY <1>1, <1>3, <1>4 DEF Orders

LEMMA BoardOrders ==
    ASSUME timetable \in Timetables, NEW S \in SUBSET AllRows
    PROVE  Orders({p \in S \X S : Sooner(p[1], p[2])}, S)
<1> DEFINE R == {p \in S \X S : Sooner(p[1], p[2])}
<1>1. \A x, y \in S : <<x, y>> \in R <=> Sooner(x, y)
  OBVIOUS
<1>2. \A x \in S : x.trip \in timetable.trips /\ Instant(x.trip, x.day) \in Nat /\ x.trip.nth \in Nat
  BY TimetableIs, InstantIs
<1>3. \A x, y, z \in S : ~Sooner(x, x) /\ (Sooner(x, y) /\ Sooner(y, z) => Sooner(x, z))
  BY <1>2 DEF Sooner
<1>4. ASSUME NEW x \in S, NEW y \in S PROVE x = y \/ Sooner(x, y) \/ Sooner(y, x)
  <2>1. CASE Instant(x.trip, x.day) = Instant(y.trip, y.day) /\ x.trip.nth = y.trip.nth
    BY <1>2, <2>1, TimetableIs, InstantIs
  <2>2. CASE ~(Instant(x.trip, x.day) = Instant(y.trip, y.day) /\ x.trip.nth = y.trip.nth)
    BY <1>2, <2>2 DEF Sooner
  <2>3. QED
    BY <2>1, <2>2
<1>5. QED
  BY <1>1, <1>3, <1>4 DEF Orders

LEMMA QueryInTurn ==
    ASSUME NEW S
    PROVE  InOrder(S, Before) = InTurn({p \in S \X S : Before(p[1], p[2])}, S)
<1> DEFINE R == {p \in S \X S : Before(p[1], p[2])}
<1>1. \A r \in S : {x \in S : Before(x, r)} = Under(r, R, S)
  BY DEF Under
<1> HIDE DEF R
<1> DEFINE nth(n) == CHOOSE r \in S : Cardinality({x \in S : Before(x, r)}) = n - 1
           place(n) == CHOOSE r \in S : PlaceOf(r, R, S) = n - 1
<1>2. \A n \in 1..Cardinality(S) : nth(n) = place(n)
  BY <1>1 DEF PlaceOf
<1>3. InOrder(S, Before) = [n \in 1..Cardinality(S) |-> nth(n)]
  BY DEF InOrder
<1>4. InTurn(R, S) = [n \in 1..Cardinality(S) |-> place(n)]
  BY DEF InTurn
<1> HIDE DEF nth, place
<1>5. [n \in 1..Cardinality(S) |-> nth(n)] = [n \in 1..Cardinality(S) |-> place(n)]
  BY <1>2
<1>6. QED
  BY <1>3, <1>4, <1>5 DEF R

LEMMA BoardInTurn ==
    ASSUME NEW S
    PROVE  InOrder(S, Sooner) = InTurn({p \in S \X S : Sooner(p[1], p[2])}, S)
<1> DEFINE R == {p \in S \X S : Sooner(p[1], p[2])}
<1>1. \A r \in S : {x \in S : Sooner(x, r)} = Under(r, R, S)
  BY DEF Under
<1> HIDE DEF R
<1> DEFINE nth(n) == CHOOSE r \in S : Cardinality({x \in S : Sooner(x, r)}) = n - 1
           place(n) == CHOOSE r \in S : PlaceOf(r, R, S) = n - 1
<1>2. \A n \in 1..Cardinality(S) : nth(n) = place(n)
  BY <1>1 DEF PlaceOf
<1>3. InOrder(S, Sooner) = [n \in 1..Cardinality(S) |-> nth(n)]
  BY DEF InOrder
<1>4. InTurn(R, S) = [n \in 1..Cardinality(S) |-> place(n)]
  BY DEF InTurn
<1> HIDE DEF nth, place
<1>5. [n \in 1..Cardinality(S) |-> nth(n)] = [n \in 1..Cardinality(S) |-> place(n)]
  BY <1>2
<1>6. QED
  BY <1>3, <1>4, <1>5 DEF R

\* _day_offset and the days read: far enough back for every trip.
LEMMA BackFarEnough ==
    ASSUME timetable \in Timetables, NEW trip \in timetable.trips
    PROVE  /\ DayOffset(trip) \in Nat /\ BackDays(timetable.trips) \in Nat
           /\ BackDays(timetable.trips) >= DayOffset(trip)
<1> DEFINE offset == [x \in timetable.trips |-> DayOffset(x)]
           offsets == {offset[x] : x \in timetable.trips}
           S == {1} \cup {DayOffset(x) : x \in timetable.trips}
<1>1. \A x \in timetable.trips : DayOffset(x) \in Nat
  BY TimetableIs, BoardAssumption, Division DEF DayOffset
<1>2. offsets = {DayOffset(x) : x \in timetable.trips}
  OBVIOUS
<1>3. IsFiniteSet(offsets)
  <2> HIDE DEF offset
  <2>1. QED
    BY TimetableIs, FiniteImage
<1>4. IsFiniteSet(S)
  <2>1. IsFiniteSet({1})
    BY FS_Singleton
  <2> HIDE DEF offsets
  <2>2. QED
    BY <1>2, <1>3, <2>1, FS_Union
<1>5. S \subseteq Nat /\ S # {} /\ DayOffset(trip) \in S
  BY <1>1
<1> HIDE DEF S
<1>6. Max(S) \in S /\ \A k \in S : Max(S) >= k
  BY <1>4, <1>5, GreatestOfFinite
<1>7. QED
  BY <1>1, <1>5, <1>6 DEF BackDays, S

\* cal_expand: the days found are days the service runs, finitely many, and
\* none that is still due is before them.
LEMMA DaysFound ==
    ASSUME timetable \in Timetables, moment \in Nat, NEW trip \in timetable.trips, NEW found,
           found = ValidDates(timetable.trips, timetable.services[trip.service])
    PROVE  /\ IsFiniteSet(found)
           /\ \A d \in found : DueOn(trip, d)
           /\ \A d \in Nat : DueOn(trip, d) /\ Instant(trip, d) >= moment => d \in found
<1> DEFINE s == timetable.services[trip.service]
           from == ReadingDay - BackDays(timetable.trips)
           run == {d \in from..s.last : Calendar(s, d)}
<1>1. s.last \in Int /\ IsFiniteSet(s.added) /\ trip.leaves \in Nat
  BY TimetableIs
<1>2. ReadingDay \in Nat /\ DayLength * ReadingDay <= moment
  BY BoardAssumption, Division DEF ReadingDay
<1>3. /\ DayOffset(trip) \in Nat /\ BackDays(timetable.trips) \in Nat
      /\ BackDays(timetable.trips) >= DayOffset(trip)
  BY BackFarEnough
<1>4. found = run \cup s.added
  BY DEF ValidDates
<1>5. IsFiniteSet(found)
  <2>1. from \in Int
    BY <1>2, <1>3
  <2>2. IsFiniteSet(from..s.last)
    <3> HIDE DEF from, s
    <3>1. QED
      BY <1>1, <2>1, FS_Interval
  <2>3. IsFiniteSet(run)
    BY <2>2, FS_Subset
  <2>4. QED
    BY <1>1, <1>4, <2>3, FS_Union
<1>6. \A d \in found : DueOn(trip, d)
  BY <1>4 DEF DueOn
<1>7. ASSUME NEW d \in Nat, DueOn(trip, d), Instant(trip, d) >= moment PROVE d \in found
  <2>1. CASE d \in s.added
    BY <1>4, <2>1
  <2>2. CASE Calendar(s, d)
    <3>1. d <= s.last
      BY <2>2 DEF Calendar
    <3>2. d + DayOffset(trip) >= ReadingDay
      <4> DEFINE b == d + DayOffset(trip) + 1
      <4>1. DayLength * DayOffset(trip) <= trip.leaves /\ trip.leaves < DayLength * DayOffset(trip) + DayLength
        BY <1>1, BoardAssumption, Division DEF DayOffset
      <4>2. d * DayLength + trip.leaves >= moment
        BY <1>7 DEF Instant
      <4>3. b * DayLength = d * DayLength + DayLength * DayOffset(trip) + DayLength
        BY <1>3, BoardAssumption
      <4>4. /\ d * DayLength \in Nat /\ DayLength * DayOffset(trip) \in Nat /\ DayLength * ReadingDay \in Nat
            /\ DayLength * ReadingDay = ReadingDay * DayLength
        BY <1>2, <1>3, BoardAssumption
      <4>5. ~(b <= ReadingDay)
        <5>1. b <= ReadingDay => b * DayLength <= ReadingDay * DayLength
          <6>1. b \in Nat /\ (b <= ReadingDay => b = ReadingDay \/ b < ReadingDay)
            BY <1>2, <1>3
          <6>2. b < ReadingDay => b * DayLength + DayLength <= ReadingDay * DayLength
            BY <1>2, <6>1, BoardAssumption, Multiples
          <6>3. b * DayLength \in Nat /\ ReadingDay * DayLength \in Nat
            BY <1>2, <6>1, BoardAssumption, Multiples
          <6> HIDE DEF b
          <6>4. QED
            BY <6>1, <6>2, <6>3, BoardAssumption
        <5> HIDE DEF b
        <5>2. QED
          BY <1>1, <1>2, <4>1, <4>2, <4>3, <4>4, <5>1, BoardAssumption
      <4>6. QED
        BY <1>2, <1>3, <4>5
    <3>3. d \in from..s.last
      BY <1>1, <1>2, <1>3, <3>1, <3>2
    <3>4. QED
      BY <1>4, <2>2, <3>3
  <2>3. QED
    BY <1>7, <2>1, <2>2 DEF DueOn
<1>8. QED
  BY <1>5, <1>6, <1>7

\* The departure query: of the rows due in some days from the moment on, the
\* first ones in its order, and as many as the limit when one is left out.
LEMMA RowsAre ==
    ASSUME timetable \in Timetables, moment \in Nat, NEW w \in SUBSET Nat, NEW limit \in Nat, NEW cut,
           cut = Rows(w, limit)
    PROVE  /\ cut \in Seq(DueIn(w))
           /\ \A r \in DueIn(w) \ Range(cut) : Len(cut) = limit /\ \A x \in Range(cut) : Before(x, r)
<1> DEFINE D(trip) == {d \in ValidDates(timetable.trips, timetable.services[trip.service]) :
                          d \in w /\ Instant(trip, d) >= moment}
           of(trip) == {[trip |-> trip, day |-> d] : d \in D(trip)}
           found == UNION {of(trip) : trip \in timetable.trips}
           R == {p \in found \X found : Before(p[1], p[2])}
<1>1. \A trip \in timetable.trips : IsFiniteSet(D(trip))
                                    /\ D(trip) = {d \in w : DueOn(trip, d) /\ Instant(trip, d) >= moment}
  <2>1. ASSUME NEW trip \in timetable.trips
        PROVE  IsFiniteSet(D(trip)) /\ D(trip) = {d \in w : DueOn(trip, d) /\ Instant(trip, d) >= moment}
    <3> DEFINE V == ValidDates(timetable.trips, timetable.services[trip.service])
    <3>1. /\ IsFiniteSet(V)
          /\ \A d \in V : DueOn(trip, d)
          /\ \A d \in Nat : DueOn(trip, d) /\ Instant(trip, d) >= moment => d \in V
      BY DaysFound
    <3> HIDE DEF V
    <3>2. D(trip) = {d \in V : d \in w /\ Instant(trip, d) >= moment}
      BY DEF V
    <3>3. QED
      BY <3>1, <3>2, FS_Subset
  <2>2. QED
    BY <2>1
<1>2. found = DueIn(w)
  <2> HIDE DEF D
  <2>1. \A r \in found : r \in DueIn(w)
    BY <1>1 DEF DueIn
  <2>2. ASSUME NEW r \in DueIn(w) PROVE r \in found
    <3>1. /\ r.trip \in timetable.trips /\ r.day \in w /\ r = [trip |-> r.trip, day |-> r.day]
          /\ DueOn(r.trip, r.day) /\ Instant(r.trip, r.day) >= moment
      BY DEF DueIn
    <3>2. r \in of(r.trip)
      BY <1>1, <3>1
    <3> HIDE DEF of
    <3>3. QED
      BY <3>1, <3>2
  <2>3. QED
    BY <2>1, <2>2
<1>3. IsFiniteSet(found)
  <2> DEFINE f == [trip \in timetable.trips |-> of(trip)]
  <2>1. \A trip \in timetable.trips : IsFiniteSet(of(trip))
    <3>1. ASSUME NEW trip \in timetable.trips PROVE IsFiniteSet(of(trip))
      <4> DEFINE g == [d \in D(trip) |-> [trip |-> trip, day |-> d]]
      <4>1. of(trip) = {g[d] : d \in D(trip)}
        <5> HIDE DEF D
        <5>1. QED
          OBVIOUS
      <4> HIDE DEF D, g
      <4>2. QED
        BY <1>1, <4>1, FiniteImage
    <3>2. QED
      BY <3>1
  <2> HIDE DEF of
  <2>2. {of(trip) : trip \in timetable.trips} = {f[trip] : trip \in timetable.trips}
    OBVIOUS
  <2> HIDE DEF f
  <2>3. IsFiniteSet({of(trip) : trip \in timetable.trips})
    <3>1. IsFiniteSet(timetable.trips)
      BY TimetableIs
    <3>2. IsFiniteSet({f[trip] : trip \in timetable.trips})
      BY <3>1, FiniteImage, Zenon
    <3>3. QED
      BY <2>2, <3>2, Zenon
  <2>4. \A T \in {of(trip) : trip \in timetable.trips} : IsFiniteSet(T)
    BY <2>1
  <2>5. QED
    BY <2>3, <2>4, FS_UNION
<1>4. cut = SubSeq(InOrder(found, Before), 1, Min({limit, Len(InOrder(found, Before))}))
  BY DEF Rows
<1> HIDE DEF D, of, found
<1>5. InOrder(found, Before) = InTurn(R, found)
  BY QueryInTurn
<1>6. Orders(R, found)
  <2>1. found \in SUBSET AllRows
    BY <1>2 DEF DueIn, AllRows
  <2>2. QED
    BY <2>1, QueryOrders
<1>7. \A x, r \in found : <<x, r>> \in R <=> Before(x, r)
  OBVIOUS
<1> HIDE DEF R
<1>8. /\ cut \in Seq(found)
      /\ \A r \in found \ Range(cut) : Len(cut) = limit /\ \A x \in Range(cut) : <<x, r>> \in R
  BY <1>3, <1>4, <1>5, <1>6, CutInOrder
<1>9. Range(cut) \subseteq found
  BY <1>8, RangeOfSeq
<1>10. QED
  BY <1>2, <1>7, <1>8, <1>9

\* _departure_timetable: of the rows kept, the soonest after the moment, and
\* a full list when one is left out.
LEMMA UpcomingIs ==
    ASSUME timetable \in Timetables, NEW kept \in SUBSET AllRows, IsFiniteSet(kept), NEW current \in Nat,
           NEW list, list = Upcoming(kept, current)
    PROVE  /\ Range(list) \subseteq {r \in kept : Instant(r.trip, r.day) > current}
           /\ \A m, n \in DOMAIN list : m < n =>
                 Instant(list[m].trip, list[m].day) <= Instant(list[n].trip, list[n].day)
           /\ \A r \in kept \ Range(list) : Instant(r.trip, r.day) > current =>
                 /\ Len(list) = BOARD
                 /\ \A x \in Range(list) : Instant(x.trip, x.day) <= Instant(r.trip, r.day)
<1> DEFINE ahead == {r \in kept : Instant(r.trip, r.day) > current}
           R == {p \in ahead \X ahead : Sooner(p[1], p[2])}
<1>1. list = SubSeq(InOrder(ahead, Sooner), 1, Min({BOARD, Len(InOrder(ahead, Sooner))}))
  BY DEF Upcoming
<1>2. ahead \in SUBSET AllRows /\ IsFiniteSet(ahead)
  BY FS_Subset
<1> HIDE DEF ahead
<1>3. InOrder(ahead, Sooner) = InTurn(R, ahead)
  BY BoardInTurn
<1>4. Orders(R, ahead)
  BY <1>2, BoardOrders
<1>5. \A x, r \in ahead : <<x, r>> \in R => Instant(x.trip, x.day) <= Instant(r.trip, r.day)
  <2>1. \A x \in ahead : Instant(x.trip, x.day) \in Nat
    BY <1>2, InstantIs
  <2>2. QED
    BY <2>1 DEF Sooner
<1> HIDE DEF R
<1>6. /\ list \in Seq(ahead)
      /\ \A m, n \in DOMAIN list : m < n => <<list[m], list[n]>> \in R
      /\ \A r \in ahead \ Range(list) : Len(list) = BOARD /\ \A x \in Range(list) : <<x, r>> \in R
  BY <1>1, <1>2, <1>3, <1>4, BoardAssumption, CutInOrder
<1>7. Range(list) \subseteq ahead
  BY <1>6, RangeOfSeq
<1>8. \A n \in DOMAIN list : list[n] \in ahead
  BY <1>7 DEF Range
<1>9. \A m, n \in DOMAIN list : m < n =>
         Instant(list[m].trip, list[m].day) <= Instant(list[n].trip, list[n].day)
  BY <1>5, <1>6, <1>8
<1>10. \A r \in ahead \ Range(list) :
          Len(list) = BOARD /\ \A x \in Range(list) : Instant(x.trip, x.day) <= Instant(r.trip, r.day)
  BY <1>5, <1>6, <1>7
<1>11. QED
  BY <1>7, <1>9, <1>10 DEF ahead

\* get_next_service_date and first_departure_row: the day said has a row of
\* its own when it is to come.
LEMMA FirstRowIs ==
    ASSUME timetable \in Timetables, moment \in Nat, NEW from \in Nat, from > ReadingDay,
           NextServiceDate(from) # NoDay
    PROVE  FirstRow(from) # <<>> /\ FirstRow(from)[1].day = NextServiceDate(from)
<1> DEFINE runs(d) == \E trip \in timetable.trips :
                         LET s == timetable.services[trip.service] IN Calendar(s, d) \/ d \in s.added
           running == {d \in from..from + HORIZON : runs(d)}
           next == NextServiceDate(from)
           cut == Rows({next}, 1)
<1>1. running # {} /\ next = Min(running)
  BY DEF NextServiceDate
<1>2. running \subseteq Nat
  BY BoardAssumption
<1>3. next \in running
  <2> HIDE DEF running
  <2>1. PICK d \in running : \A k \in running : d <= k
    BY <1>1, <1>2, LeastOf
  <2>2. QED
    BY <1>1, <2>1 DEF Min
<1>4. next \in Nat /\ next >= from
  BY <1>3, BoardAssumption
<1>5. PICK trip \in timetable.trips : DueOn(trip, next)
  BY <1>3 DEF DueOn
<1> HIDE DEF next
<1>6. Instant(trip, next) >= moment
  <2>1. ReadingDay \in Nat /\ moment < DayLength * ReadingDay + DayLength
    BY BoardAssumption, Division DEF ReadingDay
  <2>2. ReadingDay * DayLength + DayLength <= next * DayLength
    BY <1>4, <2>1, BoardAssumption, Multiples
  <2>3. trip.leaves \in Nat
    BY TimetableIs
  <2>4. /\ ReadingDay * DayLength = DayLength * ReadingDay
        /\ ReadingDay * DayLength \in Nat /\ next * DayLength \in Nat
    BY <1>4, <2>1, BoardAssumption
  <2>5. moment < next * DayLength
    BY <2>1, <2>2, <2>4, BoardAssumption
  <2>6. QED
    BY <2>3, <2>4, <2>5 DEF Instant
<1>7. [trip |-> trip, day |-> next] \in DueIn({next})
  BY <1>5, <1>6 DEF DueIn
<1>8. /\ cut \in Seq(DueIn({next}))
      /\ \A r \in DueIn({next}) \ Range(cut) : Len(cut) = 1 /\ \A x \in Range(cut) : Before(x, r)
  <2>1. {next} \in SUBSET Nat /\ 1 \in Nat
    BY <1>4
  <2>2. QED
    BY <2>1, RowsAre
<1>9. FirstRow(from) = cut
  BY DEF FirstRow, next
<1> HIDE DEF cut
<1>10. cut # <<>>
  <2>1. ASSUME cut = <<>> PROVE FALSE
    <3>1. Len(cut) = 0 /\ DOMAIN cut = 1..Len(cut)
      BY <1>8, <2>1, LenProperties
    <3>2. Range(cut) = {}
      BY <3>1 DEF Range
    <3>3. Len(cut) = 1
      BY <1>7, <1>8, <3>2
    <3>4. QED
      BY <3>1, <3>3
  <2>2. QED
    BY <2>1
<1>11. cut[1] \in DueIn({next})
  BY <1>8, <1>10, EmptySeq, LenProperties, ElementOfSeq
<1>12. cut[1].day = next
  BY <1>11 DEF DueIn
<1>13. QED
  BY <1>9, <1>10, <1>12 DEF next

----------------------------------------------------------------------------
(* What a reading of the board keeps, until the next *)

\* A row due after the moment is among the rows read, or they are as many as
\* the query gives and all before it.
RowsHold ==
    /\ rows \in Seq([trip : timetable.trips, day : Days])
    /\ \A r \in Range(rows) : DueOn(r.trip, r.day)
    /\ \A r \in [trip : timetable.trips, day : Days] :
          DueOn(r.trip, r.day) /\ Instant(r.trip, r.day) > moment =>
             r \in Range(rows) \/ (Len(rows) = LIMIT /\ \A x \in Range(rows) : Before(x, r))

BoardHolds == board = Upcoming({r \in Range(rows) : ~StruckOut(r, struck)}, moment)

BoardInv ==
    /\ timetable \in Timetables /\ moment \in Nat
    /\ phase = "asked" => struck = {}
    /\ phase # "asked" => RowsHold /\ BoardHolds

LEMMA SoonestThen == ASSUME BoardInv PROVE SoonestAreShown
<1>1. SUFFICES ASSUME phase # "asked" PROVE SoonestAreShown
  BY DEF SoonestAreShown
<1> DEFINE kept == {r \in Range(rows) : ~StruckOut(r, struck)}
<1>2. timetable \in Timetables /\ moment \in Nat /\ RowsHold /\ board = Upcoming(kept, moment)
  BY <1>1 DEF BoardInv, BoardHolds
<1>3. Range(rows) \subseteq [trip : timetable.trips, day : Days]
  BY <1>2, RangeOfSeq DEF RowsHold
<1>4. kept \in SUBSET AllRows /\ IsFiniteSet(kept)
  <2>1. IsFiniteSet(Range(rows))
    <3>1. Len(rows) \in Nat /\ DOMAIN rows = 1..Len(rows)
      BY <1>2, LenProperties DEF RowsHold
    <3>2. IsFiniteSet(1..Len(rows))
      BY <3>1, FS_Interval
    <3>3. QED
      BY <3>1, <3>2, FiniteImage DEF Range
  <2>2. [trip : timetable.trips, day : Days] \subseteq AllRows
    BY BoardAssumption DEF AllRows
  <2>3. QED
    BY <1>3, <2>1, <2>2, FS_Subset
<1> HIDE DEF kept
<1>5. /\ Range(board) \subseteq {r \in kept : Instant(r.trip, r.day) > moment}
      /\ \A m, n \in DOMAIN board : m < n =>
            Instant(board[m].trip, board[m].day) <= Instant(board[n].trip, board[n].day)
      /\ \A r \in kept \ Range(board) : Instant(r.trip, r.day) > moment =>
            /\ Len(board) = BOARD
            /\ \A x \in Range(board) : Instant(x.trip, x.day) <= Instant(r.trip, r.day)
  BY <1>2, <1>4, UpcomingIs
<1>6. Range(board) \subseteq Ahead
  BY <1>2, <1>3, <1>5 DEF Ahead, RowsHold, kept
<1>7. ASSUME NEW r \in Ahead \ Range(board)
      PROVE  \/ /\ Len(board) = BOARD
                /\ \A x \in Range(board) : Instant(x.trip, x.day) <= Instant(r.trip, r.day)
             \/ Len(rows) = LIMIT /\ \A x \in Range(rows) : Before(x, r)
  <2>1. /\ r \in [trip : timetable.trips, day : Days] /\ DueOn(r.trip, r.day)
        /\ Instant(r.trip, r.day) > moment /\ ~StruckOut(r, struck)
    BY DEF Ahead
  <2>2. CASE r \in Range(rows)
    BY <1>5, <2>1, <2>2 DEF kept
  <2>3. CASE r \notin Range(rows)
    BY <1>2, <2>1, <2>3 DEF RowsHold
  <2>4. QED
    BY <2>2, <2>3
<1>8. \A from \in {day \in Days : day > ReadingDay} :
         NextServiceDate(from) # NoDay =>
            FirstRow(from) # <<>> /\ FirstRow(from)[1].day = NextServiceDate(from)
  BY <1>2, BoardAssumption, FirstRowIs
<1>9. QED
  BY <1>5, <1>6, <1>7, <1>8 DEF SoonestAreShown

LEMMA ReadDeparturesKeeps == ASSUME BoardInv, ReadDepartures PROVE BoardInv'
<1>1. /\ timetable \in Timetables /\ moment \in Nat /\ struck = {}
      /\ timetable' = timetable /\ moment' = moment /\ struck' = struck /\ phase' = "read"
      /\ rows' = Rows(Days, LIMIT) /\ board' = Upcoming(Range(rows'), moment)
  BY DEF BoardInv, ReadDepartures
<1>2. PICK cut : cut = Rows(Days, LIMIT)
  OBVIOUS
<1>3. /\ cut \in Seq(DueIn(Days))
      /\ \A r \in DueIn(Days) \ Range(cut) : Len(cut) = LIMIT /\ \A x \in Range(cut) : Before(x, r)
  BY <1>1, <1>2, BoardAssumption, RowsAre
<1>4. DueIn(Days) \subseteq [trip : timetable.trips, day : Days] /\ \A r \in DueIn(Days) : DueOn(r.trip, r.day)
  BY DEF DueIn
<1>5. Range(cut) \subseteq DueIn(Days)
  BY <1>3, RangeOfSeq
<1>6. cut \in Seq([trip : timetable.trips, day : Days])
  BY <1>3, <1>4, SeqMonotonic
<1>7. ASSUME NEW r \in [trip : timetable.trips, day : Days],
             DueOn(r.trip, r.day), Instant(r.trip, r.day) > moment
      PROVE  r \in Range(cut) \/ (Len(cut) = LIMIT /\ \A x \in Range(cut) : Before(x, r))
  <2>1. r \in AllRows
    BY BoardAssumption DEF AllRows
  <2>2. Instant(r.trip, r.day) >= moment
    BY <1>1, <1>7, <2>1, InstantIs
  <2>3. r \in DueIn(Days)
    BY <1>7, <2>2 DEF DueIn
  <2>4. QED
    BY <1>3, <2>3
<1>8. RowsHold'
  BY <1>1, <1>2, <1>4, <1>5, <1>6, <1>7 DEF RowsHold, DueOn, Calendar, Instant, Before
<1>9. BoardHolds'
  <2>1. {r \in Range(cut) : ~StruckOut(r, struck)} = Range(cut)
    BY <1>1 DEF StruckOut
  <2>2. QED
    BY <1>1, <1>2, <2>1 DEF BoardHolds
<1>10. QED
  BY <1>1, <1>8, <1>9 DEF BoardInv

LEMMA DropDeparturesKeeps == ASSUME BoardInv, DropDepartures PROVE BoardInv'
<1>1. /\ timetable \in Timetables /\ moment \in Nat /\ RowsHold
      /\ timetable' = timetable /\ rows' = rows /\ phase' = "struck"
  BY DEF BoardInv, DropDepartures
<1>2. PICK later \in Moments, strikes \in Strikes :
         /\ later >= moment /\ moment' = later /\ struck' = strikes
         /\ board' = Upcoming({r \in Range(rows) : ~StruckOut(r, strikes)}, later)
  BY DEF DropDepartures
<1>3. later \in Nat
  BY BoardAssumption
<1>4. ASSUME NEW r \in [trip : timetable.trips, day : Days],
             DueOn(r.trip, r.day), Instant(r.trip, r.day) > later
      PROVE  r \in Range(rows) \/ (Len(rows) = LIMIT /\ \A x \in Range(rows) : Before(x, r))
  <2>1. r \in AllRows
    BY BoardAssumption DEF AllRows
  <2>2. Instant(r.trip, r.day) > moment
    BY <1>1, <1>2, <1>3, <1>4, <2>1, InstantIs
  <2>3. QED
    BY <1>1, <1>4, <2>2 DEF RowsHold
<1>5. RowsHold'
  BY <1>1, <1>2, <1>4 DEF RowsHold, DueOn, Calendar, Instant, Before
<1>6. BoardHolds'
  BY <1>1, <1>2 DEF BoardHolds
<1>7. QED
  BY <1>1, <1>2, <1>3, <1>5, <1>6 DEF BoardInv

\* data/departures.py, domain/departures.py: for any timetable, limits and
\* moments, the board holds the soonest departures to come that no feed
\* struck; one left out is after all it lists, or after all the query gave.
THEOREM SoonestAreShownAlways == DeparturesSpec => []SoonestAreShown
<1>1. ASSUME DeparturesInit PROVE BoardInv
  BY <1>1, BoardAssumption DEF DeparturesInit, DeparturesIdle, BoardInv
<1>2. ASSUME BoardInv, [DeparturesNext]_departures PROVE BoardInv'
  <2>1. CASE UNCHANGED departures
    BY <1>2, <2>1 DEF departures, BoardInv, RowsHold, BoardHolds, DueOn, Calendar, Instant, Before
  <2>2. QED
    BY <1>2, <2>1, ReadDeparturesKeeps, DropDeparturesKeeps DEF DeparturesNext
<1>3. ASSUME BoardInv PROVE SoonestAreShown
  BY <1>3, SoonestThen
<1>4. QED
  BY <1>1, <1>2, <1>3, PTL DEF DeparturesSpec
----------------------------------------------------------------------------
(* The run a moment is nearest to *)

LEMMA OnlyOne == ASSUME NEW x \in Int PROVE Min({x}) = x /\ Max({x}) = x
  BY DEF Min, Max

LEMMA DueIsNumber ==
    ASSUME NEW trip \in DOMAIN Times, NEW day \in Int
    PROVE  DueAt(trip, day) \in Int /\ (day \in Nat => DueAt(trip, day) \in Nat)
<1>1. DayUnits \in Nat /\ Times[trip].leaves \in Nat
  BY DayUnitsAssumption, TimesAssumption
<1>2. day * DayUnits \in Int /\ (day \in Nat => day * DayUnits \in Nat)
  BY <1>1
<1>3. QED
  BY <1>1, <1>2 DEF DueAt

LEMMA DaysApart ==
    ASSUME NEW trip \in DOMAIN Times, NEW day \in Int, NEW c \in -2..2
    PROVE  DueAt(trip, day + c) = DueAt(trip, day) + c * DayUnits
<1>1. DayUnits \in Nat /\ Times[trip].leaves \in Nat
  BY DayUnitsAssumption, TimesAssumption
<1>2. day * DayUnits \in Int /\ c * DayUnits \in Int
  BY <1>1
<1>3. (day + c) * DayUnits = day * DayUnits + c * DayUnits
  BY <1>1
<1>4. QED
  BY <1>1, <1>2, <1>3 DEF DueAt

\* _due_on_its_day: of three days, the one whose time is within half a day is
\* the nearest.
LEMMA NearestRun ==
    ASSUME NEW e \in TripUpdate, NEW near \in Int,
           e.saysDay \/ /\ 2 * Distance(DueAt(e.trip, e.day), near) < DayUnits
                        /\ near \div DayUnits \in e.day - 1..e.day + 1
    PROVE  DueOnItsDay(e, near) = DueAt(e.trip, e.day)
<1> DEFINE today == near \div DayUnits
           days3 == IF e.saysDay THEN {e.day} ELSE today - 1..today + 1
           nearest == {d \in days3 : \A c \in days3 :
                          Distance(DueAt(e.trip, d), near) <= Distance(DueAt(e.trip, c), near)}
<1>1. e.trip \in DOMAIN Times /\ e.day \in Nat /\ DayUnits \in Nat \ {0} /\ e.saysDay \in BOOLEAN
  BY DayUnitsAssumption DEF TripUpdate
<1>2. DueAt(e.trip, e.day) \in Int
  BY <1>1, DueIsNumber
<1>3. nearest = {e.day}
  <2>1. CASE e.saysDay
    BY <1>1, <1>2, <2>1 DEF Distance
  <2>2. CASE ~e.saysDay
    <3>1. today \in Int /\ e.day \in today - 1..today + 1
      <4> HIDE DEF today
      <4>1. today \in e.day - 1..e.day + 1
        BY <2>2 DEF today
      <4>2. QED
        BY <1>1, <4>1
    <3>2. ASSUME NEW c \in today - 1..today + 1, c # e.day
          PROVE  Distance(DueAt(e.trip, e.day), near) < Distance(DueAt(e.trip, c), near)
      <4> HIDE DEF today
      <4>1. PICK apart \in -2..2 : c = e.day + apart /\ apart # 0
        <5>1. c - e.day \in -2..2 /\ c = e.day + (c - e.day) /\ c - e.day # 0
          BY <1>1, <3>1, <3>2
        <5>2. QED
          BY <5>1
      <4>2. DueAt(e.trip, c) = DueAt(e.trip, e.day) + apart * DayUnits
        <5>1. DueAt(e.trip, e.day + apart) = DueAt(e.trip, e.day) + apart * DayUnits
          BY <1>1, DaysApart
        <5>2. QED
          BY <4>1, <5>1
      <4>3. apart * DayUnits \in Int /\ (apart * DayUnits >= DayUnits \/ -(apart * DayUnits) >= DayUnits)
        BY <1>1, <4>1
      <4>4. 2 * Distance(DueAt(e.trip, e.day), near) < DayUnits
        BY <2>2
      <4>5. QED
        BY <1>1, <1>2, <4>2, <4>3, <4>4 DEF Distance
    <3>3. ASSUME NEW c \in today - 1..today + 1
          PROVE  Distance(DueAt(e.trip, c), near) \in Int
      <4>1. c \in Int
        BY <3>1
      <4>2. DueAt(e.trip, c) \in Int
        BY <1>1, <4>1, DueIsNumber
      <4>3. QED
        BY <4>2 DEF Distance
    <3>4. days3 = today - 1..today + 1
      BY <2>2
    <3> HIDE DEF today, days3
    <3>5. e.day \in nearest
      BY <3>1, <3>2, <3>3, <3>4
    <3>6. ASSUME NEW d \in nearest PROVE d = e.day
      BY <3>1, <3>2, <3>3, <3>4
    <3>7. QED
      BY <3>5, <3>6
  <2>3. QED
    BY <1>1, <2>1, <2>2
<1>4. DueOnItsDay(e, near) = DueAt(e.trip, Min(nearest))
  BY DEF DueOnItsDay
<1>5. QED
  BY <1>1, <1>3, <1>4, OnlyOne

----------------------------------------------------------------------------
(* The word of a feed, call by call *)

\* The pass is a function: it goes on from any call to the next.
LEMMA WordGoes ==
    ASSUME NEW e \in TripUpdate
    PROVE  \E word : /\ LastWord(e) = word[Times[e.trip].number]
                     /\ word[-1] = NoTime
                     /\ \A k \in 0..Times[e.trip].number : word[k] = Word(e, k, word[k - 1])
<1> DEFINE number == Times[e.trip].number
           Goes(word, top) ==
               word = [k \in -1..top |-> IF k < 0 THEN NoTime ELSE Word(e, k, word[k - 1])]
           stuck == {n \in 0..number : ~\E word : Goes(word, n)}
<1>1. number \in Nat
  BY TimesAssumption DEF TripUpdate
<1>2. \E word : Goes(word, number)
  <2>1. SUFFICES ASSUME ~\E word : Goes(word, number) PROVE FALSE
    OBVIOUS
  <2>2. number \in stuck
    BY <1>1, <2>1
  <2>3. stuck \subseteq Nat
    BY <1>1
  <2>4. PICK m \in stuck : \A n \in stuck : m <= n
    <3> HIDE DEF stuck
    <3>1. QED
      BY <2>2, <2>3, LeastOf
  <2>5. m \in Nat /\ m <= number /\ ~\E word : Goes(word, m)
    BY <1>1, <2>4
  <2>6. \E word : Goes(word, m - 1)
    <3>1. CASE m = 0
      <4> DEFINE start == [k \in -1..-1 |-> NoTime]
      <4>1. start = [k \in -1..-1 |-> IF k < 0 THEN NoTime ELSE Word(e, k, start[k - 1])]
        OBVIOUS
      <4>2. Goes(start, m - 1)
        BY <3>1, <4>1
      <4>3. QED
        BY <4>2
    <3>2. CASE m # 0
      <4>1. m - 1 \in 0..number /\ m - 1 \notin stuck
        <5> HIDE DEF stuck
        <5>1. m - 1 \in stuck => m <= m - 1
          BY <2>4
        <5>2. QED
          BY <1>1, <2>5, <3>2, <5>1
      <4>2. QED
        BY <4>1
    <3>3. QED
      BY <3>1, <3>2
  <2>7. PICK word : Goes(word, m - 1)
    BY <2>6
  <2> DEFINE longer == [k \in -1..m |-> IF k = m THEN Word(e, m, word[m - 1]) ELSE word[k]]
  <2>8. \A k \in -1..m - 1 : word[k] = (IF k < 0 THEN NoTime ELSE Word(e, k, word[k - 1]))
    <3> HIDE DEF stuck
    <3> SUFFICES ASSUME NEW k \in -1..m - 1
                 PROVE  word[k] = (IF k < 0 THEN NoTime ELSE Word(e, k, word[k - 1]))
      OBVIOUS
    <3>1. word = [j \in -1..m - 1 |-> IF j < 0 THEN NoTime ELSE Word(e, j, word[j - 1])]
      BY <2>7
    <3>2. QED
      BY <3>1
  <2>9. \A k \in -1..m : longer[k] = (IF k < 0 THEN NoTime ELSE Word(e, k, longer[k - 1]))
    <3> SUFFICES ASSUME NEW k \in -1..m
                 PROVE  longer[k] = (IF k < 0 THEN NoTime ELSE Word(e, k, longer[k - 1]))
      OBVIOUS
    <3>1. CASE k = m
      BY <2>5, <3>1
    <3>2. CASE k # m
      <4>1. k \in -1..m - 1 /\ longer[k] = word[k] /\ (k >= 0 => longer[k - 1] = word[k - 1])
        BY <2>5, <3>2
      <4>2. QED
        BY <2>8, <4>1
    <3>3. QED
      BY <3>1, <3>2
  <2>10. longer = [k \in -1..m |-> IF k < 0 THEN NoTime ELSE Word(e, k, longer[k - 1])]
    <3>1. longer = [k \in -1..m |-> longer[k]]
      OBVIOUS
    <3> HIDE DEF longer
    <3>2. QED
      BY <2>9, <3>1
  <2>11. Goes(longer, m)
    BY <2>10
  <2>12. QED
    BY <2>5, <2>11
<1>3. PICK word : word = (CHOOSE w : Goes(w, number))
  OBVIOUS
<1>4. Goes(word, number)
  BY <1>2, <1>3
<1>5. LastWord(e) = word[number]
  BY <1>3 DEF LastWord
<1>6. word[-1] = NoTime /\ \A k \in 0..number : word[k] = Word(e, k, word[k - 1])
  <2>1. word = [k \in -1..number |-> IF k < 0 THEN NoTime ELSE Word(e, k, word[k - 1])]
    BY <1>4
  <2>2. -1 \in -1..number /\ word[-1] = NoTime
    <3>1. -1 \in -1..number /\ -1 < 0
      BY <1>1
    <3>2. QED
      BY <2>1, <3>1
  <2>3. ASSUME NEW k \in 0..number PROVE word[k] = Word(e, k, word[k - 1])
    <3>1. k \in -1..number /\ ~(k < 0)
      BY <1>1
    <3>2. QED
      BY <2>1, <3>1
  <2>4. QED
    BY <2>2, <2>3
<1>7. QED
  BY <1>5, <1>6

LEMMA UpdatesAre ==
    ASSUME NEW e \in TripUpdate
    PROVE  /\ e.trip \in DOMAIN Times /\ e.day \in Nat /\ Times[e.trip].number \in Nat
           /\ \A k \in DOMAIN e.updates : k \in Nat /\ e.updates[k] \in StopUpdate
  BY TimesAssumption DEF TripUpdate

\* What the calls numbered below k have said last.
SaidBefore(e, k) ==
    IF BeforeIt(e.updates, k) = {} \/ Latest(e.updates, k).kind = "no_data" THEN NoTime
    ELSE DelaySaid(Latest(e.updates, k))

LEMMA LatestIs ==
    ASSUME NEW e \in TripUpdate, PlainCalls(e), NEW k \in Nat, NEW j \in BeforeIt(e.updates, k),
           \A l \in BeforeIt(e.updates, k) : e.updates[l].number <= e.updates[j].number
    PROVE  Latest(e.updates, k) = e.updates[j]
<1> DEFINE before == BeforeIt(e.updates, k)
           c == CHOOSE m \in before : \A l \in before : e.updates[l].number <= e.updates[m].number
<1>1. c \in before /\ \A l \in before : e.updates[l].number <= e.updates[c].number
  <2> HIDE DEF before
  <2>1. j \in before /\ \A l \in before : e.updates[l].number <= e.updates[j].number
    BY DEF before
  <2>2. QED
    BY <2>1
<1>2. /\ c \in DOMAIN e.updates /\ e.updates[c].number \in Nat
      /\ j \in DOMAIN e.updates /\ e.updates[j].number \in Nat
  <2> HIDE DEF c
  <2>1. ASSUME NEW l \in before PROVE l \in DOMAIN e.updates /\ e.updates[l].number \in Nat
    BY UpdatesAre DEF BeforeIt, StopUpdate
  <2>2. QED
    BY <1>1, <2>1
<1>3. e.updates[c].number = e.updates[j].number
  <2>1. e.updates[c].number <= e.updates[j].number /\ e.updates[j].number <= e.updates[c].number
    BY <1>1
  <2> HIDE DEF c
  <2>2. QED
    BY <1>2, <2>1
<1>4. c = j
  <2> HIDE DEF c
  <2>1. e.updates[c].number # NoTime
    BY <1>2 DEF NoTime
  <2>2. QED
    BY <1>2, <1>3, <2>1 DEF PlainCalls
<1>5. QED
  BY <1>4 DEF Latest

\* The update numbered k, when there is one, is the only word at k.
LEMMA CallsAtIs ==
    ASSUME NEW e \in TripUpdate, PlainCalls(e), NEW k \in 0..Times[e.trip].number - 1
    PROVE  /\ CallsAt(e, k) = {} => \A l \in DOMAIN e.updates : e.updates[l].number # k
           /\ CallsAt(e, k) # {} => \E j \in DOMAIN e.updates :
                 /\ e.updates[j].number = k /\ CallsAt(e, k) = {e.updates[j]}
                 /\ \A l \in DOMAIN e.updates : e.updates[l].number = k => l = j
<1>1. CallsAt(e, k) = {e.updates[l] : l \in {l \in DOMAIN e.updates : e.updates[l].number = k}}
  <2>1. k # Times[e.trip].number
    BY UpdatesAre
  <2>2. QED
    BY <2>1 DEF CallsAt, ToSet
<1>2. ASSUME NEW j \in DOMAIN e.updates, e.updates[j].number = k
      PROVE  \A l \in DOMAIN e.updates : e.updates[l].number = k => l = j
  <2>1. k # NoTime
    BY UpdatesAre DEF NoTime
  <2>2. QED
    BY <1>2, <2>1 DEF PlainCalls
<1>3. ASSUME CallsAt(e, k) # {}
      PROVE  \E j \in DOMAIN e.updates :
                 /\ e.updates[j].number = k /\ CallsAt(e, k) = {e.updates[j]}
                 /\ \A l \in DOMAIN e.updates : e.updates[l].number = k => l = j
  <2>1. PICK j \in DOMAIN e.updates : e.updates[j].number = k
    BY <1>1, <1>3
  <2>2. \A l \in DOMAIN e.updates : e.updates[l].number = k => l = j
    BY <1>2, <2>1
  <2>3. QED
    BY <1>1, <2>1, <2>2
<1>4. QED
  BY <1>1, <1>3

\* One call more, said as the code reads it back.
LEMMA SaidNext ==
    ASSUME NEW e \in TripUpdate, PlainCalls(e), NEW k \in 0..Times[e.trip].number - 1
    PROVE  SaidBefore(e, k + 1) = Word(e, k, SaidBefore(e, k))
<1> DEFINE number == Times[e.trip].number
<1>1. number \in Nat /\ k \in Nat /\ k < number
  BY UpdatesAre
<1>2. ASSUME NEW l \in DOMAIN e.updates
      PROVE  /\ e.updates[l] \in StopUpdate /\ e.updates[l].number \in Nat \cup {NoTime}
             /\ l \in BeforeIt(e.updates, k + 1) <=>
                   (l \in BeforeIt(e.updates, k) \/ (e.updates[l].number = k /\ e.updates[l].kind # "skipped"))
  <2>1. e.updates[l] \in StopUpdate /\ e.updates[l].number \in Nat \cup {NoTime}
    BY <1>2, UpdatesAre DEF StopUpdate
  <2>2. QED
    BY <1>1, <1>2, <2>1 DEF BeforeIt, NoTime
<1>3. BeforeIt(e.updates, k + 1) \subseteq DOMAIN e.updates /\ BeforeIt(e.updates, k) \subseteq DOMAIN e.updates
  BY DEF BeforeIt
<1>4. ASSUME BeforeIt(e.updates, k + 1) = BeforeIt(e.updates, k) PROVE SaidBefore(e, k + 1) = SaidBefore(e, k)
  <2> DEFINE last(S) == e.updates[CHOOSE m \in S : \A l \in S : e.updates[l].number <= e.updates[m].number]
  <2>1. /\ Latest(e.updates, k + 1) = last(BeforeIt(e.updates, k + 1))
        /\ Latest(e.updates, k) = last(BeforeIt(e.updates, k))
    BY DEF Latest
  <2> HIDE DEF last
  <2>2. Latest(e.updates, k + 1) = Latest(e.updates, k)
    BY <1>4, <2>1
  <2>3. QED
    BY <1>4, <2>2 DEF SaidBefore
<1>5. CASE CallsAt(e, k) = {}
  <2>1. \A l \in DOMAIN e.updates : e.updates[l].number # k
    BY <1>5, CallsAtIs
  <2>2. BeforeIt(e.updates, k + 1) = BeforeIt(e.updates, k)
    BY <1>2, <1>3, <2>1
  <2>3. Word(e, k, SaidBefore(e, k)) = SaidBefore(e, k)
    BY <1>5 DEF Word
  <2>4. QED
    BY <1>4, <2>2, <2>3
<1>6. CASE CallsAt(e, k) # {}
  <2>1. PICK j \in DOMAIN e.updates :
           /\ e.updates[j].number = k /\ CallsAt(e, k) = {e.updates[j]}
           /\ \A l \in DOMAIN e.updates : e.updates[l].number = k => l = j
    BY <1>6, CallsAtIs
  <2> DEFINE u == e.updates[j]
  <2>2. u \in StopUpdate /\ u.kind \in {"scheduled", "skipped", "no_data"}
    BY <1>2 DEF StopUpdate
  <2>3. (CHOOSE x \in CallsAt(e, k) : TRUE) = u
    BY <2>1
  <2>4. Word(e, k, SaidBefore(e, k)) =
            IF u.kind = "skipped" THEN SaidBefore(e, k)
            ELSE IF u.kind # "scheduled" \/ u.form = "nothing" THEN NoTime ELSE DelaySaid(u)
    <3> DEFINE x == CHOOSE y \in CallsAt(e, k) : TRUE
    <3>1. Word(e, k, SaidBefore(e, k)) =
              IF x.kind = "skipped" /\ k < number THEN SaidBefore(e, k)
              ELSE IF x.kind # "scheduled" \/ x.form = "nothing" THEN NoTime
              ELSE IF k = number THEN x.late ELSE DelaySaid(x)
      BY <1>6 DEF Word
    <3>2. x = u /\ k < number /\ k # number
      BY <1>1, <2>3
    <3> HIDE DEF x, u, number
    <3>3. QED
      BY <3>1, <3>2
  <2>5. CASE u.kind = "skipped"
    <3>1. BeforeIt(e.updates, k + 1) = BeforeIt(e.updates, k)
      BY <1>2, <1>3, <2>1, <2>5
    <3>2. QED
      BY <1>4, <2>4, <2>5, <3>1
  <2>6. CASE u.kind # "skipped"
    <3>1. j \in BeforeIt(e.updates, k + 1)
      BY <1>2, <2>1, <2>6
    <3>2. \A l \in BeforeIt(e.updates, k + 1) : e.updates[l].number <= e.updates[j].number
      BY <1>1, <1>2, <1>3, <2>1 DEF BeforeIt
    <3>3. Latest(e.updates, k + 1) = u
      <4>1. k + 1 \in Nat
        BY <1>1
      <4>2. QED
        BY <3>1, <3>2, <4>1, LatestIs
    <3>4. SaidBefore(e, k + 1) = IF u.kind = "no_data" THEN NoTime ELSE DelaySaid(u)
      BY <3>1, <3>3 DEF SaidBefore
    <3>5. u.form = "nothing" => DelaySaid(u) = NoTime
      BY DEF DelaySaid
    <3> HIDE DEF u
    <3>6. QED
      BY <2>2, <2>4, <2>6, <3>4, <3>5
  <2>7. QED
    BY <2>5, <2>6
<1>7. QED
  BY <1>5, <1>6

\* The pass ends as the code reads it: from this call and the latest before.
LEMMA LastWordIs ==
    ASSUME NEW e \in TripUpdate, PlainCalls(e)
    PROVE  LastWord(e) = Word(e, Times[e.trip].number, SaidBefore(e, Times[e.trip].number))
<1> DEFINE number == Times[e.trip].number
<1>1. PICK word : /\ LastWord(e) = word[number] /\ word[-1] = NoTime
                  /\ \A k \in 0..number : word[k] = Word(e, k, word[k - 1])
  BY WordGoes
<1> DEFINE parts == {k \in 0..number : word[k - 1] # SaidBefore(e, k)}
<1>2. number \in Nat
  BY UpdatesAre
<1>3. parts = {}
  <2>1. SUFFICES ASSUME parts # {} PROVE FALSE
    OBVIOUS
  <2>2. PICK m \in parts : \A k \in parts : m <= k
    <3>1. parts \subseteq Nat
      BY <1>2
    <3> HIDE DEF parts
    <3>2. QED
      BY <2>1, <3>1, LeastOf
  <2>3. m \in 0..number /\ word[m - 1] # SaidBefore(e, m)
    BY <2>2
  <2>4. m # 0
    <3>1. BeforeIt(e.updates, 0) = {}
      <4>1. ASSUME NEW l \in DOMAIN e.updates, e.updates[l].number # NoTime PROVE ~(e.updates[l].number < 0)
        <5>1. e.updates[l].number \in Nat
          BY <4>1, UpdatesAre DEF StopUpdate
        <5>2. QED
          BY <5>1
      <4>2. QED
        BY <4>1 DEF BeforeIt
    <3>2. SaidBefore(e, 0) = NoTime
      BY <3>1 DEF SaidBefore
    <3>3. QED
      BY <1>1, <2>3, <3>2
  <2>5. m - 1 \in 0..number - 1 /\ m - 1 \in 0..number /\ (m - 1) + 1 = m
    BY <1>2, <2>3, <2>4
  <2>6. word[(m - 1) - 1] = SaidBefore(e, m - 1)
    <3>1. m - 1 \notin parts
      <4> HIDE DEF parts
      <4>1. m - 1 \in parts => m <= m - 1
        BY <2>2
      <4>2. QED
        BY <2>5, <4>1
    <3>2. QED
      BY <2>5, <3>1
  <2>7. word[m - 1] = Word(e, m - 1, SaidBefore(e, m - 1))
    BY <1>1, <2>5, <2>6
  <2>8. SaidBefore(e, (m - 1) + 1) = Word(e, m - 1, SaidBefore(e, m - 1))
    BY <2>5, SaidNext
  <2>9. QED
    BY <2>3, <2>5, <2>7, <2>8
<1>4. number \in 0..number /\ word[number - 1] = SaidBefore(e, number)
  BY <1>2, <1>3
<1>5. QED
  BY <1>1, <1>4

\* The word of a call of this stop.
SaidOf(u) == IF u.kind # "scheduled" \/ u.form = "nothing" THEN NoTime ELSE u.late

LEMMA DelaySaidIs == ASSUME NEW u \in StopUpdate PROVE DelaySaid(u) \in Int /\ DelaySaid(u) >= NoTime
<1>1. u.late \in Int /\ u.late > NoTime
  BY DEF StopUpdate
<1>2. QED
  BY <1>1 DEF DelaySaid, NoTime

\* _calls_here reads what the pass ends on: no call and no word, or one call,
\* by its id, its number or the delay carried to it, and its word.
LEMMA CallIs ==
    ASSUME NEW e \in TripUpdate, PlainCalls(e)
    PROVE  LET number == Times[e.trip].number IN
           \/ CallsHere(e.updates, number) = {} /\ LastWord(e) = NoTime
           \/ \E u \in StopUpdate : /\ CallsHere(e.updates, number) = {u} /\ LastWord(e) = SaidOf(u)
                                    /\ FirstCall(e.updates, number) = u
<1> DEFINE number == Times[e.trip].number
           own == OwnCalls(e.updates, number)
           carried == SaidBefore(e, number)
<1>1. number \in Nat /\ number # NoTime
  BY UpdatesAre DEF NoTime
<1>2. LastWord(e) = Word(e, number, carried)
  BY LastWordIs
<1>3. own = {k \in DOMAIN e.updates : e.updates[k].stop = "here" \/ e.updates[k].number = number}
  <2>1. ASSUME NEW k \in DOMAIN e.updates, e.updates[k].number = number PROVE e.updates[k].stop \in {"here", ""}
    <3>1. e.updates[k] \in ToSet(e.updates)
      BY DEF ToSet
    <3>2. QED
      BY <2>1, <3>1 DEF PlainCalls
  <2>2. QED
    BY <1>1, <2>1 DEF OwnCalls
<1>4. CallsAt(e, number) = {e.updates[k] : k \in own}
  BY <1>3 DEF CallsAt, ToSet
<1>5. CASE own = {}
  <2>1. LastWord(e) = carried
    BY <1>2, <1>4, <1>5 DEF Word
  <2>2. CallsHere(e.updates, number) =
            IF BeforeIt(e.updates, number) = {} THEN {}
            ELSE IF \/ Latest(e.updates, number).kind = "no_data"
                    \/ DelaySaid(Latest(e.updates, number)) = NoTime THEN {}
            ELSE {Carried(number, DelaySaid(Latest(e.updates, number)))}
    <3>1. {e.updates[k] : k \in own} = {}
      BY <1>5
    <3> HIDE DEF number
    <3>2. QED
      BY <1>1, <1>5, <3>1 DEF CallsHere
  <2>3. CallsHere(e.updates, number) = IF carried = NoTime THEN {} ELSE {Carried(number, carried)}
    BY <2>2 DEF SaidBefore
  <2>4. CASE carried = NoTime
    BY <2>1, <2>3, <2>4
  <2>5. CASE carried # NoTime
    <3> DEFINE u == Carried(number, carried)
    <3>1. carried \in Int /\ carried > NoTime
      <4>1. BeforeIt(e.updates, number) # {} /\ carried = DelaySaid(Latest(e.updates, number))
        BY <2>5 DEF SaidBefore
      <4>2. \A l \in BeforeIt(e.updates, number) : e.updates[l].number \in 0..number
        <5>1. ASSUME NEW k \in BeforeIt(e.updates, number) PROVE e.updates[k].number \in 0..number
          <6>1. k \in DOMAIN e.updates /\ e.updates[k].number # NoTime /\ e.updates[k].number < number
            BY DEF BeforeIt
          <6>2. e.updates[k].number \in Nat
            BY <6>1, UpdatesAre DEF StopUpdate
          <6>3. QED
            BY <1>1, <6>1, <6>2
        <5>2. QED
          BY <5>1
      <4>3. PICK j \in BeforeIt(e.updates, number) :
               \A l \in BeforeIt(e.updates, number) : e.updates[l].number <= e.updates[j].number
        <5> DEFINE numbers == {e.updates[l].number : l \in BeforeIt(e.updates, number)}
        <5>1. numbers \subseteq 0..number /\ numbers # {}
          BY <4>1, <4>2
        <5>2. PICK m \in numbers : \A l \in numbers : m >= l
          <6> HIDE DEF numbers
          <6>1. QED
            BY <1>1, <5>1, GreatestOf
        <5>3. \A l \in numbers : l <= m
          BY <1>1, <5>1, <5>2
        <5>4. QED
          BY <5>2, <5>3
      <4>4. Latest(e.updates, number) = e.updates[j]
        BY <1>1, <4>3, LatestIs
      <4>5. e.updates[j] \in StopUpdate
        BY <4>3, UpdatesAre DEF BeforeIt
      <4>6. carried \in Int /\ carried >= NoTime
        BY <4>1, <4>4, <4>5, DelaySaidIs
      <4>7. QED
        BY <2>5, <4>6 DEF NoTime
    <3>2. u \in StopUpdate /\ SaidOf(u) = carried
      <4> HIDE DEF number, carried
      <4>1. QED
        BY <1>1, <3>1 DEF StopUpdate, Carried, SaidOf
    <3>3. CallsHere(e.updates, number) = {u}
      BY <2>3, <2>5
    <3>4. FirstCall(e.updates, number) = u
      <4>1. FirstCall(e.updates, number) = CHOOSE x \in CallsHere(e.updates, number) : TRUE
        BY <1>5 DEF FirstCall
      <4> HIDE DEF u
      <4>2. QED
        BY <3>3, <4>1
    <3> HIDE DEF u, carried, number
    <3>5. QED
      BY <2>1, <3>2, <3>3, <3>4 DEF number
  <2>6. QED
    BY <2>4, <2>5
<1>6. CASE own # {}
  <2>1. PICK j \in own : TRUE
    BY <1>6
  <2>2. \A k \in own : k = j
    BY <1>3, <2>1 DEF PlainCalls
  <2>3. own = {j} /\ j \in DOMAIN e.updates
    <3>1. own \subseteq DOMAIN e.updates
      BY DEF OwnCalls
    <3> HIDE DEF own
    <3>2. QED
      BY <2>1, <2>2, <3>1
  <2> DEFINE u == e.updates[j]
  <2>4. u \in StopUpdate /\ j \in Nat
    BY <2>3, UpdatesAre
  <2>5. CallsHere(e.updates, number) = {u}
    <3>1. CallsHere(e.updates, number) = {e.updates[k] : k \in own}
      BY <1>6 DEF CallsHere
    <3> HIDE DEF own
    <3>2. QED
      BY <2>3, <3>1
  <2>6. FirstCall(e.updates, number) = u
    <3>1. FirstCall(e.updates, number) = e.updates[Min(own)]
      BY <1>6 DEF FirstCall
    <3> HIDE DEF own
    <3>2. QED
      BY <2>3, <2>4, <3>1, OnlyOne
  <2>7. CallsAt(e, number) = {u}
    <3> HIDE DEF own
    <3>1. QED
      BY <1>4, <2>3
  <2>8. LastWord(e) = SaidOf(u)
    <3> DEFINE x == CHOOSE y \in CallsAt(e, number) : TRUE
    <3>1. Word(e, number, carried) =
              IF x.kind = "skipped" /\ number < number THEN carried
              ELSE IF x.kind # "scheduled" \/ x.form = "nothing" THEN NoTime
              ELSE IF number = number THEN x.late ELSE DelaySaid(x)
      BY <2>7 DEF Word
    <3>2. x = u
      BY <2>7
    <3> HIDE DEF x, u, number, carried
    <3>3. ~(number < number)
      BY <1>1
    <3>4. QED
      BY <1>2, <3>1, <3>2, <3>3 DEF SaidOf
  <2> HIDE DEF u, number
  <2>9. QED
    BY <2>4, <2>5, <2>6, <2>8 DEF number
<1>7. QED
  BY <1>5, <1>6

----------------------------------------------------------------------------
(* A reading of the trip updates *)

Reading == asking \in Askings /\ tripFeed \in FeedsAt(asking.at)

LEMMA ReadingIs ==
    ASSUME PlainFeeds, Reading
    PROVE  /\ asking.at \in Nat /\ asking.board \subseteq Run /\ asking.shown \subseteq Run
           /\ asking.database \in BOOLEAN
           /\ \A r \in asking.board \cup asking.shown : Times[r.trip].known
           /\ \A r, s \in asking.shown : r = s
           /\ \A m, n \in DOMAIN tripFeed : tripFeed[m].trip = tripFeed[n].trip => m = n
           /\ \A n \in DOMAIN tripFeed :
                 /\ n \in Nat /\ tripFeed[n] \in TripUpdate
                 /\ Times[tripFeed[n].trip].known =>
                        PlainCalls(tripFeed[n]) /\ PlainDay(tripFeed[n], asking)
<1>1. tripFeed \in Seq(TripUpdate)
  BY TripFeedsAssumption DEF Reading, FeedsAt
<1>2. /\ \A m, n \in DOMAIN tripFeed : tripFeed[m].trip = tripFeed[n].trip => m = n
      /\ \A n \in DOMAIN tripFeed : Times[tripFeed[n].trip].known =>
                                        PlainCalls(tripFeed[n]) /\ PlainDay(tripFeed[n], asking)
  BY DEF Reading, PlainFeeds
<1>3. QED
  BY <1>1, <1>2, AskingsAssumption DEF Reading

LEMMA MinIs ==
    ASSUME NEW S, S \subseteq Int, NEW m \in S, \A x \in S : m <= x
    PROVE  Min(S) = m
<1>1. Min(S) \in S /\ \A y \in S : Min(S) =< y
  BY DEF Min
<1>2. Min(S) <= m /\ m <= Min(S)
  BY <1>1
<1>3. m \in Int /\ Min(S) \in Int
  BY <1>1
<1>4. QED
  BY <1>2, <1>3

LEMMA OnBoardIs ==
    ASSUME PlainFeeds, Reading, NEW n \in DOMAIN tripFeed, Times[tripFeed[n].trip].known
    PROVE  /\ (tripFeed[n].trip \in OnBoard <=> RunsListed(asking, tripFeed[n].trip) # {})
           /\ tripFeed[n].trip \in OnBoard =>
                  BoardTime(tripFeed[n].trip) = DueAt(tripFeed[n].trip, tripFeed[n].day)
<1> DEFINE e == tripFeed[n]
           runs == RunsListed(asking, e.trip)
           dues == {DueAt(e.trip, r.day) : r \in runs}
<1>1. /\ e \in TripUpdate /\ PlainDay(e, asking) /\ e.trip \in DOMAIN Times /\ e.day \in Nat
      /\ asking.board \subseteq Run /\ asking.shown \subseteq Run
  <2>1. e \in TripUpdate /\ PlainDay(e, asking) /\ asking.board \subseteq Run /\ asking.shown \subseteq Run
    BY ReadingIs
  <2>2. QED
    BY <2>1 DEF TripUpdate
<1>2. e.trip \in OnBoard <=> runs # {}
  BY DEF OnBoard, RunsListed
<1>3. ASSUME runs # {} PROVE BoardTime(e.trip) = DueAt(e.trip, e.day)
  <2>1. RunOn(e) \in runs /\ \A r \in runs : e.day <= r.day
    <3> HIDE DEF e
    <3>1. QED
      BY <1>1, <1>3 DEF PlainDay
  <2>2. DueAt(e.trip, e.day) \in dues
    BY <2>1 DEF RunOn
  <2>3. ASSUME NEW r \in runs PROVE DueAt(e.trip, r.day) \in Int /\ DueAt(e.trip, e.day) <= DueAt(e.trip, r.day)
    <3>1. r \in asking.board \cup asking.shown
      BY <2>3 DEF RunsListed
    <3>2. r.day \in Nat /\ e.day <= r.day
      BY <1>1, <2>1, <2>3, <3>1 DEF Run
    <3>3. DayUnits \in Nat /\ Times[e.trip].leaves \in Nat
      BY <1>1, DayUnitsAssumption, TimesAssumption
    <3>4. /\ e.day * DayUnits \in Int /\ r.day * DayUnits \in Int
          /\ e.day * DayUnits <= r.day * DayUnits
      <4>1. r.day - e.day \in Nat
        BY <1>1, <3>2
      <4>2. (r.day - e.day) * DayUnits \in Nat
        BY <3>3, <4>1
      <4>3. r.day * DayUnits = e.day * DayUnits + (r.day - e.day) * DayUnits
        BY <1>1, <3>2, <3>3, <4>1
      <4>4. e.day * DayUnits \in Int
        BY <1>1, <3>3
      <4>5. QED
        BY <4>2, <4>3, <4>4
    <3>5. QED
      BY <3>3, <3>4 DEF DueAt
  <2>4. dues \subseteq Int /\ \A x \in dues : DueAt(e.trip, e.day) <= x
    BY <2>3
  <2>5. Min(dues) = DueAt(e.trip, e.day)
    <3> HIDE DEF dues
    <3>1. QED
      BY <2>2, <2>4, MinIs
  <2>6. QED
    BY <2>5 DEF BoardTime
<1>4. QED
  BY <1>2, <1>3

\* A trip update read here, of a trip the timetable knows the number of.
Read(n) ==
    LET e == tripFeed[n] IN
    /\ n \in FollowedTrips /\ ~e.cancelled /\ Times[e.trip].known
    /\ asking.database \/ Times[e.trip].number = NumberOf(e.trip)

LEMMA ReadIs ==
    ASSUME PlainFeeds, Reading, NEW n, Read(n)
    PROVE  LET e == tripFeed[n] IN
           /\ n \in DOMAIN tripFeed /\ n \in Nat /\ e \in TripUpdate /\ PlainCalls(e) /\ PlainDay(e, asking)
           /\ e.trip \in DOMAIN Times /\ e.day \in Nat /\ Times[e.trip].number \in Nat
           /\ DueAt(e.trip, e.day) \in Nat
<1>1. n \in DOMAIN tripFeed
  BY DEF Read, FollowedTrips
<1>2. n \in Nat /\ tripFeed[n] \in TripUpdate /\ PlainCalls(tripFeed[n]) /\ PlainDay(tripFeed[n], asking)
  BY <1>1, ReadingIs DEF Read
<1>3. /\ tripFeed[n].trip \in DOMAIN Times /\ tripFeed[n].day \in Nat
      /\ Times[tripFeed[n].trip].number \in Nat
  BY <1>2, UpdatesAre
<1>4. QED
  BY <1>1, <1>2, <1>3, DueIsNumber

\* Off the board, only the database can tell of it.
LEMMA ReadOffBoard ==
    ASSUME PlainFeeds, Reading, NEW n, Read(n), tripFeed[n].trip \notin OnBoard
    PROVE  tripFeed[n].trip \in InTimetable
<1> DEFINE e == tripFeed[n]
<1>1. asking.database
  <2>1. SUFFICES ASSUME ~asking.database PROVE FALSE
    OBVIOUS
  <2>2. e.trip \notin InTimetable /\ e.trip \notin Shown
    BY <2>1 DEF InTimetable, OnBoard, Shown
  <2>3. NumberOf(e.trip) = NoTime
    BY <2>2 DEF NumberOf
  <2>4. Times[e.trip].number \in Nat /\ Times[e.trip].number = NoTime
    BY <2>1, <2>3, ReadIs DEF Read
  <2>5. QED
    BY <2>4 DEF NoTime
<1>2. QED
  BY <1>1 DEF Read, InTimetable

\* The calls read are those by the trip's own number, even when the board
\* tells of the trip and the number read is another's or none.
LEMMA CallsRead ==
    ASSUME PlainFeeds, Reading, NEW n, Read(n)
    PROVE  CallsHere(tripFeed[n].updates, NumberOf(tripFeed[n].trip)) =
               CallsHere(tripFeed[n].updates, Times[tripFeed[n].trip].number)
<1> DEFINE e == tripFeed[n]
           number == Times[e.trip].number
<1>1. e \in TripUpdate /\ PlainCalls(e) /\ number \in Nat
  BY ReadIs
<1>2. CASE NumberOf(e.trip) = number
  BY <1>2
<1>3. CASE NumberOf(e.trip) # number
  <2>1. e.trip \notin InTimetable
    BY <1>3 DEF NumberOf
  <2>2. asking.database
    BY <1>3 DEF Read
  <2>3. e.trip \in OnBoard
    BY <2>1, ReadOffBoard
  <2>4. PICK j \in DOMAIN e.updates : e.updates[j].stop = "here"
    BY <2>1, <2>2 DEF Read, InTimetable
  <2>5. e.trip \notin Shown
    <3>1. SUFFICES ASSUME e.trip \in Shown PROVE FALSE
      OBVIOUS
    <3>2. Shown = {e.trip}
      BY <3>1, ReadingIs DEF Shown
    <3>3. {Times[t].number : t \in Shown} = {number}
      BY <3>2
    <3>4. Min({Times[t].number : t \in Shown}) = number
      <4>1. Min({number}) = number
        BY <1>1, OnlyOne
      <4>2. QED
        BY <3>3, <4>1
    <3>5. QED
      BY <1>3, <2>1, <3>1, <3>4 DEF NumberOf
  <2>6. NumberOf(e.trip) = NoTime
    BY <2>1, <2>2, <2>5 DEF NumberOf
  <2>7. OwnCalls(e.updates, NoTime) = OwnCalls(e.updates, number)
    <3>1. \A k \in DOMAIN e.updates : e.updates[k].number = number => k = j
      <4>1. ASSUME NEW k \in DOMAIN e.updates, e.updates[k].number = number PROVE k = j
        <5> HIDE DEF e
        <5>1. PlainCalls(e)
          BY <1>1
        <5>2. QED
          BY <2>4, <4>1, <5>1 DEF PlainCalls
      <4>2. QED
        BY <4>1
    <3>2. QED
      BY <2>4, <3>1 DEF OwnCalls
  <2>8. OwnCalls(e.updates, number) # {}
    BY <2>4 DEF OwnCalls
  <2>9. QED
    BY <2>6, <2>7, <2>8 DEF CallsHere
<1>4. QED
  BY <1>2, <1>3

\* The timetable's time of a trip told of is its run's.
LEMMA ScheduledIs ==
    ASSUME PlainFeeds, Reading, NEW n, Read(n), NEW u \in StopUpdate,
           CallsHere(tripFeed[n].updates, Times[tripFeed[n].trip].number) = {u},
           FirstCall(tripFeed[n].updates, Times[tripFeed[n].trip].number) = u, u.form # "nothing"
    PROVE  Scheduled(tripFeed[n].trip) = DueAt(tripFeed[n].trip, tripFeed[n].day)
<1> DEFINE e == tripFeed[n]
           number == Times[e.trip].number
           telling == {m \in FollowedTrips : /\ tripFeed[m].trip = e.trip /\ Tells(tripFeed[m])
                                             /\ e.trip \notin OnBoard /\ e.trip \in InTimetable}
<1>1. /\ n \in DOMAIN tripFeed /\ n \in Nat /\ e \in TripUpdate /\ PlainDay(e, asking)
      /\ e.trip \in DOMAIN Times /\ e.day \in Nat /\ DueAt(e.trip, e.day) \in Nat /\ Times[e.trip].known
      /\ n \in FollowedTrips
  BY ReadIs DEF Read
<1>2. CASE e.trip \in OnBoard
  BY <1>1, <1>2, OnBoardIs DEF Scheduled
<1>3. CASE e.trip \notin OnBoard
  <2>1. RunsListed(asking, e.trip) = {}
    BY <1>1, <1>3, OnBoardIs
  <2>2. u.late \in Int /\ u.late > NoTime
    BY DEF StopUpdate
  <2>3. u.form \in {"time", "delay", "both", "zero"}
    BY DEF StopUpdate
  <2>4. /\ u.form = "delay" => WhenSaid(e, u) = NoTime /\ DelaySaid(u) = u.late
        /\ u.form # "delay" => WhenSaid(e, u) = DueAt(e.trip, e.day) + u.late
    BY <2>3 DEF WhenSaid, DelaySaid
  <2>5. DueAt(e.trip, e.day) + u.late # NoTime
    BY <1>1, <2>2 DEF NoTime
  <2>6. u.late # NoTime
    BY <2>2 DEF NoTime
  <2>7. Tells(e)
    BY <2>4, <2>5, <2>6 DEF Tells
  <2>8. MomentSaid(e, asking.at) \in Int
    <3>1. asking.at \in Nat
      BY ReadingIs
    <3>2. MomentSaid(e, asking.at) \in {DueAt(e.trip, e.day) + u.late, asking.at + u.late}
      BY <2>4, <2>5 DEF MomentSaid
    <3>3. QED
      BY <1>1, <2>2, <3>1, <3>2
  <2>9. e.trip \in InTimetable
    BY <1>3, ReadOffBoard
  <2>10. telling = {n}
    BY <1>1, <1>3, <2>7, <2>9, ReadingIs DEF FollowedTrips
  <2>11. Scheduled(e.trip) = DueOnItsDay(tripFeed[Max(telling)], MomentSaid(tripFeed[Max(telling)], asking.at))
    <3>1. telling # {}
      BY <2>10
    <3>2. QED
      BY <1>3, <3>1 DEF Scheduled
  <2>12. Max(telling) = n
    <3> HIDE DEF telling
    <3>1. QED
      BY <1>1, <2>10, OnlyOne
  <2>13. Scheduled(e.trip) = DueOnItsDay(e, MomentSaid(e, asking.at))
    <3> HIDE DEF telling
    <3>1. QED
      BY <2>11, <2>12
  <2>14. e.saysDay \/ /\ 2 * Distance(DueAt(e.trip, e.day), MomentSaid(e, asking.at)) < DayUnits
                      /\ MomentSaid(e, asking.at) \div DayUnits \in e.day - 1..e.day + 1
    <3> HIDE DEF e
    <3>1. QED
      BY <1>1, <2>1, <2>7 DEF PlainDay
  <2>15. DueOnItsDay(e, MomentSaid(e, asking.at)) = DueAt(e.trip, e.day)
    <3> HIDE DEF e
    <3>1. QED
      BY <1>1, <2>8, <2>14, NearestRun
  <2>16. QED
    BY <2>13, <2>15
<1>4. QED
  BY <1>2, <1>3

LEMMA TimeAndDelayIs ==
    ASSUME NEW e \in TripUpdate, NEW u \in StopUpdate, DueAt(e.trip, e.day) \in Nat,
           u.form # "nothing" => Scheduled(e.trip) = DueAt(e.trip, e.day)
    PROVE  TimeAndDelay(e, u) = IF u.form = "nothing" THEN <<NoTime, NoTime>>
                                ELSE <<DueAt(e.trip, e.day) + u.late, u.late>>
<1> DEFINE due == DueAt(e.trip, e.day)
<1>1. u.late \in Int /\ u.late > NoTime /\ due \in Nat
  BY DEF StopUpdate
<1>2. u.form \in {"time", "delay", "both", "zero", "nothing"}
  BY DEF StopUpdate
<1>3. /\ due # NoTime /\ due + u.late # NoTime /\ u.late # NoTime
      /\ due + u.late \in Int /\ (due + u.late) - due = u.late /\ 0 # NoTime
  <2> HIDE DEF due
  <2>1. QED
    BY <1>1 DEF NoTime
<1>4. CASE u.form = "nothing"
  <2>1. WhenSaid(e, u) = NoTime /\ DelaySaid(u) = NoTime
    BY <1>4 DEF WhenSaid, DelaySaid
  <2>2. QED
    BY <1>4, <2>1 DEF TimeAndDelay
<1>5. CASE u.form # "nothing"
  <2>1. Scheduled(e.trip) = due
    BY <1>5
  <2>2. /\ u.form = "delay" => WhenSaid(e, u) = NoTime /\ DelaySaid(u) = u.late
        /\ u.form = "time" => WhenSaid(e, u) = due + u.late /\ DelaySaid(u) = NoTime
        /\ u.form = "zero" => WhenSaid(e, u) = due + u.late /\ DelaySaid(u) = 0
        /\ u.form = "both" => WhenSaid(e, u) = due + u.late /\ DelaySaid(u) = u.late
    BY DEF WhenSaid, DelaySaid
  <2> HIDE DEF due
  <2>3. QED
    BY <1>2, <1>3, <1>5, <2>1, <2>2 DEF TimeAndDelay, due
<1>6. QED
  BY <1>4, <1>5

\* What one trip update tells, each departure its run's time and its delay.
LEMMA DeparturesAre ==
    ASSUME PlainFeeds, Reading, NEW n, Read(n)
    PROVE  LET e == tripFeed[n] IN
           /\ \A d \in Departures(n) : /\ d.of = n /\ d.delay = LastWord(e)
                                       /\ d.when = DueAt(e.trip, e.day) + d.delay
           /\ LastWord(e) # NoTime /\ DueAt(e.trip, e.day) + LastWord(e) >= asking.at =>
                  \E d \in Departures(n) : d.of = n
<1> DEFINE e == tripFeed[n]
           number == Times[e.trip].number
           due == DueAt(e.trip, e.day)
<1>1. e \in TripUpdate /\ PlainCalls(e) /\ due \in Nat /\ asking.at \in Nat
  BY ReadIs, ReadingIs
<1>2. CallsHere(e.updates, NumberOf(e.trip)) = CallsHere(e.updates, number)
  BY CallsRead
<1>3. CASE CallsHere(e.updates, number) = {} /\ LastWord(e) = NoTime
  <2>1. Departures(n) = {}
    BY <1>2, <1>3 DEF Departures
  <2>2. QED
    BY <1>3, <2>1
<1>4. ASSUME NEW u \in StopUpdate, CallsHere(e.updates, number) = {u}, LastWord(e) = SaidOf(u),
             FirstCall(e.updates, number) = u
      PROVE  /\ \A d \in Departures(n) : d.of = n /\ d.delay = LastWord(e) /\ d.when = due + d.delay
             /\ LastWord(e) # NoTime /\ due + LastWord(e) >= asking.at => \E d \in Departures(n) : d.of = n
  <2>1. u.form # "nothing" => Scheduled(e.trip) = due
    BY <1>4, ScheduledIs
  <2>2. TimeAndDelay(e, u) = IF u.form = "nothing" THEN <<NoTime, NoTime>> ELSE <<due + u.late, u.late>>
    <3> HIDE DEF e
    <3>1. QED
      BY <1>1, <2>1, TimeAndDelayIs
  <2>3. Departures(n) = {[of |-> n, when |-> TimeAndDelay(e, v)[1], delay |-> TimeAndDelay(e, v)[2]] :
                            v \in {v \in {u} : v.kind = "scheduled" /\ TimeAndDelay(e, v)[1] >= asking.at}}
    BY <1>2, <1>4 DEF Departures
  <2> HIDE DEF e, due, number
  <2>4. u.form = "nothing" => ~(TimeAndDelay(e, u)[1] >= asking.at)
    BY <1>1, <2>2 DEF NoTime
  <2>5. ASSUME NEW d \in Departures(n) PROVE d.of = n /\ d.delay = LastWord(e) /\ d.when = due + d.delay
    <3>1. /\ u.kind = "scheduled" /\ TimeAndDelay(e, u)[1] >= asking.at
          /\ d = [of |-> n, when |-> TimeAndDelay(e, u)[1], delay |-> TimeAndDelay(e, u)[2]]
      BY <2>3, <2>5
    <3>2. u.form # "nothing"
      BY <2>4, <3>1
    <3>3. d.of = n /\ d.when = due + u.late /\ d.delay = u.late /\ LastWord(e) = u.late
      BY <1>4, <2>2, <3>1, <3>2 DEF SaidOf
    <3>4. QED
      BY <3>3
  <2>6. ASSUME LastWord(e) # NoTime, due + LastWord(e) >= asking.at PROVE \E d \in Departures(n) : d.of = n
    <3>1. u.kind = "scheduled" /\ u.form # "nothing" /\ LastWord(e) = u.late
      BY <1>4, <2>6 DEF SaidOf
    <3>2. TimeAndDelay(e, u)[1] >= asking.at
      BY <2>2, <2>6, <3>1
    <3>3. [of |-> n, when |-> TimeAndDelay(e, u)[1], delay |-> TimeAndDelay(e, u)[2]] \in Departures(n)
      BY <2>3, <3>1, <3>2
    <3>4. QED
      BY <3>3
  <2>7. QED
    BY <2>5, <2>6
<1>5. \/ CallsHere(e.updates, number) = {} /\ LastWord(e) = NoTime
      \/ \E u \in StopUpdate : /\ CallsHere(e.updates, number) = {u} /\ LastWord(e) = SaidOf(u)
                               /\ FirstCall(e.updates, number) = u
  <2> HIDE DEF e
  <2>1. QED
    BY <1>1, CallIs
<1>6. QED
  BY <1>3, <1>4, <1>5

\* Whom a reading follows, and by which numbers, are of its inputs alone.
LEMMA SameReading ==
    ASSUME tripFeed' = tripFeed, asking' = asking
    PROVE  FollowedTrips' = FollowedTrips /\ \A trip : NumberOf(trip)' = NumberOf(trip)
<1>1. /\ OnBoard' = OnBoard /\ TripList' = TripList /\ Shown' = Shown
  BY DEF OnBoard, TripList, Shown
<1>2. \A e : Follows(e)' = Follows(e)
  BY <1>1 DEF Follows, NamesTrip
<1>3. FollowedTrips' = FollowedTrips
  BY <1>2 DEF FollowedTrips
<1>4. InTimetable' = InTimetable
  BY <1>1, <1>3 DEF InTimetable
<1>5. QED
  BY <1>1, <1>3, <1>4 DEF NumberOf

TripsInv == Reading /\ matched \in BOOLEAN /\ (~matched => told = {}) /\ TimesAddUp

LEMMA ReadTripsKeeps == ASSUME PlainFeeds, TripsInv, ReadTrips PROVE TripsInv'
<1>1. /\ Reading /\ matched' = TRUE /\ tripFeed' = tripFeed /\ asking' = asking
      /\ told' = UNION {Departures(n) : n \in {m \in FollowedTrips : ~tripFeed[m].cancelled}}
  BY DEF TripsInv, ReadTrips
<1>2. FollowedTrips' = FollowedTrips /\ \A trip : NumberOf(trip)' = NumberOf(trip)
  BY <1>1, SameReading
<1>3. ASSUME NEW d \in told', LET e == tripFeed[d.of] IN
             Times[e.trip].known /\ (asking.database \/ Times[e.trip].number = NumberOf(e.trip))
      PROVE  LET e == tripFeed[d.of] IN
             ~e.cancelled /\ d.delay = LastWord(e) /\ d.when = DueAt(e.trip, e.day) + d.delay
  <2>1. PICK n \in FollowedTrips : ~tripFeed[n].cancelled /\ d \in Departures(n)
    BY <1>1
  <2>2. d.of = n
    BY <2>1 DEF Departures
  <2>3. Read(n)
    BY <1>3, <2>1, <2>2 DEF Read
  <2>4. QED
    BY <1>1, <2>1, <2>2, <2>3, DeparturesAre
<1>4. ASSUME NEW n \in FollowedTrips, LET e == tripFeed[n] IN
             /\ RunOn(e) \in asking.board /\ asking.database /\ ~e.cancelled
             /\ LastWord(e) # NoTime /\ DueAt(e.trip, e.day) + LastWord(e) >= asking.at
      PROVE  \E d \in told' : d.of = n
  <2>1. Times[tripFeed[n].trip].known
    BY <1>1, <1>4, ReadingIs DEF RunOn
  <2>2. Read(n)
    BY <1>4, <2>1 DEF Read
  <2>3. \E d \in Departures(n) : d.of = n
    BY <1>1, <1>4, <2>2, DeparturesAre
  <2>4. QED
    BY <1>1, <1>4, <2>3
<1>5. TimesAddUp'
  BY <1>1, <1>2, <1>3, <1>4 DEF TimesAddUp
<1>6. QED
  BY <1>1, <1>5 DEF TripsInv, Reading

\* get_rt_route_trip_statuses, with _calls_here, _due_on_its_day and
\* _stop_time_and_delay: for any timetable, board and moment, and any feed
\* that tells once of each call of one run of a trip, whatever the form of its
\* updates, each departure told is its run's timetable time and the delay the
\* feed has said last, no cancelled run is told, and a run of the board timed
\* to come is.
THEOREM TimesAddUpAlways == ASSUME PlainFeeds PROVE TripsSpec => []TimesAddUp
<1>1. ASSUME TripsInit PROVE TripsInv
  BY <1>1 DEF TripsInit, TripsIdle, TripsInv, Reading, TimesAddUp
<1>2. ASSUME TripsInv, [ReadTrips]_tripMatch PROVE TripsInv'
  <2>1. CASE ReadTrips
    BY <1>2, <2>1, ReadTripsKeeps
  <2>2. CASE UNCHANGED tripMatch
    <3>1. tripFeed' = tripFeed /\ asking' = asking /\ matched' = matched /\ told' = told
      BY <2>2 DEF tripMatch
    <3>2. FollowedTrips' = FollowedTrips /\ \A trip : NumberOf(trip)' = NumberOf(trip)
      BY <3>1, SameReading
    <3>3. TimesAddUp'
      BY <1>2, <3>1, <3>2 DEF TimesAddUp, TripsInv
    <3>4. QED
      BY <1>2, <3>1, <3>3 DEF TripsInv, Reading
  <2>3. QED
    BY <1>2, <2>1, <2>2
<1>3. TripsInv => TimesAddUp
  BY DEF TripsInv
<1>4. QED
  BY <1>1, <1>2, <1>3, PTL DEF TripsSpec
===============================================================================
