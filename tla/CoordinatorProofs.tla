------------------------ MODULE CoordinatorProofs --------------------------
(***************************************************************************)
(* What Coordinator keeps for any entries and any number of events: the    *)
(* types, that a schedule kept is open on the file installed, that a cycle *)
(* reads through the schedule of its minute, and that delays are shown     *)
(* with the departures they were matched with.                             *)
(*                                                                         *)
(* A step changes the slot of one entry, or the files.  EntryOK states     *)
(* what a slot keeps, SlotKept that a step which keeps its own slot keeps  *)
(* them all, and each action has one lemma.                                *)
(***************************************************************************)
EXTENDS Coordinator, TLAPS

Locals == [prev : Readings \cup {None}, opt : 0..MaxEvents,
           edition : Editions \cup {None}, got : Files \cup {None}]

Matched(r) == r # None /\ r.delays # None => r.delays.of = r.from

\* A schedule is open on a file installed since the edition noted was read.
OpenedSince(edition, file, m) ==
    file <= m /\ (edition # None => edition[1] <= file)

Reading == {"unpack", "index", "read", "gate", "realtime", "stops"}

\* What the slot of entry j keeps: schedule, board, pc, work and locals, with m
\* files made.
EntryOK(j, s, b, p, w, l, m) ==
    /\ s \in Schedules \cup {None}
    /\ b \in Readings \cup {None}
    /\ p \in Steps
    /\ w \in Readings
    /\ l \in Locals
    /\ s # None => OpenedSince(s.edition, s.file, m)
    /\ p \in {"open", "opened"} /\ l.edition # None => l.edition[1] <= m
    /\ p = "opened" /\ l.got # None => OpenedSince(l.edition, l.got, m)
    /\ p \in Reading => w.schedule = s
    /\ p \in {"index", "read", "stops"} => s # None
    /\ p = "stops" => j \in LocalStops
    /\ p = "read" => j \in Journeys
    /\ p = "gate" /\ j \in LocalStops => s # None
    /\ j \in Journeys =>
          /\ Matched(b) /\ Matched(w) /\ Matched(l.prev)
          /\ p \in {"unpack", "index", "read"} => w.delays = None

\* The slots, and what is not of an entry: the last file made is the one
\* installed, if any, and nothing was written more often than events allow.
SlotsType ==
    /\ schedule \in [Entries -> Schedules \cup {None}]
    /\ board \in [Entries -> Readings \cup {None}]
    /\ pc \in [Entries -> Steps]
    /\ work \in [Entries -> Readings]
    /\ loc \in [Entries -> Locals]

Slots ==
    /\ SlotsType
    /\ \A j \in Entries :
          EntryOK(j, schedule[j], board[j], pc[j], work[j], loc[j], made)

Disk ==
    /\ setup \in Setups
    /\ disk \in [file : {0} \cup Files, writing : BOOLEAN]
    /\ made \in Files
    /\ disk.file \in {0, made}
    /\ version \in [Files -> Nat]
    /\ events \in 0..MaxEvents
    /\ made <= events + 1
    /\ \A f \in Files : version[f] <= events
    /\ disk.writing => disk.file # 0 /\ version[disk.file] < events

Shared ==
    /\ envelopes \in [Editions \cup {None} -> Editions \cup {None}]
    /\ checked \in Editions \cup {None}
    /\ options \in [Entries -> Nat]
    /\ \A j \in Entries : options[j] <= events

IInv == Slots /\ Disk /\ Shared

USE CoordinatorAssumption DEF CoordinatorAssumption

----------------------------------------------------------------------------
(* Operators.                                                              *)

LEMMA EntryDataType ==
    ASSUME NEW s \in Schedules \cup {None}, NEW opt \in 0..MaxEvents
    PROVE  /\ EntryData(s, opt) \in Readings
           /\ EntryData(s, opt).schedule = s
           /\ EntryData(s, opt).delays = None
BY DEF EntryData, Readings

LEMMA NoCycleType == NoCycle \in Locals /\ NoCycle.prev = None
BY CoordinatorAssumption DEF NoCycle, Locals

LEMMA EditionType ==
    ASSUME Disk
    PROVE  /\ DiskEdition \in Editions \cup {None}
           /\ disk.file = 0 => DiskEdition = None
           /\ DiskEdition # None =>
                 DiskEdition[1] = disk.file /\ DiskEdition[1] = made
           /\ \A s \in Schedules : Through(s) \in Editions
<1>1. \A f \in Files : version[f] \in 0..MaxEvents
  BY CoordinatorAssumption DEF Disk
<1>2. \A f \in Files : <<f, version[f]>> \in Editions
  BY <1>1 DEF Editions
<1>3. disk.file \in {0} \cup Files
  BY DEF Disk
<1>4. QED
  BY <1>2, <1>3 DEF DiskEdition, Through, Schedules, Disk

----------------------------------------------------------------------------
(* Slots.                                                                  *)

\* A step of entry j leaves the others' slots alone.
LEMMA SlotKept ==
    ASSUME Slots, NEW j \in Entries, NEW s, NEW b, NEW p, NEW w, NEW l,
           schedule' = [schedule EXCEPT ![j] = s],
           board' = [board EXCEPT ![j] = b],
           pc' = [pc EXCEPT ![j] = p],
           work' = [work EXCEPT ![j] = w],
           loc' = [loc EXCEPT ![j] = l],
           made' = made,
           EntryOK(j, s, b, p, w, l, made)
    PROVE  Slots'
<1>1. SlotsType'
  BY DEF Slots, SlotsType, EntryOK
<1>2. ASSUME NEW k \in Entries
      PROVE  EntryOK(k, schedule'[k], board'[k], pc'[k], work'[k], loc'[k], made')
  <2>1. CASE k = j
    BY <2>1 DEF Slots, SlotsType
  <2>2. CASE k # j
    BY <2>2 DEF Slots, SlotsType
  <2>3. QED
    BY <2>1, <2>2
<1>3. QED
  BY <1>1, <1>2 DEF Slots

\* A cycle that ends shows its reading and leaves nothing behind.
LEMMA FinishKept ==
    ASSUME IInv, NEW j \in Entries, NEW s, NEW shown \in Readings \cup {None},
           schedule' = [schedule EXCEPT ![j] = s],
           s \in Schedules \cup {None},
           s # None => OpenedSince(s.edition, s.file, made),
           j \in Journeys => Matched(shown),
           made' = made, Finish(j, shown)
    PROVE  Slots'
<1>1. EntryData(None, 0) \in Readings /\ EntryData(None, 0).delays = None
  <2>1. 0 \in 0..MaxEvents
    BY CoordinatorAssumption DEF CoordinatorAssumption
  <2>2. QED
    BY <2>1, EntryDataType
<1>2. EntryOK(j, s, shown, "idle", EntryData(None, 0), NoCycle, made)
  BY <1>1, NoCycleType DEF EntryOK, Matched, Steps, Reading
<1>3. QED
  BY <1>2, SlotKept DEF Finish, IInv

\* A cycle that goes on keeps what is shown and its schedule.
LEMMA GoesOn ==
    ASSUME Slots, NEW j \in Entries, NEW p, NEW w, NEW l,
           pc' = [pc EXCEPT ![j] = p],
           work' = [work EXCEPT ![j] = w],
           loc' = [loc EXCEPT ![j] = l],
           UNCHANGED <<schedule, board, made>>,
           EntryOK(j, schedule[j], board[j], p, w, l, made)
    PROVE  Slots'
<1>1. /\ schedule' = [schedule EXCEPT ![j] = schedule[j]]
      /\ board' = [board EXCEPT ![j] = board[j]]
  BY DEF Slots, SlotsType
<1>2. QED
  BY <1>1, SlotKept

LEMMA SlotNow ==
    ASSUME IInv, NEW j \in Entries
    PROVE  /\ EntryOK(j, schedule[j], board[j], pc[j], work[j], loc[j], made)
           /\ schedule = [schedule EXCEPT ![j] = schedule[j]]
           /\ board = [board EXCEPT ![j] = board[j]]
           /\ pc = [pc EXCEPT ![j] = pc[j]]
           /\ work = [work EXCEPT ![j] = work[j]]
           /\ loc = [loc EXCEPT ![j] = loc[j]]
           /\ options[j] \in 0..MaxEvents
BY DEF IInv, Slots, SlotsType, Shared, Disk

\* An entry shows one journey or the stops around someone, never both.
LEMMA OneKind == ASSUME NEW j \in Journeys PROVE j \notin LocalStops
OBVIOUS

----------------------------------------------------------------------------
(* A cycle's actions.                                                      *)

LEMMA WithScheduleKept ==
    ASSUME IInv, NEW j \in Entries,
           NEW prev \in Readings \cup {None}, NEW opt \in 0..MaxEvents,
           NEW s \in Schedules \cup {None},
           s # None => OpenedSince(s.edition, s.file, made),
           j \in Journeys => Matched(prev),
           made' = made, WithSchedule(j, prev, opt, s)
    PROVE  Slots'
<1>1. CASE j \in LocalStops /\ \E shown \in {board[j], prev} : Finish(j, shown)
  <2>1. PICK shown \in {board[j], prev} : Finish(j, shown)
    BY <1>1
  <2>2. shown \in Readings \cup {None}
    BY SlotNow DEF EntryOK
  <2>3. QED
    BY <1>1, <2>1, <2>2, OneKind, FinishKept DEF WithSchedule
<1>2. ASSUME NEW stamp \in {"none", "fresh"},
             work' = [work EXCEPT ![j] = [EntryData(s, opt) EXCEPT !.stamp = stamp]],
             pc' = [pc EXCEPT ![j] = "unpack"],
             loc' = [loc EXCEPT ![j] = [NoCycle EXCEPT !.prev = prev, !.opt = opt]],
             UNCHANGED board
      PROVE  Slots'
  <2> DEFINE w == [EntryData(s, opt) EXCEPT !.stamp = stamp]
             l == [NoCycle EXCEPT !.prev = prev, !.opt = opt]
  <2>1. w \in Readings /\ w.schedule = s /\ w.delays = None
    BY DEF EntryData, Readings
  <2>2. l \in Locals /\ l.prev = prev /\ l.edition = None
    BY DEF NoCycle, Locals
  <2>3. schedule' = [schedule EXCEPT ![j] = s]
    BY DEF WithSchedule
  <2>4. board' = [board EXCEPT ![j] = board[j]]
    BY <1>2, SlotNow
  <2> HIDE DEF w, l
  <2>5. EntryOK(j, s, board[j], "unpack", w, l, made)
    BY <2>1, <2>2, SlotNow DEF EntryOK, Matched, Steps, Reading
  <2>6. work' = [work EXCEPT ![j] = w] /\ loc' = [loc EXCEPT ![j] = l]
    BY <1>2 DEF w, l
  <2>7. pc' = [pc EXCEPT ![j] = "unpack"] /\ Slots
    BY <1>2 DEF IInv
  <2>8. QED
    BY <2>3, <2>4, <2>5, <2>6, <2>7, SlotKept
<1>3. QED
  BY <1>1, <1>2 DEF WithSchedule

LEMMA KeepKept == ASSUME IInv, NEW j \in Entries, Keep(j) PROVE Slots'
BY SlotNow, WithScheduleKept DEF Keep, EntryOK, diskVars

LEMMA CloseKept == ASSUME IInv, NEW j \in Entries, Close(j) PROVE Slots'
<1> DEFINE l == [prev |-> board[j], opt |-> options[j], edition |-> DiskEdition, got |-> None]
<1>1. l \in Locals /\ l.prev = board[j] /\ l.edition = DiskEdition
  BY SlotNow, EditionType DEF Locals, EntryOK, IInv
<1>2. DiskEdition # None => DiskEdition[1] <= made
  BY EditionType DEF IInv, Disk, Files
<1> HIDE DEF l
<1>3. EntryOK(j, schedule[j], board[j], "open", work[j], l, made)
  BY <1>1, <1>2, SlotNow DEF EntryOK, Steps, Reading
<1>4. loc' = [loc EXCEPT ![j] = l] /\ work' = [work EXCEPT ![j] = work[j]]
  BY SlotNow DEF Close, l
<1>5. QED
  BY <1>3, <1>4, GoesOn DEF Close, diskVars, IInv

LEMMA OpenKept == ASSUME IInv, NEW j \in Entries, Open(j) PROVE Slots'
<1> DEFINE l == [loc[j] EXCEPT !.got = GetGtfs]
<1>1. GetGtfs \in Files \cup {None} /\ (GetGtfs # None => GetGtfs = made)
  BY DEF GetGtfs, IInv, Disk
<1>2. /\ l \in Locals
      /\ l.prev = loc[j].prev /\ l.edition = loc[j].edition /\ l.got = GetGtfs
  BY <1>1, SlotNow DEF Locals, EntryOK
<1> HIDE DEF l
<1>3. OpenedSince(l.edition, made, made) \/ l.edition = None
  BY <1>2, SlotNow DEF EntryOK, OpenedSince, Open, IInv, Disk, Files
<1>4. EntryOK(j, schedule[j], board[j], "opened", work[j], l, made)
  BY <1>1, <1>2, <1>3, SlotNow DEF EntryOK, Steps, Reading, Open, OpenedSince, IInv, Disk, Files
<1>5. loc' = [loc EXCEPT ![j] = l] /\ work' = [work EXCEPT ![j] = work[j]]
  BY SlotNow DEF Open, l, EntryOK, Locals
<1>6. QED
  BY <1>4, <1>5, GoesOn DEF Open, diskVars, IInv

LEMMA OpenedKept == ASSUME IInv, NEW j \in Entries, Opened(j) PROVE Slots'
<1> DEFINE s == IF loc[j].got = None THEN None
                ELSE [file |-> loc[j].got, edition |-> EditionNoted(j)]
<1>1. loc[j] \in Locals
  BY SlotNow DEF EntryOK
<1>2. s \in Schedules \cup {None}
  BY <1>1 DEF Schedules, Locals, EditionNoted
<1>3. s # None => OpenedSince(s.edition, s.file, made)
  BY SlotNow DEF EntryOK, Opened, EditionNoted
<1>4. WithSchedule(j, loc[j].prev, loc[j].opt, s) /\ made' = made
  BY DEF Opened, diskVars
<1> HIDE DEF s
<1>5. /\ loc[j].prev \in Readings \cup {None} /\ loc[j].opt \in 0..MaxEvents
      /\ j \in Journeys => Matched(loc[j].prev)
  BY <1>1, SlotNow DEF EntryOK, Locals
<1>6. QED
  BY <1>2, <1>3, <1>4, <1>5, WithScheduleKept

\* A cycle that ends with the schedule it had.
LEMMA Ended ==
    ASSUME IInv, NEW j \in Entries, NEW shown \in Readings \cup {None},
           j \in Journeys => Matched(shown),
           UNCHANGED <<schedule, made>>, Finish(j, shown)
    PROVE  Slots'
<1>1. /\ schedule' = [schedule EXCEPT ![j] = schedule[j]]
      /\ schedule[j] \in Schedules \cup {None}
      /\ schedule[j] # None => OpenedSince(schedule[j].edition, schedule[j].file, made)
  BY SlotNow DEF EntryOK
<1>2. QED
  BY <1>1, FinishKept

\* A cycle that goes on with the locals it has.
LEMMA MovesTo ==
    ASSUME IInv, NEW j \in Entries, NEW p, NEW w,
           pc' = [pc EXCEPT ![j] = p],
           work' = [work EXCEPT ![j] = w],
           UNCHANGED <<schedule, board, loc, made>>,
           EntryOK(j, schedule[j], board[j], p, w, loc[j], made)
    PROVE  Slots'
<1>1. loc' = [loc EXCEPT ![j] = loc[j]] /\ Slots
  BY SlotNow DEF IInv
<1>2. QED
  BY <1>1, GoesOn

LEMMA UnpackingKept == ASSUME IInv, NEW j \in Entries, Unpacking(j) PROVE Slots'
<1>1. /\ loc[j].prev \in Readings \cup {None} /\ work[j] \in Readings
      /\ j \in Journeys => Matched(loc[j].prev) /\ Matched(work[j])
  BY SlotNow DEF EntryOK, Locals
<1>2. CASE Preparing(j)
  <2>1. board' = [board EXCEPT ![j] = board[j]] /\ schedule' = schedule /\ made' = made
    BY <1>2, SlotNow DEF Unpacking, NotReady, diskVars
  <2>2. Finish(j, board[j])
    BY <1>2, <2>1 DEF Unpacking, NotReady, Finish
  <2>3. board[j] \in Readings \cup {None} /\ (j \in Journeys => Matched(board[j]))
    BY SlotNow DEF EntryOK
  <2>4. QED
    BY <2>1, <2>2, <2>3, Ended
<1>3. CASE ~Preparing(j)
  <2> DEFINE r == IF loc[j].prev = None THEN work[j] ELSE loc[j].prev
  <2>1. r \in Readings /\ (j \in Journeys => Matched(r))
    BY <1>1
  <2>2. Kept(j) = [r EXCEPT !.extracting = TRUE]
    BY DEF Kept
  <2> HIDE DEF r
  <2>3. /\ Kept(j) \in Readings
        /\ Kept(j).delays = r.delays /\ Kept(j).from = r.from
    BY <2>1, <2>2 DEF Readings
  <2>4. j \in Journeys => Matched(Kept(j))
    BY <2>1, <2>3 DEF Matched, Readings, CoordinatorAssumption
  <2>5. QED
    BY <1>3, <2>3, <2>4, Ended DEF Unpacking, diskVars
<1>4. QED
  BY <1>2, <1>3

LEMMA PreparedKept == ASSUME IInv, NEW j \in Entries, Prepared(j) PROVE Slots'
BY SlotNow, Ended DEF Prepared, EntryOK, diskVars

LEMMA NotDueKept == ASSUME IInv, NEW j \in Entries, NotDue(j) PROVE Slots'
<1> DEFINE w == CarriedOn(j)
<1>1. loc[j].prev \in Readings \cup {None} /\ Matched(loc[j].prev) /\ schedule[j] \in Schedules
  BY SlotNow DEF EntryOK, Locals, NotDue
<1>2. loc[j].prev \in Readings
  BY <1>1 DEF NotDue, StaticDue
<1>3. /\ w \in Readings /\ w.schedule = schedule[j]
      /\ w.delays = loc[j].prev.delays /\ w.from = loc[j].prev.from
  BY <1>1, <1>2 DEF CarriedOn, Readings
<1>4. work' = [work EXCEPT ![j] = w]
  BY DEF NotDue
<1> HIDE DEF w
<1>5. Matched(w)
  BY <1>1, <1>2, <1>3 DEF Matched, Readings
<1>6. EntryOK(j, schedule[j], board[j], "gate", w, loc[j], made)
  BY <1>3, <1>5, SlotNow DEF EntryOK, Steps, Reading, NotDue
<1>7. QED
  BY <1>4, <1>6, MovesTo DEF NotDue, diskVars

LEMMA NoDatabaseKept == ASSUME IInv, NEW j \in Entries, NoDatabase(j) PROVE Slots'
<1>1. CASE j \in Journeys
  <2>1. /\ pc' = [pc EXCEPT ![j] = "gate"]
        /\ UNCHANGED <<schedule, board, work, loc, made>>
    BY <1>1, OneKind DEF NoDatabase, diskVars
  <2>2. EntryOK(j, schedule[j], board[j], "gate", work[j], loc[j], made)
    BY <1>1, OneKind, SlotNow DEF EntryOK, Steps, Reading, NoDatabase
  <2>3. QED
    BY <2>1, <2>2, SlotNow, MovesTo
<1>2. CASE Finish(j, work[j])
  BY <1>2, SlotNow, Ended DEF NoDatabase, EntryOK, diskVars
<1>3. QED
  BY <1>1, <1>2 DEF NoDatabase

LEMMA DueKept == ASSUME IInv, NEW j \in Entries, Due(j) PROVE Slots'
<1>1. EntryOK(j, schedule[j], board[j], "index", work[j], loc[j], made)
  BY SlotNow DEF EntryOK, Steps, Reading, Due
<1>2. work' = [work EXCEPT ![j] = work[j]]
  BY SlotNow DEF Due
<1>3. QED
  BY <1>1, <1>2, MovesTo DEF Due, diskVars

LEMMA IndexKept == ASSUME IInv, NEW j \in Entries, Index(j) PROVE Slots'
<1> DEFINE p == IF j \in Journeys THEN "read" ELSE "gate"
<1>1. EntryOK(j, schedule[j], board[j], p, work[j], loc[j], made)
  BY SlotNow, OneKind DEF EntryOK, Steps, Reading, Index
<1>2. /\ pc' = [pc EXCEPT ![j] = p] /\ work' = [work EXCEPT ![j] = work[j]]
      /\ UNCHANGED <<schedule, board, loc, made>>
  BY SlotNow DEF Index, diskVars
<1> HIDE DEF p
<1>3. QED
  BY <1>1, <1>2, MovesTo

\* What the queries read is an edition.
LEMMA ReadByType ==
    ASSUME IInv, NEW j \in Entries, schedule[j] # None
    PROVE  ReadBy(j) \in Editions \cup {None}
<1>1. schedule[j] \in Schedules
  BY SlotNow DEF EntryOK
<1>2. QED
  BY <1>1, EditionType DEF ReadBy, IInv

LEMMA ReadTimetableKept == ASSUME IInv, NEW j \in Entries, ReadTimetable(j) PROVE Slots'
<1> DEFINE w == [work[j] EXCEPT !.from = ReadBy(j), !.stamp = "fresh"]
<1>1. work[j] \in Readings /\ work[j].delays = None /\ schedule[j] # None /\ j \in Journeys
  BY SlotNow DEF EntryOK, ReadTimetable
<1>2. w \in Readings /\ w.schedule = work[j].schedule /\ w.delays = None
  BY <1>1, ReadByType DEF Readings
<1>3. work' = [work EXCEPT ![j] = w]
  BY DEF ReadTimetable
<1> HIDE DEF w
<1>4. EntryOK(j, schedule[j], board[j], "gate", w, loc[j], made)
  BY <1>1, <1>2, OneKind, SlotNow DEF EntryOK, Matched, Steps, Reading, ReadTimetable
<1>5. QED
  BY <1>3, <1>4, MovesTo DEF ReadTimetable, diskVars

LEMMA ReadFailsKept == ASSUME IInv, NEW j \in Entries, ReadFails(j) PROVE Slots'
BY SlotNow, Ended DEF ReadFails, EntryOK, diskVars

LEMMA GateKept == ASSUME IInv, NEW j \in Entries, Gate(j) PROVE Slots'
<1>1. ASSUME NEW p \in {"stops", "realtime"},
             p = "stops" <=> j \in LocalStops,
             pc' = [pc EXCEPT ![j] = p],
             UNCHANGED <<board, work, loc>>
      PROVE  Slots'
  <2>1. EntryOK(j, schedule[j], board[j], p, work[j], loc[j], made)
    BY <1>1, OneKind, SlotNow DEF EntryOK, Steps, Reading, Gate
  <2>2. work' = [work EXCEPT ![j] = work[j]] /\ UNCHANGED <<schedule, board, loc, made>>
    BY <1>1, SlotNow DEF Gate, diskVars
  <2>3. QED
    BY <1>1, <2>1, <2>2, MovesTo
<1>2. ASSUME j \in Journeys, Finish(j, [work[j] EXCEPT !.delays = None])
      PROVE  Slots'
  <2> DEFINE r == [work[j] EXCEPT !.delays = None]
  <2>1. r \in Readings /\ r.delays = None
    BY SlotNow DEF EntryOK, Readings
  <2>2. Finish(j, r)
    BY <1>2
  <2> HIDE DEF r
  <2>3. Matched(r) /\ UNCHANGED <<schedule, made>>
    BY <2>1 DEF Matched, Gate, diskVars
  <2>4. QED
    BY <2>1, <2>2, <2>3, Ended
<1>3. QED
  BY <1>1, <1>2, OneKind DEF Gate

LEMMA GateFailsKept == ASSUME IInv, NEW j \in Entries, GateFails(j) PROVE Slots'
<1> DEFINE p == IF j \in Journeys THEN "realtime" ELSE "stops"
<1>1. EntryOK(j, schedule[j], board[j], p, work[j], loc[j], made)
  BY OneKind, SlotNow DEF EntryOK, Steps, Reading, GateFails, Entries
<1>2. /\ pc' = [pc EXCEPT ![j] = p] /\ work' = [work EXCEPT ![j] = work[j]]
      /\ UNCHANGED <<schedule, board, loc, made>>
  BY SlotNow DEF GateFails, diskVars
<1> HIDE DEF p
<1>3. QED
  BY <1>1, <1>2, MovesTo

LEMMA RealtimeKept == ASSUME IInv, NEW j \in Entries, Realtime(j) PROVE Slots'
<1> DEFINE r == [work[j] EXCEPT !.delays = [of |-> work[j].from]]
<1>1. work[j] \in Readings
  BY SlotNow DEF EntryOK
<1>2. [of |-> work[j].from] \in Delays
  BY <1>1 DEF Readings, Delays
<1>3. /\ r \in Readings /\ r.from = work[j].from
      /\ r.delays = [of |-> work[j].from]
  BY <1>1, <1>2 DEF Readings
<1>4. Finish(j, r) /\ UNCHANGED <<schedule, made>>
  BY DEF Realtime, diskVars
<1> HIDE DEF r
<1>5. Matched(r)
  BY <1>3 DEF Matched
<1>6. QED
  BY <1>3, <1>4, <1>5, Ended

LEMMA RealtimeFailsKept == ASSUME IInv, NEW j \in Entries, RealtimeFails(j) PROVE Slots'
BY SlotNow, Ended DEF RealtimeFails, EntryOK, diskVars

LEMMA ReadStopsKept == ASSUME IInv, NEW j \in Entries, ReadStops(j) PROVE Slots'
<1> DEFINE r == [work[j] EXCEPT !.from = ReadBy(j)]
<1>1. work[j] \in Readings /\ schedule[j] # None /\ j \in LocalStops
  BY SlotNow DEF EntryOK, ReadStops
<1>2. r \in Readings
  BY <1>1, ReadByType DEF Readings
<1>3. Finish(j, r) /\ UNCHANGED <<schedule, made>>
  BY DEF ReadStops, diskVars
<1> HIDE DEF r
<1>4. QED
  BY <1>1, <1>2, <1>3, OneKind, Ended

----------------------------------------------------------------------------
(* Around the cycles.                                                      *)

\* The stamp of what is shown changes, and no more.
LEMMA Restamped ==
    ASSUME IInv, NEW j \in Entries, NEW r \in Readings,
           board[j] # None, r.delays = board[j].delays, r.from = board[j].from,
           board' = [board EXCEPT ![j] = r],
           UNCHANGED <<schedule, pc, work, loc, made>>
    PROVE  Slots'
<1>1. EntryOK(j, schedule[j], r, pc[j], work[j], loc[j], made)
  BY SlotNow DEF EntryOK, Matched
<1>2. SlotsType'
  BY DEF IInv, Slots, SlotsType
<1>3. ASSUME NEW k \in Entries
      PROVE  EntryOK(k, schedule[k], board'[k], pc[k], work[k], loc[k], made)
  BY <1>1, SlotNow DEF IInv, Slots, SlotsType
<1>4. QED
  BY <1>2, <1>3 DEF Slots

LEMMA StampedReading ==
    ASSUME IInv, NEW j \in Entries, board[j] # None, NEW v \in {"none", "old"}
    PROVE  \E r \in Readings :
               /\ r.delays = board[j].delays /\ r.from = board[j].from
               /\ r = [board[j] EXCEPT !.stamp = v]
<1> DEFINE r == [board[j] EXCEPT !.stamp = v]
<1>1. board[j] \in Readings
  BY SlotNow DEF EntryOK
<1>2. r \in Readings /\ r.delays = board[j].delays /\ r.from = board[j].from
  BY <1>1 DEF Readings
<1>3. QED
  BY <1>2

LEMMA ChangeOptionsKept ==
    ASSUME IInv, NEW j \in Entries, ChangeOptions(j) PROVE Slots'
<1>1. CASE board[j] = None
  BY <1>1 DEF ChangeOptions, IInv, Slots, SlotsType, diskVars
<1>2. CASE board[j] # None
  <2>1. PICK r \in Readings :
            /\ r.delays = board[j].delays /\ r.from = board[j].from
            /\ r = [board[j] EXCEPT !.stamp = "none"]
    BY <1>2, StampedReading
  <2>2. board' = [board EXCEPT ![j] = r]
    BY <1>2, <2>1 DEF ChangeOptions
  <2>3. UNCHANGED <<schedule, pc, work, loc, made>>
    BY DEF ChangeOptions, diskVars
  <2>4. r.delays = board[j].delays /\ r.from = board[j].from
    BY <2>1
  <2>5. QED
    BY <1>2, <2>2, <2>3, <2>4, Restamped
<1>3. QED
  BY <1>1, <1>2

LEMMA AgeKept == ASSUME IInv, NEW j \in Entries, Age(j) PROVE Slots'
<1>1. board[j] # None
  BY DEF Age
<1>2. PICK r \in Readings :
          /\ r.delays = board[j].delays /\ r.from = board[j].from
          /\ r = [board[j] EXCEPT !.stamp = "old"]
  BY <1>1, StampedReading
<1>3. board' = [board EXCEPT ![j] = r]
  BY <1>2 DEF Age
<1>4. UNCHANGED <<schedule, pc, work, loc, made>>
  BY DEF Age, diskVars
<1>5. r.delays = board[j].delays /\ r.from = board[j].from
  BY <1>2
<1>6. QED
  BY <1>1, <1>3, <1>4, <1>5, Restamped

\* Another file made is a later one.
LEMMA SwapKept == ASSUME IInv, Swap PROVE Slots'
<1>1. made' = made + 1 /\ made \in Nat
  BY DEF Swap, IInv, Disk, Files
<1>2. UNCHANGED cycleVars
  BY DEF Swap
<1>3. ASSUME NEW j \in Entries
      PROVE  EntryOK(j, schedule[j], board[j], pc[j], work[j], loc[j], made + 1)
  BY <1>1, SlotNow DEF EntryOK, OpenedSince, Schedules, Locals, Editions, Files
<1>4. QED
  BY <1>1, <1>2, <1>3 DEF IInv, Slots, SlotsType, cycleVars

\* The steps that leave the slots as they are.
LEMMA SlotsUnchanged ==
    ASSUME IInv, UNCHANGED <<made, cycleVars>>
    PROVE  Slots'
BY DEF IInv, Slots, SlotsType, cycleVars

LEMMA Numbers ==
    ASSUME IInv
    PROVE  /\ made \in Nat /\ events \in Nat /\ made <= events + 1
           /\ \A f \in Files : version[f] \in Nat /\ version[f] <= events
<1>1. made \in Files /\ events \in 0..MaxEvents /\ made <= events + 1
  BY DEF IInv, Disk
<1>2. made \in Nat /\ events \in Nat
  BY <1>1 DEF Files
<1>3. QED
  BY <1>1, <1>2 DEF IInv, Disk

LEMMA DiskUnchanged ==
    ASSUME IInv, UNCHANGED <<setup, diskVars, options, checked>>,
           UNCHANGED events \/ Happens,
           envelopes' \in [Editions \cup {None} -> Editions \cup {None}]
    PROVE  Disk' /\ Shared'
<1>1. events' \in 0..MaxEvents /\ events <= events'
  BY DEF IInv, Disk, Happens
<1>2. Disk'
  <2>1. /\ setup' \in Setups
        /\ disk' \in [file : {0} \cup Files, writing : BOOLEAN]
        /\ made' \in Files
        /\ disk'.file \in {0, made'}
        /\ version' \in [Files -> Nat]
    BY DEF IInv, Disk, diskVars
  <2>2. made' <= events' + 1
    BY <1>1, Numbers DEF diskVars
  <2>3. \A f \in Files : version'[f] <= events'
    BY <1>1 DEF IInv, Disk, diskVars
  <2>4. disk'.writing => disk'.file # 0 /\ version'[disk'.file] < events'
    BY <1>1 DEF IInv, Disk, diskVars
  <2>5. QED
    BY <1>1, <2>1, <2>2, <2>3, <2>4 DEF Disk
<1>3. Shared'
  BY <1>1 DEF IInv, Shared, Disk
<1>4. QED
  BY <1>2, <1>3

\* A reading of the hours is an edition's.
LEMMA GateEnvelopes ==
    ASSUME IInv, NEW j \in Entries, Gate(j)
    PROVE  envelopes' \in [Editions \cup {None} -> Editions \cup {None}]
<1>1. schedule[j] # None => Through(schedule[j]) \in Editions
  BY SlotNow, EditionType DEF EntryOK, IInv
<1>2. envelopes \in [Editions \cup {None} -> Editions \cup {None}]
  BY DEF IInv, Shared
<1>3. QED
  BY <1>1, <1>2 DEF Gate, Envelopes

\* A swap, a write or a loss of the file.
LEMMA FilesKept ==
    ASSUME IInv, UNCHANGED setup, Swap \/ BeginWrite \/ EndWrite \/ Lose
    PROVE  Disk' /\ Shared'
<1>1. events' \in 0..MaxEvents /\ events <= events'
  BY DEF IInv, Disk, Happens, Swap, BeginWrite, EndWrite, Lose
<1>2. Shared'
  BY <1>1 DEF IInv, Shared, Disk, cacheVars, Swap, BeginWrite, EndWrite, Lose
<1>0. /\ setup' \in Setups /\ made \in Files /\ version \in [Files -> Nat]
      /\ disk.file \in {0, made}
  BY DEF IInv, Disk
<1>3. CASE Swap
  <2>1. made' = made + 1 /\ events' = events + 1 /\ version' = version
    BY <1>3 DEF Swap, Happens
  <2>2. made' \in Files /\ made' <= events' + 1
    BY <1>1, <2>1, Numbers DEF Files
  <2>3. \A f \in Files : version'[f] <= events'
    BY <1>1, <2>1, Numbers
  <2>4. /\ disk' \in [file : {0} \cup Files, writing : BOOLEAN]
        /\ disk'.file = made' /\ ~disk'.writing
    BY <1>3, <2>1, <2>2 DEF Swap, IInv, Disk
  <2>5. QED
    BY <1>0, <1>1, <1>2, <2>1, <2>2, <2>3, <2>4 DEF Disk
<1>4. CASE BeginWrite
  <2>1. made' = made /\ events' = events + 1 /\ version' = version
    BY <1>4 DEF BeginWrite, Happens
  <2>2. made' <= events' + 1 /\ \A f \in Files : version'[f] < events'
    BY <1>1, <2>1, Numbers
  <2>3. /\ disk' \in [file : {0} \cup Files, writing : BOOLEAN]
        /\ disk'.file = disk.file /\ disk'.file \in Files
    BY <1>4 DEF BeginWrite, IInv, Disk
  <2>4. \A f \in Files : version'[f] <= events'
    BY <1>1, <2>1, Numbers
  <2>5. disk'.file # 0
    BY <1>4, <2>3 DEF BeginWrite
  <2>6. QED
    BY <1>0, <1>1, <1>2, <2>1, <2>2, <2>3, <2>4, <2>5 DEF Disk
<1>5. CASE EndWrite
  <2>1. /\ made' = made /\ events' = events
        /\ version' = [version EXCEPT ![disk.file] = @ + 1]
    BY <1>5 DEF EndWrite
  <2>2. disk.file \in Files /\ version[disk.file] < events /\ version \in [Files -> Nat]
    BY <1>5 DEF EndWrite, IInv, Disk
  <2>3. version' \in [Files -> Nat] /\ \A f \in Files : version'[f] <= events'
    BY <2>1, <2>2, Numbers
  <2>4. /\ disk' \in [file : {0} \cup Files, writing : BOOLEAN]
        /\ disk'.file = disk.file /\ ~disk'.writing
    BY <1>5 DEF EndWrite, IInv, Disk
  <2>5. made' <= events' + 1
    BY <2>1, Numbers
  <2>6. QED
    BY <1>0, <1>1, <1>2, <2>1, <2>3, <2>4, <2>5 DEF Disk
<1>6. CASE Lose
  <2>1. made' = made /\ events' = events + 1 /\ version' = version
    BY <1>6 DEF Lose, Happens
  <2>2. made' <= events' + 1 /\ \A f \in Files : version'[f] <= events'
    BY <1>1, <2>1, Numbers
  <2>3. /\ disk' \in [file : {0} \cup Files, writing : BOOLEAN]
        /\ disk'.file = 0 /\ ~disk'.writing
    BY <1>6 DEF Lose, IInv, Disk
  <2>4. QED
    BY <1>0, <1>1, <1>2, <2>1, <2>2, <2>3 DEF Disk
<1>7. QED
  BY <1>2, <1>3, <1>4, <1>5, <1>6

\* The indexes made once an edition: one more event, one more version.
LEMMA IndexDisk ==
    ASSUME IInv, UNCHANGED setup, NEW j \in Entries, Index(j)
    PROVE  Disk' /\ Shared'
<1>1. schedule[j].file \in Files
  BY SlotNow DEF EntryOK, Index, Schedules
<1>2. CASE UNCHANGED <<diskVars, checked, events>>
  BY <1>2, DiskUnchanged DEF Index, IInv, Shared
<1>3. ASSUME NEW written \in BOOLEAN, ~disk.writing,
             IF written THEN Happens ELSE UNCHANGED events,
             version' = [version EXCEPT ![schedule[j].file] = IF written THEN @ + 1 ELSE @],
             checked' = IF DiskEdition = None THEN checked
                        ELSE <<disk.file, version'[disk.file]>>,
             UNCHANGED <<disk, made>>
      PROVE  Disk' /\ Shared'
  <2>1. events' \in 0..MaxEvents /\ events <= events'
    BY <1>3 DEF IInv, Disk, Happens
  <2>2. version' \in [Files -> Nat] /\ \A f \in Files : version'[f] <= events'
    <3>1. version \in [Files -> Nat]
      BY DEF IInv, Disk
    <3>2. CASE written
      BY <1>1, <1>3, <3>1, <3>2, Numbers DEF Happens
    <3>3. CASE ~written
      BY <1>1, <1>3, <3>1, <3>3, Numbers
    <3>4. QED
      BY <3>2, <3>3
  <2>3. Disk'
    <3>1. made' <= events' + 1
      BY <1>3, <2>1, Numbers
    <3>2. QED
      BY <1>3, <2>1, <2>2, <3>1 DEF IInv, Disk
  <2>4. checked' \in Editions \cup {None}
    BY <1>3, <2>1, <2>2 DEF DiskEdition, Editions, IInv, Disk, Shared
  <2>5. Shared'
    BY <2>1, <2>4 DEF Index, IInv, Shared, Disk
  <2>6. QED
    BY <2>3, <2>5
<1>4. QED
  BY <1>2, <1>3 DEF Index

LEMMA ChangeOptionsDisk ==
    ASSUME IInv, UNCHANGED setup, NEW j \in Entries, ChangeOptions(j)
    PROVE  Disk' /\ Shared'
<1>1. /\ events' = events + 1 /\ events' \in 0..MaxEvents
      /\ UNCHANGED <<disk, made, version, envelopes, checked>>
      /\ options' = [options EXCEPT ![j] = @ + 1]
  BY DEF ChangeOptions, Happens, diskVars, cacheVars, IInv, Disk
<1>2. made' <= events' + 1 /\ \A f \in Files : version'[f] <= events'
  BY <1>1, Numbers
<1>3. disk'.writing => disk'.file # 0 /\ version'[disk'.file] < events'
  <2>1. disk.writing => disk.file \in Files /\ disk.file # 0 /\ version[disk.file] < events
    BY DEF IInv, Disk
  <2>2. QED
    BY <1>1, <2>1, Numbers
<1>4. Disk'
  BY <1>1, <1>2, <1>3 DEF IInv, Disk
<1>5. options \in [Entries -> Nat] /\ \A k \in Entries : options[k] <= events
  BY DEF IInv, Shared
<1>6. options' \in [Entries -> Nat] /\ \A k \in Entries : options'[k] <= events'
  BY <1>1, <1>5, Numbers
<1>7. QED
  BY <1>1, <1>4, <1>6 DEF IInv, Shared

----------------------------------------------------------------------------
(* The invariant.                                                          *)

LEMMA Initial == Init => IInv
<1> SUFFICES ASSUME Init PROVE IInv
  OBVIOUS
<1>1. EntryData(None, 0) \in Readings /\ EntryData(None, 0).delays = None
  BY EntryDataType
<1>2. \A j \in Entries :
          EntryOK(j, None, None, "idle", EntryData(None, 0), NoCycle, made)
  BY <1>1, NoCycleType DEF EntryOK, Matched, Steps, Reading
<1>3. SlotsType
  BY <1>1, NoCycleType DEF Init, SlotsType, Steps
<1>4. Slots
  BY <1>2, <1>3 DEF Init, Slots
<1>5. Disk
  BY DEF Init, Disk, Files
<1>6. Shared
  BY DEF Init, Shared
<1>7. QED
  BY <1>4, <1>5, <1>6 DEF IInv

\* The slots are kept by each action of a cycle.
LEMMA CycleKeepsSlots ==
    ASSUME IInv, NEW j \in Entries,
           Cycle(j) \/ ReadFails(j) \/ GateFails(j) \/ RealtimeFails(j)
    PROVE  Slots'
BY KeepKept, CloseKept, OpenKept, OpenedKept, UnpackingKept, PreparedKept,
   NotDueKept, NoDatabaseKept, DueKept, IndexKept, ReadTimetableKept, GateKept,
   RealtimeKept, ReadStopsKept, ReadFailsKept, GateFailsKept, RealtimeFailsKept
   DEF Cycle

\* Only the index check writes the file, and only the gate the envelopes.
LEMMA CycleKeepsFiles ==
    ASSUME IInv, UNCHANGED setup, NEW j \in Entries,
           Cycle(j) \/ ReadFails(j) \/ GateFails(j) \/ RealtimeFails(j)
    PROVE  Disk' /\ Shared'
<1>1. envelopes \in [Editions \cup {None} -> Editions \cup {None}]
  BY DEF IInv, Shared
<1>2. CASE Index(j)
  BY <1>2, IndexDisk
<1>3. CASE Gate(j)
  BY <1>3, GateEnvelopes, DiskUnchanged DEF Gate
<1>4. CASE Keep(j) \/ Close(j) \/ Open(j) \/ Opened(j)
  BY <1>1, <1>4, DiskUnchanged DEF Keep, Close, Open, Opened, cacheVars
<1>5. CASE Unpacking(j) \/ Prepared(j) \/ NotDue(j) \/ NoDatabase(j) \/ Due(j)
  BY <1>1, <1>5, DiskUnchanged
     DEF Unpacking, Prepared, NotDue, NoDatabase, Due, cacheVars
<1>6. CASE ReadTimetable(j) \/ Realtime(j) \/ ReadStops(j)
  BY <1>1, <1>6, DiskUnchanged DEF ReadTimetable, Realtime, ReadStops, cacheVars
<1>7. CASE ReadFails(j) \/ GateFails(j) \/ RealtimeFails(j)
  BY <1>1, <1>7, DiskUnchanged DEF ReadFails, GateFails, RealtimeFails, cacheVars
<1>8. QED
  BY <1>2, <1>3, <1>4, <1>5, <1>6, <1>7 DEF Cycle

LEMMA Inductive == IInv /\ [Next]_vars => IInv'
<1> SUFFICES ASSUME IInv, [Next]_vars PROVE IInv'
  OBVIOUS
<1>1. CASE UNCHANGED vars
  <2>1. Slots'
    BY <1>1, SlotsUnchanged DEF vars, diskVars
  <2>2. Disk' /\ Shared'
    BY <1>1, DiskUnchanged DEF vars, cacheVars, IInv, Shared
  <2>3. QED
    BY <2>1, <2>2 DEF IInv
<1>2. CASE Swap /\ UNCHANGED setup
  BY <1>2, SwapKept, FilesKept DEF IInv
<1>3. CASE (BeginWrite \/ EndWrite \/ Lose) /\ UNCHANGED setup
  <2>1. Slots'
    BY <1>3, SlotsUnchanged DEF BeginWrite, EndWrite, Lose
  <2>2. QED
    BY <1>3, <2>1, FilesKept DEF IInv
<1>4. ASSUME NEW j \in setup, UNCHANGED setup,
             \/ Cycle(j) \/ ReadFails(j) \/ GateFails(j) \/ RealtimeFails(j)
             \/ ChangeOptions(j) \/ Age(j)
      PROVE  IInv'
  <2>1. j \in Entries
    BY <1>4 DEF IInv, Disk
  <2>2. CASE Cycle(j) \/ ReadFails(j) \/ GateFails(j) \/ RealtimeFails(j)
    BY <1>4, <2>1, <2>2, CycleKeepsSlots, CycleKeepsFiles DEF IInv
  <2>3. CASE ChangeOptions(j)
    BY <1>4, <2>1, <2>3, ChangeOptionsKept, ChangeOptionsDisk DEF IInv
  <2>4. CASE Age(j)
    <3>1. Disk' /\ Shared'
      BY <1>4, <2>4, DiskUnchanged DEF Age, cacheVars, IInv, Shared
    <3>2. QED
      BY <2>1, <2>4, <3>1, AgeKept DEF IInv
  <2>5. QED
    BY <1>4, <2>2, <2>3, <2>4
<1>5. QED
  BY <1>1, <1>2, <1>3, <1>4 DEF Next, Step

THEOREM Invariance == Spec => []IInv
BY Initial, Inductive, PTL DEF Spec

\* Each variable is of its kind, however many entries and events.
THEOREM TypeCorrect == Spec => []TypeOK
<1>1. IInv => TypeOK
  BY DEF IInv, Slots, SlotsType, Disk, Shared, TypeOK, Locals
<1>2. QED
  BY <1>1, Invariance, PTL

\* A schedule kept because its edition is the database's is open on that very
\* file, whatever was swapped in while it was opened (schedule_for).
THEOREM KnowsItsFileAlways == Spec => []KnowsItsFile
<1>1. IInv => KnowsItsFile
  <2> SUFFICES ASSUME IInv, NEW j \in Entries, SameDatabase(j)
               PROVE  schedule[j].file = disk.file
    BY DEF KnowsItsFile
  <2>1. schedule[j].edition[1] = made /\ made = disk.file
    BY EditionType DEF SameDatabase, IInv
  <2>2. /\ schedule[j] \in Schedules
        /\ schedule[j].edition[1] <= schedule[j].file /\ schedule[j].file <= made
    BY SlotNow DEF SameDatabase, EntryOK, OpenedSince
  <2>3. QED
    BY <2>1, <2>2 DEF Schedules, Files, IInv, Disk
<1>2. QED
  BY <1>1, Invariance, PTL

\* From the index check to the realtime, a cycle reads through the schedule of
\* this minute, never through one schedule_for closed.
THEOREM UsesItsScheduleAlways == Spec => []UsesItsSchedule
<1>1. IInv => UsesItsSchedule
  BY SlotNow DEF UsesItsSchedule, EntryOK, Reading
<1>2. QED
  BY <1>1, Invariance, PTL

\* The delays shown were matched with the departures shown: a cycle keeps the
\* delays of an earlier one only with that one's departures.
THEOREM DelaysOfThisBoardAlways == Spec => []DelaysOfThisBoard
<1>1. IInv => DelaysOfThisBoard
  BY SlotNow DEF DelaysOfThisBoard, EntryOK, Matched, Entries
<1>2. QED
  BY <1>1, Invariance, PTL

============================================================================
