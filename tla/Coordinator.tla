---------------------------- MODULE Coordinator ----------------------------
(***************************************************************************)
(* The coordinators of one source's sensors (coordinator.py): once a       *)
(* minute each opens the database again if it changed, reads the timetable *)
(* when its reading is old, asks the polling window whether to read the    *)
(* realtime, and publishes.  Meanwhile a refresh swaps another file in, a  *)
(* writer changes the file in place, and the entry's options change.       *)
(*                                                                         *)
(* Home Assistant runs one cycle of a coordinator at a time; the cycles of *)
(* different coordinators interleave at their awaits.  A step of a cycle   *)
(* is what it does from one await to the next, or one executor job; the    *)
(* writing of its map files and of the records shown ends its last step.   *)
(* The source's realtime feeds are configured.                             *)
(***************************************************************************)
EXTENDS Naturals

CONSTANTS
    Journeys,      \* entries showing one journey (GTFSUpdateCoordinator)
    LocalStops,    \* entries showing the stops around someone
    MaxEvents,     \* bound: how many swaps, writes, losses, changes of options
                   \* and failed readings there ever are, all counted together
    Setups,        \* the sets of entries that may be set up
    Running,       \* the files whose timetable has service at this hour
    None           \* no database, no schedule, no reading

Entries == Journeys \cup LocalStops
Files == 1..(MaxEvents + 1)
Editions == Files \X (0..MaxEvents)

Schedules == [file : Files, edition : Editions \cup {None}]
Delays == [of : Editions \cup {None}]

(***************************************************************************)
(* A reading: whether the source was being unpacked, the age of            *)
(* gtfs_updated_at, what the departures were read from, the options they   *)
(* were asked with, the delays and the departures they were matched with,  *)
(* and the schedule it names.                                              *)
(***************************************************************************)
Readings ==
    [extracting : BOOLEAN, stamp : {"none", "fresh", "old"},
     from : Editions \cup {None}, opt : 0..MaxEvents,
     delays : Delays \cup {None}, schedule : Schedules \cup {None}]

ASSUME CoordinatorAssumption ==
    /\ Journeys \cap LocalStops = {}
    /\ MaxEvents \in Nat
    /\ Setups \subseteq SUBSET Entries
    /\ Running \subseteq Files
    /\ None \notin Editions \cup Schedules \cup Delays \cup Readings

VARIABLES
    setup,         \* the entries that are set up
    disk,          \* the file under the source's name (0: none); being written in place?
    made,          \* how many files were installed
    version,       \* how often each file was written in place
    envelopes,     \* _ENVELOPES of today: edition -> what its hours were read from
    checked,       \* _INDEX_CHECKED: the edition last checked
    options,       \* each entry's options, by number
    schedule,      \* _pygtfs and _pygtfs_edition, None for a sentinel of get_gtfs
    board,         \* the coordinator's data, what the sensors show
    pc,            \* where each cycle stands
    work,          \* _data of the cycle
    loc,           \* its previous_data, options, edition and file opened
    events         \* how many of MaxEvents there were

diskVars == <<disk, made, version>>
cacheVars == <<envelopes, checked>>
cycleVars == <<schedule, board, pc, work, loc>>
vars == <<setup, diskVars, cacheVars, options, cycleVars, events>>

\* file_edition: the file and its writes, as inode, size and time tell them.
DiskEdition ==
    IF disk.file = 0 THEN None ELSE <<disk.file, version[disk.file]>>

\* What a query through an open schedule reads: its own file, as written now.
Through(s) == <<s.file, version[s.file]>>

\* _entry_data and _base_data: the entry's own fields, no departure yet.
EntryData(s, opt) ==
    [extracting |-> FALSE, stamp |-> "none", from |-> None, opt |-> opt,
     delays |-> None, schedule |-> s]

NoCycle == [prev |-> None, opt |-> 0, edition |-> None, got |-> None]
Steps == {"idle", "open", "opened", "unpack", "index", "read", "gate", "realtime", "stops"}

Init ==
    /\ setup \in Setups
    /\ disk = [file |-> 1, writing |-> FALSE]
    /\ made = 1
    /\ version = [f \in Files |-> 0]
    /\ envelopes = [e \in Editions \cup {None} |-> None]
    /\ checked = None
    /\ options = [j \in Entries |-> 0]
    /\ schedule = [j \in Entries |-> None]
    /\ board = [j \in Entries |-> None]
    /\ pc = [j \in Entries |-> "idle"]
    /\ work = [j \in Entries |-> EntryData(None, 0)]
    /\ loc = [j \in Entries |-> NoCycle]
    /\ events = 0

----------------------------------------------------------------------------
(* Around the coordinators.                                                *)

Happens == events < MaxEvents /\ events' = events + 1

\* swap_in: a rebuilt file takes the name; it waits for writers to be done.
Swap ==
    /\ ~disk.writing
    /\ Happens
    /\ made' = made + 1
    /\ disk' = [disk EXCEPT !.file = made + 1]
    /\ UNCHANGED <<version, cacheVars, options, cycleVars>>

\* An import copies a line into the file where it stands, or a screen of the
\* flow makes its indexes: SQLite's journal is there until the commit.
BeginWrite ==
    /\ disk.file # 0
    /\ ~disk.writing
    /\ Happens
    /\ disk' = [disk EXCEPT !.writing = TRUE]
    /\ UNCHANGED <<made, version, cacheVars, options, cycleVars>>

EndWrite ==
    /\ disk.writing
    /\ disk' = [disk EXCEPT !.writing = FALSE]
    /\ version' = [version EXCEPT ![disk.file] = @ + 1]
    /\ UNCHANGED <<made, cacheVars, options, cycleVars, events>>

\* The file is taken away: a restore, a removal by hand.
Lose ==
    /\ disk.file # 0
    /\ ~disk.writing
    /\ Happens
    /\ disk' = [disk EXCEPT !.file = 0]
    /\ UNCHANGED <<made, version, cacheVars, options, cycleVars>>

\* update_listener: the stamp of what is shown goes, and the refresh asked for
\* is the next cycle.  Left out: options changed while the sensors are made.
ChangeOptions(j) ==
    /\ Happens
    /\ board[j] # None \/ j \in Journeys
    /\ options' = [options EXCEPT ![j] = @ + 1]
    /\ board' = IF board[j] = None THEN board
                ELSE [board EXCEPT ![j].stamp = "none"]
    /\ UNCHANGED <<diskVars, cacheVars, schedule, pc, work, loc>>

\* The refresh interval passes (a cycle is shorter than it).
Age(j) ==
    /\ pc[j] = "idle"
    /\ board[j] # None
    /\ board[j].stamp = "fresh"
    /\ board' = [board EXCEPT ![j].stamp = "old"]
    /\ UNCHANGED <<diskVars, cacheVars, options, schedule, pc, work, loc, events>>

----------------------------------------------------------------------------
(* A cycle: the schedule.                                                  *)

\* A cycle ends: what it returns is the coordinator's data.
Finish(j, shown) ==
    /\ board' = [board EXCEPT ![j] = shown]
    /\ pc' = [pc EXCEPT ![j] = "idle"]
    /\ work' = [work EXCEPT ![j] = EntryData(None, 0)]
    /\ loc' = [loc EXCEPT ![j] = NoCycle]

\* _read_lately: the stops were read from this very schedule, and lately.
ReadLately(prev, s) ==
    /\ prev.stamp = "fresh"
    /\ ~prev.extracting
    /\ prev.schedule = s

\* What follows schedule_for, up to the next await.  Stops read lately are
\* shown again: the board as it is, or a copy of prev less the departures gone.
WithSchedule(j, prev, opt, s) ==
    /\ schedule' = [schedule EXCEPT ![j] = s]
    /\ \/ /\ j \in LocalStops /\ prev # None /\ ReadLately(prev, s)
          /\ \E shown \in {board[j], prev} : Finish(j, shown)
       \/ /\ (j \in LocalStops /\ prev # None) => ~ReadLately(prev, s)
          /\ work' = [work EXCEPT ![j] =
                 [EntryData(s, opt) EXCEPT
                     !.stamp = IF j \in LocalStops /\ prev # None THEN "fresh" ELSE "none"]]
          /\ pc' = [pc EXCEPT ![j] = "unpack"]
          /\ loc' = [loc EXCEPT ![j] = [NoCycle EXCEPT !.prev = prev, !.opt = opt]]
          /\ UNCHANGED board

\* schedule_for: the same schedule while its database is the same one.
\* WhileOpen is a slip: while the file is there.
WhileOpen(j) == DiskEdition # None /\ schedule[j] # None
SameDatabase(j) ==
    /\ DiskEdition # None
    /\ schedule[j] # None
    /\ schedule[j].edition = DiskEdition

\* The start of _async_update_data, and async_prepare while a local stops entry
\* has shown nothing yet: what is shown and the options are taken as they
\* stand, then the edition is read.
Keep(j) ==
    /\ pc[j] = "idle"
    /\ SameDatabase(j)
    /\ WithSchedule(j, board[j], options[j], schedule[j])
    /\ UNCHANGED <<diskVars, cacheVars, options, events>>

Close(j) ==
    /\ pc[j] = "idle"
    /\ ~SameDatabase(j)
    /\ loc' = [loc EXCEPT ![j] = [prev |-> board[j], opt |-> options[j],
                                  edition |-> DiskEdition, got |-> None]]
    /\ pc' = [pc EXCEPT ![j] = "open"]
    /\ UNCHANGED <<diskVars, cacheVars, options, schedule, board, work, events>>

\* get_gtfs: a sentinel while something writes the file or when there is none.
\* MakesOne is a slip: a missing file is opened, and so made.
MakesOne == IF disk.writing THEN None ELSE disk.file
GetGtfs == IF disk.writing \/ disk.file = 0 THEN None ELSE disk.file

Open(j) ==
    /\ pc[j] = "open"
    /\ loc' = [loc EXCEPT ![j].got = GetGtfs]
    /\ pc' = [pc EXCEPT ![j] = "opened"]
    /\ UNCHANGED <<diskVars, cacheVars, options, schedule, board, work, events>>

\* The edition noted is the one read before the opening: None when there was
\* no file yet, and the schedule is then opened again the next minute.
\* EditionAfter is a slip: it is read once the schedule is open.
EditionAfter(j) == DiskEdition
EditionNoted(j) == loc[j].edition

Opened(j) ==
    /\ pc[j] = "opened"
    /\ WithSchedule(j, loc[j].prev, loc[j].opt,
                    IF loc[j].got = None THEN None
                    ELSE [file |-> loc[j].got, edition |-> EditionNoted(j)])
    /\ UNCHANGED <<diskVars, cacheVars, options, events>>

----------------------------------------------------------------------------
(* A cycle: the timetable.                                                 *)

\* No sensor of a local stops entry was made yet.
Preparing(j) == j \in LocalStops /\ loc[j].prev = None

\* PlatformNotReady: Home Assistant asks again later, and what async_prepare
\* put in data goes unread.
NotReady(j) ==
    /\ pc' = [pc EXCEPT ![j] = "idle"]
    /\ work' = [work EXCEPT ![j] = EntryData(None, 0)]
    /\ loc' = [loc EXCEPT ![j] = NoCycle]
    /\ UNCHANGED board

\* _still_unpacking: the last reading is kept, marked.
Kept(j) ==
    [(IF loc[j].prev = None THEN work[j] ELSE loc[j].prev) EXCEPT !.extracting = TRUE]

Unpacking(j) ==
    /\ pc[j] = "unpack"
    /\ disk.writing
    /\ IF Preparing(j) THEN NotReady(j) ELSE Finish(j, Kept(j))
    /\ UNCHANGED <<diskVars, cacheVars, options, schedule, events>>

\* The sensors are made from an empty list; the first refresh reads it.
Prepared(j) ==
    /\ pc[j] = "unpack"
    /\ ~disk.writing
    /\ Preparing(j)
    /\ Finish(j, work[j])
    /\ UNCHANGED <<diskVars, cacheVars, options, schedule, events>>

\* _static_refresh_due: no reading, one past its interval, or the departure
\* shown has left.
StaticDue(j, left) ==
    loc[j].prev # None =>
        loc[j].prev.stamp # "fresh" \/ (left /\ loc[j].prev.from # None)

\* What was shown goes on, with the schedule of this minute.  CarriedWhole is
\* a slip: with the schedule it came with.
CarriedWhole(j) == [loc[j].prev EXCEPT !.extracting = FALSE]
CarriedOn(j) ==
    [loc[j].prev EXCEPT !.extracting = FALSE, !.schedule = schedule[j]]

NotDue(j) ==
    /\ pc[j] = "unpack" /\ j \in Journeys
    /\ ~disk.writing
    /\ schedule[j] # None
    /\ ~StaticDue(j, FALSE)
    /\ work' = [work EXCEPT ![j] = CarriedOn(j)]
    /\ pc' = [pc EXCEPT ![j] = "gate"]
    /\ UNCHANGED <<diskVars, cacheVars, options, schedule, board, loc, events>>

\* No database: the board is emptied, and a journey's is read again as soon
\* as there is one.
NoDatabase(j) ==
    /\ pc[j] = "unpack"
    /\ ~disk.writing
    /\ schedule[j] = None
    /\ ~Preparing(j)
    /\ \/ /\ j \in Journeys
          /\ pc' = [pc EXCEPT ![j] = "gate"]
          /\ UNCHANGED <<board, work, loc>>
       \/ /\ j \in LocalStops
          /\ Finish(j, work[j])
    /\ UNCHANGED <<diskVars, cacheVars, options, schedule, events>>

\* The reading starts from EntryData.  DueOnPrevious is a slip: from what was
\* shown, as in between two readings.
DueOnPrevious(j) ==
    /\ pc[j] = "unpack"
    /\ ~disk.writing
    /\ schedule[j] # None
    /\ j \in Journeys => StaticDue(j, TRUE)
    /\ work' = [work EXCEPT ![j] = IF loc[j].prev = None THEN @ ELSE CarriedOn(j)]
    /\ pc' = [pc EXCEPT ![j] = "index"]
    /\ UNCHANGED <<diskVars, cacheVars, options, schedule, board, loc, events>>
Due(j) ==
    /\ pc[j] = "unpack"
    /\ ~disk.writing
    /\ schedule[j] # None
    /\ ~Preparing(j)
    /\ j \in Journeys => StaticDue(j, TRUE)
    /\ pc' = [pc EXCEPT ![j] = "index"]
    /\ UNCHANGED <<diskVars, cacheVars, options, schedule, board, work, loc, events>>

\* check_datasource_index: the file open may be written, once an edition.
Index(j) ==
    /\ pc[j] = "index"
    /\ pc' = [pc EXCEPT ![j] = IF j \in Journeys THEN "read" ELSE "gate"]
    /\ \/ /\ disk.writing \/ (DiskEdition # None /\ checked = DiskEdition)
          /\ UNCHANGED <<diskVars, checked, events>>
       \/ /\ ~disk.writing /\ (DiskEdition = None \/ checked # DiskEdition)
          /\ \E written \in BOOLEAN :
                 /\ IF written THEN Happens ELSE UNCHANGED events
                 /\ version' = [version EXCEPT ![schedule[j].file] =
                                    IF written THEN @ + 1 ELSE @]
          /\ checked' = IF DiskEdition = None THEN checked
                        ELSE <<disk.file, version'[disk.file]>>
          /\ UNCHANGED <<disk, made>>
    /\ UNCHANGED <<envelopes, options, schedule, board, work, loc>>

\* get_next_departure and get_local_stops_next_departures answer nothing
\* while something writes the file.
ReadBy(j) == IF disk.writing THEN None ELSE Through(schedule[j])

\* _read_timetable.
ReadTimetable(j) ==
    /\ pc[j] = "read"
    /\ work' = [work EXCEPT ![j].from = ReadBy(j), ![j].stamp = "fresh"]
    /\ pc' = [pc EXCEPT ![j] = "gate"]
    /\ UNCHANGED <<diskVars, cacheVars, options, schedule, board, loc, events>>

\* The database cannot answer: UpdateFailed, what is shown stays.
ReadFails(j) ==
    /\ pc[j] \in {"read", "stops"}
    /\ Happens
    /\ Finish(j, board[j])
    /\ UNCHANGED <<diskVars, cacheVars, options, schedule>>

----------------------------------------------------------------------------
(* A cycle: the realtime, and what is shown.                               *)

\* _forget_envelopes, then _window_for: one answer for each edition.
Envelopes(s) ==
    [e \in Editions \cup {None} |->
        IF e # DiskEdition THEN None
        ELSE IF envelopes[e] # None THEN envelopes[e] ELSE Through(s)]

WindowOpen(s) == Envelopes(s)[DiskEdition][1] \in Running

\* rt_window_gate: with no timetable the realtime is read.
Gate(j) ==
    /\ pc[j] = "gate"
    /\ envelopes' = IF schedule[j] = None THEN envelopes ELSE Envelopes(schedule[j])
    /\ \/ /\ j \in LocalStops
          /\ pc' = [pc EXCEPT ![j] = "stops"]
          /\ UNCHANGED <<board, work, loc>>
       \/ /\ j \in Journeys
          /\ schedule[j] # None => WindowOpen(schedule[j])
          /\ pc' = [pc EXCEPT ![j] = "realtime"]
          /\ UNCHANGED <<board, work, loc>>
       \/ /\ j \in Journeys
          /\ schedule[j] # None
          /\ ~WindowOpen(schedule[j])
          /\ Finish(j, [work[j] EXCEPT !.delays = None])
    /\ UNCHANGED <<diskVars, checked, options, schedule, events>>

\* A timetable that cannot be asked its hours leaves the realtime on.
GateFails(j) ==
    /\ pc[j] = "gate"
    /\ schedule[j] # None
    /\ Happens
    /\ pc' = [pc EXCEPT ![j] = IF j \in Journeys THEN "realtime" ELSE "stops"]
    /\ UNCHANGED <<diskVars, cacheVars, options, schedule, board, work, loc>>

\* _read_realtime: the delays are matched with the departures of this cycle.
Realtime(j) ==
    /\ pc[j] = "realtime"
    /\ Finish(j, [work[j] EXCEPT !.delays = [of |-> work[j].from]])
    /\ UNCHANGED <<diskVars, cacheVars, options, schedule, events>>

\* The trip updates cannot be read: the delays stay as the cycle found them.
RealtimeFails(j) ==
    /\ pc[j] = "realtime"
    /\ Happens
    /\ Finish(j, work[j])
    /\ UNCHANGED <<diskVars, cacheVars, options, schedule>>

\* The stops around someone are read last, their delays with them.
ReadStops(j) ==
    /\ pc[j] = "stops"
    /\ Finish(j, [work[j] EXCEPT !.from = ReadBy(j)])
    /\ UNCHANGED <<diskVars, cacheVars, options, schedule, events>>

----------------------------------------------------------------------------
Cycle(j) ==
    \/ Keep(j) \/ Close(j) \/ Open(j) \/ Opened(j)
    \/ Unpacking(j) \/ Prepared(j) \/ NotDue(j) \/ NoDatabase(j) \/ Due(j)
    \/ Index(j) \/ ReadTimetable(j) \/ Gate(j) \/ Realtime(j) \/ ReadStops(j)

\* What is set up stays so.
Step ==
    \/ Swap \/ BeginWrite \/ EndWrite \/ Lose
    \/ \E j \in setup :
          \/ Cycle(j)
          \/ ReadFails(j) \/ GateFails(j) \/ RealtimeFails(j)
          \/ ChangeOptions(j) \/ Age(j)
Next == Step /\ UNCHANGED setup

Spec == Init /\ [][Next]_vars

\* A cycle under way goes on and another follows each minute (the loop, the
\* executor, the update interval); a writer ends; the refresh interval passes.
FairSpec ==
    /\ Spec
    /\ WF_vars(EndWrite /\ UNCHANGED setup)
    /\ \A j \in Entries :
          /\ WF_vars(j \in setup /\ Cycle(j) /\ UNCHANGED setup)
          /\ SF_vars(j \in setup /\ Age(j) /\ UNCHANGED setup)

----------------------------------------------------------------------------
(* Properties.                                                             *)

\* Each variable is of its kind.
TypeOK ==
    /\ setup \in Setups
    /\ disk \in [file : {0} \cup Files, writing : BOOLEAN]
    /\ made \in Files
    /\ version \in [Files -> 0..MaxEvents]
    /\ envelopes \in [Editions \cup {None} -> Editions \cup {None}]
    /\ checked \in Editions \cup {None}
    /\ options \in [Entries -> 0..MaxEvents]
    /\ schedule \in [Entries -> Schedules \cup {None}]
    /\ board \in [Entries -> Readings \cup {None}]
    /\ pc \in [Entries -> Steps]
    /\ work \in [Entries -> Readings]
    /\ loc \in [Entries -> [prev : Readings \cup {None}, opt : 0..MaxEvents,
                           edition : Editions \cup {None}, got : Files \cup {None}]]
    /\ events \in 0..MaxEvents

\* A schedule kept because its edition is the database's is open on that very
\* file, whatever was swapped in while it was being opened (schedule_for).
KnowsItsFile ==
    \A j \in Entries : SameDatabase(j) => schedule[j].file = disk.file

\* From the index check to the realtime, a cycle reads through the schedule of
\* this minute and never through one schedule_for closed.
UsesItsSchedule ==
    \A j \in Entries :
        pc[j] \in {"index", "read", "gate", "realtime", "stops"} =>
            work[j].schedule = schedule[j]

\* The delays shown were matched with the departures shown, and not with those
\* of another reading of the timetable.
DelaysOfThisBoard ==
    \A j \in Journeys :
        board[j] # None /\ board[j].delays # None => board[j].delays.of = board[j].from

\* A reading stamped with its time read something, when there was a schedule
\* to read: a journal no longer blanks a sensor for a whole refresh interval
\* (ARCHITECTURE.md:706).
EmptyIsUnstamped ==
    \A j \in Entries :
        board[j] # None /\ board[j].stamp = "fresh" /\ board[j].schedule # None =>
            board[j].from # None

\* An envelope was read from the database its key names: "what the database
\* was when the envelope was read" (data/rt_window.py:61).
EnvelopeOfItsEdition ==
    \A e \in Editions : envelopes[e] # None => envelopes[e][1] = e[1]

\* Once the files and the options are left alone, every sensor ends up showing
\* what the database holds, as its options ask, and is not said to be unpacked.
ShowsWhatIsThere(j) ==
    /\ board[j] # None
    /\ ~board[j].extracting
    /\ board[j].from = DiskEdition
    /\ board[j].opt = options[j]
Settles == \A j \in Entries : <>[](j \in setup => ShowsWhatIsThere(j))
============================================================================
