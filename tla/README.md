# gtfs2: what is modelled, checked and proved

gtfs2 is a Home Assistant integration.  For each *source* (one GTFS feed) it
keeps a zip and a SQLite database on disk, refreshes them when the operator
publishes a new edition, and shows departures from the database together with
the operator's realtime feeds.  This directory holds TLA+ modules of the parts
where several actors meet and of the algorithms whose cases are too many to
test, the TLC configurations that check them on small instances, and proofs of
the facts that hold for any size.

All paths below are relative to `src/custom_components/gtfs2/`.

## The system

### Components

| Component | State | Operations | What makes it correct |
|---|---|---|---|
| Source refresh (`data/source_refresh.py`) | one `asyncio.Lock` per source; `probe_state`; the record `<file>.sqlite.meta.json`; the times of the looks | scheduled check, refresh, retry, offer of an update, carry of validators; the slots and the late look | one writer; a database never believed newer than it is; a source behind its host catches up; no look missed |
| Download and probe (`feed/freshness.py`) | `<file>.zip` and its record `<file>.zip.meta.json` | probe, download, compare by hash, keep | an edition is neither missed nor taken twice |
| Refresh of the database (`data/source_zip.py`) | `<file>.refresh.sqlite` | build line by line or whole, refuse, stage, swap | no line a sensor reads is lost; no mix of editions |
| Database building (`data/db_build.py`, `data/shrink.py`) | `<file>.sqlite` | import lines, prune, intern, rewrite on a copy, swap | a reader sees the old file or the new one, whole |
| Services, repairs, buttons, update entity, switch (`source_services.py`, `repairs.py`, `button.py`, `update.py`, `switch.py`) | none of their own | ask for a refresh, a prune, an interning, the dropping of a line; switch a source off | refused or queued, never beside a writer |
| Entries of sources (`__init__.py`, `feed/source_entries.py`, `flow/sources.py`, `flow/options.py`) | one entry per source; what journeys of an older version still hold of its address, key and feeds; its files | add by url, key, envelope of networks or zip; configure; remove; take over at a start | one entry per source; nothing held is lost, whatever step a restart falls on; screens do not undo each other |
| Journeys (`config_flow.py`, `flow/journey.py`, `flow/train.py`, `flow/reload.py`) | the flow object, which goes from journey to journey; the import or extraction under way | choose line, stops or stations, name, way back; import lines, wait for it, reopen | a sensor is of the journey answered; names distinct; a progress screen is left |
| Realtime feed cache (`feed/rt_feed.py`) | five module dictionaries, a guard and a lock per feed | get the entities of a feed | one download per publication; a host that fails not asked again at once |
| Coordinators and sensors (`coordinator.py`, `sensor.py`) | the schedule's connection and its edition, the data shown, the data of the cycle under way | one cycle a minute; options changed | reads the database installed; delays go with their departures; ends up showing what is there |
| Realtime window (`data/rt_window.py`) | the hours kept for each edition and day, the overtime under way, what the gate last decided | open or shut the realtime | a late vehicle is followed to its end; a host that sleeps is left alone |
| Departure queries and directions (`data/departures.py`, `data/pair_direction.py`, `data/clocks.py`) | none | the rides of a trip between two ends; the rows of a board; the next service day; the direction at a loop | the query, the flow's test and the shortest ride tell one story; the soonest departures are shown |
| Alerts and trip updates (`domain/alerts.py`, `domain/realtime.py`) | none | which alerts are of a journey, which is said; which trips are followed, the time and delay of each | the worst alert in force is said; a delay belongs to its departure and its day |
| Attributes, labels, exports (`domain/attributes.py`, `domain/exports.py`, ...) | none | text and files | presentation: not modelled |

### How they meet

- *The event loop and executor jobs.*  Checks, services and flows are tasks of
  one event loop; what reads or writes files runs in executor threads, awaited
  by the task.  Between two awaits a task is alone on the loop; a job runs
  beside everything else.
- *The source's lock.*  Refreshes, downloads kept, imports, prunes and
  interning enter `source_lock`.  Some callers give up when it is held
  (`locked()`), others queue.  The probe, the note of the probe and the carry
  of validators touch the records *outside* the lock, and so does the first
  download of a source being added.
- *The files.*  The zip, the database and their two records are four separate
  writes.  Home Assistant may stop between any two.  `rebuild_pending` must
  tell from the records alone, at any later start, that a zip was adopted and
  not built.  All files of a source are found by its name.
- *The entry of a source and its journeys.*  Before there were entries of
  sources, each journey held the address, key and feeds.  A background task of
  every start makes the missing entries from those copies, then drops the
  copies, while windows may be adding or configuring the same source.
- *The screens.*  A flow runs no thread of its own: its steps are calls from
  the browser, and a progress screen is redrawn by the end of a task it made.
  Two calls of one step can therefore be under way at once, and two windows
  make entries by flows of their own.
- *The database and its readers.*  A coordinator keeps a connection open on
  the file it found; a refresh renames another over it, and a writer changes
  the file in place, its journal beside it meanwhile.  Each cycle tells which
  by `file_edition`, read at an await of its own before the opening.
- *The feed cache.*  Every coordinator calls `get_gtfs_feed_entities` from an
  executor thread; the guard protects the dictionary of locks, and the feed's
  lock is held across the download.  The gate of the realtime window reads the
  same cache to tell whether a vehicle is still out.

The hard behaviours are listed one by one, at their line, under `hazards` in
`PROJECT.json`.

## Modules

| Module | Models |
|---|---|
| `SourceFiles` | the data of a source: editions, validators, the two records, what `version_label`, `installed_meta`, `rebuild_pending` and `probe_source` make of them, what a build and a cut leave |
| `SourceRefresh` | the tasks of one source and its environment: checks, refreshes, flows, rewrites, the host, sensors, failures, crashes |
| `SourceView` | the abstract specification: what the sensors of a source are promised |
| `SourceServed` | the refinement of `SourceView` by `SourceRefresh` |
| `SourceRefreshProofs`, `SourceRecordsProofs`, `SourceServedProofs` | theorems about these: the lock and the types; the records; what is served |
| `SourceSetup`, `SourceSetupProofs` | the entry of one source: windows that add, configure, use and remove it, and the bootstrap of a start |
| `JourneyFlow`, `JourneyFlowProofs` | the screens that make journeys, by bus and by train, with their imports |
| `FeedCache`, `FeedCacheProofs` | threads calling `get_gtfs_feed_entities`, the host and the clock |
| `Coordinator`, `CoordinatorProofs` | the cycles of a source's coordinators over a database that is swapped, written and lost |
| `NightLooks` | when the host of a source is asked for news, over nights, clock changes and stops |
| `RtWindow` | when the realtime feeds of a source are read, past the close of its day |
| `RidePairs` | which calls of a trip a journey rides between |
| `NextDepartures` | the board of a journey, over midnights, calendars and strikes |
| `AlertMatch` | which alerts of a feed are said of a journey |
| `TripMatch` | what a feed of trip updates says of one stop |
| `ReadingsProofs` | theorems about these six |
| `MCSourceRefresh`, `MCSourceSetup`, `MCJourneyFlow`, `MCFeedCache`, `MCReadings` | small instances; `MCReadings` joins the last six modules, which share no state, one of them to a behaviour |

Where a definition has a twin whose comment calls it a slip (`EnterAnyway`
beside `Enter`), the twin is what a plausible mistake in that code would make
of it: it is not part of the specification, and serves to see that a property
notices.

### SourceFiles and SourceRefresh

An edition is a number, standing for the sha256 of the download; a validator
(ETag or Last-Modified) another, 0 for a host that sends none.  `Carries` says
which lines each edition has trips for.  A database is, per line, the set of
editions its trips came from, so a mix of editions within a line can be told.

A task is a member of `Checks`, `Users`, `Flows` or `Prunes`; `pc[t]` is where
it stands and `loc[t]` its locals.  A step ends where the code awaits, and
inside a job between two file accesses that another task or a crash can come
between: so `KeepZip` (the rename) and `RecordZip` (the sidecar) are two
actions, `CheckNote` and `CheckNoteWrite` are the read and the write of
`note_checked`, and `SwapLock`, `SwapIn` and `RecordInstalled` are the lock,
the rename and the record of an installation.

| Actions | Code |
|---|---|
| `Enter`, `Grant`, `Release` | `async with source_lock(...)`, first come first served |
| `BeginRefresh` ... `RefreshEnd` | `async_refresh_source_data`, `refresh_source`, `refresh_datasource` and the Repairs issue |
| `UserRetry`, `UserUpdate` | `async_rebuild_source`; the update service and the update entity |
| `CheckStart` ... `Offer` | `async_check_source` and its helpers |
| `FlowPick` ... `FlowEntry` | the reload flow: choice of lines, `import_routes`, the entry |
| `RewriteAsk` ... `Rewritten`, `Optimise` | prune, intern, drop-line and the optimise screen, through `on_a_copy` |
| `Publish`, `Restamp` | the host: a new edition; a new validator for the same bytes |
| `Crash`, `LoseDatabase`, `AddSensor`, `RemoveSensor` | what happens around the integration |

`Crash` clears what is in memory and leaves the files as they are; with
`tear`, a sidecar being written is left empty, which `read_meta` takes for
none.  `Happens` says which events a run allows, `MaxFaults` how many failures
and crashes.

### SourceSetup

One source name; of its windows, `Adders` may add it and `Removers` remove it.
`entries` are the datasource entries of that name, a
sequence since nothing but the order of the code's steps keeps it to one;
`journeys` are the copies each journey of an older version comes with; `disk`
is the zip (and the url it came from), the url its sidecar says, the database
and its record.  A window holds where it stands in its flow and what was
typed; the bootstrap where it stands in the start's background task.

| Actions | Code |
|---|---|
| `Adding` | the screens of a new source, from the name looked at to the entry made: by url, with a key, an envelope whose networks are offered, a zip in the folder |
| `Using` | the screens of a source that is there: its feeds, its settings, a journey made on it |
| `Removing` | the removal: `remove_datasource` file by file under the lock, then the entry |
| `Toggle`, `DeleteEntry`, `DeleteJourney` | the source's switch; the deletion of an entry, or of a journey, alone |
| `Booting`, `BootFails` | `async_bootstrap_sources`: list, take over, make the entry by an import flow, drop the copies; an entry that cannot be made |
| `Restart` | Home Assistant starts again at any step of it |

A feed configuration is a number, 0 for none; a journey's is later the greater
its number (`modified_at`).

### JourneyFlow

One flow object.  `cur` is the screen shown or the call under way, `inp` the
inputs (`_user_inputs`), `flow` the other attributes; `job` is the import or
extraction with the lines asked of it, kept by a later call of its step,
`tick` the task that ends to redraw a progress screen, and `calls` the calls of
a progress step under way, any number of which may overlap (`Callers`), each
with its own locals; `reopen` is the call that runs `_reload_done_job`.  `due`
are the calls to come: Home Assistant's at the end of a tick, the browser's
once it is told of another screen.  Either takes its turn on whatever screen
is shown by then (`DueCall`): on a progress screen it is one more call of the
step, on a form it draws the form again (`LateCall`), without the message the
first drawing took.  Only the forms that take or read something as they are
drawn (`route`, `stops`, `stops_train`, `options_train`) can tell.  `entries`
are the sensors, `base` the database.

For the properties only, `said` remembers what the rider answered,
`flow.told` whether what an import left out is owed to the rider or said by
the screen, and `flow.again` that a late call began the import anew.  `left`
bounds a behaviour: journeys, faults, imports that bring part of their lines
in (`partial`), and acts of other windows, which make sensors and bring lines
in between any two steps.

`PartialIsTold` says that the first form drawn after such an import carries
the message, whichever call draws it, and that none of the calls under way
then takes it off.  What it leaves out is a late call, which does
(Divergences).

### FeedCache

`now` counts ticks of about 15 s and the constants of `rt_feed.py` are cut to
them in proportion.  A thread is idle, under the guard (`forget`,
`forgetFailed`), waiting for its feed's lock, or holding it (`fetch`,
`store`); `raised` is an idle thread whose last call ended by the `KeyError`
of `_forget_old_feeds` and not by an answer.  A lock is an identity and not a flag: `_forget_old_feeds` takes a
lock out of the dictionary while a thread may still hold it, and the next
caller then makes another.  The guard is held for less than a tick and an
answer that began is stored within it; the wait for an answer may last any
number of ticks.  `Init` is a moment of a long run, in which a feed was never
read or was just read, with any beat its earlier readings can have given.  `failing` is there for
`Spared` only: when the host last failed a thread that had the feed's lock of
now.

### Coordinator

The database is a file number, 0 when it is missing, and how often the file
was written in place: together what `file_edition` tells.  A file keeps being
read through a schedule open on it after another took its name.  A reading of
the timetable is what it was read from, its age (`gtfs_updated_at`: none,
fresh, old), the options asked with, the delays and the departures these were
matched with, and the schedule it names; which departures it holds is left
out.  `pc` is the await or the executor job a cycle stands at.

| Actions | Code |
|---|---|
| `Keep`, `Close`, `Open`, `Opened` | `schedule_for`, with `close_schedule` and `get_gtfs` |
| `Unpacking`, `Prepared` | `_still_unpacking`, `async_prepare` and its `PlatformNotReady` |
| `NotDue`, `NoDatabase`, `Due` | what a cycle goes on with: the last reading, nothing, a new one |
| `Index`, `ReadTimetable`, `ReadStops`, `ReadFails` | the index check, the readings of the two coordinators, `UpdateFailed` |
| `Gate`, `GateFails`, `Realtime`, `RealtimeFails` | `rt_window_gate`, `_read_realtime` |
| `Swap`, `BeginWrite`, `EndWrite`, `Lose`, `ChangeOptions`, `Age` | what happens around the cycles |

The writes of `Index` are one step, its journal unseen; another writer's, seen
by everybody, are `BeginWrite` and `EndWrite`.  Realtime feeds are taken to be
configured.  The cycles of one coordinator come one at a time: a first refresh
(`sensor.py:89`) longer than the minute to the first tick is left out, as is a
crash with a journal left behind, which keeps every sensor on its last reading
until something opens the file.

### NightLooks and RtWindow

`NightLooks` counts half hours from a midnight.  `check_hours` gives the slots
of a day on the wall clock, which one shift of the clocks moves; a look at a
slot is turned away by the 12 hour slack of the intervals longer than a day; a
start, a change of options or the switch arms the slots anew and asks for a
late look (`_catch_up`).  The longest two looks may be apart (`Apart`) counts
the half day the slack can add, the hour the clocks go back, and one wait more
when the slot falls in the hour they leave out, which is not made up for.
`RtWindow` counts units of ten minutes.  A service
day has its first and last passage, so its window may end after midnight; a
vehicle is late by some delay; `cache` is how far ahead the feed's cached
content reaches and is emptied by a restart or by another source's call; the
gate's state is the stretch (`extended_until`), the reading made once a close
and what it said last.

### RidePairs, NextDepartures, AlertMatch, TripMatch

Pure algorithms: an initial state is a question, one action answers it with
the code's definitions, and an invariant compares the answer with a reference
definition that does not follow the code's way.

- `RidePairs`: a trip is its calls in order, each with its place, whether
  riders get on and off, and whether it is timed.  The candidates of the
  departure query, the flow's test that a journey exists, the shortest ride of
  a trip and the direction kept at a loop's terminus are four readers of one
  question.
- `NextDepartures`: a departure is a trip and its service day; its clock may
  pass midnight more than once.  The rows are cut at a limit in the query's
  order, where the place of the row in the database (`row`) settles a tie, and
  the list is cut in its own, where the trip's id (`nth`) does.  The rows are
  kept, laid out again later and read again without what a feed struck.
- `AlertMatch`: ids are short sequences of characters, since one may stand at
  the start or the end of another.  The feed's indexes, the fields of an
  entity read together, the ranking, the cut and the repeats are all there.
- `TripMatch`: a trip update names its trip, perhaps its day, its line and way
  or not, and times its calls by a time, a delay, both, a zero or nothing.

## Runs

| Run | Question | Instance |
|---|---|---|
| `refresh_auto` | Is there one whole edition, an honest record and no lost line when checks and a user's refresh overlap and anything stops once? | two checks, one user; three editions of which the second drops the line read; one crash (sidecars torn) or failure |
| `refresh_follows` | With rewrites queued beside checks and refreshes, is there one writer, is `SourceView`'s promise kept, and does the source end at the host's last edition? | one check, one user, one rewrite, two faults, weak fairness |
| `refresh_whole` | On a host that restamps its bytes, is a source read whole rebuilt only for new bytes? | one check; an edition that names no line; four validators; no faults, since one alone makes the property fail (the record is then not to be trusted) |
| `notify` | Is each last edition offered on a host without validators, while a flow adds a line to a notify source? | one check, one flow, a crash, sensors coming and going |
| `flow_refresh` | Does an import survive the refreshes around it, when the database may vanish? | one check, one user, one flow, two faults |
| `sources` | Is there one entry, are the copies of the journeys taken over without loss, and do screens keep what others set? | two windows, one that adds and one that removes, two journeys, one plain url and one envelope, two feed configurations, two acts, one fault, restarts |
| `journeys` | Is each sensor of the journey answered, on lines loaded, under a name of its own, and is every progress screen left? | two bus and two train lines, in the four combinations of `MCBegins`: two overlapping calls of an import that brings part of its lines; two overlapping calls and an act of another window; two journeys and a fault; a fault and an import in part |
| `feed_cache` | Is a publication downloaded once, served no longer than it may, and is a host that is down left alone? | two threads, two feeds (one stamped), ten ticks |
| `coordinator` | Is a schedule kept only when it is the database's, do delays stay with their departures, and does a sensor end up showing what is there? | one entry of either kind; three events among swaps, writes, losses, changes of options and failed readings |
| `readings` | Are looks kept, late vehicles followed and hosts let sleep; do the readers of a journey agree, is the board the soonest, the worst alert said, each delay its departure's? | the six parts of `MCReadings`, one to a behaviour |
| `v_lost`, `v_said` | What two docstrings say and the code does not do, below | trips through several stops an end; two alerts of the same words |

*Why the bounds are enough.*  Two lines tell the cases of a refusal apart: a
line lost, a line kept, a line new.  Three editions give a line dropped and
brought back, and a refresh overtaken by the next one.  One fault can fall
between any two steps; two let a second one strike the recovery of the first.
Two checks and a user are three tasks on the lock: one inside, one queued, one
that finds it held.  The feed cache needs two threads, since the second call
of an idle thread plays the third caller, and ten ticks are more than the keep
after the first reading.  For the coordinators three events are a swap, a
write or a loss with another between the awaits of the cycle that meets it,
and one more before the next cycle; entries meet only in the files and the two
caches, and what they leave in the caches another event stands for, so one
entry at a time is set up.

For `sources` two windows and the bootstrap are three makers of one entry, two
journeys tell the one modified last from the other, and two acts are one that
finds the state of the other half made.  For `journeys` a second journey is
what the first can leave something to, and a call beside another is enough for
one to use what the other ended.  `Horizon` (160 half hours) is more than
three days, so that an interval of two days has its slot, its slack and a stop
of thirty hours; the other two intervals are one that wraps past midnight and
one of a day, and the clocks go forward over the night slot; `RtWindow` has days of thirty units, short enough for a
window that ends after midnight to reach into the next.  The questions of the
pure parts are every trip of two to four calls between the places, all
calendars of two services over a week of two days with a removed and an added
day, with trips that leave at one time, every informed entity alone and in chosen pairs, and every form of update
at the stop and at the two calls before it.

*What an instance leaves out.*  `refresh_auto` has constant readers and
`refresh_follows` no flow: a sensor set up during a refresh breaks
`ServedLinesStay`, an import during an optimisation `KeepsItsPromise`
(Divergences).  `notify` does not tear sidecars: two editions without
validators that each find an emptied record share the label "new version"
(`feed/freshness.py:91`), and the second is then not offered
(`data/source_refresh.py:513`).  `journeys` does not put a fault and
overlapping calls together, where `EntryOfOneJourney` is known to fail; and
one variable stands for the import's job and the extraction's, two attributes
of the flow: a late call of the step of one that finds the other running, the
only case that tells them apart, begins its own in its place.

*Fairness.*  `refresh_follows` and `notify` assume weak fairness of a task
that can go on (the loop and the executor run what is ready), of the lock's
grant (`asyncio.Lock` is first come first served) and of the tick (Home
Assistant's time trigger).  Nothing is assumed of users, flows, the host or
faults.
`coordinator` assumes weak fairness of a cycle (the loop, the executor, the
update interval each minute) and of a writer's end, and strong fairness of the
refresh interval's passing: it passes between any two cycles, and each cycle
interrupts it.  `sources` assumes it of the bootstrap, a task of the loop, and
of a start after one that is done (`TakenOver` speaks of the starts to come).
`journeys` assumes it of the end of a job and of a tick, of the call a tick's
end brings, and of a call under way; never of the rider or the browser.
`CHECK_DEADLOCK FALSE` is said where the system may stop for good: the clock
ends (`feed_cache`, `readings`), users owe nothing (`sources`), a flow is over
(`journeys`), a question is answered (`readings`, `v_lost`, `v_said`).

## What is proved

Every theorem below holds for all values of the constants under the named
assumptions of the modules (any number of tasks, windows, readers, entries,
lines, editions and faults).  Each proof finds an inductive invariant, has one
lemma per action or handler, and joins them.

**`SourceRefreshProofs`**: `TypeCorrect` (`Spec => []TypeOK`) and
`OneWriterAlways` (`Spec => []OneWriter`).  `OneWriter` is not inductive: it
says nothing of who the lock believes holds it, so a task could be granted the
lock while another stands inside.  `IInv == TypeOK /\ DownloadHeld /\
LockHeld`.  `LockHeld` says that a task inside is the lock's holder, that a
queued task waits, once, and that a waiting task is queued.  `DownloadHeld`
says that a task between the download and its record carries the record
downloaded, without which the types of `zip` and `zipMeta` do not follow.

**`SourceRecordsProofs`**: `NeverOverstatedAlways`, `BehindIsSeenAlways`, and
`WholeEditionWithoutFlows` under `Flows = {}`.  The invariant `Told` is
`FilesTold`, what the files and records say of each other, and `Knows(t)` for
each task: what a task took from the files before an await already agrees with
what they will be when it writes.  `StampsTell` says that no validator was
sent with two editions, which is why an unchanged label means unchanged bytes.
`RebuildOnlyForNewsAlways` assumes `CheckAlone`, one check without users,
flows, rewrites or faults: `News` says that whoever renews the database does
so from a zip none of whose bytes it holds (`Ahead`), and that at rest its
record is the zip's or unmade.  The property needs it: with two checks, one
builds between the other's kept download and its refresh; with a failed
download the host's word stands and the same bytes are built again.
`Unmixed` says that a database and each copy made of it hold one edition; a
flow is what breaks it (below), hence the assumption.

**`SourceServedProofs`**: `ImportSurvivesAlways` for all constants;
`ServedLinesStayAlways` and `KeepsItsPromiseAlways`, the safety part of
`SourceView` being implemented, assuming `Flows = {}` and neither `"sensors"`
nor `"lose"` in `Happens`.  `AllFollowed` says that the lines a build was
asked for follow what the database held when its lock was taken.  `Served`
says that lines protected before the lock are still enough at the swap, since
by these assumptions a database only loses the lines nobody reads (`Narrows`).
The assumptions are the known gaps, not a convenience: with a sensor set up
during a refresh the property is false (Divergences), with a flow a line read
may come in beside, and a database deleted by hand serves nothing.
`OnlyTheRename` then says that the promise turns on one action, `SwapIn`, the
rename of what a refresh or a rewrite staged, and `RenameIsAStep` that this is
an `Install` or a `Drop` of `SourceView`.

**`CoordinatorProofs`**: `TypeCorrect`, `KnowsItsFileAlways`,
`UsesItsScheduleAlways`, `DelaysOfThisBoardAlways`.  `IInv == Slots /\ Disk /\
Shared`.  `Slots` gives every entry the same fact, `EntryOK`, about its
schedule, board, work and locals.  For `KnowsItsFile` it holds that an edition
noted names a file no later than the one open, from the moment it is read:
files only grow, so a schedule whose edition is the disk's is open on the last
file made, which `Disk` says is the one installed.  For `DelaysOfThisBoard` it
holds that what a cycle took up and what it works on are matched, and that a
reading not yet made carries no delays.  `SlotKept` says that a step which
keeps its own entry's fact keeps the others'.

**`SourceSetupProofs`**: `TypeCorrect`, `OneEntryAlways`, `SavesMergeAlways`,
`TakeOverKeepsAlways`; and `OwnsItsZip` assuming `OneAdder`, since two windows
adding one name from different urls are a divergence.  `IInv == Kinds /\
TakenSoFar`: `Kinds` types what windows and the bootstrap hold between two
steps, and `TakenSoFar` says what the bootstrap already put in the entry of
what the journeys still hold, so that dropping the copies loses nothing.  For
`OwnsItsZip`, `Hosting` follows whose zip is on disk from the name looked at
to the entry made.  `EntryLeavesLastAlways` assumes `OneRemover`: its
invariant `Ending` says that the database is there from an import's record on,
since whoever could take it holds no lock then, and that a removal whose files
are gone leaves no record without a database.  With two that remove it is
false (Divergences).

**`FeedCacheProofs`**: `TypeCorrect`, `NoRepeatAlways`, `NeverLeftBehind` and
`SparedAlways`.  `IInv == TypeOK /\ Clock /\ FeedsOK /\ CallsOK /\ FailsOK`: what is cached was published
by then, a beat learnt spans at least one publication, and a thread that downloads a feed whose beat is known does
so only once the host shows more than it had.  The same invariant bounds what
is served: a reading was made before the next publication was due of the host,
its lag included, and `_still_current` never takes one for current `MaxAge`
after it was made, whatever beat it believes in.  `FailsOK` says that while a
feed keeps its lock its failure memory is as young as the failure: whoever
forgets the one drops the other, and the thread that waits for the lock has
one.

**`JourneyFlowProofs`**: `NamesDistinctAlways`, whose heart is that only two
actions make sensors and that each looks at the names taken within the step, so
nothing comes between; and `PartialIsToldAlways`, by `TellInv`: what an import
left out is held in `missing` and owed until the reopening, of which there is
one at a time, draws the form that says it; while the form says so, no call
under way can draw another (`FormHasNoReopen`, `SaidTillAnswered`).
`FlowTypesKept`, `EntryOfOneJourneyAlways` and `OnLinesLoadedAlways` share
`FlowInv`, which says of each screen what the inputs filled in by then are
(`Screens`) and that they are what the rider answered for the journey under
way; of the job, that what it says it added is in the database (`JobData`); of
each overlapping call, which job or reopening it can still be of (`Control`);
`TellInv` stands on it. All but the first theorem assume that train options
never wait for the database (`"options_train" \notin BusyAt`) and `Prompt`, an
action property: no late call shows a progress screen whose job was taken.
Without either `EntryOfOneJourney` is false (Divergences); in the run no such
call meets an import that fails, since a fault and overlapping calls are kept
apart.

**`ReadingsProofs`** has one theorem for each property of `readings`.

- `SpareReadingsFew`, `LateIsFollowedAlways`: for any timetable whose service
  days end before the midnight after the next, any delays and any number of
  restarts and failures.  `WindowInv` counts the readings to spare by what
  allows them (`SpareInv`), says that the cache is what was read or was lost
  (`CacheInv`) and that while a vehicle is out the feed was read ten minutes
  ago (`LateInv`).
- `LooksKeptAlways`: for any interval up to fifteen days, night hour, change of
  an hour and stops.  `LooksInv` says that since the last look every tick was
  turned away by the slack, and that once past, the late look was made or not
  overdue; the rest is `NextTick`, how soon the pattern comes round on a clock
  that changes once.
- `ReadersAgreeAlways`: for any trips.  `Held` says what the pass over the
  calls has found after the first n of them: a ride none longer, and the only
  boarding a ride can still begin with.
- `SoonestAreShownAlways`: for any timetable in which no two trips share a row
  or an id.  `RowsHold` says that a row due after the moment is among those
  read or after all of them, which a later moment keeps; the lemmas on sorted
  lists (`InTurnIs`, `CutInOrder`) say what a list cut keeps.
- `WorstIsSaidAlways` assumes `RepeatsOnly`: what a feed says in the same words
  it says of the same stops and periods.  Run `v_said` is a feed that does
  not.  The order of the list is total, so the severest in force stands first
  among the alerts in force, before the cut.
- `TimesAddUpAlways`: for any timetable, boards, moments and feeds that are
  `PlainFeeds`.  The reference reads the calls forward, one word after the
  other; the code reads back from this stop to the latest call before it.
  `SaidNext` says that one call more changes both alike, `LastWordIs` that
  they end alike, and `CallIs` that the code reads no call and no word, or one
  call and its word.  `NearestRun` is about the day guessed among three,
  `CallsRead` about the number this stop is read by, and `TripsInv` is the
  property with where its inputs come from.  `PlainFeeds` asks of a feed that
  it tells of one run of a trip and once of each call of it, this stop by its
  id or by the number the trip calls here with (`PlainCalls`); that the run is
  the first the board lists, or, off the board with no day said, due within
  half a day of what is said of it and on the day of that moment, the day
  before or the day after (`PlainDay`).  The module `MCReadings` assumes it of
  its own feeds, so TLC evaluates it there.  Without it the property is false:
  of a feed that tells of this stop twice, or of a run late past its time
  when the board lists the same trip of the next day (Divergences).

*Only model-checked.*  Liveness under fairness is out of the prover's reach
(`CatchesUp`, `NewsIsOffered`, `Settles`, `TakenOver`,
`ProgressLeft`).  Every invariant and every action property of a passing run
is stated by a theorem.  Beyond their assumptions,
`WholeEdition`, `ServedLinesStay` and `KeepsItsPromise` are checked with flows
or sensors on the instances of the runs, and are false on some others.
`SourceFiles` is checked and proved as part of `SourceRefresh`.  Besides
these instances, `TripMatch` was compared with `_scheduled_departures` and its
callers on 40,000 random feeds and `RidePairs` with the SQL of
`departures.py` on 6,000 random trips, without a difference.

## Divergences

Two are shown by a run and listed under `findings`:

- `v_lost`: `_several_stops` (`data/departures.py:258`) never lists some trips
  that its docstring (line 212) says are listed once: a trip p q p d or
  p e d e between ends of several stops;
- `v_said`: `_rank_alerts` (`domain/alerts.py:198`) takes two alerts of the
  same words, effect and stops for a repeat whatever their periods, and keeps
  the first, so one for later can hide one in force, where `_publish_alerts`
  (line 729) says the sentence takes the worst of them.

Ten more can be seen with the modules as they are, by the change of a run's
cfg named with each:

- an auto check keeps a zip whose build fails, and a line added then comes
  from that zip beside lines of the older edition: `WholeEdition` in
  `refresh_auto.cfg` with `Flows = {flow}`, `Checks = {tick}`,
  `FirstLines = {A}`, `FirstReaders = {A}`;
- a database without an installed record takes the zip's for its own
  (`installed_meta`), so a zip adopted and not built reads as installed:
  `AheadIsPending` in `refresh_auto.cfg` with `Recorded = FALSE`,
  `Checks = {tick}`;
- `_forget_old_feeds` drops the lock of a feed another thread is downloading,
  and the next caller downloads beside it: `OneFetch` in `feed_cache.cfg`;
- `del _FEED_FAILED[key]` raises when the feed's own thread popped the failure
  after it was listed (`feed/rt_feed.py:193`): the call ends by an exception
  and not by the feed's answer, whatever the cache holds of it: `NoneRaises` in
  `feed_cache.cfg`;
- a call of the flow that comes once the form is drawn, the one the end of a
  tick brings or the browser's, draws it again: the message of a partial import
  was taken by the first drawing (`flow/journey.py:200`, `flow/train.py:413`),
  so the rider may never see it, where the docstring of
  `async_step_reload_done` (`flow/reload.py:304`) has the second call show the
  same screen: `PartialStays` in `journeys.cfg`;
- a journal that appears after `_still_unpacking` looked for one makes
  `get_next_departure` answer nothing, and the answer is stamped: the sensor
  is blank until the refresh interval, which `ARCHITECTURE.md:707` says is
  over.  `EmptyIsUnstamped` in `coordinator.cfg` with
  `Setups = {{journey, stops}}`, `MaxEvents = 2`;
- the gate keeps the hours read through a schedule of the older file as those
  of the file just swapped in (`data/rt_window.py:61`): `EnvelopeOfItsEdition`,
  same instance;
- train options that end on the unpacking screen (`flow/train.py:461`) leave
  `_train_import` true, which only the naming of the sensors (line 472) and a
  failed import (`flow/reload.py:298`) take back; a bus line imported next is
  then named as the trains were, where line 472 says an import later in the
  flow is not the trains': `EntryOfOneJourney` in `journeys.cfg` with
  `BusyAt = {"options_train"}`;
- a late call of the progress step shows again the screen of an import whose
  job was taken; a redraw of it starts the import a second time
  (`flow/reload.py:200`), and should that one fail, the route screen comes
  back with the lines and the way back of the journey answered before:
  `EntryOfOneJourney` in `journeys.cfg` with two calls and a fault at once
  (`Begin({"b1", "t1"}, Callers, 0, 1, 0, 0)` in `MCBegins`);
- while the entry of a source is unloaded by its removal, the zip is downloaded
  anew, a line imported, and a second removal deletes the database: the entry
  goes then and leaves a record without a database.  `EntryLeavesLast` in
  `sources.cfg` with `Removers = {w1, w2}`, `MaxEdits = 4`.

The others were met while modelling; the model behaves so, and the properties
of the passing runs are stated beside them.

*Refresh and files.*

- The drop-line repair reads the lines present before it has the lock
  (`source_services.py:243`), so a line imported meanwhile is dropped, which
  line 232 says is kept.
- A sensor set up on an existing line during a refresh is not among the lines
  the refresh protects (`data/source_refresh.py:362`); the optimise screen
  works out what to keep before the lock (`flow/reload.py:362`).
- On a host that restamps its bytes an edition is offered under each label
  (`data/source_refresh.py:514`), where line 510 says once.
- `on_a_copy` and `swap_in` connect to the database, which makes an empty file
  when it is missing (`data/db_build.py:413`): `rebuild_pending` no longer
  takes it for missing, and the refresh fails on it.  An optimise queued
  behind a removal does this too.
- A stop between the creation of a database file and the commit of its schema
  leaves the same empty file (`data/db_build.py:81`), which line 273 excludes.
- A service call cancelled while its job runs releases the lock the job still
  needs (`data/source_refresh.py:365`); tasks are not cancelled in the model.
- A late look is asked for after the interval and an hour
  (`data/source_refresh.py:600`), so a slot missed by a short stop waits for
  the next one, where line 595 says now rather than a day late.  So does a
  slot in the hour the clocks leave out.

*Entries of sources.*

- The network chosen in an envelope (`flow/sources.py:367`) stays when the
  rider is sent back and types the address of a plain feed: its entry
  (line 456) is then made with a network to look for in it.
- Two windows adding one name with different urls share the zip of the first
  (why `OwnsItsZip` assumes one adder); `ensure_source_zip` takes no lock, and
  a probe while a removal runs downloads the zip again.
- A deleted source entry says its journeys "fall back on their own options"
  (`__init__.py:259`); the bootstrap dropped them when it took them over.
- A removed source comes back at the next start when a journey of it is left.
- The realtime screen of a source without an entry is shown empty, and what is
  saved there replaces what its journeys hold (`flow/sources.py:416`).

*Screens of journeys.*

- The import step of a journey refuses a name that is taken (its unique id),
  not one that makes the same file part: two windows that save "Orléans" and
  "Orleans" at once write over each other's files, which `name_in_use`
  (`data/map_files.py:672`) is there to prevent.  The local stops screen checks
  its data between the look at the names and the entry, whose unique id is not
  the name's, so there even equal names pass.
- `_import_missing` of an earlier bus import shows as `import_partial` on a
  later train screen (`flow/train.py:413`).
- An import starts again when a stale progress call redraws after it failed;
  with the failure then, the bus journey keeps the train's lines.
- The route screen takes the pending error before it checks the data, so a
  failure of that check loses the message.
- `_train_lines_missing` answers none when the database is locked.
- The options of a journey made are saved from what the screen opened with:
  what another window saved meanwhile is overwritten.
- `_notify_orphaned_line` (`__init__.py:268`) awaits between reading who uses
  a line and saying nobody does.

*Realtime and boards.*

- Options changed while a cycle is under way: the listener takes the stamp off
  what is shown, the cycle has its own copy and puts it back, so the old
  options' answer stays for the refresh interval (`__init__.py:460`; line 457
  says the next update reads again).
- The indexes are made through the schedule open and noted under the edition
  on disk (`data/datasource.py:197`): after a swap in between, the new file is
  noted and not looked at before its next write.
- Trip updates that cannot be read in a cycle that kept its timetable leave
  the delays of the cycle before (`coordinator.py:510`), where line 485 has
  the timetable stand alone.
- When `get_gtfs` answers "extracting" and the journal is gone an await later,
  the board is emptied for a minute (`coordinator.py:306`).
- The gate "says so until the next window opens" (`data/rt_window.py:310`)
  not on a day without service; and a reading after the close that fails is
  not made again before the morning.
- The rows of a departure query are cut in the order of service day, then
  clock, so runs of today past midnight can push out sooner ones of tomorrow.
- `has_trip_between` and the shortest ride see calls that the departure query
  leaves out, those without a time; such a call also counts as in between.
- The delays of a board are kept by trip without the day
  (`domain/realtime.py:75`, `:213`): with two runs of one trip in a feed, or
  with one that has left the board when the board lists that trip again the
  next day, a delay may be laid a day off, where line 405 says it belongs to
  its departure: `TimesAddUp` in `readings` with such a feed or such a board
  in `MCReadings` and its `PlainAssumption` left out.
- A delay written as 0 at an earlier call is carried as on time; with no
  database, every trip of a board is taken to call at the place in the order
  that the trip shown does.

## What is not modelled

- *Presentation*: attributes, labels, line lists, stations, exports, map
  files, the records written at the end of a cycle, wording and logging.  Their
  outcome is text, and the tests hold it.
- *Decoding and file formats*: protobuf, the SIRI reader (`feed/rt_local.py`),
  the bytes of `stage_zip`, SQL beyond the conditions of the departure query.
- *How rows are stored*: the key tables that interning mints, train lines held
  by codes (`_with_train_lines`), which change how rows are kept and not which
  lines are there.
- *Parts of a component modelled*: `async_adopt_kept_zip`, which gives a zip
  its record once as an entry is set up; `async_migrate_entry`, which renames
  fields of one entry alone, and the setting up of platforms; the window of
  local stops and the options of a journey made; the map of the hours and the
  validity shown; the order in which places are listed and the directions
  written into a feed that names none, heuristics over a whole line with no
  promise stated; vehicles and the boards of local stops; service calls that
  format a query modelled elsewhere.
- *Of the environment*: tasks cancelled, entries set up or removed while a
  cycle of theirs runs, a crash that leaves a journal behind, one machine's
  clock going backwards other than by summer time.

## Plan

Done, in this order: the refresh of a source and its refinement; the feed
cache; the coordinators; the entries of sources; the journeys; the nights and
the realtime window; the algorithms; the proofs above.

What would add most next:

1. `WholeEdition` and `ServedLinesStay` with flows, under the assumption that
   a zip kept is built (what would have to change in the code).
2. The vehicles and the boards of local stops beside `TripMatch`, and the
   window of local stops beside `JourneyFlow`.
3. Interning as a rewrite that keeps what is read, on the rows themselves; the
   migration steps of an entry, repeated after a stop.
4. The runs of a trip told apart by their day in `TripMatch`, so that
   `TimesAddUpAlways` need not ask of a feed and a board that they mean the same
   one (what would have to change in the code).
