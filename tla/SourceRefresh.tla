--------------------------- MODULE SourceRefresh ---------------------------
(***************************************************************************)
(* The life of one static source: its host publishes editions, scheduled   *)
(* checks look for them, refreshes download and rebuild, the config flow   *)
(* imports lines, the prune and intern services rewrite the database, and  *)
(* Home Assistant may stop at any point.  One asyncio.Lock per source      *)
(* (source_lock) stands between the writers.                               *)
(*                                                                         *)
(* A task is one run of a handler.  Its steps are cut where the code is:   *)
(* at each await of the event loop, and inside an executor job between two *)
(* accesses to files another task or a crash can come between.  The event  *)
(* loop runs one callback at a time, so a step on the loop is atomic.      *)
(***************************************************************************)
EXTENDS SourceFiles

CONSTANTS
    Checks,        \* scheduled looks: the tick and the catch-up (async_check_source)
    Users,         \* refreshes asked: service, button, update entity, Repairs fix
    Flows,         \* config flows adding lines (async_step_importing)
    Prunes,        \* prune, intern and drop-line calls, the optimise screen
    NoOne,         \* nobody holds the source's lock
    Mode,          \* the source's refresh mode, "auto" or "notify"
    Validates,     \* the host sends validators
    Whole,         \* a sensor reads the source whole (source_readers)
    Recorded,      \* the database had an installed record from the start
    FirstLines,    \* the lines the database starts with, {} for a source without one
    FirstReaders,  \* the lines sensors name at the start
    Happens,       \* what the environment may do, among the names below
    MaxFaults      \* bound: how many failures and crashes in a behaviour

Tasks == Checks \cup Users \cup Flows \cup Prunes

\* crash: Home Assistant stops; tear: a crash may empty the sidecar being
\* written; lose: the database file is removed from outside; restamp: the
\* host sends a new validator for the same bytes; sensors: sensors are
\* added on lines the database holds, or removed.
Events == {"crash", "tear", "lose", "restamp", "sensors"}

ASSUME RefreshAssumption ==
    /\ Mode \in {"auto", "notify"}
    /\ Validates \in BOOLEAN
    /\ Whole \in BOOLEAN
    /\ Recorded \in BOOLEAN
    /\ FirstLines \subseteq Carries[1]
    /\ FirstReaders \subseteq FirstLines
    /\ Happens \subseteq Events
    /\ MaxFaults \in Nat
    /\ NoOne \notin Tasks
    /\ Validates => MaxStamp > 0

VARIABLES
    host,       \* what the url answers: its edition and its validator
    zip,        \* the edition of the kept zip, <file>.zip
    zipMeta,    \* its sidecar
    dbFile,     \* <file>.sqlite: "absent", "hollow" (no trips table) or "ok"
    dbLines,    \* what it holds, line by line
    dbMeta,     \* its sidecar: what it was built from
    staging,    \* <file>.refresh.sqlite, None when there is none
    lock,       \* who holds the source's lock
    queue,      \* who waits for it, first come first served
    readers,    \* the lines the source's sensors name
    issue,      \* the Repairs issue on the source
    probe,      \* probe_state: what the last check learned
    offered,    \* how many update events were fired, by edition offered
    pc,         \* where each task stands
    loc,        \* its local variables
    faults      \* failures so far

files == <<zip, zipMeta, dbFile, dbLines, dbMeta, staging>>
zipVars == <<zip, zipMeta>>
dbVars == <<dbFile, dbLines, dbMeta, staging>>
lockVars == <<lock, queue>>
told == <<issue, probe, offered>>
vars == <<host, files, lockVars, readers, told, pc, loc, faults>>

(***************************************************************************)
(* Where a task stands.  Waiting: queued for the lock.  Holding: inside    *)
(* "async with lock", the executor job or the lines around it.             *)
(***************************************************************************)
Waiting == {"waitRefresh", "waitFetch", "waitImport", "waitPrune"}
Refreshing == {"routes", "download", "keepZip", "recordZip", "build",
               "swapLock", "swapIn", "installed", "refreshed"}
Fetching == {"fetch", "fetchKeep", "fetchRecord", "fetched"}
Importing == {"import", "create", "copyLines", "importRecord", "imported"}
Rewriting == {"copy", "rewriteLock", "rewriteIn", "rewritten"}
Holding == Refreshing \cup Fetching \cup Importing \cup Rewriting
Outside == {"idle", "done", "pending", "probe", "note", "noteWrite", "probed",
            "carry", "carryWrite", "act", "offer", "refresh", "picked",
            "entry", "askPrune"}
Steps == Waiting \cup Holding \cup Outside

\* The step a queued task goes on with once the lock is its own.
Inside == [w \in Waiting |-> CASE w = "waitRefresh" -> "routes"
                               [] w = "waitFetch" -> "fetch"
                               [] w = "waitImport" -> "import"
                               [] w = "waitPrune" -> "copy"]

Outcomes == {"none", "ok", "failed", "missing", "same", "new", "kept"}
Answers == {"unchanged", "changed", "unknown", "error"}
Labels == {None} \cup ({"validator"} \X Stamps) \cup ({"hash"} \X (Editions \cup {0}))

\* A task's locals: use_zip, the caller a refresh returns to, read_routes,
\* the lines to build, import or keep, the record downloaded, the sidecar
\* read to be written back, the probe's answer, the edition the host
\* announced, the executor job's outcome, and whether an import made the
\* database it copies into.
Locals == [useZip : BOOLEAN, caller : {"pending", "found", "user"},
           read : SUBSET Lines, want : SUBSET Lines, got : Records, noted : Records,
           answer : Answers, news : Editions, out : Outcomes, fresh : BOOLEAN]

NoLocals == [useZip |-> FALSE, caller |-> "user", read |-> {}, want |-> {},
             got |-> None, noted |-> None, answer |-> "error", news |-> 1, out |-> "none",
             fresh |-> FALSE]

\* What an update is called when nothing names it ("new version").
NewVersion == <<"hash", 0>>

NoProbe == [result |-> "error", latest |-> None, notified |-> None]

TypeOK ==
    /\ host \in [ed : Editions, stamp : Stamps]
    /\ zip \in Editions
    /\ zipMeta \in Records
    /\ dbFile \in {"absent", "hollow", "ok"}
    /\ dbLines \in Database
    /\ dbMeta \in Records
    /\ staging \in Database \cup {None}
    /\ lock \in Tasks \cup {NoOne}
    /\ queue \in Seq(Tasks)
    /\ readers \in SUBSET Lines
    /\ issue \in {"none", "failed", "missing"}
    /\ probe \in [result : Answers, latest : Labels, notified : Labels]
    /\ offered \in [Editions -> 0..2]
    /\ pc \in [Tasks -> Steps]
    /\ loc \in [Tasks -> Locals]
    /\ faults \in 0..MaxFaults

FirstRecord == [sha |-> 1, stamp |-> IF Validates THEN 1 ELSE 0]

Init ==
    /\ host = [ed |-> 1, stamp |-> FirstRecord.stamp]
    /\ zip = 1
    /\ zipMeta = FirstRecord
    /\ dbFile = IF FirstLines = {} THEN "absent" ELSE "ok"
    /\ dbLines = BuiltFrom(1, FirstLines)
    /\ dbMeta = IF Recorded THEN FirstRecord ELSE None
    /\ staging = None
    /\ lock = NoOne
    /\ queue = <<>>
    /\ readers = FirstReaders
    /\ issue = "none"
    /\ probe = NoProbe
    /\ offered = [e \in Editions |-> 0]
    /\ pc = [t \in Tasks |-> "idle"]
    /\ loc = [t \in Tasks |-> NoLocals]
    /\ faults = 0

-----------------------------------------------------------------------------
(***************************************************************************)
(* The event loop and the lock.                                            *)
(***************************************************************************)
Goto(t, step) == pc' = [pc EXCEPT ![t] = step]

\* A check comes back at its next tick; the other tasks run once.
Rest(t) == IF t \in Checks THEN "idle" ELSE "done"

\* The locals of a task that is over go with it.
Continue(t, step) ==
    /\ Goto(t, step)
    /\ loc' = IF step = Rest(t) THEN [loc EXCEPT ![t] = NoLocals] ELSE loc

Fault == faults < MaxFaults /\ faults' = faults + 1

\* "async with lock": taken at once when free with nobody waiting, queued
\* behind the others else (asyncio.Lock.acquire).  EnterAnyway is a slip:
\* the lock is not waited for.
EnterAnyway(t, wait) == lock' = t /\ Goto(t, Inside[wait]) /\ UNCHANGED queue
Enter(t, wait) ==
    IF lock = NoOne /\ queue = <<>>
    THEN /\ lock' = t
         /\ Goto(t, Inside[wait])
         /\ UNCHANGED queue
    ELSE /\ queue' = Append(queue, t)
         /\ Goto(t, wait)
         /\ UNCHANGED lock

\* The lock, let go, passes to the first that waits.
Grant ==
    /\ lock = NoOne
    /\ queue # <<>>
    /\ lock' = Head(queue)
    /\ queue' = Tail(queue)
    /\ Goto(Head(queue), Inside[pc[Head(queue)]])
    /\ UNCHANGED <<host, files, readers, told, loc, faults>>

Release(t) == lock' = IF lock = t THEN NoOne ELSE lock

\* Where the caller of a refresh goes on: a check whose kept zip was refused
\* asks the host, every other caller is over.
BackTo(t, ok) == IF loc[t].caller = "pending" /\ ~ok THEN "probe" ELSE Rest(t)

-----------------------------------------------------------------------------
(***************************************************************************)
(* async_refresh_source_data and refresh_datasource.                       *)
(***************************************************************************)

\* Dropped while another writer holds the lock; else the lines the sensors
\* name are read, on the loop, before the lock is entered.
BeginRefresh(t, fromZip, calledBy) ==
    /\ IF lock # NoOne
       THEN /\ Continue(t, IF calledBy = "pending" THEN "probe" ELSE Rest(t))
            /\ UNCHANGED lockVars
       ELSE /\ loc' = [loc EXCEPT ![t] = [NoLocals EXCEPT !.useZip = fromZip, !.caller = calledBy,
                                                          !.read = readers]]
            /\ Enter(t, "waitRefresh")
    /\ UNCHANGED <<host, files, readers, told, faults>>

Refresh(t) ==
    /\ pc[t] = "refresh"
    /\ BeginRefresh(t, loc[t].useZip, loc[t].caller)

\* The executor job is over with this outcome.  JobEndsRecorded is a slip:
\* the database is recorded as the zip whatever the refresh answered.
JobEndsRecorded(t, outcome) ==
    /\ Goto(t, "installed")
    /\ loc' = [loc EXCEPT ![t].out = outcome]
JobEnds(t, outcome) ==
    /\ Goto(t, "refreshed")
    /\ loc' = [loc EXCEPT ![t].out = outcome]

\* The lines to rebuild: those the database follows, or, when it is gone or
\* empty and not read whole, those the sensors name.
RefreshRoutes(t) ==
    /\ pc[t] = "routes"
    /\ IF dbFile = "hollow"
       THEN JobEnds(t, "failed")
       ELSE /\ Goto(t, IF loc[t].useZip THEN "build" ELSE "download")
            /\ loc' = [loc EXCEPT ![t].want =
                   IF RoutesIn(dbLines) = {} /\ ~Whole THEN loc[t].read
                   ELSE RoutesIn(dbLines)]
    /\ UNCHANGED <<host, files, lockVars, readers, told, faults>>

RefreshDownload(t) ==
    /\ pc[t] = "download"
    /\ \/ /\ Goto(t, "keepZip")
          /\ loc' = [loc EXCEPT ![t].got = [sha |-> host.ed, stamp |-> host.stamp]]
          /\ UNCHANGED faults
       \/ JobEnds(t, "failed") /\ Fault
    /\ UNCHANGED <<host, files, lockVars, readers, told>>

\* adopt_zip renames the download over the zip, then writes its sidecar.
KeepZip(t) ==
    /\ pc[t] \in {"keepZip", "fetchKeep"}
    /\ zip' = loc[t].got.sha
    /\ Goto(t, IF pc[t] = "keepZip" THEN "recordZip" ELSE "fetchRecord")
    /\ UNCHANGED <<host, zipMeta, dbVars, lockVars, readers, told, loc, faults>>

RecordZip(t) ==
    /\ pc[t] \in {"recordZip", "fetchRecord"}
    /\ zipMeta' = loc[t].got
    /\ Goto(t, IF pc[t] = "recordZip" THEN "build" ELSE "fetched")
    /\ loc' = [loc EXCEPT ![t].out = IF pc[t] = "recordZip" THEN "none" ELSE "kept"]
    /\ UNCHANGED <<host, zip, dbVars, lockVars, readers, told, faults>>

\* The lines a build asks of the new edition: all of them for a source read
\* whole or following none.
Asked(t) == IF Whole \/ loc[t].want = {} THEN Carries[zip] ELSE loc[t].want

\* The lines whose absence from the new edition refuses the swap.
\* MissingWhenAll is a slip: only an edition without any of them does.
MissingWhenAll(t) ==
    LET gone == Asked(t) \ Carries[zip] IN IF gone = loc[t].want THEN gone ELSE {}
Missing(t) ==
    LET gone == Asked(t) \ Carries[zip]
    IN  IF Whole \/ loc[t].want = {} THEN loc[t].read \ Carries[zip]
        ELSE IF gone = loc[t].want THEN gone
        ELSE gone \cap loc[t].read

\* What a build stages: what an earlier one left goes first
\* (_stale_staging_gone).  StagedOver is a slip: it stays.
StagedOver(t) ==
    [l \in Lines |-> BuiltFrom(zip, Asked(t))[l] \cup (IF staging = None THEN {} ELSE staging[l])]
Staged(t) == BuiltFrom(zip, Asked(t))

\* The new edition is unpacked and copied into the staging file, and judged.
Build(t) ==
    /\ pc[t] = "build"
    /\ \/ /\ Asked(t) # {}
          /\ Missing(t) = {}
          /\ staging' = Staged(t)
          /\ Goto(t, "swapLock")
          /\ UNCHANGED <<loc, faults>>
       \/ /\ Asked(t) # {}
          /\ Missing(t) # {}
          /\ staging' = None
          /\ JobEnds(t, "missing")
          /\ UNCHANGED faults
       \/ /\ Asked(t) = {}
          /\ staging' = None
          /\ JobEnds(t, "failed")
          /\ UNCHANGED faults
       \/ /\ staging' \in {None, staging}   \* broken or future edition, staging held
          /\ JobEnds(t, "failed")
          /\ Fault
    /\ UNCHANGED <<host, zip, zipMeta, dbFile, dbLines, dbMeta, lockVars, readers, told>>

\* swap_in connects to the real file, which makes an empty one when there
\* is none, and asks for SQLite's exclusive lock: not had in time, the
\* staging file goes and the current data stays.
SwapLock(t) ==
    /\ pc[t] \in {"swapLock", "rewriteLock"}
    /\ dbFile' = IF dbFile = "absent" THEN "hollow" ELSE dbFile
    /\ \/ /\ Goto(t, IF pc[t] = "swapLock" THEN "swapIn" ELSE "rewriteIn")
          /\ UNCHANGED <<staging, loc, faults>>
       \/ /\ Fault
          /\ staging' = None
          /\ Goto(t, IF pc[t] = "swapLock" THEN "refreshed" ELSE "rewritten")
          /\ loc' = [loc EXCEPT ![t].out = "failed"]
    /\ UNCHANGED <<host, zipVars, dbLines, dbMeta, lockVars, readers, told>>

\* One rename puts the staging file in place.
SwapIn(t) ==
    /\ pc[t] \in {"swapIn", "rewriteIn"}
    /\ IF staging = None
       THEN UNCHANGED <<dbFile, dbLines>>
       ELSE dbFile' = "ok" /\ dbLines' = staging
    /\ staging' = None
    /\ loc' = [loc EXCEPT ![t].out = IF staging = None THEN "failed" ELSE "ok"]
    /\ Goto(t, IF pc[t] = "rewriteIn" THEN "rewritten"
               ELSE IF staging = None THEN "refreshed" ELSE "installed")
    /\ UNCHANGED <<host, zipVars, dbMeta, lockVars, readers, told, faults>>

\* record_installed: the database is what the zip's sidecar says.
RecordInstalled(t) ==
    /\ pc[t] \in {"installed", "importRecord"}
    /\ dbMeta' = RecordOf(zipMeta)
    /\ Goto(t, IF pc[t] = "installed" THEN "refreshed" ELSE "imported")
    /\ UNCHANGED <<host, zipVars, dbFile, dbLines, staging, lockVars, readers, told, loc, faults>>

\* Back on the loop: the lock is let go, the outcome said as a Repairs
\* issue (async_notify_refresh), and the caller goes on.
RefreshEnd(t) ==
    /\ pc[t] = "refreshed"
    /\ Release(t)
    /\ issue' = CASE loc[t].out = "ok" -> "none"
                  [] loc[t].out = "missing" -> "missing"
                  [] OTHER -> "failed"
    /\ Continue(t, BackTo(t, loc[t].out = "ok"))
    /\ UNCHANGED <<host, files, queue, readers, probe, offered, faults>>

RefreshStep(t) ==
    \/ Refresh(t) \/ RefreshRoutes(t) \/ RefreshDownload(t) \/ KeepZip(t)
    \/ RecordZip(t) \/ Build(t) \/ SwapLock(t) \/ SwapIn(t)
    \/ RecordInstalled(t) \/ RefreshEnd(t)

\* async_rebuild_source (the button, the Repairs fix): from the kept zip
\* when it is ahead of the database, from the host else.
UserRetry(t) ==
    /\ t \in Users
    /\ pc[t] = "idle"
    /\ Goto(t, "refresh")
    /\ loc' = [loc EXCEPT ![t].useZip = Pending(dbFile, dbMeta, zipMeta),
                          ![t].caller = "user"]
    /\ UNCHANGED <<host, files, lockVars, readers, told, faults>>

\* async_update_gtfs, the update entity's install: from the host.
UserUpdate(t) ==
    /\ t \in Users
    /\ pc[t] = "idle"
    /\ BeginRefresh(t, FALSE, "user")

-----------------------------------------------------------------------------
(***************************************************************************)
(* async_check_source: one scheduled look, then what the mode says.  The   *)
(* cadence is taken as daily or faster, so every tick counts.              *)
(***************************************************************************)
CheckStart(t) ==
    /\ t \in Checks
    /\ pc[t] = "idle"
    /\ lock = NoOne
    /\ Goto(t, IF Mode = "auto" THEN "pending" ELSE "probe")
    /\ UNCHANGED <<host, files, lockVars, readers, told, loc, faults>>

\* _async_build_kept_zip: a database behind its zip is built from it first.
CheckPending(t) ==
    /\ pc[t] = "pending"
    /\ IF Pending(dbFile, dbMeta, zipMeta)
       THEN /\ Goto(t, "refresh")
            /\ loc' = [loc EXCEPT ![t] = [NoLocals EXCEPT !.useZip = TRUE, !.caller = "pending"]]
       ELSE Goto(t, "probe") /\ UNCHANGED loc
    /\ UNCHANGED <<host, files, lockVars, readers, told, faults>>

\* probe_source, in the executor, the lock not held.
CheckProbe(t) ==
    /\ pc[t] = "probe"
    /\ LET asked == zipMeta # None /\ zipMeta.stamp # 0 IN
       \/ /\ loc' = [loc EXCEPT ![t] =
                [NoLocals EXCEPT !.answer = ProbeAnswer(zipMeta, host.stamp),
                                 !.got = [sha |-> 0, stamp |-> IF asked THEN host.stamp ELSE 0],
                                 !.news = host.ed]]
          /\ Goto(t, "note")
          /\ UNCHANGED faults
       \/ /\ asked /\ Fault
          /\ loc' = [loc EXCEPT ![t] = [NoLocals EXCEPT !.got = Blank]]
          /\ Goto(t, "probed")
    /\ UNCHANGED <<host, files, lockVars, readers, told>>

\* note_checked reads the zip's sidecar...
CheckNote(t) ==
    /\ pc[t] = "note"
    /\ IF zipMeta = None
       THEN Goto(t, "probed") /\ UNCHANGED loc
       ELSE /\ Goto(t, "noteWrite")
            /\ loc' = [loc EXCEPT ![t].noted = zipMeta]
    /\ UNCHANGED <<host, files, lockVars, readers, told, faults>>

\* ...and writes it back with the time of the look.
CheckNoteWrite(t) ==
    /\ pc[t] = "noteWrite"
    /\ zipMeta' = loc[t].noted
    /\ Goto(t, "probed")
    /\ UNCHANGED <<host, zip, dbVars, lockVars, readers, told, loc, faults>>

\* The answer is kept; a feed said new, or that only its bytes can tell, is
\* downloaded under the lock unless a writer holds it.
CheckProbed(t) ==
    /\ pc[t] = "probed"
    /\ probe' = [probe EXCEPT !.result = loc[t].answer, !.latest = VersionLabel(loc[t].got)]
    /\ IF loc[t].answer \in {"changed", "unknown"} /\ lock = NoOne
       THEN Enter(t, "waitFetch") /\ UNCHANGED loc
       ELSE Continue(t, Rest(t)) /\ UNCHANGED lockVars
    /\ UNCHANGED <<host, files, readers, issue, offered, faults>>

\* fetch_if_new's keep: new bytes stay in the zip of a source that refreshes
\* itself.
Kept == Mode = "auto"

\* fetch_if_new: the hash of the download decides.  The bytes the zip holds
\* give its sidecar the host's validators; new ones are kept or only named.
Fetch(t) ==
    /\ pc[t] = "fetch"
    /\ LET fresh == [sha |-> host.ed, stamp |-> host.stamp]
           same == zipMeta # None /\ zipMeta.sha = host.ed
       IN  \/ /\ same
              /\ zipMeta' = fresh
              /\ Goto(t, "fetched")
              /\ loc' = [loc EXCEPT ![t].out = "same"]
              /\ UNCHANGED faults
           \/ /\ ~same
              /\ ~Kept
              /\ Goto(t, "fetched")
              /\ loc' = [loc EXCEPT ![t].out = "new", ![t].news = host.ed]
              /\ UNCHANGED <<zipMeta, faults>>
           \/ /\ ~same
              /\ Kept
              /\ Goto(t, "fetchKeep")
              /\ loc' = [loc EXCEPT ![t].got = fresh]
              /\ UNCHANGED <<zipMeta, faults>>
           \/ /\ Fault
              /\ Goto(t, "fetched")
              /\ loc' = [loc EXCEPT ![t].out = "failed"]
              /\ UNCHANGED zipMeta
    /\ UNCHANGED <<host, zip, dbVars, lockVars, readers, told>>

\* The lock is let go and _async_take_download reads the outcome.
Fetched(t) ==
    /\ pc[t] = "fetched"
    /\ Release(t)
    /\ LET out == loc[t].out IN
       /\ probe' = CASE out = "kept" -> [probe EXCEPT !.result = "changed"]
                     [] out = "same" -> [probe EXCEPT !.result = "unchanged"]
                     [] out = "new" /\ loc[t].answer = "unknown" ->
                          [probe EXCEPT !.result = "changed",
                                        !.latest = VersionLabel([sha |-> loc[t].news, stamp |-> 0])]
                     [] out = "new" /\ loc[t].answer # "unknown" -> [probe EXCEPT !.result = "changed"]
                     [] OTHER -> probe
       /\ Continue(t, CASE out = "kept" -> "act"
                    [] out = "same" -> "carry"
                    [] out = "new" -> "offer"
                    [] out = "failed" /\ loc[t].answer = "changed" ->
                         IF Mode = "auto" THEN "act" ELSE "offer"
                    [] OTHER -> Rest(t))
    /\ UNCHANGED <<host, files, queue, readers, issue, offered, faults>>

\* A new feed in auto mode: named from the zip's sidecar when it was kept,
\* then refreshed, from the zip if it sits there.
CheckAct(t) ==
    /\ pc[t] = "act"
    /\ loc' = [loc EXCEPT ![t].useZip = (loc[t].out = "kept"), ![t].caller = "found"]
    /\ probe' = IF loc[t].out = "kept" THEN [probe EXCEPT !.latest = VersionLabel(zipMeta)] ELSE probe
    /\ Goto(t, "refresh")
    /\ UNCHANGED <<host, files, lockVars, readers, issue, offered, faults>>

\* _carry_validators reads both sidecars...
Carry(t) ==
    /\ pc[t] = "carry"
    /\ IF SameBytes(dbMeta, zipMeta)
       THEN /\ loc' = [loc EXCEPT ![t].noted = [dbMeta EXCEPT !.stamp = zipMeta.stamp]]
            /\ Goto(t, "carryWrite")
            /\ UNCHANGED probe
       ELSE /\ probe' = [probe EXCEPT !.latest = VersionLabel(zipMeta)]
            /\ Continue(t, Rest(t))
    /\ UNCHANGED <<host, files, lockVars, readers, issue, offered, faults>>

\* ...and writes the installed record, the lock not held.
CarryWrite(t) ==
    /\ pc[t] = "carryWrite"
    /\ dbMeta' = loc[t].noted
    /\ probe' = [probe EXCEPT !.latest = VersionLabel(zipMeta)]
    /\ Continue(t, Rest(t))
    /\ UNCHANGED <<host, zipVars, dbFile, dbLines, staging, lockVars, readers, issue, offered, faults>>

\* _async_offer_update: one event per label of the version.
Offer(t) ==
    /\ pc[t] = "offer"
    /\ LET latest == IF probe.latest = None THEN NewVersion ELSE probe.latest IN
       IF probe.notified = latest
       THEN UNCHANGED <<probe, offered>>
       ELSE /\ probe' = [probe EXCEPT !.notified = latest]
            /\ offered' = [offered EXCEPT ![loc[t].news] = IF @ < 2 THEN @ + 1 ELSE @]
    /\ Continue(t, Rest(t))
    /\ UNCHANGED <<host, files, lockVars, readers, issue, faults>>

CheckStep(t) ==
    \/ CheckPending(t) \/ CheckProbe(t) \/ CheckNote(t) \/ CheckNoteWrite(t)
    \/ CheckProbed(t) \/ Fetch(t) \/ Fetched(t) \/ CheckAct(t)
    \/ Carry(t) \/ CarryWrite(t) \/ Offer(t)

-----------------------------------------------------------------------------
(***************************************************************************)
(* The config flow adds lines (async_step_importing and import_routes).    *)
(***************************************************************************)

\* Lines the zip offers and the database lacks are picked on a screen.
FlowPick(t) ==
    /\ t \in Flows
    /\ pc[t] = "idle"
    /\ dbFile # "hollow"
    /\ \E want \in SUBSET (Carries[zip] \ RoutesIn(dbLines)) \ {{}} :
          loc' = [loc EXCEPT ![t].want = want, ![t].read = want]
    /\ Goto(t, "picked")
    /\ UNCHANGED <<host, files, lockVars, readers, told, faults>>

\* The import waits for the source's lock.  FlowImportNow is a slip: it does
\* not.
FlowImportNow(t) ==
    /\ pc[t] = "picked"
    /\ Goto(t, "import")
    /\ UNCHANGED <<host, files, lockVars, readers, told, loc, faults>>
FlowImport(t) ==
    /\ pc[t] = "picked"
    /\ Enter(t, "waitImport")
    /\ UNCHANGED <<host, files, readers, told, loc, faults>>

\* The zip is unpacked into the scratch file.  With no database, that file
\* is renamed into it when it holds nothing else (take_scratch_whole), or a
\* new one is made for the lines to be copied into.
ImportBuild(t) ==
    /\ pc[t] = "import"
    /\ \/ /\ dbFile = "absent"
          /\ dbFile' = "ok"
          /\ dbLines' = BuiltFrom(zip, loc[t].want)
          /\ loc' = [loc EXCEPT ![t].want = {}, ![t].fresh = TRUE]
          /\ Goto(t, "importRecord")
          /\ UNCHANGED faults
       \/ /\ dbFile = "absent"
          /\ dbFile' = "hollow"
          /\ loc' = [loc EXCEPT ![t].fresh = TRUE]
          /\ Goto(t, "create")
          /\ UNCHANGED <<dbLines, faults>>
       \/ /\ dbFile # "absent"
          /\ Goto(t, "copyLines")
          /\ UNCHANGED <<dbFile, dbLines, loc, faults>>
       \/ /\ Fault
          /\ Goto(t, "imported")
          /\ UNCHANGED <<dbFile, dbLines, loc>>
    /\ UNCHANGED <<host, zipVars, dbMeta, staging, lockVars, readers, told>>

\* create_real_from: the schema goes in, or the half-built file is removed.
ImportCreate(t) ==
    /\ pc[t] = "create"
    /\ \/ dbFile' = "ok" /\ Goto(t, "copyLines") /\ UNCHANGED faults
       \/ dbFile' = "absent" /\ Goto(t, "imported") /\ Fault
    /\ UNCHANGED <<host, zipVars, dbLines, dbMeta, staging, lockVars, readers, told, loc>>

\* One transaction per line, rows already there ignored (copy_route); the
\* first line that fails stops the import, and a new database nothing came
\* into is removed.
ImportLine(t) ==
    /\ pc[t] = "copyLines"
    /\ \/ /\ dbFile = "ok"
          /\ \E l \in loc[t].want :
                /\ dbLines' = IF l \in Carries[zip] THEN [dbLines EXCEPT ![l] = @ \cup {zip}]
                              ELSE dbLines
                /\ loc' = [loc EXCEPT ![t].want = loc[t].want \ {l}]
                /\ Goto(t, IF loc[t].want # {l} THEN "copyLines"
                           ELSE IF loc[t].fresh THEN "importRecord" ELSE "imported")
          /\ UNCHANGED <<dbFile, faults>>
       \/ /\ (dbFile # "ok" /\ UNCHANGED faults) \/ Fault
          /\ LET nothingIn == loc[t].want = loc[t].read IN
             /\ dbFile' = IF loc[t].fresh /\ nothingIn THEN "absent" ELSE dbFile
             /\ Goto(t, IF loc[t].fresh /\ ~nothingIn THEN "importRecord" ELSE "imported")
          /\ UNCHANGED <<dbLines, loc>>
    /\ UNCHANGED <<host, zipVars, dbMeta, staging, lockVars, readers, told>>

\* The lock is let go; the flow goes on when a line came in.
Imported(t) ==
    /\ pc[t] = "imported"
    /\ Release(t)
    /\ Continue(t, IF loc[t].want # loc[t].read THEN "entry" ELSE Rest(t))
    /\ UNCHANGED <<host, files, queue, readers, told, faults>>

\* The sensor on the lines brought is set up, or the flow is abandoned.
FlowEntry(t) ==
    /\ pc[t] = "entry"
    /\ readers' \in {readers, readers \cup ((loc[t].read \ loc[t].want) \cap RoutesIn(dbLines))}
    /\ Continue(t, Rest(t))
    /\ UNCHANGED <<host, files, lockVars, told, faults>>

FlowStep(t) ==
    \/ FlowImport(t) \/ ImportBuild(t) \/ ImportCreate(t) \/ ImportLine(t)
    \/ Imported(t) \/ FlowEntry(t)

-----------------------------------------------------------------------------
(***************************************************************************)
(* The database is rewritten on a copy (on_a_copy): the prune and intern   *)
(* services, the drop-line repair, the optimise screen.                    *)
(***************************************************************************)

\* async_prune_datasources: down to the lines sensors name.
AskPrune(t) ==
    /\ readers # {}
    /\ ~Whole
    /\ loc' = [loc EXCEPT ![t].want = readers]

\* async_prune_line: every line the database holds but the one no sensor
\* reads any more.  AskDropAny is a slip: a line read again goes too.
AskDropAny(t) ==
    /\ dbFile = "ok"
    /\ \E l \in RoutesIn(dbLines) :
          loc' = [loc EXCEPT ![t].want = RoutesIn(dbLines) \ {l}, ![t].read = {l}]
AskDropLine(t) ==
    /\ ~Whole
    /\ dbFile = "ok"
    /\ \E l \in RoutesIn(dbLines) \ readers :
          /\ RoutesIn(dbLines) # {l}
          /\ loc' = [loc EXCEPT ![t].want = RoutesIn(dbLines) \ {l}, ![t].read = {l}]

\* async_intern_datasources: no line goes.
AskIntern(t) == loc' = [loc EXCEPT ![t].want = Lines]

RewriteAsk(t) ==
    /\ t \in Prunes
    /\ pc[t] = "idle"
    /\ AskPrune(t) \/ AskDropLine(t) \/ AskIntern(t)
    /\ Goto(t, "askPrune")
    /\ UNCHANGED <<host, files, lockVars, readers, told, faults>>

\* _rewrite_source: refused while a writer holds the lock.
RewriteEnter(t) ==
    /\ pc[t] = "askPrune"
    /\ IF lock # NoOne
       THEN Continue(t, Rest(t)) /\ UNCHANGED lockVars
       ELSE Enter(t, "waitPrune") /\ UNCHANGED loc
    /\ UNCHANGED <<host, files, readers, told, faults>>

\* The optimise screen's lines to keep are read first, those the flow
\* brought itself added, and its rewrite waits for the lock.
Optimise(t) ==
    /\ t \in Prunes
    /\ pc[t] = "idle"
    /\ \E brought \in SUBSET RoutesIn(dbLines) :
          LET keep == readers \cup brought IN
          loc' = [loc EXCEPT ![t].want = IF Whole \/ keep = {} THEN Lines ELSE keep]
    /\ Enter(t, "waitPrune")
    /\ UNCHANGED <<host, files, readers, told, faults>>

\* The copy is made and cut down; connecting to a database that is not
\* there makes an empty file.  Nothing is swapped when the lines kept match
\* no trip.
RewriteCopy(t) ==
    /\ pc[t] = "copy"
    /\ dbFile' = IF dbFile = "absent" THEN "hollow" ELSE dbFile
    /\ \/ /\ dbFile = "ok"
          /\ loc[t].want \cap RoutesIn(dbLines) # {}
          /\ staging' = CutTo(dbLines, loc[t].want)
          /\ Goto(t, "rewriteLock")
          /\ UNCHANGED faults
       \/ /\ dbFile # "ok" \/ loc[t].want \cap RoutesIn(dbLines) = {}
          /\ staging' = None
          /\ Goto(t, "rewritten")
          /\ UNCHANGED faults
       \/ /\ Fault
          /\ staging' = None
          /\ Goto(t, "rewritten")
    /\ UNCHANGED <<host, zipVars, dbLines, dbMeta, lockVars, readers, told, loc>>

Rewritten(t) ==
    /\ pc[t] = "rewritten"
    /\ Release(t)
    /\ Continue(t, Rest(t))
    /\ UNCHANGED <<host, files, queue, readers, told, faults>>

RewriteStep(t) == RewriteEnter(t) \/ RewriteCopy(t) \/ Rewritten(t)

-----------------------------------------------------------------------------
(***************************************************************************)
(* What happens around the integration.                                    *)
(***************************************************************************)

\* The operator publishes the next edition.
Publish ==
    /\ host.ed < MaxEdition
    /\ Validates => host.stamp < MaxStamp
    /\ host' = [ed |-> host.ed + 1, stamp |-> IF Validates THEN host.stamp + 1 ELSE 0]
    /\ UNCHANGED <<files, lockVars, readers, told, pc, loc, faults>>

\* "Some hosts stamp a fresh Last-Modified on every answer."
Restamp ==
    /\ "restamp" \in Happens
    /\ Validates /\ host.stamp < MaxStamp
    /\ host' = [host EXCEPT !.stamp = @ + 1]
    /\ UNCHANGED <<files, lockVars, readers, told, pc, loc, faults>>

\* A sensor is set up on a line the database holds, which takes no import.
AddSensor(l) ==
    /\ "sensors" \in Happens
    /\ dbFile = "ok" /\ l \in RoutesIn(dbLines) \ readers
    /\ readers' = readers \cup {l}
    /\ UNCHANGED <<host, files, lockVars, told, pc, loc, faults>>

\* The last sensor of a line is removed (async_remove_entry).
RemoveSensor(l) ==
    /\ "sensors" \in Happens
    /\ l \in readers
    /\ readers' = readers \ {l}
    /\ UNCHANGED <<host, files, lockVars, told, pc, loc, faults>>

\* The database file goes, "an error, a restore".
LoseDatabase ==
    /\ "lose" \in Happens
    /\ lock = NoOne
    /\ dbFile = "ok"
    /\ Fault
    /\ dbFile' = "absent"
    /\ dbLines' = NoLine
    /\ UNCHANGED <<host, zipVars, dbMeta, staging, lockVars, readers, told, pc, loc>>

Torn(t, steps) == "tear" \in Happens /\ pc[t] \in steps

\* Home Assistant stops: the files stay as they are, a sidecar being
\* written may be left empty, and everything in memory goes.
Crash ==
    /\ "crash" \in Happens
    /\ Fault
    /\ \/ UNCHANGED zipMeta
       \/ /\ \E t \in Tasks : Torn(t, {"recordZip", "fetchRecord", "noteWrite"})
          /\ zipMeta' = None
    /\ \/ UNCHANGED dbMeta
       \/ /\ \E t \in Tasks : Torn(t, {"installed", "importRecord", "carryWrite"})
          /\ dbMeta' = None
    /\ lock' = NoOne
    /\ queue' = <<>>
    /\ probe' = NoProbe
    /\ pc' = [t \in Tasks |-> IF pc[t] = "idle" THEN "idle" ELSE Rest(t)]
    /\ loc' = [t \in Tasks |-> NoLocals]
    /\ UNCHANGED <<host, zip, dbFile, dbLines, staging, readers, issue, offered>>

Environment ==
    \/ Publish \/ Restamp \/ LoseDatabase \/ Crash
    \/ \E l \in Lines : AddSensor(l) \/ RemoveSensor(l)

-----------------------------------------------------------------------------
Start(t) == CheckStart(t) \/ UserRetry(t) \/ UserUpdate(t) \/ FlowPick(t)
            \/ RewriteAsk(t) \/ Optimise(t)

Step(t) == CheckStep(t) \/ RefreshStep(t) \/ FlowStep(t) \/ RewriteStep(t)

Next ==
    \/ Grant
    \/ \E t \in Tasks : Start(t) \/ Step(t)
    \/ Environment

Spec == Init /\ [][Next]_vars

\* The loop and the executor run what is ready, a queued task gets the lock
\* once it is free, and the tick comes back every day.
Fairness ==
    /\ WF_vars(Grant)
    /\ \A t \in Tasks : WF_vars(Step(t))
    /\ \A t \in Checks : WF_vars(CheckStart(t))

FairSpec == Spec /\ Fairness

-----------------------------------------------------------------------------
(***************************************************************************)
(* What must hold.                                                         *)
(***************************************************************************)
Quiet == \A t \in Tasks : pc[t] \in {"idle", "done"}

\* One writer per source: no two tasks are inside the source's lock, where
\* the zip, the staging file, the database and their records are written.
OneWriter ==
    \A s, t \in Tasks : pc[s] \in Holding /\ pc[t] \in Holding => s = t

\* A sensor reads one complete edition, never a mix: every line of the
\* database came from the same download.
WholeEdition ==
    dbFile = "ok" => \E e \in Editions : \A l \in Lines : dbLines[l] \subseteq {e}

\* The installed record never claims an edition newer than what the
\* database holds, whatever crash, lost write or late write touched it: a
\* database believed newer than it is would never be built again.
NeverOverstated ==
    dbMeta # None /\ dbFile = "ok" =>
        \A l \in Lines : \A e \in dbLines[l] : dbMeta.sha <= e

\* A recorded database left behind its zip is seen: the two records differ
\* (rebuild_pending), or the zip's own record does not describe the zip, and
\* the next look at the host downloads again.
BehindIsSeen ==
    (/\ Quiet
     /\ dbMeta # None
     /\ dbFile = "ok"
     /\ \E l \in RoutesIn(dbLines) : dbLines[l] # {zip})
    => \/ Pending(dbFile, dbMeta, zipMeta)
       \/ zipMeta = None
       \/ zipMeta.sha # zip

\* A line a sensor reads keeps its timetable through every step.
ServedLinesStay ==
    [][\A l \in readers \cap readers' : dbLines[l] # {} => dbLines'[l] # {}]_vars

\* A refresh swapped in brings every line of the database that the new
\* edition still carries, those an import added while it waited included.
ImportSurvives ==
    [][\A t \in Checks \cup Users : pc[t] = "swapIn" /\ pc'[t] # "swapIn" =>
          \A l \in RoutesIn(dbLines) \cap Carries[zip] : dbLines'[l] # {}]_vars

\* With nothing failing, a check rebuilds the database only for new bytes,
\* however often the host stamps the old ones anew.
RebuildOnlyForNews ==
    [][\A t \in Checks : pc[t] = "swapIn" /\ pc'[t] = "installed" => dbLines' # dbLines]_vars

\* As BehindIsSeen, for every source, recorded or not: a zip adopted and not
\* built is told from the one the database was built from.
AheadIsPending ==
    (/\ Quiet
     /\ zipMeta # None
     /\ zipMeta.sha = zip
     /\ dbFile = "ok"
     /\ \A l \in Lines : zip \notin dbLines[l])
    => Pending(dbFile, dbMeta, zipMeta)

\* Once the host settles, an auto source follows it to its last edition, all
\* of it when a sensor reads the source whole, unless that edition lacks a
\* line a sensor reads.
CatchesUp ==
    <>[](readers \subseteq Carries[host.ed] =>
           /\ dbFile = "ok"
           /\ \A l \in RoutesIn(dbLines) \cup (IF Whole THEN Carries[host.ed] ELSE {}) :
                 dbLines[l] = {host.ed})

\* Once the host settles, a notify source has offered its last edition, or
\* holds it already.
NewsIsOffered == <>[](zip = host.ed \/ offered[host.ed] > 0)
=============================================================================
