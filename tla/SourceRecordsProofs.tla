------------------------ MODULE SourceRecordsProofs ------------------------
(***************************************************************************)
(* What the two sidecars of a source say of its zip and its database, for  *)
(* any number of tasks, lines and editions: the installed record never     *)
(* overstates the database (NeverOverstated), a database left behind its   *)
(* zip is seen (BehindIsSeen), and, with no config flow adding lines, a    *)
(* database is of one edition (WholeEdition).  One check at a time,        *)
(* nothing failing, rebuilds for new bytes only (RebuildOnlyForNews).      *)
(*                                                                         *)
(* None is inductive.  A record is read in one step and written in a later *)
(* one, so what is between the two, in the locals of every task and in the *)
(* staging file, must already agree with what the files will be then: that *)
(* is Told.  That two records with one label are of the same bytes needs,  *)
(* besides, that no validator was ever sent with two editions: StampsTell. *)
(* Both lean on the lock, by IInv.                                         *)
(***************************************************************************)
EXTENDS SourceRefreshProofs

(***************************************************************************)
(* What the records say of the files.                                      *)
(***************************************************************************)
Upto(db, n) == \A l \in Lines : \A e \in db[l] : e <= n
From(db, n) == \A l \in Lines : \A e \in db[l] : n <= e
Only(db, n) == \A l \in Lines : db[l] \subseteq {n}

\* A staging file is on its way over the database.
Swapping == {"swapLock", "swapIn", "rewriteLock", "rewriteIn"}
Staging(t) == pc[t] \in Swapping /\ staging # None

\* What the database holds, and may hold once the staging file is in, is at
\* least this edition.
Floor(n) ==
    /\ n <= zip
    /\ From(dbLines, n)
    /\ \A t \in Tasks : Staging(t) => From(staging, n)

FilesTold ==
    /\ zip <= host.ed
    /\ zipMeta # None => zipMeta.sha <= zip
    /\ Upto(dbLines, zip)
    /\ dbFile # "ok" => dbLines = NoLine
    /\ dbMeta # None => Floor(dbMeta.sha)

\* What a task at each step knows of the files, having left its locals and
\* them in accord.
Unstarted == {"idle", "picked", "waitImport", "import"}
Asking == {"picked", "waitImport", "import", "create", "copyLines"}
Knows(t) ==
    /\ pc[t] \in {"keepZip", "fetchKeep"} => zip <= loc[t].got.sha /\ loc[t].got.sha <= host.ed
    /\ pc[t] \in {"recordZip", "fetchRecord"} => loc[t].got.sha = zip
    /\ pc[t] = "noteWrite" => loc[t].noted # None /\ loc[t].noted.sha <= zip
    /\ pc[t] = "carryWrite" => loc[t].noted # None /\ Floor(loc[t].noted.sha)
    /\ Staging(t) => Upto(staging, zip)
    /\ Staging(t) /\ pc[t] \in {"swapLock", "swapIn"} => Only(staging, zip)
    /\ pc[t] \in {"installed", "importRecord"} => Only(dbLines, zip)
    /\ pc[t] \in Unstarted => ~loc[t].fresh
    /\ pc[t] \in Asking => loc[t].want \subseteq loc[t].read
    /\ pc[t] = "create" => dbLines = NoLine
    /\ pc[t] = "copyLines" /\ loc[t].fresh =>
          Only(dbLines, zip) /\ (loc[t].want = loc[t].read => dbLines = NoLine)

Told == FilesTold /\ \A t \in Tasks : Knows(t)

(***************************************************************************)
(* A validator names one edition, among all the records that are kept or   *)
(* about to be.                                                            *)
(***************************************************************************)
Noting == {"noteWrite", "carryWrite"}
Held(r) ==
    /\ r # None
    /\ \/ r = zipMeta \/ r = dbMeta
       \/ \E t \in Tasks : pc[t] \in Adopting /\ r = loc[t].got
       \/ \E t \in Tasks : pc[t] \in Noting /\ r = loc[t].noted

StampsTell ==
    /\ Validates \/ host.stamp = 0
    /\ \A r \in Records : Held(r) =>
          /\ r.stamp <= host.stamp
          /\ r.stamp = host.stamp /\ r.stamp # 0 => r.sha = host.ed
    /\ \A q, r \in Records :
          Held(q) /\ Held(r) /\ q.stamp = r.stamp /\ q.stamp # 0 => q.sha = r.sha

(***************************************************************************)
(* Without a config flow at work, every database is of one edition.        *)
(***************************************************************************)
OneEdition(db) == \E e \in Editions : Only(db, e)
Unmixed ==
    /\ OneEdition(dbLines)
    /\ \A t \in Tasks : Staging(t) => OneEdition(staging)
    /\ \A t \in Tasks : pc[t] \notin Asking

-----------------------------------------------------------------------------
(* What is read from databases.                                            *)

LEMMA BuiltOnly ==
    ASSUME NEW e \in Editions, NEW asked \in SUBSET Lines
    PROVE  /\ Only(BuiltFrom(e, asked), e)
           /\ Upto(BuiltFrom(e, asked), e)
           /\ \A n \in Nat : n <= e => From(BuiltFrom(e, asked), n)
BY DEF Only, Upto, From, BuiltFrom, Editions

LEMMA CutInside ==
    ASSUME NEW db \in Database, NEW kept
    PROVE  /\ \A n \in Nat : Upto(db, n) => Upto(CutTo(db, kept), n)
           /\ \A n \in Nat : From(db, n) => From(CutTo(db, kept), n)
           /\ OneEdition(db) => OneEdition(CutTo(db, kept))
BY DEF Only, Upto, From, CutTo, Database, OneEdition

LEMMA NoLineAgrees ==
    ASSUME NEW n \in Nat
    PROVE  Only(NoLine, n) /\ Upto(NoLine, n) /\ From(NoLine, n)
BY DEF Only, Upto, From, NoLine

LEMMA OnlyIsUptoAndFrom ==
    ASSUME NEW db, NEW e \in Editions, Only(db, e)
    PROVE  Upto(db, e) /\ \A n \in Nat : n <= e => From(db, n)
BY DEF Only, Upto, From, Editions

LEMMA FileTypes ==
    ASSUME TypeOK
    PROVE  /\ zip \in Editions /\ zip \in Nat
           /\ host.ed \in Editions /\ host.ed \in Nat /\ host.stamp \in Nat
           /\ dbLines \in Database
           /\ zipMeta # None => zipMeta \in Record /\ zipMeta.sha \in Nat
           /\ dbMeta # None => dbMeta \in Record /\ dbMeta.sha \in Nat
BY DEF TypeOK, Records, Record, Editions, Stamps

(* The task that holds the lock is alone past it.                          *)
LEMMA OthersOutside ==
    ASSUME IInv, NEW t \in Tasks, pc[t] \in Holding, NEW s \in Tasks, s # t
    PROVE  pc[s] \notin Holding
BY DEF IInv, LockHeld

LEMMA HoldingSteps ==
    /\ Swapping \subseteq Holding
    /\ {"keepZip", "fetchKeep", "recordZip", "fetchRecord", "installed", "importRecord",
        "create", "copyLines", "import"} \subseteq Holding
    /\ {"noteWrite", "carryWrite", "idle", "picked"} \subseteq Outside
BY DEF Swapping, Holding, Refreshing, Fetching, Importing, Rewriting, Outside

-----------------------------------------------------------------------------
(* The steps that write no file.                                           *)

\* Steps a task at knows nothing of the files.
Plain == Steps \ ({"keepZip", "fetchKeep", "recordZip", "fetchRecord", "installed",
                   "importRecord"} \cup Noting \cup Swapping \cup Unstarted \cup Asking)

\* The step moves t alone, and writes no file.
OthersStay(t) == \A s \in Tasks : s # t => loc'[s] = loc[s]
Moves(t, step) == Goto(t, step) /\ OthersStay(t) /\ UNCHANGED files /\ host' = host

LEMMA MoveTold ==
    ASSUME IInv, Told, NEW t \in Tasks, NEW step \in Steps, Moves(t, step),
           step \in Swapping => pc[t] \in Swapping,
           Knows(t)'
    PROVE  Told'
<1>1. /\ pc' = [pc EXCEPT ![t] = step] /\ pc \in [Tasks -> Steps]
      /\ UNCHANGED <<host, zip, zipMeta, dbFile, dbLines, dbMeta, staging>>
      /\ \A s \in Tasks : s # t => loc'[s] = loc[s] /\ pc'[s] = pc[s]
  BY DEF IInv, TypeOK, Moves, Goto, OthersStay, files
<1>2. \A s \in Tasks : Staging(s)' => Staging(s)
  BY <1>1 DEF Staging
<1>3. \A n \in Nat : Floor(n) => Floor(n)'
  BY <1>1, <1>2 DEF Floor, From
<1>4. FilesTold'
  <2>1. dbMeta # None => Floor(dbMeta.sha)'
    BY <1>1, <1>3, FileTypes DEF Told, FilesTold, IInv
  <2>2. QED
    BY <1>1, <2>1 DEF Told, FilesTold, Upto
<1>5. ASSUME NEW s \in Tasks, s # t
      PROVE  Knows(s)'
  <2>1. loc[s].noted # None => loc[s].noted.sha \in Nat
    BY LocTypes DEF IInv, Records, Record, Editions
  <2>2. QED
    BY <1>1, <1>2, <1>3, <1>5, <2>1 DEF Told, Knows, Upto, Only, Staging
<1>6. QED
  BY <1>4, <1>5 DEF Told

LEMMA PlainKnows ==
    ASSUME IInv, NEW t \in Tasks, NEW step, Goto(t, step), step \in Plain
    PROVE  Knows(t)'
<1>1. pc'[t] = step
  BY DEF Goto, IInv, TypeOK
<1>2. QED
  BY <1>1 DEF Knows, Plain, Swapping, Staging, Noting, Unstarted, Asking

LEMMA PlainTold ==
    ASSUME IInv, Told, NEW t \in Tasks, NEW step \in Plain, Moves(t, step)
    PROVE  Told'
<1>1. step \in Steps /\ step \notin Swapping
  BY DEF Plain
<1>2. QED
  BY <1>1, MoveTold, PlainKnows DEF Moves

\* A step of t alone that writes no file, and goes where nothing is claimed
\* of the files, or ends the task.
Leaves(t) ==
    /\ OthersStay(t) /\ UNCHANGED files /\ host' = host
    /\ \/ \E step \in Plain : Goto(t, step)
       \/ Goto(t, Rest(t)) /\ loc'[t] = NoLocals

LEMMA LeavesTold ==
    ASSUME IInv, Told, NEW t \in Tasks, Leaves(t)
    PROVE  Told'
<1>1. CASE \E step \in Plain : Goto(t, step)
  BY <1>1, PlainTold DEF Moves, Leaves
<1>2. CASE Goto(t, Rest(t)) /\ loc'[t] = NoLocals
  <2>1. loc'[t] = NoLocals /\ pc'[t] = Rest(t)
    BY <1>2 DEF Goto, IInv, TypeOK
  <2>2. Knows(t)'
    BY <2>1 DEF Knows, Rest, NoLocals, Swapping, Staging, Unstarted, Asking
  <2>3. Rest(t) \in Steps /\ Rest(t) \notin Swapping
    BY RestType DEF Rest, Swapping
  <2>4. QED
    BY <1>2, <2>2, <2>3, MoveTold DEF Moves, Leaves
<1>3. QED
  BY <1>1, <1>2 DEF Leaves

LEMMA PlainSteps ==
    {"routes", "download", "build", "refreshed", "fetch", "fetched", "imported", "copy",
     "rewritten", "done", "pending", "probe", "note", "probed", "carry", "act", "offer",
     "refresh", "entry", "askPrune", "waitRefresh", "waitFetch", "waitPrune"} \subseteq Plain
BY StepsHold DEF Plain, Noting, Swapping, Unstarted, Asking

LEMMA ContinueLeaves ==
    ASSUME IInv, NEW t \in Tasks, NEW step \in Plain \cup {Rest(t)}, Continue(t, step),
           UNCHANGED files, host' = host
    PROVE  Leaves(t)
BY DEF Continue, Leaves, OthersStay, IInv, TypeOK

LEMMA EnterLeaves ==
    ASSUME IInv, NEW t \in Tasks, NEW wait \in {"waitRefresh", "waitFetch", "waitPrune"},
           Enter(t, wait), OthersStay(t), UNCHANGED files, host' = host
    PROVE  Leaves(t)
<1>1. Inside[wait] \in {"routes", "fetch", "copy"}
  BY DEF Inside, Waiting
<1>2. QED
  BY <1>1, PlainSteps DEF Enter, Leaves

LEMMA BeginRefreshLeaves ==
    ASSUME IInv, NEW t \in Tasks, NEW fromZip, NEW calledBy, BeginRefresh(t, fromZip, calledBy)
    PROVE  Leaves(t)
<1>1. CASE lock # NoOne
  BY <1>1, ContinueLeaves, PlainSteps DEF BeginRefresh
<1>2. CASE lock = NoOne
  <2>1. OthersStay(t)
    BY <1>2 DEF BeginRefresh, OthersStay, IInv, TypeOK
  <2>2. QED
    BY <1>2, <2>1, EnterLeaves DEF BeginRefresh
<1>3. QED
  BY <1>1, <1>2

LEMMA GoingOnLeaves ==
    ASSUME IInv, NEW t \in Tasks,
           \/ RefreshRoutes(t) \/ UserRetry(t) \/ CheckStart(t) \/ CheckPending(t)
           \/ CheckProbe(t) \/ CheckAct(t) \/ RewriteAsk(t)
    PROVE  Leaves(t)
<1>1. OthersStay(t) /\ UNCHANGED files /\ host' = host
  BY DEF OthersStay, IInv, TypeOK, RefreshRoutes, UserRetry, CheckStart, CheckPending,
         CheckProbe, CheckAct, RewriteAsk, AskPrune, AskDropLine, AskIntern, JobEnds
<1>2. \E step \in Plain : Goto(t, step)
  BY PlainSteps DEF RefreshRoutes, UserRetry, CheckStart, CheckPending, CheckProbe, CheckAct,
                    RewriteAsk, JobEnds
<1>3. QED
  BY <1>1, <1>2 DEF Leaves

LEMMA EndingLeaves ==
    ASSUME IInv, NEW t \in Tasks,
           RefreshEnd(t) \/ Fetched(t) \/ Offer(t) \/ Imported(t) \/ FlowEntry(t) \/ Rewritten(t)
    PROVE  Leaves(t)
<1>1. UNCHANGED files /\ host' = host
  BY DEF RefreshEnd, Fetched, Offer, Imported, FlowEntry, Rewritten
<1>2. PICK step \in Plain \cup {Rest(t)} : Continue(t, step)
  BY PlainSteps DEF RefreshEnd, BackTo, Fetched, Offer, Imported, FlowEntry, Rewritten
<1>3. QED
  BY <1>1, <1>2, ContinueLeaves

LEMMA EnteringLeaves ==
    ASSUME IInv, NEW t \in Tasks, CheckProbed(t) \/ RewriteEnter(t) \/ Optimise(t)
    PROVE  Leaves(t)
<1>1. UNCHANGED files /\ host' = host
  BY DEF CheckProbed, RewriteEnter, Optimise
<1>2. \/ Continue(t, Rest(t))
      \/ OthersStay(t) /\ \E wait \in {"waitRefresh", "waitFetch", "waitPrune"} : Enter(t, wait)
  BY DEF CheckProbed, RewriteEnter, Optimise, OthersStay, IInv, TypeOK
<1>3. QED
  BY <1>1, <1>2, ContinueLeaves, EnterLeaves

\* Every step that neither writes a file nor claims anything.
Leaving(t) ==
    \/ Refresh(t) \/ RefreshRoutes(t) \/ RefreshEnd(t) \/ UserRetry(t) \/ UserUpdate(t)
    \/ CheckStart(t) \/ CheckPending(t) \/ CheckProbe(t) \/ CheckProbed(t) \/ Fetched(t)
    \/ CheckAct(t) \/ Offer(t) \/ Imported(t) \/ FlowEntry(t)
    \/ RewriteAsk(t) \/ RewriteEnter(t) \/ Optimise(t) \/ Rewritten(t)

LEMMA LeavingLeaves ==
    ASSUME IInv, NEW t \in Tasks, Leaving(t)
    PROVE  Leaves(t)
BY BeginRefreshLeaves, GoingOnLeaves, EndingLeaves, EnteringLeaves
   DEF Leaving, Refresh, UserUpdate

LEMMA GrantTold ==
    ASSUME IInv, Told, Grant
    PROVE  Told'
<1>1. PICK h \in Tasks : h = Head(queue) /\ pc[h] \in Waiting
  BY DEF Grant, IInv, TypeOK, LockHeld
<1>2. PICK step : step = Inside[pc[h]]
  OBVIOUS
<1>3. Moves(h, step) /\ loc' = loc
  BY <1>1, <1>2 DEF Grant, Moves, OthersStay, Goto
<1>4. CASE pc[h] # "waitImport"
  <2>1. step \in {"routes", "fetch", "copy"}
    BY <1>1, <1>2, <1>4 DEF Inside, Waiting
  <2>2. QED
    BY <1>3, <2>1, PlainSteps, PlainTold
<1>5. CASE pc[h] = "waitImport"
  <2>1. step = "import" /\ pc'[h] = "import"
    BY <1>2, <1>3, <1>5 DEF Inside, Waiting, Moves, Goto, IInv, TypeOK
  <2>2. Knows(h)'
    BY <1>3, <1>5, <2>1 DEF Told, Knows, Swapping, Staging, Unstarted, Asking
  <2>3. "import" \in Steps /\ "import" \notin Swapping
    BY StepsHold DEF Swapping
  <2>4. QED
    BY <1>3, <2>1, <2>2, <2>3, MoveTold
<1>6. QED
  BY <1>4, <1>5

(* The steps that write nothing, and go where something is claimed.        *)
LEMMA RefreshDownloadTold ==
    ASSUME IInv, Told, NEW t \in Tasks, RefreshDownload(t)
    PROVE  Told'
<1>1. CASE pc'[t] # "keepZip"
  <2>1. Moves(t, "refreshed")
    BY <1>1 DEF RefreshDownload, JobEnds, Moves, OthersStay, Goto, IInv, TypeOK
  <2>2. QED
    BY <2>1, PlainSteps, PlainTold
<1>2. CASE pc'[t] = "keepZip"
  <2>1. /\ Goto(t, "keepZip")
        /\ loc' = [loc EXCEPT ![t].got = [sha |-> host.ed, stamp |-> host.stamp]]
    BY <1>2 DEF RefreshDownload, JobEnds, Goto, IInv, TypeOK
  <2>2. loc'[t].got.sha = host.ed
    BY <2>1, LocTypes DEF IInv, TypeOK, Locals
  <2>3. Knows(t)'
    BY <1>2, <2>2, FileTypes DEF Told, FilesTold, Knows, Swapping, Staging, Unstarted, Asking,
                                 RefreshDownload, files, IInv
  <2>4. OthersStay(t) /\ "keepZip" \in Steps /\ "keepZip" \notin Swapping
    BY <2>1, StepsHold DEF OthersStay, IInv, TypeOK, Swapping
  <2>5. QED
    BY <2>1, <2>3, <2>4, MoveTold DEF Moves, RefreshDownload
<1>3. QED
  BY <1>1, <1>2

LEMMA CheckNoteTold ==
    ASSUME IInv, Told, NEW t \in Tasks, CheckNote(t)
    PROVE  Told'
<1>1. OthersStay(t)
  BY DEF CheckNote, OthersStay, IInv, TypeOK
<1>2. CASE zipMeta = None
  BY <1>1, <1>2, PlainSteps, PlainTold DEF CheckNote, Moves
<1>3. CASE zipMeta # None
  <2>1. Goto(t, "noteWrite") /\ loc'[t].noted = zipMeta /\ pc'[t] = "noteWrite"
    BY <1>3, LocTypes DEF CheckNote, Goto, IInv, TypeOK, Locals
  <2>2. Knows(t)'
    BY <1>3, <2>1 DEF Told, FilesTold, Knows, Swapping, Staging, Unstarted, Asking,
                      CheckNote, files
  <2>3. "noteWrite" \in Steps /\ "noteWrite" \notin Swapping
    BY StepsHold DEF Swapping
  <2>4. QED
    BY <1>1, <2>1, <2>2, <2>3, MoveTold DEF Moves, CheckNote
<1>4. QED
  BY <1>2, <1>3

LEMMA CarryTold ==
    ASSUME IInv, Told, NEW t \in Tasks, Carry(t)
    PROVE  Told'
<1>1. CASE ~SameBytes(dbMeta, zipMeta)
  BY <1>1, ContinueLeaves, LeavesTold DEF Carry
<1>2. CASE SameBytes(dbMeta, zipMeta)
  <2>1. /\ dbMeta # None /\ Goto(t, "carryWrite") /\ pc'[t] = "carryWrite"
        /\ loc'[t].noted = [dbMeta EXCEPT !.stamp = zipMeta.stamp]
        /\ OthersStay(t) /\ UNCHANGED files /\ host' = host
    BY <1>2, LocTypes DEF Carry, Goto, OthersStay, IInv, TypeOK, Locals, SameBytes
  <2>2. loc'[t].noted \in Record /\ loc'[t].noted.sha = dbMeta.sha
    BY <1>2, <2>1, FileTypes DEF IInv, Record, SameBytes
  <2>3. loc'[t].noted # None
    BY <2>2, FilesAssumption DEF Record
  <2>4. Floor(dbMeta.sha)
    BY <2>1 DEF Told, FilesTold
  <2>5. \A s \in Tasks : Staging(s)' => Staging(s)
    BY <2>1 DEF Staging, Goto, IInv, TypeOK, Swapping, files
  <2>6. Knows(t)'
    BY <2>1, <2>2, <2>3, <2>4, <2>5
       DEF Knows, Floor, From, Swapping, Staging, Unstarted, Asking, files
  <2>7. "carryWrite" \in Steps /\ "carryWrite" \notin Swapping
    BY StepsHold DEF Swapping
  <2>8. QED
    BY <2>1, <2>6, <2>7, MoveTold DEF Moves
<1>3. QED
  BY <1>1, <1>2

LEMMA FlowPickTold ==
    ASSUME IInv, Told, NEW t \in Tasks, FlowPick(t)
    PROVE  Told'
<1>1. PICK want \in SUBSET Lines : loc' = [loc EXCEPT ![t].want = want, ![t].read = want]
  <2>1. Carries[zip] \ RoutesIn(dbLines) \subseteq Lines
    BY FilesAssumption DEF IInv, TypeOK
  <2>2. QED
    BY <2>1 DEF FlowPick
<1>2. /\ loc'[t].want = want /\ loc'[t].read = want /\ loc'[t].fresh = loc[t].fresh
      /\ OthersStay(t)
  BY <1>1 DEF OthersStay, IInv, TypeOK, Locals
<1>3. Goto(t, "picked") /\ pc'[t] = "picked"
  BY DEF FlowPick, Goto, IInv, TypeOK
<1>4. Knows(t)'
  BY <1>2, <1>3 DEF FlowPick, Told, Knows, Swapping, Staging, Unstarted, Asking
<1>5. "picked" \in Steps /\ "picked" \notin Swapping
  BY StepsHold DEF Swapping
<1>6. QED
  BY <1>2, <1>3, <1>4, <1>5, MoveTold DEF Moves, FlowPick

LEMMA FlowImportTold ==
    ASSUME IInv, Told, NEW t \in Tasks, FlowImport(t)
    PROVE  Told'
<1>1. PICK step \in {"waitImport", "import"} : Goto(t, step)
  BY DEF FlowImport, Enter, Inside, Waiting
<1>2. pc'[t] = step /\ loc' = loc
  BY <1>1 DEF FlowImport, Goto, IInv, TypeOK
<1>3. Knows(t)'
  BY <1>2 DEF FlowImport, Told, Knows, Swapping, Staging, Unstarted, Asking
<1>4. step \in Steps /\ step \notin Swapping
  BY StepsHold DEF Swapping
<1>5. QED
  BY <1>1, <1>2, <1>3, <1>4, MoveTold DEF Moves, FlowImport, OthersStay

-----------------------------------------------------------------------------
(* Told: the steps that write a file under the lock.                       *)

\* The task moves from a step the lock is held at; no other is under it.
Works(t, step) == Goto(t, step) /\ OthersStay(t) /\ host' = host /\ pc[t] \in Holding

\* Where only the holder swaps, an edition stays a floor as long as the
\* database, and what is to be swapped in, stay above it.
LEMMA HolderFloor ==
    ASSUME IInv, NEW t \in Tasks, NEW step, Works(t, step), NEW n,
           n <= zip', From(dbLines', n), Staging(t)' => From(staging', n)
    PROVE  Floor(n)'
<1>1. \A s \in Tasks : s # t => ~Staging(s)'
  BY OthersOutside, HoldingSteps DEF Works, Goto, IInv, TypeOK, Staging
<1>2. QED
  BY <1>1 DEF Floor, From

LEMMA HolderTold ==
    ASSUME IInv, Told, NEW t \in Tasks, NEW step, Works(t, step),
           zip' \in Nat, zip <= zip', zip' <= host.ed,
           zipMeta' # None => zipMeta'.sha <= zip',
           Upto(dbLines', zip'),
           dbFile' # "ok" => dbLines' = NoLine,
           \A n \in Nat : Floor(n) => Floor(n)',
           dbMeta' = dbMeta \/ (dbMeta # None => Floor(dbMeta.sha))',
           Knows(t)'
    PROVE  Told'
<1>1. FilesTold'
  <2>1. (dbMeta # None => Floor(dbMeta.sha))'
    <3>1. CASE dbMeta' = dbMeta
      <4>1. dbMeta # None => Floor(dbMeta.sha) /\ dbMeta.sha \in Nat
        BY FileTypes DEF Told, FilesTold, IInv
      <4>2. ASSUME dbMeta # None PROVE Floor(dbMeta.sha)'
        <5>1. PICK n \in Nat : n = dbMeta.sha /\ Floor(n)
          BY <4>1, <4>2
        <5>2. Floor(n)' /\ dbMeta'.sha = n
          BY <3>1, <5>1
        <5>3. QED
          BY <5>2 DEF Floor, From
      <4>3. QED
        BY <3>1, <4>2
    <3>2. QED
      BY <3>1
  <2>2. QED
    BY <2>1 DEF FilesTold, Works, Upto
<1>2. ASSUME NEW s \in Tasks, s # t
      PROVE  Knows(s)'
  <2>1. pc'[s] = pc[s] /\ loc'[s] = loc[s] /\ pc[s] \notin Holding
    BY <1>2, OthersOutside DEF Works, Goto, OthersStay, IInv, TypeOK
  <2>2. pc'[s] = "noteWrite" => loc'[s].noted # None /\ loc'[s].noted.sha <= zip'
    <3>1. ASSUME pc[s] = "noteWrite" PROVE loc[s].noted # None /\ loc[s].noted.sha <= zip
      BY <3>1 DEF Told, Knows
    <3>2. loc[s].noted # None => loc[s].noted.sha \in Nat
      BY LocTypes DEF IInv, Records, Record, Editions
    <3>3. QED
      BY <2>1, <3>1, <3>2, FileTypes DEF IInv
  <2>3. pc'[s] = "carryWrite" => loc'[s].noted # None /\ Floor(loc[s].noted.sha)'
    <3>1. SUFFICES ASSUME pc[s] = "carryWrite"
                   PROVE  loc[s].noted # None /\ Floor(loc[s].noted.sha)'
      BY <2>1
    <3>2. loc[s].noted # None /\ Floor(loc[s].noted.sha)
      BY <3>1 DEF Told, Knows
    <3>3. PICK n \in Nat : n = loc[s].noted.sha /\ Floor(n)
      BY <3>2, LocTypes DEF IInv, Records, Record, Editions
    <3>4. Floor(n)' /\ loc'[s].noted.sha = n
      BY <2>1, <3>3
    <3>5. QED
      BY <3>2, <3>4 DEF Floor, From
  <2>4. pc'[s] \in Unstarted => ~loc'[s].fresh
    BY <2>1 DEF Told, Knows
  <2>5. pc'[s] \in Asking => loc'[s].want \subseteq loc'[s].read
    BY <2>1 DEF Told, Knows
  <2>6. QED
    BY <2>1, <2>2, <2>3, <2>4, <2>5, HoldingSteps DEF Knows, Staging
<1>3. QED
  BY <1>1, <1>2 DEF Told

LEMMA KeepZipTold ==
    ASSUME IInv, Told, NEW t \in Tasks, KeepZip(t)
    PROVE  Told'
<1>1. PICK step \in {"recordZip", "fetchRecord"} : Goto(t, step)
  BY DEF KeepZip
<1>2. Works(t, step) /\ pc'[t] = step /\ loc' = loc /\ zip' = loc[t].got.sha
      /\ UNCHANGED <<zipMeta, dbFile, dbLines, dbMeta, staging>>
  BY <1>1, HoldingSteps DEF KeepZip, Works, OthersStay, Goto, IInv, TypeOK, dbVars
<1>3. zip' \in Nat /\ zip <= zip' /\ zip' <= host.ed
  <2>1. zip <= loc[t].got.sha /\ loc[t].got.sha <= host.ed
    BY DEF KeepZip, Told, Knows
  <2>2. loc[t].got.sha \in Editions
    BY DEF KeepZip, IInv, DownloadHeld, Adopting
  <2>3. QED
    BY <1>2, <2>1, <2>2 DEF Editions
<1>4. \A n \in Nat : Floor(n) => Floor(n)'
  <2>1. ~Staging(t)'
    BY <1>2 DEF Staging, Swapping
  <2>2. \A n \in Nat : Floor(n) => n <= zip' /\ From(dbLines', n)
    BY <1>2, <1>3, FileTypes DEF Floor, IInv
  <2>3. QED
    BY <1>2, <2>1, <2>2, HolderFloor
<1>5. Knows(t)'
  BY <1>2 DEF Knows, Swapping, Staging, Unstarted, Asking
<1>6. zipMeta' # None => zipMeta'.sha <= zip'
  BY <1>2, <1>3, FileTypes DEF Told, FilesTold, IInv
<1>7. Upto(dbLines', zip')
  <2>1. \A l \in Lines : \A e \in dbLines[l] : e \in Nat
    BY FileTypes DEF Database, Editions, IInv
  <2>2. QED
    BY <1>2, <1>3, <2>1, FileTypes DEF Told, FilesTold, IInv, Upto
<1>8. QED
  BY <1>2, <1>3, <1>4, <1>5, <1>6, <1>7, HolderTold DEF Told, FilesTold

\* A step under the lock that writes no more than the zip's sidecar.
LEMMA ZipMetaTold ==
    ASSUME IInv, Told, NEW t \in Tasks, NEW step \in Plain, Works(t, step),
           zipMeta' # None => zipMeta'.sha <= zip,
           UNCHANGED <<zip, dbFile, dbLines, dbMeta, staging>>
    PROVE  Told'
<1>1. pc'[t] = step /\ ~Staging(t)' /\ Knows(t)'
  BY PlainKnows DEF Works, Goto, IInv, TypeOK, Plain, Staging
<1>2. \A n \in Nat : Floor(n) => Floor(n)'
  BY <1>1, HolderFloor DEF Floor
<1>3. QED
  BY <1>1, <1>2, FileTypes, HolderTold DEF Told, FilesTold, IInv

LEMMA RecordZipTold ==
    ASSUME IInv, Told, NEW t \in Tasks, RecordZip(t)
    PROVE  Told'
<1>1. PICK step \in {"build", "fetched"} : Goto(t, step)
  BY DEF RecordZip
<1>2. Works(t, step) /\ step \in Plain
  BY <1>1, HoldingSteps, PlainSteps DEF RecordZip, Works, OthersStay, IInv, TypeOK
<1>3. zipMeta'.sha = zip
  BY DEF RecordZip, Told, Knows
<1>4. QED
  BY <1>2, <1>3, FileTypes, ZipMetaTold DEF RecordZip, dbVars, IInv

LEMMA FetchTold ==
    ASSUME IInv, Told, NEW t \in Tasks, Fetch(t)
    PROVE  Told'
<1>1. OthersStay(t) /\ host' = host /\ pc[t] \in Holding /\ UNCHANGED <<zip, dbVars>>
  BY DEF Fetch, OthersStay, IInv, TypeOK, Holding, Fetching
<1>2. CASE pc'[t] # "fetchKeep"
  <2>1. Works(t, "fetched") /\ "fetched" \in Plain
    BY <1>1, <1>2, PlainSteps DEF Fetch, Works, Goto, IInv, TypeOK
  <2>2. zipMeta' # None => zipMeta'.sha <= zip
    BY DEF Fetch, Told, FilesTold
  <2>3. QED
    BY <1>1, <2>1, <2>2, ZipMetaTold DEF dbVars
<1>3. CASE pc'[t] = "fetchKeep"
  <2>1. /\ Goto(t, "fetchKeep") /\ zipMeta' = zipMeta
        /\ loc' = [loc EXCEPT ![t].got = [sha |-> host.ed, stamp |-> host.stamp]]
    BY <1>3 DEF Fetch, Goto, IInv, TypeOK
  <2>2. loc'[t].got.sha = host.ed
    BY <2>1, LocTypes DEF IInv, TypeOK, Locals
  <2>3. Knows(t)'
    BY <1>1, <1>3, <2>2, FileTypes DEF Told, FilesTold, Knows, Swapping, Staging, Unstarted,
                                       Asking, IInv
  <2>4. "fetchKeep" \in Steps /\ "fetchKeep" \notin Swapping
    BY StepsHold DEF Swapping
  <2>5. QED
    BY <1>1, <2>1, <2>3, <2>4, MoveTold DEF Moves, files, dbVars
<1>4. QED
  BY <1>2, <1>3

LEMMA BuildTold ==
    ASSUME IInv, Told, NEW t \in Tasks, Build(t)
    PROVE  Told'
<1>1. PICK step \in {"swapLock", "refreshed"} : Goto(t, step)
  BY DEF Build, JobEnds
<1>2. /\ Works(t, step) /\ pc'[t] = step
      /\ UNCHANGED <<host, zip, zipMeta, dbFile, dbLines, dbMeta>>
  BY <1>1 DEF Build, JobEnds, Works, OthersStay, Goto, IInv, TypeOK, Holding, Refreshing
<1>3. Staging(t)' => staging' = Staged(t)
  BY <1>2 DEF Build, JobEnds, Staging, Swapping, Goto, IInv, TypeOK
<1>4. Asked(t) \in SUBSET Lines
  BY LocTypes, FilesAssumption DEF Asked, IInv, TypeOK
<1>5. /\ Only(Staged(t), zip) /\ Upto(Staged(t), zip)
      /\ \A n \in Nat : n <= zip => From(Staged(t), n)
  BY <1>4, BuiltOnly, FileTypes DEF Staged, IInv
<1>6. \A n \in Nat : Floor(n) => Floor(n)'
  <2>1. \A n \in Nat : Floor(n) => n <= zip' /\ From(dbLines', n)
                                   /\ (Staging(t)' => From(staging', n))
    BY <1>2, <1>3, <1>5 DEF Floor, From
  <2>2. QED
    BY <1>2, <2>1, HolderFloor
<1>7. Knows(t)'
  BY <1>2, <1>3, <1>5 DEF Knows, Unstarted, Asking, Only, Upto
<1>8. QED
  BY <1>2, <1>6, <1>7, FileTypes, HolderTold DEF Told, FilesTold, IInv

LEMMA SwapLockTold ==
    ASSUME IInv, Told, NEW t \in Tasks, SwapLock(t)
    PROVE  Told'
<1>1. PICK step \in {"swapIn", "rewriteIn", "refreshed", "rewritten"} : Goto(t, step)
  BY DEF SwapLock
<1>2. /\ Works(t, step) /\ pc'[t] = step
      /\ UNCHANGED <<host, zip, zipMeta, dbLines, dbMeta>>
      /\ dbFile' # "ok" => dbFile # "ok"
  BY <1>1 DEF SwapLock, Works, OthersStay, Goto, IInv, TypeOK, Holding, Refreshing, Rewriting,
              zipVars
<1>3. Staging(t)' => /\ Staging(t) /\ staging' = staging
                     /\ pc'[t] = "swapIn" => pc[t] = "swapLock"
  BY <1>2 DEF SwapLock, Staging, Swapping, Goto, IInv, TypeOK
<1>4. \A n \in Nat : Floor(n) => Floor(n)'
  <2>1. \A n \in Nat : Floor(n) => n <= zip' /\ From(dbLines', n)
                                   /\ (Staging(t)' => From(staging', n))
    BY <1>2, <1>3 DEF Floor, From
  <2>2. QED
    BY <1>2, <2>1, HolderFloor
<1>5. Knows(t)'
  BY <1>2, <1>3 DEF Told, Knows, Unstarted, Asking, Only, Upto
<1>6. QED
  BY <1>2, <1>4, <1>5, FileTypes, HolderTold DEF Told, FilesTold, IInv

LEMMA SwapInTold ==
    ASSUME IInv, Told, NEW t \in Tasks, SwapIn(t)
    PROVE  Told'
<1>1. PICK step \in {"rewritten", "refreshed", "installed"} : Goto(t, step)
  BY DEF SwapIn
<1>2. /\ Works(t, step) /\ pc'[t] = step /\ ~Staging(t)'
      /\ UNCHANGED <<host, zip, zipMeta, dbMeta>>
  BY <1>1 DEF SwapIn, Works, OthersStay, Goto, IInv, TypeOK, Holding, Refreshing, Rewriting,
              zipVars, Staging
<1>3. CASE staging = None
  <2>1. UNCHANGED <<dbFile, dbLines>> /\ step \in Plain
    BY <1>1, <1>2, <1>3, PlainSteps DEF SwapIn, Goto, IInv, TypeOK
  <2>2. \A n \in Nat : Floor(n) => Floor(n)'
    BY <1>2, <2>1, HolderFloor DEF Floor
  <2>3. Knows(t)'
    BY <1>1, <2>1, PlainKnows
  <2>4. QED
    BY <1>2, <2>1, <2>2, <2>3, FileTypes, HolderTold DEF Told, FilesTold, IInv
<1>4. CASE staging # None
  <2>1. dbFile' = "ok" /\ dbLines' = staging /\ Staging(t)
    BY <1>4 DEF SwapIn, Staging, Swapping
  <2>2. Upto(dbLines', zip) /\ (pc[t] = "swapIn" => Only(dbLines', zip))
    BY <2>1 DEF Told, Knows
  <2>3. \A n \in Nat : Floor(n) => Floor(n)'
    <3>1. \A n \in Nat : Floor(n) => n <= zip' /\ From(dbLines', n)
      BY <1>2, <2>1 DEF Floor
    <3>2. QED
      BY <1>2, <3>1, HolderFloor
  <2>4. pc'[t] = "installed" => pc[t] = "swapIn"
    BY <1>2 DEF SwapIn, Goto, IInv, TypeOK
  <2>5. Knows(t)'
    BY <1>2, <2>2, <2>4 DEF Knows, Unstarted, Asking, Only
  <2>6. QED
    BY <1>2, <2>1, <2>2, <2>3, <2>5, FileTypes, HolderTold DEF Told, FilesTold, IInv
<1>5. QED
  BY <1>3, <1>4

LEMMA RecordInstalledTold ==
    ASSUME IInv, Told, NEW t \in Tasks, RecordInstalled(t)
    PROVE  Told'
<1>1. PICK step \in {"refreshed", "imported"} : Goto(t, step)
  BY DEF RecordInstalled
<1>2. /\ Works(t, step) /\ pc'[t] = step /\ step \in Plain /\ ~Staging(t)'
      /\ UNCHANGED <<host, zip, zipMeta, dbFile, dbLines, staging>>
      /\ dbMeta' = RecordOf(zipMeta)
  BY <1>1, PlainSteps DEF RecordInstalled, Works, OthersStay, Goto, IInv, TypeOK, Holding,
     Refreshing, Importing, zipVars, Staging, Swapping
<1>3. \A n \in Nat : Floor(n) => Floor(n)'
  BY <1>2, HolderFloor DEF Floor
<1>4. Knows(t)'
  BY <1>1, <1>2, PlainKnows
<1>5. (dbMeta # None => Floor(dbMeta.sha))'
  <2>1. dbMeta'.sha \in Nat /\ dbMeta'.sha <= zip
    BY <1>2, FileTypes DEF RecordOf, Blank, Told, FilesTold, IInv
  <2>2. Only(dbLines, zip)
    BY DEF RecordInstalled, Told, Knows
  <2>3. From(dbLines, dbMeta'.sha)
    BY <2>1, <2>2, FileTypes, OnlyIsUptoAndFrom DEF IInv
  <2>4. PICK n \in Nat : n = dbMeta'.sha
    BY <2>1
  <2>5. Floor(n)'
    BY <1>2, <2>1, <2>3, <2>4, HolderFloor
  <2>6. QED
    BY <2>4, <2>5 DEF Floor, From
<1>6. QED
  BY <1>2, <1>3, <1>4, <1>5, FileTypes, HolderTold DEF Told, FilesTold, IInv

LEMMA RewriteCopyTold ==
    ASSUME IInv, Told, NEW t \in Tasks, RewriteCopy(t)
    PROVE  Told'
<1>1. PICK step \in {"rewriteLock", "rewritten"} : Goto(t, step)
  BY DEF RewriteCopy
<1>2. /\ Works(t, step) /\ pc'[t] = step
      /\ UNCHANGED <<host, zip, zipMeta, dbLines, dbMeta>>
      /\ dbFile' # "ok" => dbFile # "ok"
  BY <1>1 DEF RewriteCopy, Works, OthersStay, Goto, IInv, TypeOK, Holding, Rewriting, zipVars
<1>3. Staging(t)' => staging' = CutTo(dbLines, loc[t].want)
  BY <1>2 DEF RewriteCopy, Staging, Swapping, Goto, IInv, TypeOK
<1>4. /\ Upto(CutTo(dbLines, loc[t].want), zip)
      /\ \A n \in Nat : From(dbLines, n) => From(CutTo(dbLines, loc[t].want), n)
  BY CutInside, FileTypes DEF Told, FilesTold, IInv
<1>5. \A n \in Nat : Floor(n) => Floor(n)'
  <2>1. \A n \in Nat : Floor(n) => n <= zip' /\ From(dbLines', n)
                                   /\ (Staging(t)' => From(staging', n))
    BY <1>2, <1>3, <1>4 DEF Floor, From
  <2>2. QED
    BY <1>2, <2>1, HolderFloor
<1>6. Knows(t)'
  BY <1>2, <1>3, <1>4 DEF Knows, Unstarted, Asking, Upto
<1>7. QED
  BY <1>2, <1>5, <1>6, FileTypes, HolderTold DEF Told, FilesTold, IInv

LEMMA ImportBuildTold ==
    ASSUME IInv, Told, NEW t \in Tasks, ImportBuild(t)
    PROVE  Told'
<1>1. PICK step \in {"importRecord", "create", "copyLines", "imported"} : Goto(t, step)
  BY DEF ImportBuild
<1>2. /\ Works(t, step) /\ pc'[t] = step /\ ~Staging(t)'
      /\ UNCHANGED <<host, zip, zipMeta, dbMeta, staging>>
  BY <1>1 DEF ImportBuild, Works, OthersStay, Goto, IInv, TypeOK, Holding, Importing, zipVars,
              Staging, Swapping
<1>3. loc[t].want \in SUBSET Lines /\ ~loc[t].fresh /\ loc[t].want \subseteq loc[t].read
  BY LocTypes DEF ImportBuild, IInv, Told, Knows, Unstarted, Asking
<1>4. \/ /\ step = "importRecord"
         /\ dbFile' = "ok" /\ dbLines' = BuiltFrom(zip, loc[t].want)
      \/ /\ dbLines' = dbLines
         /\ dbFile' # "ok" => dbFile # "ok"
         /\ step # "importRecord"
         /\ step = "create" => dbFile = "absent"
         /\ step = "copyLines" => loc' = loc
         /\ step = "create" => loc'[t].want = loc[t].want /\ loc'[t].read = loc[t].read
  BY <1>2, LocTypes DEF ImportBuild, Goto, IInv, TypeOK, Locals
<1>5. CASE /\ step = "importRecord"
           /\ dbFile' = "ok" /\ dbLines' = BuiltFrom(zip, loc[t].want)
  <2>1. /\ Only(dbLines', zip) /\ Upto(dbLines', zip)
        /\ \A n \in Nat : n <= zip => From(dbLines', n)
    BY <1>3, <1>5, BuiltOnly, FileTypes DEF IInv
  <2>2. \A n \in Nat : Floor(n) => Floor(n)'
    <3>1. \A n \in Nat : Floor(n) => n <= zip' /\ From(dbLines', n)
      BY <1>2, <2>1 DEF Floor
    <3>2. QED
      BY <1>2, <3>1, HolderFloor
  <2>3. Knows(t)'
    BY <1>2, <1>5, <2>1 DEF Knows, Unstarted, Asking, Only
  <2>4. QED
    BY <1>2, <1>5, <2>1, <2>2, <2>3, FileTypes, HolderTold DEF Told, FilesTold, IInv
<1>6. CASE /\ dbLines' = dbLines
           /\ dbFile' # "ok" => dbFile # "ok"
           /\ step # "importRecord"
           /\ step = "create" => dbFile = "absent"
           /\ step = "copyLines" => loc' = loc
           /\ step = "create" => loc'[t].want = loc[t].want /\ loc'[t].read = loc[t].read
  <2>1. \A n \in Nat : Floor(n) => Floor(n)'
    BY <1>2, <1>6, HolderFloor DEF Floor
  <2>2. Knows(t)'
    <3>1. step \in {"create", "copyLines", "imported"}
      BY <1>1, <1>6
    <3>2. step = "create" => dbLines' = NoLine
      BY <1>6 DEF Told, FilesTold
    <3>3. QED
      BY <1>2, <1>3, <1>6, <3>1, <3>2 DEF Knows, Unstarted, Asking
  <2>3. QED
    BY <1>2, <1>6, <2>1, <2>2, FileTypes, HolderTold DEF Told, FilesTold, IInv
<1>7. QED
  BY <1>4, <1>5, <1>6

LEMMA ImportCreateTold ==
    ASSUME IInv, Told, NEW t \in Tasks, ImportCreate(t)
    PROVE  Told'
<1>1. PICK step \in {"copyLines", "imported"} : Goto(t, step)
  BY DEF ImportCreate
<1>2. /\ Works(t, step) /\ pc'[t] = step /\ ~Staging(t)' /\ loc' = loc
      /\ UNCHANGED <<host, zip, zipMeta, dbLines, dbMeta, staging>>
  BY <1>1 DEF ImportCreate, Works, OthersStay, Goto, IInv, TypeOK, Holding, Importing, zipVars,
              Staging, Swapping
<1>3. dbLines = NoLine /\ loc[t].want \subseteq loc[t].read
  BY DEF ImportCreate, Told, Knows, Asking
<1>4. \A n \in Nat : Floor(n) => Floor(n)'
  BY <1>2, HolderFloor DEF Floor
<1>5. Knows(t)'
  BY <1>1, <1>2, <1>3, NoLineAgrees, FileTypes DEF Knows, Unstarted, IInv
<1>6. QED
  BY <1>2, <1>3, <1>4, <1>5, FileTypes, HolderTold DEF Told, FilesTold, IInv

LEMMA ImportLineTold ==
    ASSUME IInv, Told, NEW t \in Tasks, ImportLine(t)
    PROVE  Told'
<1>1. PICK step \in {"copyLines", "importRecord", "imported"} : Goto(t, step)
  BY DEF ImportLine
<1>2. /\ Works(t, step) /\ pc'[t] = step /\ ~Staging(t)' /\ pc[t] = "copyLines"
      /\ UNCHANGED <<host, zip, zipMeta, dbMeta, staging>>
  <2>1. OthersStay(t)
    BY DEF ImportLine, OthersStay, IInv, TypeOK
  <2>2. QED
    BY <1>1, <2>1 DEF ImportLine, Works, Goto, IInv, TypeOK, Holding, Importing, zipVars,
                      Staging, Swapping
<1>3. /\ loc[t].want \subseteq loc[t].read
      /\ loc[t].fresh => Only(dbLines, zip) /\ (loc[t].want = loc[t].read => dbLines = NoLine)
  BY <1>2 DEF Told, Knows, Asking
<1>4. CASE UNCHANGED <<dbLines, loc>>
  <2>1. dbFile' # "ok" => dbLines' = NoLine
    BY <1>3, <1>4 DEF ImportLine, Told, FilesTold
  <2>2. \A n \in Nat : Floor(n) => Floor(n)'
    BY <1>2, <1>4, HolderFloor DEF Floor
  <2>3. step = "importRecord" => loc[t].fresh
    BY <1>2 DEF ImportLine, Goto, IInv, TypeOK
  <2>4. Knows(t)'
    BY <1>1, <1>2, <1>3, <1>4, <2>3 DEF Knows, Unstarted
  <2>5. QED
    BY <1>2, <1>4, <2>1, <2>2, <2>4, FileTypes, HolderTold DEF Told, FilesTold, IInv
<1>5. CASE ~UNCHANGED <<dbLines, loc>>
  <2>1. PICK l \in loc[t].want :
          /\ dbFile = "ok" /\ dbFile' = dbFile
          /\ dbLines' = IF l \in Carries[zip] THEN [dbLines EXCEPT ![l] = @ \cup {zip}]
                        ELSE dbLines
          /\ loc' = [loc EXCEPT ![t].want = loc[t].want \ {l}]
          /\ step = "importRecord" => loc[t].fresh
    BY <1>2, <1>5 DEF ImportLine, Goto, IInv, TypeOK
  <2>2. \A m \in Lines : dbLines'[m] \subseteq dbLines[m] \cup {zip}
    BY <2>1, FileTypes DEF Database, IInv
  <2>3. Upto(dbLines', zip)
    BY <2>2, FileTypes DEF Upto, Told, FilesTold, IInv
  <2>4. \A n \in Nat : Floor(n) => Floor(n)'
    <3>1. \A n \in Nat : Floor(n) => n <= zip' /\ From(dbLines', n)
      BY <1>2, <2>2 DEF Floor, From
    <3>2. QED
      BY <1>2, <3>1, HolderFloor
  <2>5. /\ loc'[t].want = loc[t].want \ {l} /\ loc'[t].read = loc[t].read
        /\ loc'[t].fresh = loc[t].fresh
    BY <2>1, LocTypes DEF IInv, TypeOK, Locals
  <2>6. loc'[t].want \subseteq loc'[t].read /\ loc'[t].want # loc'[t].read
    BY <1>3, <2>5
  <2>7. loc[t].fresh => Only(dbLines', zip)
    BY <1>3, <2>2 DEF Only
  <2>8. Knows(t)'
    BY <1>1, <1>2, <2>1, <2>5, <2>6, <2>7 DEF Knows, Unstarted, Only
  <2>9. dbFile' # "ok" => dbLines' = NoLine
    BY <2>1
  <2>10. QED
    BY <1>2, <2>3, <2>4, <2>8, <2>9, FileTypes, HolderTold DEF Told, FilesTold, IInv
<1>6. QED
  BY <1>4, <1>5

-----------------------------------------------------------------------------
(* Told: the sidecars written off the lock, and the environment.           *)

LEMMA NoteWriteTold ==
    ASSUME IInv, Told, NEW t \in Tasks, CheckNoteWrite(t)
    PROVE  Told'
<1>1. /\ pc' = [pc EXCEPT ![t] = "probed"] /\ pc \in [Tasks -> Steps] /\ loc' = loc
      /\ UNCHANGED <<host, zip, dbFile, dbLines, dbMeta, staging>>
  BY DEF CheckNoteWrite, Goto, IInv, TypeOK, dbVars
<1>2. zipMeta' # None => zipMeta'.sha <= zip
  BY DEF CheckNoteWrite, Told, Knows
<1>3. \A s \in Tasks : Staging(s)' <=> Staging(s)
  BY <1>1 DEF CheckNoteWrite, Staging, Swapping
<1>4. \A n : Floor(n) => Floor(n)'
  BY <1>1, <1>3 DEF Floor, From
<1>5. FilesTold'
  BY <1>1, <1>2, <1>3 DEF Told, FilesTold, Floor, From, Upto
<1>6. ASSUME NEW s \in Tasks
      PROVE  Knows(s)'
  <2>1. CASE s = t
    BY <1>1, <2>1 DEF Knows, Staging, Swapping, Unstarted, Asking
  <2>2. CASE s # t
    <3>1. pc'[s] = pc[s] /\ loc'[s] = loc[s] /\ Knows(s)
      BY <1>1, <2>2 DEF Told
    <3>2. QED
      BY <1>1, <1>3, <3>1 DEF Knows, Floor, From, Upto, Only
  <2>3. QED
    BY <2>1, <2>2
<1>7. QED
  BY <1>5, <1>6 DEF Told

LEMMA CarryWriteTold ==
    ASSUME IInv, Told, NEW t \in Tasks, CarryWrite(t)
    PROVE  Told'
<1>1. /\ pc' = [pc EXCEPT ![t] = Rest(t)] /\ pc \in [Tasks -> Steps]
      /\ loc' = [loc EXCEPT ![t] = NoLocals] /\ loc \in [Tasks -> Locals]
      /\ dbMeta' = loc[t].noted
      /\ UNCHANGED <<host, zip, zipMeta, dbFile, dbLines, staging>>
  BY DEF CarryWrite, Continue, Goto, IInv, TypeOK, zipVars
<1>2. \A s \in Tasks : Staging(s)' <=> Staging(s)
  BY <1>1 DEF CarryWrite, Staging, Swapping, Rest
<1>3. Floor(loc[t].noted.sha)
  BY DEF CarryWrite, Told, Knows
<1>4. FilesTold'
  BY <1>1, <1>2, <1>3 DEF Told, FilesTold, Floor, From, Upto
<1>5. ASSUME NEW s \in Tasks
      PROVE  Knows(s)'
  <2>1. CASE s = t
    <3>1. pc'[s] \in {"idle", "done"} /\ loc'[s] = NoLocals
      BY <1>1, <2>1 DEF Rest
    <3>2. QED
      BY <3>1 DEF Knows, Staging, Swapping, Unstarted, Asking, NoLocals
  <2>2. CASE s # t
    <3>1. pc'[s] = pc[s] /\ loc'[s] = loc[s] /\ Knows(s)
      BY <1>1, <2>2 DEF Told
    <3>2. QED
      BY <1>1, <1>2, <3>1 DEF Knows, Floor, From, Upto, Only
  <2>3. QED
    BY <2>1, <2>2
<1>6. QED
  BY <1>4, <1>5 DEF Told

LEMMA PublishTold ==
    ASSUME IInv, Told, Publish \/ Restamp
    PROVE  Told'
<1>1. /\ host'.ed >= host.ed /\ host'.ed \in Nat
      /\ UNCHANGED <<zip, zipMeta, dbFile, dbLines, dbMeta, staging, pc, loc>>
  BY FileTypes DEF Publish, Restamp, files, IInv, TypeOK
<1>2. \A t \in Tasks : pc[t] \in {"keepZip", "fetchKeep"} => loc[t].got.sha \in Nat
  BY DEF IInv, DownloadHeld, Adopting, Editions
<1>3. FilesTold'
  BY <1>1, FileTypes DEF Told, FilesTold, Floor, From, Upto, Staging, IInv
<1>4. ASSUME NEW t \in Tasks
      PROVE  Knows(t)'
  BY <1>1, <1>2, FileTypes DEF Told, Knows, Floor, From, Upto, Only, Staging, IInv
<1>5. QED
  BY <1>3, <1>4 DEF Told

LEMMA LoseDatabaseTold ==
    ASSUME IInv, Told, LoseDatabase
    PROVE  Told'
<1>1. /\ dbFile' = "absent" /\ dbLines' = NoLine
      /\ UNCHANGED <<host, zip, zipMeta, dbMeta, staging, pc, loc>>
      /\ \A t \in Tasks : pc[t] \notin Holding
  BY RefreshAssumption DEF LoseDatabase, zipVars, IInv, LockHeld
<1>2. \A n : From(NoLine, n) /\ Upto(NoLine, n)
  BY DEF From, Upto, NoLine
<1>3. FilesTold'
  BY <1>1, <1>2 DEF Told, FilesTold, Floor, Staging, From
<1>4. ASSUME NEW t \in Tasks
      PROVE  Knows(t)'
  BY <1>1, <1>2, HoldingSteps DEF Told, Knows, Floor, Staging, From
<1>5. QED
  BY <1>3, <1>4 DEF Told

LEMMA CrashTold ==
    ASSUME IInv, Told, Crash
    PROVE  Told'
<1>1. /\ UNCHANGED <<host, zip, dbFile, dbLines, staging>>
      /\ zipMeta' \in {zipMeta, None} /\ dbMeta' \in {dbMeta, None}
      /\ \A t \in Tasks : pc'[t] \in {"idle", "done"} /\ loc'[t] = NoLocals
  BY DEF Crash, Rest
<1>2. \A t \in Tasks : Knows(t)' /\ ~Staging(t)'
  BY <1>1 DEF Knows, Staging, Swapping, Unstarted, Asking, NoLocals
<1>3. FilesTold'
  BY <1>1, <1>2 DEF Told, FilesTold, Floor, From, Upto
<1>4. QED
  BY <1>2, <1>3 DEF Told

LEMMA SensorsTold ==
    ASSUME IInv, Told, UNCHANGED <<host, files, pc, loc>>
    PROVE  Told'
BY DEF Told, FilesTold, Knows, Floor, From, Upto, Only, Staging, files

-----------------------------------------------------------------------------
(* StampsTell.                                                             *)

\* A record that may be kept: one already is, or is to be; or the host just
\* sent it; or it says nothing.
Sent == [sha |-> host.ed, stamp |-> host.stamp]
Sound(r) == Held(r) \/ r = Sent \/ r = Blank

LEMMA SoundTell ==
    ASSUME IInv, StampsTell, host' = host, \A r \in Record : Held(r)' => Sound(r)
    PROVE  StampsTell'
<1>1. \A r \in Record : Sound(r) => /\ r.stamp <= host.stamp
                                    /\ r.stamp = host.stamp /\ r.stamp # 0 => r.sha = host.ed
  BY FileTypes DEF StampsTell, Sound, Sent, Blank, Records, Record, IInv
<1>2. \A q, r \in Record :
         Sound(q) /\ Sound(r) /\ q.stamp = r.stamp /\ q.stamp # 0 => q.sha = r.sha
  <2>1. \A r \in Record : Sound(r) /\ r.stamp # 0 => Held(r) \/ r = Sent
    BY DEF Sound, Blank
  <2>2. \A q, r \in Record : Held(q) /\ Held(r) /\ q.stamp = r.stamp /\ q.stamp # 0 => q.sha = r.sha
    BY DEF StampsTell, Records
  <2>3. \A r \in Record : r = Sent => r.stamp = host.stamp /\ r.sha = host.ed
    BY DEF Sent
  <2>4. QED
    BY <1>1, <2>1, <2>2, <2>3
<1>3. \A r \in Records : Held(r)' => r \in Record
  BY DEF Held, Records
<1>4. QED
  BY <1>1, <1>2, <1>3 DEF StampsTell

\* The records written, and those t is to write, are sound.
LEMMA HeldMove ==
    ASSUME IInv, NEW t \in Tasks, NEW step, Goto(t, step), OthersStay(t),
           \A r \in Record :
              \/ r = zipMeta' \/ r = dbMeta'
              \/ step \in Adopting /\ r = loc'[t].got
              \/ step \in Noting /\ r = loc'[t].noted
              => Sound(r)
    PROVE  \A r \in Record : Held(r)' => Sound(r)
<1>1. pc' = [pc EXCEPT ![t] = step] /\ pc \in [Tasks -> Steps]
  BY DEF Goto, IInv, TypeOK
<1>2. \A s \in Tasks : s # t => pc'[s] = pc[s] /\ loc'[s] = loc[s]
  BY <1>1 DEF OthersStay
<1>3. pc'[t] = step
  BY <1>1
<1>4. ASSUME NEW r \in Record, Held(r)'
      PROVE  Sound(r)
  <2>1. r # None
    BY FilesAssumption DEF Record
  <2>2. CASE r = zipMeta' \/ r = dbMeta'
    BY <2>2
  <2>3. CASE \E s \in Tasks : pc'[s] \in Adopting /\ r = loc'[s].got
    BY <1>2, <1>3, <2>1, <2>3 DEF Sound, Held
  <2>4. CASE \E s \in Tasks : pc'[s] \in Noting /\ r = loc'[s].noted
    BY <1>2, <1>3, <2>1, <2>4 DEF Sound, Held
  <2>5. QED
    BY <1>4, <2>2, <2>3, <2>4 DEF Held
<1>5. QED
  BY <1>4

LEMMA KeptSound ==
    \A r \in Record : r = zipMeta \/ r = dbMeta => Sound(r)
BY FilesAssumption DEF Sound, Held, Record

\* A step that writes no sidecar and claims no record.
LEMMA LeavesStamps ==
    ASSUME IInv, StampsTell, NEW t \in Tasks, NEW step, Goto(t, step), OthersStay(t),
           UNCHANGED <<host, zipMeta, dbMeta>>, step \notin Adopting \cup Noting
    PROVE  StampsTell'
BY KeptSound, HeldMove, SoundTell

LEMMA PlainStamps ==
    /\ Plain \cap (Adopting \cup Noting) = {}
    /\ \A t : Rest(t) \notin Adopting \cup Noting
BY DEF Plain, Adopting, Noting, Rest

LEMMA LeavingStamps ==
    ASSUME IInv, StampsTell, NEW t \in Tasks, Leaving(t)
    PROVE  StampsTell'
BY LeavingLeaves, LeavesStamps, PlainStamps DEF Leaves, files

LEMMA GrantStamps ==
    ASSUME IInv, StampsTell, Grant
    PROVE  StampsTell'
<1>1. PICK h \in Tasks : h = Head(queue) /\ pc[h] \in Waiting
  BY DEF Grant, IInv, TypeOK, LockHeld
<1>2. PICK step : step = Inside[pc[h]]
  OBVIOUS
<1>3. step \notin Adopting \cup Noting
  BY <1>1, <1>2, StepKinds DEF Noting, Holding, Refreshing, Fetching, Importing, Rewriting
<1>4. Goto(h, step) /\ OthersStay(h) /\ UNCHANGED <<host, zipMeta, dbMeta>>
  BY <1>1, <1>2 DEF Grant, OthersStay, files
<1>5. QED
  BY <1>3, <1>4, LeavesStamps

\* The steps on the files that write no sidecar.
LEMMA FilesStamps ==
    ASSUME IInv, StampsTell, NEW t \in Tasks,
           \/ Build(t) \/ SwapLock(t) \/ SwapIn(t) \/ RewriteCopy(t)
           \/ FlowPick(t) \/ FlowImport(t) \/ ImportBuild(t) \/ ImportCreate(t) \/ ImportLine(t)
    PROVE  StampsTell'
<1>1. OthersStay(t) /\ UNCHANGED <<host, zipMeta, dbMeta>>
  BY DEF OthersStay, IInv, TypeOK, Build, SwapLock, SwapIn, RewriteCopy, FlowPick, FlowImport,
         ImportBuild, ImportCreate, ImportLine, JobEnds, files, zipVars
<1>2. \E step : Goto(t, step) /\ step \notin Adopting \cup Noting
  BY DEF Build, SwapLock, SwapIn, RewriteCopy, FlowPick, FlowImport, Enter, Inside, Waiting,
         ImportBuild, ImportCreate, ImportLine, JobEnds, Adopting, Noting
<1>3. QED
  BY <1>1, <1>2, LeavesStamps

\* The host's answer, to be adopted.
LEMMA SentStamps ==
    ASSUME IInv, StampsTell, NEW t \in Tasks, NEW step, Goto(t, step), step \notin Noting,
           loc' = [loc EXCEPT ![t].got = Sent], UNCHANGED <<host, zipMeta, dbMeta>>
    PROVE  StampsTell'
<1>1. OthersStay(t) /\ loc'[t].got = Sent
  BY LocTypes DEF OthersStay, IInv, TypeOK, Locals
<1>2. \A r \in Record : r = Sent => Sound(r)
  BY DEF Sound
<1>3. QED
  BY <1>1, <1>2, KeptSound, HeldMove, SoundTell

LEMMA DownloadStamps ==
    ASSUME IInv, StampsTell, NEW t \in Tasks, RefreshDownload(t)
    PROVE  StampsTell'
<1>1. CASE pc'[t] = "keepZip"
  <2>1. Goto(t, "keepZip") /\ loc' = [loc EXCEPT ![t].got = Sent]
    BY <1>1 DEF RefreshDownload, JobEnds, Goto, IInv, TypeOK, Sent
  <2>2. QED
    BY <2>1, SentStamps DEF RefreshDownload, files, Noting
<1>2. CASE pc'[t] # "keepZip"
  <2>1. Goto(t, "refreshed") /\ OthersStay(t)
    BY <1>2 DEF RefreshDownload, JobEnds, Goto, OthersStay, IInv, TypeOK
  <2>2. QED
    BY <2>1, LeavesStamps, PlainStamps, PlainSteps DEF RefreshDownload, files
<1>3. QED
  BY <1>1, <1>2

LEMMA FetchStamps ==
    ASSUME IInv, StampsTell, NEW t \in Tasks, Fetch(t)
    PROVE  StampsTell'
<1>1. host' = host /\ dbMeta' = dbMeta /\ OthersStay(t)
  BY DEF Fetch, dbVars, OthersStay, IInv, TypeOK
<1>2. CASE pc'[t] = "fetchKeep"
  <2>1. Goto(t, "fetchKeep") /\ loc' = [loc EXCEPT ![t].got = Sent] /\ zipMeta' = zipMeta
    BY <1>2 DEF Fetch, Goto, IInv, TypeOK, Sent
  <2>2. QED
    BY <1>1, <2>1, SentStamps DEF Noting
<1>3. CASE pc'[t] # "fetchKeep"
  <2>1. Goto(t, "fetched") /\ zipMeta' \in {zipMeta, Sent}
    BY <1>3 DEF Fetch, Goto, IInv, TypeOK, Sent
  <2>2. "fetched" \notin Adopting \cup Noting
    BY DEF Adopting, Noting
  <2>3. \A r \in Record : r = Sent => Sound(r)
    BY DEF Sound
  <2>4. \A r \in Record : r = zipMeta' \/ r = dbMeta' => Sound(r)
    BY <1>1, <2>1, <2>3, KeptSound
  <2>5. QED
    BY <1>1, <2>1, <2>2, <2>4, HeldMove, SoundTell
<1>4. QED
  BY <1>2, <1>3

LEMMA KeepZipStamps ==
    ASSUME IInv, StampsTell, NEW t \in Tasks, KeepZip(t)
    PROVE  StampsTell'
<1>1. /\ pc[t] \in Adopting /\ loc' = loc /\ OthersStay(t)
      /\ UNCHANGED <<host, zipMeta, dbMeta>>
  BY DEF KeepZip, Adopting, OthersStay, dbVars
<1>2. PICK step : Goto(t, step) /\ step \notin Noting
  BY DEF KeepZip, Noting
<1>3. \A r \in Record : r = loc'[t].got => Sound(r)
  BY <1>1, FilesAssumption DEF Sound, Held, Record
<1>4. QED
  BY <1>1, <1>2, <1>3, KeptSound, HeldMove, SoundTell

LEMMA RecordZipStamps ==
    ASSUME IInv, StampsTell, NEW t \in Tasks, RecordZip(t)
    PROVE  StampsTell'
<1>1. /\ pc[t] \in Adopting /\ OthersStay(t) /\ zipMeta' = loc[t].got
      /\ UNCHANGED <<host, dbMeta>>
  BY DEF RecordZip, Adopting, OthersStay, dbVars, IInv, TypeOK
<1>2. PICK step : Goto(t, step) /\ step \notin Adopting \cup Noting
  BY DEF RecordZip, Noting, Adopting
<1>3. \A r \in Record : r = zipMeta' \/ r = dbMeta' => Sound(r)
  BY <1>1, KeptSound, FilesAssumption DEF Sound, Held, Record
<1>4. QED
  BY <1>1, <1>2, <1>3, HeldMove, SoundTell

LEMMA RecordInstalledStamps ==
    ASSUME IInv, StampsTell, NEW t \in Tasks, RecordInstalled(t)
    PROVE  StampsTell'
<1>1. /\ OthersStay(t) /\ dbMeta' = RecordOf(zipMeta)
      /\ UNCHANGED <<host, zipMeta>>
  BY DEF RecordInstalled, OthersStay, zipVars
<1>2. PICK step : Goto(t, step) /\ step \notin Adopting \cup Noting
  BY DEF RecordInstalled, Noting, Adopting
<1>3. \A r \in Record : r = zipMeta' \/ r = dbMeta' => Sound(r)
  BY <1>1, KeptSound DEF RecordOf, Sound
<1>4. QED
  BY <1>1, <1>2, <1>3, HeldMove, SoundTell

LEMMA CheckNoteStamps ==
    ASSUME IInv, StampsTell, NEW t \in Tasks, CheckNote(t)
    PROVE  StampsTell'
<1>1. OthersStay(t) /\ UNCHANGED <<host, zipMeta, dbMeta>>
  BY DEF CheckNote, OthersStay, files, IInv, TypeOK
<1>2. PICK step : /\ Goto(t, step) /\ step \notin Adopting
                  /\ step \in Noting => loc'[t].noted = zipMeta
  <2>1. CASE zipMeta = None
    BY <2>1 DEF CheckNote, Noting, Adopting
  <2>2. CASE zipMeta # None
    <3>1. Goto(t, "noteWrite") /\ loc'[t].noted = zipMeta
      BY <2>2, LocTypes DEF CheckNote, IInv, TypeOK, Locals
    <3>2. "noteWrite" \notin Adopting
      BY DEF Adopting
    <3>3. QED
      BY <3>1, <3>2
  <2>3. QED
    BY <2>1, <2>2
<1>3. QED
  BY <1>1, <1>2, KeptSound, HeldMove, SoundTell

LEMMA NoteWriteStamps ==
    ASSUME IInv, StampsTell, NEW t \in Tasks, CheckNoteWrite(t)
    PROVE  StampsTell'
<1>1. /\ Goto(t, "probed") /\ OthersStay(t) /\ pc[t] \in Noting
      /\ zipMeta' = loc[t].noted /\ UNCHANGED <<host, dbMeta>>
  BY DEF CheckNoteWrite, OthersStay, dbVars, Noting
<1>2. \A r \in Record : r = zipMeta' \/ r = dbMeta' => Sound(r)
  BY <1>1, KeptSound, FilesAssumption DEF Sound, Held, Record
<1>3. QED
  BY <1>1, <1>2, PlainSteps, PlainStamps, HeldMove, SoundTell

LEMMA CarryStamps ==
    ASSUME IInv, StampsTell, NEW t \in Tasks, Carry(t)
    PROVE  StampsTell'
<1>1. OthersStay(t) /\ UNCHANGED <<host, zipMeta, dbMeta>>
  BY DEF Carry, Continue, OthersStay, files, IInv, TypeOK
<1>2. CASE SameBytes(dbMeta, zipMeta)
  <2>1. /\ Goto(t, "carryWrite")
        /\ loc'[t].noted = [dbMeta EXCEPT !.stamp = zipMeta.stamp]
    BY <1>2, LocTypes DEF Carry, IInv, TypeOK, Locals
  <2>2. [dbMeta EXCEPT !.stamp = zipMeta.stamp] = zipMeta
    BY <1>2, FileTypes DEF SameBytes, IInv, Record
  <2>3. "carryWrite" \notin Adopting
    BY DEF Adopting
  <2>4. QED
    BY <1>1, <2>1, <2>2, <2>3, KeptSound, HeldMove, SoundTell
<1>3. CASE ~SameBytes(dbMeta, zipMeta)
  BY <1>1, <1>3, LeavesStamps, PlainStamps DEF Carry, Continue
<1>4. QED
  BY <1>2, <1>3

LEMMA CarryWriteStamps ==
    ASSUME IInv, StampsTell, NEW t \in Tasks, CarryWrite(t)
    PROVE  StampsTell'
<1>1. /\ Goto(t, Rest(t)) /\ OthersStay(t) /\ pc[t] \in Noting
      /\ dbMeta' = loc[t].noted /\ UNCHANGED <<host, zipMeta>>
  BY DEF CarryWrite, Continue, OthersStay, zipVars, Noting, IInv, TypeOK
<1>2. \A r \in Record : r = zipMeta' \/ r = dbMeta' => Sound(r)
  BY <1>1, KeptSound, FilesAssumption DEF Sound, Held, Record
<1>3. QED
  BY <1>1, <1>2, PlainStamps, HeldMove, SoundTell

\* A validator sent anew is one no record holds yet.
LEMMA PublishStamps ==
    ASSUME IInv, StampsTell, Publish \/ Restamp
    PROVE  StampsTell'
<1>1. /\ Validates => host'.stamp = host.stamp + 1
      /\ ~Validates => host'.stamp = 0 /\ host.stamp = 0
      /\ UNCHANGED <<zipMeta, dbMeta, pc, loc>>
  BY DEF Publish, Restamp, files, IInv, TypeOK, StampsTell
<1>2. \A r \in Records : Held(r)' <=> Held(r)
  BY <1>1 DEF Held
<1>3. \A r \in Records : Held(r) => r.stamp \in Nat /\ r.stamp <= host.stamp
  BY DEF StampsTell, Records, Record, Stamps, Held
<1>4. QED
  BY <1>1, <1>2, <1>3, FileTypes, RefreshAssumption DEF StampsTell, IInv

LEMMA CrashStamps ==
    ASSUME IInv, StampsTell, Crash
    PROVE  StampsTell'
<1>1. /\ host' = host /\ zipMeta' \in {zipMeta, None} /\ dbMeta' \in {dbMeta, None}
      /\ \A t \in Tasks : pc'[t] \notin Adopting \cup Noting
  BY DEF Crash, Rest, Adopting, Noting
<1>2. \A r \in Record : Held(r)' => Sound(r)
  BY <1>1, KeptSound, FilesAssumption DEF Held, Record
<1>3. QED
  BY <1>1, <1>2, SoundTell

LEMMA StillStamps ==
    ASSUME IInv, StampsTell, UNCHANGED <<host, zipMeta, dbMeta, pc, loc>>
    PROVE  StampsTell'
BY DEF StampsTell, Held

-----------------------------------------------------------------------------
(* Unmixed.                                                                *)

LEMMA UnmixedKept ==
    ASSUME IInv, Unmixed, NEW t \in Tasks, NEW step, Goto(t, step), step \notin Asking,
           step \in Swapping => pc[t] \in Swapping, UNCHANGED <<dbLines, staging>>
    PROVE  Unmixed'
<1>1. \A s \in Tasks : (Staging(s)' => Staging(s)) /\ pc'[s] \notin Asking
  BY DEF Goto, IInv, TypeOK, Staging, Unmixed
<1>2. QED
  BY <1>1 DEF Unmixed

LEMMA PlainMixesNothing ==
    /\ Plain \cap (Asking \cup Swapping) = {}
    /\ \A t : Rest(t) \notin Asking \cup Swapping
    /\ {"keepZip", "recordZip", "fetchKeep", "fetchRecord", "noteWrite", "carryWrite"}
          \cap (Asking \cup Swapping) = {}
BY DEF Plain, Asking, Swapping, Rest

LEMMA LeavingUnmixed ==
    ASSUME IInv, Unmixed, NEW t \in Tasks, Leaving(t)
    PROVE  Unmixed'
BY LeavingLeaves, UnmixedKept, PlainMixesNothing DEF Leaves, files

LEMMA GrantUnmixed ==
    ASSUME IInv, Unmixed, Grant
    PROVE  Unmixed'
<1>1. PICK h \in Tasks : h = Head(queue) /\ pc[h] \in Waiting
  BY DEF Grant, IInv, TypeOK, LockHeld
<1>2. PICK step : step = Inside[pc[h]]
  OBVIOUS
<1>3. pc[h] # "waitImport"
  BY <1>1 DEF Unmixed, Asking
<1>4. step \in {"routes", "fetch", "copy"}
  BY <1>1, <1>2, <1>3 DEF Inside, Waiting
<1>5. Goto(h, step) /\ UNCHANGED <<dbLines, staging>>
  BY <1>1, <1>2 DEF Grant, files
<1>6. QED
  BY <1>4, <1>5, PlainSteps, PlainMixesNothing, UnmixedKept

\* The zip and the sidecars are written, the database is not.
LEMMA RecordsUnmixed ==
    ASSUME IInv, Unmixed, NEW t \in Tasks,
           \/ RefreshDownload(t) \/ KeepZip(t) \/ RecordZip(t) \/ RecordInstalled(t)
           \/ CheckNote(t) \/ CheckNoteWrite(t) \/ Fetch(t) \/ Carry(t) \/ CarryWrite(t)
    PROVE  Unmixed'
<1>1. UNCHANGED <<dbLines, staging>>
  BY DEF RefreshDownload, KeepZip, RecordZip, RecordInstalled, CheckNote, CheckNoteWrite, Fetch,
         Carry, CarryWrite, files, dbVars
<1>2. PICK step \in Plain \cup {Rest(t), "keepZip", "recordZip", "fetchKeep", "fetchRecord",
                                "noteWrite", "carryWrite"} : Goto(t, step)
  BY PlainSteps DEF RefreshDownload, JobEnds, KeepZip, RecordZip, RecordInstalled, CheckNote,
                    CheckNoteWrite, Fetch, Carry, CarryWrite, Continue
<1>3. QED
  BY <1>1, <1>2, PlainMixesNothing, UnmixedKept

\* Under the lock, the holder alone has a staging file.
LEMMA SwapsUnmixed ==
    ASSUME IInv, Unmixed, NEW t \in Tasks, pc[t] \in Holding,
           NEW step, Goto(t, step), step \notin Asking,
           OneEdition(dbLines'), Staging(t)' => OneEdition(staging')
    PROVE  Unmixed'
<1>1. \A s \in Tasks : s # t => ~Staging(s)'
  BY OthersOutside, HoldingSteps DEF Goto, IInv, TypeOK, Staging
<1>2. \A s \in Tasks : pc'[s] \notin Asking
  BY DEF Goto, IInv, TypeOK, Unmixed
<1>3. QED
  BY <1>1, <1>2 DEF Unmixed, OneEdition

LEMMA BuildUnmixed ==
    ASSUME IInv, Unmixed, NEW t \in Tasks, Build(t)
    PROVE  Unmixed'
<1>1. PICK step \in {"swapLock", "refreshed"} : Goto(t, step)
  BY DEF Build, JobEnds
<1>2. pc[t] \in Holding /\ pc'[t] = step /\ dbLines' = dbLines /\ step \notin Asking
  BY <1>1 DEF Build, Goto, IInv, TypeOK, Holding, Refreshing, Asking
<1>3. Staging(t)' => staging' = Staged(t)
  BY <1>2 DEF Build, JobEnds, Staging, Swapping, Goto, IInv, TypeOK
<1>4. Asked(t) \in SUBSET Lines
  BY LocTypes, FilesAssumption DEF Asked, IInv, TypeOK
<1>5. OneEdition(Staged(t))
  BY <1>4, BuiltOnly, FileTypes DEF Staged, OneEdition, IInv
<1>6. Staging(t)' => OneEdition(staging')
  BY <1>3, <1>5
<1>7. QED
  BY <1>1, <1>2, <1>6, SwapsUnmixed DEF Unmixed

LEMMA SwapLockUnmixed ==
    ASSUME IInv, Unmixed, NEW t \in Tasks, SwapLock(t)
    PROVE  Unmixed'
<1>1. PICK step \in {"swapIn", "rewriteIn", "refreshed", "rewritten"} : Goto(t, step)
  BY DEF SwapLock
<1>2. pc[t] \in Holding /\ pc'[t] = step /\ dbLines' = dbLines /\ step \notin Asking
  BY <1>1 DEF SwapLock, Goto, IInv, TypeOK, Holding, Refreshing, Rewriting, Asking
<1>3. Staging(t)' => Staging(t) /\ staging' = staging
  BY <1>2 DEF SwapLock, Staging, Swapping, Goto, IInv, TypeOK
<1>4. QED
  BY <1>1, <1>2, <1>3, SwapsUnmixed DEF Unmixed

LEMMA SwapInUnmixed ==
    ASSUME IInv, Unmixed, NEW t \in Tasks, SwapIn(t)
    PROVE  Unmixed'
<1>1. PICK step \in {"rewritten", "refreshed", "installed"} : Goto(t, step)
  BY DEF SwapIn
<1>2. pc[t] \in Holding /\ step \notin Asking /\ ~Staging(t)'
  BY <1>1 DEF SwapIn, Goto, IInv, TypeOK, Holding, Refreshing, Rewriting, Asking, Staging
<1>3. OneEdition(dbLines')
  BY DEF SwapIn, Unmixed, Staging, Swapping
<1>4. QED
  BY <1>1, <1>2, <1>3, SwapsUnmixed

LEMMA RewriteCopyUnmixed ==
    ASSUME IInv, Unmixed, NEW t \in Tasks, RewriteCopy(t)
    PROVE  Unmixed'
<1>1. PICK step \in {"rewriteLock", "rewritten"} : Goto(t, step)
  BY DEF RewriteCopy
<1>2. pc[t] \in Holding /\ pc'[t] = step /\ dbLines' = dbLines /\ step \notin Asking
  BY <1>1 DEF RewriteCopy, Goto, IInv, TypeOK, Holding, Rewriting, Asking
<1>3. Staging(t)' => staging' = CutTo(dbLines, loc[t].want)
  BY <1>2 DEF RewriteCopy, Staging, Swapping, Goto, IInv, TypeOK
<1>4. OneEdition(CutTo(dbLines, loc[t].want))
  BY CutInside, FileTypes DEF Unmixed, IInv
<1>5. Staging(t)' => OneEdition(staging')
  BY <1>3, <1>4
<1>6. QED
  BY <1>1, <1>2, <1>5, SwapsUnmixed DEF Unmixed

\* No flow, no import: nothing adds lines to a database.
LEMMA NoImport ==
    ASSUME IInv, Unmixed, Flows = {}, NEW t \in Tasks
    PROVE  /\ ~FlowPick(t) /\ ~FlowImport(t)
           /\ ~ImportBuild(t) /\ ~ImportCreate(t) /\ ~ImportLine(t)
BY DEF Unmixed, Asking, FlowPick, FlowImport, ImportBuild, ImportCreate, ImportLine

LEMMA EnvironmentUnmixed ==
    ASSUME IInv, Unmixed, Environment
    PROVE  Unmixed'
<1>1. CASE LoseDatabase
  <2>1. dbLines' = NoLine /\ staging' = staging /\ pc' = pc
    BY <1>1 DEF LoseDatabase
  <2>2. OneEdition(NoLine)
    BY NoLineAgrees, FileTypes DEF OneEdition, IInv
  <2>3. QED
    BY <2>1, <2>2 DEF Unmixed, Staging
<1>2. CASE Crash
  <2>1. \A t \in Tasks : pc'[t] \in {"idle", "done"}
    BY <1>2 DEF Crash, Rest
  <2>2. \A t \in Tasks : pc'[t] \notin Asking \cup Swapping
    BY <2>1 DEF Asking, Swapping
  <2>3. QED
    BY <1>2, <2>2 DEF Unmixed, Staging, Crash
<1>3. CASE UNCHANGED <<dbLines, staging, pc>>
  BY <1>3 DEF Unmixed, Staging
<1>4. QED
  BY <1>1, <1>2, <1>3 DEF Environment, Publish, Restamp, AddSensor, RemoveSensor, files

-----------------------------------------------------------------------------
(* The theorems.                                                           *)

LEMMA InitTold == Init => Told /\ StampsTell /\ Unmixed
<1> SUFFICES ASSUME Init PROVE Told /\ StampsTell /\ Unmixed
  OBVIOUS
<1>1. IInv
  BY InitIInv
<1>2. \A t \in Tasks : pc[t] = "idle" /\ loc[t] = NoLocals
  BY DEF Init
<1>3. FirstLines \in SUBSET Lines /\ 1 \in Editions
  BY FilesAssumption, RefreshAssumption DEF Editions
<1>4. /\ Only(dbLines, 1) /\ Upto(dbLines, 1) /\ From(dbLines, 1)
  BY <1>3, BuiltOnly DEF Init, Editions
<1>5. \A t \in Tasks : Knows(t) /\ ~Staging(t) /\ pc[t] \notin Asking
  BY <1>2 DEF Knows, Staging, Swapping, Unstarted, Asking, NoLocals
<1>6. FilesTold
  <2>1. dbFile # "ok" => dbLines = NoLine
    BY <1>3 DEF Init, BuiltFrom, NoLine
  <2>2. dbMeta # None => dbMeta.sha = 1
    BY DEF Init, FirstRecord
  <2>3. Floor(1)
    BY <1>4, <1>5 DEF Floor, Init
  <2>4. QED
    BY <1>4, <2>1, <2>2, <2>3 DEF FilesTold, Init, FirstRecord
<1>7. StampsTell
  <2>1. \A r \in Records : Held(r) => r = FirstRecord
    BY <1>2 DEF Held, Init, Adopting, Noting
  <2>2. QED
    BY <2>1 DEF StampsTell, Init, FirstRecord
<1>8. Unmixed
  BY <1>3, <1>4, <1>5 DEF Unmixed, OneEdition
<1>9. QED
  BY <1>5, <1>6, <1>7, <1>8 DEF Told

\* The actions of a task, by what they do to the files.
LEMMA TaskSteps ==
    ASSUME NEW t \in Tasks, Start(t) \/ Step(t)
    PROVE  \/ Leaving(t)
           \/ RefreshDownload(t) \/ KeepZip(t) \/ RecordZip(t) \/ RecordInstalled(t)
           \/ CheckNote(t) \/ CheckNoteWrite(t) \/ Fetch(t) \/ Carry(t) \/ CarryWrite(t)
           \/ Build(t) \/ SwapLock(t) \/ SwapIn(t) \/ RewriteCopy(t)
           \/ FlowPick(t) \/ FlowImport(t) \/ ImportBuild(t) \/ ImportCreate(t) \/ ImportLine(t)
BY DEF Start, Step, CheckStep, RefreshStep, FlowStep, RewriteStep, Leaving

LEMMA NextTold == IInv /\ Told /\ [Next]_vars => Told'
<1> SUFFICES ASSUME IInv, Told, [Next]_vars PROVE Told'
  OBVIOUS
<1>1. CASE Grant
  BY <1>1, GrantTold
<1>2. ASSUME NEW t \in Tasks, Start(t) \/ Step(t)
      PROVE  Told'
  BY <1>2, TaskSteps, LeavingLeaves, LeavesTold, RefreshDownloadTold, KeepZipTold,
     RecordZipTold, RecordInstalledTold, CheckNoteTold, NoteWriteTold, FetchTold, CarryTold,
     CarryWriteTold, BuildTold, SwapLockTold, SwapInTold, RewriteCopyTold, FlowPickTold,
     FlowImportTold, ImportBuildTold, ImportCreateTold, ImportLineTold
<1>3. CASE Environment
  <2>1. ASSUME NEW l \in Lines, AddSensor(l) \/ RemoveSensor(l)
        PROVE  Told'
    BY <2>1, SensorsTold DEF AddSensor, RemoveSensor
  <2>2. QED
    BY <1>3, <2>1, PublishTold, LoseDatabaseTold, CrashTold DEF Environment
<1>4. CASE UNCHANGED vars
  BY <1>4, SensorsTold DEF vars
<1>5. QED
  BY <1>1, <1>2, <1>3, <1>4 DEF Next

LEMMA NextStamps == IInv /\ StampsTell /\ [Next]_vars => StampsTell'
<1> SUFFICES ASSUME IInv, StampsTell, [Next]_vars PROVE StampsTell'
  OBVIOUS
<1>1. CASE Grant
  BY <1>1, GrantStamps
<1>2. ASSUME NEW t \in Tasks, Start(t) \/ Step(t)
      PROVE  StampsTell'
  BY <1>2, TaskSteps, LeavingStamps, DownloadStamps, KeepZipStamps, RecordZipStamps,
     RecordInstalledStamps, CheckNoteStamps, NoteWriteStamps, FetchStamps, CarryStamps,
     CarryWriteStamps, FilesStamps
<1>3. CASE Environment
  <2>1. LoseDatabase => StampsTell'
    BY StillStamps DEF LoseDatabase, zipVars
  <2>2. ASSUME NEW l \in Lines, AddSensor(l) \/ RemoveSensor(l)
        PROVE  StampsTell'
    BY <2>2, StillStamps DEF AddSensor, RemoveSensor, files
  <2>3. QED
    BY <1>3, <2>1, <2>2, PublishStamps, CrashStamps DEF Environment
<1>4. CASE UNCHANGED vars
  BY <1>4, StillStamps DEF vars, files
<1>5. QED
  BY <1>1, <1>2, <1>3, <1>4 DEF Next

LEMMA NextUnmixed == ASSUME Flows = {} PROVE IInv /\ Unmixed /\ [Next]_vars => Unmixed'
<1> SUFFICES ASSUME IInv, Unmixed, [Next]_vars PROVE Unmixed'
  OBVIOUS
<1>1. CASE Grant
  BY <1>1, GrantUnmixed
<1>2. ASSUME NEW t \in Tasks, Start(t) \/ Step(t)
      PROVE  Unmixed'
  BY <1>2, TaskSteps, NoImport, LeavingUnmixed, RecordsUnmixed, BuildUnmixed, SwapLockUnmixed,
     SwapInUnmixed, RewriteCopyUnmixed
<1>3. CASE Environment
  BY <1>3, EnvironmentUnmixed
<1>4. CASE UNCHANGED vars
  BY <1>4 DEF vars, files, Unmixed, Staging
<1>5. QED
  BY <1>1, <1>2, <1>3, <1>4 DEF Next

\* record_installed and _carry_validators, with every crash, lost and late
\* write between what they read and what they write: the installed record
\* never claims an edition newer than any line of the database.
THEOREM NeverOverstatedAlways == Spec => []NeverOverstated
<1>1. Told => NeverOverstated
  BY DEF Told, FilesTold, Floor, From, NeverOverstated
<1>2. QED
  BY <1>1, Invariance, InitTold, NextTold, PTL DEF Spec

\* Two records with one label are of the same bytes.
LEMMA SameLabel ==
    ASSUME IInv, StampsTell, zipMeta # None, zipMeta.sha = zip, dbMeta # None,
           VersionLabel(dbMeta) = VersionLabel(zipMeta)
    PROVE  dbMeta.sha = zip
<1>1. zipMeta \in Record /\ dbMeta \in Record /\ zip \in Editions
  BY FileTypes DEF IInv
<1>2. zipMeta # Blank
  BY <1>1 DEF Blank, Editions
<1>3. VersionLabel(zipMeta) # None /\ dbMeta # Blank
  BY <1>1, <1>2, FilesAssumption DEF VersionLabel, Record, Stamps, Editions
<1>4. CASE zipMeta.stamp # 0
  <2>1. dbMeta.stamp = zipMeta.stamp
    BY <1>2, <1>3, <1>4 DEF VersionLabel
  <2>2. Held(zipMeta) /\ Held(dbMeta)
    BY DEF Held
  <2>3. QED
    BY <1>1, <1>4, <2>1, <2>2 DEF StampsTell, Records
<1>5. CASE zipMeta.stamp = 0
  BY <1>2, <1>3, <1>5 DEF VersionLabel
<1>6. QED
  BY <1>4, <1>5

\* rebuild_pending: a database left behind its zip is seen, as long as the
\* zip's own record describes the zip.
THEOREM BehindIsSeenAlways == Spec => []BehindIsSeen
<1>1. ASSUME IInv, Told, StampsTell, dbMeta # None, dbFile = "ok",
             ~Pending(dbFile, dbMeta, zipMeta), zipMeta # None, zipMeta.sha = zip
      PROVE  \A l \in RoutesIn(dbLines) : dbLines[l] = {zip}
  <2>1. VersionLabel(dbMeta) = VersionLabel(zipMeta)
    BY <1>1 DEF Pending, InstalledMeta
  <2>2. dbMeta.sha = zip
    BY <1>1, <2>1, SameLabel
  <2>3. From(dbLines, zip) /\ Upto(dbLines, zip)
    BY <1>1, <2>2 DEF Told, FilesTold, Floor
  <2>4. \A l \in Lines : dbLines[l] \subseteq Nat
    BY <1>1, FileTypes DEF IInv, Database, Editions
  <2>5. QED
    BY <1>1, <2>3, <2>4, FileTypes DEF From, Upto, RoutesIn, IInv
<1>2. IInv /\ Told /\ StampsTell => BehindIsSeen
  BY <1>1 DEF BehindIsSeen
<1>3. QED
  BY <1>2, Invariance, InitTold, NextTold, NextStamps, PTL DEF Spec

\* The refreshes and the rewrites alone never mix editions: it takes a
\* config flow, which adds lines of its zip to the database it finds.
THEOREM WholeEditionWithoutFlows == ASSUME Flows = {} PROVE Spec => []WholeEdition
<1>1. Unmixed => WholeEdition
  BY DEF Unmixed, OneEdition, Only, WholeEdition
<1>2. QED
  BY <1>1, Invariance, InitTold, NextUnmixed, Flows = {}, PTL DEF Spec

-----------------------------------------------------------------------------
(***************************************************************************)
(* A check on its own, nothing failing.  A refresh it starts is from a zip *)
(* whose edition no line of the database is of: the check that begins with *)
(* a database at the level of its zip ends so, or with a newer zip kept.   *)
(***************************************************************************)
CheckAlone ==
    /\ Users = {} /\ Flows = {} /\ Prunes = {} /\ MaxFaults = 0
    /\ \A s, t \in Checks : s = t

Ahead == \A l \in Lines : zip \notin dbLines[l]
Level == dbMeta = None \/ dbMeta = zipMeta

\* Steps of the tasks that are not checks, and of a refresh from the host.
Foreign == Importing \cup Rewriting \cup {"picked", "entry", "askPrune", "waitImport", "waitPrune",
                                         "done", "download", "keepZip", "recordZip"}

Renewing == {"fetchRecord", "act", "refresh", "waitRefresh", "routes", "build", "swapLock", "swapIn"}

\* The zip's record has new validators for the same bytes, the installed one
\* is about to.
Carrying(t) ==
    /\ pc[t] \in {"carry", "carryWrite"} \/ (pc[t] = "fetched" /\ loc[t].out = "same")
    /\ dbMeta # None => dbMeta.sha = zipMeta.sha

News(t) ==
    /\ pc[t] \notin Foreign
    /\ zipMeta # None /\ (pc[t] # "fetchRecord" => zipMeta.sha = zip)
    /\ pc[t] \in Renewing => Ahead
    /\ pc[t] \in {"refresh", "waitRefresh", "routes"} => loc[t].useZip
    /\ pc[t] \in {"swapLock", "swapIn"} => \E l \in Lines : zip \in staging[l]
    /\ pc[t] \in Noting => loc[t].noted = zipMeta
    /\ pc[t] = "fetchKeep" => zip < loc[t].got.sha
    /\ pc[t] = "fetched" => loc[t].out \in {"same", "new", "kept"} /\ (loc[t].out = "kept" => Ahead)
    /\ pc[t] = "act" => loc[t].out = "kept"
    /\ Ahead \/ Level \/ pc[t] = "installed" \/ Carrying(t)

\* Steps nothing is claimed of but that the zip's edition is new or the
\* database's own.
Unclaimed == {"idle", "pending", "probe", "note", "probed", "fetch", "waitFetch", "offer", "refreshed"}

LEMMA NewsMoves ==
    ASSUME TypeOK, NEW t \in Tasks, News(t), pc[t] # "fetchRecord", Ahead \/ Level,
           UNCHANGED <<zip, zipMeta, dbLines, dbMeta>>, pc'[t] \in Unclaimed
    PROVE  News(t)'
BY DEF News, Unclaimed, Foreign, Importing, Rewriting, Renewing, Noting, Ahead, Level

LEMMA GoesTo ==
    ASSUME TypeOK, NEW t \in Tasks, NEW step
    PROVE  /\ Goto(t, step) => pc'[t] = step
           /\ Continue(t, step) => pc'[t] = step
BY DEF TypeOK, Goto, Continue

LEMMA EntersTo ==
    ASSUME TypeOK, NEW t \in Tasks, NEW wait \in {"waitRefresh", "waitFetch"}, Enter(t, wait)
    PROVE  /\ wait = "waitRefresh" => pc'[t] \in {"waitRefresh", "routes"}
           /\ wait = "waitFetch" => pc'[t] \in {"waitFetch", "fetch"}
BY GoesTo DEF Enter, Inside, Waiting

LEMMA NoFaults ==
    ASSUME CheckAlone, TypeOK
    PROVE  ~Fault /\ ~Crash /\ ~LoseDatabase
           /\ Tasks = Checks /\ \A s, t \in Tasks : s = t
<1>1. ~(faults < MaxFaults)
  BY DEF CheckAlone, TypeOK
<1>2. QED
  BY <1>1 DEF Fault, Crash, LoseDatabase, CheckAlone, Tasks

\* rebuild_pending, of a database that is not at the level of its zip.
LEMMA PendingIsAhead ==
    ASSUME Told, NEW t \in Tasks, News(t), pc[t] = "pending", Pending(dbFile, dbMeta, zipMeta)
    PROVE  Ahead
<1>1. Ahead \/ Level
  BY DEF News, Carrying
<1>2. Level => dbFile = "absent"
  BY DEF Level, Pending, InstalledMeta
<1>3. dbFile = "absent" => dbLines = NoLine
  BY DEF Told, FilesTold
<1>4. QED
  BY <1>1, <1>2, <1>3 DEF Ahead, NoLine

\* What a build stages has a line of the zip's edition, or is not swapped in.
LEMMA StagedIsNew ==
    ASSUME TypeOK, NEW t \in Tasks, Asked(t) # {}, Missing(t) = {}
    PROVE  \E l \in Lines : zip \in Staged(t)[l]
<1>1. Carries[zip] \subseteq Lines /\ loc[t].want \subseteq Lines
  <2>1. zip \in Editions /\ Carries \in [Editions -> SUBSET Lines]
    BY FilesAssumption DEF TypeOK
  <2>2. QED
    BY <2>1, LocTypes
<1>2. PICK l \in Asked(t) \cap Carries[zip] : TRUE
  <2>1. CASE Whole \/ loc[t].want = {}
    BY <2>1 DEF Asked
  <2>2. CASE ~(Whole \/ loc[t].want = {})
    BY <2>2 DEF Asked, Missing
  <2>3. QED
    BY <2>1, <2>2
<1>3. QED
  BY <1>1, <1>2 DEF Staged, BuiltFrom

LEMMA RefreshNews ==
    ASSUME CheckAlone, IInv, Told, NEW t \in Tasks, News(t), RefreshStep(t)
    PROVE  News(t)'
<1>1. TypeOK /\ ~Fault /\ pc \in [Tasks -> Steps] /\ loc \in [Tasks -> Locals] /\ t \in Checks
  BY NoFaults DEF IInv, TypeOK
<1>2. CASE Refresh(t)
  <2>1. pc[t] = "refresh" /\ Ahead /\ loc[t].useZip /\ UNCHANGED files
    BY <1>2 DEF Refresh, BeginRefresh, News, Renewing
  <2>2. CASE lock # NoOne
    <3>1. pc'[t] \in Unclaimed
      BY <1>1, <1>2, <2>2, GoesTo DEF Refresh, BeginRefresh, Rest, Unclaimed
    <3>2. QED
      BY <1>1, <2>1, <3>1, NewsMoves DEF files
  <2>3. CASE lock = NoOne
    <3>1. pc'[t] \in {"waitRefresh", "routes"} /\ loc'[t].useZip
      BY <1>1, <1>2, <2>1, <2>3, EntersTo DEF Refresh, BeginRefresh, NoLocals
    <3>2. QED
      BY <2>1, <3>1 DEF News, files, Foreign, Importing, Rewriting, Renewing, Noting, Ahead
  <2>4. QED
    BY <2>2, <2>3
<1>3. CASE RefreshRoutes(t)
  <2>1. pc[t] = "routes" /\ Ahead /\ loc[t].useZip /\ UNCHANGED files
    BY <1>3 DEF RefreshRoutes, News, Renewing
  <2>2. pc'[t] \in {"refreshed", "build"}
    BY <1>1, <1>3, <2>1, GoesTo DEF RefreshRoutes, JobEnds
  <2>3. QED
    BY <2>1, <2>2 DEF News, files, Foreign, Importing, Rewriting, Renewing, Noting, Ahead
<1>4. CASE KeepZip(t)
  <2>1. /\ pc[t] = "fetchKeep" /\ pc'[t] = "fetchRecord" /\ zip' = loc[t].got.sha
        /\ zip < loc[t].got.sha /\ UNCHANGED <<dbLines, zipMeta>> /\ zipMeta # None
    BY <1>1, <1>4, GoesTo DEF KeepZip, News, Foreign, dbVars
  <2>2. Upto(dbLines, zip) /\ zip \in Nat /\ zip' \in Nat /\ \A l \in Lines : dbLines[l] \subseteq Nat
    <3>1. loc[t].got \in Records /\ zip \in Nat /\ dbLines \in Database
      BY <1>1, LocTypes, FileTypes DEF TypeOK
    <3>2. loc[t].got.sha \in Nat
      BY <2>1 DEF IInv, DownloadHeld, Adopting, Editions
    <3>3. QED
      BY <2>1, <3>1, <3>2 DEF Told, FilesTold, Database, Editions
  <2>3. Ahead'
    BY <2>1, <2>2 DEF Upto, Ahead
  <2>4. QED
    BY <2>1, <2>3 DEF News, Foreign, Importing, Rewriting, Renewing, Noting
<1>5. CASE RecordZip(t)
  <2>1. /\ pc[t] = "fetchRecord" /\ pc'[t] = "fetched" /\ loc'[t].out = "kept" /\ zipMeta' = loc[t].got
        /\ UNCHANGED <<dbLines, zip>> /\ Ahead
    BY <1>1, <1>5, GoesTo DEF RecordZip, News, Foreign, dbVars, Renewing, Locals
  <2>2. loc[t].got.sha = zip /\ loc[t].got # None
    <3>1. loc[t].got \in Record
      BY <2>1 DEF IInv, DownloadHeld, Adopting
    <3>2. loc[t].got.sha = zip
      BY <2>1 DEF Told, Knows
    <3>3. QED
      BY <3>1, <3>2, FilesAssumption DEF Record
  <2>3. QED
    BY <2>1, <2>2 DEF News, Foreign, Importing, Rewriting, Renewing, Noting, Ahead
<1>6. CASE Build(t)
  <2>1. pc[t] = "build" /\ Ahead /\ UNCHANGED <<zip, zipMeta, dbLines, dbMeta>>
    BY <1>6 DEF Build, News, Renewing
  <2>2. CASE Asked(t) # {} /\ Missing(t) = {} /\ staging' = Staged(t) /\ Goto(t, "swapLock")
    <3>1. pc'[t] = "swapLock" /\ \E l \in Lines : zip' \in staging'[l]
      BY <1>1, <2>1, <2>2, GoesTo, StagedIsNew
    <3>2. QED
      BY <2>1, <3>1 DEF News, Foreign, Importing, Rewriting, Renewing, Noting, Ahead
  <2>3. CASE JobEnds(t, "missing") \/ JobEnds(t, "failed")
    <3>1. pc'[t] = "refreshed"
      BY <1>1, <2>3, GoesTo DEF JobEnds
    <3>2. QED
      BY <1>1, <2>1, <3>1, NewsMoves DEF Unclaimed
  <2>4. QED
    BY <1>1, <1>6, <2>2, <2>3 DEF Build
<1>7. CASE SwapLock(t)
  <2>1. pc[t] = "swapLock" /\ UNCHANGED <<zip, zipMeta, dbLines, dbMeta, staging>> /\ pc'[t] = "swapIn"
    BY <1>1, <1>7, GoesTo DEF SwapLock, zipVars, News, Foreign, Rewriting
  <2>2. QED
    BY <2>1 DEF News, Foreign, Importing, Rewriting, Renewing, Noting, Ahead, Level, Carrying
<1>8. CASE SwapIn(t)
  <2>1. pc[t] = "swapIn" /\ UNCHANGED <<zip, zipMeta, dbMeta>>
    BY <1>8 DEF SwapIn, zipVars, News, Foreign, Rewriting
  <2>2. CASE staging # None
    <3>1. pc'[t] = "installed"
      BY <1>1, <1>8, <2>1, <2>2, GoesTo DEF SwapIn
    <3>2. QED
      BY <2>1, <2>2, <3>1 DEF News, Foreign, Importing, Rewriting, Renewing, Noting
  <2>3. CASE staging = None
    <3>1. pc'[t] \in Unclaimed /\ UNCHANGED dbLines
      BY <1>1, <1>8, <2>1, <2>3, GoesTo DEF SwapIn, Unclaimed
    <3>2. Ahead
      BY <2>1 DEF News, Renewing
    <3>3. QED
      BY <1>1, <2>1, <3>1, <3>2, NewsMoves
  <2>4. QED
    BY <2>2, <2>3
<1>9. CASE RecordInstalled(t)
  <2>1. /\ pc[t] = "installed" /\ UNCHANGED <<zip, zipMeta, dbLines>>
        /\ dbMeta' = zipMeta /\ zipMeta # None /\ zipMeta.sha = zip /\ pc'[t] = "refreshed"
    BY <1>1, <1>9, GoesTo DEF RecordInstalled, zipVars, RecordOf, News, Foreign, Importing
  <2>2. QED
    BY <2>1 DEF News, Foreign, Importing, Rewriting, Renewing, Noting, Level
<1>10. CASE RefreshEnd(t)
  <2>1. pc[t] = "refreshed" /\ UNCHANGED files /\ pc'[t] \in Unclaimed
    BY <1>1, <1>10, GoesTo DEF RefreshEnd, BackTo, Rest, Unclaimed
  <2>2. Ahead \/ Level
    BY <2>1 DEF News, Carrying
  <2>3. QED
    BY <1>1, <2>1, <2>2, NewsMoves DEF files
<1>11. CASE RefreshDownload(t)
  BY <1>11 DEF RefreshDownload, News, Foreign
<1>12. QED
  BY <1>2, <1>3, <1>4, <1>5, <1>6, <1>7, <1>8, <1>9, <1>10, <1>11 DEF RefreshStep

LEMMA FetchNews ==
    ASSUME CheckAlone, TypeOK, Told, NEW t \in Tasks, News(t), Fetch(t)
    PROVE  News(t)'
<1>1. ~Fault /\ pc \in [Tasks -> Steps] /\ loc \in [Tasks -> Locals]
  BY NoFaults DEF TypeOK
<1>2. /\ pc[t] = "fetch" /\ UNCHANGED <<zip, dbLines, dbMeta>>
      /\ zipMeta # None /\ zipMeta.sha = zip /\ (Ahead \/ Level)
  BY DEF Fetch, News, dbVars, Carrying
<1> DEFINE fresh == [sha |-> host.ed, stamp |-> host.stamp]
           same == zipMeta # None /\ zipMeta.sha = host.ed
<1>3. CASE same /\ zipMeta' = fresh /\ Goto(t, "fetched") /\ loc' = [loc EXCEPT ![t].out = "same"]
  <2>1. pc'[t] = "fetched" /\ loc'[t].out = "same"
    BY <1>1, <1>3, GoesTo DEF Locals
  <2>2. zipMeta' # None /\ zipMeta'.sha = zip
    BY <1>2, <1>3, FilesAssumption DEF TypeOK
  <2>3. Ahead' \/ (dbMeta' # None => dbMeta'.sha = zipMeta'.sha)
    BY <1>2, <2>2 DEF Ahead, Level
  <2>4. QED
    BY <1>2, <2>1, <2>2, <2>3 DEF News, Foreign, Importing, Rewriting, Renewing, Noting, Carrying
<1>4. CASE ~same /\ ~Kept /\ UNCHANGED zipMeta /\ Goto(t, "fetched")
           /\ loc' = [loc EXCEPT ![t].out = "new", ![t].news = host.ed]
  <2>1. pc'[t] = "fetched" /\ loc'[t].out = "new"
    BY <1>1, <1>4, GoesTo DEF Locals
  <2>2. QED
    BY <1>2, <1>4, <2>1 DEF News, Foreign, Importing, Rewriting, Renewing, Noting, Ahead, Level
<1>5. CASE ~same /\ UNCHANGED zipMeta /\ Goto(t, "fetchKeep") /\ loc' = [loc EXCEPT ![t].got = fresh]
  <2>1. pc'[t] = "fetchKeep" /\ loc'[t].got.sha = host.ed
    BY <1>1, <1>5, GoesTo DEF Locals
  <2>2. zip < host.ed
    BY <1>2, <1>5 DEF Told, FilesTold, TypeOK, Editions
  <2>3. QED
    BY <1>2, <1>5, <2>1, <2>2 DEF News, Foreign, Importing, Rewriting, Renewing, Noting, Ahead, Level
<1>6. QED
  BY <1>1, <1>3, <1>4, <1>5 DEF Fetch

LEMMA CheckNews ==
    ASSUME CheckAlone, TypeOK, Told, NEW t \in Tasks, News(t), CheckStep(t)
    PROVE  News(t)'
<1>1. ~Fault /\ pc \in [Tasks -> Steps] /\ loc \in [Tasks -> Locals] /\ t \in Checks
  BY NoFaults DEF TypeOK
<1>2. CASE CheckPending(t)
  <2>1. pc[t] = "pending" /\ UNCHANGED files /\ (Ahead \/ Level)
    BY <1>2 DEF CheckPending, News, Carrying
  <2>2. CASE Pending(dbFile, dbMeta, zipMeta)
    <3>1. pc'[t] = "refresh" /\ loc'[t].useZip
      BY <1>1, <1>2, <2>2, GoesTo DEF CheckPending, NoLocals
    <3>2. Ahead
      BY <2>1, <2>2, PendingIsAhead
    <3>3. QED
      BY <2>1, <3>1, <3>2 DEF News, files, Foreign, Importing, Rewriting, Renewing, Noting, Ahead
  <2>3. CASE ~Pending(dbFile, dbMeta, zipMeta)
    <3>1. pc'[t] \in Unclaimed
      BY <1>2, <2>3, GoesTo DEF CheckPending, Unclaimed
    <3>2. QED
      BY <2>1, <3>1, NewsMoves DEF files
  <2>4. QED
    BY <2>2, <2>3
<1>3. CASE CheckProbe(t)
  <2>1. pc[t] = "probe" /\ UNCHANGED files /\ (Ahead \/ Level) /\ pc'[t] \in Unclaimed
    BY <1>1, <1>3, GoesTo DEF CheckProbe, News, Carrying, Unclaimed
  <2>2. QED
    BY <2>1, NewsMoves DEF files
<1>4. CASE CheckNote(t)
  <2>1. pc[t] = "note" /\ UNCHANGED files /\ (Ahead \/ Level) /\ zipMeta # None
    BY <1>4 DEF CheckNote, News, Carrying
  <2>2. pc'[t] = "noteWrite" /\ loc'[t].noted = zipMeta
    BY <1>1, <1>4, <2>1, GoesTo DEF CheckNote, Locals
  <2>3. QED
    BY <2>1, <2>2 DEF News, files, Foreign, Importing, Rewriting, Renewing, Noting, Ahead, Level
<1>5. CASE CheckNoteWrite(t)
  <2>1. /\ pc[t] = "noteWrite" /\ pc'[t] \in Unclaimed /\ UNCHANGED <<zip, zipMeta, dbLines, dbMeta>>
        /\ (Ahead \/ Level)
    BY <1>5, GoesTo DEF CheckNoteWrite, News, Noting, Carrying, Unclaimed, dbVars
  <2>2. QED
    BY <2>1, NewsMoves
<1>6. CASE CheckProbed(t)
  <2>1. pc[t] = "probed" /\ UNCHANGED files /\ (Ahead \/ Level)
    BY <1>6 DEF CheckProbed, News, Carrying
  <2>2. pc'[t] \in Unclaimed
    BY <1>1, <1>6, GoesTo, EntersTo DEF CheckProbed, Rest, Unclaimed
  <2>3. QED
    BY <2>1, <2>2, NewsMoves DEF files
<1>7. CASE Fetch(t)
  BY <1>7, FetchNews
<1>8. CASE Fetched(t)
  <2>1. pc[t] = "fetched" /\ UNCHANGED files /\ loc[t].out \in {"same", "new", "kept"}
    BY <1>8 DEF Fetched, News
  <2>2. CASE loc[t].out = "kept"
    <3>1. Ahead /\ pc'[t] = "act" /\ loc' = loc
      BY <1>1, <1>8, <2>1, <2>2, GoesTo DEF Fetched, Continue, News, Rest
    <3>2. QED
      BY <2>1, <2>2, <3>1 DEF News, files, Foreign, Importing, Rewriting, Renewing, Noting, Ahead
  <2>3. CASE loc[t].out = "same"
    <3>1. pc'[t] = "carry"
      BY <1>8, <2>1, <2>3, GoesTo DEF Fetched
    <3>2. QED
      BY <2>1, <2>3, <3>1 DEF News, files, Foreign, Importing, Rewriting, Renewing, Noting, Ahead, Level, Carrying
  <2>4. CASE loc[t].out = "new"
    <3>1. pc'[t] \in Unclaimed
      BY <1>8, <2>1, <2>4, GoesTo DEF Fetched, Unclaimed
    <3>2. Ahead \/ Level
      BY <2>1, <2>4 DEF News, Carrying
    <3>3. QED
      BY <2>1, <3>1, <3>2, NewsMoves DEF files
  <2>5. QED
    BY <2>1, <2>2, <2>3, <2>4
<1>9. CASE CheckAct(t)
  <2>1. pc[t] = "act" /\ UNCHANGED files /\ Ahead /\ loc[t].out = "kept"
    BY <1>9 DEF CheckAct, News, Renewing
  <2>2. pc'[t] = "refresh" /\ loc'[t].useZip
    BY <1>1, <1>9, <2>1, GoesTo DEF CheckAct, Locals
  <2>3. QED
    BY <2>1, <2>2 DEF News, files, Foreign, Importing, Rewriting, Renewing, Noting, Ahead
<1>10. CASE Carry(t)
  <2>1. pc[t] = "carry" /\ UNCHANGED files /\ zipMeta # None /\ zipMeta.sha = zip
    BY <1>10 DEF Carry, News
  <2>2. Ahead \/ Level \/ (dbMeta # None => dbMeta.sha = zipMeta.sha)
    BY <2>1 DEF News, Carrying
  <2>3. zipMeta \in Record /\ zip # 0 /\ dbMeta \in Record \cup {None}
    BY <2>1 DEF TypeOK, Records, Editions
  <2>4. CASE SameBytes(dbMeta, zipMeta)
    <3>1. pc'[t] = "carryWrite" /\ loc'[t].noted = [dbMeta EXCEPT !.stamp = zipMeta.stamp]
      BY <1>1, <1>10, <2>4, GoesTo DEF Carry, Locals
    <3>2. loc'[t].noted = zipMeta
      BY <2>3, <2>4, <3>1 DEF SameBytes, Record
    <3>3. QED
      BY <2>1, <2>4, <3>1, <3>2 DEF News, files, Foreign, Importing, Rewriting, Renewing, Noting, Carrying, SameBytes
  <2>5. CASE ~SameBytes(dbMeta, zipMeta)
    <3>1. Ahead \/ Level
      BY <2>1, <2>2, <2>3, <2>5 DEF SameBytes, Level
    <3>2. pc'[t] \in Unclaimed
      BY <1>1, <1>10, <2>5, GoesTo DEF Carry, Rest, Unclaimed
    <3>3. QED
      BY <2>1, <3>1, <3>2, NewsMoves DEF files
  <2>6. QED
    BY <2>4, <2>5
<1>11. CASE CarryWrite(t)
  <2>1. /\ pc[t] = "carryWrite" /\ pc'[t] = "idle" /\ dbMeta' = zipMeta /\ UNCHANGED <<zip, zipMeta>>
        /\ zipMeta # None /\ zipMeta.sha = zip
    BY <1>1, <1>11, GoesTo DEF CarryWrite, Rest, News, Noting, zipVars
  <2>2. QED
    BY <2>1 DEF News, Foreign, Importing, Rewriting, Renewing, Noting, Level
<1>12. CASE Offer(t)
  <2>1. pc[t] = "offer" /\ UNCHANGED files /\ (Ahead \/ Level) /\ pc'[t] \in Unclaimed
    BY <1>1, <1>12, GoesTo DEF Offer, News, Carrying, Rest, Unclaimed
  <2>2. QED
    BY <2>1, NewsMoves DEF files
<1>13. QED
  BY <1>2, <1>3, <1>4, <1>5, <1>6, <1>7, <1>8, <1>9, <1>10, <1>11, <1>12 DEF CheckStep

LEMMA NextNews ==
    ASSUME CheckAlone, IInv, Told, \A t \in Tasks : News(t), [Next]_vars
    PROVE  \A t \in Tasks : News(t)'
<1>1. SUFFICES ASSUME NEW t \in Tasks PROVE News(t)'
  OBVIOUS
<1>2. TypeOK /\ News(t) /\ ~Crash /\ ~LoseDatabase /\ Tasks = Checks /\ \A s \in Tasks : s = t
  BY NoFaults DEF IInv
<1>3. CASE Grant
  <2>1. queue \in Seq(Tasks) /\ queue # <<>> /\ UNCHANGED files /\ loc' = loc
    BY <1>2, <1>3 DEF Grant, TypeOK
  <2>2. Head(queue) = t /\ pc[t] \in Waiting
    <3>1. Len(queue) \in Nat \ {0} /\ Head(queue) = queue[1] /\ queue[1] \in Tasks
      BY <2>1
    <3>2. QED
      BY <1>2, <3>1 DEF IInv, LockHeld
  <2>3. pc[t] \in {"waitRefresh", "waitFetch"}
    BY <1>2, <2>2 DEF Waiting, News, Foreign
  <2>4. pc'[t] = Inside[pc[t]]
    BY <1>2, <1>3, <2>2, GoesTo DEF Grant
  <2>5. CASE pc[t] = "waitRefresh"
    <3>1. pc'[t] = "routes"
      BY <2>2, <2>4, <2>5 DEF Inside
    <3>2. QED
      BY <1>2, <2>1, <2>5, <3>1 DEF News, files, Foreign, Importing, Rewriting, Renewing, Noting, Ahead
  <2>6. CASE pc[t] = "waitFetch"
    <3>1. pc'[t] \in Unclaimed
      BY <2>2, <2>4, <2>6 DEF Inside, Unclaimed
    <3>2. Ahead \/ Level
      BY <1>2, <2>6 DEF News, Carrying
    <3>3. QED
      BY <1>2, <2>1, <2>6, <3>1, <3>2, NewsMoves DEF files
  <2>7. QED
    BY <2>3, <2>5, <2>6
<1>4. ASSUME NEW s \in Tasks, Start(s) \/ Step(s)
      PROVE  News(t)'
  <2>1. s = t /\ t \in Checks /\ t \notin Users \cup Flows \cup Prunes
    BY <1>2 DEF CheckAlone
  <2>2. CASE CheckStart(t)
    <3>1. pc[t] = "idle" /\ UNCHANGED files /\ (Ahead \/ Level) /\ pc'[t] \in Unclaimed
      BY <1>2, <2>2, GoesTo DEF CheckStart, News, Carrying, Unclaimed
    <3>2. QED
      BY <1>2, <3>1, NewsMoves DEF files
  <2>3. CASE CheckStep(t)
    BY <1>2, <2>3, CheckNews
  <2>4. CASE RefreshStep(t)
    BY <1>2, <2>4, RefreshNews
  <2>5. ~(UserRetry(t) \/ UserUpdate(t) \/ FlowPick(t) \/ RewriteAsk(t) \/ Optimise(t))
    BY <2>1 DEF UserRetry, UserUpdate, FlowPick, RewriteAsk, Optimise
  <2>6. ~FlowStep(t)
    BY <1>2 DEF News, Foreign, Importing, FlowStep, FlowImport, ImportBuild, ImportCreate, ImportLine,
                Imported, FlowEntry
  <2>7. ~RewriteStep(t)
    BY <1>2 DEF News, Foreign, Rewriting, RewriteStep, RewriteEnter, RewriteCopy, Rewritten
  <2>8. QED
    BY <1>4, <2>1, <2>2, <2>3, <2>4, <2>5, <2>6, <2>7 DEF Start, Step
<1>5. CASE Environment \/ UNCHANGED vars
  <2>1. UNCHANGED <<files, pc, loc>>
    BY <1>2, <1>5 DEF Environment, Publish, Restamp, AddSensor, RemoveSensor, vars
  <2>2. QED
    BY <1>2, <2>1 DEF News, files, Renewing, Noting, Ahead, Level, Carrying
<1>6. QED
  BY <1>3, <1>4, <1>5 DEF Next

LEMMA InitNews == ASSUME CheckAlone, Init PROVE \A t \in Tasks : News(t)
<1>1. /\ zipMeta = FirstRecord /\ FirstRecord # None /\ zipMeta.sha = zip
      /\ dbMeta \in {None, zipMeta} /\ \A t \in Tasks : pc[t] = "idle"
  BY FirstRecordType, FilesAssumption DEF Init, FirstRecord, Record
<1>2. QED
  BY <1>1 DEF News, Foreign, Importing, Rewriting, Renewing, Noting, Level

\* _async_build_kept_zip, the hash the download is told by and the validators
\* carried to the installed record: with one check at a time, no other writer
\* and nothing failing, the database is rebuilt for new bytes only.
THEOREM RebuildOnlyForNewsAlways == ASSUME CheckAlone PROVE Spec => RebuildOnlyForNews
<1> DEFINE AllNews == \A t \in Tasks : News(t)
           Rebuilds == \A t \in Checks : pc[t] = "swapIn" /\ pc'[t] = "installed" => dbLines' # dbLines
<1>1. Init => AllNews
  BY InitNews
<1>2. IInv /\ Told /\ AllNews /\ [Next]_vars => AllNews'
  BY NextNews
<1>3. IInv /\ AllNews /\ [Next]_vars => Rebuilds
  <2>1. SUFFICES ASSUME IInv, AllNews, [Next]_vars, NEW t \in Checks, pc[t] = "swapIn", pc'[t] = "installed"
                 PROVE  dbLines' # dbLines
    OBVIOUS
  <2>2. t \in Tasks /\ TypeOK /\ pc \in [Tasks -> Steps] /\ News(t)
    BY <2>1 DEF Tasks, IInv, TypeOK
  <2>3. SwapIn(t)
    <3>1. \A s \in Tasks : s = t
      BY <2>2, NoFaults
    <3>2. ~Grant
      <4>1. Grant => pc[Head(queue)] \in Waiting /\ Head(queue) \in Tasks
        <5>1. ASSUME Grant
              PROVE  pc[Head(queue)] \in Waiting /\ Head(queue) \in Tasks
          <6>1. queue \in Seq(Tasks) /\ queue # <<>>
            BY <2>2, <5>1 DEF Grant, TypeOK
          <6>2. Len(queue) \in Nat \ {0} /\ Head(queue) = queue[1] /\ queue[1] \in Tasks
            BY <6>1
          <6>3. QED
            BY <2>1, <6>2 DEF IInv, LockHeld
        <5>2. QED
          BY <5>1
      <4>2. QED
        BY <2>1, <3>1, <4>1 DEF Waiting
    <3>3. ~(Environment \/ UNCHANGED vars)
      <4>1. Environment \/ UNCHANGED vars => pc' = pc
        BY <2>2, NoFaults DEF Environment, Publish, Restamp, AddSensor, RemoveSensor, vars
      <4>2. QED
        BY <2>1, <4>1
    <3>4. Start(t) \/ Step(t)
      BY <2>1, <3>1, <3>2, <3>3 DEF Next
    <3>5. ~Start(t)
      BY <2>1 DEF Start, CheckStart, UserRetry, UserUpdate, FlowPick, RewriteAsk, Optimise
    <3>6. ~CheckStep(t)
      BY <2>1 DEF CheckStep, CheckPending, CheckProbe, CheckNote, CheckNoteWrite, CheckProbed, Fetch, Fetched,
                  CheckAct, Carry, CarryWrite, Offer
    <3>7. ~FlowStep(t) /\ ~RewriteStep(t)
      BY <2>1 DEF FlowStep, FlowImport, ImportBuild, ImportCreate, ImportLine, Imported, FlowEntry,
                  RewriteStep, RewriteEnter, RewriteCopy, Rewritten
    <3>8. QED
      BY <2>1, <3>4, <3>5, <3>6, <3>7
         DEF Step, RefreshStep, Refresh, RefreshRoutes, RefreshDownload, KeepZip, RecordZip, Build, SwapLock,
             RecordInstalled, RefreshEnd
  <2>4. staging # None /\ dbLines' = staging
    BY <2>1, <2>2, <2>3, GoesTo DEF SwapIn
  <2>5. Ahead /\ \E l \in Lines : zip \in staging[l]
    BY <2>1, <2>2 DEF News, Renewing
  <2>6. QED
    BY <2>4, <2>5 DEF Ahead
<1>4. (IInv /\ Told /\ AllNews /\ [Next]_vars) => [Rebuilds]_vars
  BY <1>3
<1> HIDE DEF AllNews
<1>5. QED
  BY <1>1, <1>2, <1>4, Invariance, InitTold, NextTold, PTL DEF Spec, RebuildOnlyForNews, Rebuilds

=============================================================================
