------------------------- MODULE SourceServedProofs -------------------------
(***************************************************************************)
(* What the sensors of a source read through a refresh and a rewrite: a    *)
(* refresh brings every line the database holds and the new edition        *)
(* carries (ImportSurvives); and, where only the host, crashes and failures *)
(* come from outside and no flow adds lines, no sensor loses its line      *)
(* (ServedLinesStay) and SourceRefresh implements SourceView               *)
(* (KeepsItsPromise).                                                      *)
(*                                                                         *)
(* The lines a refresh asks for and those a rewrite keeps are read some    *)
(* steps before the rename that counts, a rewrite's even before its lock.  *)
(* Followed and Serving say what of them is still true at each step.       *)
(***************************************************************************)
EXTENDS SourceServed, SourceRecordsProofs

(***************************************************************************)
(* What a refresh asked of the new edition follows what the database held  *)
(* when its lock was taken, and holds until the staging file is in.        *)
(***************************************************************************)
Building == {"download", "keepZip", "recordZip", "build"}

Followed(t) ==
    /\ pc[t] \in Building =>
          loc[t].want = IF RoutesIn(dbLines) = {} /\ ~Whole THEN loc[t].read ELSE RoutesIn(dbLines)
    /\ pc[t] \in {"swapLock", "swapIn"} /\ staging # None =>
          /\ RoutesIn(dbLines) \cap Carries[zip] \subseteq RoutesIn(staging)
          /\ \E asked \in SUBSET Lines : staging = BuiltFrom(zip, asked)

AllFollowed == \A t \in Tasks : Followed(t)

(***************************************************************************)
(* The lines the sensors read, where these do not change: a refresh        *)
(* protects them all, a rewrite keeps those the database has, and what is  *)
(* staged has them.  Lines asked to be kept before the lock was taken are  *)
(* enough, the database having lost lines only in between.                 *)
(***************************************************************************)
Protecting == {"waitRefresh", "routes"} \cup Building
Keeping == {"askPrune", "waitPrune", "copy", "rewriteLock", "rewriteIn"}

\* A database that holds lines and is not read whole gains none.
Narrows(db, next) ==
    ~Whole /\ RoutesIn(db) # {} => RoutesIn(next) # {} /\ RoutesIn(next) \subseteq RoutesIn(db)

Serving(t) ==
    /\ pc[t] \notin {"importRecord", "imported", "entry"}
    /\ pc[t] \in Protecting => readers \subseteq loc[t].read
    /\ pc[t] \in Keeping =>
          \/ readers \subseteq loc[t].want
          \/ ~Whole /\ RoutesIn(dbLines) # {} /\ readers \cap RoutesIn(dbLines) \subseteq loc[t].want
    /\ Staging(t) =>
          /\ readers \cap RoutesIn(dbLines) \subseteq RoutesIn(staging)
          /\ Narrows(dbLines, staging)
    /\ Staging(t) /\ pc[t] \in {"rewriteLock", "rewriteIn"} => staging = CutTo(dbLines, loc[t].want)

Served == \A t \in Tasks : Serving(t)

-----------------------------------------------------------------------------
(* Where the steps go.                                                     *)

Away == Steps \ (Building \cup Swapping)

LEMMA AwaySteps ==
    /\ Building \subseteq Holding /\ {"swapLock", "swapIn"} \subseteq Holding
    /\ {"routes", "refreshed", "fetch", "fetched", "imported", "copy", "rewritten", "done",
        "pending", "probe", "note", "probed", "carry", "act", "offer", "refresh", "entry",
        "askPrune", "waitRefresh", "waitFetch", "waitPrune", "fetchKeep", "fetchRecord",
        "noteWrite", "carryWrite", "installed", "idle", "picked", "waitImport", "import",
        "create", "copyLines", "importRecord"} \subseteq Away
BY StepsHold DEF Away, Building, Swapping, Holding, Refreshing

LEMMA RestAway == ASSUME NEW t PROVE Rest(t) \in Away
BY AwaySteps DEF Rest

LEMMA EnterAway ==
    ASSUME NEW t, NEW wait \in Waiting, Enter(t, wait)
    PROVE  \E step \in Away : Goto(t, step)
<1>1. wait \in Away /\ Inside[wait] \in Away
  BY AwaySteps DEF Inside, Waiting
<1>2. QED
  BY <1>1 DEF Enter

LEMMA BeginRefreshAway ==
    ASSUME NEW t, NEW fromZip, NEW calledBy, BeginRefresh(t, fromZip, calledBy)
    PROVE  \E step \in Away : Goto(t, step)
BY EnterAway, AwaySteps, RestAway DEF BeginRefresh, Continue, Waiting

LEMMA LeavingAway ==
    ASSUME NEW t \in Tasks, Leaving(t), ~RefreshRoutes(t)
    PROVE  \E step \in Away : Goto(t, step)
<1>1. CASE Refresh(t) \/ UserUpdate(t)
  BY <1>1, BeginRefreshAway DEF Refresh, UserUpdate
<1>2. CASE RefreshEnd(t) \/ Fetched(t) \/ Offer(t) \/ Imported(t) \/ FlowEntry(t) \/ Rewritten(t)
  BY <1>2, AwaySteps, RestAway
     DEF RefreshEnd, BackTo, Fetched, Offer, Imported, FlowEntry, Rewritten, Continue
<1>3. CASE \/ UserRetry(t) \/ CheckStart(t) \/ CheckPending(t) \/ CheckProbe(t) \/ CheckAct(t)
           \/ RewriteAsk(t)
  BY <1>3, AwaySteps
     DEF UserRetry, CheckStart, CheckPending, CheckProbe, CheckAct, RewriteAsk
<1>4. CASE CheckProbed(t) \/ RewriteEnter(t) \/ Optimise(t)
  BY <1>4, EnterAway, RestAway DEF CheckProbed, RewriteEnter, Optimise, Continue, Waiting
<1>5. QED
  BY <1>1, <1>2, <1>3, <1>4 DEF Leaving

\* The steps that neither build nor swap.
Aside(t) ==
    \/ RecordInstalled(t) \/ CheckNote(t) \/ CheckNoteWrite(t) \/ Fetch(t) \/ Carry(t)
    \/ CarryWrite(t) \/ FlowPick(t) \/ FlowImport(t)

LEMMA AsideSteps ==
    ASSUME IInv, NEW t \in Tasks, Aside(t)
    PROVE  /\ \E step \in Away : Goto(t, step)
           /\ OthersStay(t) /\ UNCHANGED <<zip, dbFile, dbLines, staging, readers>>
<1>1. \E step \in Away : Goto(t, step)
  BY AwaySteps, RestAway, EnterAway
     DEF Aside, RecordInstalled, CheckNote, CheckNoteWrite, Fetch, Carry, CarryWrite, FlowPick,
         FlowImport, Waiting, Continue
<1>2. OthersStay(t)
  BY DEF OthersStay, IInv, TypeOK, Aside, RecordInstalled, CheckNote, CheckNoteWrite, Fetch,
         Carry, CarryWrite, FlowPick, FlowImport, Continue
<1>3. UNCHANGED <<zip, dbFile, dbLines, staging, readers>>
  BY DEF Aside, RecordInstalled, CheckNote, CheckNoteWrite, Fetch, Carry, CarryWrite, FlowPick,
         FlowImport, files, zipVars, dbVars
<1>4. QED
  BY <1>1, <1>2, <1>3

-----------------------------------------------------------------------------
(* Followed.                                                               *)

\* A step that changes what the others follow is the holder's.
LEMMA FollowedFrame ==
    ASSUME IInv, AllFollowed, NEW t \in Tasks, NEW step, Goto(t, step), OthersStay(t),
           pc[t] \in Holding \/ UNCHANGED <<zip, dbLines, staging>>,
           Followed(t)'
    PROVE  AllFollowed'
<1>1. ASSUME NEW s \in Tasks, s # t PROVE Followed(s)'
  <2>1. pc'[s] = pc[s] /\ loc'[s] = loc[s]
    BY <1>1 DEF Goto, OthersStay, IInv, TypeOK
  <2>2. CASE pc[t] \in Holding
    <3>1. pc[s] \notin Building \cup {"swapLock", "swapIn"}
      BY <1>1, <2>2, OthersOutside, AwaySteps
    <3>2. QED
      BY <2>1, <3>1 DEF Followed
  <2>3. CASE UNCHANGED <<zip, dbLines, staging>>
    BY <2>1, <2>3 DEF AllFollowed, Followed, RoutesIn
  <2>4. QED
    BY <2>2, <2>3
<1>2. QED
  BY <1>1 DEF AllFollowed

LEMMA AwayFollowed ==
    ASSUME IInv, NEW t \in Tasks, NEW step \in Away, Goto(t, step)
    PROVE  Followed(t)'
<1>1. pc'[t] = step
  BY DEF Goto, IInv, TypeOK
<1>2. QED
  BY <1>1 DEF Followed, Away, Swapping

LEMMA LeavingFollowed ==
    ASSUME IInv, AllFollowed, NEW t \in Tasks, Leaving(t)
    PROVE  AllFollowed'
<1>1. OthersStay(t) /\ UNCHANGED <<zip, dbLines, staging>>
  BY LeavingLeaves DEF Leaves, files
<1>2. CASE RefreshRoutes(t)
  <2>1. PICK step \in {"build", "download", "refreshed"} : Goto(t, step)
    BY <1>2 DEF RefreshRoutes, JobEnds
  <2>2. pc'[t] = step
    BY <2>1 DEF Goto, IInv, TypeOK
  <2>3. step # "refreshed" =>
           /\ loc'[t].want = IF RoutesIn(dbLines) = {} /\ ~Whole THEN loc[t].read
                             ELSE RoutesIn(dbLines)
           /\ loc'[t].read = loc[t].read
    BY <1>2, <2>1, <2>2 DEF RefreshRoutes, JobEnds, Goto, IInv, TypeOK, Locals
  <2>4. Followed(t)'
    BY <1>1, <2>1, <2>2, <2>3 DEF Followed, RoutesIn, Building
  <2>5. QED
    BY <1>1, <2>1, <2>4, FollowedFrame
<1>3. CASE ~RefreshRoutes(t)
  BY <1>1, <1>3, LeavingAway, AwayFollowed, FollowedFrame
<1>4. QED
  BY <1>2, <1>3

LEMMA AsideFollowed ==
    ASSUME IInv, AllFollowed, NEW t \in Tasks, Aside(t)
    PROVE  AllFollowed'
BY AsideSteps, AwayFollowed, FollowedFrame

\* From the download to the build the lines wanted stay.
LEMMA FetchingFollowed ==
    ASSUME IInv, AllFollowed, NEW t \in Tasks, RefreshDownload(t) \/ KeepZip(t) \/ RecordZip(t)
    PROVE  AllFollowed'
<1>1. PICK step \in {"keepZip", "refreshed", "recordZip", "fetchRecord", "build", "fetched"} :
          Goto(t, step)
  BY DEF RefreshDownload, KeepZip, RecordZip, JobEnds
<1>2. /\ pc'[t] = step /\ OthersStay(t) /\ dbLines' = dbLines /\ pc[t] \in Holding
      /\ loc'[t].want = loc[t].want /\ loc'[t].read = loc[t].read
  BY <1>1 DEF RefreshDownload, KeepZip, RecordZip, JobEnds, Goto, OthersStay, IInv, TypeOK, Locals,
              Holding, Refreshing, Fetching, files, dbVars
<1>3. step \in Building => pc[t] \in Building
  BY <1>1, <1>2 DEF RefreshDownload, KeepZip, RecordZip, JobEnds, Building, Goto, IInv, TypeOK
<1>4. Followed(t)'
  BY <1>1, <1>2, <1>3 DEF AllFollowed, Followed, RoutesIn
<1>5. QED
  BY <1>1, <1>2, <1>4, FollowedFrame

\* The lines asked for are those the database holds, all the edition's for a
\* source read whole.
LEMMA BuildAsks ==
    ASSUME IInv, AllFollowed, NEW t \in Tasks, pc[t] = "build"
    PROVE  RoutesIn(dbLines) \cap Carries[zip] \subseteq Asked(t)
BY DEF AllFollowed, Followed, Building, Asked

LEMMA BuiltRoutes ==
    ASSUME NEW e, NEW asked
    PROVE  RoutesIn(BuiltFrom(e, asked)) = {l \in Lines : l \in asked /\ l \in Carries[e]}
BY DEF RoutesIn, BuiltFrom

LEMMA BuildFollowed ==
    ASSUME IInv, AllFollowed, NEW t \in Tasks, Build(t)
    PROVE  AllFollowed'
<1>1. PICK step \in {"swapLock", "refreshed"} : Goto(t, step)
  BY DEF Build, JobEnds
<1>2. /\ pc[t] = "build" /\ pc[t] \in Holding /\ pc'[t] = step /\ OthersStay(t)
      /\ UNCHANGED <<zip, dbLines>>
  BY <1>1 DEF Build, JobEnds, Goto, OthersStay, IInv, TypeOK, Holding, Refreshing
<1>3. pc'[t] = "swapLock" => staging' = BuiltFrom(zip, Asked(t))
  BY <1>2 DEF Build, JobEnds, Staged, Goto, IInv, TypeOK
<1>4. Asked(t) \in SUBSET Lines
  BY LocTypes, FilesAssumption DEF Asked, IInv, TypeOK
<1>5. RoutesIn(dbLines) \cap Carries[zip] \subseteq RoutesIn(BuiltFrom(zip, Asked(t)))
  BY <1>2, <1>4, BuildAsks, BuiltRoutes
<1>6. Followed(t)'
  BY <1>1, <1>2, <1>3, <1>4, <1>5 DEF Followed, Building, RoutesIn
<1>7. QED
  BY <1>1, <1>2, <1>6, FollowedFrame

LEMMA SwappingFollowed ==
    ASSUME IInv, AllFollowed, NEW t \in Tasks, SwapLock(t) \/ SwapIn(t) \/ RewriteCopy(t)
    PROVE  AllFollowed'
<1>1. PICK step \in {"swapIn", "rewriteIn", "refreshed", "rewritten", "installed", "rewriteLock"} :
          Goto(t, step)
  BY DEF SwapLock, SwapIn, RewriteCopy
<1>2. /\ pc[t] \in Holding /\ pc'[t] = step /\ OthersStay(t)
  BY <1>1 DEF SwapLock, SwapIn, RewriteCopy, Goto, OthersStay, IInv, TypeOK, Holding, Refreshing,
              Rewriting
<1>3. step = "swapIn" => /\ pc[t] = "swapLock" /\ UNCHANGED <<zip, dbLines>>
                         /\ staging' \in {staging, None}
  BY <1>1, <1>2 DEF SwapLock, SwapIn, RewriteCopy, Goto, IInv, TypeOK, zipVars
<1>4. Followed(t)'
  BY <1>1, <1>2, <1>3 DEF AllFollowed, Followed, Building, RoutesIn
<1>5. QED
  BY <1>1, <1>2, <1>4, FollowedFrame

LEMMA ImportFollowed ==
    ASSUME IInv, AllFollowed, NEW t \in Tasks, ImportBuild(t) \/ ImportCreate(t) \/ ImportLine(t)
    PROVE  AllFollowed'
<1>1. PICK step \in {"importRecord", "create", "copyLines", "imported"} : Goto(t, step)
  BY DEF ImportBuild, ImportCreate, ImportLine
<1>2. pc[t] \in Holding /\ OthersStay(t)
  BY DEF ImportBuild, ImportCreate, ImportLine, OthersStay, IInv, TypeOK, Holding, Importing
<1>3. QED
  BY <1>1, <1>2, AwaySteps, AwayFollowed, FollowedFrame

LEMMA GrantFollowed ==
    ASSUME IInv, AllFollowed, Grant
    PROVE  AllFollowed'
<1>1. PICK h \in Tasks : h = Head(queue) /\ pc[h] \in Waiting
  BY DEF Grant, IInv, TypeOK, LockHeld
<1>2. PICK step : step = Inside[pc[h]]
  OBVIOUS
<1>3. step \in {"routes", "fetch", "import", "copy"}
  BY <1>1, <1>2 DEF Inside, Waiting
<1>4. Goto(h, step) /\ OthersStay(h) /\ UNCHANGED <<zip, dbLines, staging>>
  BY <1>1, <1>2 DEF Grant, OthersStay, files
<1>5. QED
  BY <1>3, <1>4, AwaySteps, AwayFollowed, FollowedFrame

LEMMA EnvironmentFollowed ==
    ASSUME IInv, AllFollowed, Environment
    PROVE  AllFollowed'
<1>1. CASE LoseDatabase
  <2>1. \A s \in Tasks : pc[s] \notin Holding
    BY <1>1, RefreshAssumption DEF LoseDatabase, IInv, LockHeld
  <2>2. \A s \in Tasks : pc'[s] \notin Building \cup {"swapLock", "swapIn"}
    BY <1>1, <2>1, AwaySteps DEF LoseDatabase
  <2>3. QED
    BY <2>2 DEF AllFollowed, Followed
<1>2. CASE Crash
  <2>1. \A s \in Tasks : pc'[s] \in {"idle", "done"}
    BY <1>2 DEF Crash, Rest
  <2>2. QED
    BY <2>1 DEF AllFollowed, Followed, Building
<1>3. CASE UNCHANGED <<zip, dbLines, staging, pc, loc>>
  BY <1>3 DEF AllFollowed, Followed, RoutesIn
<1>4. QED
  BY <1>1, <1>2, <1>3 DEF Environment, Publish, Restamp, AddSensor, RemoveSensor, files

LEMMA InitFollowed == Init => AllFollowed
BY DEF Init, AllFollowed, Followed, Building

LEMMA NextFollowed == IInv /\ AllFollowed /\ [Next]_vars => AllFollowed'
<1> SUFFICES ASSUME IInv, AllFollowed, [Next]_vars PROVE AllFollowed'
  OBVIOUS
<1>1. CASE Grant
  BY <1>1, GrantFollowed
<1>2. ASSUME NEW t \in Tasks, Start(t) \/ Step(t)
      PROVE  AllFollowed'
  BY <1>2, TaskSteps, LeavingFollowed, AsideFollowed, FetchingFollowed, BuildFollowed,
     SwappingFollowed, ImportFollowed DEF Aside
<1>3. CASE Environment
  BY <1>3, EnvironmentFollowed
<1>4. CASE UNCHANGED vars
  BY <1>4 DEF vars, files, AllFollowed, Followed, RoutesIn
<1>5. QED
  BY <1>1, <1>2, <1>3, <1>4 DEF Next

\* The steps of the property: only a rename takes a task from "swapIn", or a
\* crash, which leaves the database.
LEMMA LeavesSwapIn ==
    ASSUME IInv, AllFollowed, [Next]_vars, NEW t \in Tasks, pc[t] = "swapIn", pc'[t] # "swapIn"
    PROVE  \A l \in RoutesIn(dbLines) \cap Carries[zip] : dbLines'[l] # {}
<1>1. CASE dbLines' = dbLines
  BY <1>1 DEF RoutesIn
<1>2. CASE SwapIn(t)
  BY <1>1, <1>2 DEF SwapIn, AllFollowed, Followed, RoutesIn
<1>3. ASSUME NEW s \in Tasks, s # t, Start(s) \/ Step(s)
      PROVE  FALSE
  <2>1. \E step : Goto(s, step)
    BY <1>3, TaskSteps, LeavingLeaves
       DEF Leaves, RefreshDownload, KeepZip, RecordZip, RecordInstalled, CheckNote, CheckNoteWrite,
           Fetch, Carry, CarryWrite, Build, SwapLock, SwapIn, RewriteCopy, FlowPick, FlowImport,
           ImportBuild, ImportCreate, ImportLine, JobEnds, Continue, Enter
  <2>2. QED
    BY <1>3, <2>1 DEF Goto, IInv, TypeOK
<1>4. CASE Start(t) \/ Step(t)
  <2>1. SwapIn(t)
    BY <1>4 DEF Start, Step, CheckStep, RefreshStep, FlowStep, RewriteStep, CheckStart, UserRetry,
        UserUpdate, FlowPick, RewriteAsk, Optimise, CheckPending, CheckProbe, CheckNote,
        CheckNoteWrite, CheckProbed, Fetch, Fetched, CheckAct, Carry, CarryWrite, Offer, Refresh,
        RefreshRoutes, RefreshDownload, KeepZip, RecordZip, Build, SwapLock, RecordInstalled,
        RefreshEnd, FlowImport, ImportBuild, ImportCreate, ImportLine, Imported, FlowEntry,
        RewriteEnter, RewriteCopy, Rewritten
  <2>2. QED
    BY <1>2, <2>1
<1>5. CASE Grant \/ UNCHANGED vars
  BY <1>1, <1>5 DEF Grant, vars, files
<1>6. CASE Environment
  <2>1. CASE LoseDatabase
    BY <2>1, AwaySteps DEF LoseDatabase, IInv, LockHeld, TypeOK
  <2>2. QED
    BY <1>1, <1>6, <2>1 DEF Environment, Publish, Restamp, Crash, AddSensor, RemoveSensor, files
<1>7. QED
  BY <1>3, <1>4, <1>5, <1>6 DEF Next

\* fetch, unpack, copy and rename of a refresh: every line the database held
\* and the new edition carries is in what takes its place, the lines an
\* import added before the refresh had its lock included.
THEOREM ImportSurvivesAlways == Spec => ImportSurvives
<1>1. IInv /\ AllFollowed /\ [Next]_vars =>
          [\A t \in Checks \cup Users : pc[t] = "swapIn" /\ pc'[t] # "swapIn" =>
              \A l \in RoutesIn(dbLines) \cap Carries[zip] : dbLines'[l] # {}]_vars
  BY LeavesSwapIn DEF Tasks
<1>2. QED
  BY <1>1, Invariance, InitFollowed, NextFollowed, PTL DEF Spec, ImportSurvives

-----------------------------------------------------------------------------
(* Serving.                                                                *)

\* The steps at which a task protects no line.
Bare == Steps \ (Protecting \cup Keeping \cup Swapping \cup {"importRecord", "imported", "entry"})

LEMMA BareSteps ==
    /\ {"refreshed", "fetch", "fetched", "rewritten", "done", "pending", "probe", "note", "probed",
        "carry", "act", "offer", "refresh", "waitFetch", "fetchKeep", "fetchRecord", "noteWrite",
        "carryWrite", "installed", "idle"} \subseteq Bare
    /\ \A t : Rest(t) \in Bare
BY StepsHold DEF Bare, Protecting, Building, Keeping, Swapping, Rest

LEMMA BareServing ==
    ASSUME IInv, NEW t \in Tasks, NEW step \in Bare, Goto(t, step)
    PROVE  Serving(t)'
<1>1. pc'[t] = step
  BY DEF Goto, IInv, TypeOK
<1>2. QED
  BY <1>1 DEF Serving, Bare, Staging, Swapping, Keeping

\* What the others protect and keep stays protected and kept, the database
\* losing lines only.
LEMMA ServedFrame ==
    ASSUME IInv, Served, NEW t \in Tasks, NEW step, Goto(t, step), OthersStay(t),
           readers' = readers, Narrows(dbLines, dbLines'),
           pc[t] \in Holding \/ UNCHANGED <<dbLines, staging>>,
           Serving(t)'
    PROVE  Served'
<1>1. ASSUME NEW s \in Tasks, s # t PROVE Serving(s)'
  <2>1. pc'[s] = pc[s] /\ loc'[s] = loc[s] /\ Serving(s)
    BY <1>1 DEF Goto, OthersStay, IInv, TypeOK, Served
  <2>2. CASE pc[t] \in Holding
    <3>1. pc[s] \notin Swapping
      BY <1>1, <2>2, OthersOutside, HoldingSteps
    <3>2. ASSUME pc[s] \in Keeping, ~(readers \subseteq loc[s].want)
          PROVE  /\ ~Whole /\ RoutesIn(dbLines') # {}
                 /\ readers \cap RoutesIn(dbLines') \subseteq loc[s].want
      BY <2>1, <3>2 DEF Serving, Narrows
    <3>3. RoutesIn(dbLines)' = RoutesIn(dbLines')
      BY DEF RoutesIn
    <3>4. QED
      BY <2>1, <3>1, <3>2, <3>3 DEF Serving, Staging
  <2>3. CASE UNCHANGED <<dbLines, staging>>
    <3>1. UNCHANGED <<dbLines, staging, readers>>
      BY <2>3
    <3>2. QED
      BY <2>1, <3>1 DEF Serving, Staging, RoutesIn, Narrows, CutTo
  <2>4. QED
    BY <2>2, <2>3
<1>2. QED
  BY <1>1 DEF Served

LEMMA SameNarrows == ASSUME UNCHANGED dbLines PROVE Narrows(dbLines, dbLines')
BY DEF Narrows

\* A step that neither changes the database nor protects anything.
LEMMA BareServed ==
    ASSUME IInv, Served, NEW t \in Tasks, NEW step \in Bare, Goto(t, step), OthersStay(t),
           UNCHANGED <<readers, dbLines>>, pc[t] \in Holding \/ staging' = staging
    PROVE  Served'
BY BareServing, SameNarrows, ServedFrame

-----------------------------------------------------------------------------
(* What a refresh or a rewrite begins with.                                *)

LEMMA ProtectingServing ==
    ASSUME IInv, NEW t \in Tasks, NEW step \in Protecting, Goto(t, step),
           readers' = readers, readers \subseteq loc'[t].read
    PROVE  Serving(t)'
<1>1. pc'[t] = step
  BY DEF Goto, IInv, TypeOK
<1>2. QED
  BY <1>1 DEF Serving, Protecting, Building, Keeping, Staging, Swapping

LEMMA KeepingServing ==
    ASSUME IInv, NEW t \in Tasks, NEW step \in {"askPrune", "waitPrune", "copy"}, Goto(t, step),
           UNCHANGED <<readers, dbLines>>,
           \/ readers \subseteq loc'[t].want
           \/ /\ ~Whole /\ RoutesIn(dbLines) # {}
              /\ readers \cap RoutesIn(dbLines) \subseteq loc'[t].want
    PROVE  Serving(t)'
<1>1. pc'[t] = step
  BY DEF Goto, IInv, TypeOK
<1>2. RoutesIn(dbLines)' = RoutesIn(dbLines)
  BY DEF RoutesIn
<1>3. QED
  BY <1>1, <1>2 DEF Serving, Protecting, Building, Keeping, Staging, Swapping

LEMMA BeginRefreshServed ==
    ASSUME IInv, Served, NEW t \in Tasks, NEW fromZip, NEW calledBy,
           BeginRefresh(t, fromZip, calledBy)
    PROVE  Served'
<1>1. OthersStay(t) /\ UNCHANGED <<readers, dbLines, staging>>
  BY BeginRefreshLeaves DEF Leaves, files, BeginRefresh
<1>2. CASE lock # NoOne
  BY <1>1, <1>2, BareSteps, BareServed DEF BeginRefresh, Continue
<1>3. CASE lock = NoOne
  <2>1. loc'[t].read = readers
    BY <1>3 DEF BeginRefresh, IInv, TypeOK, NoLocals
  <2>2. PICK step \in {"waitRefresh", "routes"} : Goto(t, step)
    BY <1>3 DEF BeginRefresh, Enter, Inside, Waiting
  <2>3. Serving(t)'
    BY <1>1, <2>1, <2>2, ProtectingServing DEF Protecting
  <2>4. QED
    BY <1>1, <2>2, <2>3, SameNarrows, ServedFrame
<1>4. QED
  BY <1>2, <1>3

LEMMA RefreshingServed ==
    ASSUME IInv, Served, NEW t \in Tasks,
           RefreshRoutes(t) \/ RefreshDownload(t) \/ KeepZip(t) \/ RecordZip(t)
    PROVE  Served'
<1>1. PICK step \in {"download", "keepZip", "recordZip", "build", "refreshed", "fetchRecord",
                     "fetched"} : Goto(t, step)
  BY DEF RefreshRoutes, RefreshDownload, KeepZip, RecordZip, JobEnds
<1>2. /\ pc'[t] = step /\ OthersStay(t) /\ UNCHANGED <<readers, dbLines, staging>>
      /\ loc'[t].read = loc[t].read
  BY <1>1 DEF RefreshRoutes, RefreshDownload, KeepZip, RecordZip, JobEnds, Goto, OthersStay, IInv,
              TypeOK, Locals, files, dbVars
<1>3. CASE step \in Protecting
  <2>1. pc[t] \in Protecting
    BY <1>1, <1>2, <1>3 DEF RefreshRoutes, RefreshDownload, KeepZip, RecordZip, Protecting,
       Building, Goto, IInv, TypeOK
  <2>2. Serving(t)'
    BY <1>1, <1>2, <1>3, <2>1, ProtectingServing DEF Served, Serving
  <2>3. QED
    BY <1>1, <1>2, <2>2, SameNarrows, ServedFrame
<1>4. CASE step \notin Protecting
  <2>1. step \in Bare
    BY <1>1, <1>4, BareSteps DEF Protecting, Building
  <2>2. QED
    BY <1>1, <1>2, <2>1, BareServed
<1>5. QED
  BY <1>3, <1>4

LEMMA RewriteAskServed ==
    ASSUME IInv, Told, Served, NEW t \in Tasks, RewriteAsk(t)
    PROVE  Served'
<1>1. /\ OthersStay(t) /\ UNCHANGED <<readers, dbLines, staging>> /\ Goto(t, "askPrune")
      /\ readers \subseteq Lines
  BY DEF RewriteAsk, AskPrune, AskDropLine, AskIntern, OthersStay, IInv, TypeOK, files
<1>3. \/ readers \subseteq loc'[t].want
      \/ /\ ~Whole /\ RoutesIn(dbLines) # {}
         /\ readers \cap RoutesIn(dbLines) \subseteq loc'[t].want
  <2>1. CASE AskPrune(t) \/ AskIntern(t)
    BY <1>1, <2>1 DEF AskPrune, AskIntern, IInv, TypeOK, Locals
  <2>2. CASE AskDropLine(t)
    <3>1. PICK l \in RoutesIn(dbLines) \ readers : loc'[t].want = RoutesIn(dbLines) \ {l}
      BY <2>2 DEF AskDropLine, IInv, TypeOK, Locals
    <3>2. QED
      BY <2>2, <3>1 DEF AskDropLine
  <2>3. QED
    BY <2>1, <2>2 DEF RewriteAsk
<1>4. Serving(t)'
  BY <1>1, <1>3, KeepingServing
<1>5. QED
  BY <1>1, <1>4, SameNarrows, ServedFrame

LEMMA RewriteEnterServed ==
    ASSUME IInv, Served, NEW t \in Tasks, RewriteEnter(t)
    PROVE  Served'
<1>1. OthersStay(t) /\ UNCHANGED <<readers, dbLines, staging>> /\ pc[t] = "askPrune"
  BY DEF RewriteEnter, Continue, OthersStay, IInv, TypeOK, files
<1>2. CASE lock # NoOne
  BY <1>1, <1>2, BareSteps, BareServed DEF RewriteEnter, Continue
<1>3. CASE lock = NoOne
  <2>1. loc' = loc /\ \E step \in {"waitPrune", "copy"} : Goto(t, step)
    BY <1>3 DEF RewriteEnter, Enter, Inside, Waiting
  <2>2. Serving(t)'
    BY <1>1, <2>1, KeepingServing DEF Served, Serving, Keeping
  <2>3. QED
    BY <1>1, <2>1, <2>2, SameNarrows, ServedFrame
<1>4. QED
  BY <1>2, <1>3

LEMMA OptimiseServed ==
    ASSUME IInv, Served, NEW t \in Tasks, Optimise(t)
    PROVE  Served'
<1>1. /\ OthersStay(t) /\ UNCHANGED <<readers, dbLines, staging>> /\ readers \subseteq Lines
      /\ \E step \in {"waitPrune", "copy"} : Goto(t, step)
  BY DEF Optimise, Enter, Inside, Waiting, OthersStay, IInv, TypeOK, files
<1>2. PICK brought \in SUBSET RoutesIn(dbLines) :
          loc' = [loc EXCEPT ![t].want =
              IF Whole \/ readers \cup brought = {} THEN Lines ELSE readers \cup brought]
  BY DEF Optimise
<1>3. readers \subseteq loc'[t].want
  BY <1>1, <1>2 DEF IInv, TypeOK, Locals
<1>4. Serving(t)'
  BY <1>1, <1>3, KeepingServing
<1>5. QED
  BY <1>1, <1>4, SameNarrows, ServedFrame

LEMMA GrantServed ==
    ASSUME IInv, Unmixed, Served, Grant
    PROVE  Served'
<1>1. PICK h \in Tasks : h = Head(queue) /\ pc[h] \in Waiting
  BY DEF Grant, IInv, TypeOK, LockHeld
<1>2. PICK step : step = Inside[pc[h]]
  OBVIOUS
<1>3. pc[h] # "waitImport"
  BY <1>1 DEF Unmixed, Asking
<1>4. Goto(h, step) /\ OthersStay(h) /\ UNCHANGED <<loc, readers, dbLines, staging>>
  BY <1>1, <1>2 DEF Grant, OthersStay, files
<1>5. CASE pc[h] = "waitRefresh"
  <2>1. step = "routes"
    BY <1>1, <1>2, <1>5 DEF Inside
  <2>2. Serving(h)'
    BY <1>4, <1>5, <2>1, ProtectingServing DEF Protecting, Served, Serving
  <2>3. QED
    BY <1>4, <2>2, SameNarrows, ServedFrame
<1>6. CASE pc[h] = "waitPrune"
  <2>1. step = "copy"
    BY <1>1, <1>2, <1>6 DEF Inside
  <2>2. Serving(h)'
    BY <1>4, <1>6, <2>1, KeepingServing DEF Served, Serving, Keeping
  <2>3. QED
    BY <1>4, <2>2, SameNarrows, ServedFrame
<1>7. CASE pc[h] = "waitFetch"
  <2>1. step = "fetch"
    BY <1>1, <1>2, <1>7 DEF Inside
  <2>2. QED
    BY <1>4, <2>1, BareSteps, BareServed
<1>8. QED
  BY <1>1, <1>3, <1>5, <1>6, <1>7 DEF Waiting

\* The other steps protect nothing.
LEMMA OtherServed ==
    ASSUME IInv, Told, Served, Flows = {}, NEW t \in Tasks,
           \/ RefreshEnd(t) \/ UserRetry(t) \/ CheckStart(t) \/ CheckPending(t) \/ CheckProbe(t)
           \/ CheckProbed(t) \/ Fetched(t) \/ CheckAct(t) \/ Offer(t) \/ Imported(t)
           \/ FlowEntry(t) \/ Rewritten(t) \/ RecordInstalled(t) \/ CheckNote(t)
           \/ CheckNoteWrite(t) \/ Fetch(t) \/ Carry(t) \/ CarryWrite(t)
    PROVE  Served'
<1>1. ~Imported(t) /\ ~FlowEntry(t) /\ pc[t] # "importRecord"
  BY DEF Imported, FlowEntry, Served, Serving
<1>2. OthersStay(t)
  BY <1>1, LeavingLeaves, AsideSteps DEF Leaving, Leaves, Aside
<1>3. UNCHANGED <<readers, dbLines, staging>>
  BY <1>1 DEF RefreshEnd, UserRetry, CheckStart, CheckPending, CheckProbe, CheckProbed, Fetched,
     CheckAct, Offer, Rewritten, RecordInstalled, CheckNote, CheckNoteWrite, Fetch, Carry,
     CarryWrite, files, dbVars
<1>4. \E step \in Bare : Goto(t, step)
  <2>1. CASE \/ RefreshEnd(t) \/ Fetched(t) \/ Offer(t) \/ Rewritten(t) \/ CarryWrite(t)
             \/ Carry(t)
    BY <2>1, BareSteps DEF RefreshEnd, BackTo, Fetched, Offer, Rewritten, Carry, CarryWrite,
       Continue
  <2>2. CASE \/ UserRetry(t) \/ CheckStart(t) \/ CheckPending(t) \/ CheckProbe(t) \/ CheckAct(t)
             \/ CheckNote(t) \/ CheckNoteWrite(t) \/ Fetch(t)
    BY <2>2, BareSteps DEF UserRetry, CheckStart, CheckPending, CheckProbe, CheckAct, CheckNote,
       CheckNoteWrite, Fetch
  <2>3. CASE CheckProbed(t)
    BY <2>3, BareSteps DEF CheckProbed, Enter, Inside, Waiting, Continue
  <2>4. CASE RecordInstalled(t)
    BY <1>1, <2>4, BareSteps DEF RecordInstalled
  <2>5. QED
    BY <1>1, <2>1, <2>2, <2>3, <2>4
<1>5. QED
  BY <1>2, <1>3, <1>4, BareServed

-----------------------------------------------------------------------------
(* What is staged serves.                                                  *)

\* A line protected is asked and carried, or the database has it not; and
\* with a database that has lines, some of them are carried, and no other.
LEMMA BuildServes ==
    ASSUME IInv, AllFollowed, Served, NEW t \in Tasks, pc[t] = "build", Missing(t) = {}
    PROVE  /\ readers \cap RoutesIn(dbLines) \subseteq RoutesIn(Staged(t))
           /\ Narrows(dbLines, Staged(t))
<1>1. /\ loc[t].read \in SUBSET Lines /\ loc[t].want \in SUBSET Lines /\ Carries[zip] \in SUBSET Lines
      /\ RoutesIn(dbLines) \subseteq Lines
  BY LocTypes, FilesAssumption DEF IInv, TypeOK, RoutesIn
<1>2. /\ readers \subseteq loc[t].read
      /\ loc[t].want = IF RoutesIn(dbLines) = {} /\ ~Whole THEN loc[t].read ELSE RoutesIn(dbLines)
  BY DEF AllFollowed, Followed, Served, Serving, Building, Protecting
<1>3. RoutesIn(Staged(t)) = Asked(t) \cap Carries[zip]
  <2>1. Asked(t) \in SUBSET Lines
    BY <1>1 DEF Asked
  <2>2. QED
    BY <1>1, <2>1, BuiltRoutes DEF Staged
<1>4. CASE Whole
  <2>1. loc[t].read \subseteq Carries[zip]
    BY <1>4 DEF Missing
  <2>2. QED
    BY <1>2, <1>3, <1>4, <2>1 DEF Asked, Narrows
<1>5. CASE ~Whole /\ RoutesIn(dbLines) = {}
  BY <1>5 DEF Narrows
<1>6. CASE ~Whole /\ RoutesIn(dbLines) # {}
  <2>1. loc[t].want = RoutesIn(dbLines) /\ Asked(t) = RoutesIn(dbLines)
    BY <1>2, <1>6 DEF Asked
  <2>2. /\ RoutesIn(dbLines) \ Carries[zip] # RoutesIn(dbLines)
        /\ (RoutesIn(dbLines) \ Carries[zip]) \cap loc[t].read = {}
    BY <1>6, <2>1 DEF Missing
  <2>3. QED
    BY <1>2, <1>3, <2>1, <2>2 DEF Narrows
<1>7. QED
  BY <1>4, <1>5, <1>6

LEMMA BuildServed ==
    ASSUME IInv, AllFollowed, Served, NEW t \in Tasks, Build(t)
    PROVE  Served'
<1>1. PICK step \in {"swapLock", "refreshed"} : Goto(t, step)
  BY DEF Build, JobEnds
<1>2. /\ pc[t] = "build" /\ pc[t] \in Holding /\ pc'[t] = step /\ OthersStay(t)
      /\ UNCHANGED <<dbLines, readers>>
  BY <1>1 DEF Build, JobEnds, Goto, OthersStay, IInv, TypeOK, Holding, Refreshing
<1>3. CASE step = "swapLock"
  <2>1. staging' = Staged(t) /\ Missing(t) = {}
    BY <1>2, <1>3 DEF Build, JobEnds, Goto, IInv, TypeOK
  <2>2. /\ readers \cap RoutesIn(dbLines) \subseteq RoutesIn(staging')
        /\ Narrows(dbLines, staging')
    BY <1>2, <2>1, BuildServes
  <2>3. /\ RoutesIn(dbLines)' = RoutesIn(dbLines) /\ RoutesIn(staging)' = RoutesIn(staging')
        /\ Narrows(dbLines, staging)' = Narrows(dbLines, staging')
    BY <1>2 DEF RoutesIn, Narrows
  <2>4. Serving(t)'
    BY <1>2, <1>3, <2>2, <2>3 DEF Serving, Protecting, Building, Keeping
  <2>5. QED
    BY <1>1, <1>2, <2>4, SameNarrows, ServedFrame
<1>4. CASE step = "refreshed"
  BY <1>1, <1>2, <1>4, BareSteps, BareServed
<1>5. QED
  BY <1>3, <1>4

LEMMA SwapLockServed ==
    ASSUME IInv, Served, NEW t \in Tasks, SwapLock(t)
    PROVE  Served'
<1>1. PICK step \in {"swapIn", "rewriteIn", "refreshed", "rewritten"} : Goto(t, step)
  BY DEF SwapLock
<1>2. /\ pc[t] \in Holding /\ pc'[t] = step /\ OthersStay(t) /\ UNCHANGED <<dbLines, readers>>
  BY <1>1 DEF SwapLock, Goto, OthersStay, IInv, TypeOK, Holding, Refreshing, Rewriting
<1>3. CASE step \in {"swapIn", "rewriteIn"}
  <2>1. /\ UNCHANGED <<staging, loc>>
        /\ pc[t] = IF step = "swapIn" THEN "swapLock" ELSE "rewriteLock"
    BY <1>1, <1>2, <1>3 DEF SwapLock, Goto, IInv, TypeOK
  <2>2. Serving(t)'
    BY <1>2, <1>3, <2>1 DEF Served, Serving, Protecting, Building, Keeping, Staging, Swapping,
       RoutesIn, Narrows, CutTo
  <2>3. QED
    BY <1>1, <1>2, <2>2, SameNarrows, ServedFrame
<1>4. CASE step \in {"refreshed", "rewritten"}
  BY <1>1, <1>2, <1>4, BareSteps, BareServed
<1>5. QED
  BY <1>1, <1>3, <1>4

LEMMA SwapInServed ==
    ASSUME IInv, Served, NEW t \in Tasks, SwapIn(t)
    PROVE  Served'
<1>1. PICK step \in {"rewritten", "refreshed", "installed"} : Goto(t, step)
  BY DEF SwapIn
<1>2. /\ pc[t] \in Holding /\ OthersStay(t) /\ readers' = readers
  BY <1>1 DEF SwapIn, OthersStay, IInv, TypeOK, Holding, Refreshing, Rewriting
<1>3. Narrows(dbLines, dbLines')
  BY DEF SwapIn, Served, Serving, Staging, Swapping, Narrows
<1>4. Serving(t)'
  BY <1>1, BareSteps, BareServing
<1>5. QED
  BY <1>1, <1>2, <1>3, <1>4, ServedFrame

LEMMA RewriteCopyServed ==
    ASSUME IInv, Served, NEW t \in Tasks, RewriteCopy(t)
    PROVE  Served'
<1>1. PICK step \in {"rewriteLock", "rewritten"} : Goto(t, step)
  BY DEF RewriteCopy
<1>2. /\ pc[t] = "copy" /\ pc[t] \in Holding /\ pc'[t] = step /\ OthersStay(t)
      /\ UNCHANGED <<dbLines, readers, loc>>
  BY <1>1 DEF RewriteCopy, Goto, OthersStay, IInv, TypeOK, Holding, Rewriting
<1>3. CASE step = "rewriteLock"
  <2>1. staging' = CutTo(dbLines, loc[t].want) /\ loc[t].want \cap RoutesIn(dbLines) # {}
    BY <1>2, <1>3 DEF RewriteCopy, Goto, IInv, TypeOK
  <2>2. RoutesIn(staging') = loc[t].want \cap RoutesIn(dbLines)
    BY <2>1 DEF RoutesIn, CutTo
  <2>3. readers \cap RoutesIn(dbLines) \subseteq loc[t].want
    BY <1>2 DEF Served, Serving, Keeping
  <2>4. /\ readers \cap RoutesIn(dbLines) \subseteq RoutesIn(staging')
        /\ Narrows(dbLines, staging')
    BY <2>1, <2>2, <2>3 DEF Narrows
  <2>5. /\ RoutesIn(dbLines)' = RoutesIn(dbLines) /\ RoutesIn(staging)' = RoutesIn(staging')
        /\ Narrows(dbLines, staging)' = Narrows(dbLines, staging')
        /\ CutTo(dbLines, loc[t].want)' = CutTo(dbLines, loc[t].want)
    BY <1>2 DEF RoutesIn, Narrows, CutTo
  <2>6. Serving(t)'
    BY <1>2, <1>3, <2>1, <2>4, <2>5 DEF Served, Serving, Protecting, Building, Keeping
  <2>7. QED
    BY <1>1, <1>2, <2>6, SameNarrows, ServedFrame
<1>4. CASE step = "rewritten"
  BY <1>1, <1>2, <1>4, BareSteps, BareServed
<1>5. QED
  BY <1>3, <1>4

\* The environment where nothing but crashes and editions comes from outside.
LEMMA EnvironmentServed ==
    ASSUME IInv, Served, "sensors" \notin Happens, "lose" \notin Happens, Environment
    PROVE  Served'
<1>1. CASE Crash
  <2>1. \A s \in Tasks : pc'[s] \in {"idle", "done"}
    BY <1>1 DEF Crash, Rest
  <2>2. QED
    BY <2>1 DEF Served, Serving, Protecting, Building, Keeping, Staging, Swapping
<1>2. CASE UNCHANGED <<dbLines, staging, readers, pc, loc>>
  BY <1>2 DEF Served, Serving, Staging, RoutesIn, Narrows, CutTo
<1>3. QED
  BY <1>1, <1>2 DEF Environment, Publish, Restamp, LoseDatabase, AddSensor, RemoveSensor, files

LEMMA InitServed == Init => Served
<1> SUFFICES ASSUME Init PROVE Served
  OBVIOUS
<1>1. \A t \in Tasks : pc[t] = "idle"
  BY DEF Init
<1>2. QED
  BY <1>1 DEF Served, Serving, Protecting, Building, Keeping, Staging, Swapping

LEMMA NextServed ==
    ASSUME Flows = {}, "sensors" \notin Happens, "lose" \notin Happens
    PROVE  IInv /\ Told /\ Unmixed /\ AllFollowed /\ Served /\ [Next]_vars => Served'
<1> SUFFICES ASSUME IInv, Told, Unmixed, AllFollowed, Served, [Next]_vars PROVE Served'
  OBVIOUS
<1>1. CASE Grant
  BY <1>1, GrantServed
<1>2. ASSUME NEW t \in Tasks, Start(t) \/ Step(t)
      PROVE  Served'
  <2>1. CASE Leaving(t)
    BY <2>1, BeginRefreshServed, RefreshingServed, RewriteAskServed, RewriteEnterServed,
       OptimiseServed, OtherServed DEF Leaving, Refresh, UserUpdate
  <2>2. QED
    BY <1>2, <2>1, TaskSteps, NoImport, RefreshingServed, OtherServed, BuildServed, SwapLockServed,
       SwapInServed, RewriteCopyServed
<1>3. CASE Environment
  BY <1>3, EnvironmentServed
<1>4. CASE UNCHANGED vars
  BY <1>4 DEF vars, files, Served, Serving, Staging, RoutesIn, Narrows, CutTo
<1>5. QED
  BY <1>1, <1>2, <1>3, <1>4 DEF Next

-----------------------------------------------------------------------------
(* The promise.                                                            *)

\* Only the rename of a staging file changes what is served.
Renames(t) == SwapIn(t) /\ staging # None

LEMMA OnlyTheRename ==
    ASSUME IInv, Unmixed, Served, Flows = {}, "sensors" \notin Happens, "lose" \notin Happens,
           [Next]_vars
    PROVE  (dbLines' = dbLines /\ readers' = readers) \/ \E t \in Tasks : Renames(t)
<1>1. CASE Grant \/ UNCHANGED vars
  BY <1>1 DEF Grant, vars, files
<1>2. ASSUME NEW t \in Tasks, Start(t) \/ Step(t)
      PROVE  (dbLines' = dbLines /\ readers' = readers) \/ Renames(t)
  <2>1. ~Imported(t) /\ ~FlowEntry(t)
    BY DEF Imported, FlowEntry, Served, Serving
  <2>2. CASE Leaving(t)
    <3>1. UNCHANGED files
      BY <2>2, LeavingLeaves DEF Leaves
    <3>2. readers' = readers
      BY <2>1, <2>2 DEF Leaving, Refresh, RefreshRoutes, RefreshEnd, UserRetry, UserUpdate,
         BeginRefresh, CheckStart, CheckPending, CheckProbe, CheckProbed, Fetched, CheckAct, Offer,
         RewriteAsk, RewriteEnter, Optimise, Rewritten
    <3>3. QED
      BY <3>1, <3>2 DEF files
  <2>3. CASE SwapIn(t)
    <3>1. CASE staging = None
      BY <2>3, <3>1 DEF SwapIn
    <3>2. CASE staging # None
      BY <2>3, <3>2 DEF Renames
    <3>3. QED
      BY <3>1, <3>2
  <2>4. CASE \/ RefreshDownload(t) \/ KeepZip(t) \/ RecordZip(t) \/ RecordInstalled(t)
             \/ CheckNote(t) \/ CheckNoteWrite(t) \/ Fetch(t) \/ Carry(t) \/ CarryWrite(t)
             \/ Build(t) \/ SwapLock(t) \/ RewriteCopy(t)
    BY <2>4 DEF RefreshDownload, KeepZip, RecordZip, RecordInstalled, CheckNote, CheckNoteWrite,
       Fetch, Carry, CarryWrite, Build, SwapLock, RewriteCopy, files, dbVars
  <2>5. QED
    BY <1>2, <2>2, <2>3, <2>4, TaskSteps, NoImport
<1>3. CASE Environment
  BY <1>3 DEF Environment, Publish, Restamp, LoseDatabase, Crash, AddSensor, RemoveSensor, files
<1>4. QED
  BY <1>1, <1>2, <1>3 DEF Next

LEMMA RenameServes ==
    ASSUME IInv, Served, NEW t \in Tasks, Renames(t)
    PROVE  /\ dbLines' = staging /\ readers' = readers
           /\ \A l \in readers : dbLines[l] # {} => dbLines'[l] # {}
<1>1. dbLines' = staging /\ readers' = readers /\ Staging(t) /\ readers \subseteq Lines
  BY DEF Renames, SwapIn, Staging, Swapping, IInv, TypeOK
<1>2. readers \cap RoutesIn(dbLines) \subseteq RoutesIn(staging)
  BY <1>1 DEF Served, Serving
<1>3. QED
  BY <1>1, <1>2 DEF RoutesIn

\* The rename of a refresh installs the zip's edition, no older than what is
\* served; a rewrite's drops the lines it did not keep.
LEMMA RenameIsAStep ==
    ASSUME IInv, Told, AllFollowed, Served, NEW t \in Tasks, Renames(t)
    PROVE  View!Install \/ View!Drop
<1>1. /\ dbLines' = staging /\ readers' = readers /\ View!NoneLost
  BY RenameServes DEF View!NoneLost
<1>2. pc[t] \in {"swapIn", "rewriteIn"} /\ staging # None
  BY DEF Renames, SwapIn
<1>3. CASE pc[t] = "swapIn"
  <2>1. PICK asked \in SUBSET Lines : staging = BuiltFrom(zip, asked)
    BY <1>2, <1>3 DEF AllFollowed, Followed
  <2>2. zip \in Editions
    BY DEF IInv, TypeOK
  <2>3. \A f \in View!EditionsIn(dbLines) : f <= zip
    BY DEF Told, FilesTold, Upto, View!EditionsIn
  <2>4. QED
    BY <1>1, <2>1, <2>2, <2>3 DEF View!Install, View!BuiltFrom, BuiltFrom, View!Editions, Editions
<1>4. CASE pc[t] = "rewriteIn"
  <2>1. staging = CutTo(dbLines, loc[t].want) /\ loc[t].want \in SUBSET Lines
    BY <1>2, <1>4, LocTypes DEF Served, Serving, Staging, Swapping, IInv
  <2>2. QED
    BY <1>1, <2>1 DEF View!Drop, View!CutTo, CutTo
<1>5. QED
  BY <1>2, <1>3, <1>4

\* Where no line is imported and no sensor or file changes from outside, a
\* refresh and a rewrite, raced by each other, stopped anywhere, never take
\* from a sensor the line it reads, though what they protect was read before
\* the lock.
THEOREM ServedLinesStayAlways ==
    ASSUME Flows = {}, "sensors" \notin Happens, "lose" \notin Happens
    PROVE  Spec => ServedLinesStay
<1>1. IInv /\ Unmixed /\ Served /\ [Next]_vars =>
          [\A l \in readers \cap readers' : dbLines[l] # {} => dbLines'[l] # {}]_vars
  BY OnlyTheRename, RenameServes
<1>2. QED
  BY <1>1, Invariance, InitTold, NextTold, NextUnmixed, InitFollowed, NextFollowed, InitServed,
     NextServed, Flows = {}, "sensors" \notin Happens, "lose" \notin Happens, PTL
     DEF Spec, ServedLinesStay

\* There, the whole of the source's machinery shows its sensors nothing but
\* what SourceView promises.
THEOREM KeepsItsPromiseAlways ==
    ASSUME Flows = {}, "sensors" \notin Happens, "lose" \notin Happens
    PROVE  Spec => KeepsItsPromise
<1>1. Init => View!Init
  BY InitIInv DEF IInv, TypeOK, View!Init, View!TypeOK, View!Database, Database, View!Editions,
     Editions
<1>2. IInv /\ Told /\ Unmixed /\ AllFollowed /\ Served /\ [Next]_vars =>
          [View!Next]_<<dbLines, readers>>
  BY OnlyTheRename, RenameIsAStep DEF View!Next
<1>3. QED
  BY <1>1, <1>2, Invariance, InitTold, NextTold, NextUnmixed, InitFollowed, NextFollowed,
     InitServed, NextServed, Flows = {}, "sensors" \notin Happens, "lose" \notin Happens, PTL
     DEF Spec, KeepsItsPromise, View!Spec
=============================================================================
