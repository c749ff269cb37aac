------------------------ MODULE SourceRefreshProofs ------------------------
(***************************************************************************)
(* Type correctness and mutual exclusion of SourceRefresh, for any number  *)
(* of checks, users, flows and rewrites, any lines and any editions.       *)
(*                                                                         *)
(* Neither is inductive as it stands.  A task that adopts a download must  *)
(* hold one (DownloadHeld), or the zip it writes is no edition; and a task *)
(* the lock is granted to must be waiting for it, once (LockHeld), or the  *)
(* grant lets it in beside another.                                        *)
(***************************************************************************)
EXTENDS SourceRefresh, TLAPS

USE FilesAssumption, RefreshAssumption

Adopting == {"keepZip", "recordZip", "fetchKeep", "fetchRecord"}

DownloadHeld ==
    \A t \in Tasks : pc[t] \in Adopting =>
        loc[t].got \in Record /\ loc[t].got.sha \in Editions

LockHeld ==
    /\ \A t \in Tasks : pc[t] \in Holding => lock = t
    /\ \A i \in 1..Len(queue) : pc[queue[i]] \in Waiting
    /\ \A i, j \in 1..Len(queue) : queue[i] = queue[j] => i = j

IInv == TypeOK /\ DownloadHeld /\ LockHeld

-----------------------------------------------------------------------------
(* The values the actions store.                                           *)

LEMMA StepsHold ==
    /\ "act" \in Steps /\ "askPrune" \in Steps /\ "build" \in Steps /\ "carry" \in Steps
    /\ "carryWrite" \in Steps /\ "copy" \in Steps /\ "copyLines" \in Steps
    /\ "create" \in Steps /\ "done" \in Steps /\ "download" \in Steps /\ "entry" \in Steps
    /\ "fetch" \in Steps /\ "fetchKeep" \in Steps /\ "fetchRecord" \in Steps
    /\ "fetched" \in Steps /\ "idle" \in Steps /\ "import" \in Steps
    /\ "importRecord" \in Steps /\ "imported" \in Steps /\ "installed" \in Steps
    /\ "keepZip" \in Steps /\ "note" \in Steps /\ "noteWrite" \in Steps
    /\ "offer" \in Steps /\ "pending" \in Steps /\ "picked" \in Steps /\ "probe" \in Steps
    /\ "probed" \in Steps /\ "recordZip" \in Steps /\ "refresh" \in Steps
    /\ "refreshed" \in Steps /\ "rewriteIn" \in Steps /\ "rewriteLock" \in Steps
    /\ "rewritten" \in Steps /\ "routes" \in Steps /\ "swapIn" \in Steps
    /\ "swapLock" \in Steps /\ "waitFetch" \in Steps /\ "waitImport" \in Steps
    /\ "waitPrune" \in Steps /\ "waitRefresh" \in Steps
BY DEF Steps, Waiting, Holding, Refreshing, Fetching, Importing, Rewriting, Outside

LEMMA OutcomesHold ==
    /\ "none" \in Outcomes /\ "ok" \in Outcomes /\ "failed" \in Outcomes
    /\ "missing" \in Outcomes /\ "same" \in Outcomes /\ "new" \in Outcomes
    /\ "kept" \in Outcomes
BY DEF Outcomes

LEMMA BuiltFromType ==
    ASSUME NEW e \in Editions, NEW asked \in SUBSET Lines
    PROVE  BuiltFrom(e, asked) \in Database
BY DEF BuiltFrom, Database

LEMMA CutToType ==
    ASSUME NEW db \in Database, NEW kept \in SUBSET Lines
    PROVE  CutTo(db, kept) \in Database
BY DEF CutTo, Database

LEMMA BlankType == Blank \in Record
BY DEF Blank, Record, Stamps

LEMMA VersionLabelType ==
    ASSUME NEW meta \in Records
    PROVE  VersionLabel(meta) \in Labels
BY DEF VersionLabel, Records, Record, Labels

LEMMA ProbeAnswerType ==
    ASSUME NEW meta \in Records, NEW stamp \in Stamps
    PROVE  ProbeAnswer(meta, stamp) \in Answers
BY DEF ProbeAnswer, Answers

LEMMA NoLocalsType == NoLocals \in Locals
BY DEF NoLocals, Locals, Records, Editions, Answers, Outcomes

LEMMA FirstRecordType == FirstRecord \in Record
BY DEF FirstRecord, Record, Stamps, Editions

(* What a task's locals hold, and that storing one keeps them so.          *)
LEMMA LocTypes ==
    ASSUME TypeOK, NEW t \in Tasks
    PROVE  /\ loc[t] \in Locals
           /\ loc[t].useZip \in BOOLEAN
           /\ loc[t].caller \in {"pending", "found", "user"}
           /\ loc[t].read \in SUBSET Lines
           /\ loc[t].want \in SUBSET Lines
           /\ loc[t].got \in Records
           /\ loc[t].noted \in Records
           /\ loc[t].answer \in Answers
           /\ loc[t].news \in Editions
BY DEF TypeOK, Locals

\* The step writes no locals but t's, and keeps them locals.
OwnLocals(t) ==
    /\ loc' \in [Tasks -> Locals]
    /\ \A s \in Tasks : s # t => loc'[s] = loc[s]

LEMMA LocUpdate ==
    ASSUME TypeOK, NEW t \in Tasks
    PROVE  /\ loc' = loc => OwnLocals(t)
           /\ \A r \in Locals : loc' = [loc EXCEPT ![t] = r] => OwnLocals(t)
           /\ \A v \in Outcomes : loc' = [loc EXCEPT ![t].out = v] => OwnLocals(t)
           /\ \A v \in SUBSET Lines : loc' = [loc EXCEPT ![t].want = v] => OwnLocals(t)
           /\ \A v \in Records : loc' = [loc EXCEPT ![t].got = v] => OwnLocals(t)
           /\ \A v \in Records : loc' = [loc EXCEPT ![t].noted = v] => OwnLocals(t)
           /\ loc' = [loc EXCEPT ![t].fresh = TRUE] => OwnLocals(t)
           /\ \A v, w \in SUBSET Lines :
                 loc' = [loc EXCEPT ![t].want = v, ![t].read = w] => OwnLocals(t)
           /\ loc' = [loc EXCEPT ![t].want = {}, ![t].fresh = TRUE] => OwnLocals(t)
           /\ \A z \in BOOLEAN, c \in {"pending", "found", "user"} :
                 loc' = [loc EXCEPT ![t].useZip = z, ![t].caller = c] => OwnLocals(t)
           /\ \A v \in Outcomes, e \in Editions :
                 loc' = [loc EXCEPT ![t].out = v, ![t].news = e] => OwnLocals(t)
<1>1. loc[t] \in Locals /\ loc \in [Tasks -> Locals]
  BY DEF TypeOK
<1>2. /\ loc' = loc => OwnLocals(t)
      /\ \A r \in Locals : loc' = [loc EXCEPT ![t] = r] => OwnLocals(t)
  BY <1>1 DEF OwnLocals
<1>3. ASSUME NEW v \in Outcomes, loc' = [loc EXCEPT ![t].out = v]
      PROVE  OwnLocals(t)
  <2>1. [loc[t] EXCEPT !.out = v] \in Locals
    BY <1>1 DEF Locals
  <2>2. QED
    BY <1>1, <1>3, <2>1 DEF OwnLocals
<1>4. ASSUME NEW v \in SUBSET Lines, loc' = [loc EXCEPT ![t].want = v]
      PROVE  OwnLocals(t)
  <2>1. [loc[t] EXCEPT !.want = v] \in Locals
    BY <1>1 DEF Locals
  <2>2. QED
    BY <1>1, <1>4, <2>1 DEF OwnLocals
<1>5. ASSUME NEW v \in Records, loc' = [loc EXCEPT ![t].got = v]
      PROVE  OwnLocals(t)
  <2>1. [loc[t] EXCEPT !.got = v] \in Locals
    BY <1>1 DEF Locals
  <2>2. QED
    BY <1>1, <1>5, <2>1 DEF OwnLocals
<1>6. ASSUME NEW v \in Records, loc' = [loc EXCEPT ![t].noted = v]
      PROVE  OwnLocals(t)
  <2>1. [loc[t] EXCEPT !.noted = v] \in Locals
    BY <1>1 DEF Locals
  <2>2. QED
    BY <1>1, <1>6, <2>1 DEF OwnLocals
<1>7. ASSUME loc' = [loc EXCEPT ![t].fresh = TRUE]
      PROVE  OwnLocals(t)
  <2>1. [loc[t] EXCEPT !.fresh = TRUE] \in Locals
    BY <1>1 DEF Locals
  <2>2. QED
    BY <1>1, <1>7, <2>1 DEF OwnLocals
<1>8. ASSUME NEW v \in SUBSET Lines, NEW w \in SUBSET Lines,
             loc' = [loc EXCEPT ![t].want = v, ![t].read = w]
      PROVE  OwnLocals(t)
  <2>1. [[loc[t] EXCEPT !.want = v] EXCEPT !.read = w] \in Locals
    BY <1>1 DEF Locals
  <2>2. QED
    BY <1>1, <1>8, <2>1 DEF OwnLocals
<1>9. ASSUME loc' = [loc EXCEPT ![t].want = {}, ![t].fresh = TRUE]
      PROVE  OwnLocals(t)
  <2>1. [[loc[t] EXCEPT !.want = {}] EXCEPT !.fresh = TRUE] \in Locals
    BY <1>1 DEF Locals
  <2>2. QED
    BY <1>1, <1>9, <2>1 DEF OwnLocals
<1>10. ASSUME NEW z \in BOOLEAN, NEW c \in {"pending", "found", "user"},
              loc' = [loc EXCEPT ![t].useZip = z, ![t].caller = c]
       PROVE  OwnLocals(t)
  <2>1. [[loc[t] EXCEPT !.useZip = z] EXCEPT !.caller = c] \in Locals
    BY <1>1 DEF Locals
  <2>2. QED
    BY <1>1, <1>10, <2>1 DEF OwnLocals
<1>11. ASSUME NEW v \in Outcomes, NEW e \in Editions,
              loc' = [loc EXCEPT ![t].out = v, ![t].news = e]
       PROVE  OwnLocals(t)
  <2>1. [[loc[t] EXCEPT !.out = v] EXCEPT !.news = e] \in Locals
    BY <1>1 DEF Locals
  <2>2. QED
    BY <1>1, <1>11, <2>1 DEF OwnLocals
<1>12. QED
  BY <1>2, <1>3, <1>4, <1>5, <1>6, <1>7, <1>8, <1>9, <1>10, <1>11

LEMMA GotoType ==
    ASSUME TypeOK, NEW t \in Tasks, NEW step \in Steps, Goto(t, step)
    PROVE  pc' \in [Tasks -> Steps]
BY DEF Goto, TypeOK

LEMMA RestType ==
    ASSUME NEW t
    PROVE  Rest(t) \in Steps
BY StepsHold DEF Rest

LEMMA InsideType ==
    ASSUME NEW wait \in Waiting
    PROVE  Inside[wait] \in Steps
BY DEF Steps, Waiting, Holding, Refreshing, Fetching, Importing, Rewriting, Inside

LEMMA ContinueTypes ==
    ASSUME TypeOK, NEW t \in Tasks, NEW step \in Steps, Continue(t, step)
    PROVE  pc' \in [Tasks -> Steps] /\ OwnLocals(t)
<1>1. pc' \in [Tasks -> Steps]
  BY GotoType DEF Continue
<1>2. QED
  BY <1>1, LocUpdate, NoLocalsType DEF Continue

LEMMA EnterTypes ==
    ASSUME TypeOK, NEW t \in Tasks, NEW wait \in Waiting, Enter(t, wait)
    PROVE  /\ lock' \in Tasks \cup {NoOne}
           /\ queue' \in Seq(Tasks)
           /\ pc' \in [Tasks -> Steps]
<1>1. Inside[wait] \in Steps /\ wait \in Steps
  BY InsideType DEF Steps
<1>2. pc' \in [Tasks -> Steps]
  BY <1>1, GotoType DEF Enter
<1>3. lock \in Tasks \cup {NoOne} /\ queue \in Seq(Tasks)
  BY DEF TypeOK
<1>4. lock' \in Tasks \cup {NoOne} /\ queue' \in Seq(Tasks)
  BY <1>3 DEF Enter
<1>5. QED
  BY <1>2, <1>4

-----------------------------------------------------------------------------
(* What a step does to the two invariants: the task that moves is the only *)
(* one whose place and locals change.                                      *)

LEMMA StepKinds ==
    /\ Waiting \cap Holding = {}
    /\ Outside \cap (Waiting \cup Holding) = {}
    /\ Adopting \subseteq Holding
    /\ \A w \in Waiting : Inside[w] \in Holding \ Adopting
BY DEF Waiting, Holding, Refreshing, Fetching, Importing, Rewriting, Outside, Adopting, Inside

LEMMA HeldKept ==
    ASSUME TypeOK, DownloadHeld, NEW t \in Tasks, NEW step, Goto(t, step),
           step \notin Adopting, OwnLocals(t)
    PROVE  DownloadHeld'
BY DEF DownloadHeld, Goto, TypeOK, OwnLocals

LEMMA HeldOnEntering ==
    ASSUME TypeOK, DownloadHeld, NEW t \in Tasks, NEW wait \in Waiting, Enter(t, wait),
           OwnLocals(t)
    PROVE  DownloadHeld'
<1>1. PICK step : Goto(t, step) /\ step \in {wait, Inside[wait]}
  BY DEF Enter
<1>2. step \notin Adopting
  BY <1>1, StepKinds
<1>3. QED
  BY <1>1, <1>2, HeldKept

LEMMA LockStays ==
    ASSUME TypeOK, LockHeld, NEW t \in Tasks, NEW step, Goto(t, step),
           pc[t] \notin Waiting,
           step \in Holding => pc[t] \in Holding,
           UNCHANGED lockVars
    PROVE  LockHeld'
<1>1. lock' = lock /\ queue' = queue /\ pc' = [pc EXCEPT ![t] = step]
  BY DEF lockVars, Goto
<1>2. pc \in [Tasks -> Steps] /\ queue \in Seq(Tasks)
  BY DEF TypeOK
<1>3. \A i \in 1..Len(queue) : queue[i] \in Tasks /\ queue[i] # t
  BY <1>2 DEF LockHeld
<1>4. \A s \in Tasks : pc'[s] \in Holding => lock' = s
  BY <1>1, <1>2 DEF LockHeld
<1>5. QED
  BY <1>1, <1>2, <1>3, <1>4 DEF LockHeld

LEMMA LockEntered ==
    ASSUME TypeOK, LockHeld, NEW t \in Tasks, NEW wait \in Waiting, Enter(t, wait),
           pc[t] \in Outside
    PROVE  LockHeld'
<1>1. pc \in [Tasks -> Steps] /\ queue \in Seq(Tasks) /\ NoOne \notin Tasks
  BY DEF TypeOK
<1>2. \A i \in 1..Len(queue) : queue[i] \in Tasks /\ queue[i] # t
  BY <1>1, StepKinds DEF LockHeld
<1>3. CASE lock = NoOne /\ queue = <<>>
  <2>1. lock' = t /\ queue' = queue /\ pc' = [pc EXCEPT ![t] = Inside[wait]]
    BY <1>3 DEF Enter, Goto
  <2>2. \A s \in Tasks : pc'[s] \in Holding => lock' = s
    BY <1>1, <1>3, <2>1 DEF LockHeld
  <2>3. Len(queue') = 0
    BY <1>3, <2>1
  <2>4. QED
    BY <2>2, <2>3 DEF LockHeld
<1>4. CASE ~(lock = NoOne /\ queue = <<>>)
  <2>1. lock' = lock /\ queue' = Append(queue, t) /\ pc' = [pc EXCEPT ![t] = wait]
    BY <1>4 DEF Enter, Goto
  <2>2. \A s \in Tasks : pc'[s] \in Holding => lock' = s
    BY <1>1, <2>1, StepKinds DEF LockHeld
  <2>3. /\ Len(queue') = Len(queue) + 1
        /\ queue'[Len(queue) + 1] = t
        /\ \A i \in 1..Len(queue) : queue'[i] = queue[i]
    BY <1>1, <2>1
  <2>4. \A i \in 1..Len(queue') : pc'[queue'[i]] \in Waiting
    BY <1>1, <1>2, <2>1, <2>3 DEF LockHeld
  <2>5. \A i, j \in 1..Len(queue') : queue'[i] = queue'[j] => i = j
    BY <1>1, <1>2, <2>3 DEF LockHeld
  <2>6. QED
    BY <2>2, <2>4, <2>5 DEF LockHeld
<1>5. QED
  BY <1>3, <1>4

LEMMA LockReleased ==
    ASSUME TypeOK, LockHeld, NEW t \in Tasks, NEW step \in Outside, Goto(t, step),
           pc[t] \in Holding, Release(t), queue' = queue
    PROVE  LockHeld'
<1>1. pc \in [Tasks -> Steps] /\ queue \in Seq(Tasks) /\ lock = t
  BY DEF TypeOK, LockHeld
<1>2. pc' = [pc EXCEPT ![t] = step]
  BY DEF Goto
<1>3. \A i \in 1..Len(queue) : queue[i] \in Tasks /\ queue[i] # t
  BY <1>1, StepKinds DEF LockHeld
<1>4. \A s \in Tasks : pc'[s] \notin Holding
  BY <1>1, <1>2, StepKinds DEF LockHeld
<1>5. QED
  BY <1>1, <1>2, <1>3, <1>4 DEF LockHeld

-----------------------------------------------------------------------------
(* The refresh.                                                            *)

LEMMA GrantStep ==
    ASSUME IInv, Grant
    PROVE  IInv'
<1> DEFINE h == Head(queue)
<1>1. /\ queue \in Seq(Tasks) /\ queue # <<>> /\ pc \in [Tasks -> Steps]
      /\ lock = NoOne /\ lock' = h /\ queue' = Tail(queue)
      /\ pc' = [pc EXCEPT ![h] = Inside[pc[h]]]
      /\ loc' = loc
  BY DEF IInv, TypeOK, Grant, Goto
<1>2. h \in Tasks /\ pc[h] \in Waiting
  BY <1>1 DEF IInv, LockHeld
<1>3. Inside[pc[h]] \in Steps /\ Inside[pc[h]] \in Holding \ Adopting
  BY <1>2, InsideType, StepKinds
<1>4. TypeOK'
  <2>1. lock' \in Tasks \cup {NoOne} /\ queue' \in Seq(Tasks) /\ pc' \in [Tasks -> Steps]
    BY <1>1, <1>2, <1>3
  <2>2. QED
    BY <2>1 DEF IInv, TypeOK, Grant, files, told
<1>5. DownloadHeld'
  BY <1>1, <1>2, <1>3 DEF IInv, DownloadHeld
<1>6. LockHeld'
  <2>1. \A s \in Tasks : pc'[s] \in Holding => lock' = s
    BY <1>1, <1>2 DEF IInv, LockHeld
  <2>2. /\ Len(queue') = Len(queue) - 1
        /\ Len(queue) \in Nat /\ Len(queue) > 0
        /\ h = queue[1]
        /\ \A i \in 1..Len(queue') : queue'[i] = queue[i + 1]
    BY <1>1
  <2>3. \A i \in 1..Len(queue') : queue'[i] \in Tasks /\ queue'[i] # h
    BY <1>1, <2>2 DEF IInv, LockHeld
  <2>4. \A i \in 1..Len(queue') : pc'[queue'[i]] \in Waiting
    BY <1>1, <2>2, <2>3 DEF IInv, LockHeld
  <2>5. \A i, j \in 1..Len(queue') : queue'[i] = queue'[j] => i = j
    BY <1>1, <2>2 DEF IInv, LockHeld
  <2>6. QED
    BY <2>1, <2>4, <2>5 DEF LockHeld
<1>7. QED
  BY <1>4, <1>5, <1>6 DEF IInv

\* A refresh begins from outside the lock: dropped, or at the lock.
LEMMA BeginRefreshStep ==
    ASSUME IInv, NEW t \in Tasks, pc[t] \in Outside,
           NEW fromZip \in BOOLEAN, NEW calledBy \in {"pending", "found", "user"},
           BeginRefresh(t, fromZip, calledBy)
    PROVE  IInv'
<1> DEFINE back == IF calledBy = "pending" THEN "probe" ELSE Rest(t)
<1> DEFINE own == [NoLocals EXCEPT !.useZip = fromZip, !.caller = calledBy, !.read = readers]
<1>0. TypeOK /\ DownloadHeld /\ LockHeld
  BY DEF IInv
<1>1. CASE lock # NoOne
  <2>1. Continue(t, back) /\ UNCHANGED lockVars
    BY <1>1 DEF BeginRefresh
  <2>2. back \in Steps /\ back \in Outside
    BY StepsHold DEF Rest, Outside
  <2>3. pc' \in [Tasks -> Steps] /\ OwnLocals(t)
    BY <1>0, <2>1, <2>2, ContinueTypes
  <2>4. Goto(t, back)
    BY <2>1 DEF Continue
  <2>5. back \notin Adopting /\ back \notin Holding /\ pc[t] \notin Waiting
    BY <2>2, StepKinds
  <2>6. TypeOK'
    BY <1>0, <2>1, <2>3 DEF TypeOK, OwnLocals, BeginRefresh, files, lockVars, told
  <2>7. DownloadHeld' /\ LockHeld'
    BY <1>0, <2>1, <2>3, <2>4, <2>5, HeldKept, LockStays
  <2>8. QED
    BY <2>6, <2>7 DEF IInv
<1>2. CASE lock = NoOne
  <2>1. loc' = [loc EXCEPT ![t] = own] /\ Enter(t, "waitRefresh")
    BY <1>2 DEF BeginRefresh
  <2>2. own \in Locals
    BY <1>0, NoLocalsType DEF Locals, TypeOK
  <2>3. "waitRefresh" \in Waiting
    BY DEF Waiting
  <2>4. OwnLocals(t)
    BY <1>0, <2>1, <2>2, LocUpdate
  <2>5. TypeOK'
    <3>1. lock' \in Tasks \cup {NoOne} /\ queue' \in Seq(Tasks) /\ pc' \in [Tasks -> Steps]
      BY <1>0, <2>1, <2>3, EnterTypes
    <3>2. QED
      BY <1>0, <2>4, <3>1 DEF TypeOK, OwnLocals, BeginRefresh, files, told
  <2>6. DownloadHeld' /\ LockHeld'
    BY <1>0, <2>1, <2>3, <2>4, HeldOnEntering, LockEntered
  <2>7. QED
    BY <2>5, <2>6 DEF IInv
<1>3. QED
  BY <1>1, <1>2

LEMMA RefreshRoutesStep ==
    ASSUME IInv, NEW t \in Tasks, RefreshRoutes(t)
    PROVE  IInv'
<1>0. TypeOK /\ DownloadHeld /\ LockHeld
  BY DEF IInv
<1>1. PICK step \in {"refreshed", "build", "download"} : Goto(t, step)
  BY DEF RefreshRoutes, JobEnds
<1>2. pc[t] \in Holding /\ step \in Steps /\ step \notin Adopting /\ pc[t] \notin Waiting
  BY <1>1, StepsHold DEF RefreshRoutes, Holding, Refreshing, Adopting, Waiting
<1>3. OwnLocals(t)
  <2>1. RoutesIn(dbLines) \in SUBSET Lines
    BY DEF RoutesIn
  <2>2. \/ loc' = [loc EXCEPT ![t].out = "failed"]
        \/ \E v \in SUBSET Lines : loc' = [loc EXCEPT ![t].want = v]
    BY <1>0, <2>1, LocTypes DEF RefreshRoutes, JobEnds
  <2>3. QED
    BY <1>0, <2>2, LocUpdate, OutcomesHold
<1>4. TypeOK'
  BY <1>0, <1>1, <1>2, <1>3, GotoType DEF TypeOK, OwnLocals, RefreshRoutes, files, lockVars, told
<1>5. DownloadHeld' /\ LockHeld'
  BY <1>0, <1>1, <1>2, <1>3, HeldKept, LockStays DEF RefreshRoutes
<1>6. QED
  BY <1>4, <1>5 DEF IInv

LEMMA RefreshDownloadStep ==
    ASSUME IInv, NEW t \in Tasks, RefreshDownload(t)
    PROVE  IInv'
<1> DEFINE fresh == [sha |-> host.ed, stamp |-> host.stamp]
<1>0. TypeOK /\ DownloadHeld /\ LockHeld
  BY DEF IInv
<1>1. fresh \in Record /\ fresh \in Records /\ fresh.sha \in Editions
  BY <1>0 DEF TypeOK, Record, Records
<1>2. PICK step \in {"keepZip", "refreshed"} : Goto(t, step)
  BY DEF RefreshDownload, JobEnds
<1>3. pc[t] \in Holding /\ step \in Steps /\ pc[t] \notin Waiting
  BY <1>2, StepsHold DEF RefreshDownload, Holding, Refreshing, Waiting
<1>4. OwnLocals(t)
  BY <1>0, <1>1, LocUpdate, OutcomesHold DEF RefreshDownload, JobEnds
<1>5. TypeOK'
  BY <1>0, <1>2, <1>3, <1>4, GotoType
     DEF TypeOK, OwnLocals, RefreshDownload, Fault, files, lockVars, told
<1>6. DownloadHeld'
  <2>1. CASE Goto(t, "keepZip") /\ loc' = [loc EXCEPT ![t].got = fresh]
    <3>1. loc'[t].got = fresh /\ pc' = [pc EXCEPT ![t] = "keepZip"]
      BY <1>0, <2>1, LocTypes DEF Goto, TypeOK, Locals
    <3>2. QED
      BY <1>0, <1>1, <1>4, <3>1 DEF DownloadHeld, OwnLocals, TypeOK
  <2>2. CASE Goto(t, "refreshed")
    BY <1>0, <1>4, <2>2, HeldKept DEF Adopting
  <2>3. QED
    BY <2>1, <2>2 DEF RefreshDownload, JobEnds
<1>7. LockHeld'
  BY <1>0, <1>2, <1>3, LockStays DEF RefreshDownload
<1>8. QED
  BY <1>5, <1>6, <1>7 DEF IInv

LEMMA KeepZipStep ==
    ASSUME IInv, NEW t \in Tasks, KeepZip(t)
    PROVE  IInv'
<1>0. TypeOK /\ DownloadHeld /\ LockHeld
  BY DEF IInv
<1>1. loc' = loc /\ loc[t].got \in Record /\ zip' \in Editions
  BY <1>0 DEF KeepZip, DownloadHeld, Adopting
<1>2. PICK step \in {"recordZip", "fetchRecord"} : Goto(t, step)
  BY DEF KeepZip
<1>3. pc[t] \in Holding /\ step \in Steps /\ pc[t] \notin Waiting /\ pc[t] \in Adopting
  BY <1>2, StepsHold DEF KeepZip, Holding, Refreshing, Fetching, Waiting, Adopting
<1>4. TypeOK'
  BY <1>0, <1>1, <1>2, <1>3, GotoType DEF TypeOK, KeepZip, dbVars, lockVars, told
<1>5. DownloadHeld'
  BY <1>0, <1>1, <1>2, <1>3 DEF DownloadHeld, Goto, TypeOK
<1>6. LockHeld'
  BY <1>0, <1>2, <1>3, LockStays DEF KeepZip
<1>7. QED
  BY <1>4, <1>5, <1>6 DEF IInv

LEMMA RecordZipStep ==
    ASSUME IInv, NEW t \in Tasks, RecordZip(t)
    PROVE  IInv'
<1>0. TypeOK /\ DownloadHeld /\ LockHeld
  BY DEF IInv
<1>1. zipMeta' \in Records
  BY <1>0, LocTypes DEF RecordZip
<1>2. PICK step \in {"build", "fetched"} : Goto(t, step)
  BY DEF RecordZip
<1>3. pc[t] \in Holding /\ step \in Steps /\ pc[t] \notin Waiting /\ step \notin Adopting
  BY <1>2, StepsHold DEF RecordZip, Holding, Refreshing, Fetching, Waiting, Adopting
<1>4. OwnLocals(t)
  BY <1>0, LocUpdate, OutcomesHold DEF RecordZip
<1>5. TypeOK'
  BY <1>0, <1>1, <1>2, <1>3, <1>4, GotoType
     DEF TypeOK, OwnLocals, RecordZip, dbVars, lockVars, told
<1>6. DownloadHeld' /\ LockHeld'
  BY <1>0, <1>2, <1>3, <1>4, HeldKept, LockStays DEF RecordZip
<1>7. QED
  BY <1>5, <1>6 DEF IInv

LEMMA BuildStep ==
    ASSUME IInv, NEW t \in Tasks, Build(t)
    PROVE  IInv'
<1>0. TypeOK /\ DownloadHeld /\ LockHeld
  BY DEF IInv
<1>1. Staged(t) \in Database
  <2>1. Asked(t) \in SUBSET Lines /\ zip \in Editions
    BY <1>0, LocTypes DEF Asked, TypeOK
  <2>2. QED
    BY <2>1, BuiltFromType DEF Staged
<1>2. PICK step \in {"swapLock", "refreshed"} : Goto(t, step)
  BY DEF Build, JobEnds
<1>3. pc[t] \in Holding /\ step \in Steps /\ pc[t] \notin Waiting /\ step \notin Adopting
  BY <1>2, StepsHold DEF Build, Holding, Refreshing, Waiting, Adopting
<1>4. OwnLocals(t)
  BY <1>0, LocUpdate, OutcomesHold DEF Build, JobEnds
<1>5. staging' \in Database \cup {None} /\ faults' \in 0..MaxFaults
  BY <1>0, <1>1 DEF Build, Fault, TypeOK
<1>6. TypeOK'
  BY <1>0, <1>2, <1>3, <1>4, <1>5, GotoType DEF TypeOK, OwnLocals, Build, lockVars, told
<1>7. DownloadHeld' /\ LockHeld'
  BY <1>0, <1>2, <1>3, <1>4, HeldKept, LockStays DEF Build
<1>8. QED
  BY <1>6, <1>7 DEF IInv

LEMMA SwapLockStep ==
    ASSUME IInv, NEW t \in Tasks, SwapLock(t)
    PROVE  IInv'
<1>0. TypeOK /\ DownloadHeld /\ LockHeld
  BY DEF IInv
<1>1. PICK step \in {"swapIn", "rewriteIn", "refreshed", "rewritten"} : Goto(t, step)
  BY DEF SwapLock
<1>2. pc[t] \in Holding /\ step \in Steps /\ pc[t] \notin Waiting /\ step \notin Adopting
  BY <1>1, StepsHold DEF SwapLock, Holding, Refreshing, Rewriting, Waiting, Adopting
<1>3. OwnLocals(t)
  BY <1>0, LocUpdate, OutcomesHold DEF SwapLock
<1>4. /\ dbFile' \in {"absent", "hollow", "ok"}
      /\ staging' \in Database \cup {None}
      /\ faults' \in 0..MaxFaults
  BY <1>0 DEF SwapLock, Fault, TypeOK
<1>5. TypeOK'
  BY <1>0, <1>1, <1>2, <1>3, <1>4, GotoType
     DEF TypeOK, OwnLocals, SwapLock, zipVars, lockVars, told
<1>6. DownloadHeld' /\ LockHeld'
  BY <1>0, <1>1, <1>2, <1>3, HeldKept, LockStays DEF SwapLock
<1>7. QED
  BY <1>5, <1>6 DEF IInv

LEMMA SwapInStep ==
    ASSUME IInv, NEW t \in Tasks, SwapIn(t)
    PROVE  IInv'
<1>0. TypeOK /\ DownloadHeld /\ LockHeld
  BY DEF IInv
<1>1. PICK step \in {"installed", "refreshed", "rewritten"} : Goto(t, step)
  BY DEF SwapIn
<1>2. pc[t] \in Holding /\ step \in Steps /\ pc[t] \notin Waiting /\ step \notin Adopting
  BY <1>1, StepsHold DEF SwapIn, Holding, Refreshing, Rewriting, Waiting, Adopting
<1>3. OwnLocals(t)
  BY <1>0, LocUpdate, OutcomesHold DEF SwapIn
<1>4. /\ dbFile' \in {"absent", "hollow", "ok"}
      /\ dbLines' \in Database
      /\ staging' \in Database \cup {None}
  BY <1>0 DEF SwapIn, TypeOK
<1>5. TypeOK'
  BY <1>0, <1>1, <1>2, <1>3, <1>4, GotoType
     DEF TypeOK, OwnLocals, SwapIn, zipVars, lockVars, told
<1>6. DownloadHeld' /\ LockHeld'
  BY <1>0, <1>1, <1>2, <1>3, HeldKept, LockStays DEF SwapIn
<1>7. QED
  BY <1>5, <1>6 DEF IInv

LEMMA RecordInstalledStep ==
    ASSUME IInv, NEW t \in Tasks, RecordInstalled(t)
    PROVE  IInv'
<1>0. TypeOK /\ DownloadHeld /\ LockHeld
  BY DEF IInv
<1>1. dbMeta' \in Records
  BY <1>0, BlankType DEF RecordInstalled, RecordOf, Records, TypeOK
<1>2. PICK step \in {"refreshed", "imported"} : Goto(t, step)
  BY DEF RecordInstalled
<1>3. pc[t] \in Holding /\ step \in Steps /\ pc[t] \notin Waiting /\ step \notin Adopting
  BY <1>2, StepsHold DEF RecordInstalled, Holding, Refreshing, Importing, Waiting, Adopting
<1>4. OwnLocals(t)
  BY <1>0, LocUpdate DEF RecordInstalled
<1>5. TypeOK'
  BY <1>0, <1>1, <1>2, <1>3, GotoType DEF TypeOK, RecordInstalled, zipVars, lockVars, told
<1>6. DownloadHeld' /\ LockHeld'
  BY <1>0, <1>2, <1>3, <1>4, HeldKept, LockStays DEF RecordInstalled
<1>7. QED
  BY <1>5, <1>6 DEF IInv

LEMMA RefreshEndStep ==
    ASSUME IInv, NEW t \in Tasks, RefreshEnd(t)
    PROVE  IInv'
<1> DEFINE back == BackTo(t, loc[t].out = "ok")
<1>0. TypeOK /\ DownloadHeld /\ LockHeld
  BY DEF IInv
<1>1. back \in Steps /\ back \in Outside /\ pc[t] \in Holding
  BY StepsHold DEF BackTo, Rest, Outside, RefreshEnd, Holding, Refreshing
<1>2. Continue(t, back) /\ Goto(t, back) /\ Release(t) /\ queue' = queue
  BY DEF RefreshEnd, Continue
<1>3. pc' \in [Tasks -> Steps] /\ OwnLocals(t)
  BY <1>0, <1>1, <1>2, ContinueTypes
<1>4. lock' \in Tasks \cup {NoOne} /\ issue' \in {"none", "failed", "missing"}
  BY <1>0, <1>2 DEF Release, RefreshEnd, TypeOK
<1>5. TypeOK'
  BY <1>0, <1>2, <1>3, <1>4 DEF TypeOK, OwnLocals, RefreshEnd, files
<1>6. DownloadHeld' /\ LockHeld'
  BY <1>0, <1>1, <1>2, <1>3, StepKinds, HeldKept, LockReleased
<1>7. QED
  BY <1>5, <1>6 DEF IInv

LEMMA RefreshStepStep ==
    ASSUME IInv, NEW t \in Tasks, RefreshStep(t)
    PROVE  IInv'
<1>1. CASE Refresh(t)
  <2>1. pc[t] \in Outside /\ BeginRefresh(t, loc[t].useZip, loc[t].caller)
    BY <1>1 DEF Refresh, Outside
  <2>2. QED
    BY <2>1, LocTypes, BeginRefreshStep DEF IInv
<1>2. QED
  BY <1>1, RefreshRoutesStep, RefreshDownloadStep, KeepZipStep, RecordZipStep, BuildStep,
     SwapLockStep, SwapInStep, RecordInstalledStep, RefreshEndStep DEF RefreshStep

LEMMA UserStep ==
    ASSUME IInv, NEW t \in Tasks, UserRetry(t) \/ UserUpdate(t)
    PROVE  IInv'
<1>0. TypeOK /\ DownloadHeld /\ LockHeld
  BY DEF IInv
<1>1. CASE UserRetry(t)
  <2>1. Goto(t, "refresh") /\ "refresh" \in Steps /\ pc[t] = "idle"
    BY <1>1, StepsHold DEF UserRetry
  <2>2. pc[t] \notin Waiting /\ "refresh" \notin Holding /\ "refresh" \notin Adopting
    BY <2>1 DEF Waiting, Holding, Refreshing, Fetching, Importing, Rewriting, Adopting
  <2>3. OwnLocals(t)
    BY <1>0, <1>1, LocUpdate DEF UserRetry, Pending
  <2>4. TypeOK'
    BY <1>0, <1>1, <2>1, <2>3, GotoType DEF TypeOK, OwnLocals, UserRetry, files, lockVars, told
  <2>5. DownloadHeld' /\ LockHeld'
    BY <1>0, <1>1, <2>1, <2>2, <2>3, HeldKept, LockStays DEF UserRetry
  <2>6. QED
    BY <2>4, <2>5 DEF IInv
<1>2. CASE UserUpdate(t)
  <2>1. pc[t] \in Outside /\ BeginRefresh(t, FALSE, "user")
    BY <1>2 DEF UserUpdate, Outside
  <2>2. QED
    BY <2>1, BeginRefreshStep
<1>3. QED
  BY <1>1, <1>2

-----------------------------------------------------------------------------
(* The scheduled check.                                                    *)

LEMMA CheckStartStep ==
    ASSUME IInv, NEW t \in Tasks, CheckStart(t)
    PROVE  IInv'
<1>0. TypeOK /\ DownloadHeld /\ LockHeld
  BY DEF IInv
<1>1. PICK step \in {"pending", "probe"} : Goto(t, step)
  BY DEF CheckStart
<1>2. step \in Steps /\ step \in Outside /\ pc[t] \in Outside
  BY <1>1, StepsHold DEF CheckStart, Outside
<1>3. OwnLocals(t)
  BY <1>0, LocUpdate DEF CheckStart
<1>4. TypeOK'
  BY <1>0, <1>1, <1>2, GotoType DEF TypeOK, CheckStart, files, lockVars, told
<1>5. DownloadHeld' /\ LockHeld'
  BY <1>0, <1>1, <1>2, <1>3, StepKinds, HeldKept, LockStays DEF CheckStart
<1>6. QED
  BY <1>4, <1>5 DEF IInv

LEMMA CheckPendingStep ==
    ASSUME IInv, NEW t \in Tasks, CheckPending(t)
    PROVE  IInv'
<1> DEFINE own == [NoLocals EXCEPT !.useZip = TRUE, !.caller = "pending"]
<1>0. TypeOK /\ DownloadHeld /\ LockHeld
  BY DEF IInv
<1>1. PICK step \in {"refresh", "probe"} : Goto(t, step)
  BY DEF CheckPending
<1>2. step \in Steps /\ step \in Outside /\ pc[t] \in Outside
  BY <1>1, StepsHold DEF CheckPending, Outside
<1>3. own \in Locals
  BY NoLocalsType DEF Locals
<1>4. OwnLocals(t)
  BY <1>0, <1>3, LocUpdate DEF CheckPending
<1>5. TypeOK'
  BY <1>0, <1>1, <1>2, <1>4, GotoType DEF TypeOK, OwnLocals, CheckPending, files, lockVars, told
<1>6. DownloadHeld' /\ LockHeld'
  BY <1>0, <1>1, <1>2, <1>4, StepKinds, HeldKept, LockStays DEF CheckPending
<1>7. QED
  BY <1>5, <1>6 DEF IInv

LEMMA CheckProbeStep ==
    ASSUME IInv, NEW t \in Tasks, CheckProbe(t)
    PROVE  IInv'
<1> DEFINE asked == zipMeta # None /\ zipMeta.stamp # 0
<1> DEFINE said == [sha |-> 0, stamp |-> IF asked THEN host.stamp ELSE 0]
<1> DEFINE heard == [NoLocals EXCEPT !.answer = ProbeAnswer(zipMeta, host.stamp),
                                     !.got = said, !.news = host.ed]
<1> DEFINE failed == [NoLocals EXCEPT !.got = Blank]
<1>0. TypeOK /\ DownloadHeld /\ LockHeld
  BY DEF IInv
<1>1. said \in Records
  BY <1>0 DEF TypeOK, Records, Record, Stamps
<1>2. ProbeAnswer(zipMeta, host.stamp) \in Answers /\ host.ed \in Editions
  BY <1>0, ProbeAnswerType DEF TypeOK
<1>3. heard \in Locals
  BY <1>1, <1>2, NoLocalsType DEF Locals
<1>4. failed \in Locals
  BY BlankType, NoLocalsType DEF Locals, Records
<1>5. PICK step \in {"note", "probed"} : Goto(t, step)
  BY DEF CheckProbe
<1>6. step \in Steps /\ step \in Outside /\ pc[t] \in Outside
  BY <1>5, StepsHold DEF CheckProbe, Outside
<1>7. loc' = [loc EXCEPT ![t] = heard] \/ loc' = [loc EXCEPT ![t] = failed]
  BY DEF CheckProbe
<1>8. OwnLocals(t)
  BY <1>0, <1>3, <1>4, <1>7, LocUpdate
<1>9. faults' \in 0..MaxFaults
  BY <1>0 DEF CheckProbe, Fault, TypeOK
<1>10. TypeOK'
  BY <1>0, <1>5, <1>6, <1>8, <1>9, GotoType
     DEF TypeOK, OwnLocals, CheckProbe, files, lockVars, told
<1>11. DownloadHeld' /\ LockHeld'
  BY <1>0, <1>5, <1>6, <1>8, StepKinds, HeldKept, LockStays DEF CheckProbe
<1>12. QED
  BY <1>10, <1>11 DEF IInv

LEMMA CheckNoteStep ==
    ASSUME IInv, NEW t \in Tasks, CheckNote(t)
    PROVE  IInv'
<1>0. TypeOK /\ DownloadHeld /\ LockHeld
  BY DEF IInv
<1>1. PICK step \in {"noteWrite", "probed"} : Goto(t, step)
  BY DEF CheckNote
<1>2. step \in Steps /\ step \in Outside /\ pc[t] \in Outside
  BY <1>1, StepsHold DEF CheckNote, Outside
<1>3. zipMeta \in Records
  BY <1>0 DEF TypeOK
<1>4. OwnLocals(t)
  BY <1>0, <1>3, LocUpdate DEF CheckNote
<1>5. TypeOK'
  BY <1>0, <1>1, <1>2, <1>4, GotoType DEF TypeOK, OwnLocals, CheckNote, files, lockVars, told
<1>6. DownloadHeld' /\ LockHeld'
  BY <1>0, <1>1, <1>2, <1>4, StepKinds, HeldKept, LockStays DEF CheckNote
<1>7. QED
  BY <1>5, <1>6 DEF IInv

LEMMA CheckNoteWriteStep ==
    ASSUME IInv, NEW t \in Tasks, CheckNoteWrite(t)
    PROVE  IInv'
<1>0. TypeOK /\ DownloadHeld /\ LockHeld
  BY DEF IInv
<1>1. Goto(t, "probed") /\ "probed" \in Steps
  BY StepsHold DEF CheckNoteWrite
<1>2. "probed" \in Outside /\ pc[t] \in Outside
  BY DEF CheckNoteWrite, Outside
<1>3. zipMeta' \in Records /\ OwnLocals(t)
  BY <1>0, LocTypes, LocUpdate DEF CheckNoteWrite
<1>4. TypeOK'
  BY <1>0, <1>1, <1>3, GotoType DEF TypeOK, CheckNoteWrite, dbVars, lockVars, told
<1>5. DownloadHeld' /\ LockHeld'
  BY <1>0, <1>1, <1>2, <1>3, StepKinds, HeldKept, LockStays DEF CheckNoteWrite
<1>6. QED
  BY <1>4, <1>5 DEF IInv

LEMMA CheckProbedStep ==
    ASSUME IInv, NEW t \in Tasks, CheckProbed(t)
    PROVE  IInv'
<1> DEFINE fetching == loc[t].answer \in {"changed", "unknown"} /\ lock = NoOne
<1>0. TypeOK /\ DownloadHeld /\ LockHeld
  BY DEF IInv
<1>1. pc[t] \in Outside
  BY DEF CheckProbed, Outside
<1>2. probe' \in [result : Answers, latest : Labels, notified : Labels]
  <2>1. loc[t].answer \in Answers /\ VersionLabel(loc[t].got) \in Labels
    BY <1>0, LocTypes, VersionLabelType
  <2>2. QED
    BY <1>0, <2>1 DEF CheckProbed, TypeOK
<1>3. CASE fetching
  <2>1. Enter(t, "waitFetch") /\ "waitFetch" \in Waiting /\ loc' = loc
    BY <1>3 DEF CheckProbed, Waiting
  <2>2. /\ lock' \in Tasks \cup {NoOne} /\ queue' \in Seq(Tasks)
        /\ pc' \in [Tasks -> Steps] /\ OwnLocals(t)
    BY <1>0, <2>1, EnterTypes, LocUpdate
  <2>3. TypeOK'
    BY <1>0, <1>2, <2>2 DEF TypeOK, OwnLocals, CheckProbed, files
  <2>4. DownloadHeld' /\ LockHeld'
    BY <1>0, <1>1, <2>1, <2>2, HeldOnEntering, LockEntered
  <2>5. QED
    BY <2>3, <2>4 DEF IInv
<1>4. CASE ~fetching
  <2>1. Continue(t, Rest(t)) /\ Goto(t, Rest(t)) /\ UNCHANGED lockVars
    BY <1>4 DEF CheckProbed, Continue
  <2>2. Rest(t) \in Steps /\ Rest(t) \in Outside
    BY RestType DEF Rest, Outside
  <2>3. pc' \in [Tasks -> Steps] /\ OwnLocals(t)
    BY <1>0, <2>1, <2>2, ContinueTypes
  <2>4. TypeOK'
    BY <1>0, <1>2, <2>1, <2>3 DEF TypeOK, OwnLocals, CheckProbed, files, lockVars
  <2>5. DownloadHeld' /\ LockHeld'
    BY <1>0, <1>1, <2>1, <2>2, <2>3, StepKinds, HeldKept, LockStays
  <2>6. QED
    BY <2>4, <2>5 DEF IInv
<1>5. QED
  BY <1>3, <1>4

LEMMA FetchStep ==
    ASSUME IInv, NEW t \in Tasks, Fetch(t)
    PROVE  IInv'
<1> DEFINE fresh == [sha |-> host.ed, stamp |-> host.stamp]
<1>0. TypeOK /\ DownloadHeld /\ LockHeld
  BY DEF IInv
<1>1. fresh \in Record /\ fresh \in Records /\ fresh.sha \in Editions /\ host.ed \in Editions
  BY <1>0 DEF TypeOK, Record, Records
<1>2. PICK step \in {"fetchKeep", "fetched"} : Goto(t, step)
  BY DEF Fetch
<1>3. pc[t] \in Holding /\ step \in Steps /\ pc[t] \notin Waiting
  BY <1>2, StepsHold DEF Fetch, Holding, Fetching, Waiting
<1>4. OwnLocals(t)
  BY <1>0, <1>1, LocUpdate, OutcomesHold DEF Fetch
<1>5. zipMeta' \in Records /\ faults' \in 0..MaxFaults
  BY <1>0, <1>1 DEF Fetch, Fault, TypeOK
<1>6. TypeOK'
  BY <1>0, <1>2, <1>3, <1>4, <1>5, GotoType DEF TypeOK, OwnLocals, Fetch, dbVars, lockVars, told
<1>7. DownloadHeld'
  <2>1. CASE Goto(t, "fetchKeep") /\ loc' = [loc EXCEPT ![t].got = fresh]
    <3>1. loc'[t].got = fresh /\ pc' = [pc EXCEPT ![t] = "fetchKeep"]
      BY <1>0, <2>1, LocTypes DEF Goto, TypeOK, Locals
    <3>2. QED
      BY <1>0, <1>1, <1>4, <3>1 DEF DownloadHeld, OwnLocals, TypeOK
  <2>2. CASE Goto(t, "fetched")
    BY <1>0, <1>4, <2>2, HeldKept DEF Adopting
  <2>3. QED
    BY <2>1, <2>2 DEF Fetch
<1>8. LockHeld'
  BY <1>0, <1>2, <1>3, LockStays DEF Fetch
<1>9. QED
  BY <1>6, <1>7, <1>8 DEF IInv

LEMMA FetchedStep ==
    ASSUME IInv, NEW t \in Tasks, Fetched(t)
    PROVE  IInv'
<1>0. TypeOK /\ DownloadHeld /\ LockHeld
  BY DEF IInv
<1>1. PICK step \in {"act", "carry", "offer", Rest(t)} : Continue(t, step)
  BY DEF Fetched
<1>2. step \in Steps /\ step \in Outside /\ pc[t] \in Holding
  BY <1>1, StepsHold DEF Rest, Outside, Fetched, Holding, Fetching
<1>3. Goto(t, step) /\ pc' \in [Tasks -> Steps] /\ OwnLocals(t)
  BY <1>0, <1>1, <1>2, ContinueTypes DEF Continue
<1>4. lock' \in Tasks \cup {NoOne} /\ Release(t) /\ queue' = queue
  BY <1>0 DEF Release, Fetched, TypeOK
<1>5. probe' \in [result : Answers, latest : Labels, notified : Labels]
  <2> DEFINE named == [sha |-> loc[t].news, stamp |-> 0]
  <2>1. probe \in [result : Answers, latest : Labels, notified : Labels]
    BY <1>0 DEF TypeOK
  <2>2. "changed" \in Answers /\ "unchanged" \in Answers
    BY DEF Answers
  <2>3. named \in Records
    BY <1>0, LocTypes DEF Records, Record, Stamps
  <2>4. VersionLabel(named) \in Labels
    BY <2>3, VersionLabelType
  <2>5. QED
    BY <2>1, <2>2, <2>4 DEF Fetched
<1>6. TypeOK'
  BY <1>0, <1>3, <1>4, <1>5 DEF TypeOK, OwnLocals, Fetched, files
<1>7. DownloadHeld' /\ LockHeld'
  BY <1>0, <1>2, <1>3, <1>4, StepKinds, HeldKept, LockReleased
<1>8. QED
  BY <1>6, <1>7 DEF IInv

LEMMA CheckActStep ==
    ASSUME IInv, NEW t \in Tasks, CheckAct(t)
    PROVE  IInv'
<1>0. TypeOK /\ DownloadHeld /\ LockHeld
  BY DEF IInv
<1>1. Goto(t, "refresh") /\ "refresh" \in Steps
  BY StepsHold DEF CheckAct
<1>2. "refresh" \in Outside /\ pc[t] \in Outside
  BY DEF CheckAct, Outside
<1>3. OwnLocals(t)
  BY <1>0, LocUpdate DEF CheckAct
<1>4. probe' \in [result : Answers, latest : Labels, notified : Labels]
  <2>1. VersionLabel(zipMeta) \in Labels
    BY <1>0, VersionLabelType DEF TypeOK
  <2>2. QED
    BY <1>0, <2>1 DEF CheckAct, TypeOK
<1>5. TypeOK'
  BY <1>0, <1>1, <1>3, <1>4, GotoType DEF TypeOK, OwnLocals, CheckAct, files, lockVars
<1>6. DownloadHeld' /\ LockHeld'
  BY <1>0, <1>1, <1>2, <1>3, StepKinds, HeldKept, LockStays DEF CheckAct
<1>7. QED
  BY <1>5, <1>6 DEF IInv

LEMMA CarryStep ==
    ASSUME IInv, NEW t \in Tasks, Carry(t)
    PROVE  IInv'
<1>0. TypeOK /\ DownloadHeld /\ LockHeld
  BY DEF IInv
<1>1. PICK step \in {"carryWrite", Rest(t)} : Goto(t, step)
  BY DEF Carry, Continue
<1>2. step \in Steps /\ step \in Outside /\ pc[t] \in Outside
  BY <1>1, StepsHold DEF Rest, Outside, Carry
<1>3. probe' \in [result : Answers, latest : Labels, notified : Labels]
  <2>1. VersionLabel(zipMeta) \in Labels
    BY <1>0, VersionLabelType DEF TypeOK
  <2>2. QED
    BY <1>0, <2>1 DEF Carry, TypeOK
<1>4. OwnLocals(t)
  <2>1. CASE SameBytes(dbMeta, zipMeta)
    <3>1. [dbMeta EXCEPT !.stamp = zipMeta.stamp] \in Records
      BY <1>0, <2>1 DEF SameBytes, TypeOK, Records, Record
    <3>2. QED
      BY <1>0, <2>1, <3>1, LocUpdate DEF Carry
  <2>2. CASE ~SameBytes(dbMeta, zipMeta)
    BY <1>0, <2>2, RestType, ContinueTypes DEF Carry
  <2>3. QED
    BY <2>1, <2>2
<1>5. TypeOK'
  BY <1>0, <1>1, <1>2, <1>3, <1>4, GotoType DEF TypeOK, OwnLocals, Carry, files, lockVars
<1>6. DownloadHeld' /\ LockHeld'
  BY <1>0, <1>1, <1>2, <1>4, StepKinds, HeldKept, LockStays DEF Carry
<1>7. QED
  BY <1>5, <1>6 DEF IInv

LEMMA CarryWriteStep ==
    ASSUME IInv, NEW t \in Tasks, CarryWrite(t)
    PROVE  IInv'
<1>0. TypeOK /\ DownloadHeld /\ LockHeld
  BY DEF IInv
<1>1. Continue(t, Rest(t)) /\ Goto(t, Rest(t))
  BY DEF CarryWrite, Continue
<1>2. Rest(t) \in Steps /\ Rest(t) \in Outside /\ pc[t] \in Outside
  BY RestType DEF Rest, Outside, CarryWrite
<1>3. pc' \in [Tasks -> Steps] /\ OwnLocals(t)
  BY <1>0, <1>1, <1>2, ContinueTypes
<1>4. dbMeta' \in Records
  BY <1>0, LocTypes DEF CarryWrite
<1>5. probe' \in [result : Answers, latest : Labels, notified : Labels]
  <2>1. VersionLabel(zipMeta) \in Labels
    BY <1>0, VersionLabelType DEF TypeOK
  <2>2. QED
    BY <1>0, <2>1 DEF CarryWrite, TypeOK
<1>6. TypeOK'
  BY <1>0, <1>3, <1>4, <1>5 DEF TypeOK, OwnLocals, CarryWrite, zipVars, lockVars
<1>7. DownloadHeld' /\ LockHeld'
  BY <1>0, <1>1, <1>2, <1>3, StepKinds, HeldKept, LockStays DEF CarryWrite
<1>8. QED
  BY <1>6, <1>7 DEF IInv

LEMMA OfferStep ==
    ASSUME IInv, NEW t \in Tasks, Offer(t)
    PROVE  IInv'
<1>0. TypeOK /\ DownloadHeld /\ LockHeld
  BY DEF IInv
<1>1. Continue(t, Rest(t)) /\ Goto(t, Rest(t))
  BY DEF Offer, Continue
<1>2. Rest(t) \in Steps /\ Rest(t) \in Outside /\ pc[t] \in Outside
  BY RestType DEF Rest, Outside, Offer
<1>3. pc' \in [Tasks -> Steps] /\ OwnLocals(t)
  BY <1>0, <1>1, <1>2, ContinueTypes
<1>4. probe' \in [result : Answers, latest : Labels, notified : Labels]
  <2>1. NewVersion \in Labels
    BY DEF NewVersion, Labels
  <2>2. probe \in [result : Answers, latest : Labels, notified : Labels]
    BY <1>0 DEF TypeOK
  <2>3. QED
    BY <2>1, <2>2 DEF Offer
<1>5. offered' \in [Editions -> 0..2]
  BY <1>0, LocTypes DEF Offer, TypeOK
<1>6. TypeOK'
  BY <1>0, <1>3, <1>4, <1>5 DEF TypeOK, OwnLocals, Offer, files, lockVars
<1>7. DownloadHeld' /\ LockHeld'
  BY <1>0, <1>1, <1>2, <1>3, StepKinds, HeldKept, LockStays DEF Offer
<1>8. QED
  BY <1>6, <1>7 DEF IInv

LEMMA CheckStepStep ==
    ASSUME IInv, NEW t \in Tasks, CheckStep(t)
    PROVE  IInv'
BY CheckPendingStep, CheckProbeStep, CheckNoteStep, CheckNoteWriteStep, CheckProbedStep,
   FetchStep, FetchedStep, CheckActStep, CarryStep, CarryWriteStep, OfferStep DEF CheckStep

-----------------------------------------------------------------------------
(* The config flow.                                                        *)

LEMMA FlowPickStep ==
    ASSUME IInv, NEW t \in Tasks, FlowPick(t)
    PROVE  IInv'
<1>0. TypeOK /\ DownloadHeld /\ LockHeld
  BY DEF IInv
<1>1. Goto(t, "picked") /\ "picked" \in Steps
  BY StepsHold DEF FlowPick
<1>2. "picked" \in Outside /\ pc[t] \in Outside
  BY DEF FlowPick, Outside
<1>3. OwnLocals(t)
  <2>1. Carries[zip] \in SUBSET Lines
    BY <1>0 DEF TypeOK
  <2>2. QED
    BY <1>0, <2>1, LocUpdate DEF FlowPick
<1>4. TypeOK'
  BY <1>0, <1>1, <1>3, GotoType DEF TypeOK, OwnLocals, FlowPick, files, lockVars, told
<1>5. DownloadHeld' /\ LockHeld'
  BY <1>0, <1>1, <1>2, <1>3, StepKinds, HeldKept, LockStays DEF FlowPick
<1>6. QED
  BY <1>4, <1>5 DEF IInv

LEMMA FlowImportStep ==
    ASSUME IInv, NEW t \in Tasks, FlowImport(t)
    PROVE  IInv'
<1>0. TypeOK /\ DownloadHeld /\ LockHeld
  BY DEF IInv
<1>1. Enter(t, "waitImport") /\ "waitImport" \in Waiting /\ pc[t] \in Outside
  BY DEF FlowImport, Waiting, Outside
<1>2. /\ lock' \in Tasks \cup {NoOne} /\ queue' \in Seq(Tasks)
      /\ pc' \in [Tasks -> Steps] /\ OwnLocals(t)
  BY <1>0, <1>1, EnterTypes, LocUpdate DEF FlowImport
<1>3. TypeOK'
  BY <1>0, <1>2 DEF TypeOK, OwnLocals, FlowImport, files, told
<1>4. DownloadHeld' /\ LockHeld'
  BY <1>0, <1>1, <1>2, HeldOnEntering, LockEntered
<1>5. QED
  BY <1>3, <1>4 DEF IInv

LEMMA ImportBuildStep ==
    ASSUME IInv, NEW t \in Tasks, ImportBuild(t)
    PROVE  IInv'
<1>0. TypeOK /\ DownloadHeld /\ LockHeld
  BY DEF IInv
<1>1. PICK step \in {"importRecord", "create", "copyLines", "imported"} : Goto(t, step)
  BY DEF ImportBuild
<1>2. pc[t] \in Holding /\ step \in Steps /\ pc[t] \notin Waiting /\ step \notin Adopting
  BY <1>1, StepsHold DEF ImportBuild, Holding, Importing, Waiting, Adopting
<1>3. OwnLocals(t)
  BY <1>0, LocUpdate DEF ImportBuild
<1>4. /\ dbFile' \in {"absent", "hollow", "ok"}
      /\ dbLines' \in Database
      /\ faults' \in 0..MaxFaults
  <2>1. BuiltFrom(zip, loc[t].want) \in Database
    BY <1>0, LocTypes, BuiltFromType DEF TypeOK
  <2>2. QED
    BY <1>0, <2>1 DEF ImportBuild, Fault, TypeOK
<1>5. TypeOK'
  BY <1>0, <1>1, <1>2, <1>3, <1>4, GotoType
     DEF TypeOK, OwnLocals, ImportBuild, zipVars, lockVars, told
<1>6. DownloadHeld' /\ LockHeld'
  BY <1>0, <1>1, <1>2, <1>3, HeldKept, LockStays DEF ImportBuild
<1>7. QED
  BY <1>5, <1>6 DEF IInv

LEMMA ImportCreateStep ==
    ASSUME IInv, NEW t \in Tasks, ImportCreate(t)
    PROVE  IInv'
<1>0. TypeOK /\ DownloadHeld /\ LockHeld
  BY DEF IInv
<1>1. PICK step \in {"copyLines", "imported"} : Goto(t, step)
  BY DEF ImportCreate
<1>2. pc[t] \in Holding /\ step \in Steps /\ pc[t] \notin Waiting /\ step \notin Adopting
  BY <1>1, StepsHold DEF ImportCreate, Holding, Importing, Waiting, Adopting
<1>3. OwnLocals(t)
  BY <1>0, LocUpdate DEF ImportCreate
<1>4. dbFile' \in {"absent", "hollow", "ok"} /\ faults' \in 0..MaxFaults
  BY <1>0 DEF ImportCreate, Fault, TypeOK
<1>5. TypeOK'
  BY <1>0, <1>1, <1>2, <1>4, GotoType DEF TypeOK, ImportCreate, zipVars, lockVars, told
<1>6. DownloadHeld' /\ LockHeld'
  BY <1>0, <1>1, <1>2, <1>3, HeldKept, LockStays DEF ImportCreate
<1>7. QED
  BY <1>5, <1>6 DEF IInv

LEMMA ImportLineStep ==
    ASSUME IInv, NEW t \in Tasks, ImportLine(t)
    PROVE  IInv'
<1>0. TypeOK /\ DownloadHeld /\ LockHeld
  BY DEF IInv
<1>1. PICK step \in {"copyLines", "importRecord", "imported"} : Goto(t, step)
  BY DEF ImportLine
<1>2. pc[t] \in Holding /\ step \in Steps /\ pc[t] \notin Waiting /\ step \notin Adopting
  BY <1>1, StepsHold DEF ImportLine, Holding, Importing, Waiting, Adopting
<1>3. OwnLocals(t)
  <2>1. CASE UNCHANGED loc
    BY <1>0, <2>1, LocUpdate
  <2>2. CASE \E l \in loc[t].want : loc' = [loc EXCEPT ![t].want = loc[t].want \ {l}]
    <3>1. PICK l \in loc[t].want : loc' = [loc EXCEPT ![t].want = loc[t].want \ {l}]
      BY <2>2
    <3>2. loc[t].want \ {l} \in SUBSET Lines
      BY <1>0, LocTypes
    <3>3. QED
      BY <1>0, <3>1, <3>2, LocUpdate
  <2>3. QED
    BY <2>1, <2>2 DEF ImportLine
<1>4. dbFile' \in {"absent", "hollow", "ok"} /\ faults' \in 0..MaxFaults
  BY <1>0 DEF ImportLine, Fault, TypeOK
<1>5. dbLines' \in Database
  BY <1>0 DEF ImportLine, TypeOK, Database
<1>6. TypeOK'
  BY <1>0, <1>1, <1>2, <1>3, <1>4, <1>5, GotoType
     DEF TypeOK, OwnLocals, ImportLine, zipVars, lockVars, told
<1>7. DownloadHeld' /\ LockHeld'
  BY <1>0, <1>1, <1>2, <1>3, HeldKept, LockStays DEF ImportLine
<1>8. QED
  BY <1>6, <1>7 DEF IInv

LEMMA ImportedStep ==
    ASSUME IInv, NEW t \in Tasks, Imported(t)
    PROVE  IInv'
<1>0. TypeOK /\ DownloadHeld /\ LockHeld
  BY DEF IInv
<1>1. PICK step \in {"entry", Rest(t)} : Continue(t, step)
  BY DEF Imported
<1>2. step \in Steps /\ step \in Outside /\ pc[t] \in Holding
  BY <1>1, StepsHold DEF Rest, Outside, Imported, Holding, Importing
<1>3. Goto(t, step) /\ pc' \in [Tasks -> Steps] /\ OwnLocals(t)
  BY <1>0, <1>1, <1>2, ContinueTypes DEF Continue
<1>4. lock' \in Tasks \cup {NoOne} /\ Release(t) /\ queue' = queue
  BY <1>0 DEF Release, Imported, TypeOK
<1>5. TypeOK'
  BY <1>0, <1>3, <1>4 DEF TypeOK, OwnLocals, Imported, files, told
<1>6. DownloadHeld' /\ LockHeld'
  BY <1>0, <1>2, <1>3, <1>4, StepKinds, HeldKept, LockReleased
<1>7. QED
  BY <1>5, <1>6 DEF IInv

LEMMA FlowEntryStep ==
    ASSUME IInv, NEW t \in Tasks, FlowEntry(t)
    PROVE  IInv'
<1>0. TypeOK /\ DownloadHeld /\ LockHeld
  BY DEF IInv
<1>1. Continue(t, Rest(t)) /\ Goto(t, Rest(t))
  BY DEF FlowEntry, Continue
<1>2. Rest(t) \in Steps /\ Rest(t) \in Outside /\ pc[t] \in Outside
  BY RestType DEF Rest, Outside, FlowEntry
<1>3. pc' \in [Tasks -> Steps] /\ OwnLocals(t)
  BY <1>0, <1>1, <1>2, ContinueTypes
<1>4. readers' \in SUBSET Lines
  BY <1>0, LocTypes DEF FlowEntry, TypeOK
<1>5. TypeOK'
  BY <1>0, <1>3, <1>4 DEF TypeOK, OwnLocals, FlowEntry, files, lockVars, told
<1>6. DownloadHeld' /\ LockHeld'
  BY <1>0, <1>1, <1>2, <1>3, StepKinds, HeldKept, LockStays DEF FlowEntry
<1>7. QED
  BY <1>5, <1>6 DEF IInv

LEMMA FlowStepStep ==
    ASSUME IInv, NEW t \in Tasks, FlowStep(t)
    PROVE  IInv'
BY FlowImportStep, ImportBuildStep, ImportCreateStep, ImportLineStep, ImportedStep,
   FlowEntryStep DEF FlowStep

-----------------------------------------------------------------------------
(* The rewrites.                                                           *)

LEMMA RewriteAskStep ==
    ASSUME IInv, NEW t \in Tasks, RewriteAsk(t)
    PROVE  IInv'
<1>0. TypeOK /\ DownloadHeld /\ LockHeld
  BY DEF IInv
<1>1. Goto(t, "askPrune") /\ "askPrune" \in Steps
  BY StepsHold DEF RewriteAsk
<1>2. "askPrune" \in Outside /\ pc[t] \in Outside
  BY DEF RewriteAsk, Outside
<1>3. OwnLocals(t)
  <2>1. RoutesIn(dbLines) \in SUBSET Lines /\ readers \in SUBSET Lines
    BY <1>0 DEF RoutesIn, TypeOK
  <2>2. CASE AskPrune(t)
    BY <1>0, <2>1, <2>2, LocUpdate DEF AskPrune
  <2>3. CASE AskDropLine(t)
    <3>1. PICK l \in RoutesIn(dbLines) :
            loc' = [loc EXCEPT ![t].want = RoutesIn(dbLines) \ {l}, ![t].read = {l}]
      BY <2>3 DEF AskDropLine
    <3>2. RoutesIn(dbLines) \ {l} \in SUBSET Lines /\ {l} \in SUBSET Lines
      BY <2>1
    <3>3. QED
      BY <1>0, <3>1, <3>2, LocUpdate
  <2>4. CASE AskIntern(t)
    BY <1>0, <2>4, LocUpdate DEF AskIntern
  <2>5. QED
    BY <2>2, <2>3, <2>4 DEF RewriteAsk
<1>4. TypeOK'
  BY <1>0, <1>1, <1>3, GotoType DEF TypeOK, OwnLocals, RewriteAsk, files, lockVars, told
<1>5. DownloadHeld' /\ LockHeld'
  BY <1>0, <1>1, <1>2, <1>3, StepKinds, HeldKept, LockStays DEF RewriteAsk
<1>6. QED
  BY <1>4, <1>5 DEF IInv

LEMMA RewriteEnterStep ==
    ASSUME IInv, NEW t \in Tasks, RewriteEnter(t)
    PROVE  IInv'
<1>0. TypeOK /\ DownloadHeld /\ LockHeld
  BY DEF IInv
<1>1. pc[t] \in Outside
  BY DEF RewriteEnter, Outside
<1>2. CASE lock # NoOne
  <2>1. Continue(t, Rest(t)) /\ Goto(t, Rest(t)) /\ UNCHANGED lockVars
    BY <1>2 DEF RewriteEnter, Continue
  <2>2. Rest(t) \in Steps /\ Rest(t) \in Outside
    BY RestType DEF Rest, Outside
  <2>3. pc' \in [Tasks -> Steps] /\ OwnLocals(t)
    BY <1>0, <2>1, <2>2, ContinueTypes
  <2>4. TypeOK'
    BY <1>0, <2>1, <2>3 DEF TypeOK, OwnLocals, RewriteEnter, files, lockVars, told
  <2>5. DownloadHeld' /\ LockHeld'
    BY <1>0, <1>1, <2>1, <2>2, <2>3, StepKinds, HeldKept, LockStays
  <2>6. QED
    BY <2>4, <2>5 DEF IInv
<1>3. CASE lock = NoOne
  <2>1. Enter(t, "waitPrune") /\ "waitPrune" \in Waiting /\ loc' = loc
    BY <1>3 DEF RewriteEnter, Waiting
  <2>2. /\ lock' \in Tasks \cup {NoOne} /\ queue' \in Seq(Tasks)
        /\ pc' \in [Tasks -> Steps] /\ OwnLocals(t)
    BY <1>0, <2>1, EnterTypes, LocUpdate
  <2>3. TypeOK'
    BY <1>0, <2>2 DEF TypeOK, OwnLocals, RewriteEnter, files, told
  <2>4. DownloadHeld' /\ LockHeld'
    BY <1>0, <1>1, <2>1, <2>2, HeldOnEntering, LockEntered
  <2>5. QED
    BY <2>3, <2>4 DEF IInv
<1>4. QED
  BY <1>2, <1>3

LEMMA OptimiseStep ==
    ASSUME IInv, NEW t \in Tasks, Optimise(t)
    PROVE  IInv'
<1>0. TypeOK /\ DownloadHeld /\ LockHeld
  BY DEF IInv
<1>1. Enter(t, "waitPrune") /\ "waitPrune" \in Waiting /\ pc[t] \in Outside
  BY DEF Optimise, Waiting, Outside
<1>2. OwnLocals(t)
  <2>1. RoutesIn(dbLines) \in SUBSET Lines /\ readers \in SUBSET Lines
    BY <1>0 DEF RoutesIn, TypeOK
  <2>2. PICK v \in SUBSET Lines : loc' = [loc EXCEPT ![t].want = v]
    <3>1. PICK brought \in SUBSET RoutesIn(dbLines) :
            LET keep == readers \cup brought IN
            loc' = [loc EXCEPT ![t].want = IF Whole \/ keep = {} THEN Lines ELSE keep]
      BY DEF Optimise
    <3>2. readers \cup brought \in SUBSET Lines /\ Lines \in SUBSET Lines
      BY <2>1
    <3>3. QED
      BY <3>1, <3>2
  <2>3. QED
    BY <1>0, <2>2, LocUpdate
<1>3. /\ lock' \in Tasks \cup {NoOne} /\ queue' \in Seq(Tasks)
      /\ pc' \in [Tasks -> Steps]
  BY <1>0, <1>1, EnterTypes
<1>4. TypeOK'
  BY <1>0, <1>2, <1>3 DEF TypeOK, OwnLocals, Optimise, files, told
<1>5. DownloadHeld' /\ LockHeld'
  BY <1>0, <1>1, <1>2, HeldOnEntering, LockEntered
<1>6. QED
  BY <1>4, <1>5 DEF IInv

LEMMA RewriteCopyStep ==
    ASSUME IInv, NEW t \in Tasks, RewriteCopy(t)
    PROVE  IInv'
<1>0. TypeOK /\ DownloadHeld /\ LockHeld
  BY DEF IInv
<1>1. PICK step \in {"rewriteLock", "rewritten"} : Goto(t, step)
  BY DEF RewriteCopy
<1>2. pc[t] \in Holding /\ step \in Steps /\ pc[t] \notin Waiting /\ step \notin Adopting
  BY <1>1, StepsHold DEF RewriteCopy, Holding, Rewriting, Waiting, Adopting
<1>3. OwnLocals(t)
  BY <1>0, LocUpdate DEF RewriteCopy
<1>4. /\ dbFile' \in {"absent", "hollow", "ok"}
      /\ staging' \in Database \cup {None}
      /\ faults' \in 0..MaxFaults
  <2>1. CutTo(dbLines, loc[t].want) \in Database
    BY <1>0, LocTypes, CutToType DEF TypeOK
  <2>2. QED
    BY <1>0, <2>1 DEF RewriteCopy, Fault, TypeOK
<1>5. TypeOK'
  BY <1>0, <1>1, <1>2, <1>3, <1>4, GotoType DEF TypeOK, RewriteCopy, zipVars, lockVars, told
<1>6. DownloadHeld' /\ LockHeld'
  BY <1>0, <1>1, <1>2, <1>3, HeldKept, LockStays DEF RewriteCopy
<1>7. QED
  BY <1>5, <1>6 DEF IInv

LEMMA RewrittenStep ==
    ASSUME IInv, NEW t \in Tasks, Rewritten(t)
    PROVE  IInv'
<1>0. TypeOK /\ DownloadHeld /\ LockHeld
  BY DEF IInv
<1>1. Continue(t, Rest(t)) /\ Goto(t, Rest(t)) /\ Release(t) /\ queue' = queue
  BY DEF Rewritten, Continue
<1>2. Rest(t) \in Steps /\ Rest(t) \in Outside /\ pc[t] \in Holding
  BY RestType DEF Rest, Outside, Rewritten, Holding, Rewriting
<1>3. pc' \in [Tasks -> Steps] /\ OwnLocals(t)
  BY <1>0, <1>1, <1>2, ContinueTypes
<1>4. lock' \in Tasks \cup {NoOne}
  BY <1>0, <1>1 DEF Release, TypeOK
<1>5. TypeOK'
  BY <1>0, <1>1, <1>3, <1>4 DEF TypeOK, OwnLocals, Rewritten, files, told
<1>6. DownloadHeld' /\ LockHeld'
  BY <1>0, <1>1, <1>2, <1>3, StepKinds, HeldKept, LockReleased
<1>7. QED
  BY <1>5, <1>6 DEF IInv

-----------------------------------------------------------------------------
(* What happens around.                                                    *)

\* A step of the environment that touches no task and no lock.
LEMMA Untouched ==
    ASSUME IInv, UNCHANGED <<pc, loc, lockVars>>
    PROVE  DownloadHeld' /\ LockHeld'
BY DEF IInv, DownloadHeld, LockHeld, lockVars

LEMMA CrashStep ==
    ASSUME IInv, Crash
    PROVE  IInv'
<1>0. TypeOK /\ DownloadHeld /\ LockHeld
  BY DEF IInv
<1>1. /\ lock' = NoOne /\ queue' = <<>>
      /\ pc' = [t \in Tasks |-> IF pc[t] = "idle" THEN "idle" ELSE Rest(t)]
      /\ loc' = [t \in Tasks |-> NoLocals]
  BY DEF Crash
<1>2. \A t \in Tasks : pc'[t] \in {"idle", "done"}
  BY <1>1 DEF Rest
<1>3. pc' \in [Tasks -> Steps]
  BY <1>1, RestType, StepsHold
<1>4. loc' \in [Tasks -> Locals]
  BY <1>1, NoLocalsType
<1>5. lock' \in Tasks \cup {NoOne} /\ queue' \in Seq(Tasks)
  BY <1>1
<1>6. zipMeta' \in Records /\ dbMeta' \in Records /\ faults' \in 0..MaxFaults
  BY <1>0 DEF Crash, Fault, TypeOK, Records
<1>7. probe' \in [result : Answers, latest : Labels, notified : Labels]
  BY DEF Crash, NoProbe, Answers, Labels
<1>8. TypeOK'
  BY <1>0, <1>3, <1>4, <1>5, <1>6, <1>7 DEF TypeOK, Crash
<1>9. DownloadHeld'
  BY <1>2 DEF DownloadHeld, Adopting
<1>10. LockHeld'
  <2>1. Len(queue') = 0
    BY <1>1
  <2>2. \A t \in Tasks : pc'[t] \notin Holding
    BY <1>2 DEF Holding, Refreshing, Fetching, Importing, Rewriting
  <2>3. QED
    BY <2>1, <2>2 DEF LockHeld
<1>11. QED
  BY <1>8, <1>9, <1>10 DEF IInv

LEMMA EnvironmentStep ==
    ASSUME IInv, Environment
    PROVE  IInv'
<1>0. TypeOK /\ DownloadHeld /\ LockHeld
  BY DEF IInv
<1>1. CASE Publish
  <2>1. host' \in [ed : Editions, stamp : Stamps]
    BY <1>0, <1>1 DEF Publish, TypeOK, Editions, Stamps
  <2>2. QED
    BY <1>0, <1>1, <2>1, Untouched DEF Publish, IInv, TypeOK, files, lockVars, told
<1>2. CASE Restamp
  <2>1. host' \in [ed : Editions, stamp : Stamps]
    BY <1>0, <1>2 DEF Restamp, TypeOK, Stamps
  <2>2. QED
    BY <1>0, <1>2, <2>1, Untouched DEF Restamp, IInv, TypeOK, files, lockVars, told
<1>3. CASE LoseDatabase
  <2>1. dbLines' \in Database /\ faults' \in 0..MaxFaults
    BY <1>0, <1>3 DEF LoseDatabase, NoLine, Database, Fault, TypeOK
  <2>2. QED
    BY <1>0, <1>3, <2>1, Untouched DEF LoseDatabase, IInv, TypeOK, zipVars, lockVars, told
<1>4. CASE Crash
  BY <1>4, CrashStep
<1>5. ASSUME NEW l \in Lines, AddSensor(l) \/ RemoveSensor(l)
      PROVE  IInv'
  <2>1. readers' \in SUBSET Lines
    BY <1>0, <1>5 DEF AddSensor, RemoveSensor, TypeOK
  <2>2. QED
    BY <1>0, <1>5, <2>1, Untouched
       DEF AddSensor, RemoveSensor, IInv, TypeOK, files, lockVars, told
<1>6. QED
  BY <1>1, <1>2, <1>3, <1>4, <1>5 DEF Environment

-----------------------------------------------------------------------------
(* The theorems.                                                           *)

LEMMA InitIInv == Init => IInv
<1> SUFFICES ASSUME Init PROVE IInv
  OBVIOUS
<1>1. TypeOK
  BY FirstRecordType, NoLocalsType, BuiltFromType, StepsHold
     DEF Init, TypeOK, Editions, Stamps, Records, Record, FirstRecord, NoProbe, Labels, Answers
<1>2. \A t \in Tasks : pc[t] = "idle"
  BY DEF Init
<1>3. DownloadHeld
  BY <1>2 DEF DownloadHeld, Adopting
<1>4. LockHeld
  BY <1>2 DEF LockHeld, Init, Holding, Refreshing, Fetching, Importing, Rewriting
<1>5. QED
  BY <1>1, <1>3, <1>4 DEF IInv

\* Every action keeps the invariant: the grant of the lock, the steps of
\* each task, the environment, and a stutter.
LEMMA NextIInv == IInv /\ [Next]_vars => IInv'
<1> SUFFICES ASSUME IInv, [Next]_vars PROVE IInv'
  OBVIOUS
<1>1. CASE Grant
  BY <1>1, GrantStep
<1>2. ASSUME NEW t \in Tasks, Start(t)
      PROVE  IInv'
  BY <1>2, CheckStartStep, UserStep, FlowPickStep, RewriteAskStep, OptimiseStep DEF Start
<1>3. ASSUME NEW t \in Tasks, Step(t)
      PROVE  IInv'
  BY <1>3, CheckStepStep, RefreshStepStep, FlowStepStep, RewriteEnterStep, RewriteCopyStep,
     RewrittenStep DEF Step, RewriteStep
<1>4. CASE Environment
  BY <1>4, EnvironmentStep
<1>5. CASE UNCHANGED vars
  BY <1>5 DEF vars, files, lockVars, told, IInv, TypeOK, DownloadHeld, LockHeld
<1>6. QED
  BY <1>1, <1>2, <1>3, <1>4, <1>5 DEF Next

THEOREM Invariance == Spec => []IInv
BY InitIInv, NextIInv, PTL DEF Spec

\* Every variable keeps to its type, the kept zip included: what is adopted
\* is always an edition that was downloaded.
THEOREM TypeCorrect == Spec => []TypeOK
<1>1. IInv => TypeOK
  BY DEF IInv
<1>2. QED
  BY <1>1, Invariance, PTL

\* No two tasks are ever inside the lock of a source, whatever is asked,
\* dropped, queued or crashed: what source_lock is for.
THEOREM OneWriterAlways == Spec => []OneWriter
<1>1. IInv => OneWriter
  BY DEF IInv, LockHeld, OneWriter
<1>2. QED
  BY <1>1, Invariance, PTL
=============================================================================
