------------------------- MODULE JourneyFlowProofs -------------------------
(***************************************************************************)
(* For any lines, stops, names typed, overlapping calls and other windows: *)
(* the sensors of a source keep distinct names (two steps make one,        *)
(* MakeSensor and OtherSensor, the others leave the entries alone).  Where *)
(* no late call shows again a progress screen that is over, the lines an   *)
(* import left out are said on the first form drawn after it and taken off *)
(* it by no call under way as it is drawn, the inputs keep their types and *)
(* every sensor made is of the journey answered, on lines loaded.          *)
(***************************************************************************)
EXTENDS JourneyFlow, FiniteSetTheorems, SequenceTheorems, WellFoundedInduction, TLAPS

-----------------------------------------------------------------------------
(* The steps that make no sensor *)

LEMMA ScreensMakeNone ==
    ASSUME PickSource \/ (\E l \in Lines \cup {AllTrains}, p \in BOOLEAN : PickRoute(l, p))
           \/ (\E also \in SUBSET Lines : AskImport(also))
           \/ (\E s \in Stops : PickOrigin(s) \/ PickDestination(s) \/ PickStation(s) \/ PickArrival(s))
           \/ (\E w \in {"0", "1"} : PickTowards(w))
           \/ (\E b \in BOOLEAN : AlsoAt(b) \/ NameSensors(b))
           \/ (\E chosen \in SUBSET Trains, b \in BOOLEAN : TickLines(chosen, b))
           \/ (\E n \in Names(SuggestedName(flow.label, Picked)), b \in BOOLEAN : NameSensor(n, b))
           \/ SameLine \/ NextJourney \/ Close
    PROVE  UNCHANGED entries
  <1>1. ASSUME PickSource PROVE UNCHANGED entries
    BY <1>1 DEF PickSource
  <1>2. ASSUME NEW l, NEW p, PickRoute(l, p) PROVE UNCHANGED entries
    BY <1>2 DEF PickRoute
  <1>3. ASSUME NEW also, AskImport(also) PROVE UNCHANGED entries
    BY <1>3 DEF AskImport
  <1>4. ASSUME NEW s, PickOrigin(s) \/ PickDestination(s) \/ PickStation(s) \/ PickArrival(s)
        PROVE  UNCHANGED entries
    BY <1>4 DEF PickOrigin, PickDestination, PickStation, PickArrival
  <1>5. ASSUME NEW w, PickTowards(w) PROVE UNCHANGED entries
    BY <1>5 DEF PickTowards
  <1>6. ASSUME NEW b, AlsoAt(b) \/ NameSensors(b) PROVE UNCHANGED entries
    BY <1>6 DEF AlsoAt, NameSensors
  <1>7. ASSUME NEW chosen, NEW b, TickLines(chosen, b) PROVE UNCHANGED entries
    BY <1>7 DEF TickLines
  <1>8. ASSUME NEW n, NEW b, NameSensor(n, b) PROVE UNCHANGED entries
    BY <1>8 DEF NameSensor
  <1>9. ASSUME SameLine \/ NextJourney \/ Close PROVE UNCHANGED entries
    BY <1>9 DEF SameLine, NextJourney, Close
  <1> QED
    BY <1>1, <1>2, <1>3, <1>4, <1>5, <1>6, <1>7, <1>8, <1>9

LEMMA CallsMakeNone ==
    ASSUME NEW c, Configure(c) \/ Proceeds(c)
    PROVE  UNCHANGED entries
  <1>1. ASSUME StepCall(c) PROVE UNCHANGED entries
    BY <1>1 DEF StepCall
  <1>2. ASSUME NEW coming, StepEnds(c, coming) PROVE UNCHANGED entries
    BY <1>2 DEF StepEnds
  <1>3. ASSUME ReloadDone(c) PROVE UNCHANGED entries
    BY <1>3 DEF ReloadDone
  <1>4. ASSUME ShowProgress(c) PROVE UNCHANGED entries
    BY <1>4 DEF ShowProgress
  <1>5. ASSUME Reopened(c) PROVE UNCHANGED entries
    BY <1>5 DEF Reopened
  <1> QED
    BY <1>1, <1>2, <1>3, <1>4, <1>5 DEF Configure, Proceeds

LEMMA RunsMakeNone ==
    ASSUME Made \/ JobEnds \/ TickEnds \/ (\E d : DueCall(d))
    PROVE  UNCHANGED entries
  <1>1. ASSUME Made PROVE UNCHANGED entries
    BY <1>1 DEF Made
  <1>2. ASSUME JobEnds PROVE UNCHANGED entries
    BY <1>2 DEF JobEnds
  <1>3. ASSUME TickEnds PROVE UNCHANGED entries
    BY <1>3 DEF TickEnds
  <1>4. ASSUME NEW d, DueCall(d) PROVE UNCHANGED entries
    <2>1. LateCall(d) \/ \E c \in Callers : StepCall(c) \/ StepEnds(c, due \ {d}) \/ ReloadDone(c)
      BY <1>4 DEF DueCall
    <2> QED
      BY <2>1 DEF StepCall, StepEnds, ReloadDone, LateCall
  <1> QED
    BY <1>1, <1>2, <1>3, <1>4

-----------------------------------------------------------------------------
(* The steps that make one *)

\* An entry added under a name no other has keeps the names distinct.
LEMMA NewName ==
    ASSUME NamesDistinct, NEW e, ~NameInUse(e.name), entries' = entries \cup {e}
    PROVE  NamesDistinct'
  BY DEF NamesDistinct, NameInUse

LEMMA NamesKept ==
    ASSUME NamesDistinct, UNCHANGED entries
    PROVE  NamesDistinct'
  BY DEF NamesDistinct

\* A name found free before the wait is looked for again as the entry is made.
LEMMA MakeSensorKeeps ==
    ASSUME NamesDistinct, MakeSensor
    PROVE  NamesDistinct'
  <1> DEFINE e == Head(flow.todo)
  <1>1. entries' = IF NameInUse(e.name) THEN entries ELSE entries \cup {e}
    BY DEF MakeSensor, Makes
  <1> HIDE DEF e
  <1>2. CASE NameInUse(e.name)
    BY <1>1, <1>2, NamesKept
  <1>3. CASE ~NameInUse(e.name)
    BY <1>1, <1>3, NewName
  <1> QED
    BY <1>2, <1>3

LEMMA OtherSensorKeeps ==
    ASSUME NamesDistinct, NEW l, NEW ends, NEW n, OtherSensor(l, ends, n)
    PROVE  NamesDistinct'
  <1> DEFINE e == EntryOf([NoInputs EXCEPT !.route = l, !.from = ends[1],
                              !.to = ends[2], !.loop = PairDirection(l, None)], n)
  <1>1. e.name = n
    BY DEF EntryOf
  <1>2. ~NameInUse(e.name) /\ entries' = entries \cup {e}
    BY <1>1 DEF OtherSensor
  <1> HIDE DEF e
  <1> QED
    BY <1>2, NewName

-----------------------------------------------------------------------------
LEMMA StepKeepsNames ==
    ASSUME NamesDistinct, [FlowNext]_flowvars
    PROVE  NamesDistinct'
  <1>1. CASE Answer
    BY <1>1, ScreensMakeNone, NamesKept DEF Answer
  <1>2. CASE Runs
    BY <1>2, MakeSensorKeeps, RunsMakeNone, CallsMakeNone, NamesKept DEF Runs
  <1>3. CASE \E c \in Callers : Configure(c)
    BY <1>3, CallsMakeNone, NamesKept
  <1>4. CASE \E d \in {"tick", "screen"} : DueCall(d)
    BY <1>4, RunsMakeNone, NamesKept
  <1>5. CASE \E l \in Bus : \E ends \in Rides[l] :
                \E n \in Names(SuggestedName(l, ends)) : OtherSensor(l, ends, n)
    BY <1>5, OtherSensorKeeps
  <1>6. CASE \E l \in Lines : OtherImport(l)
    BY <1>6, NamesKept DEF OtherImport
  <1>7. CASE UNCHANGED flowvars
    BY <1>7, NamesKept DEF flowvars
  <1> QED
    BY <1>1, <1>2, <1>3, <1>4, <1>5, <1>6, <1>7 DEF FlowNext

\* No two sensors of a source have one name, whichever windows make them at
\* once: a name read free before a wait is refused when it was taken meanwhile.
THEOREM NamesDistinctAlways == FlowSpec => []NamesDistinct
  <1>1. FlowInit => NamesDistinct
    BY DEF FlowInit, NamesDistinct
  <1>2. NamesDistinct /\ [FlowNext]_flowvars => NamesDistinct'
    BY StepKeepsNames
  <1> QED
    BY <1>1, <1>2, PTL DEF FlowSpec

-----------------------------------------------------------------------------
(* What did not come in is told.  That no form owes it is not inductive:    *)
(* between the end of an import and the screen it leads to, nothing has     *)
(* been said yet.  What was left out is then still held for that screen.    *)

Holds(f) == {"missing", "told", "stopsError"} \subseteq DOMAIN f
Told(f) == Holds(f) /\ f.told # "owed"
Telling(c, f) == /\ Holds(f)
                 /\ f.told = "owed" => f.missing # {}
                 /\ c.kind \in {"form", "call"} => f.told # "owed"

TellInv == Telling(cur, flow)

LEMMA ToldTells == ASSUME NEW c, NEW f, Told(f) PROVE Telling(c, f)
  BY DEF Told, Telling

LEMMA OnTold == ASSUME TellInv, NEW s, On(s) PROVE Told(flow)
  BY DEF TellInv, Telling, Told, On, Form

\* The screens: each tells, or comes from a flow that has told.
LEMMA RouteTells == ASSUME NEW f, Holds(f), ShowRoute(f) PROVE Told(flow')
  BY DEF Holds, ShowRoute, Told

LEMMA StopsTell ==
    ASSUME NEW f, NEW i, Holds(f), Told(f) \/ f.stopsError = TRUE, ShowStops(f, i)
    PROVE  Told(flow')
  BY DEF Holds, ShowStops, Says, Told

LEMMA DirectionTells ==
    ASSUME NEW f, NEW i, Holds(f), Told(f) \/ f.stopsError = TRUE, Direction(f, i)
    PROVE  Told(flow')
  <1> DEFINE g == [f EXCEPT !.line = [inputs |-> i, label |-> f.label]]
  <1>1. Holds(g) /\ g.told = f.told /\ g.stopsError = f.stopsError
    BY DEF Holds
  <1>2. ShowStops(g, i)
    BY DEF Direction
  <1> HIDE DEF g
  <1> QED
    BY <1>1, <1>2, StopsTell DEF Told

LEMMA SensorTells == ASSUME NEW f, NEW i, Told(f), ShowSensor(f, i) PROVE Told(flow')
  BY DEF Holds, ShowSensor, Told

LEMMA OptionsTell ==
    ASSUME NEW f, NEW i, Holds(f), Told(f) \/ f.missing # {}, ShowOptions(f, i)
    PROVE  Told(flow')
  BY DEF Holds, ShowOptions, Says, Told

LEMMA PlansTell == ASSUME NEW f, NEW i, Told(f), NamePlans(f, i) PROVE Told(flow')
  <1> DEFINE named == [f EXCEPT !.trains = FALSE, !.told = Says(f, FALSE)]
  <1>1. Told(named)
    BY DEF Told, Holds, Says
  <1> HIDE DEF named
  <1>2. flow' = named \/ \E l, r : flow' = [named EXCEPT !.label = l, !.return = r]
    BY DEF NamePlans, named
  <1> QED
    BY <1>1, <1>2 DEF Told, Holds

-----------------------------------------------------------------------------
(* The steps *)

LEMMA NewFlowTold == Told(NewFlow)
  BY DEF Told, Holds, NewFlow

LEMMA ResetTold == ASSUME Told(flow) PROVE Told(ResetForNextJourney)
  BY DEF Told, Holds, ResetForNextJourney

LEMMA LinesTell ==
    ASSUME TellInv, PickSource \/ (\E l, p : PickRoute(l, p)) \/ (\E also : AskImport(also))
    PROVE  TellInv'
  <1>1. ASSUME PickSource PROVE Told(flow')
    BY <1>1, OnTold, RouteTells DEF PickSource, Told
  <1>2. ASSUME NEW l, NEW p, PickRoute(l, p) PROVE Told(flow')
    <2> DEFINE i == [inp EXCEPT !.route = l]
               f == [flow EXCEPT !.label = l]
    <2>1. Told(f)
      BY <1>2, OnTold DEF PickRoute, Told, Holds
    <2>2. flow' = f \/ Direction(f, i)
      BY <1>2 DEF PickRoute
    <2> HIDE DEF i, f
    <2> QED
      BY <2>1, <2>2, DirectionTells DEF Told
  <1>3. ASSUME NEW also, AskImport(also) PROVE Told(flow')
    BY <1>3, OnTold DEF AskImport, Told, Holds
  <1> QED
    BY <1>1, <1>2, <1>3, ToldTells DEF TellInv

LEMMA BusTells ==
    ASSUME TellInv, (\E s : PickOrigin(s) \/ PickDestination(s))
                    \/ (\E w : PickTowards(w)) \/ (\E b : AlsoAt(b))
    PROVE  TellInv'
  <1>1. ASSUME NEW s, PickOrigin(s) PROVE Told(flow')
    BY <1>1, OnTold DEF PickOrigin, Told, Holds
  <1>2. ASSUME NEW s, PickDestination(s) PROVE Told(flow')
    <2>1. Told(flow)
      BY <1>2, OnTold DEF PickDestination
    <2>2. flow' = flow \/ \E i : ShowSensor(flow, i)
      BY <1>2 DEF PickDestination
    <2> QED
      BY <2>1, <2>2, SensorTells
  <1>3. ASSUME NEW w, PickTowards(w) PROVE Told(flow')
    BY <1>3, OnTold DEF PickTowards, Told, Holds
  <1>4. ASSUME NEW b, AlsoAt(b) PROVE Told(flow')
    <2> DEFINE f == [flow EXCEPT !.return = Unread]
    <2>1. Told(f)
      BY <1>4, OnTold DEF AlsoAt, Told, Holds
    <2>2. PICK i : ShowSensor(f, i)
      BY <1>4 DEF AlsoAt
    <2> HIDE DEF f
    <2> QED
      BY <2>1, <2>2, SensorTells
  <1> QED
    BY <1>1, <1>2, <1>3, <1>4, ToldTells DEF TellInv

LEMMA TrainTells ==
    ASSUME TellInv, (\E s : PickStation(s) \/ PickArrival(s)) \/ (\E chosen, b : TickLines(chosen, b))
    PROVE  TellInv'
  <1>1. ASSUME NEW s, PickStation(s) PROVE Told(flow')
    BY <1>1, OnTold DEF PickStation, Told
  <1>2. ASSUME NEW s, PickArrival(s) PROVE Told(flow')
    <2>1. Told(flow)
      BY <1>2, OnTold DEF PickArrival
    <2>2. PICK t : flow' = [flow EXCEPT !.trains = t] \/ \E i : ShowOptions([flow EXCEPT !.trains = t], i)
      BY <1>2 DEF PickArrival
    <2> DEFINE f == [flow EXCEPT !.trains = t]
    <2>3. Told(f)
      BY <2>1 DEF Told, Holds
    <2> HIDE DEF f
    <2> QED
      BY <2>2, <2>3, OptionsTell DEF f, Told
  <1>3. ASSUME NEW chosen, NEW b, TickLines(chosen, b) PROVE Told(flow')
    <2>1. Told(flow)
      BY <1>3, OnTold DEF TickLines
    <2>2. PICK p : \/ flow' = [flow EXCEPT !.plans = p, !.missing = {}]
                   \/ \E r : flow' = [[flow EXCEPT !.plans = p, !.missing = {}] EXCEPT !.routes = r, !.again = FALSE]
                   \/ NamePlans([flow EXCEPT !.plans = p, !.missing = {}], inp)
      BY <1>3 DEF TickLines
    <2> DEFINE f == [flow EXCEPT !.plans = p, !.missing = {}]
    <2>3. Told(f)
      BY <2>1 DEF Told, Holds
    <2>4. flow' = f \/ (\E r : flow' = [f EXCEPT !.routes = r, !.again = FALSE]) \/ NamePlans(f, inp)
      BY <2>2
    <2> HIDE DEF f
    <2>5. CASE flow' = f
      BY <2>3, <2>5
    <2>6. CASE \E r : flow' = [f EXCEPT !.routes = r, !.again = FALSE]
      BY <2>3, <2>6 DEF Told, Holds
    <2>7. CASE NamePlans(f, inp)
      BY <2>3, <2>7, PlansTell
    <2> QED
      BY <2>4, <2>5, <2>6, <2>7
  <1> QED
    BY <1>1, <1>2, <1>3, ToldTells DEF TellInv

LEMMA NamingTells ==
    ASSUME TellInv, (\E n, b : NameSensor(n, b)) \/ (\E b : NameSensors(b)) \/ MakeSensor \/ Made
    PROVE  TellInv'
  <1>1. ASSUME NEW n, NEW b, NameSensor(n, b) PROVE Told(flow')
    <2>1. Told(flow)
      BY <1>1, OnTold DEF NameSensor
    <2>2. \E t : flow' = [flow EXCEPT !.made = FALSE, !.todo = t]
      BY <1>1 DEF NameSensor
    <2> QED
      BY <2>1, <2>2 DEF Told, Holds
  <1>2. ASSUME NEW b, NameSensors(b) PROVE Told(flow')
    <2>1. Told(flow)
      BY <1>2, OnTold DEF NameSensors
    <2>2. \E t : flow' = [flow EXCEPT !.made = FALSE, !.todo = t]
      BY <1>2 DEF NameSensors
    <2> QED
      BY <2>1, <2>2 DEF Told, Holds
  <1>3. ASSUME MakeSensor PROVE Told(flow')
    <2>1. Told(flow)
      BY <1>3 DEF MakeSensor, TellInv, Telling, Told
    <2>2. \E t, m : flow' = [flow EXCEPT !.todo = t, !.made = m]
      BY <1>3 DEF MakeSensor
    <2> QED
      BY <2>1, <2>2 DEF Told, Holds
  <1>4. ASSUME Made PROVE Told(flow')
    <2>1. Told(flow)
      BY <1>4 DEF Made, TellInv, Telling, Told
    <2>2. flow' = flow \/ \E l, r : flow' = [NewFlow EXCEPT !.line = l, !.return = r,
                                               !.stopsError = flow.stopsError, !.missing = flow.missing]
      BY <1>4 DEF Made
    <2> QED
      BY <2>1, <2>2, NewFlowTold DEF Told, Holds
  <1> QED
    BY <1>1, <1>2, <1>3, <1>4, ToldTells DEF TellInv

LEMMA NextTells == ASSUME TellInv, SameLine \/ NextJourney \/ Close PROVE TellInv'
  <1>1. ASSUME SameLine PROVE Told(flow')
    <2> DEFINE f == [ResetForNextJourney EXCEPT !.label = flow.line.label]
    <2>1. Told(f)
      BY <1>1, OnTold, ResetTold DEF SameLine, Again, Told, Holds
    <2>2. \E i : ShowStops(f, i)
      BY <1>1 DEF SameLine
    <2> HIDE DEF f
    <2> QED
      BY <2>1, <2>2, StopsTell DEF Told
  <1>2. ASSUME NextJourney PROVE Told(flow')
    BY <1>2, OnTold, ResetTold DEF NextJourney, Again
  <1>3. ASSUME Close PROVE Told(flow')
    BY <1>3, NewFlowTold DEF Close, Told, Holds
  <1> QED
    BY <1>1, <1>2, <1>3, ToldTells DEF TellInv

-----------------------------------------------------------------------------
(* The progress screens *)

LEMMA StepEndsTells == ASSUME TellInv, NEW c, NEW coming, StepEnds(c, coming) PROVE TellInv'
  <1>1. Holds(flow)
    BY DEF TellInv, Telling
  <1>2. CASE cur.step = "extracting" \/ job.added = {}
    <2>1. ShowRoute([flow EXCEPT !.trains = FALSE]) \/ ShowRoute(flow)
      BY <1>2 DEF StepEnds, ReloadFailed
    <2>2. Holds([flow EXCEPT !.trains = FALSE])
      BY <1>1 DEF Holds
    <2> QED
      BY <1>1, <2>1, <2>2, RouteTells, ToldTells DEF TellInv
  <1>3. CASE ~(cur.step = "extracting" \/ job.added = {})
    <2>1. PICK out : flow' = [flow EXCEPT !.missing = out, !.told = IF out = {} THEN "nothing" ELSE "owed"]
      BY <1>3 DEF StepEnds
    <2>2. cur'.kind = "done"
      BY <1>3 DEF StepEnds, Stepping
    <2>3. Holds(flow') /\ flow'.missing = out /\ (flow'.told = "owed" => out # {})
      BY <1>1, <2>1 DEF Holds
    <2> QED
      BY <2>2, <2>3 DEF TellInv, Telling
  <1> QED
    BY <1>2, <1>3

LEMMA ReopenedTells == ASSUME TellInv, NEW c, Reopened(c) PROVE TellInv'
  <1>1. Holds(flow) /\ (Told(flow) \/ flow.missing # {})
    BY DEF TellInv, Telling, Told
  <1>2. CASE UNCHANGED <<cur, flow>>
    BY <1>2 DEF TellInv
  <1>3. CASE ReloadFailed(flow)
    <2>1. Holds([flow EXCEPT !.trains = FALSE])
      BY <1>1 DEF Holds
    <2> QED
      BY <1>3, <2>1, RouteTells, ToldTells DEF ReloadFailed, TellInv
  <1>4. CASE IF flow.missing # {} THEN ShowOptions(flow, inp) ELSE NamePlans(flow, inp)
    BY <1>1, <1>4, OptionsTell, PlansTell, ToldTells DEF TellInv
  <1>5. CASE Direction([flow EXCEPT !.stopsError = flow.missing # {}], inp)
    <2> DEFINE f == [flow EXCEPT !.stopsError = flow.missing # {}]
    <2>1. Holds(f) /\ f.told = flow.told /\ f.stopsError = (flow.missing # {})
      BY <1>1 DEF Holds
    <2> HIDE DEF f
    <2>2. Told(f) \/ f.stopsError = TRUE
      BY <1>1, <2>1 DEF Told
    <2>3. Direction(f, inp)
      BY <1>5 DEF f
    <2> QED
      BY <2>1, <2>2, <2>3, DirectionTells, ToldTells DEF TellInv
  <1> QED
    BY <1>2, <1>3, <1>4, <1>5 DEF Reopened

LEMMA CallTells == ASSUME TellInv, NEW c, StepCall(c) \/ ReloadDone(c) PROVE TellInv'
  <1>1. cur' = cur /\ (flow' = flow \/ flow' = [flow EXCEPT !.again = TRUE])
    BY DEF StepCall, ReloadDone
  <1> QED
    BY <1>1 DEF TellInv, Telling, Holds

\* A call that comes late redraws a form that owes nothing.
LEMMA LateTells == ASSUME TellInv, NEW d, LateCall(d) PROVE TellInv'
  <1>1. Holds(flow) /\ (cur.kind \in {"form", "call"} => Told(flow))
    BY DEF TellInv, Telling, Told
  <1>2. CASE UNCHANGED <<cur, flow>>
    BY <1>2 DEF TellInv
  <1>3. CASE cur.kind = "form" /\ (ShowRoute(flow) \/ ShowStops(flow, inp) \/ ShowOptions(flow, inp))
    BY <1>1, <1>3, RouteTells, StopsTell, OptionsTell, ToldTells DEF TellInv
  <1> QED
    BY <1>2, <1>3 DEF LateCall, Form

LEMMA CallsTell == ASSUME TellInv, NEW c, Configure(c) \/ Proceeds(c) PROVE TellInv'
  <1>1. ASSUME StepCall(c) \/ ReloadDone(c) PROVE TellInv'
    BY <1>1, CallTells
  <1>2. ASSUME ShowProgress(c) PROVE TellInv'
    BY <1>2 DEF ShowProgress, Waiting, TellInv, Telling
  <1> QED
    BY <1>1, <1>2, StepEndsTells, ReopenedTells DEF Configure, Proceeds

LEMMA RunsTell == ASSUME TellInv, JobEnds \/ TickEnds \/ (\E d : DueCall(d)) PROVE TellInv'
  <1>1. ASSUME JobEnds \/ TickEnds PROVE TellInv'
    BY <1>1 DEF JobEnds, TickEnds, TellInv
  <1>2. ASSUME NEW d, DueCall(d) PROVE TellInv'
    <2>1. LateCall(d) \/ \E c \in Callers : StepCall(c) \/ StepEnds(c, due \ {d}) \/ ReloadDone(c)
      BY <1>2 DEF DueCall
    <2> QED
      BY <2>1, LateTells, CallTells, StepEndsTells
  <1> QED
    BY <1>1, <1>2

LEMMA OthersTell ==
    ASSUME TellInv, UNCHANGED flowvars \/ (\E l : OtherImport(l)) \/ (\E l, ends, n : OtherSensor(l, ends, n))
    PROVE  TellInv'
  BY DEF flowvars, OtherImport, OtherSensor, TellInv

LEMMA StepTells == ASSUME TellInv, [FlowNext]_flowvars PROVE TellInv'
  <1>1. CASE Answer
    BY <1>1, LinesTell, BusTells, TrainTells, NamingTells, NextTells DEF Answer
  <1>2. CASE Runs
    BY <1>2, NamingTells, RunsTell, CallsTell DEF Runs
  <1>3. CASE \E c \in Callers : Configure(c)
    BY <1>3, CallsTell
  <1>4. CASE \E d \in {"tick", "screen"} : DueCall(d)
    BY <1>4, RunsTell
  <1>5. CASE \E l \in Bus : \E ends \in Rides[l] :
                \E n \in Names(SuggestedName(l, ends)) : OtherSensor(l, ends, n)
    BY <1>5, OthersTell
  <1>6. CASE (\E l \in Lines : OtherImport(l)) \/ UNCHANGED flowvars
    BY <1>6, OthersTell
  <1> QED
    BY <1>1, <1>2, <1>3, <1>4, <1>5, <1>6 DEF FlowNext

LEMMA TellInvAlways == FlowSpec => []TellInv
  <1>1. FlowInit => TellInv
    BY NewFlowTold, ToldTells DEF FlowInit, TellInv
  <1>2. TellInv /\ [FlowNext]_flowvars => TellInv'
    BY StepTells
  <1> QED
    BY <1>1, <1>2, PTL DEF FlowSpec

-----------------------------------------------------------------------------
(* Sequences the flow is built from *)

LEMMA LeastOf ==
    ASSUME NEW S, S \subseteq Nat, S # {}
    PROVE  \E m \in S : \A k \in S : m <= k
  <1>1. PICK m \in S : \A k \in S : <<k, m>> \notin OpToRel(<, Nat)
    BY WFMin, NatLessThanWellFounded, Zenon
  <1>2. ASSUME NEW k \in S PROVE k \in Nat /\ m \in Nat /\ ~(k < m)
    <2>1. k \in Nat /\ m \in Nat
      OBVIOUS
    <2>2. <<k, m>> \in Nat \X Nat
      BY <2>1
    <2>3. k < m => <<k, m>> \in OpToRel(<, Nat)
      BY <2>2 DEF OpToRel
    <2> QED
      BY <1>1, <2>1, <2>3
  <1> QED
    BY <1>2

\* SetToSeq holds all of a finite set.
LEMMA SeqOfSet ==
    ASSUME NEW S, IsFiniteSet(S)
    PROVE  SetToSeq(S) \in Seq(S) /\ Range(SetToSeq(S)) = S
  <1> DEFINE n == Cardinality(S)
             f == SetToSeq(S)
  <1>1. n \in Nat /\ \E g \in [1..n -> S] : IsInjective(g)
    <2>1. n \in Nat /\ ExistsBijection(1..n, S)
      BY FS_CardinalityType
    <2> QED
      BY <2>1 DEF ExistsBijection, Bijection, Injection, IsInjective
  <1>2. f \in [1..n -> S] /\ IsInjective(f)
    BY <1>1 DEF SetToSeq
  <1> HIDE DEF f
  <1>3. f \in Seq(S)
    BY <1>1, <1>2, IsASeq
  <1>4. ASSUME NEW x \in S, x \notin Range(f) PROVE FALSE
    <2>1. f \in [1..n -> S \ {x}]
      BY <1>2, <1>4 DEF Range
    <2>2. IsFiniteSet(S \ {x}) /\ Cardinality(S \ {x}) = n - 1
      BY <1>4, FS_RemoveElement
    <2>3. IsFiniteSet(1..n) /\ Cardinality(1..n) = n
      BY <1>1, FS_Interval
    <2>4. Cardinality(S \ {x}) < Cardinality(1..n)
      BY <1>1, <2>2, <2>3
    <2> DEFINE D == 1..n
               R == S \ {x}
    <2>5. \E a, b \in D : a # b /\ f[a] = f[b]
      <3>1. IsFiniteSet(D) /\ IsFiniteSet(R) /\ Cardinality(R) < Cardinality(D) /\ f \in [D -> R]
        BY <2>1, <2>2, <2>3, <2>4
      <3> HIDE DEF D, R
      <3> QED
        BY <3>1, FS_PigeonHole
    <2> QED
      BY <1>2, <2>5 DEF IsInjective
  <1>5. Range(f) \subseteq S
    BY <1>2 DEF Range
  <1> QED
    BY <1>3, <1>4, <1>5 DEF f

\* FlattenSeq holds nothing else than its parts do.
LEMMA Flattened ==
    ASSUME NEW T, NEW s \in Seq(Seq(T))
    PROVE  FlattenSeq(s) \in Seq(T)
  <1> DEFINE Flat(n, f) == f = [i \in 1..n |-> IF i = 1 THEN s[i] ELSE f[i - 1] \o s[i]]
             Short == {n \in Nat : n <= Len(s) /\ ~\E f : Flat(n, f)}
  <1>1. Len(s) \in Nat /\ \A i \in 1..Len(s) : s[i] \in Seq(T)
    OBVIOUS
  <1>2. Short = {}
    <2>1. SUFFICES ASSUME Short # {} PROVE FALSE
      OBVIOUS
    <2>2. PICK m \in Short : \A k \in Short : m <= k
      BY <2>1, LeastOf
    <2>3. CASE m = 0
      <3>1. Flat(0, [i \in 1..0 |-> s[i]])
        OBVIOUS
      <3> QED
        BY <2>2, <2>3, <3>1
    <2>4. CASE m # 0
      <3>1. m \in Nat /\ m - 1 \in Nat /\ m - 1 <= Len(s) /\ m - 1 \notin Short
        <4>1. m \in Nat /\ m <= Len(s) /\ Len(s) \in Nat
          BY <1>1, <2>2
        <4>2. m - 1 \in Nat /\ m - 1 <= Len(s) /\ ~(m <= m - 1)
          BY <2>4, <4>1
        <4> HIDE DEF Short
        <4> QED
          BY <2>2, <4>1, <4>2
      <3>2. PICK f : Flat(m - 1, f)
        BY <3>1
      <3> DEFINE g == [i \in 1..m |-> IF i = m THEN (IF i = 1 THEN s[i] ELSE f[i - 1] \o s[i]) ELSE f[i]]
      <3>3. ASSUME NEW i \in 1..m PROVE g[i] = IF i = 1 THEN s[i] ELSE g[i - 1] \o s[i]
        <4>1. CASE i = m
          BY <3>1, <4>1
        <4>2. CASE i # m
          <5>1. i \in 1..m - 1
            BY <3>1, <4>2
          <5>2. f[i] = IF i = 1 THEN s[i] ELSE f[i - 1] \o s[i]
            BY <3>2, <5>1
          <5>3. g[i] = f[i] /\ (i # 1 => g[i - 1] = f[i - 1])
            BY <3>1, <4>2
          <5> QED
            BY <5>2, <5>3
        <4> QED
          BY <4>1, <4>2
      <3>4. Flat(m, g)
        BY <3>3
      <3> HIDE DEF g
      <3> QED
        BY <2>2, <3>4
    <2> QED
      BY <2>3, <2>4
  <1>3. CASE Len(s) = 0
    BY <1>3 DEF FlattenSeq
  <1>4. CASE Len(s) # 0
    <2> DEFINE e == CHOOSE f : Flat(Len(s), f)
    <2>1. FlattenSeq(s) = e[Len(s)]
      BY <1>4 DEF FlattenSeq
    <2>2. Flat(Len(s), e)
      <3>1. Len(s) \in Nat /\ Len(s) <= Len(s)
        BY <1>1
      <3>2. \E f : Flat(Len(s), f)
        BY <1>2, <3>1
      <3> HIDE DEF Flat
      <3> QED
        BY <3>2
    <2> HIDE DEF e
    <2> DEFINE Odd == {i \in Nat : i \in 1..Len(s) /\ e[i] \notin Seq(T)}
    <2>3. Odd = {}
      <3>1. SUFFICES ASSUME Odd # {} PROVE FALSE
        OBVIOUS
      <3>2. PICK m \in Odd : \A k \in Odd : m <= k
        BY <3>1, LeastOf
      <3>3. e[m] = IF m = 1 THEN s[m] ELSE e[m - 1] \o s[m]
        BY <2>2, <3>2
      <3>4. m # 1 => e[m - 1] \in Seq(T)
        BY <1>1, <3>2
      <3>5. s[m] \in Seq(T)
        BY <1>1, <3>2
      <3>6. e[m] \in Seq(T)
        BY <3>3, <3>4, <3>5
      <3> QED
        BY <3>2, <3>6
    <2> QED
      BY <1>1, <1>4, <2>1, <2>3
  <1> QED
    BY <1>3, <1>4

-----------------------------------------------------------------------------
(* The sensors are those answered.  The inductive invariant says, for each  *)
(* screen, which of the inputs are those of the journey being made, which   *)
(* lines the database holds already and which an import under way is to     *)
(* bring in, and that the calls of a progress step belong to its job.       *)
(* It needs two things the code does not ensure: that train options do not  *)
(* end on the unpacking screen, which leaves the flow marked as importing   *)
(* trains, and that no late call shows again a progress screen whose job    *)
(* was taken, which starts the import once more with the inputs filled in.  *)

NotLate == \A c \in Callers : ~(ShowProgress(c) /\ job = NoJob /\ cur # Over)
Prompt == [][NotLate]_flowvars

InputType == [route : Lines \cup {AllTrains, None}, from : Stops \cup {None},
              to : Stops \cup {None}, loop : {None, "0", "1"}, also : BOOLEAN,
              line : Trains \cup {None}, lines : SUBSET Trains]
SaidType == [route : Lines \cup {AllTrains, None}, from : Stops \cup {None}, to : Stops \cup {None},
             way : {None, "0", "1"}, also : BOOLEAN, lines : SUBSET Trains]

Shaped(f) ==
    /\ "towards" \in DOMAIN f /\ "stopsError" \in DOMAIN f /\ "offered" \in DOMAIN f
    /\ "label" \in DOMAIN f /\ "routes" \in DOMAIN f /\ "missing" \in DOMAIN f
    /\ "trains" \in DOMAIN f /\ "plans" \in DOMAIN f /\ "return" \in DOMAIN f
    /\ "line" \in DOMAIN f /\ "todo" \in DOMAIN f /\ "made" \in DOMAIN f /\ "told" \in DOMAIN f

Clean(i) == i.lines = {} /\ i.also = FALSE

FlowData(f) ==
    /\ Shaped(f)
    /\ f.towards \in {None, "0", "1"} /\ f.routes \in Seq(Lines) /\ f.trains \in BOOLEAN
    /\ f.plans \in [lines : SUBSET Trains, also : BOOLEAN]
    /\ <<AllTrains, TRUE>> \notin f.offered
    /\ f.line.inputs \in InputType /\ Clean(f.line.inputs)

JobType == [kind : {None, "importing", "extracting"}, at : {None, "running", "done"},
            routes : Seq(Lines), added : SUBSET Lines]

JobData ==
    /\ job \in JobType
    /\ tick \in {None, "running", "over"} /\ due \subseteq {"tick", "screen"}
    /\ calls \in [Callers -> {None, "importing", "extracting", "reload_done", "reopen"} \cup Callers]
    /\ reopen \in Callers \cup {None}
    /\ job # NoJob => job.kind \in {"importing", "extracting"}
    /\ job.at = "done" => job.added \subseteq base.lines

Control ==
    /\ cur.kind \in {"form", "progress", "done", "call", "over"}
    /\ cur.kind \in {"form", "call", "done"} => job = NoJob
    /\ cur.kind = "progress" => job # NoJob /\ cur = Waiting(job.kind)
    /\ cur.kind = "done" => cur.step = "reload_done"
    /\ cur.kind = "over" => cur = Over
    /\ \A c \in Callers :
          /\ calls[c] = "reopen" => reopen = c /\ cur.kind \in {"done", "over"}
          /\ calls[c] = "reload_done" /\ cur.kind \notin {"done", "over"} => reopen # None
          /\ calls[c] \in {"importing", "extracting"} /\ job # NoJob /\ cur # Over => calls[c] = job.kind

Named == {"sensor", "sensor_train", "sensors_train", "finished", None}
BusScreens == {"stops", "towards", "destination", "options_stops"}
TrainScreens == {"stops_train", "destination_train", "options_train", "sensor_train", "sensors_train"}
Imports == {"importing", "reload_done"}

\* Until a journey is named nothing of its entry is in the inputs but what
\* each screen wrote, and no import but that of its trains is taken for one.
Blank(s, i, f, y) ==
    /\ s \notin Named => Clean(i) /\ f.return = Unread
    /\ s \in Imports \cup BusScreens \cup {"route_reload"} => f.trains = TRUE \/ y.also = FALSE
    /\ s \notin Imports \cup {"options_train", None} => f.trains = FALSE
    /\ s \in Imports \cup {"route_reload"} => f.trains = TRUE \/ (i.route = y.route /\ i.route \in Lines)

BusData(s, i, f, y, ls) ==
    /\ s \in BusScreens \cup {"sensor"} => i.route = y.route /\ i.route \in Bus \cap ls
    /\ s \in {"towards", "destination", "options_stops", "sensor"} => i.from = y.from /\ f.towards = y.way
    /\ s \in {"options_stops", "sensor"} =>
          i.to = y.to /\ <<i.from, i.to>> \in Rides[i.route] /\ i.loop = PairDirection(i.route, y.way)
    /\ s = "sensor" =>
          /\ i.lines = {} /\ i.also = y.also
          /\ f.return # NoReturn =>
                /\ f.return.ends = <<i.to, i.from>> /\ f.return.ends \in Rides[i.route]
                /\ f.return.loop = PairDirection(i.route, None)

Riding(i, f, y) ==
    /\ f.plans.lines \subseteq y.lines /\ f.plans.also = y.also
    /\ \A l \in f.plans.lines : <<i.from, i.to>> \in Rides[l]

TrainData(s, i, f, y, ls) ==
    /\ s \in TrainScreens \/ (s \in Imports /\ f.trains = TRUE) =>
          y.route \in Trains \cup {AllTrains} /\ i.route \in Trains \cup {AllTrains}
    /\ s \in TrainScreens \ {"stops_train"} \/ (s \in Imports /\ f.trains = TRUE) => i.from = y.from
    /\ s \in TrainScreens \ {"stops_train", "destination_train"} \/ (s \in Imports /\ f.trains = TRUE) =>
          i.to = y.to /\ i.route = AllTrains
    /\ s \in {"sensor_train", "sensors_train"} \/ (s \in Imports /\ f.trains = TRUE) => Riding(i, f, y)
    /\ s = "importing" /\ f.trains = TRUE => f.plans.lines \subseteq ls \cup Range(f.routes)
    /\ s = "reload_done" /\ f.trains = TRUE => f.plans.lines \subseteq ls \cup f.missing
    /\ s \in {"sensor_train", "sensors_train"} => f.plans.lines \subseteq ls
    /\ s = "sensor_train" =>
          /\ i.lines = f.plans.lines /\ i.also = f.plans.also
          /\ \E l \in Trains :
                /\ f.plans.lines = {l}
                /\ f.return # NoReturn =>
                      f.return.ends = <<i.to, i.from>> /\ f.return.ends \in Rides[l]

Screens(s, i, f, y, ls) == Blank(s, i, f, y) /\ BusData(s, i, f, y, ls) /\ TrainData(s, i, f, y, ls)

\* A sensor to be made is of the journey answered, on lines loaded.
Rideable(e) == e.ends \in Rides[IF e.route = AllTrains THEN CHOOSE l \in e.lines : TRUE ELSE e.route]
Mine(e) ==
    /\ OwnJourney(e) /\ Rideable(e)
    /\ e.lines \cup ({e.route} \ {AllTrains}) \subseteq base.lines
AllMine(todo) == \E T : todo \in Seq(T) /\ \A e \in T : Mine(e)

Filled == inp \in InputType /\ said \in SaidType /\ FlowData(flow)
Loaded == /\ base.lines \subseteq Lines /\ (base.lines # {} => base.built)
          /\ \A e \in entries : Rideable(e)

FlowInv ==
    /\ Filled /\ JobData /\ Control /\ Loaded
    /\ Screens(cur.step, inp, flow, said, base.lines)
    /\ cur.kind = "call" => AllMine(flow.todo)

-----------------------------------------------------------------------------
(* What a screen answered leaves *)

LEMMA OnIs == ASSUME NEW s, On(s)
              PROVE  cur.kind = "form" /\ cur.step = s /\ \A c \in Callers : calls[c] = None
  BY DEF On, Form

LEMMA AnswerKeeps ==
    ASSUME FlowInv, cur.kind = "form", \A c \in Callers : calls[c] = None,
           UNCHANGED <<progress, entries, base>>,
           cur' = Over \/ cur'.kind \in {"form", "call"}
    PROVE  JobData' /\ Control' /\ Loaded'
  <1>1. UNCHANGED <<job, tick, due, calls, reopen, entries, base>>
    BY DEF progress
  <1>2. JobData' /\ Loaded'
    BY <1>1 DEF FlowInv, JobData, Loaded, Rideable
  <1>3. job = NoJob
    BY DEF FlowInv, Control
  <1>4. Control'
    <2>1. cur'.kind \in {"form", "call", "over"} /\ (cur'.kind = "over" => cur' = Over)
      BY DEF Over
    <2>2. \A c \in Callers : calls[c] = None /\ calls'[c] = None
      BY <1>1
    <2> QED
      BY <1>1, <1>3, <2>1, <2>2 DEF Control, None
  <1> QED
    BY <1>2, <1>4

LEMMA StartKeeps ==
    ASSUME FlowInv, cur.kind = "form", \A c \in Callers : calls[c] = None,
           NEW s \in {"importing", "extracting"}, NEW routes \in Seq(Lines), Starts(s, routes),
           reopen' \in {reopen, None}, UNCHANGED <<entries, base>>
    PROVE  JobData' /\ Control' /\ Loaded' /\ cur'.kind = "progress" /\ cur'.step = s
  <1>0. job.kind # s
    BY DEF FlowInv, Control, NoJob, None
  <1>1. /\ job' = [kind |-> s, at |-> "running", routes |-> routes, added |-> {}]
        /\ tick' = "running" /\ due' = due /\ calls' = calls
        /\ cur' = Waiting(s) /\ cur'.kind = "progress" /\ cur'.step = s
    BY <1>0 DEF Starts, Begun, Waiting
  <1>2. JobData' /\ Loaded'
    <2>1. job' \in JobType /\ job'.kind = s /\ job'.at = "running"
      BY <1>1 DEF JobType
    <2> QED
      BY <1>1, <2>1 DEF FlowInv, JobData, Loaded, Rideable
  <1>3. Control'
    <2>1. job' # NoJob /\ job'.kind = s
      BY <1>1 DEF NoJob, None
    <2>2. \A c \in Callers : calls'[c] = None
      BY <1>1
    <2> QED
      BY <1>1, <2>1, <2>2 DEF Control, None
  <1> QED
    BY <1>1, <1>2, <1>3

\* The four fields a fresh screen starts from.
Fresh(f, i) == FlowData(f) /\ f.return = Unread /\ f.trains = FALSE /\ i \in InputType /\ Clean(i)

LEMMA NewFlowData == Fresh(NewFlow, NoInputs) /\ NewFlow.todo = <<>>
  <1>1. NoInputs \in InputType /\ Clean(NoInputs)
    BY DEF NoInputs, InputType, Clean
  <1>2. /\ Shaped(NewFlow) /\ NewFlow.towards = None /\ NewFlow.routes = <<>> /\ NewFlow.trains = FALSE
        /\ NewFlow.plans = [lines |-> {}, also |-> FALSE] /\ NewFlow.offered = {}
        /\ NewFlow.line.inputs = NoInputs /\ NewFlow.return = Unread /\ NewFlow.todo = <<>>
    BY DEF NewFlow, Shaped
  <1>3. NewFlow.routes \in Seq(Lines)
    BY <1>2
  <1>4. NewFlow.plans \in [lines : SUBSET Trains, also : BOOLEAN]
    BY <1>2
  <1> QED
    BY <1>1, <1>2, <1>3, <1>4 DEF Fresh, FlowData

LEMMA OfferHasNoTrain == <<AllTrains, TRUE>> \notin Offer
  <1>1. AllTrains \notin Lines
    BY LinesAssumption
  <1> QED
    BY <1>1 DEF Offer

LEMMA RouteShown ==
    ASSUME NEW f, Fresh(f, inp), ShowRoute(f), UNCHANGED inp
    PROVE  /\ FlowData(flow') /\ cur'.kind = "form"
           /\ \A y, ls : Screens(cur'.step, inp', flow', y, ls)
  <1>1. /\ FlowData(flow') /\ flow'.return = Unread /\ flow'.trains = FALSE
        /\ cur'.kind = "form" /\ cur'.step = "route"
    BY OfferHasNoTrain DEF ShowRoute, Form, Fresh, FlowData, Shaped
  <1>2. \A y, ls : Screens("route", inp, flow', y, ls)
    BY <1>1 DEF Fresh, Screens, Blank, BusData, TrainData, Imports, BusScreens, TrainScreens, Named, None
  <1> QED
    BY <1>1, <1>2

LEMMA StopsShown ==
    ASSUME NEW f, NEW i, Fresh(f, i), NEW y, i.route = y.route, y.also = FALSE,
           base.lines \subseteq Lines, ShowStops(f, i)
    PROVE  /\ FlowData(flow') /\ inp' = i
           /\ cur' = Over \/ cur'.kind = "form"
           /\ Screens(cur'.step, i, flow', y, base.lines)
  <1>1. /\ FlowData(flow') /\ flow'.return = Unread /\ flow'.trains = FALSE /\ inp' = i
    BY DEF ShowStops, Fresh, FlowData, Shaped
  <1>2. CASE i.route \in Trains \cup {AllTrains}
    <2>1. cur'.kind = "form" /\ cur'.step = "stops_train"
      BY <1>2 DEF ShowStops, Form
    <2>2. Screens("stops_train", i, flow', y, base.lines)
      BY <1>1, <1>2 DEF Fresh, Screens, Blank, BusData, TrainData, Imports, BusScreens, TrainScreens, Named, None
    <2> QED
      BY <1>1, <2>1, <2>2
  <1>3. CASE i.route \notin Trains \cup {AllTrains} /\ i.route \in base.lines
    <2>1. cur'.kind = "form" /\ cur'.step = "stops" /\ i.route \in Bus
      BY <1>3 DEF ShowStops, Form, Lines
    <2>2. Screens("stops", i, flow', y, base.lines)
      BY <1>1, <1>3, <2>1 DEF Fresh, Screens, Blank, BusData, TrainData, Imports, BusScreens, TrainScreens, Named, None
    <2> QED
      BY <1>1, <2>1, <2>2
  <1>4. CASE i.route \notin Trains \cup {AllTrains} /\ i.route \notin base.lines
    <2>1. cur' = Over /\ cur'.step = None
      BY <1>4 DEF ShowStops, Over
    <2>2. Screens(None, i, flow', y, base.lines)
      BY DEF Screens, Blank, BusData, TrainData, Imports, BusScreens, TrainScreens, Named, None
    <2> QED
      BY <1>1, <2>1, <2>2
  <1> QED
    BY <1>2, <1>3, <1>4

LEMMA DirectionShown ==
    ASSUME NEW f, NEW i, Fresh(f, i), NEW y, i.route = y.route, y.also = FALSE,
           base.lines \subseteq Lines, Direction(f, i)
    PROVE  /\ FlowData(flow') /\ inp' = i
           /\ cur' = Over \/ cur'.kind = "form"
           /\ Screens(cur'.step, i, flow', y, base.lines)
  <1> DEFINE g == [f EXCEPT !.line = [inputs |-> i, label |-> f.label]]
  <1>1. Fresh(g, i)
    BY DEF Fresh, FlowData, Shaped
  <1>2. ShowStops(g, i)
    BY DEF Direction
  <1> HIDE DEF g
  <1> QED
    BY <1>1, <1>2, StopsShown

LEMMA PickSourceInv == ASSUME FlowInv, PickSource PROVE FlowInv'
  <1>1. /\ cur.kind = "form" /\ cur.step = "start_end" /\ \A c \in Callers : calls[c] = None
        /\ UNCHANGED <<inp, entries, base, said>>
    BY OnIs DEF PickSource
  <1>2. Fresh(flow, inp) /\ said \in SaidType
    BY <1>1 DEF FlowInv, Filled, Fresh, Screens, Blank, Named, Imports, None
  <1>3. CASE Extracting /\ UNCHANGED flow
    <2>1. JobData' /\ Control' /\ Loaded' /\ cur'.kind = "progress" /\ cur'.step = "extracting"
      <3>1. Starts("extracting", <<>>) /\ reopen' = reopen /\ <<>> \in Seq(Lines)
        BY <1>3 DEF Extracting
      <3> QED
        BY <1>1, <3>1, StartKeeps
    <2>2. Screens("extracting", inp, flow, said, base.lines)
      BY <1>2 DEF Fresh, Screens, Blank, BusData, TrainData, Imports, BusScreens, TrainScreens, Named, None
    <2> QED
      BY <1>1, <1>2, <1>3, <2>1, <2>2 DEF FlowInv, Filled, Fresh
  <1>4. CASE ShowRoute(flow) /\ UNCHANGED progress
    <2>1. FlowData(flow') /\ cur'.kind = "form" /\ Screens(cur'.step, inp', flow', said', base'.lines)
      BY <1>1, <1>2, <1>4, RouteShown
    <2>2. JobData' /\ Control' /\ Loaded'
      BY <1>1, <1>4, <2>1, AnswerKeeps
    <2> QED
      BY <1>1, <1>2, <2>1, <2>2 DEF FlowInv, Filled, Fresh
  <1> QED
    BY <1>3, <1>4 DEF PickSource

LEMMA PickRouteInv ==
    ASSUME FlowInv, NEW l \in Lines \cup {AllTrains}, NEW pruned \in BOOLEAN, PickRoute(l, pruned)
    PROVE  FlowInv'
  <1> DEFINE i == [inp EXCEPT !.route = l]
             f == [flow EXCEPT !.label = l]
  <1>1. /\ cur.kind = "form" /\ cur.step = "route" /\ \A c \in Callers : calls[c] = None
        /\ <<l, pruned>> \in flow.offered /\ said' = [NotSaid EXCEPT !.route = l]
        /\ UNCHANGED <<progress, entries, base>>
    BY OnIs DEF PickRoute
  <1>2. Fresh(flow, inp) /\ base.lines \subseteq Lines
    BY <1>1 DEF FlowInv, Filled, Loaded, Fresh, Screens, Blank, Named, Imports, None
  <1>3. Fresh(f, i) /\ i.route = l
    BY <1>2 DEF Fresh, FlowData, Shaped, InputType, Clean
  <1>4. said' \in SaidType /\ said'.route = l /\ said'.also = FALSE
    BY <1>1 DEF SaidType, NotSaid
  <1>5. IF pruned THEN cur' = Form("route_reload") /\ inp' = i /\ flow' = f ELSE Direction(f, i)
    BY DEF PickRoute
  <1> HIDE DEF i, f
  <1>6. CASE pruned
    <2>1. l \in Lines
      BY <1>1, <1>2, <1>6 DEF Fresh, FlowData
    <2>2. cur'.kind = "form" /\ cur'.step = "route_reload" /\ inp' = i /\ flow' = f
      BY <1>5, <1>6 DEF Form
    <2>3. Screens("route_reload", i, f, said', base.lines)
      BY <1>3, <1>4, <2>1 DEF Fresh, Screens, Blank, BusData, TrainData, Imports, BusScreens, TrainScreens, Named, None
    <2>4. JobData' /\ Control' /\ Loaded'
      BY <1>1, <2>2, AnswerKeeps
    <2> QED
      BY <1>1, <1>3, <1>4, <2>2, <2>3, <2>4 DEF FlowInv, Filled, Fresh
  <1>7. CASE ~pruned
    <2>1. /\ FlowData(flow') /\ inp' = i
          /\ cur' = Over \/ cur'.kind = "form"
          /\ Screens(cur'.step, i, flow', said', base.lines)
      BY <1>2, <1>3, <1>4, <1>5, <1>7, DirectionShown
    <2>2. JobData' /\ Control' /\ Loaded'
      BY <1>1, <2>1, AnswerKeeps
    <2>3. cur'.kind # "call"
      BY <2>1 DEF Over
    <2> QED
      BY <1>1, <1>3, <1>4, <2>1, <2>2, <2>3 DEF FlowInv, Filled, Fresh
  <1> QED
    BY <1>6, <1>7

LEMMA AskImportInv == ASSUME FlowInv, NEW also \in SUBSET Lines, AskImport(also) PROVE FlowInv'
  <1>1. /\ cur.kind = "form" /\ cur.step = "route_reload" /\ \A c \in Callers : calls[c] = None
        /\ flow' = [flow EXCEPT !.routes = <<inp.route>> \o SetToSeq(also), !.again = FALSE]
        /\ Starts("importing", <<inp.route>> \o SetToSeq(also)) /\ reopen' \in {reopen, None}
        /\ UNCHANGED <<inp, entries, base, said>>
    BY OnIs DEF AskImport, Importing
  <1>2. /\ Fresh(flow, inp) /\ said \in SaidType
        /\ inp.route = said.route /\ inp.route \in Lines /\ said.also = FALSE
    BY <1>1 DEF FlowInv, Filled, Fresh, Screens, Blank, Named, Imports, BusScreens, None
  <1>3. <<inp.route>> \o SetToSeq(also) \in Seq(Lines)
    <2>1. IsFiniteSet(also)
      BY LinesAssumption, FS_Subset
    <2>2. SetToSeq(also) \in Seq(also)
      BY <2>1, SeqOfSet
    <2>3. SetToSeq(also) \in Seq(Lines)
      BY <2>2, SeqMonotonic
    <2> QED
      BY <1>2, <2>3
  <1>4. Fresh(flow', inp)
    BY <1>1, <1>2, <1>3 DEF Fresh, FlowData, Shaped
  <1>5. JobData' /\ Control' /\ Loaded' /\ cur'.kind = "progress" /\ cur'.step = "importing"
    BY <1>1, <1>3, StartKeeps
  <1>6. Screens("importing", inp, flow', said, base.lines)
    BY <1>2, <1>4 DEF Fresh, Screens, Blank, BusData, TrainData, Imports, BusScreens, TrainScreens, Named, None
  <1> QED
    BY <1>1, <1>2, <1>4, <1>5, <1>6 DEF FlowInv, Filled, Fresh

-----------------------------------------------------------------------------
(* The stops of a bus *)

LEMMA BusIsLine == Bus \cap (Trains \cup {AllTrains, None}) = {} /\ Trains \cap {AllTrains, None} = {}
  BY LinesAssumption DEF Lines

LEMMA TowardsShown ==
    ASSUME NEW l, NEW s, cur' = Towards(l, s)
    PROVE  (cur'.kind = "form" /\ cur'.step = "destination") \/ cur' = Over
  BY DEF Towards, Form

LEMMA OverShows == ASSUME NEW i, NEW f, NEW y, NEW ls PROVE Screens(Over.step, i, f, y, ls)
  <1>1. Over.step = None
    BY DEF Over
  <1>2. Screens(None, i, f, y, ls)
    BY DEF Screens, Blank, BusData, TrainData, Imports, BusScreens, TrainScreens, Named, None
  <1> QED
    BY <1>1, <1>2

LEMMA PickOriginInv == ASSUME FlowInv, NEW s \in Stops, PickOrigin(s) PROVE FlowInv'
  <1>1. /\ cur.kind = "form" /\ cur.step = "stops" /\ \A c \in Callers : calls[c] = None
        /\ inp' = [inp EXCEPT !.from = s] /\ said' = [said EXCEPT !.from = s, !.way = None]
        /\ flow' = [flow EXCEPT !.towards = None]
        /\ cur' = IF inp.route \in Circular THEN Form("towards") ELSE Towards(inp.route, s)
        /\ UNCHANGED <<progress, entries, base>>
    BY OnIs DEF PickOrigin
  <1>2. /\ Fresh(flow, inp) /\ said \in SaidType /\ said.also = FALSE
        /\ inp.route = said.route /\ inp.route \in Bus \cap base.lines
    BY <1>1 DEF FlowInv, Filled, Fresh, Screens, Blank, BusData, Named, Imports, BusScreens, None
  <1>3. /\ Fresh(flow', inp') /\ flow'.towards = None
        /\ inp'.from = s /\ inp'.route = inp.route
    BY <1>1, <1>2 DEF Fresh, FlowData, Shaped, InputType, Clean
  <1>4. /\ said' \in SaidType /\ said'.from = s /\ said'.way = None /\ said'.also = FALSE /\ said'.route = said.route
    BY <1>1, <1>2 DEF SaidType
  <1>5. (cur'.kind = "form" /\ cur'.step \in {"towards", "destination"}) \/ cur' = Over
    BY <1>1, TowardsShown DEF Form
  <1>6. JobData' /\ Control' /\ Loaded' /\ cur'.kind # "call"
    BY <1>1, <1>5, AnswerKeeps DEF Over
  <1>7. \A t \in {"towards", "destination"} : Screens(t, inp', flow', said', base.lines)
    BY <1>2, <1>3, <1>4 DEF Fresh, Screens, Blank, BusData, TrainData, Imports, BusScreens, TrainScreens, Named, None
  <1>8. Screens(cur'.step, inp', flow', said', base'.lines)
    BY <1>1, <1>5, <1>7, OverShows
  <1> QED
    BY <1>3, <1>4, <1>6, <1>8 DEF FlowInv, Filled, Fresh

LEMMA PickTowardsInv == ASSUME FlowInv, NEW w \in {"0", "1"}, PickTowards(w) PROVE FlowInv'
  <1>1. /\ cur.kind = "form" /\ cur.step = "towards" /\ \A c \in Callers : calls[c] = None
        /\ flow' = [flow EXCEPT !.towards = w] /\ said' = [said EXCEPT !.way = w]
        /\ cur' = Towards(inp.route, inp.from)
        /\ UNCHANGED <<progress, inp, entries, base>>
    BY OnIs DEF PickTowards
  <1>2. /\ Fresh(flow, inp) /\ said \in SaidType /\ said.also = FALSE
        /\ inp.route = said.route /\ inp.route \in Bus \cap base.lines /\ inp.from = said.from
    BY <1>1 DEF FlowInv, Filled, Fresh, Screens, Blank, BusData, Named, Imports, BusScreens, None
  <1>3. Fresh(flow', inp) /\ flow'.towards = w
    BY <1>1, <1>2 DEF Fresh, FlowData, Shaped
  <1>4. said' \in SaidType /\ said'.from = said.from /\ said'.way = w /\ said'.also = FALSE /\ said'.route = said.route
    BY <1>1, <1>2 DEF SaidType
  <1>5. (cur'.kind = "form" /\ cur'.step = "destination") \/ cur' = Over
    BY <1>1, TowardsShown
  <1>6. JobData' /\ Control' /\ Loaded' /\ cur'.kind # "call"
    BY <1>1, <1>5, AnswerKeeps DEF Over
  <1>7. Screens("destination", inp', flow', said', base.lines)
    BY <1>1, <1>2, <1>3, <1>4 DEF Fresh, Screens, Blank, BusData, TrainData, Imports, BusScreens, TrainScreens, Named, None
  <1>8. Screens(cur'.step, inp', flow', said', base'.lines)
    BY <1>1, <1>5, <1>7, OverShows
  <1> QED
    BY <1>1, <1>3, <1>4, <1>6, <1>8 DEF FlowInv, Filled, Fresh

LEMMA PairDirectionIs == ASSUME NEW l, NEW w \in {None, "0", "1"} PROVE PairDirection(l, w) \in {None, "0", "1"}
  BY DEF PairDirection

LEMMA SensorShown ==
    ASSUME NEW f, NEW i, FlowData(f), f.return = Unread, f.trains = FALSE, ShowSensor(f, i), NEW y,
           i.lines = {}, i.also = y.also, i.route = y.route, i.route \in Bus \cap base.lines,
           i.from = y.from, f.towards = y.way, i.to = y.to, <<i.from, i.to>> \in Rides[i.route],
           i.loop = PairDirection(i.route, y.way)
    PROVE  /\ FlowData(flow') /\ inp' = i /\ cur'.kind = "form"
           /\ Screens(cur'.step, i, flow', y, base.lines)
  <1>1. /\ FlowData(flow') /\ inp' = i /\ cur'.kind = "form" /\ cur'.step = "sensor"
        /\ flow'.trains = FALSE /\ flow'.towards = f.towards /\ flow'.return = FindReturn(f, i)
    BY DEF ShowSensor, Form, FlowData, Shaped
  <1>2. flow'.return # NoReturn =>
           /\ flow'.return.ends = <<i.to, i.from>> /\ flow'.return.ends \in Rides[i.route]
           /\ flow'.return.loop = PairDirection(i.route, None)
    BY <1>1 DEF FindReturn
  <1>3. Screens("sensor", i, flow', y, base.lines)
    BY <1>1, <1>2 DEF Screens, Blank, BusData, TrainData, Imports, BusScreens, TrainScreens, Named, None
  <1> QED
    BY <1>1, <1>3

LEMMA PickDestinationInv == ASSUME FlowInv, NEW s \in Stops, PickDestination(s) PROVE FlowInv'
  <1> DEFINE i == [inp EXCEPT !.to = s, !.loop = PairDirection(inp.route, flow.towards)]
  <1>1. /\ cur.kind = "form" /\ cur.step = "destination" /\ \A c \in Callers : calls[c] = None
        /\ <<inp.from, s>> \in Rides[inp.route] /\ said' = [said EXCEPT !.to = s]
        /\ \/ cur' = Form("options_stops") /\ inp' = i /\ UNCHANGED flow
           \/ ShowSensor(flow, i)
        /\ UNCHANGED <<progress, entries, base>>
    BY OnIs DEF PickDestination
  <1>2. /\ Fresh(flow, inp) /\ said \in SaidType /\ said.also = FALSE
        /\ inp.route = said.route /\ inp.route \in Bus \cap base.lines /\ inp.from = said.from
        /\ flow.towards = said.way
    BY <1>1 DEF FlowInv, Filled, Fresh, Screens, Blank, BusData, Named, Imports, BusScreens, None
  <1>3. PairDirection(inp.route, flow.towards) \in {None, "0", "1"}
    BY <1>2, PairDirectionIs DEF Fresh, FlowData
  <1>4. /\ i \in InputType /\ i.to = s /\ i.from = inp.from /\ i.route = inp.route
        /\ i.loop = PairDirection(inp.route, flow.towards) /\ Clean(i)
    BY <1>2, <1>3 DEF Fresh, InputType, Clean
  <1> HIDE DEF i
  <1>5. /\ said' \in SaidType /\ said'.to = s /\ said'.from = said.from /\ said'.way = said.way
        /\ said'.also = FALSE /\ said'.route = said.route
    BY <1>1, <1>2 DEF SaidType
  <1>6. /\ FlowData(flow') /\ inp' = i /\ cur'.kind = "form"
        /\ Screens(cur'.step, i, flow', said', base.lines)
    <2>1. CASE cur' = Form("options_stops") /\ inp' = i /\ UNCHANGED flow
      <3>1. Screens("options_stops", i, flow, said', base.lines)
        BY <1>1, <1>2, <1>4, <1>5 DEF Fresh, Screens, Blank, BusData, TrainData, Imports, BusScreens, TrainScreens, Named, None
      <3> QED
        BY <1>2, <2>1, <3>1 DEF Form, Fresh
    <2>2. CASE ShowSensor(flow, i)
      <3>1. /\ i.lines = {} /\ i.also = said'.also /\ i.route = said'.route /\ i.from = said'.from
            /\ i.to = said'.to /\ flow.towards = said'.way /\ <<i.from, i.to>> \in Rides[i.route]
            /\ i.loop = PairDirection(i.route, said'.way) /\ i.route \in Bus \cap base.lines
        BY <1>1, <1>2, <1>4, <1>5 DEF Clean
      <3>2. FlowData(flow) /\ flow.return = Unread /\ flow.trains = FALSE
        BY <1>2 DEF Fresh
      <3> QED
        BY <2>2, <3>1, <3>2, SensorShown
    <2> QED
      BY <1>1, <2>1, <2>2
  <1>7. JobData' /\ Control' /\ Loaded'
    BY <1>1, <1>6, AnswerKeeps
  <1> QED
    BY <1>1, <1>4, <1>5, <1>6, <1>7 DEF FlowInv, Filled

LEMMA AlsoAtInv == ASSUME FlowInv, NEW b \in BOOLEAN, AlsoAt(b) PROVE FlowInv'
  <1> DEFINE i == [inp EXCEPT !.also = @ \/ b]
             f == [flow EXCEPT !.return = Unread]
  <1>1. /\ cur.kind = "form" /\ cur.step = "options_stops" /\ \A c \in Callers : calls[c] = None
        /\ said' = [said EXCEPT !.also = b] /\ ShowSensor(f, i)
        /\ UNCHANGED <<progress, entries, base>>
    BY OnIs DEF AlsoAt
  <1>2. /\ Fresh(flow, inp) /\ said \in SaidType
        /\ inp.route = said.route /\ inp.route \in Bus \cap base.lines /\ inp.from = said.from
        /\ flow.towards = said.way /\ inp.to = said.to /\ <<inp.from, inp.to>> \in Rides[inp.route]
        /\ inp.loop = PairDirection(inp.route, said.way)
    BY <1>1 DEF FlowInv, Filled, Fresh, Screens, Blank, BusData, Named, Imports, BusScreens, None
  <1>3. /\ i \in InputType /\ i.to = inp.to /\ i.from = inp.from /\ i.route = inp.route
        /\ i.loop = inp.loop /\ i.lines = {} /\ i.also = b
    BY <1>2 DEF Fresh, InputType, Clean
  <1>4. FlowData(f) /\ f.return = Unread /\ f.trains = FALSE /\ f.towards = flow.towards
    BY <1>2 DEF Fresh, FlowData, Shaped
  <1> HIDE DEF i, f
  <1>5. /\ said' \in SaidType /\ said'.to = said.to /\ said'.from = said.from /\ said'.way = said.way
        /\ said'.also = b /\ said'.route = said.route
    BY <1>1, <1>2 DEF SaidType
  <1>6. /\ FlowData(flow') /\ inp' = i /\ cur'.kind = "form"
        /\ Screens(cur'.step, i, flow', said', base.lines)
    <2>1. /\ i.lines = {} /\ i.also = said'.also /\ i.route = said'.route /\ i.from = said'.from
          /\ i.to = said'.to /\ f.towards = said'.way /\ <<i.from, i.to>> \in Rides[i.route]
          /\ i.loop = PairDirection(i.route, said'.way) /\ i.route \in Bus \cap base.lines
      BY <1>2, <1>3, <1>4, <1>5
    <2> QED
      BY <1>1, <1>4, <2>1, SensorShown
  <1>7. JobData' /\ Control' /\ Loaded'
    BY <1>1, <1>6, AnswerKeeps
  <1> QED
    BY <1>1, <1>3, <1>5, <1>6, <1>7 DEF FlowInv, Filled

-----------------------------------------------------------------------------
(* The stations of a train *)

LEMMA PickStationInv == ASSUME FlowInv, NEW s \in Stops, PickStation(s) PROVE FlowInv'
  <1>1. /\ cur.kind = "form" /\ cur.step = "stops_train" /\ \A c \in Callers : calls[c] = None
        /\ inp' = [inp EXCEPT !.from = s] /\ said' = [said EXCEPT !.from = s]
        /\ cur' = Form("destination_train") \/ cur' = cur
        /\ UNCHANGED <<flow, progress, entries, base>>
    BY OnIs DEF PickStation
  <1>2. /\ Fresh(flow, inp) /\ said \in SaidType
        /\ inp.route \in Trains \cup {AllTrains} /\ said.route \in Trains \cup {AllTrains}
    BY <1>1 DEF FlowInv, Filled, Fresh, Screens, Blank, TrainData, Named, Imports, TrainScreens, None
  <1>3. Fresh(flow', inp') /\ inp'.from = s /\ inp'.route = inp.route
    BY <1>1, <1>2 DEF Fresh, FlowData, Shaped, InputType, Clean
  <1>4. said' \in SaidType /\ said'.from = s /\ said'.route = said.route
    BY <1>1, <1>2 DEF SaidType
  <1>5. cur'.kind = "form" /\ cur'.step \in {"stops_train", "destination_train"}
    BY <1>1 DEF Form
  <1>6. JobData' /\ Control' /\ Loaded'
    BY <1>1, <1>5, AnswerKeeps
  <1>7. \A t \in {"stops_train", "destination_train"} : Screens(t, inp', flow', said', base'.lines)
    BY <1>2, <1>3, <1>4 DEF Fresh, Screens, Blank, BusData, TrainData, Imports, BusScreens, TrainScreens, Named, None
  <1> QED
    BY <1>3, <1>4, <1>5, <1>6, <1>7 DEF FlowInv, Filled, Fresh

LEMMA OptionsShown ==
    ASSUME NEW f, NEW i, FlowData(f), f.return = Unread, Clean(i), ShowOptions(f, i), NEW y, NEW ls,
           y.route \in Trains \cup {AllTrains}, i.route = AllTrains, i.from = y.from, i.to = y.to
    PROVE  /\ FlowData(flow') /\ inp' = i /\ cur'.kind = "form"
           /\ Screens(cur'.step, i, flow', y, ls)
  <1>1. /\ FlowData(flow') /\ inp' = i /\ cur'.kind = "form" /\ cur'.step = "options_train"
        /\ flow'.return = Unread
    BY DEF ShowOptions, Form, FlowData, Shaped
  <1>2. Screens("options_train", i, flow', y, ls)
    BY <1>1 DEF Screens, Blank, BusData, TrainData, Imports, BusScreens, TrainScreens, Named, None
  <1> QED
    BY <1>1, <1>2

LEMMA PickArrivalInv == ASSUME FlowInv, NEW s \in Stops, PickArrival(s) PROVE FlowInv'
  <1> DEFINE first == inp.route = AllTrains
             missing == IF first THEN TrainLinesMissing(<<inp.from, s>>, {}) ELSE {}
             i == [inp EXCEPT !.to = s, !.line = IF first THEN None ELSE inp.route]
             f == [flow EXCEPT !.trains = missing # {}]
  <1>1. /\ cur.kind = "form" /\ cur.step = "destination_train" /\ \A c \in Callers : calls[c] = None
        /\ said' = [said EXCEPT !.to = s] /\ UNCHANGED <<entries, base>>
    BY OnIs DEF PickArrival
  <1>2. \/ missing = {} /\ Extracting /\ flow' = f /\ inp' = i
        \/ ShowOptions(f, [i EXCEPT !.route = AllTrains]) /\ UNCHANGED progress
    BY DEF PickArrival
  <1>3. /\ Fresh(flow, inp) /\ said \in SaidType /\ inp.from = said.from
        /\ inp.route \in Trains \cup {AllTrains} /\ said.route \in Trains \cup {AllTrains}
    BY <1>1 DEF FlowInv, Filled, Fresh, Screens, Blank, TrainData, Named, Imports, TrainScreens, None
  <1>4. i \in InputType /\ Clean(i) /\ i.to = s /\ i.from = inp.from
    BY <1>3 DEF Fresh, InputType, Clean
  <1>5. FlowData(f) /\ f.return = Unread /\ (missing = {} => f.trains = FALSE)
    BY <1>3 DEF Fresh, FlowData, Shaped
  <1> HIDE DEF i, f, missing
  <1>6. said' \in SaidType /\ said'.to = s /\ said'.from = said.from /\ said'.route = said.route
    BY <1>1, <1>3 DEF SaidType
  <1>7. CASE missing = {} /\ Extracting /\ flow' = f /\ inp' = i
    <2>1. JobData' /\ Control' /\ Loaded' /\ cur'.kind = "progress" /\ cur'.step = "extracting"
      <3>1. Starts("extracting", <<>>) /\ reopen' = reopen /\ <<>> \in Seq(Lines)
        BY <1>7 DEF Extracting
      <3> QED
        BY <1>1, <3>1, StartKeeps
    <2>2. Screens("extracting", i, f, said', base.lines)
      BY <1>4, <1>5, <1>7 DEF Screens, Blank, BusData, TrainData, Imports, BusScreens, TrainScreens, Named, None
    <2> QED
      BY <1>1, <1>4, <1>5, <1>6, <1>7, <2>1, <2>2 DEF FlowInv, Filled
  <1>8. CASE ShowOptions(f, [i EXCEPT !.route = AllTrains]) /\ UNCHANGED progress
    <2> DEFINE j == [i EXCEPT !.route = AllTrains]
    <2>1. /\ j \in InputType /\ Clean(j) /\ j.to = said'.to /\ j.from = said'.from /\ j.route = AllTrains
      BY <1>3, <1>4, <1>6 DEF InputType, Clean
    <2>2. ShowOptions(f, j)
      BY <1>8
    <2> HIDE DEF j
    <2>3. said'.route \in Trains \cup {AllTrains}
      BY <1>3, <1>6
    <2>4. /\ FlowData(flow') /\ inp' = j /\ cur'.kind = "form"
          /\ Screens(cur'.step, j, flow', said', base.lines)
      BY <1>5, <2>1, <2>2, <2>3, OptionsShown
    <2>5. JobData' /\ Control' /\ Loaded'
      BY <1>1, <1>8, <2>4, AnswerKeeps
    <2> QED
      BY <1>1, <1>6, <2>1, <2>4, <2>5 DEF FlowInv, Filled
  <1> QED
    BY <1>2, <1>7, <1>8

\* The plans are named when every line of theirs is in.
LEMMA PlansShown ==
    ASSUME NEW f, NEW i, FlowData(f), f.return = Unread, i \in InputType, Clean(i), NamePlans(f, i),
           NEW y, NEW ls, y.route \in Trains \cup {AllTrains}, i.route = AllTrains,
           i.from = y.from, i.to = y.to, Riding(i, f, y), f.plans.lines \subseteq ls
    PROVE  /\ FlowData(flow') /\ inp' \in InputType /\ cur'.kind = "form"
           /\ Screens(cur'.step, inp', flow', y, ls)
  <1> DEFINE named == [f EXCEPT !.trains = FALSE, !.told = Says(f, FALSE)]
             plans == f.plans.lines
  <1>1. FlowData(named) /\ named.return = Unread /\ named.trains = FALSE /\ named.plans = f.plans
    BY DEF FlowData, Shaped
  <1>2. plans \subseteq Trains /\ IsFiniteSet(plans) /\ f.plans.also \in BOOLEAN
    <2>1. plans \subseteq Trains /\ f.plans.also \in BOOLEAN
      BY DEF FlowData
    <2>2. plans \in SUBSET Lines /\ IsFiniteSet(Lines)
      BY <2>1, LinesAssumption DEF Lines
    <2> QED
      BY <2>1, <2>2, FS_Subset
  <1>3. IF Cardinality(plans) = 1
        THEN LET l == CHOOSE l \in plans : TRUE IN
             /\ cur' = Form("sensor_train")
             /\ inp' = [i EXCEPT !.lines = plans, !.also = f.plans.also]
             /\ flow' = [named EXCEPT !.label = l, !.return = PlanReturn(l, <<i.from, i.to>>)]
        ELSE cur' = Form("sensors_train") /\ inp' = i /\ flow' = named
    BY DEF NamePlans
  <1> HIDE DEF named
  <1>4. CASE Cardinality(plans) = 1
    <2>1. PICK l : plans = {l}
      BY <1>2, <1>4, FS_Singleton
    <2>2. l = CHOOSE m \in plans : TRUE
      BY <2>1
    <2> HIDE DEF plans
    <2>3. /\ cur' = Form("sensor_train")
          /\ inp' = [i EXCEPT !.lines = plans, !.also = f.plans.also]
          /\ flow' = [named EXCEPT !.label = l, !.return = PlanReturn(l, <<i.from, i.to>>)]
      BY <1>3, <1>4, <2>2
    <2>4. /\ inp' \in InputType /\ inp'.lines = plans /\ inp'.also = f.plans.also
          /\ inp'.route = AllTrains /\ inp'.from = i.from /\ inp'.to = i.to
      BY <1>2, <2>3 DEF InputType
    <2>5. /\ FlowData(flow') /\ flow'.trains = FALSE /\ flow'.plans = f.plans
          /\ flow'.return = PlanReturn(l, <<i.from, i.to>>)
      BY <1>1, <2>3 DEF FlowData, Shaped
    <2>6. flow'.return # NoReturn => flow'.return.ends = <<i.to, i.from>> /\ flow'.return.ends \in Rides[l]
      BY <2>5 DEF PlanReturn, Swap
    <2>7. plans = f.plans.lines /\ l \in Trains
      BY <1>2, <2>1 DEF plans
    <2>8. Screens("sensor_train", inp', flow', y, ls)
      BY <2>1, <2>4, <2>5, <2>6, <2>7 DEF Riding, Screens, Blank, BusData, TrainData, Imports, BusScreens, TrainScreens, Named, None
    <2> QED
      BY <2>3, <2>4, <2>5, <2>8 DEF Form
  <1>5. CASE Cardinality(plans) # 1
    <2>1. cur' = Form("sensors_train") /\ inp' = i /\ flow' = named
      BY <1>3, <1>5
    <2>2. Screens("sensors_train", i, named, y, ls)
      BY <1>1 DEF Riding, Screens, Blank, BusData, TrainData, Imports, BusScreens, TrainScreens, Named, None
    <2> QED
      BY <1>1, <2>1, <2>2 DEF Form
  <1> QED
    BY <1>4, <1>5

LEMMA TickLinesInv ==
    ASSUME FlowInv, "options_train" \notin BusyAt,
           NEW chosen \in SUBSET Trains, NEW also \in BOOLEAN, TickLines(chosen, also)
    PROVE  FlowInv'
  <1> DEFINE plans == LinePlans(Picked, chosen, TrainSource(flow.trains))
             f == [flow EXCEPT !.plans = [lines |-> plans, also |-> also], !.missing = {}]
             missing == IF flow.trains THEN TrainLinesMissing(Picked, chosen) ELSE {}
  <1>1. /\ cur.kind = "form" /\ cur.step = "options_train" /\ \A c \in Callers : calls[c] = None
        /\ chosen # {} /\ said' = [said EXCEPT !.lines = chosen, !.also = also]
        /\ UNCHANGED <<entries, base>>
    BY OnIs DEF TickLines
  <1>2. \/ flow' = f /\ UNCHANGED <<cur, inp, progress>>
        \/ /\ missing # {} /\ flow' = [f EXCEPT !.routes = SetToSeq(missing), !.again = FALSE]
           /\ Importing(SetToSeq(missing)) /\ UNCHANGED inp
        \/ missing = {} /\ NamePlans(f, inp) /\ UNCHANGED progress
    BY DEF TickLines, Busy
  <1>3. /\ FlowData(flow) /\ flow.return = Unread /\ inp \in InputType /\ Clean(inp) /\ said \in SaidType
        /\ inp.route = AllTrains /\ said.route \in Trains \cup {AllTrains}
        /\ inp.from = said.from /\ inp.to = said.to /\ base.lines \subseteq Lines
    BY <1>1 DEF FlowInv, Filled, Loaded, Screens, Blank, TrainData, Named, Imports, TrainScreens, None
  <1>4. /\ plans \subseteq Trains /\ plans \subseteq chosen /\ \A l \in plans : <<inp.from, inp.to>> \in Rides[l]
        /\ flow.trains = FALSE => plans \subseteq base.lines
    BY DEF LinePlans, Picked, TrainSource
  <1>5. /\ missing \subseteq Trains /\ (flow.trains = FALSE => missing = {})
        /\ flow.trains = TRUE => plans \subseteq base.lines \cup missing
    <2>1. \A l \in plans : l \in Trains /\ l \in chosen /\ Picked \in Rides[l]
      BY <1>4 DEF Picked
    <2>2. flow.trains = TRUE => \A l \in plans \ base.lines : l \in missing
      BY <2>1 DEF TrainLinesMissing
    <2>3. missing \subseteq Trains
      BY DEF TrainLinesMissing
    <2> QED
      BY <2>2, <2>3
  <1>6. /\ FlowData(f) /\ f.return = Unread /\ f.trains = flow.trains
        /\ f.plans.lines = plans /\ f.plans.also = also
    BY <1>3, <1>4 DEF FlowData, Shaped
  <1> HIDE DEF plans, f, missing
  <1>7. /\ said' \in SaidType /\ said'.lines = chosen /\ said'.also = also
        /\ said'.from = said.from /\ said'.to = said.to /\ said'.route = said.route
    BY <1>1, <1>3 DEF SaidType
  <1>8. Riding(inp, f, said')
    BY <1>4, <1>6, <1>7 DEF Riding
  <1>9. CASE flow' = f /\ UNCHANGED <<cur, inp, progress>>
    <2>1. JobData' /\ Control' /\ Loaded'
      BY <1>1, <1>9, AnswerKeeps
    <2>2. Screens("options_train", inp, f, said', base.lines)
      BY <1>3, <1>6, <1>7 DEF Screens, Blank, BusData, TrainData, Imports, BusScreens, TrainScreens, Named, None
    <2> QED
      BY <1>1, <1>3, <1>6, <1>7, <1>9, <2>1, <2>2 DEF FlowInv, Filled
  <1>10. CASE /\ missing # {} /\ flow' = [f EXCEPT !.routes = SetToSeq(missing), !.again = FALSE]
              /\ Importing(SetToSeq(missing)) /\ UNCHANGED inp
    <2>1. SetToSeq(missing) \in Seq(Lines) /\ Range(SetToSeq(missing)) = missing
      <3>1. missing \in SUBSET Lines /\ IsFiniteSet(Lines)
        BY <1>5, LinesAssumption DEF Lines
      <3>2. SetToSeq(missing) \in Seq(missing) /\ Range(SetToSeq(missing)) = missing
        BY <3>1, FS_Subset, SeqOfSet
      <3> QED
        BY <3>1, <3>2, SeqMonotonic
    <2>2. /\ FlowData(flow') /\ flow'.return = Unread /\ flow'.trains = TRUE /\ flow'.plans = f.plans
          /\ Range(flow'.routes) = missing
      BY <1>3, <1>5, <1>6, <1>10, <2>1 DEF FlowData, Shaped
    <2>3. JobData' /\ Control' /\ Loaded' /\ cur'.kind = "progress" /\ cur'.step = "importing"
      <3>1. Starts("importing", SetToSeq(missing)) /\ reopen' \in {reopen, None}
        BY <1>10 DEF Importing
      <3> QED
        BY <1>1, <2>1, <3>1, StartKeeps
    <2>4. flow'.plans.lines \subseteq base.lines \cup Range(flow'.routes)
      BY <1>3, <1>5, <1>6, <1>10, <2>2 DEF FlowData
    <2>5. Screens("importing", inp, flow', said', base.lines)
      BY <1>3, <1>7, <1>8, <2>2, <2>4
         DEF Riding, Screens, Blank, BusData, TrainData, Imports, BusScreens, TrainScreens, Named, None
    <2> QED
      BY <1>1, <1>3, <1>7, <1>10, <2>2, <2>3, <2>5 DEF FlowInv, Filled
  <1>11. CASE missing = {} /\ NamePlans(f, inp) /\ UNCHANGED progress
    <2>1. f.plans.lines \subseteq base.lines
      BY <1>3, <1>4, <1>5, <1>6, <1>11 DEF FlowData
    <2>2. said'.route \in Trains \cup {AllTrains} /\ inp.from = said'.from /\ inp.to = said'.to
      BY <1>3, <1>7
    <2>3. /\ FlowData(flow') /\ inp' \in InputType /\ cur'.kind = "form"
          /\ Screens(cur'.step, inp', flow', said', base.lines)
      BY <1>3, <1>6, <1>8, <1>11, <2>1, <2>2, PlansShown
    <2>4. JobData' /\ Control' /\ Loaded'
      BY <1>1, <1>11, <2>3, AnswerKeeps
    <2> QED
      BY <1>1, <1>7, <2>3, <2>4 DEF FlowInv, Filled
  <1> QED
    BY <1>2, <1>9, <1>10, <1>11

-----------------------------------------------------------------------------
(* The sensors *)

LEMMA MineKeeps ==
    ASSUME UNCHANGED said, base.lines \subseteq base'.lines, NEW x, Mine(x)
    PROVE  Mine(x)'
  BY DEF Mine, OwnJourney, Rideable

LEMMA AllMineKeeps ==
    ASSUME UNCHANGED said, base.lines \subseteq base'.lines,
           NEW T, flow'.todo \in Seq(T), \A x \in T : Mine(x)
    PROVE  AllMine(flow.todo)'
  <1>1. \A x \in T : Mine(x)'
    BY MineKeeps
  <1> QED
    BY <1>1 DEF AllMine

LEMMA NameSensorInv == ASSUME FlowInv, NEW n, NEW back \in BOOLEAN, NameSensor(n, back) PROVE FlowInv'
  <1> DEFINE e == EntryOf(inp, n)
             r == ReturnOf(e, flow.return)
  <1>1. /\ cur.kind = "form" /\ cur.step \in {"sensor", "sensor_train"} /\ \A c \in Callers : calls[c] = None
        /\ back => flow.return # NoReturn
        /\ flow' = [flow EXCEPT !.made = FALSE, !.todo = IF back THEN <<e, r>> ELSE <<e>>]
        /\ cur'.kind = "call" /\ cur'.step = cur.step
        /\ UNCHANGED <<inp, progress, entries, base, said>>
    BY OnIs DEF NameSensor, Working
  <1>2. /\ FlowData(flow') /\ flow'.return = flow.return /\ flow'.trains = flow.trains
        /\ flow'.plans = flow.plans /\ flow'.towards = flow.towards
        /\ flow'.todo = IF back THEN <<e, r>> ELSE <<e>>
    <2>1. FlowData(flow)
      BY DEF FlowInv, Filled
    <2> HIDE DEF e, r
    <2> QED
      BY <1>1, <2>1 DEF FlowData, Shaped
  <1>3. JobData' /\ Control' /\ Loaded'
    BY <1>1, AnswerKeeps
  <1>4. Screens(cur.step, inp, flow', said, base.lines)
    <2>1. Screens(cur.step, inp, flow, said, base.lines)
      BY DEF FlowInv
    <2> QED
      BY <1>1, <1>2, <2>1 DEF Riding, Screens, Blank, BusData, TrainData, Imports, BusScreens, TrainScreens, Named, None
  <1>5. /\ e.route = inp.route /\ e.lines = inp.lines /\ e.ends = <<inp.from, inp.to>>
        /\ e.loop = inp.loop /\ e.also = inp.also
        /\ r.route = inp.route /\ r.lines = inp.lines /\ r.ends = flow.return.ends
        /\ r.loop = flow.return.loop /\ r.also = inp.also
    BY DEF EntryOf, ReturnOf
  <1> HIDE DEF e, r
  <1>6. Mine(e) /\ (back => Mine(r))
    <2>1. CASE cur.step = "sensor"
      <3>1. /\ inp.route = said.route /\ inp.route \in Bus \cap base.lines /\ inp.from = said.from
            /\ inp.to = said.to /\ <<inp.from, inp.to>> \in Rides[inp.route]
            /\ inp.loop = PairDirection(inp.route, said.way) /\ inp.lines = {} /\ inp.also = said.also
            /\ flow.return # NoReturn =>
                  /\ flow.return.ends = <<inp.to, inp.from>> /\ flow.return.ends \in Rides[inp.route]
                  /\ flow.return.loop = PairDirection(inp.route, None)
        BY <2>1 DEF FlowInv, Screens, BusData, BusScreens
      <3>2. inp.route # AllTrains
        BY <3>1, BusIsLine
      <3> QED
        BY <1>1, <1>5, <3>1, <3>2 DEF Mine, OwnJourney, Rideable, Swap
    <2>2. CASE cur.step = "sensor_train"
      <3>1. PICK l \in Trains :
                /\ flow.plans.lines = {l}
                /\ flow.return # NoReturn =>
                      flow.return.ends = <<inp.to, inp.from>> /\ flow.return.ends \in Rides[l]
        BY <2>2 DEF FlowInv, Screens, TrainData
      <3>2. /\ inp.lines = {l} /\ inp.also = said.also /\ inp.route = AllTrains
            /\ said.route \in Trains \cup {AllTrains} /\ inp.from = said.from /\ inp.to = said.to
            /\ {l} \subseteq said.lines /\ {l} \subseteq base.lines /\ <<inp.from, inp.to>> \in Rides[l]
        BY <2>2, <3>1 DEF FlowInv, Screens, TrainData, TrainScreens, Riding
      <3>3. Cardinality({l}) = 1 /\ said.route \notin Bus /\ (CHOOSE m \in {l} : TRUE) = l
        BY <3>2, FS_Singleton, BusIsLine
      <3> QED
        BY <1>1, <1>5, <3>1, <3>2, <3>3 DEF Mine, OwnJourney, Rideable, Swap
    <2> QED
      BY <1>1, <2>1, <2>2
  <1>7. UNCHANGED said /\ base.lines \subseteq base'.lines
    BY <1>1
  <1>8. AllMine(flow.todo)'
    <2>1. CASE back
      <3>1. flow'.todo \in Seq({e, r}) /\ \A x \in {e, r} : Mine(x)
        BY <1>2, <1>6, <2>1
      <3> QED
        BY <1>7, <3>1, AllMineKeeps
    <2>2. CASE ~back
      <3>1. flow'.todo \in Seq({e}) /\ \A x \in {e} : Mine(x)
        BY <1>2, <1>6, <2>2
      <3> QED
        BY <1>7, <3>1, AllMineKeeps
    <2> QED
      BY <2>1, <2>2
  <1> QED
    BY <1>1, <1>2, <1>3, <1>4, <1>8 DEF FlowInv, Filled

LEMMA NameSensorsInv == ASSUME FlowInv, NEW back \in BOOLEAN, NameSensors(back) PROVE FlowInv'
  <1> DEFINE outward(l) == EntryOf([inp EXCEPT !.lines = {l}, !.also = flow.plans.also],
                                   SuggestedName(l, Picked))
             r(l) == PlanReturn(l, Picked)
             homeward(l) == ReturnOf(outward(l), r(l))
             both(l) == IF back /\ r(l) # NoReturn THEN <<outward(l), homeward(l)>> ELSE <<outward(l)>>
             plans == SetToSeq(flow.plans.lines)
             todo == FlattenSeq([k \in DOMAIN plans |-> both(plans[k])])
             Plans == flow.plans.lines
             T == {outward(l) : l \in Plans} \cup {homeward(l) : l \in {m \in Plans : r(m) # NoReturn}}
  <1>1. /\ cur.kind = "form" /\ cur.step = "sensors_train" /\ \A c \in Callers : calls[c] = None
        /\ flow' = [flow EXCEPT !.made = FALSE, !.todo = todo]
        /\ cur'.kind = "call" /\ cur'.step = cur.step
        /\ UNCHANGED <<inp, progress, entries, base, said>>
    BY OnIs DEF NameSensors, Working
  <1>2. /\ FlowData(flow') /\ flow'.return = flow.return /\ flow'.trains = flow.trains
        /\ flow'.plans = flow.plans /\ flow'.towards = flow.towards /\ flow'.todo = todo
    <2>1. FlowData(flow)
      BY DEF FlowInv, Filled
    <2> HIDE DEF todo
    <2> QED
      BY <1>1, <2>1 DEF FlowData, Shaped
  <1>3. JobData' /\ Control' /\ Loaded'
    BY <1>1, AnswerKeeps
  <1>4. Screens(cur.step, inp, flow', said, base.lines)
    <2>1. Screens(cur.step, inp, flow, said, base.lines)
      BY DEF FlowInv
    <2> QED
      BY <1>1, <1>2, <2>1 DEF Riding, Screens, Blank, BusData, TrainData, Imports, BusScreens, TrainScreens, Named, None
  <1>5. /\ Plans \subseteq Trains /\ Plans \subseteq said.lines /\ Plans \subseteq base.lines
        /\ \A l \in Plans : <<inp.from, inp.to>> \in Rides[l]
        /\ flow.plans.also = said.also /\ inp.from = said.from /\ inp.to = said.to
        /\ inp.route = AllTrains /\ said.route \notin Bus /\ inp \in InputType
    <2>1. Screens("sensors_train", inp, flow, said, base.lines) /\ inp \in InputType
      BY <1>1 DEF FlowInv, Filled
    <2>2. FlowData(flow)
      BY DEF FlowInv, Filled
    <2> QED
      BY <2>1, <2>2, BusIsLine DEF Screens, TrainData, Riding, TrainScreens, FlowData
  <1>6. ASSUME NEW l \in Plans
        PROVE  /\ Mine(outward(l)) /\ (r(l) # NoReturn => Mine(homeward(l)))
               /\ both(l) \in Seq(T)
    <2>1. /\ outward(l).route = AllTrains /\ outward(l).lines = {l} /\ outward(l).also = said.also
          /\ outward(l).ends = <<inp.from, inp.to>>
      BY <1>5 DEF EntryOf, InputType
    <2>2. /\ homeward(l).route = outward(l).route /\ homeward(l).lines = outward(l).lines
          /\ homeward(l).also = outward(l).also /\ homeward(l).ends = r(l).ends
      BY DEF ReturnOf, EntryOf
    <2>3. r(l) # NoReturn => r(l).ends = <<inp.to, inp.from>> /\ r(l).ends \in Rides[l]
      BY DEF PlanReturn, Picked, Swap
    <2>4. outward(l) \in T /\ (r(l) # NoReturn => homeward(l) \in T)
      OBVIOUS
    <2>5. Cardinality({l}) = 1 /\ (CHOOSE m \in {l} : TRUE) = l
      BY FS_Singleton
    <2>6. both(l) \in Seq(T)
      <3> HIDE DEF outward, homeward, T, r
      <3> QED
        BY <2>4
    <2> HIDE DEF outward, homeward, T, r, both
    <2> QED
      BY <1>5, <2>1, <2>2, <2>3, <2>5, <2>6 DEF Mine, OwnJourney, Rideable, Swap
  <1>7. plans \in Seq(Plans)
    <2>1. Plans \in SUBSET Lines /\ IsFiniteSet(Lines)
      BY <1>5, LinesAssumption DEF Lines
    <2> QED
      BY <2>1, FS_Subset, SeqOfSet
  <1>8. todo \in Seq(T)
    <2> HIDE DEF plans, T, both, Plans
    <2>1. [k \in DOMAIN plans |-> both(plans[k])] \in Seq(Seq(T))
      <3>1. Len(plans) \in Nat /\ DOMAIN plans = 1..Len(plans) /\ \A k \in 1..Len(plans) : plans[k] \in Plans
        BY <1>7
      <3>2. [k \in 1..Len(plans) |-> both(plans[k])] \in [1..Len(plans) -> Seq(T)]
        BY <1>6, <3>1
      <3> QED
        BY <3>1, <3>2, IsASeq
    <2> QED
      BY <2>1, Flattened
  <1>9. \A x \in T : Mine(x)
    <2> HIDE DEF outward, homeward, r
    <2> QED
      BY <1>6
  <1> HIDE DEF T, todo
  <1>10. AllMine(flow.todo)'
    BY <1>1, <1>2, <1>8, <1>9, AllMineKeeps
  <1> QED
    BY <1>1, <1>2, <1>3, <1>4, <1>10 DEF FlowInv, Filled

LEMMA MakeSensorInv == ASSUME FlowInv, MakeSensor PROVE FlowInv'
  <1> DEFINE e == Head(flow.todo)
             todo == IF NameInUse(e.name) /\ ~flow.made /\ cur.step # "sensors_train" THEN <<>> ELSE Tail(flow.todo)
             made == flow.made \/ ~NameInUse(e.name)
  <1>1. /\ cur.kind = "call" /\ flow.todo # <<>>
        /\ entries' \subseteq entries \cup {e}
        /\ flow' = [flow EXCEPT !.todo = todo, !.made = made]
        /\ UNCHANGED <<cur, inp, progress, base, said>>
    BY DEF MakeSensor, Makes
  <1>2. FlowData(flow) /\ Shaped(flow)
    BY DEF FlowInv, Filled, FlowData
  <1> HIDE DEF made
  <1>3. PICK T : flow.todo \in Seq(T) /\ \A x \in T : Mine(x)
    BY <1>1 DEF FlowInv, AllMine
  <1>4. todo \in Seq(T) /\ e \in T
    BY <1>1, <1>3
  <1> HIDE DEF e, todo
  <1>5. /\ FlowData(flow') /\ flow'.return = flow.return /\ flow'.trains = flow.trains
        /\ flow'.plans = flow.plans /\ flow'.towards = flow.towards /\ flow'.todo = todo
        /\ flow'.routes = flow.routes /\ flow'.missing = flow.missing
    BY <1>1, <1>2 DEF FlowData, Shaped
  <1>6. UNCHANGED <<cur, inp, job, tick, due, calls, reopen, base, said>>
    BY <1>1 DEF progress
  <1>7. JobData' /\ Control'
    BY <1>6 DEF FlowInv, JobData, Control
  <1>8. Loaded'
    BY <1>1, <1>3, <1>4 DEF FlowInv, Loaded, Mine, Rideable
  <1>9. Screens(cur.step, inp, flow', said, base.lines)
    BY <1>5 DEF FlowInv, Riding, Screens, Blank, BusData, TrainData
  <1>10. AllMine(flow.todo)'
    BY <1>3, <1>4, <1>5, <1>6, AllMineKeeps
  <1> QED
    BY <1>5, <1>6, <1>7, <1>8, <1>9, <1>10 DEF FlowInv, Filled

LEMMA MadeInv == ASSUME FlowInv, Made PROVE FlowInv'
  <1>1. /\ cur.kind = "call" /\ cur'.kind = "form"
        /\ UNCHANGED <<job, tick, due, calls, reopen, entries, base>>
    BY DEF Made, progress, Form
  <1>2. JobData' /\ Control' /\ Loaded'
    BY <1>1 DEF FlowInv, JobData, Control, Loaded, Rideable, Over
  <1>3. CASE flow.made
    <2>1. /\ cur'.step = "finished" /\ inp' = NoInputs /\ said' = NotSaid
          /\ flow' = [NewFlow EXCEPT !.line = flow.line, !.return = flow.return,
                                     !.stopsError = flow.stopsError, !.missing = flow.missing]
      BY <1>3 DEF Made, Form
    <2>2. FlowData(flow') /\ flow'.trains = FALSE
      BY <2>1, NewFlowData DEF Fresh, FlowInv, Filled, FlowData, Shaped
    <2>3. inp' \in InputType /\ said' \in SaidType
      BY <2>1, NewFlowData DEF Fresh, NotSaid, SaidType
    <2>4. Screens("finished", inp', flow', said', base.lines)
      BY <2>2 DEF Screens, Blank, BusData, TrainData, Imports, BusScreens, TrainScreens, Named, None
    <2> QED
      BY <1>1, <1>2, <2>1, <2>2, <2>3, <2>4 DEF FlowInv, Filled
  <1>4. CASE ~flow.made
    <2>1. cur'.step = cur.step /\ UNCHANGED <<inp, flow, said>>
      BY <1>4 DEF Made, Form
    <2> QED
      BY <1>1, <1>2, <2>1 DEF FlowInv, Filled
  <1> QED
    BY <1>3, <1>4

LEMMA ResetFresh ==
    ASSUME FlowInv, cur.step = "finished", NEW i \in InputType, Clean(i)
    PROVE  Fresh(ResetForNextJourney, i)
  BY DEF ResetForNextJourney, Fresh, FlowInv, Filled, FlowData, Shaped, Screens, Blank, Imports, None

LEMMA SameLineInv == ASSUME FlowInv, SameLine PROVE FlowInv'
  <1> DEFINE i == [flow.line.inputs EXCEPT !.loop = None]
             f == [ResetForNextJourney EXCEPT !.label = flow.line.label]
             y == [NotSaid EXCEPT !.route = flow.line.inputs.route]
  <1>1. /\ cur.kind = "form" /\ cur.step = "finished" /\ \A c \in Callers : calls[c] = None
        /\ ShowStops(f, i) /\ said' = y /\ UNCHANGED <<progress, entries, base>>
    BY OnIs DEF SameLine, Again
  <1>2. flow.line.inputs \in InputType /\ Clean(flow.line.inputs) /\ base.lines \subseteq Lines
    BY DEF FlowInv, Filled, FlowData, Loaded
  <1>3. i \in InputType /\ Clean(i) /\ i.route = y.route /\ y.also = FALSE /\ y \in SaidType
    BY <1>2 DEF InputType, Clean, NotSaid, SaidType
  <1> HIDE DEF i, y
  <1>4. Fresh(f, i)
    <2>1. Fresh(ResetForNextJourney, i)
      BY <1>1, <1>3, ResetFresh
    <2> QED
      BY <2>1 DEF Fresh, FlowData, Shaped
  <1> HIDE DEF f
  <1>5. /\ FlowData(flow') /\ inp' = i /\ (cur' = Over \/ cur'.kind = "form")
        /\ Screens(cur'.step, i, flow', y, base.lines)
    BY <1>1, <1>2, <1>3, <1>4, StopsShown
  <1>6. JobData' /\ Control' /\ Loaded'
    BY <1>1, <1>5, AnswerKeeps
  <1> QED
    BY <1>1, <1>3, <1>5, <1>6 DEF FlowInv, Filled, Over

LEMMA NextJourneyInv == ASSUME FlowInv, NextJourney PROVE FlowInv'
  <1>1. /\ cur.kind = "form" /\ cur.step = "finished" /\ \A c \in Callers : calls[c] = None
        /\ cur'.kind = "form" /\ cur'.step = "start_end" /\ inp' = NoInputs /\ said' = NotSaid
        /\ flow' = ResetForNextJourney /\ UNCHANGED <<progress, entries, base>>
    BY OnIs DEF NextJourney, Again, Form
  <1>2. Fresh(flow', inp')
    BY <1>1, NewFlowData, ResetFresh DEF Fresh
  <1>3. said' \in SaidType
    BY <1>1 DEF NotSaid, SaidType
  <1>4. Screens("start_end", inp', flow', said', base.lines)
    BY <1>2 DEF Fresh, Screens, Blank, BusData, TrainData, Imports, BusScreens, TrainScreens, Named, None
  <1>5. JobData' /\ Control' /\ Loaded'
    BY <1>1, AnswerKeeps
  <1> QED
    BY <1>1, <1>2, <1>3, <1>4, <1>5 DEF FlowInv, Filled, Fresh

LEMMA CloseInv == ASSUME FlowInv, Close PROVE FlowInv'
  <1>1. /\ cur.kind = "progress" /\ cur' = Over /\ inp' = NoInputs /\ said' = NotSaid
        /\ flow' = NewFlow
        /\ UNCHANGED <<job, tick, due, calls, reopen, entries, base>>
    BY DEF Close, progress
  <1>2. FlowData(flow') /\ inp' \in InputType
    BY <1>1, NewFlowData DEF Fresh
  <1>3. said' \in SaidType
    BY <1>1 DEF NotSaid, SaidType
  <1>4. JobData' /\ Control' /\ Loaded' /\ cur'.kind = "over" /\ cur'.step = None
    BY <1>1 DEF FlowInv, JobData, Control, Loaded, Rideable, Over
  <1>5. Screens(None, inp', flow', said', base.lines)
    BY DEF Screens, Blank, BusData, TrainData, Imports, BusScreens, TrainScreens, Named, None
  <1> QED
    BY <1>1, <1>2, <1>3, <1>4, <1>5 DEF FlowInv, Filled

-----------------------------------------------------------------------------
(* The progress screens *)

LEMMA ScreensGrow ==
    ASSUME NEW s, NEW i, NEW f, NEW y, NEW ls, NEW more, ls \subseteq more, Screens(s, i, f, y, ls)
    PROVE  Screens(s, i, f, y, more)
  BY DEF Screens, Blank, BusData, TrainData, Riding

LEMMA JobEndsInv == ASSUME FlowInv, JobEnds PROVE FlowInv'
  <1>1. PICK added :
            /\ added \in IF job.kind = "importing" THEN BroughtIn(job.routes) ELSE {{}}
            /\ job.at = "running" /\ job' = [job EXCEPT !.at = "done", !.added = added]
            /\ base' = [built |-> base.built \/ added # {}, lines |-> base.lines \cup added]
            /\ UNCHANGED <<cur, inp, flow, tick, due, calls, reopen, entries, said>>
    BY DEF JobEnds
  <1>2. added \subseteq Lines
    <2>1. CASE added = {}
      BY <2>1
    <2>2. CASE added \in BroughtIn(job.routes)
      <3>1. PICK k \in 0..Len(job.routes) : added = Range(SubSeq(job.routes, 1, k))
        BY <2>2 DEF BroughtIn, Prefixes
      <3>2. job.routes \in Seq(Lines)
        BY DEF FlowInv, JobData, JobType
      <3> DEFINE p == SubSeq(job.routes, 1, k)
      <3>3. p \in Seq(Lines)
        BY <3>1, <3>2
      <3> HIDE DEF p
      <3>4. Range(p) \subseteq Lines
        BY <3>3 DEF Range
      <3> QED
        BY <3>1, <3>4 DEF p
    <2> QED
      BY <1>1, <2>1, <2>2
  <1>3. /\ job \in JobType
        /\ job # NoJob => job.kind \in {"importing", "extracting"}
    BY DEF FlowInv, JobData
  <1>4. /\ job # NoJob /\ job' # NoJob /\ job'.kind = job.kind /\ job'.at = "done" /\ job'.added = added
        /\ job' \in JobType
    <2>1. job.at = "running" /\ NoJob.at = "none"
      BY <1>1 DEF NoJob, None
    <2>2. job'.kind = job.kind /\ job'.at = "done" /\ job'.added = added
      BY <1>1, <1>3 DEF JobType
    <2>3. job' \in JobType
      BY <1>1, <1>2, <1>3 DEF JobType
    <2> QED
      BY <2>1, <2>2, <2>3
  <1>5. /\ base'.lines = base.lines \cup added /\ (base'.built <=> base.built \/ added # {})
    BY <1>1
  <1>6. JobData'
    BY <1>1, <1>3, <1>4, <1>5 DEF FlowInv, JobData
  <1>7. Control'
    BY <1>1, <1>4 DEF FlowInv, Control
  <1>8. Loaded'
    BY <1>1, <1>2, <1>5 DEF FlowInv, Loaded, Rideable
  <1>9. Screens(cur.step, inp, flow, said, base'.lines)
    BY <1>5, ScreensGrow DEF FlowInv
  <1>10. cur.kind # "call"
    BY <1>4 DEF FlowInv, Control
  <1> QED
    BY <1>1, <1>6, <1>7, <1>8, <1>9, <1>10 DEF FlowInv, Filled

\* A step that leaves the screen and what is asked on it alone.
LEMMA ScreenStays ==
    ASSUME FlowInv, UNCHANGED <<cur, inp, flow, entries, base, said>>, JobData', Control'
    PROVE  FlowInv'
  <1>1. Filled' /\ Loaded' /\ Screens(cur.step, inp, flow, said, base.lines)'
    BY DEF FlowInv, Filled, Loaded, Rideable
  <1>2. cur.kind = "call" => AllMine(flow.todo)'
    <2>1. SUFFICES ASSUME cur.kind = "call" PROVE AllMine(flow.todo)'
      OBVIOUS
    <2>2. PICK T : flow.todo \in Seq(T) /\ \A x \in T : Mine(x)
      BY <2>1 DEF FlowInv, AllMine
    <2> QED
      BY <2>2, AllMineKeeps
  <1> QED
    BY <1>1, <1>2 DEF FlowInv

LEMMA TickEndsInv == ASSUME FlowInv, TickEnds PROVE FlowInv'
  <1>1. JobData' /\ Control'
    BY DEF TickEnds, FlowInv, JobData, Control
  <1> QED
    BY <1>1, ScreenStays DEF TickEnds

LEMMA StepCallInv ==
    ASSUME FlowInv, NEW c \in Callers, StepCall(c), due' \subseteq due
    PROVE  FlowInv'
  <1>1. /\ cur.kind = "progress" /\ calls' = [calls EXCEPT ![c] = cur.step]
        /\ UNCHANGED <<cur, inp, tick, entries, base, said>>
    BY DEF StepCall, Calls
  <1>2. job # NoJob /\ cur.step = job.kind /\ job.kind \in {"importing", "extracting"}
    <2>1. job # NoJob /\ cur = Waiting(job.kind)
      BY <1>1 DEF FlowInv, Control
    <2> QED
      BY <2>1 DEF FlowInv, JobData, Waiting
  <1>3. UNCHANGED <<job, reopen, flow>>
    BY <1>2 DEF StepCall
  <1>4. calls \in [Callers -> {None, "importing", "extracting", "reload_done", "reopen"} \cup Callers]
    BY DEF FlowInv, JobData
  <1>5. JobData' /\ Control'
    BY <1>1, <1>2, <1>3, <1>4 DEF FlowInv, JobData, Control
  <1> QED
    BY <1>1, <1>3, <1>5, ScreenStays

LEMMA ShowProgressInv ==
    ASSUME FlowInv, NEW c \in Callers, ShowProgress(c), job # NoJob \/ cur = Over
    PROVE  FlowInv'
  <1>1. /\ calls[c] \in {"importing", "extracting"} /\ calls' = [calls EXCEPT ![c] = None]
        /\ UNCHANGED <<inp, flow, job, due, reopen, entries, base, said>>
    BY DEF ShowProgress, Calls
  <1>2. calls \in [Callers -> {None, "importing", "extracting", "reload_done", "reopen"} \cup Callers]
    BY DEF FlowInv, JobData
  <1>3. tick' \in {tick, "running"}
    BY DEF ShowProgress, Tick
  <1>4. cur' = cur
    <2>1. CASE cur = Over
      BY <2>1 DEF ShowProgress
    <2>2. CASE cur # Over
      <3>1. calls[c] = job.kind /\ cur = Waiting(job.kind)
        BY <1>1, <2>2 DEF FlowInv, Control
      <3>2. cur' = Waiting(calls[c])
        BY <2>2 DEF ShowProgress
      <3> QED
        BY <3>1, <3>2
    <2> QED
      BY <2>1, <2>2
  <1>5. JobData' /\ Control'
    BY <1>1, <1>2, <1>3, <1>4 DEF FlowInv, JobData, Control, None
  <1> QED
    BY <1>1, <1>4, <1>5, ScreenStays

LEMMA StepEndsInv ==
    ASSUME FlowInv, NEW c \in Callers, NEW coming \in SUBSET {"tick", "screen"}, StepEnds(c, coming)
    PROVE  FlowInv'
  <1>1. /\ cur.kind = "progress" /\ job.at = "done" /\ job' = NoJob
        /\ tick' \in {tick, "over"} /\ due' \subseteq {"tick", "screen"}
        /\ UNCHANGED <<inp, reopen, entries, base, said>>
    BY DEF StepEnds
  <1>2. /\ job # NoJob /\ cur.step = job.kind /\ job.kind \in {"importing", "extracting"}
        /\ job.added \subseteq base.lines
    <2>1. job # NoJob /\ cur = Waiting(job.kind)
      BY <1>1 DEF FlowInv, Control
    <2> QED
      BY <1>1, <2>1 DEF FlowInv, JobData, Waiting
  <1>3. /\ FlowData(flow) /\ flow.return = Unread /\ Clean(inp) /\ inp \in InputType /\ said \in SaidType
        /\ cur.step = "extracting" => flow.trains = FALSE
    BY <1>2 DEF FlowInv, Filled, Screens, Blank, Named, Imports, None
  <1>4. NoJob \in JobType
        /\ NoJob.at # "done"
    BY DEF NoJob, JobType, None
  <1>5. calls \in [Callers -> {None, "importing", "extracting", "reload_done", "reopen"} \cup Callers]
    BY DEF FlowInv, JobData
  <1>6. Loaded'
    BY <1>1 DEF FlowInv, Loaded, Rideable
  <1>7. CASE cur.step = "extracting" \/ job.added = {}
    <2> DEFINE f == IF cur.step = "importing" THEN [flow EXCEPT !.trains = FALSE] ELSE flow
    <2>1. ShowRoute(f) /\ UNCHANGED calls
      BY <1>7 DEF StepEnds, ReloadFailed
    <2>2. Fresh(f, inp)
      BY <1>2, <1>3 DEF Fresh, FlowData, Shaped
    <2> HIDE DEF f
    <2>3. /\ FlowData(flow') /\ cur'.kind = "form"
          /\ Screens(cur'.step, inp', flow', said, base.lines)
      BY <1>1, <2>1, <2>2, RouteShown
    <2>4. JobData' /\ Control'
      BY <1>1, <1>4, <2>1, <2>3 DEF FlowInv, JobData, Control
    <2> QED
      BY <1>1, <1>3, <1>6, <2>3, <2>4 DEF FlowInv, Filled
  <1>8. CASE ~(cur.step = "extracting" \/ job.added = {})
    <2> DEFINE out == Range(flow.routes) \ job.added
    <2>1. /\ flow' = [flow EXCEPT !.missing = out, !.told = IF out = {} THEN "nothing" ELSE "owed"]
          /\ cur'.kind = "done" /\ cur'.step = "reload_done"
          /\ calls' = [calls EXCEPT ![c] = "reload_done"]
      BY <1>8 DEF StepEnds, Stepping, Calls
    <2>2. /\ FlowData(flow') /\ flow'.return = flow.return /\ flow'.trains = flow.trains
          /\ flow'.plans = flow.plans /\ flow'.missing = out
      BY <1>3, <2>1 DEF FlowData, Shaped
    <2>3. JobData' /\ Control'
      <3>1. calls' \in [Callers -> {None, "importing", "extracting", "reload_done", "reopen"} \cup Callers]
        BY <1>5, <2>1
      <3>3. JobData'
        BY <1>1, <1>4, <3>1 DEF FlowInv, JobData
      <3>4. \A d \in Callers : calls'[d] = "reopen" => calls[d] = "reopen" /\ d # c
        BY <1>5, <2>1
      <3>5. Control'
        BY <1>1, <2>1, <3>4 DEF FlowInv, Control
      <3> QED
        BY <3>3, <3>5
    <2>4. Screens("importing", inp, flow, said, base.lines)
      BY <1>2, <1>8 DEF FlowInv
    <2>5. flow.trains = TRUE => flow.plans.lines \subseteq base.lines \cup out
      BY <1>2, <2>4 DEF Screens, TrainData, Imports
    <2>6. Screens("reload_done", inp, flow', said, base.lines)
      BY <2>2, <2>4, <2>5 DEF Riding, Screens, Blank, BusData, TrainData, Imports, BusScreens, TrainScreens, Named, None
    <2> QED
      BY <1>1, <1>3, <1>6, <2>1, <2>2, <2>3, <2>6 DEF FlowInv, Filled
  <1> QED
    BY <1>7, <1>8

LEMMA ReloadDoneInv ==
    ASSUME FlowInv, NEW c \in Callers, ReloadDone(c), due' \subseteq due
    PROVE  FlowInv'
  <1>1. /\ calls[c] = "reload_done" \/ cur.kind = "done"
        /\ UNCHANGED <<cur, inp, flow, job, tick, entries, base, said>>
    BY DEF ReloadDone, Stepping
  <1>2. calls \in [Callers -> {None, "importing", "extracting", "reload_done", "reopen"} \cup Callers]
    BY DEF FlowInv, JobData
  <1>3. /\ \A d \in Callers : d # None /\ d \notin {"importing", "extracting", "reload_done", "reopen"}
        /\ None \notin {"importing", "extracting", "reload_done", "reopen"}
    BY CallersAssumption DEF None
  <1>4. CASE reopen = None
    <2>1. reopen' = c /\ calls' = [calls EXCEPT ![c] = "reopen"]
      BY <1>4 DEF ReloadDone, Calls
    <2>2. \A d \in Callers : calls[d] # "reopen"
      BY <1>3, <1>4 DEF FlowInv, Control
    <2>3. cur.kind \in {"done", "over"}
      BY <1>1, <1>4 DEF FlowInv, Control
    <2>4. \A d \in Callers : calls'[d] = IF d = c THEN "reopen" ELSE calls[d]
      BY <1>2, <2>1
    <2>5. JobData'
      BY <1>1, <1>2, <2>1 DEF FlowInv, JobData
    <2>6. Control'
      BY <1>1, <1>3, <2>1, <2>2, <2>3, <2>4 DEF FlowInv, Control
    <2> QED
      BY <1>1, <2>5, <2>6, ScreenStays
  <1>5. CASE reopen # None
    <2>1. PICK v \in {reopen, None} : reopen' = reopen /\ calls' = [calls EXCEPT ![c] = v]
      BY <1>5 DEF ReloadDone, Calls
    <2>2. reopen \in Callers
      BY <1>5 DEF FlowInv, JobData
    <2>3. \A d \in Callers : calls'[d] = IF d = c THEN v ELSE calls[d]
      BY <1>2, <2>1
    <2>4. JobData'
      BY <1>1, <1>2, <2>1, <2>2 DEF FlowInv, JobData
    <2>5. Control'
      BY <1>1, <1>3, <2>1, <2>2, <2>3 DEF FlowInv, Control
    <2> QED
      BY <1>1, <2>4, <2>5, ScreenStays
  <1> QED
    BY <1>4, <1>5

LEMMA ReopenedInv == ASSUME FlowInv, NEW c \in Callers, Reopened(c) PROVE FlowInv'
  <1>1. /\ calls[c] = "reopen"
        /\ reopen' = IF \E d \in Callers : calls[d] = "reload_done" THEN reopen ELSE None
        /\ calls' = [d \in Callers |-> IF d = c \/ calls[d] = c THEN None ELSE calls[d]]
        /\ UNCHANGED <<job, tick, due, entries, base, said>>
    BY DEF Reopened
  <1>2. /\ reopen = c /\ cur.kind \in {"done", "over"} /\ (cur # Over => cur.kind = "done")
        /\ cur.kind = "done" => job = NoJob /\ cur.step = "reload_done"
    BY <1>1 DEF FlowInv, Control
  <1>3. \A d \in Callers : d # None /\ d \notin {"importing", "extracting", "reload_done", "reopen"}
    BY CallersAssumption DEF None
  <1>4. JobData' /\ Loaded'
    <2>1. calls \in [Callers -> {None, "importing", "extracting", "reload_done", "reopen"} \cup Callers]
      BY DEF FlowInv, JobData
    <2>2. calls' \in [Callers -> {None, "importing", "extracting", "reload_done", "reopen"} \cup Callers]
      BY <1>1, <2>1
    <2> QED
      BY <1>1, <2>2 DEF FlowInv, JobData, Loaded, Rideable
  <1>5. \A d \in Callers :
           /\ calls'[d] # "reopen"
           /\ calls'[d] = "reload_done" => reopen' # None
           /\ calls'[d] \in {None, calls[d]}
    BY <1>1, <1>2, <1>3 DEF FlowInv, Control, None
  <1>6. ASSUME cur' = Over \/ cur'.kind = "form", cur # Over PROVE Control'
    <2>1. job' = NoJob /\ cur'.kind \in {"form", "over"} /\ (cur'.kind = "over" => cur' = Over)
      BY <1>1, <1>2, <1>6 DEF Over
    <2>2. \A d \in Callers :
             calls'[d] \in {"importing", "extracting", "reload_done"} => calls'[d] = calls[d]
      BY <1>5 DEF None
    <2> QED
      BY <1>5, <2>1, <2>2 DEF Control
  <1>7. CASE cur = Over /\ UNCHANGED <<cur, inp, flow>>
    <2>1. Control'
      BY <1>1, <1>5, <1>7 DEF FlowInv, Control, None
    <2> QED
      BY <1>1, <1>4, <1>7, <2>1, ScreenStays
  <1>8. ASSUME cur # Over
        PROVE  /\ FlowData(flow) /\ flow.return = Unread /\ Clean(inp) /\ inp \in InputType /\ said \in SaidType
               /\ Screens("reload_done", inp, flow, said, base.lines) /\ base.lines \subseteq Lines
    BY <1>2, <1>8 DEF FlowInv, Filled, Loaded, Screens, Blank, Named, Imports, None
  <1>9. CASE cur # Over /\ ReloadFailed(flow) /\ UNCHANGED inp
    <2> DEFINE f == [flow EXCEPT !.trains = FALSE]
    <2>1. Fresh(f, inp)
      BY <1>8, <1>9 DEF Fresh, FlowData, Shaped
    <2>2. ShowRoute(f)
      BY <1>9 DEF ReloadFailed
    <2> HIDE DEF f
    <2>3. FlowData(flow') /\ cur'.kind = "form" /\ Screens(cur'.step, inp', flow', said, base.lines)
      BY <1>9, <2>1, <2>2, RouteShown
    <2> QED
      BY <1>1, <1>4, <1>6, <1>8, <1>9, <2>3 DEF FlowInv, Filled
  <1>10. CASE cur # Over /\ flow.trains /\ IF flow.missing # {} THEN ShowOptions(flow, inp) ELSE NamePlans(flow, inp)
    <2>0. flow.trains = TRUE
      BY <1>8, <1>10 DEF FlowData
    <2>1. /\ said.route \in Trains \cup {AllTrains} /\ inp.route = AllTrains
          /\ inp.from = said.from /\ inp.to = said.to
          /\ Riding(inp, flow, said) /\ flow.plans.lines \subseteq base.lines \cup flow.missing
      BY <1>8, <1>10, <2>0 DEF Screens, TrainData, Imports
    <2>2. CASE ShowOptions(flow, inp)
      <3>1. /\ FlowData(flow') /\ inp' = inp /\ cur'.kind = "form"
            /\ Screens(cur'.step, inp, flow', said, base.lines)
        BY <1>8, <1>10, <2>1, <2>2, OptionsShown
      <3> QED
        BY <1>1, <1>4, <1>6, <1>8, <1>10, <3>1 DEF FlowInv, Filled
    <2>3. CASE flow.missing = {} /\ NamePlans(flow, inp)
      <3>1. flow.plans.lines \subseteq base.lines
        BY <2>1, <2>3
      <3>2. /\ FlowData(flow') /\ inp' \in InputType /\ cur'.kind = "form"
            /\ Screens(cur'.step, inp', flow', said, base.lines)
        BY <1>8, <1>10, <2>1, <2>3, <3>1, PlansShown
      <3> QED
        BY <1>1, <1>4, <1>6, <1>8, <1>10, <3>2 DEF FlowInv, Filled
    <2> QED
      BY <1>10, <2>2, <2>3
  <1>11. CASE cur # Over /\ ~flow.trains /\ Direction([flow EXCEPT !.stopsError = flow.missing # {}], inp)
    <2> DEFINE f == [flow EXCEPT !.stopsError = flow.missing # {}]
    <2>0. flow.trains = FALSE
      BY <1>8, <1>11 DEF FlowData
    <2>1. Fresh(f, inp) /\ inp.route = said.route /\ said.also = FALSE
      BY <1>8, <1>11, <2>0 DEF Fresh, FlowData, Shaped, Screens, Blank, Imports
    <2>2. Direction(f, inp)
      BY <1>11
    <2> HIDE DEF f
    <2>3. base.lines \subseteq Lines
      BY <1>8, <1>11
    <2>4. /\ FlowData(flow') /\ inp' = inp
          /\ cur' = Over \/ cur'.kind = "form"
          /\ Screens(cur'.step, inp, flow', said, base.lines)
      BY <2>1, <2>2, <2>3, DirectionShown
    <2>5. cur'.kind # "call"
      BY <2>4 DEF Over
    <2> QED
      BY <1>1, <1>4, <1>6, <1>8, <1>11, <2>4, <2>5 DEF FlowInv, Filled
  <1> QED
    BY <1>7, <1>9, <1>10, <1>11 DEF Reopened

-----------------------------------------------------------------------------
(* Other windows, and the steps together *)

LEMMA OtherSensorInv ==
    ASSUME FlowInv, NEW l \in Bus, NEW ends \in Rides[l], NEW n, OtherSensor(l, ends, n)
    PROVE  FlowInv'
  <1> DEFINE e == EntryOf([NoInputs EXCEPT !.route = l, !.from = ends[1],
                              !.to = ends[2], !.loop = PairDirection(l, None)], n)
  <1>1. /\ entries' = entries \cup {e}
        /\ UNCHANGED <<cur, inp, flow, job, tick, due, calls, reopen, base, said>>
    BY DEF OtherSensor, progress
  <1>2. e.route = l /\ e.ends = ends
    <2>1. ends = <<ends[1], ends[2]>>
      BY RidesAssumption DEF Lines
    <2>2. e.route = l /\ e.ends = <<ends[1], ends[2]>>
      BY DEF EntryOf, NoInputs
    <2> QED
      BY <2>1, <2>2
  <1> HIDE DEF e
  <1>3. Rideable(e)
    <2>1. l # AllTrains
      BY BusIsLine
    <2> QED
      BY <1>2, <2>1 DEF Rideable
  <1>4. Loaded'
    BY <1>1, <1>3 DEF FlowInv, Loaded, Rideable
  <1>5. JobData' /\ Control' /\ Filled' /\ Screens(cur.step, inp, flow, said, base.lines)'
    BY <1>1 DEF FlowInv, JobData, Control, Filled
  <1>6. AllMine(flow.todo) => AllMine(flow.todo)'
    BY <1>1, AllMineKeeps DEF AllMine
  <1> QED
    BY <1>1, <1>4, <1>5, <1>6 DEF FlowInv

LEMMA OtherImportInv == ASSUME FlowInv, NEW l \in Lines, OtherImport(l) PROVE FlowInv'
  <1>1. /\ base' = [built |-> TRUE, lines |-> base.lines \cup {l}]
        /\ UNCHANGED <<cur, inp, flow, job, tick, due, calls, reopen, entries, said>>
    BY DEF OtherImport, progress
  <1>2. base'.lines = base.lines \cup {l} /\ base'.built = TRUE
    BY <1>1
  <1>3. JobData' /\ Control' /\ Filled'
    BY <1>1, <1>2 DEF FlowInv, JobData, Control, Filled
  <1>4. Loaded'
    BY <1>1, <1>2 DEF FlowInv, Loaded, Rideable
  <1>5. Screens(cur.step, inp, flow, said, base'.lines)
    BY <1>2, ScreensGrow DEF FlowInv
  <1>6. AllMine(flow.todo) => AllMine(flow.todo)'
    BY <1>1, <1>2, AllMineKeeps DEF AllMine
  <1> QED
    BY <1>1, <1>3, <1>4, <1>5, <1>6 DEF FlowInv

LEMMA StutterInv == ASSUME FlowInv, UNCHANGED flowvars PROVE FlowInv'
  <1>1. UNCHANGED <<cur, inp, flow, job, tick, due, calls, reopen, entries, base, said>>
    BY DEF flowvars, progress
  <1>2. JobData' /\ Control'
    BY <1>1 DEF FlowInv, JobData, Control
  <1> QED
    BY <1>1, <1>2, ScreenStays

LEMMA AnswerInv ==
    ASSUME FlowInv, "options_train" \notin BusyAt, Answer
    PROVE  FlowInv'
  <1>1. CASE PickSource \/ SameLine \/ NextJourney \/ Close
    BY <1>1, PickSourceInv, SameLineInv, NextJourneyInv, CloseInv
  <1>2. CASE \E l \in Lines \cup {AllTrains}, p \in BOOLEAN : PickRoute(l, p)
    BY <1>2, PickRouteInv
  <1>3. CASE \E also \in SUBSET Lines : AskImport(also)
    BY <1>3, AskImportInv
  <1>4. CASE \E s \in Stops : PickOrigin(s) \/ PickDestination(s) \/ PickStation(s) \/ PickArrival(s)
    BY <1>4, PickOriginInv, PickDestinationInv, PickStationInv, PickArrivalInv
  <1>5. CASE \E w \in {"0", "1"} : PickTowards(w)
    BY <1>5, PickTowardsInv
  <1>6. CASE \E b \in BOOLEAN : AlsoAt(b) \/ NameSensors(b)
    BY <1>6, AlsoAtInv, NameSensorsInv
  <1>7. CASE \E chosen \in SUBSET Trains, b \in BOOLEAN : TickLines(chosen, b)
    BY <1>7, TickLinesInv
  <1>8. CASE \E n \in Names(SuggestedName(flow.label, Picked)), b \in BOOLEAN : NameSensor(n, b)
    BY <1>8, NameSensorInv
  <1> QED
    BY <1>1, <1>2, <1>3, <1>4, <1>5, <1>6, <1>7, <1>8 DEF Answer

LEMMA CallInv ==
    ASSUME FlowInv, NotLate, NEW c \in Callers, Configure(c) \/ Proceeds(c)
    PROVE  FlowInv'
  <1>1. due \in SUBSET {"tick", "screen"}
    BY DEF FlowInv, JobData
  <1>2. CASE ShowProgress(c)
    BY <1>2, ShowProgressInv DEF NotLate
  <1>3. CASE (StepCall(c) \/ ReloadDone(c)) /\ UNCHANGED due
    BY <1>3, StepCallInv, ReloadDoneInv
  <1> QED
    BY <1>1, <1>2, <1>3, StepEndsInv, ReopenedInv DEF Configure, Proceeds

LEMMA StationsShown ==
    ASSUME NEW f, NEW i, Fresh(f, i), NEW y, NEW ls, i.route \in Trains \cup {AllTrains},
           y.route \in Trains \cup {AllTrains}, ShowStops(f, i)
    PROVE  /\ FlowData(flow') /\ inp' = i /\ cur'.kind = "form"
           /\ Screens(cur'.step, i, flow', y, ls)
  <1>1. /\ FlowData(flow') /\ flow'.return = Unread /\ flow'.trains = FALSE /\ inp' = i
        /\ cur'.kind = "form" /\ cur'.step = "stops_train"
    BY DEF ShowStops, Form, Fresh, FlowData, Shaped
  <1>2. Screens("stops_train", i, flow', y, ls)
    BY <1>1 DEF Fresh, Screens, Blank, BusData, TrainData, Imports, BusScreens, TrainScreens, Named, None
  <1> QED
    BY <1>1, <1>2

\* A form drawn again is the form the rider was asked on.
LEMMA LateCallInv == ASSUME FlowInv, NEW d, LateCall(d) PROVE FlowInv'
  <1>1. UNCHANGED <<job, tick, calls, reopen, entries, base, said>> /\ due' \subseteq due
    BY DEF LateCall
  <1>2. JobData' /\ Loaded'
    BY <1>1 DEF FlowInv, JobData, Loaded, Rideable
  <1>3. ASSUME cur.kind = "form", cur'.kind = "form" PROVE Control'
    BY <1>1, <1>3 DEF FlowInv, Control
  <1>4. /\ FlowData(flow) /\ inp \in InputType /\ said \in SaidType /\ base.lines \subseteq Lines
        /\ Screens(cur.step, inp, flow, said, base.lines)
    BY DEF FlowInv, Filled, Loaded
  <1>5. CASE UNCHANGED <<cur, inp, flow>>
    <2>1. Control'
      BY <1>1, <1>5 DEF FlowInv, Control
    <2> QED
      BY <1>1, <1>2, <1>5, <2>1, ScreenStays
  <1>6. CASE cur = Form("route") /\ ShowRoute(flow) /\ UNCHANGED inp
    <2>1. cur.kind = "form" /\ cur.step = "route"
      BY <1>6 DEF Form
    <2>2. Fresh(flow, inp)
      BY <1>4, <2>1 DEF Fresh, Screens, Blank, Named, Imports, None
    <2>3. FlowData(flow') /\ cur'.kind = "form" /\ Screens(cur'.step, inp', flow', said, base.lines)
      BY <1>6, <2>2, RouteShown
    <2> QED
      BY <1>1, <1>2, <1>3, <1>4, <1>6, <2>1, <2>3 DEF FlowInv, Filled
  <1>7. CASE cur = Form("stops") /\ ShowStops(flow, inp)
    <2>1. cur.kind = "form" /\ cur.step = "stops"
      BY <1>7 DEF Form
    <2>2. Fresh(flow, inp) /\ inp.route = said.route /\ said.also = FALSE /\ inp.route \in Bus \cap base.lines
      BY <1>4, <2>1 DEF Fresh, Screens, Blank, BusData, BusScreens, Named, Imports, None
    <2>3. inp.route \notin Trains \cup {AllTrains}
      BY <2>2, BusIsLine
    <2>4. cur'.kind = "form"
      BY <1>7, <2>2, <2>3 DEF ShowStops, Form
    <2>5. FlowData(flow') /\ inp' = inp /\ Screens(cur'.step, inp, flow', said, base.lines)
      <3>1. ShowStops(flow, inp) /\ base.lines \subseteq Lines
        BY <1>4, <1>7
      <3>2. Fresh(flow, inp) /\ inp.route = said.route /\ said.also = FALSE
        BY <2>2
      <3>3. FlowData(flow') /\ inp' = inp
        BY <3>1, <3>2, StopsShown
      <3>4. Screens(cur'.step, inp, flow', said, base.lines)
        BY <3>1, <3>2, StopsShown
      <3> QED
        BY <3>3, <3>4
    <2> QED
      BY <1>1, <1>2, <1>3, <1>4, <2>1, <2>4, <2>5 DEF FlowInv, Filled
  <1>8. CASE cur = Form("stops_train") /\ ShowStops(flow, inp)
    <2>1. cur.kind = "form" /\ cur.step = "stops_train"
      BY <1>8 DEF Form
    <2>2. /\ Fresh(flow, inp)
          /\ inp.route \in Trains \cup {AllTrains} /\ said.route \in Trains \cup {AllTrains}
      BY <1>4, <2>1 DEF Fresh, Screens, Blank, TrainData, TrainScreens, Named, Imports, None
    <2>3. FlowData(flow') /\ inp' = inp /\ cur'.kind = "form" /\ Screens(cur'.step, inp, flow', said, base.lines)
      BY <1>8, <2>2, StationsShown
    <2> QED
      BY <1>1, <1>2, <1>3, <1>4, <2>1, <2>3 DEF FlowInv, Filled
  <1>9. CASE cur = Form("options_train") /\ ShowOptions(flow, inp)
    <2>1. cur.kind = "form" /\ cur.step = "options_train"
      BY <1>9 DEF Form
    <2>2. /\ flow.return = Unread /\ Clean(inp) /\ said.route \in Trains \cup {AllTrains}
          /\ inp.route = AllTrains /\ inp.from = said.from /\ inp.to = said.to
      BY <1>4, <2>1 DEF Screens, Blank, TrainData, TrainScreens, Named, Imports, None
    <2>3. FlowData(flow') /\ inp' = inp /\ cur'.kind = "form" /\ Screens(cur'.step, inp, flow', said, base.lines)
      BY <1>4, <1>9, <2>2, OptionsShown
    <2> QED
      BY <1>1, <1>2, <1>3, <1>4, <2>1, <2>3 DEF FlowInv, Filled
  <1> QED
    BY <1>5, <1>6, <1>7, <1>8, <1>9 DEF LateCall

LEMMA DueCallInv == ASSUME FlowInv, NEW d, DueCall(d) PROVE FlowInv'
  <1>1. CASE LateCall(d)
    BY <1>1, LateCallInv
  <1>2. CASE ~LateCall(d)
    <2>1. PICK c \in Callers : \/ StepEnds(c, due \ {d})
                               \/ (StepCall(c) \/ ReloadDone(c)) /\ due' = (due \ {d})
      BY <1>2 DEF DueCall
    <2>2. (due \ {d}) \in SUBSET {"tick", "screen"} /\ (due \ {d}) \subseteq due
      BY DEF FlowInv, JobData
    <2> QED
      BY <2>1, <2>2, StepEndsInv, StepCallInv, ReloadDoneInv
  <1> QED
    BY <1>1, <1>2

LEMMA RunsInv == ASSUME FlowInv, NotLate, Runs PROVE FlowInv'
  BY MakeSensorInv, MadeInv, JobEndsInv, TickEndsInv, CallInv DEF Runs

LEMMA StepInv ==
    ASSUME FlowInv, "options_train" \notin BusyAt, [FlowNext]_flowvars, [NotLate]_flowvars
    PROVE  FlowInv'
  <1>1. CASE \E l \in Bus : \E ends \in Rides[l] :
                \E n \in Names(SuggestedName(l, ends)) : OtherSensor(l, ends, n)
    BY <1>1, OtherSensorInv
  <1>2. CASE (\E l \in Lines : OtherImport(l)) \/ UNCHANGED flowvars
    BY <1>2, OtherImportInv, StutterInv
  <1>3. CASE FlowNext /\ NotLate
    BY <1>1, <1>2, <1>3, AnswerInv, RunsInv, CallInv, DueCallInv DEF FlowNext
  <1> QED
    BY <1>2, <1>3

LEMMA InitInv == ASSUME FlowInit PROVE FlowInv
  <1>1. PICK b \in Begins : base = [built |-> b.loaded # {}, lines |-> b.loaded]
    BY DEF FlowInit
  <1>2. /\ cur.kind = "form" /\ cur.step = "start_end" /\ inp = NoInputs /\ flow = NewFlow
        /\ job = NoJob /\ tick = None /\ due = {} /\ reopen = None
        /\ calls = [c \in Callers |-> None] /\ entries = {} /\ said = NotSaid
    BY DEF FlowInit, Form
  <1>3. Fresh(flow, inp)
    BY <1>2, NewFlowData
  <1>4. said \in SaidType
    BY <1>2 DEF NotSaid, SaidType
  <1>5. JobData /\ Control
    <2>1. job \in JobType
          /\ job.at # "done"
      BY <1>2 DEF NoJob, JobType, None
    <2> QED
      BY <1>2, <2>1 DEF JobData, Control, None
  <1>6. Loaded
    BY <1>1, <1>2, BeginsAssumption DEF Loaded
  <1>7. Screens("start_end", inp, flow, said, base.lines)
    BY <1>3 DEF Fresh, Screens, Blank, BusData, TrainData, Imports, BusScreens, TrainScreens, Named, None
  <1> QED
    BY <1>2, <1>3, <1>4, <1>5, <1>6, <1>7 DEF FlowInv, Filled, Fresh

LEMMA FlowInvAlways ==
    ASSUME "options_train" \notin BusyAt
    PROVE  FlowSpec /\ Prompt => []FlowInv
  <1>1. FlowInit => FlowInv
    BY InitInv
  <1>2. FlowInv /\ [FlowNext]_flowvars /\ [NotLate]_flowvars => FlowInv'
    BY StepInv
  <1> QED
    BY <1>1, <1>2, PTL DEF FlowSpec, Prompt

\* The inputs are of their types on every screen, and every sensor of the
\* source rides between its two stops, whatever other windows make meanwhile.
THEOREM FlowTypesKept ==
    ASSUME "options_train" \notin BusyAt
    PROVE  FlowSpec /\ Prompt => []FlowTypeOK
  <1>1. FlowInv => FlowTypeOK
    <2>1. SUFFICES ASSUME FlowInv PROVE FlowTypeOK
      OBVIOUS
    <2>2. inp \in InputType /\ cur.kind \in {"form", "progress", "done", "call", "over"}
      BY <2>1 DEF FlowInv, Filled, Control
    <2>3. /\ job.added \subseteq Lines /\ job.at \in {None, "running", "done"}
          /\ tick \in {None, "running", "over"} /\ due \subseteq {"tick", "screen"}
          /\ reopen \in Callers \cup {None}
      BY <2>1 DEF FlowInv, JobData, JobType
    <2>4. /\ base.lines \subseteq Lines /\ (base.lines # {} => base.built)
          /\ \A e \in entries : e.ends \in Rides[IF e.route = AllTrains
                                                 THEN CHOOSE l \in e.lines : TRUE ELSE e.route]
      BY <2>1 DEF FlowInv, Loaded, Rideable
    <2> QED
      BY <2>2, <2>3, <2>4 DEF FlowTypeOK, InputType
  <1> QED
    BY <1>1, FlowInvAlways, PTL

-----------------------------------------------------------------------------
(* The message stays on the form: of the steps on one, only an answer and a  *)
(* late call draw a form, as the call that reopens the source left the form  *)
(* it was to draw, and no other call reopens it.                            *)

LEMMA FormHasNoReopen ==
    ASSUME FlowInv, cur.kind = "form", NEW c \in Callers
    PROVE  ~Reopened(c)
  BY DEF FlowInv, Control, Reopened

LEMMA SaidTillAnswered ==
    ASSUME FlowInv, [FlowNext]_flowvars, cur.kind = "form", flow' # flow
    PROVE  Answer \/ \E d \in due : LateCall(d)
  <1>1. ASSUME NEW c \in Callers, StepCall(c) \/ (\E coming : StepEnds(c, coming)) PROVE FALSE
    BY <1>1 DEF StepCall, StepEnds
  <1>2. ASSUME NEW c, ReloadDone(c) \/ ShowProgress(c) PROVE FALSE
    BY <1>2 DEF ReloadDone, ShowProgress
  <1>3. ASSUME NEW c \in Callers, Configure(c) \/ Proceeds(c) PROVE FALSE
    BY <1>1, <1>2, <1>3, FormHasNoReopen DEF Configure, Proceeds
  <1>4. ASSUME NEW d, DueCall(d) PROVE \E x \in due : LateCall(x)
    <2>1. LateCall(d)
      BY <1>1, <1>2, <1>4 DEF DueCall
    <2> QED
      BY <2>1 DEF LateCall
  <1>5. ASSUME MakeSensor \/ Made \/ JobEnds \/ TickEnds PROVE FALSE
    BY <1>5 DEF MakeSensor, Made, JobEnds, TickEnds
  <1>6. ASSUME \/ (\E l, ends, n : OtherSensor(l, ends, n)) \/ (\E l : OtherImport(l))
               \/ UNCHANGED flowvars
        PROVE  FALSE
    BY <1>6 DEF OtherSensor, OtherImport, flowvars
  <1> QED
    BY <1>3, <1>4, <1>5, <1>6 DEF FlowNext, Runs

\* The lines an import left out are said on the first form drawn after it, by
\* whichever of any number of overlapping calls, and no call under way as it
\* is drawn takes the message off it: the rider's answer does, or a call that
\* comes later.
THEOREM PartialIsToldAlways ==
    ASSUME "options_train" \notin BusyAt
    PROVE  FlowSpec /\ Prompt => PartialIsTold
  <1> DEFINE Kept == /\ cur'.kind = "form" => flow'.told # "owed"
                     /\ cur.kind = "form" /\ flow.told = "said" /\ flow'.told # "said" =>
                           Answer \/ (\E d \in due : LateCall(d)) \/ flow.again
  <1>1. FlowInv /\ TellInv' /\ [FlowNext]_flowvars => [Kept]_flowvars
    <2>1. SUFFICES ASSUME FlowInv, TellInv', [FlowNext]_flowvars PROVE Kept
      OBVIOUS
    <2>2. cur'.kind = "form" => flow'.told # "owed"
      BY <2>1 DEF TellInv, Telling
    <2>3. flow'.told # flow.told => flow' # flow
      OBVIOUS
    <2> QED
      BY <2>1, <2>2, <2>3, SaidTillAnswered
  <1> QED
    BY <1>1, FlowInvAlways, TellInvAlways, PTL DEF PartialIsTold, FlowSpec

-----------------------------------------------------------------------------
(* Every sensor the flow makes *)

\* While the flow makes its sensors, the entries grow by the first of those
\* named only.
LEMMA MadeIsMine ==
    ASSUME FlowInv, [FlowNext]_flowvars, Making, NEW e \in entries' \ entries
    PROVE  Mine(e)
  <1>1. cur.kind = "call"
    BY DEF Making
  <1>2. CASE MakeSensor
    <2>1. flow.todo # <<>> /\ e = Head(flow.todo)
      BY <1>2 DEF MakeSensor, Makes
    <2>2. PICK T : flow.todo \in Seq(T) /\ \A x \in T : Mine(x)
      BY <1>1 DEF FlowInv, AllMine
    <2>3. Head(flow.todo) \in T
      BY <2>1, <2>2
    <2> QED
      BY <2>1, <2>2, <2>3
  <1>3. CASE \E l \in Bus : \E ends \in Rides[l] :
                \E n \in Names(SuggestedName(l, ends)) : OtherSensor(l, ends, n)
    BY <1>3 DEF OtherSensor, Making
  <1>4. CASE Answer
    BY <1>4, ScreensMakeNone DEF Answer
  <1>5. CASE Made \/ JobEnds \/ TickEnds \/ \E d : DueCall(d)
    BY <1>5, RunsMakeNone
  <1>6. CASE \E c \in Callers : Configure(c) \/ Proceeds(c)
    BY <1>6, CallsMakeNone
  <1>7. CASE (\E l \in Lines : OtherImport(l)) \/ UNCHANGED flowvars
    BY <1>7 DEF OtherImport, flowvars
  <1> QED
    BY <1>2, <1>3, <1>4, <1>5, <1>6, <1>7 DEF FlowNext, Runs

\* A sensor made is of the journey just answered, outward or back, on the
\* lines answered: nothing of an earlier journey of the flow, of a line given
\* up or of stations picked before is in it.
THEOREM EntryOfOneJourneyAlways ==
    ASSUME "options_train" \notin BusyAt
    PROVE  FlowSpec /\ Prompt => EntryOfOneJourney
  <1>1. FlowInv /\ [FlowNext]_flowvars
        => [Making => \A e \in entries' \ entries : OwnJourney(e)]_flowvars
    BY MadeIsMine DEF Mine
  <1> QED
    BY <1>1, FlowInvAlways, PTL DEF EntryOfOneJourney, FlowSpec

\* A sensor is made only on lines the database holds as it is made.
THEOREM OnLinesLoadedAlways ==
    ASSUME "options_train" \notin BusyAt
    PROVE  FlowSpec /\ Prompt => OnLinesLoaded
  <1>1. FlowInv /\ [FlowNext]_flowvars
        => [Making => \A e \in entries' \ entries :
               e.lines \cup ({e.route} \ {AllTrains}) \subseteq base.lines]_flowvars
    BY MadeIsMine DEF Mine
  <1> QED
    BY <1>1, FlowInvAlways, PTL DEF OnLinesLoaded, FlowSpec

=============================================================================
