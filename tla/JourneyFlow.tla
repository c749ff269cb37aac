---------------------------- MODULE JourneyFlow ----------------------------
(***************************************************************************)
(* The screens that add sensors to a source: the line, its import when the *)
(* database does not hold it, the stops or stations, the name, the way     *)
(* back, and round again.  One flow object goes from journey to journey;   *)
(* other windows make sensors and bring lines in meanwhile.  A progress    *)
(* screen is configured by the end of its tick and by the browser at will, *)
(* so several calls of one step may be under way at once.                  *)
(***************************************************************************)
EXTENDS Naturals, Sequences, FiniteSets, SequencesExt

CONSTANTS
    Bus, Trains,    \* the lines of the feed
    Circular,       \* bus lines whose ends do not say which way they go
    Between,        \* lines with stops between the two ends picked
    Rides,          \* per line, the pairs of stops a trip of it rides
    Typed,          \* names a rider types instead of the one suggested
    Callers,        \* the calls of a progress step that may overlap
    BusyAt,         \* the steps that may find the database being written
    MaxAlso,        \* the lines ticked with the one asked for
    Begins          \* the lines loaded at first, with the calls that may overlap
                    \* and how many journeys more, faults and acts of other
                    \* windows there may be

Lines == Bus \cup Trains
None == "none"
AllTrains == "train"

ASSUME LinesAssumption ==
    Bus \cap Trains = {} /\ {None, AllTrains} \cap Lines = {} /\ IsFiniteSet(Lines)
ASSUME RidesAssumption == \A l \in Lines : \A p \in Rides[l] : p = <<p[1], p[2]>>
ASSUME CallersAssumption ==
    Callers \cap {None, "importing", "extracting", "reload_done", "reopen"} = {}
ASSUME BeginsAssumption == \A b \in Begins : b.loaded \subseteq Lines

Stops == UNION {{p[1], p[2]} : p \in UNION {Rides[l] : l \in Lines}}

VARIABLES
    cur,        \* cur_step of the flow: its kind and its step
    inp,        \* _user_inputs
    flow,       \* the other attributes of the flow object
    job,        \* _import_job or _extract_job
    tick,       \* _progress_tick
    due,        \* the calls to come: of a tick that ended, of the browser that
                \* was told the screen changed
    calls,      \* the calls of a progress step under way
    reopen,     \* _reload_done_job, the call that runs it
    entries,    \* the sensors' entries
    base,       \* the database: built or not, the lines it holds
    said,       \* what the rider answered for the journey being made
    left        \* what may still happen: journeys, faults, acts of other windows

progress == <<job, tick, due, calls, reopen>>
flowvars == <<cur, inp, flow, progress, entries, base, said, left>>

-----------------------------------------------------------------------------
(* Data *)

NoInputs == [route |-> None, from |-> None, to |-> None, loop |-> None,
             also |-> FALSE, line |-> None, lines |-> {}]
NotSaid == [route |-> None, from |-> None, to |-> None, way |-> None,
            also |-> FALSE, lines |-> {}]
NoReturn == [ends |-> <<None, None>>, loop |-> None, name |-> <<>>]
Unread == [NoReturn EXCEPT !.name = <<"unread">>]
NewFlow == [towards |-> None, stopsError |-> FALSE, offered |-> {}, label |-> None,
            routes |-> <<>>, missing |-> {}, trains |-> FALSE,
            plans |-> [lines |-> {}, also |-> FALSE], return |-> Unread,
            line |-> [inputs |-> NoInputs, label |-> None],
            todo |-> <<>>, made |-> FALSE, told |-> "nothing", again |-> FALSE]
NoJob == [kind |-> None, at |-> None, routes |-> <<>>, added |-> {}]

Picked == <<inp.from, inp.to>>
Swap(ends) == <<ends[2], ends[1]>>
SuggestedName(label, ends) == <<label, ends[1], ends[2]>>

\* name_in_use: two names of one file part count as one name here.
NameInUse(n) == \E e \in entries : e.name = n

\* A rider keeps the name suggested, and types one when it is taken.
Names(suggested) == IF NameInUse(suggested) THEN Typed ELSE {suggested}

\* get_pair_direction: the rotation answered, or the shorter one.
PairDirection(l, way) == IF l \notin Circular THEN None ELSE IF way = None THEN "0" ELSE way

\* _find_return_trip: looked for when the sensor screen opens, offered unless
\* a journey of the source rides it already.
FindReturn(f, i) ==
    LET back == <<i.to, i.from>> IN
    IF back \in Rides[i.route] /\ ~\E e \in entries : e.route = i.route /\ e.ends = back
    THEN [ends |-> back, loop |-> PairDirection(i.route, None), name |-> SuggestedName(f.label, back)]
    ELSE NoReturn

\* What a screen of a train journey reads: the zip's index from the stations
\* first and while the source lacks lines, else the database.
TrainSource(fromZip) == IF fromZip THEN Trains ELSE Trains \cap base.lines

\* _train_lines_missing: either way, of the lines ticked when some are.
TrainLinesMissing(ends, ticked) ==
    {l \in Trains \ base.lines : {ends, Swap(ends)} \cap Rides[l] # {}
                                 /\ (ticked # {} => l \in ticked)}

\* _line_plans: the entry of each line ticked that rides between the ends,
\* and its return.
LinePlans(ends, chosen, source) == {l \in chosen \cap source : ends \in Rides[l]}

PlanReturnAnyway(l, ends) ==
    [ends |-> Swap(ends), loop |-> None, name |-> SuggestedName(l, Swap(ends))]

PlanReturn(l, ends) ==
    IF Swap(ends) \in Rides[l]
    THEN [ends |-> Swap(ends), loop |-> None, name |-> SuggestedName(l, Swap(ends))]
    ELSE NoReturn

ResetLabelOnly == [flow EXCEPT !.label = None]

\* The source's fields stay, the journey's go.
ResetForNextJourney == [flow EXCEPT !.label = None, !.return = Unread]

\* The entry of the inputs, and what a return changes in it.
EntryOf(i, n) == [name |-> n, route |-> i.route, lines |-> i.lines,
                  ends |-> <<i.from, i.to>>, loop |-> i.loop, also |-> i.also]
ReturnOf(e, r) == [e EXCEPT !.name = r.name, !.ends = r.ends, !.loop = r.loop]

\* import_routes: in the order asked, up to the first that fails.
BroughtIn(routes) == {Range(p) : p \in Prefixes(routes)}

Form(s) == [kind |-> "form", step |-> s]
Waiting(s) == [kind |-> "progress", step |-> s]
Stepping(s) == [kind |-> "done", step |-> s]
Working(s) == [kind |-> "call", step |-> s]
Over == [kind |-> "over", step |-> None]

\* The rider answers a screen well after the calls that drew it returned.
On(s) == cur = Form(s) /\ \A c \in Callers : calls[c] = None

-----------------------------------------------------------------------------
(* Steps that several screens end on *)

\* get_gtfs looks at the database where a step reads it: it may be found
\* being written, which is waited for.
Busy(step) ==
    /\ base.built /\ step \in BusyAt /\ left.faults > 0
    /\ left' = [left EXCEPT !.faults = @ - 1]

Begun(step, routes) == [kind |-> step, at |-> "running", routes |-> routes, added |-> {}]

\* A job of the step a late call began is kept, whatever is asked for now.
Starts(step, routes) ==
    /\ job' = IF job.kind = step THEN job ELSE Begun(step, routes)
    /\ tick' = "running"
    /\ cur' = Waiting(step)
    /\ UNCHANGED <<due, calls>>

Extracting == Starts("extracting", <<>>) /\ UNCHANGED reopen
Importing(routes) ==
    /\ Starts("importing", routes)
    /\ reopen' = IF job.kind = "importing" THEN reopen ELSE None

\* A screen drawn with the lines that did not come in says so; one drawn
\* without them says it no more.
Says(f, partial) == IF partial THEN "said" ELSE IF f.told = "said" THEN "nothing" ELSE f.told

\* async_step_agency, then the list of async_step_route: each line with its
\* pruned flag as it stands now.
Offer == {<<l, l \notin base.lines>> : l \in Lines}
             \cup (IF Trains = {} THEN {} ELSE {<<AllTrains, FALSE>>})

ShowRoute(f) ==
    /\ cur' = Form("route")
    /\ flow' = [f EXCEPT !.offered = Offer, !.told = "nothing"]

\* async_step_stops and async_step_stops_train on the way in: an import that
\* left lines out is said there.
ShowStops(f, i) ==
    /\ cur' = IF i.route \in Trains \cup {AllTrains} THEN Form("stops_train")
              ELSE IF i.route \in base.lines THEN Form("stops") ELSE Over
    /\ flow' = [f EXCEPT !.stopsError = FALSE, !.told = Says(f, f.stopsError)]
    /\ inp' = i

\* async_step_direction: the line kept for another journey, then the stops.
Direction(f, i) == ShowStops([f EXCEPT !.line = [inputs |-> i, label |-> f.label]], i)

\* async_step_sensor on the way in.
ShowSensor(f, i) ==
    /\ cur' = Form("sensor")
    /\ flow' = [f EXCEPT !.return = IF @ = Unread THEN FindReturn(f, i) ELSE @]
    /\ inp' = i

\* async_step_options_train on the way in: what is missing is said once.
ShowOptions(f, i) ==
    /\ cur' = Form("options_train")
    /\ flow' = [f EXCEPT !.told = Says(f, f.missing # {}), !.missing = {}]
    /\ inp' = i

\* _name_train_plans: one plan goes on to its own screen, several are listed.
NamePlans(f, i) ==
    LET named == [f EXCEPT !.trains = FALSE, !.told = Says(f, FALSE)] IN
    IF Cardinality(f.plans.lines) = 1
    THEN LET l == CHOOSE l \in f.plans.lines : TRUE IN
         /\ cur' = Form("sensor_train")
         /\ inp' = [i EXCEPT !.lines = f.plans.lines, !.also = f.plans.also]
         /\ flow' = [named EXCEPT !.label = l, !.return = PlanReturn(l, <<i.from, i.to>>)]
    ELSE cur' = Form("sensors_train") /\ inp' = i /\ flow' = named

-----------------------------------------------------------------------------
(* The source and the line *)

FlowInit ==
    /\ cur = Form("start_end") /\ inp = NoInputs /\ flow = NewFlow
    /\ job = NoJob /\ tick = None /\ due = {} /\ reopen = None
    /\ calls = [c \in Callers |-> None]
    /\ entries = {}
    /\ \E b \in Begins :
          /\ base = [built |-> b.loaded # {}, lines |-> b.loaded]
          /\ left = [journeys |-> b.journeys, faults |-> b.faults, partial |-> b.partial,
                     others |-> b.others, callers |-> b.callers]
    /\ said = NotSaid

PickSource ==
    /\ On("start_end")
    /\ \/ Busy("agency") /\ Extracting /\ UNCHANGED flow
       \/ ShowRoute(flow) /\ UNCHANGED <<progress, left>>
    /\ UNCHANGED <<inp, entries, base, said>>

\* A line with its timetable goes on to its stops, a pruned one to the import.
PickRoute(l, pruned) ==
    /\ On("route") /\ <<l, pruned>> \in flow.offered
    /\ LET i == [inp EXCEPT !.route = l]
           f == [flow EXCEPT !.label = l]
       IN  IF pruned THEN cur' = Form("route_reload") /\ inp' = i /\ flow' = f
                     ELSE Direction(f, i)
    /\ said' = [NotSaid EXCEPT !.route = l]
    /\ UNCHANGED <<progress, entries, base, left>>

\* The line picked first, then the others ticked among those missing.
AskImport(also) ==
    /\ On("route_reload") /\ also \cap (base.lines \cup {inp.route}) = {}
    /\ Cardinality(also) <= MaxAlso
    /\ LET routes == <<inp.route>> \o SetToSeq(also) IN
       flow' = [flow EXCEPT !.routes = routes, !.again = FALSE] /\ Importing(routes)
    /\ UNCHANGED <<inp, entries, base, said, left>>

-----------------------------------------------------------------------------
(* The stops of a bus *)

Towards(l, s) == IF \E p \in Rides[l] : p[1] = s THEN Form("destination") ELSE Over

PickOrigin(s) ==
    /\ On("stops")
    /\ inp' = [inp EXCEPT !.from = s]
    /\ said' = [said EXCEPT !.from = s, !.way = None]
    /\ flow' = [flow EXCEPT !.towards = None]
    /\ cur' = IF inp.route \in Circular THEN Form("towards") ELSE Towards(inp.route, s)
    /\ UNCHANGED <<progress, entries, base, left>>

PickTowards(w) ==
    /\ On("towards")
    /\ flow' = [flow EXCEPT !.towards = w]
    /\ said' = [said EXCEPT !.way = w]
    /\ cur' = Towards(inp.route, inp.from)
    /\ UNCHANGED <<progress, inp, entries, base, left>>

PickDestination(s) ==
    /\ On("destination") /\ <<inp.from, s>> \in Rides[inp.route]
    /\ LET i == [inp EXCEPT !.to = s, !.loop = PairDirection(inp.route, flow.towards)]
       IN  IF inp.route \in Between
           THEN cur' = Form("options_stops") /\ inp' = i /\ UNCHANGED flow
           ELSE ShowSensor(flow, i)
    /\ said' = [said EXCEPT !.to = s]
    /\ UNCHANGED <<progress, entries, base, left>>

\* The return is looked for again, its stops the mirror of these.
AlsoAt(b) ==
    /\ On("options_stops")
    /\ said' = [said EXCEPT !.also = b]
    /\ ShowSensor([flow EXCEPT !.return = Unread], [inp EXCEPT !.also = @ \/ b])
    /\ UNCHANGED <<progress, entries, base, left>>

-----------------------------------------------------------------------------
(* The stations of a train *)

StationLines(i) == IF i.route = AllTrains THEN TrainSource(TRUE) ELSE {i.route} \cap base.lines

PickStation(s) ==
    /\ On("stops_train")
    /\ inp' = [inp EXCEPT !.from = s]
    /\ said' = [said EXCEPT !.from = s]
    /\ cur' = IF \E l \in StationLines(inp) : \E p \in Rides[l] : p[1] = s
              THEN Form("destination_train") ELSE cur
    /\ UNCHANGED <<flow, progress, entries, base, left>>

\* The lines riding between the two stations that the source lacks are read
\* from the zip; the journey then rides whichever train serves its stations.
PickArrival(s) ==
    /\ On("destination_train")
    /\ \E l \in StationLines(inp) : <<inp.from, s>> \in Rides[l]
    /\ LET first == inp.route = AllTrains
           missing == IF first THEN TrainLinesMissing(<<inp.from, s>>, {}) ELSE {}
           i == [inp EXCEPT !.to = s, !.line = IF first THEN None ELSE inp.route]
           f == [flow EXCEPT !.trains = missing # {}]
       IN  \/ /\ missing = {} /\ Busy("destination_train")
              /\ Extracting /\ flow' = f /\ inp' = i
           \/ /\ ShowOptions(f, [i EXCEPT !.route = AllTrains])
              /\ UNCHANGED <<progress, left>>
    /\ said' = [said EXCEPT !.to = s]
    /\ UNCHANGED <<entries, base>>

Offered ==
    ({l \in TrainSource(flow.trains) : Picked \in Rides[l]} \cup {inp.line}) \ {None}

\* async_step_options_train answered: the lines ticked the source lacks come
\* in first; where none is missing, or it cannot be told which are, the
\* source is opened again.
TickLines(chosen, also) ==
    /\ On("options_train")
    /\ chosen # {} /\ chosen \subseteq Offered
    /\ also => Offered \cap Between # {}
    /\ said' = [said EXCEPT !.lines = chosen, !.also = also]
    /\ LET plans == LinePlans(Picked, chosen, TrainSource(flow.trains))
           f == [flow EXCEPT !.plans = [lines |-> plans, also |-> also], !.missing = {}]
           missing == IF flow.trains THEN TrainLinesMissing(Picked, chosen) ELSE {}
       IN  \/ /\ plans = {}                                 \* no_train_between
              /\ flow' = f /\ UNCHANGED <<cur, inp, progress, left>>
           \/ /\ plans # {} /\ missing # {}
              /\ flow' = [f EXCEPT !.routes = SetToSeq(missing), !.again = FALSE]
              /\ Importing(SetToSeq(missing)) /\ UNCHANGED <<inp, left>>
           \/ /\ plans # {} /\ missing = {}
              /\ NamePlans(f, inp) /\ UNCHANGED <<progress, left>>
           \/ /\ plans # {} /\ flow.trains /\ Busy("options_train")
              /\ \/ Extracting /\ flow' = f /\ UNCHANGED inp
                 \/ NamePlans(f, inp) /\ UNCHANGED progress
    /\ UNCHANGED <<entries, base>>

-----------------------------------------------------------------------------
(* The sensors *)

\* _name_and_create up to its await: neither name is in use.
NameSensor(n, back) ==
    /\ On("sensor") \/ On("sensor_train")
    /\ back => flow.return # NoReturn
    /\ ~NameInUse(n) /\ (back => ~NameInUse(flow.return.name) /\ flow.return.name # n)
    /\ LET e == EntryOf(inp, n) IN
       flow' = [flow EXCEPT !.made = FALSE,
                    !.todo = IF back THEN <<e, ReturnOf(e, flow.return)>> ELSE <<e>>]
    /\ cur' = Working(cur.step)
    /\ UNCHANGED <<inp, progress, entries, base, said, left>>

\* async_step_sensors_train: an entry of each plan, each with its return.
NameSensors(back) ==
    /\ On("sensors_train")
    /\ LET outward(l) == EntryOf([inp EXCEPT !.lines = {l}, !.also = flow.plans.also],
                                 SuggestedName(l, Picked))
           both(l) == LET r == PlanReturn(l, Picked) IN
                      IF back /\ r # NoReturn THEN <<outward(l), ReturnOf(outward(l), r)>>
                                              ELSE <<outward(l)>>
           plans == SetToSeq(flow.plans.lines)
       IN  flow' = [flow EXCEPT !.made = FALSE,
                        !.todo = FlattenSeq([k \in DOMAIN plans |-> both(plans[k])])]
    /\ cur' = Working(cur.step)
    /\ UNCHANGED <<inp, progress, entries, base, said, left>>

MakesTwice(e) == entries' = entries \cup {e}

\* _import_entry: the second flow refuses a unique_id that is taken.
Makes(e) == entries' = IF NameInUse(e.name) THEN entries ELSE entries \cup {e}

\* A journey refused takes its return with it; of a list, the others are made.
MakeSensor ==
    /\ cur.kind = "call" /\ flow.todo # <<>>
    /\ LET e == Head(flow.todo)
           refused == NameInUse(e.name)
           gone == refused /\ ~flow.made /\ cur.step # "sensors_train"
       IN  /\ Makes(e)
           /\ flow' = [flow EXCEPT !.todo = IF gone THEN <<>> ELSE Tail(@),
                                   !.made = @ \/ ~refused]
    /\ UNCHANGED <<cur, inp, progress, base, said, left>>

\* Once the journey is made, what no later step reads before it is written
\* again is forgotten here.
Made ==
    /\ cur.kind = "call" /\ flow.todo = <<>>
    /\ IF flow.made
       THEN /\ cur' = Form("finished") /\ inp' = NoInputs /\ said' = NotSaid
            /\ flow' = [NewFlow EXCEPT !.line = flow.line, !.return = flow.return,
                                       !.stopsError = flow.stopsError, !.missing = flow.missing]
       ELSE cur' = Form(cur.step) /\ UNCHANGED <<inp, flow, said>>
    /\ UNCHANGED <<progress, entries, base, left>>

Again == /\ On("finished") /\ left.journeys > 0
         /\ left' = [left EXCEPT !.journeys = @ - 1]

SameLine ==
    /\ Again
    /\ ShowStops([ResetForNextJourney EXCEPT !.label = flow.line.label],
                 [flow.line.inputs EXCEPT !.loop = None])
    /\ said' = [NotSaid EXCEPT !.route = flow.line.inputs.route]
    /\ UNCHANGED <<progress, entries, base>>

NextJourney ==
    /\ Again
    /\ cur' = Form("start_end") /\ inp' = NoInputs
    /\ flow' = ResetForNextJourney
    /\ said' = NotSaid
    /\ UNCHANGED <<progress, entries, base>>

\* The window is closed over a progress screen: the import goes on to its end.
Close ==
    /\ cur.kind = "progress"
    /\ cur' = Over /\ inp' = NoInputs /\ said' = NotSaid
    /\ flow' = NewFlow
    /\ UNCHANGED <<progress, entries, base, left>>

-----------------------------------------------------------------------------
(* The progress screens *)

JobEnds ==
    /\ job.at = "running"
    /\ \E added \in IF job.kind = "importing" THEN BroughtIn(job.routes) ELSE {{}} :
          LET failed == job.kind = "importing" /\ added = {}
              partial == ~failed /\ added # Range(job.routes)
          IN
          /\ (failed => left.faults > 0) /\ (partial => left.partial > 0)
          /\ left' = [left EXCEPT !.faults = IF failed THEN @ - 1 ELSE @,
                                  !.partial = IF partial THEN @ - 1 ELSE @]
          /\ job' = [job EXCEPT !.at = "done", !.added = added]
          /\ base' = [built |-> base.built \/ added # {}, lines |-> base.lines \cup added]
    /\ UNCHANGED <<cur, inp, flow, tick, due, calls, reopen, entries, said>>

\* The short wait a progress screen is handed, 3 s or the job's own end.
TickEnds ==
    /\ tick = "running"
    /\ tick' = "over" /\ due' = due \cup {"tick"}
    /\ UNCHANGED <<cur, inp, flow, job, calls, reopen, entries, base, said, left>>

TickOnce == tick' = IF tick = None THEN "running" ELSE tick

\* _tick: the wait under way, or a new one.
Tick == tick' = IF tick = "running" THEN tick ELSE "running"

Calls(c, at) == calls' = [calls EXCEPT ![c] = at]

\* A call of the step: the job started when there is none, else looked at.
\* A call that finds it running reads the size of a file before it returns.
StepCall(c) ==
    /\ c \in left.callers /\ calls[c] = None /\ cur.kind = "progress" /\ job.at # "done"
    /\ Calls(c, cur.step)
    /\ IF job = NoJob
       THEN /\ job' = Begun(cur.step, IF cur.step = "importing" THEN flow.routes ELSE <<>>)
            /\ reopen' = IF cur.step = "importing" THEN None ELSE reopen
            /\ flow' = [flow EXCEPT !.again = TRUE]
       ELSE UNCHANGED <<job, reopen, flow>>
    /\ UNCHANGED <<cur, inp, tick, entries, base, said, left>>

\* ... then shows the progress screen, whatever another call showed meanwhile.
ShowProgress(c) ==
    /\ calls[c] \in {"importing", "extracting"}
    /\ Calls(c, None)
    /\ IF cur = Over THEN UNCHANGED <<cur, tick>>
       ELSE cur' = Waiting(calls[c]) /\ Tick
    /\ UNCHANGED <<inp, flow, job, due, reopen, entries, base, said, left>>

ReloadFailedStillTrains(f) == ShowRoute(f)

\* The import came to nothing: back to the lines, the database as it was.
ReloadFailed(f) == ShowRoute([f EXCEPT !.trains = FALSE])

\* The call that reads the job's end takes it, and steps on: the tick under
\* way is cancelled and the browser told, each of which brings a call.
StepEnds(c, coming) ==
    /\ c \in left.callers /\ calls[c] = None /\ cur.kind = "progress" /\ job.at = "done"
    /\ job' = NoJob
    /\ tick' = IF tick = "running" THEN "over" ELSE tick
    /\ due' = coming \cup (IF tick = "running" THEN {"tick", "screen"} ELSE {"screen"})
    /\ IF cur.step = "extracting" \/ job.added = {}
       THEN /\ IF cur.step = "importing" THEN ReloadFailed(flow) ELSE ShowRoute(flow)
            /\ UNCHANGED calls
       ELSE /\ LET out == Range(flow.routes) \ job.added IN
               flow' = [flow EXCEPT !.missing = out,
                                    !.told = IF out = {} THEN "nothing" ELSE "owed"]
            /\ cur' = Stepping("reload_done")
            /\ Calls(c, "reload_done")
    /\ UNCHANGED <<inp, reopen, entries, base, said, left>>

\* A slip: every call reopens by itself.
ReloadDoneEach(c) ==
    /\ calls[c] = "reload_done" \/ (c \in left.callers /\ calls[c] = None /\ cur = Stepping("reload_done"))
    /\ reopen' = c /\ Calls(c, "reopen")
    /\ UNCHANGED <<cur, inp, flow, job, tick, entries, base, said, left>>

\* async_step_reload_done: the first call reopens, the others wait for it; one
\* that comes when it is over shows the same screen.
ReloadDone(c) ==
    /\ calls[c] = "reload_done" \/ (c \in left.callers /\ calls[c] = None /\ cur = Stepping("reload_done"))
    /\ IF reopen = None THEN reopen' = c /\ Calls(c, "reopen")
       ELSE Calls(c, IF calls[reopen] = "reopen" THEN reopen ELSE None) /\ UNCHANGED reopen
    /\ UNCHANGED <<cur, inp, flow, job, tick, entries, base, said, left>>

\* _reopen_after_import: on to the screen the lines were asked for.
Reopened(c) ==
    /\ calls[c] = "reopen"
    /\ reopen' = IF \E d \in Callers : calls[d] = "reload_done" THEN reopen ELSE None
    /\ calls' = [d \in Callers |-> IF d = c \/ calls[d] = c THEN None ELSE calls[d]]
    /\ \/ /\ cur = Over
          /\ UNCHANGED <<cur, inp, flow, left>>
       \/ /\ cur # Over /\ left.faults > 0
          /\ left' = [left EXCEPT !.faults = @ - 1]
          /\ ReloadFailed(flow) /\ UNCHANGED inp
       \/ /\ cur # Over /\ flow.trains
          /\ IF flow.missing # {} THEN ShowOptions(flow, inp) ELSE NamePlans(flow, inp)
          /\ UNCHANGED left
       \/ /\ cur # Over /\ ~flow.trains
          /\ Direction([flow EXCEPT !.stopsError = flow.missing # {}], inp)
          /\ UNCHANGED left
    /\ UNCHANGED <<job, tick, due, entries, base, said>>

\* A call that comes once a form is drawn draws it again, without what was
\* said once.
LateCall(d) ==
    /\ d \in due /\ due' = due \ {d}
    /\ \/ cur = Form("route") /\ ShowRoute(flow) /\ UNCHANGED inp
       \/ cur \in {Form("stops"), Form("stops_train")} /\ ShowStops(flow, inp)
       \/ cur = Form("options_train") /\ ShowOptions(flow, inp)
       \/ /\ cur.kind \in {"form", "call", "over"}
          /\ cur.step \notin {"route", "stops", "stops_train", "options_train"}
          /\ UNCHANGED <<cur, inp, flow>>
    /\ UNCHANGED <<job, tick, calls, reopen, entries, base, said, left>>

\* The browser calls the step of the screen when the figure it shows changes.
Configure(c) ==
    \/ StepCall(c) /\ UNCHANGED due
    \/ StepEnds(c, due)
    \/ ReloadDone(c) /\ UNCHANGED due

\* Home Assistant calls it when a wait it was handed ends, on any screen, and
\* the browser when it is told of another.
DueCall(d) ==
    \/ /\ d \in due
       /\ \E c \in Callers : \/ StepCall(c) /\ due' = due \ {d}
                             \/ StepEnds(c, due \ {d})
                             \/ calls[c] = None /\ ReloadDone(c) /\ due' = due \ {d}
    \/ LateCall(d)

Proceeds(c) ==
    \/ calls[c] = "reload_done" /\ ReloadDone(c) /\ UNCHANGED due
    \/ ShowProgress(c) \/ Reopened(c)

-----------------------------------------------------------------------------
(* Other windows *)

Elsewhere == /\ left.others > 0
             /\ left' = [left EXCEPT !.others = @ - 1]

OtherSensor(l, ends, n) ==
    /\ Elsewhere
    /\ l \in Bus \cap base.lines /\ ends \in Rides[l]
    /\ ~NameInUse(n)
    /\ entries' = entries \cup {EntryOf([NoInputs EXCEPT !.route = l, !.from = ends[1],
                                             !.to = ends[2], !.loop = PairDirection(l, None)], n)}
    /\ UNCHANGED <<cur, inp, flow, progress, base, said>>

OtherImport(l) ==
    /\ Elsewhere
    /\ l \in Lines \ base.lines
    /\ base' = [built |-> TRUE, lines |-> base.lines \cup {l}]
    /\ UNCHANGED <<cur, inp, flow, progress, entries, said>>

-----------------------------------------------------------------------------
Answer ==
    \/ PickSource
    \/ \E l \in Lines \cup {AllTrains}, p \in BOOLEAN : PickRoute(l, p)
    \/ \E also \in SUBSET Lines : AskImport(also)
    \/ \E s \in Stops : PickOrigin(s) \/ PickDestination(s) \/ PickStation(s) \/ PickArrival(s)
    \/ \E w \in {"0", "1"} : PickTowards(w)
    \/ \E b \in BOOLEAN : AlsoAt(b) \/ NameSensors(b)
    \/ \E chosen \in SUBSET Trains, b \in BOOLEAN : TickLines(chosen, b)
    \/ \E n \in Names(SuggestedName(flow.label, Picked)), b \in BOOLEAN : NameSensor(n, b)
    \/ SameLine \/ NextJourney \/ Close

Runs == MakeSensor \/ Made \/ JobEnds \/ TickEnds \/ \E c \in Callers : Proceeds(c)

FlowNext ==
    \/ Answer \/ Runs
    \/ \E c \in Callers : Configure(c)
    \/ \E d \in {"tick", "screen"} : DueCall(d)
    \/ \E l \in Bus : \E ends \in Rides[l] :
          \E n \in Names(SuggestedName(l, ends)) : OtherSensor(l, ends, n)
    \/ \E l \in Lines : OtherImport(l)

\* The event loop runs what is under way; riders answer when they please.
FlowFairness ==
    /\ WF_flowvars(JobEnds) /\ WF_flowvars(TickEnds) /\ WF_flowvars(DueCall("tick"))
    /\ WF_flowvars(MakeSensor) /\ WF_flowvars(Made)
    /\ \A c \in Callers : WF_flowvars(Proceeds(c))

FlowSpec == FlowInit /\ [][FlowNext]_flowvars /\ FlowFairness

-----------------------------------------------------------------------------
(* Properties *)

FlowTypeOK ==
    /\ cur.kind \in {"form", "progress", "done", "call", "over"}
    /\ inp \in [route : Lines \cup {AllTrains, None}, from : Stops \cup {None},
                to : Stops \cup {None}, loop : {None, "0", "1"}, also : BOOLEAN,
                line : Trains \cup {None}, lines : SUBSET Trains]
    /\ job.added \subseteq Lines /\ job.at \in {None, "running", "done"}
    /\ tick \in {None, "running", "over"} /\ due \subseteq {"tick", "screen"}
    /\ reopen \in Callers \cup {None}
    /\ base.lines \subseteq Lines /\ (base.lines # {} => base.built)
    /\ \A e \in entries : e.ends \in Rides[IF e.route = AllTrains
                                           THEN CHOOSE l \in e.lines : TRUE ELSE e.route]

\* No two sensors have one name, whichever windows make them at once: the
\* sensor platform would drop the second.
NamesDistinct == \A a, b \in entries : a.name = b.name => a = b

Making == cur.kind = "call" /\ flow'.todo # flow.todo

\* A sensor made is of the journey just answered, outward or back: nothing of
\* an earlier journey of the same flow, of a line given up after its import
\* failed or of stations picked before gets into it.
OwnJourney(e) ==
    LET out == <<said.from, said.to>> IN
    /\ e.also = said.also
    /\ IF said.route \in Bus
       THEN /\ e.route = said.route /\ e.lines = {}
            /\ \/ e.ends = out /\ e.loop = PairDirection(e.route, said.way)
               \/ e.ends = Swap(out) /\ e.loop = PairDirection(e.route, None)
       ELSE /\ e.route = AllTrains /\ e.ends \in {out, Swap(out)}
            /\ Cardinality(e.lines) = 1 /\ e.lines \subseteq said.lines

EntryOfOneJourney ==
    [][Making => \A e \in entries' \ entries : OwnJourney(e)]_flowvars

\* The flow makes a sensor only on a line the database holds.
OnLinesLoaded ==
    [][Making => \A e \in entries' \ entries :
          e.lines \cup ({e.route} \ {AllTrains}) \subseteq base.lines]_flowvars

\* Lines asked for that did not come in are said on the first form drawn after
\* their import, whichever call draws it; and the form says so until the rider
\* answers it, unless a call comes once it is drawn, or a late call had begun
\* the import again.  The calls under way when it is drawn draw no other.
PartialIsTold ==
    [][/\ cur'.kind = "form" => flow'.told # "owed"
       /\ cur.kind = "form" /\ flow.told = "said" /\ flow'.told # "said" =>
             Answer \/ (\E d \in due : LateCall(d)) \/ flow.again]_flowvars

\* ... and no call takes it off the screen: what a call coming late does.
PartialStays ==
    [][cur.kind = "form" /\ flow.told = "said" /\ flow'.told # "said" => Answer]_flowvars

\* A progress screen is left: the chain of calls that redraw it never breaks.
ProgressLeft == cur.kind \in {"progress", "done"} ~> cur.kind \notin {"progress", "done"}
=============================================================================
