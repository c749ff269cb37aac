---------------------------- MODULE SourceSetup ----------------------------
(***************************************************************************)
(* One source name, from the screen that adds it to the one that removes   *)
(* it: its datasource entry, the copies the journeys of an older version   *)
(* still hold of its address, key and feeds, and its files.  The windows   *)
(* are config and options flows; the bootstrap is the background task of a *)
(* start.  A step ends where the code awaits.                              *)
(***************************************************************************)
EXTENDS Naturals, Sequences, FiniteSets, FiniteSetsExt

CONSTANTS
    Windows,      \* the flows open at once
    Adders,       \* those that add the source by its url
    Removers,     \* those that remove it
    Journeys,     \* journeys, numbered by their last modification
    Plain,        \* urls that answer a feed
    Envelopes,    \* urls that answer a zip of networks
    Networks,     \* the networks of an envelope
    Feeds,        \* realtime configurations a user may type, 0 for none
    MaxEdits,     \* how often users act
    MaxFaults,    \* how many entries fail to be made
    Held,         \* the copies a journey of an older version comes with
    Happens       \* which events a run allows

None == "none"          \* no url, no key, no network, no zip

\* Of any journeys one was modified last, and one first.
ASSUME SetupAssumption == /\ Journeys \subseteq Nat
                          /\ \A some \in (SUBSET Journeys) \ {{}} :
                                 \E first, last \in some :
                                    \A j \in some : first <= j /\ j <= last
                          /\ 0 \in Feeds /\ Feeds \subseteq Nat
                          /\ Adders \subseteq Windows /\ Removers \subseteq Windows
                          /\ None \notin Windows

Kept == "kept"          \* the file:// url of the source's own zip
Own == "own"            \* where a zip the user dropped comes from
Hosted == Plain \cup Envelopes
Urls == Hosted \cup {Kept}

ASSUME UrlAssumption == Hosted \cap {None, Kept, Own} = {}

VARIABLES
    entries,    \* the datasource entries of the name
    journeys,   \* per journey, the copies it holds, or Absent
    disk,       \* zip, the url its sidecar says, database, installed record
    lock,       \* the window holding source_lock, or None
    win,        \* where each window stands, and its inputs
    boot,       \* where the bootstrap of this start stands, and its locals
    edits, faults

vars == <<entries, journeys, disk, lock, win, boot, edits, faults>>

-----------------------------------------------------------------------------
(* Data *)

Copies == [url : Plain \cup {None}, key : {None, "key"}, feeds : Feeds]
ASSUME HeldAssumption == Held \subseteq Copies
NoCopies == [url |-> None, key |-> None, feeds |-> 0]
Absent == [url |-> "absent", key |-> None, feeds |-> 0]   \* no such journey

NoZip == [from |-> None, net |-> None]
OwnZip == [from |-> Own, net |-> None]
Zips == {NoZip} \cup [from : Hosted \cup {Own}, net : Networks \cup {None, "all"}]

Entry(u, inner, key, feeds) ==
    [url |-> u, inner |-> inner, key |-> key, feeds |-> feeds, on |-> TRUE, mode |-> "off"]

Listed == entries # <<>>
Read == {j \in Journeys : journeys[j] # Absent}

\* _static_seed: the first journey that carries a key speaks for the source.
StaticSeed == IF \E j \in Read : journeys[j].key = "key" THEN "key" ELSE None

\* _rt_seed: the journey modified last, of those with a feed.
RtSeed == LET donors == {j \in Read : journeys[j].feeds # 0}
          IN  IF donors = {} THEN 0 ELSE journeys[Max(donors)].feeds

UrlSeedBlank == LET with == {j \in Read : journeys[j].url # None}
                IN  IF with = {} THEN None ELSE journeys[Min(with)].url

\* The url the journeys kept, else the file:// url the import step gives.
UrlSeed == LET with == {j \in Read : journeys[j].url # None}
           IN  IF with = {} THEN Kept ELSE journeys[Min(with)].url

\* static_feed_config: the key a refresh asks with; "unsaid" is the entry of
\* an older version, without api_key_location.
StaticKey == IF Listed /\ entries[1].key # "unsaid" THEN entries[1].key ELSE StaticSeed

\* rt_feed_config: the feeds a journey runs with.
FeedsOf(j) == IF Listed THEN entries[1].feeds ELSE journeys[j].feeds

RtOptionsWhole(e, feeds) == [e EXCEPT !.feeds = feeds, !.mode = "off"]

\* _collect_source_rt_options: what was typed, and what these screens do not show.
RtOptions(e, feeds) == [e EXCEPT !.feeds = feeds]

\* _finish_static_refresh: the address unless left empty, the key replaced,
\* the policy beside the other options.
StaticRefresh(e, u, keyed, m) ==
    [e EXCEPT !.url = IF u = None THEN e.url ELSE u,
              !.key = IF keyed THEN "key" ELSE None,
              !.mode = m]

DroppedAnyway == [j \in Journeys |-> IF j \in Read THEN NoCopies ELSE journeys[j]]

DroppedKeys == [j \in Journeys |->
    IF Listed /\ j \in Read /\ journeys[j].key # None THEN NoCopies ELSE journeys[j]]

\* _drop_journey_copies, once the source's entry holds them.
Dropped == [j \in Journeys |->
               IF Listed /\ j \in Read THEN NoCopies ELSE journeys[j]]

CreatedAgain(e) == Append(entries, e)

\* async_step_import for a source: its unique_id, then the entry.
Created(e) == IF Listed THEN entries ELSE Append(entries, e)

\* remove_datasource: the database first, its record last.
RemovalOrder == <<"db", "zip", "said", "record">>

Gone == [zip |-> NoZip, said |-> None, db |-> FALSE, record |-> FALSE]
Remaining == {i \in DOMAIN RemovalOrder : disk[RemovalOrder[i]] # Gone[RemovalOrder[i]]}

Closed == [step |-> "menu", url |-> None, key |-> None, inner |-> None,
           via |-> None, new |-> FALSE, seed |-> Entry(None, None, None, 0), feeds |-> 0]

-----------------------------------------------------------------------------
(* Helpers of the actions *)

At(w, s) == win[w].step = s
Goes(w, s) == win' = [win EXCEPT ![w].step = s]
Edit(what) == what \in Happens /\ edits < MaxEdits /\ edits' = edits + 1

\* A window with a source's settings open has nothing to save them on once
\* the entry is gone, nor one about to take it away to take another.
WithoutEntry(ws) == [w \in Windows |->
    IF ws[w].step \in {"settings", "removed"} THEN Closed ELSE ws[w]]

Rest(changed) ==
    /\ "entries" \notin changed => UNCHANGED entries
    /\ "journeys" \notin changed => UNCHANGED journeys
    /\ "disk" \notin changed => UNCHANGED disk
    /\ "lock" \notin changed => UNCHANGED lock
    /\ "win" \notin changed => UNCHANGED win
    /\ "boot" \notin changed => UNCHANGED boot
    /\ "edits" \notin changed => UNCHANGED edits
    /\ "faults" \notin changed => UNCHANGED faults

Init ==
    /\ entries \in {<<>>, <<[Entry(Kept, None, "unsaid", 0) EXCEPT !.mode = "auto"]>>}
    /\ journeys \in [Journeys -> {Absent} \cup Held]
    /\ disk \in {Gone, [Gone EXCEPT !.zip = OwnZip],
                 [zip |-> OwnZip, said |-> None,
                  db |-> TRUE, record |-> TRUE]}
    /\ lock = None
    /\ win = [w \in Windows |-> Closed]
    /\ boot = [at |-> "off", found |-> FALSE, seed |-> Entry(None, None, None, 0)]
    /\ edits = 0 /\ faults = 0

-----------------------------------------------------------------------------
(* Adding the source *)

NameFreeAlways(u) == TRUE

\* _name_taken_elsewhere, its look at the zip and its sidecar: the same url
\* left a zip before, or the name is another source's.
NameFree(u) == disk.zip = NoZip \/ disk.said = u

\* The source_url screen is answered.  An entry of the name decides at once.
TypeUrl(w, u, keyed) ==
    /\ w \in Adders /\ (At(w, "menu") \/ At(w, "url"))
    /\ Edit("add")
    /\ Listed => entries[1].url = u
    /\ win' = [win EXCEPT ![w] = [@ EXCEPT
                   !.url = u, !.key = IF keyed THEN "key" ELSE None,
                   !.via = IF keyed THEN "key" ELSE "url",
                   !.new = ~Listed,
                   !.step = IF ~Listed THEN "naming" ELSE IF keyed THEN "key" ELSE "fetch"]]
    /\ Rest({"win", "edits"})

LookAtName(w) ==
    /\ At(w, "naming")
    /\ Goes(w, IF ~NameFree(win[w].url) THEN "url"
               ELSE IF win[w].via = "key" THEN "key" ELSE "fetch")
    /\ Rest({"win"})

TypeKey(w) == At(w, "key") /\ Goes(w, "fetch") /\ Rest({"win"})

\* The network asked for: on the first screen the inputs of an earlier pick
\* are not handed over, on the others they are.
Asked(w) == IF win[w].via = "url" THEN None ELSE win[w].inner

\* ensure_source_zip where no zip lies: the networks of an envelope offered
\* before it is fetched, the feed or the member asked for fetched.
Offers(w) ==
    /\ At(w, "fetch") /\ disk.zip = NoZip
    /\ win[w].url \in Envelopes /\ Asked(w) = None
    /\ Goes(w, "net")
    /\ Rest({"win"})

Fetched(u, asked) ==
    CASE u \in Envelopes /\ asked = None -> {"all"}
      [] u \in Envelopes /\ asked \in Networks -> {asked}
      [] OTHER -> {None}

Fetch(w) ==
    /\ At(w, "fetch") /\ disk.zip = NoZip /\ win[w].url \in Hosted
    /\ \E n \in Fetched(win[w].url, Asked(w)) :
          disk' = [disk EXCEPT !.zip = [from |-> win[w].url, net |-> n], !.said = None]
    /\ Goes(w, "note")
    /\ Rest({"win", "disk"})

\* The sidecar of the zip fetched, a write of its own.
NoteFetched(w) ==
    /\ At(w, "note")
    /\ disk' = [disk EXCEPT !.said = IF disk.zip = NoZip THEN @ ELSE win[w].url]
    /\ Goes(w, "fetch")
    /\ Rest({"win", "disk"})

\* The host does not answer, or there is no zip where one is to be read.
FetchFails(w) ==
    /\ At(w, "fetch") /\ disk.zip = NoZip
    /\ win[w].url \in Hosted => "fail" \in Happens
    /\ Goes(w, "url")
    /\ Rest({"win"})

\* _offer_or_take of the zip that lies there.
TakeZip(w) ==
    /\ At(w, "fetch") /\ disk.zip # NoZip
    /\ IF disk.zip.net # "all" THEN Goes(w, "rt") /\ UNCHANGED disk
       ELSE IF Asked(w) = None THEN Goes(w, "net") /\ UNCHANGED disk
       ELSE /\ disk' = [disk EXCEPT !.zip.net = Asked(w)]
            /\ Goes(w, "rt")
    /\ Rest({"win", "disk"})

PickNetwork(w, n) ==
    /\ At(w, "net")
    /\ win' = [win EXCEPT ![w].inner = n, ![w].via = "net", ![w].step = "fetch"]
    /\ Rest({"win"})

\* The source_zip screen: a zip in the folder, read by its file:// url.
TypeZip(w) ==
    /\ At(w, "menu") /\ Edit("add") /\ disk.zip # NoZip
    /\ win' = [win EXCEPT ![w] = [@ EXCEPT !.url = Kept, !.via = "url", !.step = "fetch"]]
    /\ Rest({"win", "edits"})

\* The source_rt screen is answered: async_ensure_datasource_entry looks for
\* the entry and reads its seeds, and the options are stored at once when
\* there is one.
TypeFeeds(w, f) ==
    /\ At(w, "rt")
    /\ IF Listed
       THEN /\ entries' = [entries EXCEPT ![1] = RtOptions(@, f)]
            /\ win' = [win EXCEPT ![w] = Closed]
       ELSE /\ win' = [win EXCEPT ![w] = [@ EXCEPT !.feeds = f, !.step = "create",
                   !.seed = Entry(win[w].url, win[w].inner, win[w].key, RtSeed)]]
            /\ UNCHANGED entries
    /\ Rest({"entries", "win"})

CreateSource(w) ==
    /\ At(w, "create")
    /\ entries' = Created(win[w].seed)
    /\ Goes(w, "store")
    /\ Rest({"entries", "win"})

\* _store_source_rt after its await: nothing to store on when the entry went.
StoreFeeds(w) ==
    /\ At(w, "store")
    /\ entries' = IF Listed THEN [entries EXCEPT ![1] = RtOptions(@, win[w].feeds)] ELSE entries
    /\ win' = [win EXCEPT ![w] = Closed]
    /\ Rest({"entries", "win"})

-----------------------------------------------------------------------------
(* Its lines, its settings *)

\* A line of the source is asked for: the import waits for the lock.
PickLine(w) ==
    /\ At(w, "menu") /\ Edit("import")
    /\ Listed /\ (disk.db \/ disk.zip # NoZip)
    /\ Goes(w, "wantImport")
    /\ Rest({"win", "edits"})

Import(w) ==
    /\ At(w, "wantImport") /\ lock = None
    /\ lock' = w
    /\ Goes(w, IF disk.db THEN "add" ELSE "build")
    /\ Rest({"lock", "win"})

\* import_routes: nothing comes in without a zip.
Imported(w) ==
    /\ At(w, "add") \/ At(w, "build")
    /\ IF disk.zip = NoZip
       THEN /\ win' = [win EXCEPT ![w] = Closed] /\ lock' = None
            /\ UNCHANGED disk
       ELSE /\ disk' = [disk EXCEPT !.db = TRUE]
            /\ Goes(w, IF At(w, "build") THEN "record" ELSE "journey")
            /\ lock' = IF At(w, "build") THEN w ELSE None
    /\ Rest({"disk", "lock", "win"})

\* record_installed, for a database that was not there.
RecordNew(w) ==
    /\ At(w, "record")
    /\ disk' = [disk EXCEPT !.record = TRUE]
    /\ lock' = None
    /\ Goes(w, "journey")
    /\ Rest({"disk", "lock", "win"})

\* The journey entry: journey_entry_data leaves the source's own fields out.
AddJourney(w) ==
    /\ At(w, "journey")
    /\ journeys' = IF Read = Journeys THEN journeys
                   ELSE [journeys EXCEPT ![Min(Journeys \ Read)] = NoCopies]
    /\ win' = [win EXCEPT ![w] = Closed]
    /\ Rest({"journeys", "win"})

OpenSettings(w) ==
    /\ At(w, "menu") /\ Edit("settings") /\ Listed
    /\ Goes(w, "settings")
    /\ Rest({"win", "edits"})

\* async_step_real_time, saved.
SaveFeeds(w, f) ==
    /\ At(w, "settings")
    /\ entries' = [entries EXCEPT ![1] = RtOptions(@, f)]
    /\ win' = [win EXCEPT ![w] = Closed]
    /\ Rest({"entries", "win"})

\* async_step_static_refresh, saved.
SavePolicy(w, u, keyed, m) ==
    /\ At(w, "settings")
    /\ entries' = [entries EXCEPT ![1] = StaticRefresh(@, u, keyed, m)]
    /\ win' = [win EXCEPT ![w] = Closed]
    /\ Rest({"entries", "win"})

\* The switch of the source.
Toggle ==
    /\ Edit("settings") /\ Listed
    /\ entries' = [entries EXCEPT ![1].on = ~@]
    /\ Rest({"entries", "edits"})

-----------------------------------------------------------------------------
(* Its removal *)

PickRemove(w) ==
    /\ w \in Removers /\ At(w, "menu") /\ Edit("remove") /\ Listed
    /\ Goes(w, "wantRemove")
    /\ Rest({"win", "edits"})

Remove(w) ==
    /\ At(w, "wantRemove") /\ lock = None
    /\ lock' = w
    /\ Goes(w, "remove")
    /\ Rest({"lock", "win"})

RemoveFile(w) ==
    /\ At(w, "remove")
    /\ \E i \in Remaining :
          /\ \A later \in Remaining : i <= later
          /\ LET f == RemovalOrder[i] IN disk' = [disk EXCEPT ![f] = Gone[f]]
    /\ Rest({"disk"})

RemoveGoesOn(w) ==
    /\ At(w, "remove") /\ Remaining # {} /\ "fail" \in Happens
    /\ lock' = None
    /\ Goes(w, "removed")
    /\ Rest({"lock", "win"})

\* A file that cannot go fails the removal, the entry stays.
RemoveFails(w) ==
    /\ At(w, "remove") /\ Remaining # {} /\ "fail" \in Happens
    /\ lock' = None
    /\ win' = [win EXCEPT ![w] = Closed]
    /\ Rest({"lock", "win"})

\* The entry is looked for as the lock is let go; taking it away unloads it
\* first.
RemovedFiles(w) ==
    /\ At(w, "remove") /\ Remaining = {}
    /\ lock' = None
    /\ IF Listed THEN Goes(w, "removed") ELSE win' = [win EXCEPT ![w] = Closed]
    /\ Rest({"lock", "win"})

\* The entry follows its files out.
RemoveEntry(w) ==
    /\ At(w, "removed") /\ Listed
    /\ entries' = Tail(entries)
    /\ win' = WithoutEntry(win)
    /\ Rest({"entries", "win"})

\* Home Assistant's own delete, of the source's entry or of a journey.
DeleteEntry ==
    /\ Edit("delete") /\ Listed
    /\ entries' = Tail(entries)
    /\ win' = WithoutEntry(win)
    /\ Rest({"entries", "edits", "win"})

DeleteJourney(j) ==
    /\ Edit("delete") /\ j \in Read
    /\ journeys' = [journeys EXCEPT ![j] = Absent]
    /\ Rest({"journeys", "edits"})

\* A window is closed on a screen; a job of its own goes on to its end.
Close(w) ==
    /\ win[w].step \in {"url", "key", "net", "rt", "settings", "journey"}
    /\ win' = [win EXCEPT ![w] = Closed]
    /\ Rest({"win"})

-----------------------------------------------------------------------------
(* The bootstrap of a start *)

\* async_setup_entry, of the first entry set up in this start.
BootStart ==
    /\ boot.at = "off" /\ (Listed \/ Read # {})
    /\ boot' = [boot EXCEPT !.at = "list"]
    /\ Rest({"boot"})

\* get_datasources: the databases in the folder.
BootList ==
    /\ boot.at = "list"
    /\ boot' = [boot EXCEPT !.at = "take", !.found = disk.db]
    /\ Rest({"boot"})

\* The key an older entry has not spoken for; then the entry looked for, and
\* the seeds of a new one read.
TakenKey(e) == [e EXCEPT !.key = IF @ = "unsaid" THEN StaticSeed ELSE @]

BootTake ==
    /\ boot.at = "take"
    /\ entries' = [i \in DOMAIN entries |-> TakenKey(entries[i])]
    /\ boot' = [boot EXCEPT
           !.at = IF ~Listed /\ (boot.found \/ Read # {}) THEN "create" ELSE "drop",
           !.seed = Entry(UrlSeed, None, StaticSeed, RtSeed)]
    /\ Rest({"entries", "boot"})

BootCreate ==
    /\ boot.at = "create"
    /\ entries' = Created(boot.seed)
    /\ boot' = [boot EXCEPT !.at = "drop"]
    /\ Rest({"entries", "boot"})

\* One source failing must not keep the others from their entry.
BootFails ==
    /\ boot.at = "create" /\ faults < MaxFaults
    /\ faults' = faults + 1
    /\ boot' = [boot EXCEPT !.at = "drop"]
    /\ Rest({"boot", "faults"})

BootDrop ==
    /\ boot.at = "drop"
    /\ journeys' = Dropped
    /\ boot' = [boot EXCEPT !.at = "done"]
    /\ Rest({"journeys", "boot"})

\* Home Assistant stops, or is killed, and starts: the entries and the files
\* are as they were.
Restart ==
    /\ boot.at # "off"
    /\ win' = [w \in Windows |-> Closed]
    /\ lock' = None
    /\ boot' = [at |-> "off", found |-> FALSE, seed |-> Entry(None, None, None, 0)]
    /\ IF boot.at = "done" THEN UNCHANGED faults
       ELSE faults < MaxFaults /\ faults' = faults + 1
    /\ Rest({"win", "lock", "boot", "faults"})

-----------------------------------------------------------------------------
Adding(w) ==
    \/ \E u \in Hosted, k \in BOOLEAN : TypeUrl(w, u, k)
    \/ LookAtName(w) \/ TypeKey(w) \/ Offers(w) \/ Fetch(w) \/ NoteFetched(w)
    \/ FetchFails(w) \/ TakeZip(w) \/ TypeZip(w)
    \/ \E n \in Networks : PickNetwork(w, n)
    \/ \E f \in Feeds : TypeFeeds(w, f)
    \/ CreateSource(w) \/ StoreFeeds(w)

Using(w) ==
    \/ PickLine(w) \/ Import(w) \/ Imported(w) \/ RecordNew(w) \/ AddJourney(w)
    \/ OpenSettings(w)
    \/ \E f \in Feeds : SaveFeeds(w, f)
    \/ \E u \in Plain \cup {None}, k \in BOOLEAN, m \in {"off", "auto"} : SavePolicy(w, u, k, m)

Removing(w) ==
    \/ PickRemove(w) \/ Remove(w) \/ RemoveFile(w) \/ RemoveFails(w)
    \/ RemovedFiles(w) \/ RemoveEntry(w)

Booting == BootStart \/ BootList \/ BootTake \/ BootCreate \/ BootDrop

Next ==
    \/ \E w \in Windows : Adding(w) \/ Using(w) \/ Removing(w) \/ Close(w)
    \/ Toggle \/ DeleteEntry \/ \E j \in Journeys : DeleteJourney(j)
    \/ Booting \/ BootFails \/ Restart

\* The event loop runs the bootstrap to its end, and Home Assistant is
\* started again sooner or later.
Spec == /\ Init /\ [][Next]_vars
        /\ WF_vars(Booting)
        /\ WF_vars(boot.at = "done" /\ Restart)

-----------------------------------------------------------------------------
(* Properties *)

TypeOK ==
    /\ \A i \in DOMAIN entries :
          entries[i] \in [url : Urls, inner : Networks \cup {None},
                          key : {None, "key", "unsaid"}, feeds : Feeds,
                          on : BOOLEAN, mode : {"off", "auto"}]
    /\ journeys \in [Journeys -> {Absent} \cup Copies]
    /\ disk \in [zip : Zips, said : Urls \cup {None}, db : BOOLEAN, record : BOOLEAN]
    /\ lock \in Windows \cup {None}
    /\ boot.at \in {"off", "list", "take", "create", "drop", "done"}

\* However many windows and the bootstrap make the entry of a source at once,
\* there is one.
OneEntryPerSource == Len(entries) <= 1

\* A name found free is that of a source read from its own url: the files of
\* a source are found by its name alone, a zip left there by another one, or
\* by an addition given up, is not taken for its own.
NewSourceOwnsItsZip ==
    [][\A w \in Windows : At(w, "create") /\ win'[w].step = "store"
          /\ win[w].new /\ win[w].url \in Hosted /\ disk.zip # NoZip
       => disk.zip.from = win[w].url]_vars

\* What the journeys held is taken over, whatever step of a start a restart
\* falls on and whichever entry fails: without a user's act a refresh keeps the
\* key it asks with, and no journey loses its feeds.
TakeOverKeeps ==
    [][win' = win /\ edits' = edits
       => /\ StaticKey = "key" => StaticKey' = "key"
          /\ \A j \in Read : FeedsOf(j) # 0 => FeedsOf(j)' # 0]_vars

\* Two screens of a source open at once, and its switch: each save keeps what
\* the others set.
SavesMerge ==
    [][entries # <<>> /\ entries' # <<>> =>
         LET a == entries[1]  b == entries'[1]
         IN  \/ b = [a EXCEPT !.feeds = b.feeds]
             \/ b = [a EXCEPT !.on = b.on]
             \/ b = [a EXCEPT !.url = b.url, !.key = b.key, !.mode = b.mode]]_vars

\* A removal stopped half way, by a file that cannot go or a restart, can be
\* run again, whatever was imported as the one before ended: no step but a
\* user's own delete takes the entry from a name that holds the record of an
\* edition whose database is gone.
EntryLeavesLast ==
    [][disk.record /\ ~disk.db /\ Listed /\ entries' = <<>> => edits' # edits]_vars

\* In the end no journey keeps its own copies.
TakenOver == <>[](\A j \in Read : journeys[j] = NoCopies)
=============================================================================
