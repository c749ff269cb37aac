------------------------- MODULE SourceSetupProofs -------------------------
(***************************************************************************)
(* What SourceSetup keeps for any windows, urls, journeys and number of    *)
(* acts and faults.  A step changes the entries in one of four ways: it    *)
(* leaves them, makes one where there is none, rewrites the one there is,  *)
(* or takes it away.  Kinds names the windows and seeds each of these      *)
(* starts from, and each action has one lemma.                             *)
(***************************************************************************)
EXTENDS SourceSetup, TLAPS

EntryType == [url : Urls, inner : Networks \cup {None}, key : {None, "key", "unsaid"},
              feeds : Feeds, on : BOOLEAN, mode : {"off", "auto"}]

\* The seeds of a new entry: what the journeys or the screens say of its key.
Seeds == {e \in EntryType : e.key # "unsaid"}
Blank == Entry(None, None, None, 0)

Screens == {"menu", "url", "naming", "key", "net", "fetch", "note", "rt", "create",
            "store", "wantImport", "add", "build", "record", "journey", "settings",
            "wantRemove", "remove", "removed"}
Addressed == {"naming", "key", "net", "fetch", "note", "rt"}

WindowType == [step : Screens, url : Urls \cup {None}, key : {None, "key"},
               inner : Networks \cup {None}, via : {None, "key", "url", "net"},
               new : BOOLEAN, seed : Seeds \cup {Blank}, feeds : Feeds]

WindowOK(x) ==
    /\ x \in WindowType
    /\ x.step \in Addressed => x.url \in Urls
    /\ x.step = "note" => x.url \in Hosted
    /\ x.step = "create" => x.seed \in Seeds

BootOK ==
    /\ boot \in [at : {"off", "list", "take", "create", "drop", "done"},
                 found : BOOLEAN, seed : Seeds \cup {Blank}]
    /\ boot.at = "create" => boot.seed \in Seeds

EntriesOK == entries = <<>> \/ \E e \in EntryType : entries = <<e>>

JourneysOK == journeys \in [Journeys -> {Absent} \cup Copies]

DiskOK == disk \in [zip : Zips, said : Urls \cup {None}, db : BOOLEAN, record : BOOLEAN]

WindowsOK == /\ win \in [Windows -> WindowType]
             /\ \A w \in Windows : WindowOK(win[w])

Kinds ==
    /\ EntriesOK /\ JourneysOK /\ DiskOK /\ WindowsOK /\ BootOK
    /\ lock \in Windows \cup {None}
    /\ edits \in Nat

\* From the moment a start has looked for the entry, its key is spoken for;
\* the seeds it then read hold what the journeys still hold.
TakenSoFar ==
    /\ boot.at \in {"create", "drop", "done"} /\ Listed => entries[1].key # "unsaid"
    /\ boot.at = "create" =>
          /\ StaticSeed = "key" => boot.seed.key = "key"
          /\ (\E j \in Read : journeys[j].feeds # 0) => boot.seed.feeds # 0

IInv == Kinds /\ TakenSoFar

\* What SavesMerge and TakeOverKeeps say of a step.
Merges == entries # <<>> /\ entries' # <<>> =>
    LET a == entries[1]  b == entries'[1]
    IN  \/ b = [a EXCEPT !.feeds = b.feeds]
        \/ b = [a EXCEPT !.on = b.on]
        \/ b = [a EXCEPT !.url = b.url, !.key = b.key, !.mode = b.mode]

Keeps == win' = win /\ edits' = edits
    => /\ StaticKey = "key" => StaticKey' = "key"
       /\ \A j \in Read : FeedsOf(j) # 0 => FeedsOf(j)' # 0

USE SetupAssumption, UrlAssumption

----------------------------------------------------------------------------
(* Entries *)

LEMMA EntriesAre ==
    ASSUME EntriesOK
    PROVE  /\ Listed => /\ entries[1] \in EntryType /\ Len(entries) = 1
                        /\ DOMAIN entries = {1} /\ Tail(entries) = <<>>
           /\ ~Listed => entries = <<>>
           /\ Len(entries) <= 1
<1>1. CASE entries = <<>>
  BY <1>1 DEF Listed
<1>2. CASE entries # <<>>
  <2>1. PICK e \in EntryType : entries = <<e>>
    BY <1>2 DEF EntriesOK
  <2>2. entries[1] = e /\ Len(entries) = 1 /\ DOMAIN entries = {1} /\ Tail(entries) = <<>>
    BY <2>1
  <2>3. QED
    BY <1>2, <2>1, <2>2 DEF Listed
<1>3. QED
  BY <1>1, <1>2

LEMMA OneEntry ==
    ASSUME EntriesOK, NEW e
    PROVE  /\ Created(e) = IF Listed THEN entries ELSE <<e>>
           /\ Listed => [entries EXCEPT ![1] = e] = <<e>>
<1>1. CASE ~Listed
  BY <1>1, EntriesAre DEF Created
<1>2. CASE Listed
  <2>1. PICK f \in EntryType : entries = <<f>>
    BY <1>2 DEF EntriesOK, Listed
  <2>2. QED
    BY <1>2, <2>1 DEF Created
<1>3. QED
  BY <1>1, <1>2

\* A step that leaves entries, journeys and bootstrap alone.
LEMMA QuietStep ==
    ASSUME IInv, UNCHANGED <<entries, journeys, boot>>
    PROVE  /\ EntriesOK' /\ JourneysOK' /\ BootOK' /\ TakenSoFar'
           /\ Merges /\ Keeps
<1>1. EntriesOK' /\ JourneysOK' /\ BootOK'
  BY DEF IInv, Kinds, EntriesOK, JourneysOK, BootOK
<1>2. Listed' = Listed /\ StaticSeed' = StaticSeed /\ Read' = Read /\ StaticKey' = StaticKey
  BY DEF Listed, StaticSeed, Read, StaticKey
<1>3. TakenSoFar'
  BY <1>2 DEF IInv, TakenSoFar
<1>4. Merges
  <2>1. entries # <<>> => entries[1] \in EntryType
    BY EntriesAre DEF IInv, Kinds, Listed
  <2>2. QED
    BY <2>1 DEF Merges, EntryType
<1>5. Keeps
  BY <1>2 DEF Keeps, FeedsOf
<1>6. QED
  BY <1>1, <1>3, <1>4, <1>5

\* The entry is rewritten: it may be kept unsaid, not made so.
LEMMA RewriteStep ==
    ASSUME IInv, Listed, UNCHANGED <<journeys, boot>>,
           NEW e \in EntryType, entries' = [entries EXCEPT ![1] = e],
           e.key = "unsaid" => entries[1].key = "unsaid"
    PROVE  EntriesOK' /\ JourneysOK' /\ BootOK' /\ TakenSoFar' /\ entries'[1] = e /\ Listed'
<1>1. entries' = <<e>>
  BY OneEntry DEF IInv, Kinds
<1>2. EntriesOK' /\ entries'[1] = e /\ Listed'
  BY <1>1 DEF EntriesOK, Listed
<1>3. JourneysOK' /\ BootOK'
  BY DEF IInv, Kinds, JourneysOK, BootOK
<1>4. StaticSeed' = StaticSeed /\ Read' = Read
  BY DEF StaticSeed, Read
<1>5. TakenSoFar'
  BY <1>2, <1>4 DEF IInv, TakenSoFar
<1>6. QED
  BY <1>2, <1>3, <1>5

\* The entry is made where there is none.
LEMMA MakeStep ==
    ASSUME IInv, UNCHANGED journeys, NEW e \in Seeds, entries' = Created(e),
           boot' = boot \/ (boot.at = "create" /\ boot' = [boot EXCEPT !.at = "drop"])
    PROVE  EntriesOK' /\ JourneysOK' /\ BootOK' /\ TakenSoFar' /\ Merges
<1>1. CASE Listed
  <2>1. entries' = entries
    BY <1>1 DEF Created
  <2>2. Merges /\ EntriesOK' /\ JourneysOK'
    <3>1. entries[1] \in EntryType
      BY <1>1, EntriesAre DEF IInv, Kinds
    <3>2. QED
      BY <2>1, <3>1 DEF Merges, EntryType, IInv, Kinds, EntriesOK, JourneysOK
  <2>3. BootOK' /\ TakenSoFar'
    BY <2>1 DEF IInv, Kinds, BootOK, TakenSoFar, Listed, StaticSeed, Read
  <2>4. QED
    BY <2>2, <2>3
<1>2. CASE ~Listed
  <2>1. entries' = <<e>>
    BY <1>2, OneEntry DEF IInv, Kinds
  <2>2. EntriesOK' /\ entries'[1].key # "unsaid" /\ Merges
    BY <1>2, <2>1 DEF EntriesOK, Seeds, Merges, Listed
  <2>3. JourneysOK' /\ BootOK'
    BY DEF IInv, Kinds, JourneysOK, BootOK
  <2>4. TakenSoFar'
    BY <2>2 DEF IInv, Kinds, BootOK, TakenSoFar, StaticSeed, Read
  <2>5. QED
    BY <2>2, <2>3, <2>4
<1>3. QED
  BY <1>1, <1>2

\* The entry goes.
LEMMA GoneStep ==
    ASSUME IInv, UNCHANGED <<journeys, boot>>,
           entries' = IF Listed THEN Tail(entries) ELSE entries
    PROVE  EntriesOK' /\ JourneysOK' /\ BootOK' /\ TakenSoFar' /\ Merges
<1>1. entries' = <<>>
  BY EntriesAre DEF IInv, Kinds
<1>2. ~Listed' /\ StaticSeed' = StaticSeed /\ Read' = Read
  BY <1>1 DEF Listed, StaticSeed, Read
<1>3. EntriesOK' /\ JourneysOK' /\ BootOK' /\ Merges
  BY <1>1 DEF IInv, Kinds, EntriesOK, JourneysOK, BootOK, Merges
<1>4. TakenSoFar'
  BY <1>2 DEF IInv, TakenSoFar
<1>5. QED
  BY <1>3, <1>4

\* A journey comes without copies, or goes.
LEMMA JourneyStep ==
    ASSUME IInv, UNCHANGED <<entries, boot>>, NEW j \in Journeys,
           journeys' = [journeys EXCEPT ![j] = NoCopies] \/ journeys' = [journeys EXCEPT ![j] = Absent]
    PROVE  EntriesOK' /\ JourneysOK' /\ BootOK' /\ TakenSoFar' /\ Merges
<1>1. NoCopies \in Copies
  BY DEF NoCopies, Copies, None
<1>2. JourneysOK'
  BY <1>1 DEF IInv, Kinds, JourneysOK
<1>3. EntriesOK' /\ BootOK'
  BY DEF IInv, Kinds, EntriesOK, BootOK
<1>4. \A i \in Journeys : /\ journeys'[i].key = "key" => journeys[i].key = "key" /\ i \in Read
                          /\ i \in Read' /\ journeys'[i].feeds # 0 =>
                                journeys[i].feeds # 0 /\ i \in Read
  BY DEF IInv, Kinds, JourneysOK, Read, NoCopies, Absent, None
<1>5. /\ StaticSeed' = "key" => StaticSeed = "key"
      /\ (\E i \in Read' : journeys'[i].feeds # 0) => \E i \in Read : journeys[i].feeds # 0
  BY <1>4 DEF StaticSeed, Read, None
<1>6. TakenSoFar'
  BY <1>5 DEF IInv, TakenSoFar, Listed
<1>7. Merges
  <2>1. entries # <<>> => entries[1] \in EntryType
    BY EntriesAre DEF IInv, Kinds, Listed
  <2>2. QED
    BY <2>1 DEF Merges, EntryType
<1>8. QED
  BY <1>2, <1>3, <1>6, <1>7

----------------------------------------------------------------------------
(* Windows, files and the rest *)

LEMMA ClosedOK == Closed \in WindowType /\ Closed.step = "menu" /\ WindowOK(Closed)
BY DEF WindowOK, WindowType, Closed, Screens, Addressed, Blank, Entry, None

\* A step of window w leaves the others alone.
LEMMA WindowStep ==
    ASSUME WindowsOK, NEW w \in Windows, NEW x, WindowOK(x), win' = [win EXCEPT ![w] = x]
    PROVE  WindowsOK' /\ win'[w] = x
BY DEF WindowsOK, WindowOK

LEMMA GoesStep ==
    ASSUME WindowsOK, NEW w \in Windows, NEW s \in Screens, Goes(w, s),
           s \in Addressed => win[w].url \in Urls,
           s = "note" => win[w].url \in Hosted,
           s = "create" => win[w].seed \in Seeds
    PROVE  WindowsOK' /\ win'[w].step = s
<1> DEFINE x == [win[w] EXCEPT !.step = s]
<1>1. win[w] \in WindowType
  BY DEF WindowsOK
<1>2. x \in WindowType /\ x.step = s /\ x.url = win[w].url /\ x.seed = win[w].seed
  BY <1>1 DEF WindowType
<1>3. WindowOK(x)
  BY <1>2 DEF WindowOK
<1>4. win' = [win EXCEPT ![w] = x]
  BY DEF Goes
<1>5. QED
  BY <1>2, <1>3, <1>4, WindowStep

LEMMA CloseStep ==
    ASSUME WindowsOK, NEW w \in Windows, win' = [win EXCEPT ![w] = Closed]
    PROVE  WindowsOK' /\ win'[w].step = "menu"
BY WindowStep, ClosedOK

\* A window whose screen changed is another.
LEMMA OtherWindows ==
    ASSUME NEW w \in Windows, win'[w].step # win[w].step
    PROVE  Keeps
BY DEF Keeps

\* The whole of the invariant, from the parts a window's step may change.
LEMMA QuietWindow ==
    ASSUME IInv, UNCHANGED <<entries, journeys, boot>>,
           WindowsOK', DiskOK', lock' \in Windows \cup {None}, edits' \in Nat
    PROVE  IInv' /\ Merges /\ Keeps
BY QuietStep DEF IInv, Kinds

LEMMA Same ==
    ASSUME IInv
    PROVE  /\ UNCHANGED disk => DiskOK'
           /\ UNCHANGED lock => lock' \in Windows \cup {None}
           /\ UNCHANGED edits => edits' \in Nat
           /\ UNCHANGED win => WindowsOK'
           /\ \A what : Edit(what) => edits' \in Nat /\ edits' # edits
BY DEF IInv, Kinds, DiskOK, WindowsOK, Edit

----------------------------------------------------------------------------
(* Adding the source *)

LEMMA Addressing ==
    ASSUME NEW y \in WindowType, NEW u \in Urls, NEW k \in {None, "key"},
           NEW v \in {"key", "url"}, NEW b \in BOOLEAN, NEW s \in Addressed \ {"note"}
    PROVE  WindowOK([y EXCEPT !.url = u, !.key = k, !.via = v, !.new = b, !.step = s])
<1> DEFINE x == [y EXCEPT !.url = u, !.key = k, !.via = v, !.new = b]
           z == [x EXCEPT !.step = s]
<1>1. x \in WindowType /\ x.url = u
  BY DEF WindowType
<1>2. s \in Screens
  BY DEF Addressed, Screens
<1>3. z \in WindowType /\ z.url = u /\ z.step = s
  BY <1>1, <1>2 DEF WindowType
<1>4. WindowOK(z)
  BY <1>3 DEF WindowOK, Addressed
<1>5. QED
  BY <1>4

LEMMA TypeUrlStep ==
    ASSUME IInv, NEW w \in Windows, NEW u \in Hosted, NEW k \in BOOLEAN, TypeUrl(w, u, k)
    PROVE  IInv' /\ Merges /\ Keeps
<1>1. PICK q \in {None, "key"}, v \in {"key", "url"}, b \in BOOLEAN, s \in Addressed \ {"note"} :
         /\ q = IF k THEN "key" ELSE None
         /\ v = IF k THEN "key" ELSE "url"
         /\ b = ~Listed
         /\ s = IF ~Listed THEN "naming" ELSE IF k THEN "key" ELSE "fetch"
  BY Zenon DEF Addressed, None
<1> DEFINE x == [win[w] EXCEPT !.url = u, !.key = q, !.via = v, !.new = b, !.step = s]
<1>2. win' = [win EXCEPT ![w] = x]
  BY <1>1, Zenon DEF TypeUrl
<1>3. WindowOK(x)
  BY Addressing DEF IInv, Kinds, WindowsOK, Urls
<1>4. WindowsOK'
  BY <1>2, <1>3, WindowStep DEF IInv, Kinds
<1>5. UNCHANGED <<entries, journeys, disk, lock, boot>>
  BY DEF TypeUrl, Rest
<1>6. edits' \in Nat
  BY Same DEF TypeUrl
<1>7. QED
  BY <1>4, <1>5, <1>6, QuietWindow, Same

LEMMA LookAtNameStep ==
    ASSUME IInv, NEW w \in Windows, LookAtName(w)
    PROVE  IInv' /\ Merges /\ Keeps
<1>1. win[w].url \in Urls
  BY DEF IInv, Kinds, WindowsOK, WindowOK, LookAtName, At, Addressed
<1>2. WindowsOK'
  <2>1. PICK s \in {"url", "key", "fetch"} : Goes(w, s)
    BY DEF LookAtName
  <2>2. QED
    BY <1>1, <2>1, GoesStep DEF IInv, Kinds, Screens
<1>3. UNCHANGED <<entries, journeys, disk, lock, boot, edits>>
  BY DEF LookAtName, Rest
<1>4. QED
  BY <1>2, <1>3, QuietWindow, Same

LEMMA TypeKeyStep ==
    ASSUME IInv, NEW w \in Windows, TypeKey(w)
    PROVE  IInv' /\ Merges /\ Keeps
<1>1. win[w].url \in Urls
  BY DEF IInv, Kinds, WindowsOK, WindowOK, TypeKey, At, Addressed
<1>2. WindowsOK'
  BY <1>1, GoesStep DEF TypeKey, IInv, Kinds, Screens
<1>3. UNCHANGED <<entries, journeys, disk, lock, boot, edits>>
  BY DEF TypeKey, Rest
<1>4. QED
  BY <1>2, <1>3, QuietWindow, Same

LEMMA OffersStep ==
    ASSUME IInv, NEW w \in Windows, Offers(w)
    PROVE  IInv' /\ Merges /\ Keeps
<1>1. win[w].url \in Urls
  BY DEF IInv, Kinds, WindowsOK, WindowOK, Offers, At, Addressed
<1>2. WindowsOK'
  BY <1>1, GoesStep DEF Offers, IInv, Kinds, Screens
<1>3. UNCHANGED <<entries, journeys, disk, lock, boot, edits>>
  BY DEF Offers, Rest
<1>4. QED
  BY <1>2, <1>3, QuietWindow, Same

LEMMA FetchStep ==
    ASSUME IInv, NEW w \in Windows, Fetch(w)
    PROVE  IInv' /\ Merges /\ Keeps
<1>1. win[w].url \in Hosted
  BY DEF Fetch
<1>2. WindowsOK'
  BY <1>1, GoesStep DEF Fetch, IInv, Kinds, Screens, Urls
<1>3. DiskOK'
  <2>1. PICK n \in Fetched(win[w].url, Asked(w)) :
           disk' = [disk EXCEPT !.zip = [from |-> win[w].url, net |-> n], !.said = None]
    BY DEF Fetch
  <2>2. n \in Networks \cup {None, "all"}
    BY <2>1 DEF Fetched
  <2>3. [from |-> win[w].url, net |-> n] \in Zips
    BY <1>1, <2>2 DEF Zips
  <2>4. QED
    BY <2>1, <2>3 DEF IInv, Kinds, DiskOK
<1>4. UNCHANGED <<entries, journeys, lock, boot, edits>>
  BY DEF Fetch, Rest
<1>5. QED
  BY <1>2, <1>3, <1>4, QuietWindow, Same

LEMMA NoteFetchedStep ==
    ASSUME IInv, NEW w \in Windows, NoteFetched(w)
    PROVE  IInv' /\ Merges /\ Keeps
<1>1. win[w].url \in Urls
  BY DEF IInv, Kinds, WindowsOK, WindowOK, NoteFetched, At, Addressed
<1>2. WindowsOK'
  BY <1>1, GoesStep DEF NoteFetched, IInv, Kinds, Screens
<1>3. DiskOK'
  BY <1>1 DEF NoteFetched, IInv, Kinds, DiskOK
<1>4. UNCHANGED <<entries, journeys, lock, boot, edits>>
  BY DEF NoteFetched, Rest
<1>5. QED
  BY <1>2, <1>3, <1>4, QuietWindow, Same

LEMMA FetchFailsStep ==
    ASSUME IInv, NEW w \in Windows, FetchFails(w)
    PROVE  IInv' /\ Merges /\ Keeps
<1>1. WindowsOK'
  BY GoesStep DEF FetchFails, IInv, Kinds, Screens, Addressed
<1>2. UNCHANGED <<entries, journeys, disk, lock, boot, edits>>
  BY DEF FetchFails, Rest
<1>3. QED
  BY <1>1, <1>2, QuietWindow, Same

LEMMA TakeZipStep ==
    ASSUME IInv, NEW w \in Windows, TakeZip(w)
    PROVE  IInv' /\ Merges /\ Keeps
<1>1. win[w].url \in Urls /\ win[w].inner \in Networks \cup {None}
  BY DEF IInv, Kinds, WindowsOK, WindowOK, WindowType, TakeZip, At, Addressed
<1>2. WindowsOK'
  <2>1. PICK s \in {"rt", "net"} : Goes(w, s)
    BY DEF TakeZip
  <2>2. QED
    BY <1>1, <2>1, GoesStep DEF IInv, Kinds, Screens
<1>3. DiskOK'
  <2>1. CASE UNCHANGED disk
    BY <2>1, Same
  <2>2. CASE disk' = [disk EXCEPT !.zip.net = Asked(w)]
    <3>1. disk.zip \in [from : Hosted \cup {Own}, net : Networks \cup {None, "all"}]
      BY DEF IInv, Kinds, DiskOK, Zips, TakeZip
    <3>2. Asked(w) \in Networks \cup {None}
      BY <1>1 DEF Asked
    <3>3. [disk.zip EXCEPT !.net = Asked(w)] \in Zips
      BY <3>1, <3>2 DEF Zips
    <3>4. QED
      BY <2>2, <3>3 DEF IInv, Kinds, DiskOK
  <2>3. QED
    BY <2>1, <2>2 DEF TakeZip
<1>4. UNCHANGED <<entries, journeys, lock, boot, edits>>
  BY DEF TakeZip, Rest
<1>5. QED
  BY <1>2, <1>3, <1>4, QuietWindow, Same

LEMMA PickNetworkStep ==
    ASSUME IInv, NEW w \in Windows, NEW n \in Networks, PickNetwork(w, n)
    PROVE  IInv' /\ Merges /\ Keeps
<1> DEFINE x == [win[w] EXCEPT !.inner = n, !.via = "net", !.step = "fetch"]
<1>1. win[w].url \in Urls /\ win[w] \in WindowType
  BY DEF IInv, Kinds, WindowsOK, WindowOK, PickNetwork, At, Addressed
<1>2. x \in WindowType /\ x.url = win[w].url /\ x.step = "fetch"
  BY <1>1 DEF WindowType, Screens
<1>3. WindowOK(x)
  BY <1>1, <1>2 DEF WindowOK
<1>4. win' = [[[win EXCEPT ![w].inner = n] EXCEPT ![w].via = "net"] EXCEPT ![w].step = "fetch"]
  BY DEF PickNetwork
<1>5. win' = [win EXCEPT ![w] = x]
  BY <1>4 DEF IInv, Kinds, WindowsOK
<1>6. WindowsOK'
  BY <1>3, <1>5, WindowStep DEF IInv, Kinds
<1>7. UNCHANGED <<entries, journeys, disk, lock, boot, edits>>
  BY DEF PickNetwork, Rest
<1>8. QED
  BY <1>6, <1>7, QuietWindow, Same

LEMMA TypeZipStep ==
    ASSUME IInv, NEW w \in Windows, TypeZip(w)
    PROVE  IInv' /\ Merges /\ Keeps
<1> DEFINE x == [win[w] EXCEPT !.url = Kept, !.via = "url", !.step = "fetch"]
<1>1. win[w] \in WindowType
  BY DEF IInv, Kinds, WindowsOK
<1>2. x \in WindowType /\ x.url = Kept /\ x.step = "fetch"
  BY <1>1 DEF WindowType, Screens, Urls
<1>3. WindowOK(x)
  BY <1>2 DEF WindowOK, Urls
<1>4. win' = [win EXCEPT ![w] = x]
  BY DEF TypeZip
<1>5. WindowsOK'
  BY <1>3, <1>4, WindowStep DEF IInv, Kinds
<1>6. UNCHANGED <<entries, journeys, disk, lock, boot>>
  BY DEF TypeZip, Rest
<1>7. edits' \in Nat
  BY Same DEF TypeZip
<1>8. QED
  BY <1>5, <1>6, <1>7, QuietWindow, Same

\* What the journeys hold, as the seeds of an entry.
LEMMA LastFirst ==
    ASSUME NEW some \in SUBSET Journeys, some # {}
    PROVE  Max(some) \in some /\ Min(some) \in some
<1>1. PICK first \in some, last \in some : \A j \in some : first <= j /\ j <= last
  BY DEF SetupAssumption
<1>2. \A j \in some : last >= j
  BY <1>1, SetupAssumption DEF SetupAssumption
<1>3. QED
  BY <1>1, <1>2 DEF Max, Min

LEMMA SeedsHeld ==
    ASSUME JourneysOK
    PROVE  /\ StaticSeed \in {None, "key"}
           /\ RtSeed \in Feeds
           /\ (\E j \in Read : journeys[j].feeds # 0) => RtSeed # 0
           /\ UrlSeed \in Urls
<1>1. StaticSeed \in {None, "key"}
  BY DEF StaticSeed
<1>2. \A j \in Read : j \in Journeys /\ journeys[j] \in Copies
  BY DEF JourneysOK, Read
<1>3. RtSeed \in Feeds /\ ((\E j \in Read : journeys[j].feeds # 0) => RtSeed # 0)
  <2> DEFINE donors == {j \in Read : journeys[j].feeds # 0}
  <2>1. CASE donors = {}
    BY <2>1, SetupAssumption DEF RtSeed, SetupAssumption
  <2>2. CASE donors # {}
    <3>1. Max(donors) \in donors
      BY <1>2, <2>2, LastFirst
    <3>2. RtSeed = journeys[Max(donors)].feeds
      BY <2>2 DEF RtSeed
    <3>3. QED
      BY <1>2, <3>1, <3>2 DEF Copies
  <2>3. QED
    BY <2>1, <2>2
<1>4. UrlSeed \in Urls
  <2> DEFINE with == {j \in Read : journeys[j].url # None}
  <2>1. CASE with = {}
    BY <2>1 DEF UrlSeed, Urls
  <2>2. CASE with # {}
    <3>1. Min(with) \in with
      BY <1>2, <2>2, LastFirst
    <3>2. UrlSeed = journeys[Min(with)].url
      BY <2>2 DEF UrlSeed
    <3>3. QED
      BY <1>2, <3>1, <3>2 DEF Copies, Urls, Hosted
  <2>3. QED
    BY <2>1, <2>2
<1>5. QED
  BY <1>1, <1>3, <1>4

LEMMA SeedOK ==
    ASSUME NEW u \in Urls, NEW n \in Networks \cup {None}, NEW k \in {None, "key"},
           NEW f \in Feeds
    PROVE  Entry(u, n, k, f) \in Seeds
<1>1. Entry(u, n, k, f) \in EntryType
  BY DEF Entry, EntryType, None
<1>2. Entry(u, n, k, f).key = k /\ k # "unsaid"
  BY DEF Entry, None
<1>3. QED
  BY <1>1, <1>2 DEF Seeds

\* The feeds of the entry replaced.
LEMMA FeedsReplaced ==
    ASSUME IInv, Listed, UNCHANGED <<journeys, boot>>, NEW f \in Feeds,
           entries' = [entries EXCEPT ![1] = RtOptions(@, f)]
    PROVE  EntriesOK' /\ JourneysOK' /\ BootOK' /\ TakenSoFar' /\ Merges
<1> DEFINE e == RtOptions(entries[1], f)
<1>1. entries[1] \in EntryType
  BY EntriesAre DEF IInv, Kinds
<1>2. e \in EntryType /\ e.key = entries[1].key /\ e.feeds = f
  BY <1>1 DEF EntryType, RtOptions
<1>3. entries' = [entries EXCEPT ![1] = e]
  OBVIOUS
<1>4. EntriesOK' /\ JourneysOK' /\ BootOK' /\ TakenSoFar' /\ entries'[1] = e
  BY <1>2, <1>3, RewriteStep
<1>5. Merges
  BY <1>2, <1>4 DEF Merges, RtOptions
<1>6. QED
  BY <1>4, <1>5

LEMMA TypeFeedsStep ==
    ASSUME IInv, NEW w \in Windows, NEW f \in Feeds, TypeFeeds(w, f)
    PROVE  IInv' /\ Merges /\ Keeps
<1>1. win[w] \in WindowType /\ win[w].url \in Urls /\ win[w].step = "rt"
  BY DEF IInv, Kinds, WindowsOK, WindowOK, TypeFeeds, At, Addressed
<1>2. UNCHANGED <<journeys, disk, lock, boot, edits>>
  BY DEF TypeFeeds, Rest
<1>3. CASE Listed
  <2>1. entries' = [entries EXCEPT ![1] = RtOptions(@, f)] /\ win' = [win EXCEPT ![w] = Closed]
    BY <1>3 DEF TypeFeeds
  <2>2. EntriesOK' /\ JourneysOK' /\ BootOK' /\ TakenSoFar' /\ Merges
    BY <1>2, <1>3, <2>1, FeedsReplaced
  <2>3. WindowsOK' /\ Keeps
    BY <1>1, <2>1, CloseStep, OtherWindows DEF IInv, Kinds
  <2>4. QED
    BY <1>2, <2>2, <2>3, Same DEF IInv, Kinds
<1>4. CASE ~Listed
  <2> DEFINE seed == Entry(win[w].url, win[w].inner, win[w].key, RtSeed)
             x == [win[w] EXCEPT !.feeds = f, !.step = "create", !.seed = seed]
  <2>1. seed \in Seeds
    BY <1>1, SeedsHeld, SeedOK DEF IInv, Kinds, WindowType
  <2> HIDE DEF seed
  <2>2. x \in WindowType /\ x.step = "create" /\ x.seed = seed
    BY <1>1, <2>1 DEF WindowType, Screens
  <2>3. WindowOK(x)
    BY <2>1, <2>2 DEF WindowOK, Addressed
  <2>4. win' = [win EXCEPT ![w] = x] /\ UNCHANGED entries
    BY <1>4 DEF TypeFeeds, seed
  <2>5. WindowsOK'
    BY <2>3, <2>4, WindowStep DEF IInv, Kinds
  <2>6. QED
    BY <1>2, <2>4, <2>5, QuietWindow, Same
<1>5. QED
  BY <1>3, <1>4

LEMMA CreateSourceStep ==
    ASSUME IInv, NEW w \in Windows, CreateSource(w)
    PROVE  IInv' /\ Merges /\ Keeps
<1>1. win[w].step = "create" /\ win[w].seed \in Seeds
  BY DEF IInv, Kinds, WindowsOK, WindowOK, CreateSource, At
<1>2. UNCHANGED <<journeys, disk, lock, boot, edits>>
  BY DEF CreateSource, Rest
<1>3. WindowsOK' /\ win'[w].step = "store"
  BY GoesStep DEF IInv, Kinds, CreateSource, Screens, Addressed
<1>4. EntriesOK' /\ JourneysOK' /\ BootOK' /\ TakenSoFar' /\ Merges
  BY <1>1, <1>2, MakeStep DEF CreateSource
<1>5. Keeps
  BY <1>1, <1>3, OtherWindows
<1>6. QED
  BY <1>2, <1>3, <1>4, <1>5, Same DEF IInv, Kinds

LEMMA StoreFeedsStep ==
    ASSUME IInv, NEW w \in Windows, StoreFeeds(w)
    PROVE  IInv' /\ Merges /\ Keeps
<1>1. win[w].step = "store" /\ win[w].feeds \in Feeds
  BY DEF IInv, Kinds, WindowsOK, WindowType, StoreFeeds, At
<1>2. UNCHANGED <<journeys, disk, lock, boot, edits>>
  BY DEF StoreFeeds, Rest
<1>3. WindowsOK' /\ Keeps
  BY <1>1, CloseStep, OtherWindows DEF StoreFeeds, IInv, Kinds
<1>4. EntriesOK' /\ JourneysOK' /\ BootOK' /\ TakenSoFar' /\ Merges
  <2>1. CASE Listed
    BY <1>1, <1>2, <2>1, FeedsReplaced DEF StoreFeeds
  <2>2. CASE ~Listed
    BY <1>2, <2>2, QuietStep DEF StoreFeeds
  <2>3. QED
    BY <2>1, <2>2
<1>5. QED
  BY <1>2, <1>3, <1>4, Same DEF IInv, Kinds

----------------------------------------------------------------------------
(* Its lines, its settings *)

\* A step of a window that touches only the windows, the files and the lock.
LEMMA PlainStep ==
    ASSUME IInv, NEW w \in Windows, NEW s \in Screens \ (Addressed \cup {"create"}),
           Goes(w, s) \/ (s = "menu" /\ win' = [win EXCEPT ![w] = Closed]),
           UNCHANGED <<entries, journeys, boot>>, edits' \in Nat,
           DiskOK', lock' \in Windows \cup {None}
    PROVE  IInv' /\ Merges /\ Keeps
<1>1. WindowsOK'
  BY GoesStep, CloseStep DEF IInv, Kinds, Addressed
<1>2. QED
  BY <1>1, QuietWindow

LEMMA LineSteps ==
    ASSUME IInv, NEW w \in Windows,
           PickLine(w) \/ Import(w) \/ Imported(w) \/ RecordNew(w) \/ OpenSettings(w)
    PROVE  IInv' /\ Merges /\ Keeps
<1>1. UNCHANGED <<entries, journeys, boot>>
  BY DEF PickLine, Import, Imported, RecordNew, OpenSettings, Rest
<1>2. CASE PickLine(w)
  BY <1>1, <1>2, PlainStep, Same DEF PickLine, Rest, Screens, Addressed
<1>3. CASE Import(w)
  <2>1. lock' \in Windows \cup {None} /\ UNCHANGED <<disk, edits>>
    BY <1>3 DEF Import, Rest
  <2>2. PICK s \in {"add", "build"} : Goes(w, s)
    BY <1>3 DEF Import
  <2>3. QED
    BY <1>1, <2>1, <2>2, PlainStep, Same DEF Screens, Addressed
<1>4. CASE Imported(w)
  <2>1. lock' \in Windows \cup {None} /\ UNCHANGED edits
    BY <1>4 DEF Imported, Rest
  <2>2. CASE disk.zip = NoZip
    BY <1>1, <1>4, <2>1, <2>2, PlainStep, Same DEF Imported, Screens, Addressed
  <2>3. CASE disk.zip # NoZip
    <3>1. DiskOK'
      BY <1>4, <2>3 DEF Imported, IInv, Kinds, DiskOK
    <3>2. PICK s \in {"record", "journey"} : Goes(w, s)
      BY <1>4, <2>3 DEF Imported
    <3>3. QED
      BY <1>1, <2>1, <3>1, <3>2, PlainStep, Same DEF Screens, Addressed
  <2>4. QED
    BY <2>2, <2>3
<1>5. CASE RecordNew(w)
  <2>1. lock' \in Windows \cup {None} /\ UNCHANGED edits /\ DiskOK'
    BY <1>5 DEF RecordNew, Rest, IInv, Kinds, DiskOK
  <2>2. QED
    BY <1>1, <1>5, <2>1, PlainStep, Same DEF RecordNew, Screens, Addressed
<1>6. CASE OpenSettings(w)
  BY <1>1, <1>6, PlainStep, Same DEF OpenSettings, Rest, Screens, Addressed
<1>7. QED
  BY <1>2, <1>3, <1>4, <1>5, <1>6

LEMMA AddJourneyStep ==
    ASSUME IInv, NEW w \in Windows, AddJourney(w)
    PROVE  IInv' /\ Merges /\ Keeps
<1>1. UNCHANGED <<entries, disk, lock, boot, edits>> /\ win[w].step = "journey"
  BY DEF AddJourney, Rest, At
<1>2. WindowsOK' /\ Keeps
  BY <1>1, CloseStep, OtherWindows DEF AddJourney, IInv, Kinds
<1>3. EntriesOK' /\ JourneysOK' /\ BootOK' /\ TakenSoFar' /\ Merges
  <2>1. CASE Read = Journeys
    BY <1>1, <2>1, QuietStep DEF AddJourney
  <2>2. CASE Read # Journeys
    <3>1. Min(Journeys \ Read) \in Journeys
      BY <2>2, LastFirst DEF Read
    <3>2. QED
      BY <1>1, <2>2, <3>1, JourneyStep DEF AddJourney
  <2>3. QED
    BY <2>1, <2>2
<1>4. QED
  BY <1>1, <1>2, <1>3, Same DEF IInv, Kinds

LEMMA SaveFeedsStep ==
    ASSUME IInv, NEW w \in Windows, NEW f \in Feeds, SaveFeeds(w, f)
    PROVE  IInv' /\ Merges /\ Keeps
<1>1. UNCHANGED <<journeys, disk, lock, boot, edits>> /\ win[w].step = "settings"
  BY DEF SaveFeeds, Rest, At
<1>2. WindowsOK' /\ Keeps
  BY <1>1, CloseStep, OtherWindows DEF SaveFeeds, IInv, Kinds
<1>3. EntriesOK' /\ JourneysOK' /\ BootOK' /\ TakenSoFar' /\ Merges
  <2>1. CASE Listed
    BY <1>1, <2>1, FeedsReplaced DEF SaveFeeds
  <2>2. CASE ~Listed
    <3>1. entries' = entries
      BY <2>2, EntriesAre DEF SaveFeeds, IInv, Kinds
    <3>2. QED
      BY <1>1, <3>1, QuietStep
  <2>3. QED
    BY <2>1, <2>2
<1>4. QED
  BY <1>1, <1>2, <1>3, Same DEF IInv, Kinds

LEMMA SavePolicyStep ==
    ASSUME IInv, NEW w \in Windows, NEW u \in Plain \cup {None}, NEW k \in BOOLEAN,
           NEW m \in {"off", "auto"}, SavePolicy(w, u, k, m)
    PROVE  IInv' /\ Merges /\ Keeps
<1>1. UNCHANGED <<journeys, disk, lock, boot, edits>> /\ win[w].step = "settings"
  BY DEF SavePolicy, Rest, At
<1>2. WindowsOK' /\ Keeps
  BY <1>1, CloseStep, OtherWindows DEF SavePolicy, IInv, Kinds
<1>3. EntriesOK' /\ JourneysOK' /\ BootOK' /\ TakenSoFar' /\ Merges
  <2>1. CASE Listed
    <3> DEFINE e == StaticRefresh(entries[1], u, k, m)
    <3>1. entries[1] \in EntryType
      BY <2>1, EntriesAre DEF IInv, Kinds
    <3>2. PICK v \in Urls, q \in {None, "key"} :
             /\ v = IF u = None THEN entries[1].url ELSE u
             /\ q = IF k THEN "key" ELSE None
      BY <3>1 DEF EntryType, Urls, Hosted
    <3> DEFINE x == [entries[1] EXCEPT !.url = v, !.key = q, !.mode = m]
    <3>3. x \in EntryType /\ x.key = q /\ x.url = v /\ x.mode = m
      BY <3>1 DEF EntryType, None
    <3>4. e = x
      BY <3>2, Zenon DEF StaticRefresh
    <3>5. entries' = [entries EXCEPT ![1] = e]
      BY Zenon DEF SavePolicy
    <3>6. q # "unsaid"
      BY DEF None
    <3> HIDE DEF e
    <3>7. EntriesOK' /\ JourneysOK' /\ BootOK' /\ TakenSoFar' /\ entries'[1] = x
      BY <1>1, <2>1, <3>3, <3>4, <3>5, <3>6, RewriteStep
    <3>8. Merges
      BY <3>3, <3>7 DEF Merges
    <3>9. QED
      BY <3>7, <3>8
  <2>2. CASE ~Listed
    <3>1. entries' = entries
      BY <2>2, EntriesAre DEF SavePolicy, IInv, Kinds
    <3>2. QED
      BY <1>1, <3>1, QuietStep
  <2>3. QED
    BY <2>1, <2>2
<1>4. QED
  BY <1>1, <1>2, <1>3, Same DEF IInv, Kinds

LEMMA ToggleStep ==
    ASSUME IInv, Toggle
    PROVE  IInv' /\ Merges /\ Keeps
<1> DEFINE e == [entries[1] EXCEPT !.on = ~@]
<1>1. UNCHANGED <<journeys, disk, lock, win, boot>> /\ edits' \in Nat /\ edits' # edits /\ Listed
  BY Same DEF Toggle, Rest
<1>2. entries[1] \in EntryType
  BY <1>1, EntriesAre DEF IInv, Kinds
<1>3. PICK b \in BOOLEAN : b = ~entries[1].on
  BY Zenon
<1>4. [entries[1] EXCEPT !.on = b] \in EntryType /\ [entries[1] EXCEPT !.on = b].key = entries[1].key
  BY <1>2 DEF EntryType
<1>5. e = [entries[1] EXCEPT !.on = b]
  BY <1>3, Zenon
<1>6. entries' = [entries EXCEPT ![1] = e]
  BY Zenon DEF Toggle
<1>7. e.on = b
  BY <1>2, <1>5 DEF EntryType
<1>8. EntriesOK' /\ JourneysOK' /\ BootOK' /\ TakenSoFar' /\ entries'[1] = [entries[1] EXCEPT !.on = b]
  BY <1>1, <1>4, <1>5, <1>6, RewriteStep
<1>9. Merges /\ Keeps
  BY <1>1, <1>5, <1>7, <1>8 DEF Merges, Keeps
<1>10. QED
  BY <1>1, <1>8, <1>9, Same DEF IInv, Kinds

----------------------------------------------------------------------------
(* Its removal *)

LEMMA RemovalSteps ==
    ASSUME IInv, NEW w \in Windows,
           PickRemove(w) \/ Remove(w) \/ RemoveFails(w) \/ RemovedFiles(w) \/ Close(w)
    PROVE  IInv' /\ Merges /\ Keeps
<1>1. UNCHANGED <<entries, journeys, boot>> /\ DiskOK' /\ lock' \in Windows \cup {None} /\ edits' \in Nat
  BY Same DEF PickRemove, Remove, RemoveFails, RemovedFiles, Close, Rest
<1>2. QED
  BY <1>1, PlainStep DEF PickRemove, Remove, RemoveFails, RemovedFiles, Close, Screens, Addressed

LEMMA RemoveFileStep ==
    ASSUME IInv, NEW w \in Windows, RemoveFile(w)
    PROVE  IInv' /\ Merges /\ Keeps
<1>1. UNCHANGED <<entries, journeys, lock, win, boot, edits>>
  BY DEF RemoveFile, Rest
<1>2. \A i \in Remaining : RemovalOrder[i] \in {"db", "zip", "said", "record"}
  BY DEF Remaining, RemovalOrder
<1>3. Gone \in [zip : Zips, said : Urls \cup {None}, db : BOOLEAN, record : BOOLEAN]
  BY DEF Gone, Zips
<1>4. DiskOK'
  <2>1. PICK f \in {"db", "zip", "said", "record"} : disk' = [disk EXCEPT ![f] = Gone[f]]
    BY <1>2 DEF RemoveFile
  <2>2. QED
    BY <1>3, <2>1 DEF IInv, Kinds, DiskOK
<1>5. QED
  BY <1>1, <1>4, QuietWindow, Same

LEMMA WithoutEntryOK ==
    ASSUME NEW ws \in [Windows -> WindowType], \A w \in Windows : WindowOK(ws[w])
    PROVE  /\ WithoutEntry(ws) \in [Windows -> WindowType]
           /\ \A w \in Windows : WindowOK(WithoutEntry(ws)[w])
           /\ \A w \in Windows : ws[w].step = "removed" => WithoutEntry(ws)[w].step = "menu"
BY ClosedOK DEF WithoutEntry

LEMMA RemoveEntryStep ==
    ASSUME IInv, NEW w \in Windows, RemoveEntry(w)
    PROVE  IInv' /\ Merges /\ Keeps
<1>1. UNCHANGED <<journeys, disk, lock, boot, edits>> /\ win[w].step = "removed"
  BY DEF RemoveEntry, Rest, At
<1>2. EntriesOK' /\ JourneysOK' /\ BootOK' /\ TakenSoFar' /\ Merges
  BY <1>1, GoneStep DEF RemoveEntry
<1>3. WindowsOK' /\ win'[w].step = "menu"
  BY <1>1, WithoutEntryOK DEF RemoveEntry, IInv, Kinds, WindowsOK
<1>4. Keeps
  BY <1>1, <1>3, OtherWindows
<1>5. QED
  BY <1>1, <1>2, <1>3, <1>4, Same DEF IInv, Kinds

LEMMA DeleteEntryStep ==
    ASSUME IInv, DeleteEntry
    PROVE  IInv' /\ Merges /\ Keeps
<1>1. UNCHANGED <<journeys, disk, lock, boot>> /\ edits' \in Nat /\ edits' # edits
  BY Same DEF DeleteEntry, Rest
<1>2. EntriesOK' /\ JourneysOK' /\ BootOK' /\ TakenSoFar' /\ Merges
  BY <1>1, GoneStep DEF DeleteEntry
<1>3. WindowsOK'
  BY WithoutEntryOK DEF DeleteEntry, IInv, Kinds, WindowsOK
<1>4. QED
  BY <1>1, <1>2, <1>3, Same DEF IInv, Kinds, Keeps

LEMMA DeleteJourneyStep ==
    ASSUME IInv, NEW j \in Journeys, DeleteJourney(j)
    PROVE  IInv' /\ Merges /\ Keeps
<1>1. UNCHANGED <<entries, disk, lock, win, boot>> /\ edits' \in Nat /\ edits' # edits
  BY Same DEF DeleteJourney, Rest
<1>2. EntriesOK' /\ JourneysOK' /\ BootOK' /\ TakenSoFar' /\ Merges
  BY <1>1, JourneyStep DEF DeleteJourney
<1>3. QED
  BY <1>1, <1>2, Same DEF IInv, Kinds, Keeps

----------------------------------------------------------------------------
(* The bootstrap *)

LEMMA BootMoves ==
    ASSUME IInv, UNCHANGED <<entries, journeys, disk, lock, win, edits>>, BootOK', TakenSoFar'
    PROVE  IInv' /\ Merges /\ Keeps
<1>1. Merges
  <2>1. entries # <<>> => entries[1] \in EntryType
    BY EntriesAre DEF IInv, Kinds, Listed
  <2>2. QED
    BY <2>1 DEF Merges, EntryType
<1>2. Keeps
  BY DEF Keeps, StaticKey, StaticSeed, FeedsOf, Listed, Read
<1>3. EntriesOK' /\ JourneysOK'
  BY DEF IInv, Kinds, EntriesOK, JourneysOK
<1>4. QED
  BY <1>1, <1>2, <1>3, Same DEF IInv, Kinds

LEMMA BootBegins ==
    ASSUME IInv, BootStart \/ BootList \/ Restart
    PROVE  IInv' /\ Merges /\ Keeps
<1>1. CASE BootStart \/ BootList
  <2>1. UNCHANGED <<entries, journeys, disk, lock, win, edits>>
    BY <1>1 DEF BootStart, BootList, Rest
  <2>2. BootOK' /\ boot'.at \in {"list", "take"}
    BY <1>1 DEF BootStart, BootList, IInv, Kinds, BootOK, DiskOK
  <2>3. TakenSoFar'
    BY <2>2 DEF TakenSoFar
  <2>4. QED
    BY <2>1, <2>2, <2>3, BootMoves
<1>2. CASE Restart
  <2>1. UNCHANGED <<entries, journeys, disk, edits>>
    BY <1>2 DEF Restart, Rest
  <2>2. BootOK' /\ boot'.at = "off"
    BY <1>2 DEF Restart, BootOK, Blank
  <2>3. TakenSoFar'
    BY <2>2 DEF TakenSoFar
  <2>4. WindowsOK' /\ lock' = None
    BY <1>2, ClosedOK DEF Restart, WindowsOK
  <2>5. Merges
    <3>1. entries # <<>> => entries[1] \in EntryType
      BY EntriesAre DEF IInv, Kinds, Listed
    <3>2. QED
      BY <2>1, <3>1 DEF Merges, EntryType
  <2>6. Keeps
    BY <2>1 DEF Keeps, StaticKey, StaticSeed, FeedsOf, Listed, Read
  <2>7. EntriesOK' /\ JourneysOK'
    BY <2>1 DEF IInv, Kinds, EntriesOK, JourneysOK
  <2>8. QED
    BY <2>1, <2>2, <2>3, <2>4, <2>5, <2>6, <2>7, Same DEF IInv, Kinds
<1>3. QED
  BY <1>1, <1>2

\* The key an older entry leaves unsaid is the journeys'.
LEMMA BootTakeStep ==
    ASSUME IInv, BootTake
    PROVE  IInv' /\ Merges /\ Keeps
<1>1. UNCHANGED <<journeys, disk, lock, win, edits>> /\ Read' = Read /\ StaticSeed' = StaticSeed
  BY DEF BootTake, Rest, Read, StaticSeed
<1>2. JourneysOK
  BY DEF IInv, Kinds
<1>3. boot' = [boot EXCEPT
           !.at = IF ~Listed /\ (boot.found \/ Read # {}) THEN "create" ELSE "drop",
           !.seed = Entry(UrlSeed, None, StaticSeed, RtSeed)]
  BY DEF BootTake
<1> DEFINE seed == Entry(UrlSeed, None, StaticSeed, RtSeed)
<1>4. /\ seed \in Seeds /\ seed.key = StaticSeed /\ seed.feeds = RtSeed
      /\ (\E j \in Read : journeys[j].feeds # 0) => RtSeed # 0
  <2>1. seed \in Seeds
    BY <1>2, SeedsHeld, SeedOK
  <2>2. QED
    BY <1>2, <2>1, SeedsHeld DEF Entry
<1> HIDE DEF seed
<1>5. BootOK' /\ boot'.seed = seed
  <2>1. PICK at \in {"create", "drop"} : boot' = [boot EXCEPT !.at = at, !.seed = seed]
    BY <1>3 DEF seed
  <2>2. QED
    BY <1>4, <2>1 DEF IInv, Kinds, BootOK
<1>6. CASE ~Listed
  <2>1. entries' = entries
    BY <1>6, EntriesAre DEF BootTake, IInv, Kinds
  <2>2. TakenSoFar'
    BY <1>1, <1>4, <1>5, <1>6, <2>1 DEF TakenSoFar, Listed
  <2>3. QED
    BY <1>1, <1>5, <2>1, <2>2, BootMoves
<1>7. CASE Listed
  <2> DEFINE e == TakenKey(entries[1])
  <2>1. entries[1] \in EntryType /\ DOMAIN entries = {1}
    BY <1>7, EntriesAre DEF IInv, Kinds
  <2>2. e \in EntryType /\ e = [entries[1] EXCEPT !.key = e.key]
        /\ e.key = (IF entries[1].key = "unsaid" THEN StaticSeed ELSE entries[1].key)
        /\ e.feeds = entries[1].feeds
    <3>1. PICK k \in {None, "key"} : k = IF entries[1].key = "unsaid" THEN StaticSeed ELSE entries[1].key
      BY <1>2, <2>1, SeedsHeld DEF EntryType
    <3>2. e = [entries[1] EXCEPT !.key = k]
      BY <3>1 DEF TakenKey
    <3>3. QED
      BY <2>1, <3>1, <3>2 DEF EntryType
  <2>3. entries' = <<e>>
    <3>1. entries' = [i \in {1} |-> TakenKey(entries[i])]
      BY <2>1 DEF BootTake
    <3>2. QED
      BY <3>1
  <2> HIDE DEF e
  <2>4. e.key # "unsaid"
    BY <1>2, <2>2, SeedsHeld DEF None
  <2>5. Listed' /\ entries'[1] = e /\ EntriesOK'
    BY <2>2, <2>3 DEF Listed, EntriesOK
  <2>6. TakenSoFar'
    <3>1. boot'.at = "drop"
      BY <1>3, <1>7 DEF IInv, Kinds, BootOK
    <3>2. QED
      BY <2>4, <2>5, <3>1 DEF TakenSoFar
  <2>7. Merges
    <3>1. e = [entries[1] EXCEPT !.url = e.url, !.key = e.key, !.mode = e.mode]
      BY <2>1, <2>2 DEF EntryType
    <3>2. QED
      BY <2>5, <3>1 DEF Merges
  <2>8. Keeps
    <3>1. StaticKey = "key" => StaticKey' = "key"
      BY <1>1, <1>7, <2>2, <2>4, <2>5 DEF StaticKey
    <3>2. QED
      BY <1>1, <1>7, <2>2, <2>5, <3>1 DEF Keeps, FeedsOf
  <2>9. JourneysOK'
    BY <1>1 DEF IInv, Kinds, JourneysOK
  <2>10. QED
    BY <1>1, <1>5, <2>5, <2>6, <2>7, <2>8, <2>9, Same DEF IInv, Kinds
<1>8. QED
  BY <1>6, <1>7

LEMMA BootCreateStep ==
    ASSUME IInv, BootCreate
    PROVE  IInv' /\ Merges /\ Keeps
<1>1. UNCHANGED <<journeys, disk, lock, win, edits>> /\ boot.at = "create" /\ boot.seed \in Seeds
  BY DEF BootCreate, Rest, IInv, Kinds, BootOK
<1>2. entries' = Created(boot.seed)
  BY DEF BootCreate
<1>3. EntriesOK' /\ JourneysOK' /\ BootOK' /\ TakenSoFar' /\ Merges
  BY <1>1, <1>2, MakeStep DEF BootCreate
<1>4. Keeps
  <2>1. Read' = Read /\ StaticSeed' = StaticSeed
    BY <1>1 DEF Read, StaticSeed
  <2>2. CASE Listed
    BY <1>1, <1>2, <2>1, <2>2 DEF Created, Keeps, StaticKey, FeedsOf, Listed
  <2>3. CASE ~Listed
    <3>1. entries' = <<boot.seed>>
      BY <1>2, <2>3, OneEntry DEF IInv, Kinds
    <3>2. Listed' /\ entries'[1] = boot.seed
      BY <3>1 DEF Listed
    <3>3. QED
      BY <1>1, <2>3, <3>2 DEF Keeps, StaticKey, FeedsOf, IInv, TakenSoFar, Seeds
  <2>4. QED
    BY <2>2, <2>3
<1>5. QED
  BY <1>1, <1>3, <1>4, Same DEF IInv, Kinds

LEMMA BootFailsStep ==
    ASSUME IInv, BootFails
    PROVE  IInv' /\ Merges /\ Keeps
<1>1. UNCHANGED <<entries, journeys, disk, lock, win, edits>> /\ boot.at = "create"
  BY DEF BootFails, Rest
<1>2. BootOK' /\ boot'.at = "drop"
  BY DEF BootFails, IInv, Kinds, BootOK
<1>3. TakenSoFar'
  BY <1>1, <1>2 DEF IInv, TakenSoFar, Listed
<1>4. QED
  BY <1>1, <1>2, <1>3, BootMoves

\* The copies go only where an entry speaks for them.
LEMMA BootDropStep ==
    ASSUME IInv, BootDrop
    PROVE  IInv' /\ Merges /\ Keeps
<1>1. UNCHANGED <<entries, disk, lock, win, edits>> /\ boot.at = "drop"
  BY DEF BootDrop, Rest
<1>2. BootOK' /\ boot'.at = "done"
  BY DEF BootDrop, IInv, Kinds, BootOK
<1>3. JourneysOK'
  <2>1. NoCopies \in Copies
    BY DEF NoCopies, Copies, None
  <2>2. QED
    BY <2>1 DEF BootDrop, Dropped, IInv, Kinds, JourneysOK
<1>4. TakenSoFar' /\ EntriesOK'
  BY <1>1, <1>2 DEF IInv, Kinds, EntriesOK, TakenSoFar, Listed
<1>5. Merges
  <2>1. entries # <<>> => entries[1] \in EntryType
    BY EntriesAre DEF IInv, Kinds, Listed
  <2>2. QED
    BY <1>1, <2>1 DEF Merges, EntryType
<1>6. Keeps
  <2>1. CASE Listed
    <3>1. Listed' /\ entries[1].key # "unsaid"
      BY <1>1, <2>1 DEF Listed, IInv, TakenSoFar
    <3>2. QED
      BY <1>1, <2>1, <3>1 DEF Keeps, StaticKey, FeedsOf
  <2>2. CASE ~Listed
    <3>1. journeys' = journeys
      BY <2>2 DEF BootDrop, Dropped, IInv, Kinds, JourneysOK
    <3>2. QED
      BY <1>1, <3>1 DEF Keeps, StaticKey, StaticSeed, FeedsOf, Listed, Read
  <2>3. QED
    BY <2>1, <2>2
<1>7. QED
  BY <1>1, <1>2, <1>3, <1>4, <1>5, <1>6, Same DEF IInv, Kinds

----------------------------------------------------------------------------
(* Where a new source's zip is from *)

\* With one window that adds the source, the zip found where there was none,
\* or said to be from the url typed, is from that url.
Hosting ==
    /\ \A w \in Windows : win[w].url \in Hosted => w \in Adders
    /\ disk.zip # NoZip /\ disk.said \in Hosted => disk.zip.from = disk.said
    /\ disk.zip # NoZip => \A w \in Windows :
          \/ win[w].step = "note"
          \/ /\ win[w].new /\ win[w].url \in Hosted
             /\ win[w].step \in {"key", "net", "fetch", "rt", "create"}
          => disk.zip.from = win[w].url

OneAdder == \A v, w \in Adders : v = w

\* Where a zip lies after the step, one lay before, from the same url.
SameZip == disk'.zip # NoZip => /\ disk.zip # NoZip /\ disk'.zip.from = disk.zip.from
                                /\ disk'.said = disk.said \/ disk'.said \notin Hosted

\* What a window carries to its next screen.
Carried(x) ==
    /\ disk.zip # NoZip
    /\ \/ x.step = "note"
       \/ x.new /\ x.url \in Hosted /\ x.step \in {"key", "net", "fetch", "rt", "create"}
    => disk.zip.from = x.url

LEMMA HostingStep ==
    ASSUME Hosting, SameZip, NEW w \in Windows, win \in [Windows -> WindowType],
           NEW x, win' = [win EXCEPT ![w] = x],
           x.url \in Hosted => w \in Adders, Carried(x)
    PROVE  Hosting'
BY DEF Hosting, SameZip, Carried

LEMMA HostingKept ==
    ASSUME Hosting, SameZip, \A w \in Windows : win'[w] = win[w] \/ win'[w] = Closed
    PROVE  Hosting'
<1>1. Closed.url \notin Hosted /\ Closed.step = "menu"
  BY DEF Closed
<1>2. QED
  BY <1>1 DEF Hosting, SameZip

\* A window that goes on to another screen as it is.
LEMMA HostingGoes ==
    ASSUME Hosting, SameZip, WindowsOK, NEW w \in Windows, NEW s, Goes(w, s),
           Carried([win[w] EXCEPT !.step = s])
    PROVE  Hosting'
<1> DEFINE x == [win[w] EXCEPT !.step = s]
<1>1. win[w] \in WindowType /\ win \in [Windows -> WindowType]
  BY DEF WindowsOK
<1>2. x.url = win[w].url
  BY <1>1 DEF WindowType
<1>3. x.url \in Hosted => w \in Adders
  BY <1>2 DEF Hosting
<1>4. win' = [win EXCEPT ![w] = x]
  BY DEF Goes
<1> HIDE DEF x
<1>5. Carried(x)
  BY DEF x
<1>6. QED
  BY <1>1, <1>3, <1>4, <1>5, HostingStep

\* From a screen where the zip was its own already.
LEMMA CarriesOn ==
    ASSUME Hosting, WindowsOK, NEW w \in Windows, NEW s,
           win[w].step \in {"key", "net", "fetch", "note", "rt", "create"}, s # "note"
    PROVE  Carried([win[w] EXCEPT !.step = s])
<1>1. win[w] \in WindowType
  BY DEF WindowsOK
<1>2. /\ [win[w] EXCEPT !.step = s].step = s
      /\ [win[w] EXCEPT !.step = s].url = win[w].url
      /\ [win[w] EXCEPT !.step = s].new = win[w].new
  BY <1>1 DEF WindowType
<1>3. QED
  BY <1>2 DEF Carried, Hosting

LEMMA OffScreen ==
    ASSUME WindowsOK, NEW w \in Windows,
           NEW s, s \notin {"key", "net", "fetch", "note", "rt", "create"}
    PROVE  Carried([win[w] EXCEPT !.step = s])
<1>1. win[w] \in WindowType
  BY DEF WindowsOK
<1>2. [win[w] EXCEPT !.step = s].step = s
  BY <1>1 DEF WindowType
<1>3. QED
  BY <1>2 DEF Carried

LEMMA HostingTypeUrl ==
    ASSUME IInv, Hosting, NEW w \in Windows, NEW u \in Hosted, NEW k \in BOOLEAN, TypeUrl(w, u, k)
    PROVE  Hosting'
<1>1. PICK q \in {None, "key"}, v \in {"key", "url"}, b \in BOOLEAN, s \in {"naming", "key", "fetch"} :
         /\ q = IF k THEN "key" ELSE None
         /\ v = IF k THEN "key" ELSE "url"
         /\ b = ~Listed
         /\ s = IF ~Listed THEN "naming" ELSE IF k THEN "key" ELSE "fetch"
  BY Zenon
<1> DEFINE y == [win[w] EXCEPT !.url = u, !.key = q, !.via = v, !.new = b]
           x == [y EXCEPT !.step = s]
<1>2. win' = [win EXCEPT ![w] = x]
  BY <1>1, Zenon DEF TypeUrl
<1>3. win[w] \in WindowType /\ win \in [Windows -> WindowType]
  BY DEF IInv, Kinds, WindowsOK
<1>4. y \in WindowType /\ y.url = u /\ y.new = b
  BY <1>3 DEF WindowType, Urls
<1>5. x.url = u /\ x.new = b /\ x.step = s
  BY <1>4 DEF WindowType
<1>6. b => s = "naming"
  BY <1>1, Zenon
<1>7. Carried(x)
  BY <1>5, <1>6 DEF Carried
<1>8. w \in Adders /\ SameZip
  BY DEF TypeUrl, Rest, SameZip
<1> HIDE DEF x
<1>9. QED
  BY <1>2, <1>3, <1>7, <1>8, HostingStep

LEMMA HostingLookAtName ==
    ASSUME IInv, Hosting, NEW w \in Windows, LookAtName(w)
    PROVE  Hosting'
<1>1. PICK s \in {"url", "key", "fetch"} : Goes(w, s) /\ (s # "url" => NameFree(win[w].url))
  BY DEF LookAtName
<1>2. SameZip
  BY DEF LookAtName, Rest, SameZip
<1>3. win[w] \in WindowType
  BY DEF IInv, Kinds, WindowsOK
<1>4. /\ [win[w] EXCEPT !.step = s].step = s
      /\ [win[w] EXCEPT !.step = s].url = win[w].url
  BY <1>3 DEF WindowType
<1>5. Carried([win[w] EXCEPT !.step = s])
  BY <1>1, <1>4 DEF Carried, Hosting, NameFree
<1>6. QED
  BY <1>1, <1>2, <1>5, HostingGoes DEF IInv, Kinds

LEMMA HostingTypeZip ==
    ASSUME IInv, Hosting, NEW w \in Windows, TypeZip(w)
    PROVE  Hosting'
<1> DEFINE x == [win[w] EXCEPT !.url = Kept, !.via = "url", !.step = "fetch"]
<1>1. win[w] \in WindowType /\ win \in [Windows -> WindowType]
  BY DEF IInv, Kinds, WindowsOK
<1>2. x.url = Kept /\ x.step = "fetch"
  BY <1>1 DEF WindowType
<1>3. Carried(x)
  BY <1>2 DEF Carried
<1>4. win' = [win EXCEPT ![w] = x]
  BY DEF TypeZip
<1>5. SameZip
  BY DEF TypeZip, Rest, SameZip
<1> HIDE DEF x
<1>6. QED
  BY <1>1, <1>2, <1>3, <1>4, <1>5, HostingStep

LEMMA HostingPickNetwork ==
    ASSUME IInv, Hosting, NEW w \in Windows, NEW n \in Networks, PickNetwork(w, n)
    PROVE  Hosting'
<1> DEFINE x == [win[w] EXCEPT !.inner = n, !.via = "net", !.step = "fetch"]
<1>1. win[w] \in WindowType /\ win \in [Windows -> WindowType] /\ win[w].step = "net"
  BY DEF IInv, Kinds, WindowsOK, PickNetwork, At
<1>2. x.url = win[w].url /\ x.step = "fetch" /\ x.new = win[w].new
  BY <1>1 DEF WindowType
<1>3. Carried(x) /\ (x.url \in Hosted => w \in Adders)
  BY <1>1, <1>2 DEF Carried, Hosting
<1>4. win' = [[[win EXCEPT ![w].inner = n] EXCEPT ![w].via = "net"] EXCEPT ![w].step = "fetch"]
  BY DEF PickNetwork
<1>5. win' = [win EXCEPT ![w] = x]
  BY <1>4 DEF IInv, Kinds, WindowsOK
<1>6. SameZip
  BY DEF PickNetwork, Rest, SameZip
<1> HIDE DEF x
<1>7. QED
  BY <1>1, <1>3, <1>5, <1>6, HostingStep

\* The zip fetched is from the one window that adds.
LEMMA HostingFetch ==
    ASSUME IInv, Hosting, OneAdder, NEW w \in Windows, Fetch(w) \/ NoteFetched(w)
    PROVE  Hosting'
<1>1. win \in [Windows -> WindowType] /\ \A v \in Windows : win[v].step = "note" => win[v].url \in Hosted
  BY DEF IInv, Kinds, WindowsOK, WindowOK
<1>2. PICK s \in {"note", "fetch"} : Goes(w, s)
  BY DEF Fetch, NoteFetched
<1>3. win[w].url \in Hosted
  BY <1>1 DEF Fetch, NoteFetched, At
<1>4. /\ win'[w].url = win[w].url
      /\ \A v \in Windows \ {w} : win'[v] = win[v] /\ win[v].url \notin Hosted
  BY <1>1, <1>2, <1>3 DEF Hosting, OneAdder, Goes, WindowType
<1>5. disk'.zip # NoZip => disk'.zip.from = win[w].url
  <2>1. CASE Fetch(w)
    <3>1. PICK n : disk' = [disk EXCEPT !.zip = [from |-> win[w].url, net |-> n], !.said = None]
      BY <2>1 DEF Fetch
    <3>2. disk'.zip = [from |-> win[w].url, net |-> n]
      BY <3>1 DEF IInv, Kinds, DiskOK
    <3>3. QED
      BY <3>2
  <2>2. CASE NoteFetched(w)
    BY <2>2 DEF NoteFetched, At, Hosting, IInv, Kinds, DiskOK
  <2>3. QED
    BY <2>1, <2>2
<1>6. disk'.zip # NoZip /\ disk'.said \in Hosted => disk'.said = win[w].url
  <2>1. CASE Fetch(w)
    BY <2>1 DEF Fetch, IInv, Kinds, DiskOK
  <2>2. CASE NoteFetched(w)
    BY <2>2 DEF NoteFetched, IInv, Kinds, DiskOK
  <2>3. QED
    BY <2>1, <2>2
<1>7. \A v \in Windows : win'[v].url \in Hosted => v \in Adders
  BY <1>4 DEF Hosting
<1>8. \A v \in Windows : win'[v].step = "note" \/ win'[v].url \in Hosted =>
         (disk'.zip # NoZip => disk'.zip.from = win'[v].url)
  BY <1>1, <1>4, <1>5
<1>9. QED
  BY <1>5, <1>6, <1>7, <1>8 DEF Hosting

LEMMA HostingTakeZip ==
    ASSUME IInv, Hosting, NEW w \in Windows, TakeZip(w)
    PROVE  Hosting'
<1>1. PICK s \in {"rt", "net"} : Goes(w, s)
  BY DEF TakeZip
<1>2. Carried([win[w] EXCEPT !.step = s])
  BY CarriesOn DEF TakeZip, At, IInv, Kinds
<1>3. SameZip
  <2>1. disk.zip # NoZip /\ disk.zip \in Zips
    BY DEF TakeZip, IInv, Kinds, DiskOK
  <2>2. CASE UNCHANGED disk
    BY <2>1, <2>2 DEF SameZip
  <2>3. CASE disk' = [disk EXCEPT !.zip.net = Asked(w)]
    BY <2>1, <2>3 DEF SameZip, Zips, NoZip, IInv, Kinds, DiskOK
  <2>4. QED
    BY <2>2, <2>3 DEF TakeZip
<1>4. QED
  BY <1>1, <1>2, <1>3, HostingGoes DEF IInv, Kinds

LEMMA HostingTypeFeeds ==
    ASSUME IInv, Hosting, NEW w \in Windows, NEW f \in Feeds, TypeFeeds(w, f)
    PROVE  Hosting'
<1>1. SameZip
  BY DEF TypeFeeds, Rest, SameZip
<1>2. win[w] \in WindowType /\ win \in [Windows -> WindowType] /\ win[w].step = "rt"
  BY DEF IInv, Kinds, WindowsOK, TypeFeeds, At
<1>3. CASE Listed
  BY <1>1, <1>2, <1>3, HostingKept DEF TypeFeeds
<1>4. CASE ~Listed
  <2>1. PICK seed \in Seeds : seed = Entry(win[w].url, win[w].inner, win[w].key, RtSeed)
    <3>1. win[w].url \in Urls
      BY DEF IInv, Kinds, WindowsOK, WindowOK, TypeFeeds, At, Addressed
    <3>2. QED
      BY <1>2, <3>1, SeedsHeld, SeedOK DEF IInv, Kinds, WindowType
  <2> DEFINE x == [win[w] EXCEPT !.feeds = f, !.step = "create", !.seed = seed]
  <2>2. x.url = win[w].url /\ x.step = "create" /\ x.new = win[w].new
    BY <1>2 DEF WindowType
  <2>3. Carried(x) /\ (x.url \in Hosted => w \in Adders)
    BY <1>2, <2>2 DEF Carried, Hosting
  <2>4. win' = [win EXCEPT ![w] = x]
    BY <1>4, <2>1 DEF TypeFeeds
  <2> HIDE DEF x
  <2>5. QED
    BY <1>1, <1>2, <2>3, <2>4, HostingStep
<1>5. QED
  BY <1>3, <1>4

\* The screens before the entry, the files left as they are.
LEMMA HostingSameDisk ==
    ASSUME IInv, Hosting, NEW w \in Windows,
           TypeKey(w) \/ Offers(w) \/ FetchFails(w) \/ CreateSource(w)
    PROVE  Hosting'
<1>1. WindowsOK /\ SameZip
  BY DEF TypeKey, Offers, FetchFails, CreateSource, Rest, SameZip, IInv, Kinds
<1>2. CASE TypeKey(w)
  BY <1>1, <1>2, CarriesOn, HostingGoes DEF TypeKey, At
<1>3. CASE Offers(w)
  BY <1>1, <1>3, CarriesOn, HostingGoes DEF Offers, At
<1>4. CASE FetchFails(w)
  BY <1>1, <1>4, OffScreen, HostingGoes DEF FetchFails
<1>5. CASE CreateSource(w)
  BY <1>1, <1>5, OffScreen, HostingGoes DEF CreateSource
<1>6. QED
  BY <1>2, <1>3, <1>4, <1>5

LEMMA HostingUsing ==
    ASSUME IInv, Hosting, NEW w \in Windows,
           \/ StoreFeeds(w) \/ PickLine(w) \/ Import(w) \/ Imported(w) \/ RecordNew(w)
           \/ AddJourney(w) \/ OpenSettings(w) \/ Close(w)
           \/ \E f \in Feeds : SaveFeeds(w, f)
           \/ \E u \in Plain \cup {None}, k \in BOOLEAN, m \in {"off", "auto"} : SavePolicy(w, u, k, m)
    PROVE  Hosting'
<1>1. WindowsOK
  BY DEF IInv, Kinds
<1>2. disk'.zip = disk.zip /\ disk'.said = disk.said
  <2>1. CASE Imported(w)
    BY <2>1 DEF Imported, IInv, Kinds, DiskOK
  <2>2. CASE RecordNew(w)
    BY <2>2 DEF RecordNew, IInv, Kinds, DiskOK
  <2>3. QED
    BY <2>1, <2>2 DEF StoreFeeds, PickLine, Import, AddJourney, OpenSettings, Close, SaveFeeds, SavePolicy, Rest
<1>3. SameZip
  BY <1>2 DEF SameZip
<1>4. CASE win' = [win EXCEPT ![w] = Closed]
  BY <1>1, <1>3, <1>4, HostingKept DEF WindowsOK
<1>5. CASE \E s \in {"wantImport", "add", "build", "record", "journey", "settings"} : Goes(w, s)
  BY <1>1, <1>3, <1>5, OffScreen, HostingGoes
<1>6. QED
  BY <1>4, <1>5 DEF StoreFeeds, PickLine, Import, Imported, RecordNew, AddJourney,
                    OpenSettings, Close, SaveFeeds, SavePolicy

LEMMA HostingRemoving ==
    ASSUME IInv, Hosting, NEW w \in Windows, Removing(w)
    PROVE  Hosting'
<1>1. WindowsOK
  BY DEF IInv, Kinds
<1>2. CASE RemoveFile(w)
  <2>0. \A i \in Remaining : RemovalOrder[i] \in {"db", "zip", "said", "record"}
    BY DEF Remaining, RemovalOrder
  <2>1. PICK f \in {"db", "zip", "said", "record"} : disk' = [disk EXCEPT ![f] = Gone[f]]
    BY <1>2, <2>0 DEF RemoveFile
  <2>2. SameZip
    BY <2>1 DEF SameZip, Gone, IInv, Kinds, DiskOK
  <2>3. UNCHANGED win
    BY <1>2 DEF RemoveFile, Rest
  <2>4. QED
    BY <2>2, <2>3, HostingKept
<1>3. CASE RemoveEntry(w)
  <2>1. SameZip
    BY <1>3 DEF RemoveEntry, Rest, SameZip
  <2>2. \A v \in Windows : win'[v] = win[v] \/ win'[v] = Closed
    BY <1>1, <1>3 DEF RemoveEntry, WithoutEntry, WindowsOK
  <2>3. QED
    BY <2>1, <2>2, HostingKept
<1>4. CASE PickRemove(w) \/ Remove(w) \/ RemoveFails(w) \/ RemovedFiles(w)
  <2>1. SameZip
    BY <1>4 DEF PickRemove, Remove, RemoveFails, RemovedFiles, Rest, SameZip
  <2>2. CASE win' = [win EXCEPT ![w] = Closed]
    BY <1>1, <2>1, <2>2, HostingKept DEF WindowsOK
  <2>3. CASE \E s \in {"wantRemove", "remove", "removed"} : Goes(w, s)
    BY <1>1, <2>1, <2>3, OffScreen, HostingGoes
  <2>4. QED
    BY <1>4, <2>2, <2>3 DEF PickRemove, Remove, RemoveFails, RemovedFiles
<1>5. QED
  BY <1>2, <1>3, <1>4 DEF Removing

LEMMA HostingElsewhere ==
    ASSUME IInv, Hosting,
           \/ Toggle \/ DeleteEntry \/ Booting \/ BootFails \/ Restart
           \/ \E j \in Journeys : DeleteJourney(j)
           \/ UNCHANGED vars
    PROVE  Hosting'
<1>1. SameZip
  BY DEF Toggle, DeleteEntry, DeleteJourney, Booting, BootStart, BootList, BootTake, BootCreate,
         BootDrop, BootFails, Restart, Rest, SameZip, vars
<1>2. \A v \in Windows : win'[v] = win[v] \/ win'[v] = Closed
  BY DEF Toggle, DeleteEntry, DeleteJourney, Booting, BootStart, BootList, BootTake, BootCreate,
         BootDrop, BootFails, Restart, Rest, WithoutEntry, IInv, Kinds, WindowsOK, vars
<1>3. QED
  BY <1>1, <1>2, HostingKept

----------------------------------------------------------------------------
(* What a removal under way leaves *)

Deleting == {"wantRemove", "remove", "removed"}
Locked == {"add", "build", "record", "remove"}

\* With one window that removes, no file goes between the end of a removal
\* and its entry's: what was imported meanwhile is whole.
Ending ==
    /\ \A w \in Windows : win[w].step \in Deleting => w \in Removers
    /\ \A w \in Windows : win[w].step \in Locked => lock = w
    /\ \A w \in Windows : win[w].step = "record" => disk.db
    /\ \A w \in Windows : win[w].step = "removed" /\ disk.record => disk.db

OneRemover == \A v, w \in Removers : v = w

\* A step that neither takes the lock nor touches database and record.
LEMMA EndingElsewhere ==
    ASSUME Ending, lock' = lock, disk'.db = disk.db, disk'.record = disk.record,
           \A w \in Windows : win'[w] = win[w] \/ win'[w].step \notin Deleting \cup Locked
    PROVE  Ending'
BY DEF Ending, Deleting, Locked

\* One window moves on to a screen.
LEMMA Moved ==
    ASSUME WindowsOK, NEW w \in Windows, NEW x, win' = [win EXCEPT ![w] = x]
    PROVE  win'[w] = x /\ \A v \in Windows : v # w => win'[v] = win[v]
BY DEF WindowsOK

LEMMA GoneTo ==
    ASSUME WindowsOK, NEW w \in Windows, NEW s, Goes(w, s)
    PROVE  win'[w].step = s /\ \A v \in Windows : v # w => win'[v] = win[v]
<1>1. win \in [Windows -> WindowType] /\ win[w] \in WindowType
  BY DEF WindowsOK
<1>2. win'[w] = [win[w] EXCEPT !.step = s]
  BY <1>1 DEF Goes
<1>3. QED
  BY <1>1, <1>2 DEF Goes, WindowType

LEMMA EndingAdding ==
    ASSUME IInv, Ending, NEW w \in Windows, Adding(w)
    PROVE  Ending'
<1>1. WindowsOK /\ Closed.step = "menu" /\ win[w] \in WindowType
  BY ClosedOK DEF IInv, Kinds, WindowsOK
<1>2. lock' = lock
  BY DEF Adding, TypeUrl, LookAtName, TypeKey, Offers, Fetch, NoteFetched, FetchFails, TakeZip, TypeZip,
         PickNetwork, TypeFeeds, CreateSource, StoreFeeds, Rest
<1>3. disk'.db = disk.db /\ disk'.record = disk.record
  <2>1. CASE Fetch(w)
    BY <2>1 DEF Fetch, IInv, Kinds, DiskOK
  <2>2. CASE NoteFetched(w)
    BY <2>2 DEF NoteFetched, IInv, Kinds, DiskOK
  <2>3. CASE TakeZip(w)
    BY <2>3 DEF TakeZip, IInv, Kinds, DiskOK
  <2>4. CASE ~Fetch(w) /\ ~NoteFetched(w) /\ ~TakeZip(w)
    BY <2>4 DEF Adding, TypeUrl, LookAtName, TypeKey, Offers, FetchFails, TypeZip,
                PickNetwork, TypeFeeds, CreateSource, StoreFeeds, Rest
  <2>5. QED
    BY <2>1, <2>2, <2>3, <2>4
<1>4. win'[w].step \notin Deleting \cup Locked /\ \A v \in Windows : v # w => win'[v] = win[v]
  <2>1. CASE \E s \in {"url", "key", "fetch", "net", "note", "rt", "store"} : Goes(w, s)
    BY <1>1, <2>1, GoneTo DEF Deleting, Locked
  <2>2. CASE \E x : win' = [win EXCEPT ![w] = x] /\ x.step \in {"menu", "naming", "key", "fetch", "create"}
    BY <1>1, <2>2, Moved DEF Deleting, Locked
  <2>3. CASE \E u \in Hosted, k \in BOOLEAN : TypeUrl(w, u, k)
    <3>1. PICK u \in Hosted, k \in BOOLEAN : TypeUrl(w, u, k)
      BY <2>3
    <3> DEFINE s == IF ~Listed THEN "naming" ELSE IF k THEN "key" ELSE "fetch"
               x == [win[w] EXCEPT !.url = u, !.key = IF k THEN "key" ELSE None,
                                   !.via = IF k THEN "key" ELSE "url", !.new = ~Listed, !.step = s]
    <3>2. win' = [win EXCEPT ![w] = x]
      BY <1>1, <3>1 DEF TypeUrl, WindowsOK
    <3>3. x.step = s
      BY <1>1 DEF WindowType
    <3> HIDE DEF x
    <3>4. QED
      BY <2>2, <3>2, <3>3
  <2>4. CASE TypeZip(w)
    <3> DEFINE x == [win[w] EXCEPT !.url = Kept, !.via = "url", !.step = "fetch"]
    <3>1. win' = [win EXCEPT ![w] = x]
      BY <1>1, <2>4 DEF TypeZip, WindowsOK
    <3>2. x.step = "fetch"
      BY <1>1 DEF WindowType
    <3> HIDE DEF x
    <3>3. QED
      BY <2>2, <3>1, <3>2
  <2>5. CASE \E n \in Networks : PickNetwork(w, n)
    <3>1. PICK n \in Networks : PickNetwork(w, n)
      BY <2>5
    <3> DEFINE x == [win[w] EXCEPT !.inner = n, !.via = "net", !.step = "fetch"]
    <3>2. win' = [win EXCEPT ![w] = x]
      BY <1>1, <3>1 DEF PickNetwork, WindowsOK
    <3>3. x.step = "fetch"
      BY <1>1 DEF WindowType
    <3> HIDE DEF x
    <3>4. QED
      BY <2>2, <3>2, <3>3
  <2>6. CASE \E f \in Feeds : TypeFeeds(w, f)
    <3>1. PICK f \in Feeds : TypeFeeds(w, f)
      BY <2>6
    <3> DEFINE e == Entry(win[w].url, win[w].inner, win[w].key, RtSeed)
               x == [win[w] EXCEPT !.feeds = f, !.step = "create", !.seed = e]
    <3>2. win' = [win EXCEPT ![w] = x] \/ win' = [win EXCEPT ![w] = Closed]
      BY <1>1, <3>1 DEF TypeFeeds, WindowsOK
    <3>3. x.step = "create"
      BY <1>1 DEF WindowType
    <3> HIDE DEF x
    <3>4. QED
      BY <1>1, <2>2, <3>2, <3>3
  <2>7. CASE StoreFeeds(w)
    BY <1>1, <2>2, <2>7 DEF StoreFeeds
  <2>8. CASE \/ LookAtName(w) \/ TypeKey(w) \/ Offers(w) \/ Fetch(w) \/ NoteFetched(w)
             \/ FetchFails(w) \/ TakeZip(w) \/ CreateSource(w)
    BY <2>1, <2>8 DEF LookAtName, TypeKey, Offers, Fetch, NoteFetched, FetchFails, TakeZip, CreateSource
  <2>9. QED
    BY <2>3, <2>4, <2>5, <2>6, <2>7, <2>8 DEF Adding
<1>5. QED
  BY <1>2, <1>3, <1>4, EndingElsewhere

\* The lock goes from none to the window that takes it.
LEMMA EndingUsing ==
    ASSUME IInv, Ending, NEW w \in Windows, Using(w) \/ Close(w)
    PROVE  Ending'
<1>1. WindowsOK /\ DiskOK /\ Closed.step = "menu"
  BY ClosedOK DEF IInv, Kinds
<1>2. None \notin Windows
  BY SetupAssumption
<1>3. CASE PickLine(w) \/ OpenSettings(w)
  <2>1. \E s \in {"wantImport", "settings"} : Goes(w, s)
    BY <1>3 DEF PickLine, OpenSettings
  <2>2. win'[w].step \notin Deleting \cup Locked /\ \A v \in Windows : v # w => win'[v] = win[v]
    BY <1>1, <2>1, GoneTo DEF Deleting, Locked
  <2>3. QED
    BY <1>3, <2>2, EndingElsewhere DEF PickLine, OpenSettings, Rest
<1>4. CASE \/ AddJourney(w) \/ Close(w)
           \/ \E f \in Feeds : SaveFeeds(w, f)
           \/ \E u \in Plain \cup {None}, k \in BOOLEAN, m \in {"off", "auto"} : SavePolicy(w, u, k, m)
  <2>1. win' = [win EXCEPT ![w] = Closed] /\ lock' = lock /\ disk' = disk
    BY <1>4 DEF AddJourney, Close, SaveFeeds, SavePolicy, Rest
  <2>2. win'[w].step \notin Deleting \cup Locked /\ \A v \in Windows : v # w => win'[v] = win[v]
    BY <1>1, <2>1, Moved DEF Deleting, Locked
  <2>3. QED
    BY <2>1, <2>2, EndingElsewhere
<1>5. CASE Import(w)
  <2>1. win'[w].step \in {"add", "build"} /\ \A v \in Windows : v # w => win'[v] = win[v]
    BY <1>1, <1>5, GoneTo DEF Import
  <2>2. lock = None /\ lock' = w /\ disk' = disk
    BY <1>5 DEF Import, Rest
  <2>3. QED
    BY <1>2, <2>1, <2>2 DEF Ending, Deleting, Locked
<1>6. CASE Imported(w)
  <2>1. lock = w
    BY <1>6 DEF Imported, At, Ending, Locked
  <2>2. CASE disk.zip = NoZip
    <3>1. win' = [win EXCEPT ![w] = Closed] /\ disk' = disk
      BY <1>6, <2>2 DEF Imported
    <3>2. win'[w] = Closed /\ \A v \in Windows : v # w => win'[v] = win[v]
      BY <1>1, <3>1, Moved
    <3>3. QED
      BY <1>1, <2>1, <3>1, <3>2 DEF Ending, Deleting, Locked
  <2>3. CASE disk.zip # NoZip
    <3>1. disk' = [disk EXCEPT !.db = TRUE] /\ Goes(w, IF At(w, "build") THEN "record" ELSE "journey")
          /\ lock' = IF At(w, "build") THEN w ELSE None
      BY <1>6, <2>3 DEF Imported
    <3>2. disk'.db = TRUE
      BY <1>1, <3>1 DEF DiskOK
    <3>3. /\ win'[w].step = IF At(w, "build") THEN "record" ELSE "journey"
          /\ \A v \in Windows : v # w => win'[v] = win[v]
      BY <1>1, <3>1, GoneTo
    <3>4. QED
      BY <2>1, <3>1, <3>2, <3>3 DEF Ending, Deleting, Locked
  <2>4. QED
    BY <2>2, <2>3
<1>7. CASE RecordNew(w)
  <2>1. lock = w /\ disk.db
    BY <1>7 DEF RecordNew, At, Ending, Locked
  <2>2. disk'.db = disk.db
    BY <1>1, <1>7 DEF RecordNew, DiskOK
  <2>3. win'[w].step = "journey" /\ \A v \in Windows : v # w => win'[v] = win[v]
    BY <1>1, <1>7, GoneTo DEF RecordNew
  <2>4. QED
    BY <2>1, <2>2, <2>3 DEF Ending, Deleting, Locked
<1>8. QED
  BY <1>3, <1>4, <1>5, <1>6, <1>7 DEF Using

LEMMA EndingRemoving ==
    ASSUME IInv, Ending, OneRemover, NEW w \in Windows, Removing(w)
    PROVE  Ending'
<1>1. WindowsOK /\ DiskOK /\ Closed.step = "menu"
  BY ClosedOK DEF IInv, Kinds
<1>2. None \notin Windows
  BY SetupAssumption
<1>3. CASE PickRemove(w)
  <2>1. w \in Removers /\ lock' = lock /\ disk' = disk
    BY <1>3 DEF PickRemove, Rest
  <2>2. win'[w].step = "wantRemove" /\ \A v \in Windows : v # w => win'[v] = win[v]
    BY <1>1, <1>3, GoneTo DEF PickRemove
  <2>3. QED
    BY <2>1, <2>2 DEF Ending, Deleting, Locked
<1>4. CASE Remove(w)
  <2>1. w \in Removers /\ lock = None /\ lock' = w /\ disk' = disk
    BY <1>4 DEF Remove, Rest, At, Ending, Deleting
  <2>2. win'[w].step = "remove" /\ \A v \in Windows : v # w => win'[v] = win[v]
    BY <1>1, <1>4, GoneTo DEF Remove
  <2>3. QED
    BY <1>2, <2>1, <2>2 DEF Ending, Deleting, Locked
<1>5. CASE RemoveFile(w)
  <2>1. win[w].step = "remove" /\ win' = win /\ lock' = lock
    BY <1>5 DEF RemoveFile, Rest, At
  <2>2. lock = w /\ w \in Removers
    BY <2>1 DEF Ending, Deleting, Locked
  <2>3. \A v \in Windows : win[v].step \notin {"record", "removed"}
    <3>1. \A v \in Windows : win[v].step = "record" => v = w
      BY <2>2 DEF Ending, Locked
    <3>2. \A v \in Windows : win[v].step = "removed" => v = w
      BY <2>2 DEF Ending, Deleting, OneRemover
    <3>3. QED
      BY <2>1, <3>1, <3>2
  <2>4. QED
    BY <2>1, <2>3 DEF Ending
<1>6. CASE RemoveFails(w)
  <2>1. lock = w /\ disk' = disk
    BY <1>6 DEF RemoveFails, At, Rest, Ending, Locked
  <2>2. win'[w] = Closed /\ \A v \in Windows : v # w => win'[v] = win[v]
    BY <1>1, <1>6, Moved DEF RemoveFails
  <2>3. QED
    BY <1>1, <2>1, <2>2 DEF Ending, Deleting, Locked
<1>7. CASE RemovedFiles(w)
  <2>1. lock = w /\ w \in Removers /\ disk' = disk
    BY <1>7 DEF RemovedFiles, At, Rest, Ending, Locked, Deleting
  <2>2. disk.record = FALSE
    BY <1>7 DEF RemovedFiles, Remaining, RemovalOrder, Gone
  <2>3. win'[w].step \in {"removed", "menu"} /\ \A v \in Windows : v # w => win'[v] = win[v]
    BY <1>1, <1>7, GoneTo, Moved DEF RemovedFiles
  <2>4. QED
    BY <2>1, <2>2, <2>3 DEF Ending, Deleting, Locked
<1>8. CASE RemoveEntry(w)
  <2>1. lock' = lock /\ disk' = disk
    BY <1>8 DEF RemoveEntry, Rest
  <2>2. \A v \in Windows : win'[v] = win[v] \/ win'[v] = Closed
    BY <1>8 DEF RemoveEntry, WithoutEntry
  <2>3. QED
    BY <1>1, <2>1, <2>2, EndingElsewhere DEF Deleting, Locked
<1>9. QED
  BY <1>3, <1>4, <1>5, <1>6, <1>7, <1>8 DEF Removing

LEMMA EndingOutside ==
    ASSUME IInv, Ending,
           \/ Toggle \/ DeleteEntry \/ Booting \/ BootFails \/ Restart
           \/ \E j \in Journeys : DeleteJourney(j)
           \/ UNCHANGED vars
    PROVE  Ending'
<1>1. Closed.step = "menu"
  BY DEF Closed
<1>2. CASE Restart
  <2>1. \A v \in Windows : win'[v] = Closed
    BY <1>2 DEF Restart
  <2>2. QED
    BY <1>1, <2>1 DEF Ending, Deleting, Locked
<1>3. CASE ~Restart
  <2>1. lock' = lock /\ disk' = disk
    BY <1>3 DEF Toggle, DeleteEntry, DeleteJourney, Booting, BootStart, BootList, BootTake, BootCreate,
                BootDrop, BootFails, Rest, vars
  <2>2. \A v \in Windows : win'[v] = win[v] \/ win'[v] = Closed
    BY <1>3 DEF Toggle, DeleteEntry, DeleteJourney, Booting, BootStart, BootList, BootTake, BootCreate,
                BootDrop, BootFails, Rest, WithoutEntry, vars
  <2>3. QED
    BY <1>1, <2>1, <2>2, EndingElsewhere DEF Deleting, Locked
<1>4. QED
  BY <1>2, <1>3

----------------------------------------------------------------------------
(* The theorems *)

LEMMA InitInv == ASSUME Init PROVE IInv /\ Hosting
<1>1. EntriesOK
  <2>1. [Entry(Kept, None, "unsaid", 0) EXCEPT !.mode = "auto"] \in EntryType
    BY DEF Entry, EntryType, Urls, SetupAssumption
  <2>2. QED
    BY <2>1 DEF Init, EntriesOK
<1>2. JourneysOK
  BY HeldAssumption DEF Init, JourneysOK, HeldAssumption
<1>3. OwnZip \in Zips /\ NoZip \in Zips /\ OwnZip # NoZip
  BY DEF OwnZip, NoZip, Zips, Own, None
<1>4. DiskOK /\ disk.said = None
  <2>1. CASE disk = Gone
    BY <1>3, <2>1 DEF DiskOK, Gone
  <2>2. CASE disk = [Gone EXCEPT !.zip = OwnZip]
    BY <1>3, <2>2 DEF DiskOK, Gone
  <2>3. CASE disk = [zip |-> OwnZip, said |-> None, db |-> TRUE, record |-> TRUE]
    BY <1>3, <2>3 DEF DiskOK
  <2>4. QED
    BY <2>1, <2>2, <2>3 DEF Init
<1>5. WindowsOK
  BY ClosedOK DEF Init, WindowsOK
<1>6. BootOK /\ boot.at = "off"
  BY DEF Init, BootOK, Blank
<1>7. TakenSoFar
  BY <1>6 DEF TakenSoFar
<1>8. \A w \in Windows : win[w].url \notin Hosted /\ win[w].step = "menu"
  BY DEF Init, Closed
<1>9. Hosting
  BY <1>4, <1>8 DEF Hosting
<1>10. QED
  BY <1>1, <1>2, <1>4, <1>5, <1>6, <1>7, <1>9 DEF Init, IInv, Kinds

LEMMA StepInv == ASSUME IInv, [Next]_vars PROVE IInv' /\ Merges /\ Keeps
<1>1. ASSUME NEW w \in Windows, Adding(w) PROVE IInv' /\ Merges /\ Keeps
  BY <1>1, TypeUrlStep, LookAtNameStep, TypeKeyStep, OffersStep, FetchStep, NoteFetchedStep,
     FetchFailsStep, TakeZipStep, TypeZipStep, PickNetworkStep, TypeFeedsStep,
     CreateSourceStep, StoreFeedsStep DEF Adding
<1>2. ASSUME NEW w \in Windows, Using(w) PROVE IInv' /\ Merges /\ Keeps
  BY <1>2, LineSteps, AddJourneyStep, SaveFeedsStep, SavePolicyStep DEF Using
<1>3. ASSUME NEW w \in Windows, Removing(w) \/ Close(w) PROVE IInv' /\ Merges /\ Keeps
  BY <1>3, RemovalSteps, RemoveFileStep, RemoveEntryStep DEF Removing
<1>4. CASE Toggle \/ DeleteEntry \/ \E j \in Journeys : DeleteJourney(j)
  BY <1>4, ToggleStep, DeleteEntryStep, DeleteJourneyStep
<1>5. CASE Booting \/ BootFails \/ Restart
  BY <1>5, BootBegins, BootTakeStep, BootCreateStep, BootDropStep, BootFailsStep DEF Booting
<1>6. CASE UNCHANGED vars
  <2>1. UNCHANGED <<entries, journeys, boot, disk, lock, win, edits>>
    BY <1>6 DEF vars
  <2>2. QED
    BY <2>1, QuietWindow, Same
<1>7. QED
  BY <1>1, <1>2, <1>3, <1>4, <1>5, <1>6 DEF Next

LEMMA StepHosting == ASSUME IInv, Hosting, OneAdder, [Next]_vars PROVE Hosting'
<1>1. ASSUME NEW w \in Windows, Adding(w) PROVE Hosting'
  BY <1>1, HostingTypeUrl, HostingLookAtName, HostingTypeZip, HostingPickNetwork,
     HostingFetch, HostingTakeZip, HostingTypeFeeds, HostingSameDisk, HostingUsing DEF Adding
<1>2. ASSUME NEW w \in Windows, Using(w) \/ Removing(w) \/ Close(w) PROVE Hosting'
  BY <1>2, HostingUsing, HostingRemoving DEF Using
<1>3. QED
  BY <1>1, <1>2, HostingElsewhere DEF Next

\* Every variable keeps its type: what a screen typed, what the journeys held
\* and what a start took over are all an entry is made of.
THEOREM TypeCorrect == Spec => []TypeOK
<1>1. IInv => TypeOK
  <2>1. ASSUME IInv PROVE \A i \in DOMAIN entries : entries[i] \in EntryType
    BY <2>1, EntriesAre DEF IInv, Kinds, Listed
  <2>2. QED
    BY <2>1 DEF IInv, Kinds, TypeOK, EntryType, JourneysOK, DiskOK, BootOK
<1>2. QED
  BY <1>1, InitInv, StepInv, PTL DEF Spec

\* async_ensure_datasource_entry: one entry per source, whoever makes it.
THEOREM OneEntryAlways == Spec => []OneEntryPerSource
<1>1. IInv => OneEntryPerSource
  BY EntriesAre DEF IInv, Kinds, OneEntryPerSource
<1>2. QED
  BY <1>1, InitInv, StepInv, PTL DEF Spec

\* What one screen saves, the options of another keep.
THEOREM SavesMergeAlways == Spec => SavesMerge
<1>1. IInv /\ [Next]_vars => [Merges]_vars
  BY StepInv
<1>2. [Merges]_vars <=> [entries # <<>> /\ entries' # <<>> =>
         LET a == entries[1]  b == entries'[1]
         IN  \/ b = [a EXCEPT !.feeds = b.feeds]
             \/ b = [a EXCEPT !.on = b.on]
             \/ b = [a EXCEPT !.url = b.url, !.key = b.key, !.mode = b.mode]]_vars
  BY DEF Merges
<1>3. QED
  BY <1>1, <1>2, InitInv, StepInv, PTL DEF Spec, SavesMerge

\* async_bootstrap_datasource_entries and _drop_journey_copies: no key and no
\* feeds are lost on the way from the journeys to their source's entry.
THEOREM TakeOverKeepsAlways == Spec => TakeOverKeeps
<1>1. IInv /\ [Next]_vars => [Keeps]_vars
  BY StepInv
<1>2. [Keeps]_vars <=> [win' = win /\ edits' = edits
       => /\ StaticKey = "key" => StaticKey' = "key"
          /\ \A j \in Read : FeedsOf(j) # 0 => FeedsOf(j)' # 0]_vars
  BY DEF Keeps
<1>3. QED
  BY <1>1, <1>2, InitInv, StepInv, PTL DEF Spec, TakeOverKeeps

\* _name_taken_elsewhere is enough as long as one window adds the source.
THEOREM OwnsItsZip == ASSUME OneAdder PROVE Spec => NewSourceOwnsItsZip
<1>1. Hosting => \A w \in Windows :
         win[w].step = "create" /\ win[w].new /\ win[w].url \in Hosted /\ disk.zip # NoZip
           => disk.zip.from = win[w].url
  BY DEF Hosting
<1>2. Hosting /\ [Next]_vars => [\A w \in Windows : At(w, "create") /\ win'[w].step = "store"
          /\ win[w].new /\ win[w].url \in Hosted /\ disk.zip # NoZip
       => disk.zip.from = win[w].url]_vars
  BY <1>1 DEF At
<1>3. QED
  BY <1>2, InitInv, StepInv, StepHosting, OneAdder, PTL DEF Spec, NewSourceOwnsItsZip

\* async_step_remove and remove_datasource: as long as one window removes,
\* the entry leaves no record of an edition without its database.
THEOREM EntryLeavesLastAlways == ASSUME OneRemover PROVE Spec => EntryLeavesLast
<1> DEFINE Leaves == disk.record /\ ~disk.db /\ Listed /\ entries' = <<>> => edits' # edits
<1>1. Init => Ending
  BY DEF Init, Closed, Ending, Deleting, Locked
<1>2. IInv /\ Ending /\ [Next]_vars => Ending'
  <2>1. ASSUME IInv, Ending, NEW w \in Windows, Adding(w) \/ Using(w) \/ Removing(w) \/ Close(w)
        PROVE  Ending'
    BY <2>1, OneRemover, EndingAdding, EndingUsing, EndingRemoving
  <2>2. QED
    BY <2>1, EndingOutside DEF Next
<1>3. IInv /\ Ending /\ [Next]_vars => [Leaves]_vars
  <2>1. SUFFICES ASSUME IInv, Ending, Next, disk.record, ~disk.db, Listed, entries' = <<>> PROVE edits' # edits
    OBVIOUS
  <2>2. entries # <<>> /\ EntriesOK /\ edits \in Nat
    BY <2>1 DEF Listed, IInv, Kinds
  <2>3. CASE \E w \in Windows : RemoveEntry(w)
    BY <2>1, <2>3 DEF RemoveEntry, At, Ending
  <2>4. CASE DeleteEntry
    BY <2>2, <2>4 DEF DeleteEntry, Edit
  <2>5. CASE ~DeleteEntry /\ ~\E w \in Windows : RemoveEntry(w)
    <3>1. \/ entries' = entries
          \/ \E e : entries' = [entries EXCEPT ![1] = e]
          \/ \E e : entries' = Created(e)
          \/ entries' = [i \in DOMAIN entries |-> TakenKey(entries[i])]
      <4>1. ASSUME NEW w \in Windows, Adding(w) \/ Using(w) \/ Removing(w) \/ Close(w)
            PROVE  \/ entries' = entries
                   \/ \E e : entries' = [entries EXCEPT ![1] = e]
                   \/ \E e : entries' = Created(e)
        BY <2>5, <4>1
           DEF Adding, TypeUrl, LookAtName, TypeKey, Offers, Fetch, NoteFetched, FetchFails, TakeZip, TypeZip,
               PickNetwork, TypeFeeds, CreateSource, StoreFeeds, Using, PickLine, Import, Imported, RecordNew,
               AddJourney, OpenSettings, SaveFeeds, SavePolicy, Removing, PickRemove, Remove, RemoveFile,
               RemoveFails, RemovedFiles, Close, Rest
      <4>2. CASE Toggle \/ \E j \in Journeys : DeleteJourney(j)
        BY <4>2 DEF Toggle, DeleteJourney, Rest
      <4>3. CASE Booting \/ BootFails \/ Restart
        BY <4>3 DEF Booting, BootStart, BootList, BootTake, BootCreate, BootDrop, BootFails, Restart, Rest
      <4>4. QED
        BY <2>1, <2>5, <4>1, <4>2, <4>3 DEF Next
    <3>2. PICK f \in EntryType : entries = <<f>>
      BY <2>2 DEF EntriesOK
    <3>3. DOMAIN entries = {1}
      BY <3>2
    <3>4. DOMAIN entries' # {}
      <4>1. ASSUME NEW e, entries' = Created(e) PROVE entries' = entries
        BY <2>1, <4>1 DEF Created
      <4>2. QED
        BY <3>1, <3>3, <4>1
    <3>5. QED
      BY <2>1, <3>4
  <2>6. QED
    BY <2>3, <2>4, <2>5
<1>4. [Leaves]_vars <=> [disk.record /\ ~disk.db /\ Listed /\ entries' = <<>> => edits' # edits]_vars
  OBVIOUS
<1>5. QED
  BY <1>1, <1>2, <1>3, <1>4, InitInv, StepInv, PTL DEF Spec, EntryLeavesLast
=============================================================================
