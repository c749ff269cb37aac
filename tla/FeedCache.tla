------------------------------ MODULE FeedCache ------------------------------
(***************************************************************************)
(* The shared reading of realtime feeds (feed/rt_feed.py).  Every sensor's *)
(* coordinator asks for its source's feeds from an executor thread; one    *)
(* lock per feed is held across the download, what was read is kept until  *)
(* the feed's next publication is due, a failure is remembered a while,    *)
(* and feeds nobody asks for are forgotten.                                *)
(*                                                                         *)
(* A step is what a thread does between two accesses to the module's       *)
(* dictionaries that another thread can come between.  Time is a number of *)
(* ticks, never 0: the dictionaries' missing entries are zeros.            *)
(***************************************************************************)
EXTENDS Naturals, FiniteSets

CONSTANTS
    Readers,    \* executor threads, one call of get_gtfs_feed_entities each at a time
    Feeds,      \* the cache's keys: (owner, url, label)
    Stamped,    \* the feeds whose header says when they were published
    TTL,        \* FEED_CACHE_TTL
    FailTTL,    \* FEED_FAIL_TTL
    Keep,       \* FEED_CACHE_KEEP
    Lag,        \* FEED_PUBLISH_LAG
    MaxAge,     \* FEED_CACHE_MAX_AGE
    BeatMax,    \* FEED_BEAT_MAX
    Beat,       \* how often the host publishes
    LastTick    \* bound: when the clock stops

ASSUME FeedAssumption ==
    /\ {TTL, FailTTL, Keep, Lag, MaxAge, BeatMax, Beat, LastTick} \subseteq Nat \ {0}
    /\ IsFiniteSet(Readers)
    /\ Stamped \subseteq Feeds
    /\ FailTTL < TTL
    /\ TTL < MaxAge
    /\ MaxAge < Keep
    /\ Beat + Lag <= MaxAge
    /\ Beat <= LastTick

VARIABLES
    now,        \* time.time()
    shown,      \* the publication the host answers with, one beat for its feeds
    cache,      \* _FEED_CACHE: what was read last, and when
    failed,     \* _FEED_FAILED: when a feed failed
    published,  \* _FEED_PUBLISHED: its last publication and its beat
    lockOf,     \* _FEED_CACHE_LOCKS: each feed's lock, 0 for none
    pc,         \* where each thread stands
    loc,        \* its locals
    failing     \* history: when a feed's host last failed a thread under its lock
                \* of now, 0 once it answered one

dicts == <<cache, failed, published, lockOf>>
vars == <<now, shown, dicts, pc, loc, failing>>

Ticks == 1..LastTick
Publications == 1..LastTick

\* The identities a feed's locks take: one more than the threads that can
\* hold an earlier one.
Locks == 1..(Cardinality(Readers) + 1)

NotRead == [when |-> 0, pub |-> 0]
NoBeat == [at |-> 0, beat |-> 0]
NoCall == [feed |-> "none", lock |-> 0, stale |-> {}, got |-> 0, had |-> 0]

\* Between two calls, the last one answered or raised; under the guard; holding
\* the feed's lock.
Resting == {"idle", "raised"}
Guarded == {"forget", "forgetFailed"}
Holding == {"fetch", "store"}
Steps == Resting \cup {"wait"} \cup Guarded \cup Holding

\* Every variable has its type.
TypeOK ==
    /\ now \in Ticks
    /\ shown \in Publications
    /\ cache \in [Feeds -> [when : Ticks \cup {0}, pub : Publications \cup {0}]]
    /\ failed \in [Feeds -> Ticks \cup {0}]
    /\ published \in [Feeds -> [at : Ticks \cup {0}, beat : 0..BeatMax]]
    /\ lockOf \in [Feeds -> Locks \cup {0}]
    /\ pc \in [Readers -> Steps]
    /\ loc \in [Readers -> [feed : Feeds \cup {"none"}, lock : Locks \cup {0},
                            stale : SUBSET Feeds, got : Publications \cup {0},
                            had : Publications \cup {0}]]
    /\ failing \in [Feeds -> Ticks \cup {0}]

\* What the header says of the publication numbered k.
StampOf(f, k) == IF f \in Stamped THEN k * Beat ELSE 0

\* The first tick is a moment of a long run: a feed was never read, or was
\* read just now, with the beat its earlier readings gave it.
Init ==
    /\ now = Beat
    /\ shown = 1
    /\ \E read \in SUBSET Feeds, beat \in {k \in 0..BeatMax : k % Beat = 0} :
          /\ cache = [f \in Feeds |-> IF f \in read THEN [when |-> now, pub |-> 1] ELSE NotRead]
          /\ published = [f \in Feeds |-> IF f \in read \cap Stamped
                                          THEN [at |-> StampOf(f, 1), beat |-> beat] ELSE NoBeat]
          /\ lockOf = [f \in Feeds |-> IF f \in read THEN 1 ELSE 0]
    /\ failed = [f \in Feeds |-> 0] /\ failing = failed
    /\ pc = [r \in Readers |-> "idle"]
    /\ loc = [r \in Readers |-> NoCall]

-----------------------------------------------------------------------------
(***************************************************************************)
(* The clock of the cache.                                                 *)
(***************************************************************************)

\* Kept past its TTL: its beat known, its next publication not due yet.
NotDue(f, lag) ==
    /\ published[f].at # 0
    /\ published[f].beat # 0
    /\ now < published[f].at + published[f].beat + lag

\* _still_current.  DueAtOnce is a slip: the host's lag is left out.  AnyAge
\* is another: nothing bounds the age.
DueAtOnce(f, fetched) == now - fetched < TTL \/ (now - fetched < MaxAge /\ NotDue(f, 0))
AnyAge(f, fetched) == now - fetched < TTL \/ NotDue(f, Lag)
StillCurrent(f, fetched) == now - fetched < TTL \/ (now - fetched < MaxAge /\ NotDue(f, Lag))

\* _note_publication: the shortest gap seen between two publications.
Noted(last, at) ==
    LET gap == at - last.at
        beat == IF last.beat # 0 /\ last.beat < gap THEN last.beat ELSE gap
    IN  IF at = 0 THEN NoBeat
        ELSE [at |-> at,
              beat |-> IF last.at = 0 \/ at = last.at THEN last.beat
                       ELSE IF at < last.at \/ beat > BeatMax THEN 0
                       ELSE beat]

\* The keys a pass forgets: those last touched before the keep, but the
\* caller's own.
Old(stamps, f) == {k \in Feeds \ {f} : stamps[k] # 0 /\ stamps[k] + Keep < now}

-----------------------------------------------------------------------------
(***************************************************************************)
(* get_gtfs_feed_entities.                                                 *)
(***************************************************************************)
Goto(r, step) == pc' = [pc EXCEPT ![r] = step]

\* A lock nobody holds or waits for by an earlier entry of the dictionary.
NewLock(f) == CHOOSE lock \in Locks : \A s \in Readers : loc[s].feed = f => loc[s].lock # lock

\* The guard is taken: the feed's lock is found or made, and the cache's
\* old entries are listed.
Ask(r, f) ==
    /\ pc[r] \in Resting
    /\ \A s \in Readers : pc[s] \notin Guarded
    /\ LET lock == IF lockOf[f] = 0 THEN NewLock(f) ELSE lockOf[f]
       IN  /\ lockOf' = [lockOf EXCEPT ![f] = lock]
           /\ failing' = IF lockOf[f] = 0 THEN [failing EXCEPT ![f] = 0] ELSE failing
           /\ loc' = [loc EXCEPT ![r] = [NoCall EXCEPT
                         !.feed = f, !.lock = lock,
                         !.stale = Old([k \in Feeds |-> cache[k].when], f)]]
    /\ Goto(r, "forget")
    /\ UNCHANGED <<now, shown, cache, failed, published>>

\* _forget_old_feeds, its first loop: an entry listed goes with its lock,
\* its failure and its beat; then the old failures are listed.
Forget(r) ==
    /\ pc[r] = "forget"
    /\ \/ \E k \in loc[r].stale :
             /\ cache' = [cache EXCEPT ![k] = NotRead]
             /\ lockOf' = [lockOf EXCEPT ![k] = 0]
             /\ failed' = [failed EXCEPT ![k] = 0]
             /\ published' = [published EXCEPT ![k] = NoBeat]
             /\ loc' = [loc EXCEPT ![r].stale = @ \ {k}]
             /\ UNCHANGED pc
       \/ /\ loc[r].stale = {}
          /\ loc' = [loc EXCEPT ![r].stale = Old(failed, loc[r].feed)]
          /\ Goto(r, "forgetFailed")
          /\ UNCHANGED <<cache, lockOf, failed, published>>
    /\ UNCHANGED <<now, shown, failing>>

\* The call is over, by an answer or by an exception.
Leave(r, step) ==
    /\ Goto(r, step)
    /\ loc' = [loc EXCEPT ![r] = NoCall]
Return(r) == Leave(r, "idle")

\* Its second loop: "del" raises, which ends the call, when the feed's own
\* thread, which holds the feed's lock and not the guard, popped the
\* failure meanwhile.
ForgetFailed(r) ==
    /\ pc[r] = "forgetFailed"
    /\ \/ /\ loc[r].stale = {}
          /\ Goto(r, "wait")
          /\ UNCHANGED <<failed, lockOf, loc>>
       \/ \E k \in loc[r].stale :
             /\ failed[k] # 0
             /\ failed' = [failed EXCEPT ![k] = 0]
             /\ lockOf' = [lockOf EXCEPT ![k] = 0]
             /\ loc' = [loc EXCEPT ![r].stale = @ \ {k}]
             /\ UNCHANGED pc
       \/ /\ \E k \in loc[r].stale : failed[k] = 0
          /\ Leave(r, "raised")
          /\ UNCHANGED <<failed, lockOf>>
    /\ UNCHANGED <<now, shown, cache, published, failing>>

LockFree(r) ==
    \A s \in Readers : pc[s] \in Holding => loc[s].feed # loc[r].feed \/ loc[s].lock # loc[r].lock

\* The feed's lock is had: what was read is served while current, a feed
\* that failed a moment ago is not asked, any other is downloaded.
Acquire(r) ==
    /\ pc[r] = "wait"
    /\ LockFree(r)
    /\ LET f == loc[r].feed
           hit == cache[f].when # 0 /\ StillCurrent(f, cache[f].when)
           justFailed == failed[f] # 0 /\ now - failed[f] < FailTTL
       IN  \/ (hit /\ Return(r))
           \/ (~hit /\ justFailed /\ Return(r))
           \/ /\ ~hit /\ ~justFailed
              /\ loc' = [loc EXCEPT ![r].had = IF published[f].beat # 0 THEN cache[f].pub ELSE 0]
              /\ Goto(r, "fetch")
    /\ UNCHANGED <<now, shown, dicts, failing>>

\* The host answers with what it shows.
Fetch(r) ==
    /\ pc[r] = "fetch"
    /\ loc' = [loc EXCEPT ![r].got = shown]
    /\ Goto(r, "store")
    /\ UNCHANGED <<now, shown, dicts, failing>>

Store(r) ==
    /\ pc[r] = "store"
    /\ LET f == loc[r].feed IN
       /\ published' = [published EXCEPT ![f] = Noted(@, StampOf(f, loc[r].got))]
       /\ cache' = [cache EXCEPT ![f] = [when |-> now, pub |-> loc[r].got]]
       /\ failed' = [failed EXCEPT ![f] = 0]
       /\ failing' = [failing EXCEPT ![f] = 0]
    /\ Return(r)
    /\ UNCHANGED <<now, shown, lockOf>>

\* Whoever still holds a lock the feed had before counts for nothing.
NoteFailing(r) ==
    failing' = IF loc[r].lock = lockOf[loc[r].feed]
               THEN [failing EXCEPT ![loc[r].feed] = now] ELSE failing

\* The host does not answer, or not with a feed.  FailDeadline is a slip:
\* when to ask again is kept in place of when it failed.  FailForgets is
\* another: nothing is kept of the failure.
FailDeadline(r) ==
    /\ pc[r] = "fetch"
    /\ failed' = [failed EXCEPT ![loc[r].feed] = now + FailTTL]
    /\ NoteFailing(r)
    /\ Return(r)
    /\ UNCHANGED <<now, shown, cache, published, lockOf>>
FailForgets(r) ==
    /\ pc[r] = "fetch"
    /\ NoteFailing(r)
    /\ Return(r)
    /\ UNCHANGED <<now, shown, dicts>>
Fail(r) ==
    /\ pc[r] = "fetch"
    /\ failed' = [failed EXCEPT ![loc[r].feed] = now]
    /\ NoteFailing(r)
    /\ Return(r)
    /\ UNCHANGED <<now, shown, cache, published, lockOf>>

\* What a call does once it has begun, waiting for the feed's lock apart.
Proceed(r) == Forget(r) \/ ForgetFailed(r) \/ Fetch(r) \/ Store(r) \/ Fail(r)

-----------------------------------------------------------------------------
(***************************************************************************)
(* The host publishes on a steady beat, a moment late, less than the lag   *)
(* the cache allows for.  An answer that began is stored within the tick,  *)
(* and the guard is held for less than one.                                *)
(***************************************************************************)
Publish ==
    /\ (shown + 1) * Beat <= now
    /\ shown' = shown + 1
    /\ UNCHANGED <<now, dicts, pc, loc, failing>>

Tick ==
    /\ now < LastTick
    /\ now + 1 < (shown + 1) * Beat + Lag
    /\ \A r \in Readers : pc[r] \notin Guarded \cup {"store"}
    /\ now' = now + 1
    /\ UNCHANGED <<shown, dicts, pc, loc, failing>>

Next ==
    \/ \E r \in Readers, f \in Feeds : Ask(r, f)
    \/ \E r \in Readers : Proceed(r) \/ Acquire(r)
    \/ Publish
    \/ Tick

Spec == Init /\ [][Next]_vars

-----------------------------------------------------------------------------
(***************************************************************************)
(* What must hold.                                                         *)
(***************************************************************************)

\* A feed whose beat is known is not downloaded again for the publication
\* the cache already holds ("one of them the same bytes again").
NoRepeat == \A r \in Readers : pc[r] = "store" /\ loc[r].had # 0 => loc[r].got # loc[r].had

\* Whatever beat the cache believes in, a beat learnt across missed
\* publications among them, it serves nothing the host replaced MaxAge ago,
\* a replacement counted from the last moment the host's lag leaves it.
NotLeftBehind ==
    \A f \in Feeds : cache[f].when # 0 /\ StillCurrent(f, cache[f].when) =>
        now + 1 < (cache[f].pub + 1) * Beat + Lag + MaxAge

\* The sensors of a feed whose host is down, queued behind the download that
\* failed among them, do not each wait it out in turn: once it failed one of
\* them it is asked again only FailTTL later, or after an answer.  A feed that
\* was forgotten, its lock with it, is a new one.
Spared ==
    [][\A r \in Readers :
          LET f == loc[r].feed IN
          pc[r] = "wait" /\ pc'[r] = "fetch" /\ loc[r].lock = lockOf[f] =>
              failing[f] = 0 \/ now - failing[f] >= FailTTL]_vars

\* A call ends by an answer, the feed's or none.
NoneRaises == \A r \in Readers : pc[r] # "raised"

\* A feed is downloaded by one thread at a time: what its lock is held for.
OneFetch ==
    \A r, s \in Readers :
        pc[r] \in Holding /\ pc[s] \in Holding /\ loc[r].feed = loc[s].feed => r = s
=============================================================================
