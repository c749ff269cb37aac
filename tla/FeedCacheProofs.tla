-------------------------- MODULE FeedCacheProofs --------------------------
(***************************************************************************)
(* What FeedCache keeps for any readers, any feeds and any pace of the     *)
(* host within what FeedAssumption says: the types, that a publication the *)
(* cache holds is not downloaded again once its beat is known, that none   *)
(* is served long after the host replaced it, and that a host that failed  *)
(* is left alone a while.                                                  *)
(***************************************************************************)
EXTENDS FeedCache, FiniteSetTheorems, TLAPS

USE FeedAssumption DEF FeedAssumption

LocalsOf == [feed : Feeds \cup {"none"}, lock : Locks \cup {0}, stale : SUBSET Feeds,
             got : Publications \cup {0}, had : Publications \cup {0}]

\* The host keeps its beat, a moment late.
Clock ==
    /\ shown * Beat <= now
    /\ now < (shown + 1) * Beat + Lag

\* A feed's two memories are of one reading, made before the next publication
\* was due of the host, and a beat spans a publication.
FeedOK(c, b, f) ==
    /\ c.when = 0 => c.pub = 0
    /\ c.when <= now /\ c.pub <= shown /\ c.pub * Beat <= c.when
    /\ c.when < (c.pub + 1) * Beat + Lag
    /\ b.at = (IF c.pub = 0 THEN 0 ELSE StampOf(f, c.pub))
    /\ b.at = 0 => b.beat = 0
    /\ b.beat # 0 => b.beat >= Beat

\* A thread that downloads a feed of a known beat does so when the host shows
\* more than the cache holds, and stores the answer before the next is due.
CallOK(step, l) ==
    /\ step \notin Resting => l.feed \in Feeds /\ l.lock \in Locks
    /\ step \in {"fetch", "store"} /\ l.had # 0 => l.had < shown
    /\ step = "store" => /\ l.got # 0 /\ l.got <= shown /\ (l.had # 0 => l.had < l.got)
                         /\ now < (l.got + 1) * Beat + Lag

FeedsOK == \A f \in Feeds : FeedOK(cache[f], published[f], f)
CallsOK == \A r \in Readers : CallOK(pc[r], loc[r])

\* While a feed keeps its lock, its failure memory is as young as what it is
\* the memory of.
FailOK(fails, kept, lock) ==
    /\ fails <= now
    /\ fails # 0 /\ lock # 0 => fails <= kept
FailsOK == \A f \in Feeds : FailOK(failing[f], failed[f], lockOf[f])

IInv == TypeOK /\ Clock /\ FeedsOK /\ CallsOK /\ FailsOK

----------------------------------------------------------------------------
(* Arithmetic of the beats *)

LEMMA BeatOf ==
    ASSUME NEW j \in Nat
    PROVE  j * Beat \in Nat /\ j <= j * Beat /\ (j + 1) * Beat = j * Beat + Beat
<1>1. Beat \in Nat /\ Beat > 0
  OBVIOUS
<1>2. QED
  BY <1>1

LEMMA Beats ==
    ASSUME NEW j \in Nat, NEW k \in Nat, j <= k
    PROVE  /\ j * Beat \in Nat /\ k * Beat \in Nat
           /\ j * Beat <= k * Beat
           /\ j < k => j * Beat + Beat <= k * Beat
<1>1. Beat \in Nat /\ Beat > 0
  OBVIOUS
<1>2. PICK d \in Nat : k = j + d
  OBVIOUS
<1>3. k * Beat = j * Beat + d * Beat /\ d * Beat \in Nat /\ j * Beat \in Nat
  BY <1>1, <1>2
<1>4. d > 0 => d * Beat >= Beat
  BY <1>1
<1>5. QED
  BY <1>1, <1>2, <1>3, <1>4

----------------------------------------------------------------------------
(* Locks *)

\* There are more locks than threads that can hold an earlier one.
LEMMA NewLockIsOne ==
    ASSUME loc \in [Readers -> LocalsOf], NEW f
    PROVE  NewLock(f) \in Locks
<1> DEFINE n == Cardinality(Readers)
           S == {t \in Readers : loc[t].feed = f}
           taken == {loc[s].lock : s \in S}
           holds == [s \in S |-> loc[s].lock]
<1>1. n \in Nat /\ IsFiniteSet(S) /\ Cardinality(S) <= n
  BY FS_CardinalityType, FS_Subset
<1>2. IsFiniteSet(taken) /\ Cardinality(taken) <= Cardinality(S)
  <2>1. holds \in Surjection(S, taken)
    BY DEF Surjection
  <2>2. QED
    BY <1>1, <2>1, FS_Surjection
<1>3. IsFiniteSet(Locks) /\ Cardinality(Locks) = n + 1
  <2>1. 1 \in Int /\ n + 1 \in Int /\ ~(1 > n + 1)
    BY <1>1
  <2>2. IsFiniteSet(1..(n + 1)) /\ Cardinality(1..(n + 1)) = (n + 1) - 1 + 1
    BY <2>1, FS_Interval
  <2>3. QED
    BY <1>1, <2>2 DEF Locks
<1>4. Locks \ taken # {}
  <2>1. ASSUME Locks \subseteq taken PROVE FALSE
    <3>1. Cardinality(Locks) <= Cardinality(taken)
      BY <1>2, <2>1, FS_Subset
    <3>2. Cardinality(taken) \in Nat /\ Cardinality(S) \in Nat
      BY <1>1, <1>2, FS_CardinalityType
    <3>3. QED
      BY <1>1, <1>2, <1>3, <3>1, <3>2
  <2>2. QED
    BY <2>1
<1>5. \E lock \in Locks : \A s \in Readers : loc[s].feed = f => loc[s].lock # lock
  BY <1>4
<1>6. QED
  BY <1>5 DEF NewLock

----------------------------------------------------------------------------
(* Parts of a step *)

LEMMA Types ==
    ASSUME IInv
    PROVE  /\ now \in Nat /\ now >= 1 /\ now <= LastTick
           /\ shown \in Nat /\ shown >= 1
           /\ loc \in [Readers -> LocalsOf] /\ pc \in [Readers -> Steps]
           /\ \A f \in Feeds : /\ cache[f].when \in Nat /\ cache[f].pub \in Nat
                               /\ published[f].at \in Nat /\ published[f].beat \in 0..BeatMax
                               /\ failed[f] \in Nat /\ failing[f] \in Nat
                               /\ failing[f] <= now
BY DEF FailsOK, FailOK, IInv, TypeOK, Ticks, Publications, LocalsOf

\* A thread goes on, the clock, the host and the memories left alone.
LEMMA CallStep ==
    ASSUME IInv, UNCHANGED <<now, shown, cache, published>>, NEW r \in Readers,
           NEW p \in Steps, NEW l \in LocalsOf, CallOK(p, l),
           pc' = [pc EXCEPT ![r] = p], loc' = [loc EXCEPT ![r] = l],
           lockOf' \in [Feeds -> Locks \cup {0}], failed' \in [Feeds -> Ticks \cup {0}],
           failing' \in [Feeds -> Ticks \cup {0}], FailsOK'
    PROVE  IInv'
<1>1. pc' \in [Readers -> Steps] /\ loc' \in [Readers -> LocalsOf]
  BY Types
<1>2. TypeOK'
  BY <1>1 DEF IInv, TypeOK, LocalsOf
<1>3. Clock' /\ FeedsOK'
  BY DEF IInv, Clock, FeedsOK, FeedOK, StampOf
<1>4. \A s \in Readers : pc'[s] = (IF s = r THEN p ELSE pc[s]) /\ loc'[s] = (IF s = r THEN l ELSE loc[s])
  BY Types
<1>5. CallsOK'
  BY <1>4 DEF IInv, CallsOK, CallOK
<1>6. QED
  BY <1>2, <1>3, <1>5 DEF IInv

LEMMA NoCallIs == NoCall \in LocalsOf /\ \A step \in Resting : CallOK(step, NoCall)
BY DEF NoCall, LocalsOf, CallOK, Resting

\* What is forgotten of a feed goes with its lock.
LEMMA FailsKept ==
    ASSUME IInv, UNCHANGED <<now, failing>>,
           \A f \in Feeds : lockOf'[f] = 0 \/ (lockOf'[f] = lockOf[f] /\ failed'[f] = failed[f])
    PROVE  FailsOK' /\ failing' \in [Feeds -> Ticks \cup {0}]
<1>1. FailsOK'
  BY DEF IInv, FailsOK, FailOK
<1>2. QED
  BY <1>1 DEF IInv, TypeOK

LEMMA AskStep ==
    ASSUME IInv, NEW r \in Readers, NEW f \in Feeds, Ask(r, f)
    PROVE  IInv'
<1> DEFINE lock == IF lockOf[f] = 0 THEN NewLock(f) ELSE lockOf[f]
           old == Old([k \in Feeds |-> cache[k].when], f)
           l == [NoCall EXCEPT !.feed = f, !.lock = lock, !.stale = old]
<1>1. lock \in Locks
  BY Types, NewLockIsOne DEF IInv, TypeOK
<1>2. old \in SUBSET Feeds
  BY DEF Old
<1> HIDE DEF lock, old
<1>3. l \in LocalsOf /\ l.feed = f /\ l.lock \in Locks
  BY <1>1, <1>2 DEF NoCall, LocalsOf
<1>4. CallOK("forget", l)
  BY <1>3 DEF CallOK, Resting
<1>5. /\ lockOf' = [lockOf EXCEPT ![f] = lock]
      /\ failing' = IF lockOf[f] = 0 THEN [failing EXCEPT ![f] = 0] ELSE failing
      /\ loc' = [loc EXCEPT ![r] = l]
      /\ pc' = [pc EXCEPT ![r] = "forget"]
      /\ UNCHANGED <<now, shown, cache, failed, published>>
  BY DEF Ask, Goto, lock, old
<1>6. lockOf' \in [Feeds -> Locks \cup {0}] /\ failed' \in [Feeds -> Ticks \cup {0}]
  BY <1>1, <1>5 DEF IInv, TypeOK
<1>7. FailsOK' /\ failing' \in [Feeds -> Ticks \cup {0}]
  <2>1. CASE lockOf[f] = 0
    <3>1. failing' \in [Feeds -> Ticks \cup {0}] /\ now \in Nat
      BY <1>5, <2>1, Types DEF IInv, TypeOK
    <3>2. \A k \in Feeds : /\ failing'[k] = IF k = f THEN 0 ELSE failing[k]
                           /\ lockOf'[k] = IF k = f THEN lock ELSE lockOf[k]
      BY <1>5, <2>1 DEF IInv, TypeOK
    <3>3. FailsOK'
      BY <1>5, <3>1, <3>2 DEF IInv, FailsOK, FailOK
    <3>4. QED
      BY <3>1, <3>3
  <2>2. CASE lockOf[f] # 0
    <3>1. lockOf' = lockOf
      BY <1>5, <2>2 DEF lock, IInv, TypeOK
    <3>2. QED
      BY <1>5, <2>2, <3>1, FailsKept
  <2>3. QED
    BY <2>1, <2>2
<1>8. QED
  BY <1>3, <1>4, <1>5, <1>6, <1>7, CallStep DEF Steps, Guarded

\* One feed's memories are replaced.
LEMMA FeedStep ==
    ASSUME IInv, UNCHANGED <<now, shown>>, NEW f \in Feeds,
           NEW c \in [when : Ticks \cup {0}, pub : Publications \cup {0}],
           NEW b \in [at : Ticks \cup {0}, beat : 0..BeatMax], FeedOK(c, b, f),
           cache' = [cache EXCEPT ![f] = c], published' = [published EXCEPT ![f] = b]
    PROVE  /\ cache' \in [Feeds -> [when : Ticks \cup {0}, pub : Publications \cup {0}]]
           /\ published' \in [Feeds -> [at : Ticks \cup {0}, beat : 0..BeatMax]]
           /\ Clock' /\ FeedsOK'
<1>1. \A k \in Feeds : cache'[k] = (IF k = f THEN c ELSE cache[k])
                       /\ published'[k] = (IF k = f THEN b ELSE published[k])
  BY DEF IInv, TypeOK
<1>2. FeedsOK'
  BY <1>1 DEF IInv, FeedsOK, FeedOK, StampOf
<1>3. QED
  BY <1>2 DEF IInv, TypeOK, Clock

LEMMA Forgotten == ASSUME IInv, NEW f PROVE
    /\ NotRead \in [when : Ticks \cup {0}, pub : Publications \cup {0}]
    /\ NoBeat \in [at : Ticks \cup {0}, beat : 0..BeatMax]
    /\ FeedOK(NotRead, NoBeat, f)
<1>1. now \in Nat /\ shown \in Nat /\ 0 * Beat = 0
  BY Types
<1>2. QED
  BY <1>1 DEF NotRead, NoBeat, FeedOK

LEMMA ForgetStep ==
    ASSUME IInv, NEW r \in Readers, Forget(r)
    PROVE  IInv'
<1>1. /\ loc[r] \in LocalsOf /\ pc[r] = "forget"
      /\ loc[r].feed \in Feeds /\ loc[r].lock \in Locks
      /\ UNCHANGED <<now, shown, failing>>
  BY Types DEF Forget, IInv, CallsOK, CallOK, Resting
<1>2. CASE loc[r].stale = {} /\ pc' # pc
  <2> DEFINE old == Old(failed, loc[r].feed)
             l == [loc[r] EXCEPT !.stale = old]
  <2>1. old \in SUBSET Feeds
    BY DEF Old
  <2> HIDE DEF old
  <2>2. l \in LocalsOf /\ l.feed = loc[r].feed /\ l.lock = loc[r].lock
    BY <1>1, <2>1 DEF LocalsOf
  <2>3. CallOK("forgetFailed", l)
    BY <1>1, <2>2 DEF CallOK
  <2>4. /\ loc' = [loc EXCEPT ![r] = l] /\ pc' = [pc EXCEPT ![r] = "forgetFailed"]
        /\ UNCHANGED <<now, shown, cache, lockOf, failed, published>>
    BY <1>2 DEF Forget, Goto, old
  <2>5. FailsOK' /\ failing' \in [Feeds -> Ticks \cup {0}]
    BY <1>1, <2>4, FailsKept
  <2>6. QED
    BY <2>2, <2>3, <2>4, <2>5, CallStep DEF Steps, Guarded, IInv, TypeOK
<1>3. CASE pc' = pc
  <2>1. PICK k \in loc[r].stale :
           /\ cache' = [cache EXCEPT ![k] = NotRead]
           /\ lockOf' = [lockOf EXCEPT ![k] = 0]
           /\ failed' = [failed EXCEPT ![k] = 0]
           /\ published' = [published EXCEPT ![k] = NoBeat]
           /\ loc' = [loc EXCEPT ![r].stale = @ \ {k}]
           /\ UNCHANGED <<now, shown>>
    BY <1>1, <1>3, Types DEF Forget, Goto
  <2>2. k \in Feeds
    BY <1>1, <2>1 DEF LocalsOf
  <2>3. /\ cache' \in [Feeds -> [when : Ticks \cup {0}, pub : Publications \cup {0}]]
        /\ published' \in [Feeds -> [at : Ticks \cup {0}, beat : 0..BeatMax]]
        /\ Clock' /\ FeedsOK'
    BY <2>1, <2>2, Forgotten, FeedStep
  <2>4. loc' \in [Readers -> LocalsOf] /\ \A q \in Readers :
           /\ loc'[q].feed = loc[q].feed /\ loc'[q].lock = loc[q].lock
           /\ loc'[q].got = loc[q].got /\ loc'[q].had = loc[q].had
    BY <2>1, Types DEF LocalsOf
  <2>5. CallsOK'
    BY <1>3, <2>1, <2>4 DEF IInv, CallsOK, CallOK
  <2>6. FailsOK' /\ failing' \in [Feeds -> Ticks \cup {0}]
    <3>1. \A f \in Feeds : lockOf'[f] = 0 \/ (lockOf'[f] = lockOf[f] /\ failed'[f] = failed[f])
      BY <2>1, <2>2 DEF IInv, TypeOK
    <3>2. QED
      BY <1>1, <3>1, FailsKept
  <2>7. TypeOK'
    BY <1>3, <2>1, <2>3, <2>4, <2>6 DEF IInv, TypeOK, LocalsOf
  <2>8. QED
    BY <2>3, <2>5, <2>6, <2>7 DEF IInv
<1>4. QED
  BY <1>2, <1>3 DEF Forget

LEMMA ForgetFailedStep ==
    ASSUME IInv, NEW r \in Readers, ForgetFailed(r)
    PROVE  IInv'
<1>1. /\ loc[r] \in LocalsOf /\ pc[r] = "forgetFailed"
      /\ loc[r].feed \in Feeds /\ loc[r].lock \in Locks
      /\ UNCHANGED <<now, shown, cache, published, failing>>
      /\ lockOf \in [Feeds -> Locks \cup {0}] /\ failed \in [Feeds -> Ticks \cup {0}]
  BY Types DEF ForgetFailed, IInv, TypeOK, CallsOK, CallOK, Resting
<1>2. CASE Goto(r, "wait") /\ UNCHANGED <<failed, lockOf, loc>>
  <2>1. CallOK("wait", loc[r]) /\ loc' = [loc EXCEPT ![r] = loc[r]] /\ pc' = [pc EXCEPT ![r] = "wait"]
    BY <1>1, <1>2, Types DEF CallOK, Goto
  <2>2. FailsOK' /\ failing' \in [Feeds -> Ticks \cup {0}]
    BY <1>1, <1>2, FailsKept
  <2>3. QED
    BY <1>1, <1>2, <2>1, <2>2, CallStep DEF Steps
<1>3. ASSUME NEW k \in loc[r].stale,
             failed' = [failed EXCEPT ![k] = 0], lockOf' = [lockOf EXCEPT ![k] = 0],
             loc' = [loc EXCEPT ![r].stale = @ \ {k}], UNCHANGED pc
      PROVE  IInv'
  <2> DEFINE l == [loc[r] EXCEPT !.stale = @ \ {k}]
  <2>1. l \in LocalsOf /\ l.feed = loc[r].feed /\ l.lock = loc[r].lock /\ k \in Feeds
    BY <1>1 DEF LocalsOf
  <2>2. CallOK("forgetFailed", l)
    BY <1>1, <2>1 DEF CallOK
  <2>3. loc' = [loc EXCEPT ![r] = l] /\ pc' = [pc EXCEPT ![r] = "forgetFailed"]
    BY <1>1, <1>3, Types
  <2>4. lockOf' \in [Feeds -> Locks \cup {0}] /\ failed' \in [Feeds -> Ticks \cup {0}]
    BY <1>1, <1>3
  <2>5. FailsOK' /\ failing' \in [Feeds -> Ticks \cup {0}]
    <3>1. \A f \in Feeds : lockOf'[f] = 0 \/ (lockOf'[f] = lockOf[f] /\ failed'[f] = failed[f])
      BY <1>1, <1>3, <2>1
    <3>2. QED
      BY <1>1, <3>1, FailsKept
  <2>6. QED
    BY <1>1, <2>1, <2>2, <2>3, <2>4, <2>5, CallStep DEF Steps, Guarded
<1>4. CASE Leave(r, "raised") /\ UNCHANGED <<failed, lockOf>>
  <2>1. FailsOK' /\ failing' \in [Feeds -> Ticks \cup {0}]
    BY <1>1, <1>4, FailsKept
  <2>2. QED
    BY <1>1, <1>4, <2>1, NoCallIs, CallStep DEF Leave, Goto, Steps, Resting
<1>5. QED
  BY <1>2, <1>3, <1>4 DEF ForgetFailed

\* A feed no longer current, of a known beat: the host shows more than was read.
LEMMA PastDue ==
    ASSUME IInv, NEW f \in Feeds, cache[f].when # 0, published[f].beat # 0, cache[f].pub # 0,
           ~StillCurrent(f, cache[f].when)
    PROVE  cache[f].pub < shown
<1> DEFINE k == cache[f].pub
           w == cache[f].when
           due == published[f].at + published[f].beat + Lag
<1>1. k \in Nat /\ w \in Nat /\ shown \in Nat /\ now \in Nat /\ k <= shown
      /\ published[f].at \in Nat /\ published[f].beat \in Nat
  BY Types DEF IInv, FeedsOK, FeedOK
<1>2. /\ k * Beat <= w /\ published[f].beat >= Beat /\ published[f].at # 0
      /\ published[f].at = k * Beat /\ w <= now
  BY DEF IInv, FeedsOK, FeedOK, StampOf
<1>3. now - w >= MaxAge \/ now >= due
  BY <1>1, <1>2 DEF StillCurrent, NotDue
<1>4. k * Beat \in Nat /\ (k + 1) * Beat = k * Beat + Beat
  BY <1>1, BeatOf
<1>5. now >= k * Beat + Beat + Lag
  <2>1. CASE now - w >= MaxAge
    BY <1>1, <1>2, <1>4, <2>1
  <2>2. CASE now >= due
    BY <1>1, <1>2, <1>4, <2>2
  <2>3. QED
    BY <1>3, <2>1, <2>2
<1>6. ASSUME shown = k PROVE FALSE
  BY <1>1, <1>4, <1>5, <1>6 DEF IInv, Clock
<1>7. QED
  BY <1>1, <1>6

LEMMA AcquireStep ==
    ASSUME IInv, NEW r \in Readers, Acquire(r)
    PROVE  IInv'
<1> DEFINE f == loc[r].feed
           had == IF published[f].beat # 0 THEN cache[f].pub ELSE 0
           l == [loc[r] EXCEPT !.had = had]
<1>1. /\ loc[r] \in LocalsOf /\ pc[r] = "wait" /\ f \in Feeds /\ loc[r].lock \in Locks
      /\ UNCHANGED <<now, shown, cache, published, lockOf, failed, failing>>
      /\ lockOf' \in [Feeds -> Locks \cup {0}] /\ failed' \in [Feeds -> Ticks \cup {0}]
  BY Types DEF Acquire, IInv, TypeOK, CallsOK, CallOK, dicts, Resting
<1>f. FailsOK' /\ failing' \in [Feeds -> Ticks \cup {0}]
  BY <1>1, FailsKept
<1>2. CASE Return(r)
  BY <1>1, <1>f, <1>2, NoCallIs, CallStep DEF Return, Leave, Goto, Steps, Resting
<1>3. CASE /\ ~(cache[f].when # 0 /\ StillCurrent(f, cache[f].when))
           /\ loc' = [loc EXCEPT ![r].had = IF published[f].beat # 0 THEN cache[f].pub ELSE 0]
           /\ Goto(r, "fetch")
  <2>1. had \in Publications \cup {0}
    BY <1>1 DEF IInv, TypeOK
  <2>2. had # 0 => had < shown
    <3>1. ASSUME had # 0 PROVE had < shown
      <4>1. published[f].beat # 0 /\ cache[f].pub # 0 /\ had = cache[f].pub
        BY <3>1
      <4>2. cache[f].when # 0
        BY <1>1, <4>1 DEF IInv, FeedsOK, FeedOK
      <4>3. QED
        BY <1>1, <1>3, <4>1, <4>2, PastDue
    <3>2. QED
      BY <3>1
  <2>3. loc' = [loc EXCEPT ![r] = l] /\ pc' = [pc EXCEPT ![r] = "fetch"]
    BY <1>3 DEF Goto
  <2> HIDE DEF had
  <2>4. l \in LocalsOf /\ l.feed = f /\ l.lock = loc[r].lock /\ l.had = had
    BY <1>1, <2>1 DEF LocalsOf
  <2>5. CallOK("fetch", l)
    BY <1>1, <2>2, <2>4 DEF CallOK
  <2> HIDE DEF l
  <2>6. QED
    BY <1>1, <1>f, <2>3, <2>4, <2>5, CallStep DEF Steps, Holding
<1>4. QED
  BY <1>2, <1>3 DEF Acquire

LEMMA FetchStep ==
    ASSUME IInv, NEW r \in Readers, Fetch(r)
    PROVE  IInv'
<1> DEFINE l == [loc[r] EXCEPT !.got = shown]
<1>1. /\ loc[r] \in LocalsOf /\ pc[r] = "fetch"
      /\ loc[r].feed \in Feeds /\ loc[r].lock \in Locks
      /\ shown \in Publications /\ shown \in Nat /\ shown >= 1
      /\ loc[r].had # 0 => loc[r].had < shown
      /\ now < (shown + 1) * Beat + Lag
      /\ UNCHANGED <<now, shown, cache, published, lockOf, failed, failing>>
      /\ lockOf' \in [Feeds -> Locks \cup {0}] /\ failed' \in [Feeds -> Ticks \cup {0}]
  BY Types DEF Fetch, IInv, TypeOK, Clock, CallsOK, CallOK, dicts, Resting
<1>2. l \in LocalsOf /\ l.feed = loc[r].feed /\ l.lock = loc[r].lock /\ l.had = loc[r].had /\ l.got = shown
  BY <1>1 DEF LocalsOf
<1>3. CallOK("store", l)
  BY <1>1, <1>2 DEF CallOK
<1>4. loc' = [loc EXCEPT ![r] = l] /\ pc' = [pc EXCEPT ![r] = "store"]
  BY DEF Fetch, Goto
<1> HIDE DEF l
<1>5. FailsOK' /\ failing' \in [Feeds -> Ticks \cup {0}]
  BY <1>1, FailsKept
<1>6. QED
  BY <1>1, <1>2, <1>3, <1>4, <1>5, CallStep DEF Steps, Holding

LEMMA FailStep ==
    ASSUME IInv, NEW r \in Readers, Fail(r)
    PROVE  IInv'
<1> DEFINE f == loc[r].feed
<1>1. /\ f \in Feeds /\ UNCHANGED <<now, shown, cache, published, lockOf>>
      /\ failed' = [failed EXCEPT ![f] = now]
      /\ failing' = [failing EXCEPT ![f] = now] \/ failing' = failing
  BY DEF Fail, NoteFailing, IInv, CallsOK, CallOK, Resting
<1>2. /\ failed' \in [Feeds -> Ticks \cup {0}] /\ lockOf' \in [Feeds -> Locks \cup {0}]
      /\ failing' \in [Feeds -> Ticks \cup {0}]
  BY <1>1 DEF IInv, TypeOK
<1>3. FailsOK'
  <2>1. \A k \in Feeds : /\ failed'[k] = IF k = f THEN now ELSE failed[k]
                         /\ failing'[k] = failing[k] \/ (k = f /\ failing'[k] = now)
    BY <1>1 DEF IInv, TypeOK
  <2>2. QED
    BY <1>1, <2>1, Types DEF IInv, FailsOK, FailOK
<1>4. QED
  BY <1>1, <1>2, <1>3, NoCallIs, CallStep DEF Fail, Return, Leave, Goto, Steps, Resting

\* _note_publication: the beat learnt spans a publication at least.
LEMMA NotedOK ==
    ASSUME IInv, NEW f \in Feeds, NEW k \in Publications, k <= shown,
           now < (k + 1) * Beat + Lag
    PROVE  /\ Noted(published[f], StampOf(f, k)) \in [at : Ticks \cup {0}, beat : 0..BeatMax]
           /\ FeedOK([when |-> now, pub |-> k], Noted(published[f], StampOf(f, k)), f)
<1> DEFINE last == published[f]
           at == StampOf(f, k)
           gap == at - last.at
           short == IF last.beat # 0 /\ last.beat < gap THEN last.beat ELSE gap
           beat == IF last.at = 0 \/ at = last.at THEN last.beat
                   ELSE IF at < last.at \/ short > BeatMax THEN 0
                   ELSE short
           noted == Noted(last, at)
<1>1. /\ now \in Nat /\ now >= 1 /\ now <= LastTick /\ shown \in Nat /\ k \in Nat /\ k >= 1
      /\ last.at \in Nat /\ last.beat \in Nat /\ last.beat <= BeatMax /\ BeatMax \in Nat
  BY Types DEF Publications
<1>2. k * Beat \in Nat /\ k * Beat <= now /\ 1 <= k * Beat
  <2>1. k * Beat \in Nat /\ shown * Beat \in Nat /\ k * Beat <= shown * Beat /\ k <= k * Beat
    BY <1>1, Beats, BeatOf
  <2>2. shown * Beat <= now
    BY DEF IInv, Clock
  <2>3. QED
    BY <1>1, <2>1, <2>2
<1>3. at \in Ticks \cup {0} /\ at \in Nat /\ (at # 0 => at = k * Beat /\ f \in Stamped)
  BY <1>1, <1>2 DEF StampOf, Ticks
<1>4. last.at = 0 => last.beat = 0
  BY DEF IInv, FeedsOK, FeedOK
<1>5. last.beat # 0 => last.beat >= Beat
  BY DEF IInv, FeedsOK, FeedOK
<1>6. at # 0 /\ last.at # 0 /\ at > last.at => gap >= Beat
  <2>1. PICK j \in Nat : last.at # 0 => last.at = j * Beat
    BY <1>1, Types DEF IInv, FeedsOK, FeedOK, StampOf
  <2>2. ASSUME at # 0, last.at # 0, at > last.at PROVE gap >= Beat
    <3>1. at = k * Beat /\ last.at = j * Beat
      BY <1>3, <2>1, <2>2
    <3>2. j * Beat \in Nat
      BY <2>1, BeatOf
    <3>3. j < k
      <4>1. ASSUME k <= j PROVE FALSE
        <5>1. k * Beat <= j * Beat
          BY <1>1, <2>1, <4>1, Beats
        <5>2. at <= last.at
          BY <3>1, <5>1
        <5>3. at \in Nat /\ last.at \in Nat
          BY <1>1, <1>3
        <5> HIDE DEF at, last
        <5>4. QED
          BY <2>2, <5>2, <5>3
      <4>2. QED
        BY <1>1, <2>1, <4>1
    <3>4. j * Beat + Beat <= k * Beat
      BY <1>1, <2>1, <3>3, Beats
    <3>5. QED
      BY <1>2, <3>1, <3>2, <3>4
  <2>3. QED
    BY <2>2
<1>7. at # 0 => beat \in 0..BeatMax /\ (beat # 0 => beat >= Beat)
  BY <1>1, <1>3, <1>4, <1>5, <1>6
<1>8. CASE at = 0
  <2>1. noted = NoBeat
    BY <1>8 DEF Noted
  <2>2. NoBeat = [at |-> 0, beat |-> 0]
    BY DEF NoBeat
  <2>3. QED
    BY <1>1, <1>2, <1>8, <2>1, <2>2 DEF FeedOK, Ticks
<1>9. CASE at # 0
  <2>1. noted = [at |-> at, beat |-> beat]
    BY <1>9 DEF Noted
  <2> HIDE DEF at, beat
  <2>2. noted \in [at : Ticks \cup {0}, beat : 0..BeatMax] /\ noted.at = at /\ noted.beat = beat
    BY <1>3, <1>7, <1>9, <2>1
  <2>3. FeedOK([when |-> now, pub |-> k], noted, f)
    BY <1>1, <1>2, <1>7, <1>9, <2>2 DEF FeedOK, at
  <2>4. QED
    BY <2>2, <2>3 DEF at
<1>10. QED
  BY <1>8, <1>9

LEMMA StoreStep ==
    ASSUME IInv, NEW r \in Readers, Store(r)
    PROVE  IInv'
<1> DEFINE f == loc[r].feed
           c == [when |-> now, pub |-> loc[r].got]
           b == Noted(published[f], StampOf(f, loc[r].got))
<1>1. /\ f \in Feeds /\ loc[r].got \in Publications /\ loc[r].got <= shown
      /\ now < (loc[r].got + 1) * Beat + Lag
      /\ now \in Ticks /\ UNCHANGED <<now, shown, lockOf>>
  BY Types DEF Store, IInv, TypeOK, CallsOK, CallOK, LocalsOf, Resting
<1>2. c \in [when : Ticks \cup {0}, pub : Publications \cup {0}]
  BY <1>1
<1>3. b \in [at : Ticks \cup {0}, beat : 0..BeatMax] /\ FeedOK(c, b, f)
  BY <1>1, NotedOK
<1>4. cache' = [cache EXCEPT ![f] = c] /\ published' = [published EXCEPT ![f] = b]
  BY DEF Store
<1> HIDE DEF b, c
<1>5. /\ cache' \in [Feeds -> [when : Ticks \cup {0}, pub : Publications \cup {0}]]
      /\ published' \in [Feeds -> [at : Ticks \cup {0}, beat : 0..BeatMax]]
      /\ Clock' /\ FeedsOK'
  BY <1>1, <1>2, <1>3, <1>4, FeedStep
<1>6. /\ pc' = [pc EXCEPT ![r] = "idle"] /\ loc' = [loc EXCEPT ![r] = NoCall]
      /\ failed' \in [Feeds -> Ticks \cup {0}] /\ failing' \in [Feeds -> Ticks \cup {0}]
  BY DEF Store, Return, Leave, Goto, IInv, TypeOK
<1>7. pc' \in [Readers -> Steps] /\ loc' \in [Readers -> LocalsOf]
  BY <1>6, Types, NoCallIs DEF Steps, Resting
<1>8. CallsOK'
  <2>1. \A q \in Readers : /\ pc'[q] = IF q = r THEN "idle" ELSE pc[q]
                           /\ loc'[q] = IF q = r THEN NoCall ELSE loc[q]
    BY <1>6, Types
  <2>2. QED
    BY <1>1, <2>1, NoCallIs DEF IInv, CallsOK, CallOK, Resting
<1>9. FailsOK'
  <2>1. \A k \in Feeds : /\ failed'[k] = IF k = f THEN 0 ELSE failed[k]
                         /\ failing'[k] = IF k = f THEN 0 ELSE failing[k]
    BY DEF Store, IInv, TypeOK
  <2>2. QED
    BY <1>1, <2>1, Types DEF IInv, FailsOK, FailOK
<1>10. QED
  BY <1>1, <1>5, <1>6, <1>7, <1>8, <1>9 DEF IInv, TypeOK, LocalsOf

----------------------------------------------------------------------------
(* The host and the clock *)

LEMMA PublishStep == ASSUME IInv, Publish PROVE IInv'
<1>1. /\ shown' = shown + 1 /\ shown' * Beat <= now
      /\ UNCHANGED <<now, cache, failed, published, lockOf, pc, loc, failing>>
  BY DEF Publish, dicts
<1>2. /\ shown' \in Nat /\ shown' <= shown' * Beat
      /\ (shown + 1) * Beat \in Nat
      /\ (shown' + 1) * Beat = shown' * Beat + Beat
  <2>1. shown + 1 \in Nat
    BY Types
  <2>2. /\ shown + 1 <= (shown + 1) * Beat
        /\ (shown + 1) * Beat \in Nat
        /\ ((shown + 1) + 1) * Beat = (shown + 1) * Beat + Beat
    BY <2>1, BeatOf
  <2>3. QED
    BY <1>1, <2>1, <2>2
<1>3. shown' \in Publications
  BY <1>1, <1>2, Types DEF Publications
<1>4. TypeOK'
  BY <1>1, <1>3 DEF IInv, TypeOK
<1>5. Clock'
  BY <1>1, <1>2, Types DEF IInv, Clock
<1>6. FeedsOK'
  BY <1>1, Types DEF IInv, FeedsOK, FeedOK, StampOf
<1>7. CallsOK'
  <2>1. \A r \in Readers : loc[r].had \in Nat /\ loc[r].got \in Nat
    BY Types DEF LocalsOf, Publications
  <2>2. QED
    BY <1>1, <2>1, Types DEF IInv, CallsOK, CallOK
<1>8. FailsOK'
  BY <1>1, FailsKept
<1>9. QED
  BY <1>4, <1>5, <1>6, <1>7, <1>8 DEF IInv

LEMMA TickStep == ASSUME IInv, Tick PROVE IInv'
<1>1. /\ now' = now + 1 /\ now' <= LastTick /\ now' < (shown + 1) * Beat + Lag
      /\ UNCHANGED <<shown, cache, failed, published, lockOf, pc, loc, failing>>
  BY Types DEF Tick, dicts
<1>2. TypeOK'
  BY <1>1, Types DEF IInv, TypeOK, Ticks
<1>3. Clock'
  <2>1. shown * Beat \in Nat
    BY Types, Beats, BeatOf
  <2>2. QED
    BY <1>1, <2>1, Types DEF IInv, Clock
<1>4. FeedsOK'
  BY <1>1, Types DEF IInv, FeedsOK, FeedOK, StampOf
<1>5. CallsOK'
  BY <1>1 DEF IInv, CallsOK, CallOK, Tick
<1>6. FailsOK'
  BY <1>1, Types DEF IInv, FailsOK, FailOK
<1>7. QED
  BY <1>2, <1>3, <1>4, <1>5, <1>6 DEF IInv

LEMMA InitInv == ASSUME Init PROVE IInv
<1>1. PICK read \in SUBSET Feeds, beat \in {k \in 0..BeatMax : k % Beat = 0} :
          /\ cache = [f \in Feeds |-> IF f \in read THEN [when |-> now, pub |-> 1] ELSE NotRead]
          /\ published = [f \in Feeds |-> IF f \in read \cap Stamped
                                          THEN [at |-> StampOf(f, 1), beat |-> beat] ELSE NoBeat]
          /\ lockOf = [f \in Feeds |-> IF f \in read THEN 1 ELSE 0]
  BY DEF Init
<1>2. now = Beat /\ shown = 1 /\ 1 * Beat = Beat /\ (1 + 1) * Beat = Beat + Beat
      /\ now \in Ticks /\ 1 \in Publications
  BY BeatOf DEF Init, Ticks, Publications
<1>3. beat \in 0..BeatMax /\ (beat # 0 => beat >= Beat)
  <2>1. ASSUME beat # 0, beat < Beat PROVE FALSE
    <3>1. beat % Beat = beat
      BY <2>1
    <3>2. QED
      BY <2>1, <3>1
  <2>2. QED
    BY <2>1
<1>4. \A f \in Feeds : FeedOK(cache[f], published[f], f)
  <2>1. ASSUME NEW f \in Feeds PROVE FeedOK(cache[f], published[f], f)
    <3>1. CASE f \in read \cap Stamped
      BY <1>1, <1>2, <1>3, <3>1 DEF FeedOK, StampOf
    <3>2. CASE f \in read \ Stamped
      BY <1>1, <1>2, <3>2 DEF FeedOK, StampOf, NoBeat
    <3>3. CASE f \notin read
      <4>1. cache[f] = NotRead /\ published[f] = NoBeat /\ 0 * Beat = 0
        BY <1>1, <3>3
      <4>2. QED
        BY <1>2, <4>1 DEF FeedOK, NotRead, NoBeat
    <3>4. QED
      BY <3>1, <3>2, <3>3
  <2>2. QED
    BY <2>1
<1>5. 1 \in Locks
  <2>1. Cardinality(Readers) \in Nat
    BY FS_CardinalityType
  <2>2. QED
    BY <2>1 DEF Locks
<1>6. /\ cache \in [Feeds -> [when : Ticks \cup {0}, pub : Publications \cup {0}]]
      /\ published \in [Feeds -> [at : Ticks \cup {0}, beat : 0..BeatMax]]
      /\ lockOf \in [Feeds -> Locks \cup {0}]
  BY <1>1, <1>2, <1>3, <1>5 DEF NotRead, NoBeat, StampOf
<1>7. TypeOK
  BY <1>2, <1>6, NoCallIs DEF Init, TypeOK, LocalsOf, Steps, Resting
<1>8. CallsOK
  BY NoCallIs DEF Init, CallsOK, Resting
<1>9. Clock
  BY <1>2 DEF Clock
<1>10. FailsOK
  BY <1>2 DEF Init, FailsOK, FailOK, Ticks
<1>11. QED
  BY <1>4, <1>7, <1>8, <1>9, <1>10 DEF IInv, FeedsOK

LEMMA StepInv == ASSUME IInv, [Next]_vars PROVE IInv'
<1>1. CASE UNCHANGED vars
  BY <1>1 DEF vars, dicts, IInv, TypeOK, Clock, FeedsOK, FeedOK, StampOf, CallsOK, CallOK,
     FailsOK, FailOK
<1>2. QED
  BY <1>1, AskStep, ForgetStep, ForgetFailedStep, AcquireStep, FetchStep, StoreStep, FailStep,
     PublishStep, TickStep DEF Next, Proceed

\* Every variable keeps its type; there is a lock to give however many of a
\* feed's were forgotten while threads held them.
THEOREM TypeCorrect == Spec => []TypeOK
<1>1. IInv => TypeOK
  BY DEF IInv
<1>2. QED
  BY <1>1, InitInv, StepInv, PTL DEF Spec

\* _still_current: a publication held, of a feed whose beat is known, is not
\* downloaded again, whatever beat was learnt and whoever forgot what.
THEOREM NoRepeatAlways == Spec => []NoRepeat
<1>1. IInv => NoRepeat
  <2>1. ASSUME IInv, NEW r \in Readers, pc[r] = "store", loc[r].had # 0
        PROVE  loc[r].got # loc[r].had
    <3>1. loc[r].had \in Nat /\ loc[r].got \in Nat
      BY <2>1, Types DEF LocalsOf, Publications
    <3>2. QED
      BY <2>1, <3>1 DEF IInv, CallsOK, CallOK
  <2>2. QED
    BY <2>1 DEF NoRepeat
<1>2. QED
  BY <1>1, InitInv, StepInv, PTL DEF Spec

\* _still_current: however its beat was learnt, a reading is served less than
\* MaxAge, and it was made before the host's next publication was due.
THEOREM NeverLeftBehind == Spec => []NotLeftBehind
<1>1. IInv => NotLeftBehind
  <2>1. ASSUME IInv, NEW f \in Feeds, cache[f].when # 0, StillCurrent(f, cache[f].when)
        PROVE  now + 1 < (cache[f].pub + 1) * Beat + Lag + MaxAge
    <3> DEFINE due == (cache[f].pub + 1) * Beat
    <3>1. cache[f].when \in Nat /\ now \in Nat /\ due \in Nat
      <4>1. cache[f].pub + 1 \in Nat
        BY <2>1, Types
      <4>2. QED
        BY <2>1, <4>1, Types, BeatOf
    <3>2. cache[f].when < due + Lag
      BY <2>1 DEF IInv, FeedsOK, FeedOK
    <3>3. now - cache[f].when < MaxAge
      BY <2>1, <3>1 DEF StillCurrent
    <3> HIDE DEF due
    <3>4. now + 1 < due + Lag + MaxAge
      BY <3>1, <3>2, <3>3
    <3>5. QED
      BY <3>4 DEF due
  <2>2. QED
    BY <2>1 DEF NotLeftBehind
<1>2. QED
  BY <1>1, InitInv, StepInv, PTL DEF Spec

\* get_gtfs_feed_entities, _FEED_FAILED: whoever still holds an older lock of
\* the feed, a thread with its lock of now asks a host that failed one only
\* when FailTTL is over or an answer came.
THEOREM SparedAlways == Spec => Spared
<1> DEFINE Spares(r) ==
        pc[r] = "wait" /\ pc'[r] = "fetch" /\ loc[r].lock = lockOf[loc[r].feed] =>
            failing[loc[r].feed] = 0 \/ now - failing[loc[r].feed] >= FailTTL
<1>1. ASSUME IInv, [Next]_vars, NEW r \in Readers PROVE Spares(r)
  <2> DEFINE f == loc[r].feed
  <2>1. SUFFICES ASSUME pc[r] = "wait", pc'[r] = "fetch", loc[r].lock = lockOf[f], failing[f] # 0
                 PROVE  now - failing[f] >= FailTTL
    OBVIOUS
  <2>2. f \in Feeds /\ loc[r].lock \in Locks /\ lockOf[f] # 0
    <3>1. f \in Feeds /\ loc[r].lock \in Locks
      BY <1>1, <2>1 DEF IInv, CallsOK, CallOK, Resting
    <3>2. QED
      BY <2>1, <3>1 DEF Locks
  <2>3. Acquire(r)
    <3>1. pc' # pc
      BY <2>1
    <3>2. \A q \in Readers : pc[q] # "wait" /\ (\E step : Goto(q, step)) => pc'[r] # "fetch"
      BY <1>1, <2>1, Types DEF Goto
    <3>3. QED
      BY <1>1, <2>1, <3>1, <3>2, Types
         DEF Next, Proceed, vars, Ask, Forget, ForgetFailed, Acquire, Fetch, Store, Fail, Publish,
             Tick, Return, Leave, Goto, Resting
  <2>4. failed[f] = 0 \/ now - failed[f] >= FailTTL
    BY <1>1, <2>1, <2>2, <2>3, Types DEF Acquire, Return, Leave, Goto
  <2>5. QED
    BY <1>1, <2>1, <2>2, <2>4, Types DEF IInv, FailsOK, FailOK
<1>2. IInv /\ [Next]_vars => [\A r \in Readers : Spares(r)]_vars
  BY <1>1
<1>3. Spec => [][\A r \in Readers : Spares(r)]_vars
  BY <1>2, InitInv, StepInv, PTL DEF Spec
<1>4. QED
  BY <1>3 DEF Spared
=============================================================================
