---------------------------- MODULE SourceFiles ----------------------------
(***************************************************************************)
(* What stands on disk for one static source, and what its two sidecars    *)
(* say of it (data/source_refresh.py, feed/freshness.py, feed/files.py).   *)
(*                                                                         *)
(* An edition of the feed is a number: two downloads are of one edition    *)
(* when their sha256 are equal.  A validator the host sends (ETag or       *)
(* Last-Modified) is a number too, 0 when the host sent none.  A database  *)
(* is, for each line, the set of editions its trips came from: empty when  *)
(* it holds no trip of that line.                                          *)
(***************************************************************************)
EXTENDS Naturals, FiniteSets, Sequences

CONSTANTS
    Lines,         \* the lines (route_ids) the feed may carry
    MaxEdition,    \* bound: how many editions the host ever publishes
    MaxStamp,      \* bound: how many validators the host ever sends
    Carries,       \* the lines each edition carries trips for
    None           \* no record, no label, no database under construction

Editions == 1..MaxEdition
Stamps == 0..MaxStamp

ASSUME FilesAssumption ==
    /\ MaxEdition \in Nat \ {0}
    /\ MaxStamp \in Nat
    /\ Carries \in [Editions -> SUBSET Lines]
    /\ None \notin [sha : Editions \cup {0}, stamp : Stamps]
    /\ None \notin [Lines -> SUBSET Editions]
    /\ None \notin {"validator", "hash"} \X Nat

(***************************************************************************)
(* A sidecar: the hash and the validator of what it describes.  An empty   *)
(* or unreadable file reads as {}, None here; a record written from a      *)
(* missing one (record_installed) has neither hash nor validator.          *)
(***************************************************************************)
Record == [sha : Editions \cup {0}, stamp : Stamps]
Blank == [sha |-> 0, stamp |-> 0]
Records == Record \cup {None}

Database == [Lines -> SUBSET Editions]
NoLine == [l \in Lines |-> {}]

\* The lines a database carries trips for (routes_in).
RoutesIn(db) == {l \in Lines : db[l] # {}}

\* version_label: the validator names an edition, else its hash does.
\* RawLabel is a slip: the etag as the host wrote it.
RawLabel(meta) ==
    IF meta = None \/ meta = Blank THEN None ELSE <<"etag", meta.stamp>>
VersionLabel(meta) ==
    IF meta = None \/ meta = Blank THEN None
    ELSE IF meta.stamp # 0 THEN <<"validator", meta.stamp>>
    ELSE <<"hash", meta.sha>>

\* installed_meta: the database's own record, else the zip's.
InstalledMeta(dbMeta, zipMeta) == IF dbMeta # None THEN dbMeta ELSE zipMeta

\* What record_installed writes: the zip's record with a build date.
RecordOf(zipMeta) == IF zipMeta = None THEN Blank ELSE zipMeta

\* _carry_validators' condition: the two records are of the same bytes.
\* NeverCarried is a slip: the installed record keeps its old validators.
NeverCarried(dbMeta, zipMeta) == FALSE
SameBytes(dbMeta, zipMeta) ==
    dbMeta # None /\ zipMeta # None /\ zipMeta.sha # 0 /\ dbMeta.sha = zipMeta.sha

\* rebuild_pending: the kept zip is ahead of the database, as the files say.
\* PendingGone is a slip: only a database that is gone counts.
PendingGone(dbFile, dbMeta, zipMeta) == zipMeta # None /\ dbFile = "absent"
Pending(dbFile, dbMeta, zipMeta) ==
    /\ zipMeta # None
    /\ \/ dbFile = "absent"
       \/ VersionLabel(InstalledMeta(dbMeta, zipMeta)) # VersionLabel(zipMeta)

\* What the host's answer says of the kept zip (probe_source), the stamp
\* being the validator the host answers with.  TrustingAnswer is a slip: a
\* host without validators is taken to say nothing changed.
TrustingAnswer(zipMeta, stamp) ==
    IF zipMeta = None THEN "changed"
    ELSE IF stamp = zipMeta.stamp THEN "unchanged" ELSE "changed"
ProbeAnswer(zipMeta, stamp) ==
    IF zipMeta = None THEN "changed"
    ELSE IF zipMeta.stamp = 0 THEN IF zipMeta.sha # 0 THEN "unknown" ELSE "changed"
    ELSE IF stamp = 0 THEN "unknown"
    ELSE IF stamp = zipMeta.stamp THEN "unchanged" ELSE "changed"

\* The database built from edition e for the lines asked: one file, one
\* edition, a line the edition has no trip for left without any.
BuiltFrom(e, asked) == [l \in Lines |-> IF l \in asked \cap Carries[e] THEN {e} ELSE {}]

\* The same database cut down to the lines kept (prune_gtfs_datasource).
CutTo(db, kept) == [l \in Lines |-> IF l \in kept THEN db[l] ELSE {}]
=============================================================================
