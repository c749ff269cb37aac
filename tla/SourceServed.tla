---------------------------- MODULE SourceServed ----------------------------
(***************************************************************************)
(* The source as SourceRefresh runs it keeps the promise of SourceView: the *)
(* database is what is served, the zip, the records, the staging file, the *)
(* lock and the tasks are hidden.                                          *)
(***************************************************************************)
EXTENDS SourceRefresh

View == INSTANCE SourceView WITH served <- dbLines, reading <- readers

\* Every step of the checks, refreshes, imports, rewrites and crashes is a
\* whole step of what the sensors read, or none.
KeepsItsPromise == View!Spec
=============================================================================
