----------------------------- MODULE SourceView -----------------------------
(***************************************************************************)
(* What a source promises the sensors that read it, whatever goes on       *)
(* behind: its timetable moves by whole steps only.  A newer edition takes *)
(* the place of the one served, complete, a line comes in, or lines nobody *)
(* reads go.  It never goes back to an older edition, and no step takes a  *)
(* line's timetable from a sensor.                                         *)
(***************************************************************************)
EXTENDS SourceFiles

VARIABLES
    served,     \* the lines served, each with the editions its trips come from
    reading     \* the lines the sensors name

TypeOK == served \in Database /\ reading \in SUBSET Lines

\* Every edition served.
EditionsIn(db) == UNION {db[l] : l \in Lines}

\* No sensor loses its line.
NoneLost == \A l \in reading : served[l] # {} => served'[l] # {}

Init == TypeOK

\* A refresh swapped in: lines of one edition, no older than any served.
Install ==
    /\ \E e \in Editions : \E asked \in SUBSET Lines :
          /\ served' = BuiltFrom(e, asked)
          /\ \A f \in EditionsIn(served) : f <= e
    /\ NoneLost
    /\ UNCHANGED reading

\* An import brings lines that were not served, all of one edition.
Import ==
    /\ \E e \in Editions : \E new \in SUBSET {l \in Lines : served[l] = {}} :
          served' = [l \in Lines |-> IF l \in new THEN {e} ELSE served[l]]
    /\ \A e, f \in EditionsIn(served') : e = f
    /\ UNCHANGED reading

\* Lines go, none a sensor reads.
Drop ==
    /\ \E kept \in SUBSET Lines : served' = CutTo(served, kept)
    /\ NoneLost
    /\ UNCHANGED reading

\* Sensors come and go.
Sensors == reading' \in SUBSET Lines /\ UNCHANGED served

Next == Install \/ Import \/ Drop \/ Sensors

Spec == Init /\ [][Next]_<<served, reading>>
=============================================================================
