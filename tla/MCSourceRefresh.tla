-------------------------- MODULE MCSourceRefresh --------------------------
(***************************************************************************)
(* Small instances of SourceRefresh: two lines, editions that drop a line, *)
(* bring one back or come out empty.                                       *)
(***************************************************************************)
EXTENDS SourceServed

CONSTANTS A, B

\* Line B is missing from the second edition and back in the third.
ThreeEditions == <<{A, B}, {A}, {A, B}>>

BothCarryAll == <<{A, B}, {A, B}>>

\* An edition names no line at all, the next brings a new one.
EmptyBetween == <<{A}, {}, {A, B}>>
=============================================================================
