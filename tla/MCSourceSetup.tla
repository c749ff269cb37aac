--------------------------- MODULE MCSourceSetup ---------------------------
(* Small instances of SourceSetup. *)
EXTENDS SourceSetup
CONSTANT p1
MCHeld == {[url |-> p1, key |-> "key", feeds |-> 0], [url |-> None, key |-> None, feeds |-> 1]}
=============================================================================
