--------------------------- MODULE MCEventListener ---------------------------
(***************************************************************************)
(* Instances of EventListener for TLC.  Where two events are given both    *)
(* are on page g1, where they compete for it.                              *)
(***************************************************************************)
EXTENDS EventListener

CONSTANTS e1, e2, g1, read, write

\* Every event on the one page.
OnePage == [e \in Events |-> g1]

\* Events that trap writes.
Writes == [e \in Events |-> {write}]

\* e1 traps writes, e2 traps reads and writes.
Mixed == [e \in Events |-> IF e = e1 THEN {write} ELSE {read, write}]
=============================================================================
