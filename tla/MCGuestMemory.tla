---------------------------- MODULE MCGuestMemory ----------------------------
(***************************************************************************)
(* Pages of two bytes and tables of two entries; physical addresses of 7   *)
(* bits, of which the PAE code keeps 6, or 5.  Tables are at 2, 4, 6 and   *)
(* 8, data at the other frames; 34 has more than 5 bits, 66 more than 6.   *)
(***************************************************************************)
EXTENDS GuestMemory

Empty == [addr |-> 0, p |-> FALSE, ps |-> FALSE, tr |-> FALSE]
To(a) == [addr |-> a, p |-> TRUE, ps |-> FALSE, tr |-> FALSE]
Big(a) == [addr |-> a, p |-> TRUE, ps |-> TRUE, tr |-> FALSE]
Moving(a) == [addr |-> a, p |-> FALSE, ps |-> FALSE, tr |-> TRUE]

SomeFrames == {0, 2, 4, 6, 8, 10, 12, 16, 18, 20, 22, 34, 64, 66}

\* The lowest table maps two pages, the one above it a large one.
SomeTables(m) ==
  [t \in SomeFrames |-> [s \in Slots |->
     CASE t = 2 /\ m = "legacy" -> IF s = 0 THEN To(8) ELSE Big(16)
       [] t = 2 /\ m # "legacy" -> IF s = 0 THEN To(4) ELSE Empty
       [] t = 4 /\ m = "pae" -> IF s = 0 THEN To(8) ELSE Big(8)
       [] t = 4 /\ m = "ia32e" -> IF s = 0 THEN To(6) ELSE Big(64)
       [] t = 6 /\ m = "ia32e" -> IF s = 0 THEN To(8) ELSE Big(16)
       [] t = 8 -> IF s = 0 THEN To(12) ELSE To(10)
       [] OTHER -> Empty]]

SomeEntries == {Empty, To(8), To(34), To(66), Big(24), Big(22), Moving(20)}
=============================================================================
