------------------------------ MODULE FiniteMap ------------------------------
(***************************************************************************)
(* What the caches and the event tables expect of a GHashTable: a finite   *)
(* map, and the answers of the calls that change it.  An insertion for     *)
(* which there is no memory is the only one that may be dropped.           *)
(***************************************************************************)
CONSTANTS Keys, Values, Null, None

VARIABLES map,      \* the value of each key, or None
          answer    \* what the last call returned

Init == /\ map = [k \in Keys |-> None]
        /\ answer = TRUE

\* A new value for k; the answer says whether k is a new key.
Insert(k, v) ==
  /\ map' = [map EXCEPT ![k] = v]
  /\ answer' = (map[k] = None)

InsertDropped(k) ==
  /\ map[k] = None
  /\ answer' = TRUE
  /\ UNCHANGED map

\* The answer cannot tell a null value from no value.
Remove(k) ==
  /\ map' = [map EXCEPT ![k] = None]
  /\ answer' = (map[k] \notin {None, Null})

RemoveAll ==
  /\ map' = [k \in Keys |-> None]
  /\ UNCHANGED answer

Next == \/ \E k \in Keys, v \in Values \cup {Null} : Insert(k, v)
        \/ \E k \in Keys : InsertDropped(k) \/ Remove(k)
        \/ RemoveAll

Spec == Init /\ [][Next]_<<map, answer>>
=============================================================================
