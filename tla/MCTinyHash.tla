----------------------------- MODULE MCTinyHash -----------------------------
(***************************************************************************)
(* Small sizes with the load of the real ones: tables of 2 and of 3 slots  *)
(* take one entry, one of 5 takes three, so that three keys expand twice.  *)
(***************************************************************************)
EXTENDS TinyHash, TLC

SmallPrimes == <<2, 3, 5, 7>>

\* Keys that meet in some of the tables and part in others.
SmallHash == [k \in Keys |-> 3 * k - 1]

Alike == Permutations(KeyBlocks) \cup Permutations(Values)
=============================================================================
