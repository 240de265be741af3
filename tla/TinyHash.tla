------------------------------ MODULE TinyHash ------------------------------
(***************************************************************************)
(* The hash table under every cache and every event table: the GHashTable  *)
(* calls of tiny_glib/hash.c over the chained table of tiny_glib/          *)
(* hashtable.c.  Keys and values are memory the table owns once they are   *)
(* inserted, so the model has memory blocks: a key block holds a key, a    *)
(* value is its block.                                                     *)
(*                                                                         *)
(* The iterator is no operation here: g_hash_table_iter_next changes no    *)
(* table and yields nothing.  Its check g_return_val_if_fail (position <   *)
(* size, FALSE) expands to if(!position < size), and at position -1 that   *)
(* is 0 < size.  What becomes of the loops over it is in MonitorEvents.    *)
(***************************************************************************)
EXTENDS Integers, Sequences, FiniteSets, SequencesExt

CONSTANTS
  Keys,         \* contents of keys
  KeyBlocks,    \* memory for keys
  Values,       \* memory for values
  Hash,         \* hash(h, k): the mixed hash of each key
  Primes,       \* the sizes primes[]
  MinSize,      \* 1 << HASH_TABLE_MIN_SHIFT
  MayFail,      \* allocations that may fail: "entry", "table"
  MaxOccupied,  \* bound on noccupied, which counts up for ever
  Null, None

\* max_load_factor is 65 percent.
LoadLimit(n) == (n * 65) \div 100

\* foreach_remove drops a node whose hash is not "real", which 0 and 1 are not; the
\* last prime is never reached.
ASSUME HashAssumption == Hash \in [Keys -> Nat \ {0, 1}]
ASSUME PrimesAssumption == /\ Primes \in Seq(Nat \ {0})
                           /\ \A i, j \in DOMAIN Primes : i < j => Primes[i] < Primes[j]
                           /\ Len(Primes) > 1
                           /\ IsFiniteSet(Keys)
                           /\ Cardinality(Keys) <= LoadLimit(Primes[Len(Primes) - 1])
ASSUME MinSizeAssumption == MinSize \in Nat /\ MinSize < Primes[1]
ASSUME BlockAssumption == /\ Null \notin KeyBlocks \cup Values \cup {None}
                          /\ None \notin Keys \cup KeyBlocks \cup Values
                          /\ KeyBlocks \cap Values = {}
ASSUME BoundAssumption == MaxOccupied \in Nat
ASSUME FailAssumption == MayFail \subseteq {"entry", "table"}

VARIABLES
  h,            \* the struct hashtable
  answer,       \* what the last call returned
  owned,        \* blocks of memory in use
  lost          \* blocks that an insertion without memory left to nobody

vars == <<h, answer, owned, lost>>

Entry == [h : Nat, k : Keys, kb : KeyBlocks, v : Values \cup {Null}]

indexFor(n, hash) == hash % n

\* The spots of a table, each a slot and a place in its chain, and the entry at one.
Spots(t) == UNION {{i} \X DOMAIN t.table[i] : i \in 0 .. t.size - 1}
At(t, s) == t.table[s[1]][s[2]]

\* A loop over the slots of the array comes to s before u.
Before(s, u) == s[1] < u[1] \/ (s[1] = u[1] /\ s[2] < u[2])

\* The entries that such a loop meets.
Entries(t) == {At(t, s) : s \in Spots(t)}

\* hashtable_search_entry: the first entry of k in the chain of its slot, if any.
Chain(k) == h.table[indexFor(h.size, Hash[k])]
Has(k) == \E e \in ToSet(Chain(k)) : e.k = k
Place(k) == SelectInSeq(Chain(k), LAMBDA e : e.k = k)

Memory(t) == {e.kb : e \in Entries(t)} \cup ({e.v : e \in Entries(t)} \ {Null})

-----------------------------------------------------------------------------
\* create_hashtable, with the least size.
Created == [table      |-> [i \in 0 .. Primes[1] - 1 |-> <<>>],
            size       |-> Primes[1],
            primeindex |-> 1,
            loadlimit  |-> LoadLimit(Primes[1]),
            entrycount |-> 0,
            noccupied  |-> 0]

Init ==
  /\ h = Created
  /\ answer = TRUE
  /\ owned = {} /\ lost = {}

\* Mutant: the entries stay where they are.
Expanded_NoRehash ==
  LET n == Primes[h.primeindex + 1] IN
  [h EXCEPT !.table = [i \in 0 .. n - 1 |-> IF i < h.size THEN h.table[i] ELSE <<>>],
            !.size = n, !.primeindex = @ + 1, !.loadlimit = LoadLimit(n)]

\* The spots of t whose entries belong into slot i of a table of n slots.
Moved(t, n, i) == {s \in Spots(t) : indexFor(n, At(t, s).h) = i}

\* The chain that is made by prepending the entries at the given spots in turn.
Prepended(t, spots) ==
  [j \in 1 .. Cardinality(spots) |->
     At(t, CHOOSE s \in spots : Cardinality({u \in spots : Before(s, u)}) = j - 1)]

\* hashtable_expand.
Expanded ==
  LET n == Primes[h.primeindex + 1] IN
  [h EXCEPT !.table = [i \in 0 .. n - 1 |-> Prepended(h, Moved(h, n, i))],
            !.size = n, !.primeindex = @ + 1, !.loadlimit = LoadLimit(n)]

\* One more entry is too many, and there is a larger size.
Crowded == h.entrycount + 1 > h.loadlimit /\ h.primeindex < Len(Primes)

\* The tables hashtable_insert goes on with.  Plan B of hashtable_expand is left out: its
\* realloc is the allocation that calloc has just been refused, with the old array in use.
Roomy == IF ~Crowded THEN {h}
         ELSE {Expanded} \cup (IF "table" \in MayFail THEN {h} ELSE {})

\* A new entry goes to the head of its chain.
Linked(t, e) ==
  LET i == indexFor(t.size, e.h) IN
  [t EXCEPT !.table[i] = <<e>> \o @,
            !.entrycount = @ + 1,
            !.noccupied = IF t.table[i] = <<>> THEN @ + 1 ELSE @]

-----------------------------------------------------------------------------
(* The calls.  kb and v are blocks the caller has just filled. *)

Fresh(kb, v) == kb \notin owned /\ v \notin owned

\* g_hash_table_insert_internal of a key that is not there.
InsertNew(k, kb, v) ==
  /\ Fresh(kb, v) /\ ~Has(k)
  /\ h.noccupied < MaxOccupied
  /\ \E t \in Roomy : h' = Linked(t, [h |-> Hash[k], k |-> k, kb |-> kb, v |-> v])
  /\ answer' = TRUE
  /\ owned' = owned \cup ({kb, v} \ {Null})
  /\ UNCHANGED lost

\* No memory for the entry: the result of hashtable_insert is ignored.
InsertNoMemory(k, kb, v) ==
  /\ "entry" \in MayFail
  /\ Fresh(kb, v) /\ ~Has(k)
  /\ h' \in Roomy
  /\ answer' = TRUE
  /\ owned' = owned \cup ({kb, v} \ {Null})
  /\ lost' = lost \cup ({kb, v} \ {Null})

\* Mutant: the entry takes the new key block, which is destroyed.
InsertOld_TakesKey(k, kb, v) ==
  /\ Fresh(kb, v) /\ Has(k)
  /\ LET i == indexFor(h.size, Hash[k])
         old == Chain(k)[Place(k)]
     IN /\ h' = [h EXCEPT !.table[i][Place(k)] = [@ EXCEPT !.v = v, !.kb = kb]]
        /\ owned' = (owned \cup ({v} \ {Null})) \ {old.v}
  /\ answer' = FALSE
  /\ UNCHANGED lost

\* g_hash_table_insert of a key that is there: the new key and the old value go.
InsertOld(k, kb, v) ==
  /\ Fresh(kb, v) /\ Has(k)
  /\ LET i == indexFor(h.size, Hash[k])
         old == Chain(k)[Place(k)]
     IN /\ h' = [h EXCEPT !.table[i][Place(k)] = [@ EXCEPT !.v = v]]
        /\ owned' = (owned \cup ({v} \ {Null})) \ {old.v}
  /\ answer' = FALSE
  /\ UNCHANGED lost

\* g_hash_table_replace of one that is there: the old key and the old value go.
ReplaceOld(k, kb, v) ==
  /\ Fresh(kb, v) /\ Has(k)
  /\ LET i == indexFor(h.size, Hash[k])
         old == Chain(k)[Place(k)]
     IN /\ h' = [h EXCEPT !.table[i][Place(k)] = [@ EXCEPT !.v = v, !.kb = kb]]
        /\ owned' = (owned \cup ({kb, v} \ {Null})) \ {old.kb, old.v}
  /\ answer' = FALSE
  /\ UNCHANGED lost

\* g_hash_table_remove; noccupied stays.
RemoveKey(k) ==
  /\ Has(k)
  /\ LET old == Chain(k)[Place(k)] IN
     /\ h' = [h EXCEPT !.table[indexFor(h.size, Hash[k])] = RemoveAt(@, Place(k)),
                       !.entrycount = @ - 1]
     /\ answer' = (old.v # Null)
     /\ owned' = owned \ {old.kb, old.v}
  /\ UNCHANGED lost

RemoveMissing(k) ==
  /\ ~Has(k)
  /\ answer' = FALSE
  /\ UNCHANGED <<h, owned, lost>>

(***************************************************************************)
(* hashtable_resize of a table without entries.  hashtable_set_optimal_size *)
(* sets the fields itself and returns -1, which is taken for the new size: *)
(* no allocation of 2^32 - 1 slots succeeds, and primeindex goes back by    *)
(* one, from 0 to 2^32 - 1 (here from 1 to 0).  The array stays as it is.   *)
(***************************************************************************)
Resized(t) ==
  IF t.primeindex = Len(Primes) THEN t
  ELSE [t EXCEPT !.size = Primes[1], !.primeindex = 0,
                 !.loadlimit = LoadLimit(Primes[1]), !.noccupied = 0]

\* g_hash_table_maybe_resize.
MaybeResized(t) ==
  IF \/ t.size > t.entrycount * 4 /\ t.size > MinSize
     \/ t.size <= t.noccupied + t.noccupied \div 16
    THEN Resized(t) ELSE t

Emptied == [h EXCEPT !.table = [i \in DOMAIN h.table |->
                                  IF i < h.size THEN <<>> ELSE h.table[i]],
                     !.entrycount = 0]

Freed == owned' = owned \ Memory(h)

\* g_hash_table_foreach_remove, whose callbacks (clear_events, clear_events_full) always
\* return TRUE.  It goes on by reading the `next` of a head entry it has freed; the allocator of
\* Mini-OS leaves a freed block as it is, and the model lets the loop go on undisturbed.
ForeachRemove ==
  /\ h' = MaybeResized(Emptied)
  /\ Freed
  /\ UNCHANGED <<answer, lost>>

\* Mutant: the slots are not cleared.
RemoveAll_KeepsSlots ==
  /\ h' = MaybeResized([h EXCEPT !.size = 0, !.entrycount = 0, !.noccupied = 0])
  /\ Freed
  /\ UNCHANGED <<answer, lost>>

\* g_hash_table_remove_all: the size is set to 0 and then to the least one.
RemoveAll ==
  /\ h' = MaybeResized([Emptied EXCEPT !.size = 0, !.noccupied = 0])
  /\ Freed
  /\ UNCHANGED <<answer, lost>>

\* g_hash_table_destroy, and the table is made again (vmi_shutdown_single_step).
Destroy ==
  /\ h' = Created
  /\ Freed
  /\ UNCHANGED <<answer, lost>>

-----------------------------------------------------------------------------
Next ==
  \/ \E k \in Keys, kb \in KeyBlocks, v \in Values \cup {Null} :
       \/ InsertNew(k, kb, v) \/ InsertNoMemory(k, kb, v)
       \/ InsertOld(k, kb, v) \/ ReplaceOld(k, kb, v)
  \/ \E k \in Keys : RemoveKey(k) \/ RemoveMissing(k)
  \/ ForeachRemove \/ RemoveAll \/ Destroy

Spec == Init /\ [][Next]_vars

-----------------------------------------------------------------------------
\* The variables have their types.
TypeOK ==
  /\ h.size \in Nat \ {0} /\ h.primeindex \in 0 .. Len(Primes)
  /\ h.loadlimit \in Nat /\ h.entrycount \in Int /\ h.noccupied \in Nat
  /\ h.table \in [DOMAIN h.table -> Seq(Entry)]
  /\ answer \in BOOLEAN
  /\ lost \subseteq owned /\ owned \subseteq KeyBlocks \cup Values

\* Whatever the fields say after a resize that did not happen, the array has the slots
\* they promise, nothing hangs in a slot beyond, and the counts are not too small.
InBounds ==
  /\ 0 .. h.size - 1 \subseteq DOMAIN h.table
  /\ \A i \in DOMAIN h.table : i >= h.size => h.table[i] = <<>>
  /\ h.entrycount = Cardinality(Spots(h))
  /\ h.loadlimit = LoadLimit(h.size)

\* Every entry is in the slot where a search looks for its key, and is the only one.
Searchable ==
  /\ \A s \in Spots(h) : /\ At(h, s).h = Hash[At(h, s).k]
                         /\ indexFor(h.size, At(h, s).h) = s[1]
  /\ \A s, u \in Spots(h) : At(h, s).k = At(h, u).k => s = u

\* The table is fit for the next call: types, sizes, counts and slots agree, also after a
\* growth or a resize that did not happen (hashtable_expand, hashtable_resize).
WellFormed == TypeOK /\ InBounds /\ Searchable

\* The table owns its memory: every block in use is in one entry or was lost, none is in
\* two, and no entry refers to memory that was freed.
OwnsMemory ==
  /\ owned \ lost = Memory(h)
  /\ \A s, u \in Spots(h) :
       LET e == At(h, s)
           f == At(h, u)
       IN e.kb = f.kb \/ (e.v = f.v /\ e.v # Null) => s = u

-----------------------------------------------------------------------------
\* The refinement mapping: the map is what searches find.
Map == INSTANCE FiniteMap WITH
  map <- [k \in Keys |-> IF Has(k) THEN Chain(k)[Place(k)].v ELSE None]

\* The table is a finite map.
MapSpec == Map!Spec
=============================================================================
