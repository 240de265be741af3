---------------------------- MODULE Memory_proofs ----------------------------
(***************************************************************************)
(* Theorems about reading the guest's memory: the page cache, for any      *)
(* number of pages, any limit and any allocations that may fail; and above *)
(* it the page table walks and the loops of GuestMemory, for any sizes,    *)
(* tables and writes of the guest.                                         *)
(***************************************************************************)
EXTENDS MemoryCache, GuestMemory, TLAPS, FiniteSetTheorems, WellFoundedInduction

-----------------------------------------------------------------------------
(* The page cache. *)

\* The pointer a reader holds is that of the entry of the page it asked for; nothing is
\* read while a write is under way.
ReadIsEntry ==
  read # None => /\ put = <<>>
                 /\ read.data # NoData => memory_cache[read.page] = read.data

CacheInv == TypeOK /\ EntriesCurrent /\ ReadIsEntry

\* clean_cache leaves a beginning of the queue with room for one more key.
LEMMA KeptIsPrefix ==
  ASSUME memory_cache_lru \in Seq(Pages)
  PROVE  /\ Kept \in Seq(Pages)
         /\ Len(Kept) < SizeMax
         /\ Len(Kept) <= Len(memory_cache_lru)
         /\ \A i \in 1 .. Len(Kept) : Kept[i] = memory_cache_lru[i]
<1>1. CASE Len(memory_cache_lru) < SizeMax
  BY <1>1, SizeAssumption DEF Kept
<1>2. CASE Len(memory_cache_lru) >= SizeMax
  <2>1. /\ SizeMax \div 2 \in Nat
        /\ SizeMax \div 2 < SizeMax
        /\ SizeMax \div 2 <= Len(memory_cache_lru)
    BY <1>2, SizeAssumption
  <2>2. Kept = SubSeq(memory_cache_lru, 1, SizeMax \div 2)
    BY <1>2, SizeAssumption DEF Kept
  <2> DEFINE n == SizeMax \div 2
  <2>3. n \in Nat /\ n < SizeMax /\ n <= Len(memory_cache_lru)
        /\ Kept = SubSeq(memory_cache_lru, 1, n)
    BY <2>1, <2>2
  <2> HIDE DEF n
  <2> QED
    BY <2>3, SizeAssumption
<1> QED
  BY <1>1, <1>2, SizeAssumption

\* A queued key is kept or popped.
LEMMA KeptOrPopped ==
  ASSUME memory_cache_lru \in Seq(Pages)
  PROVE  ToSet(memory_cache_lru) \subseteq ToSet(Kept) \cup Popped
<1> SUFFICES ASSUME NEW i \in 1 .. Len(memory_cache_lru)
             PROVE  memory_cache_lru[i] \in ToSet(Kept) \cup Popped
  BY DEF ToSet
<1> USE KeptIsPrefix
<1>1. CASE i <= Len(Kept)
  BY <1>1 DEF ToSet
<1>2. CASE i > Len(Kept)
  BY <1>2 DEF Popped
<1> QED
  BY <1>1, <1>2

\* What the clean-up pops are pages.
LEMMA PoppedPages ==
  ASSUME memory_cache_lru \in Seq(Pages)
  PROVE  Popped \subseteq Pages
BY KeptIsPrefix DEF Popped

\* Freeing entries leaves every other entry current.
LEMMA FreeEntriesStep ==
  ASSUME TypeOK, EntriesCurrent, NEW pages \in SUBSET Pages, FreeEntries(pages), frame' = frame
  PROVE  /\ memory_cache' \in [Pages -> Mappings \cup {NoData, None}]
         /\ mapped' \in [Mappings -> Shown \cup {None}]
         /\ EntriesCurrent'
<1>1. /\ memory_cache' \in [Pages -> Mappings \cup {NoData, None}]
      /\ mapped' \in [Mappings -> Shown \cup {None}]
  BY DEF FreeEntries, TypeOK
<1>2. ASSUME NEW p \in Cached', memory_cache'[p] # NoData
      PROVE  mapped'[memory_cache'[p]] = [page |-> p, frame |-> frame'[p]]
  <2>1. p \in Pages \ pages /\ memory_cache'[p] = memory_cache[p] /\ p \in Cached
    BY <1>2 DEF Cached, FreeEntries, TypeOK
  <2>2. memory_cache[p] \in Mappings /\ mapped[memory_cache[p]] = [page |-> p, frame |-> frame[p]]
    BY <1>2, <2>1 DEF Cached, EntriesCurrent, TypeOK
  <2>3. memory_cache[p] \notin {memory_cache[q] : q \in pages}
    <3> SUFFICES ASSUME NEW q \in pages, memory_cache[q] = memory_cache[p]
                 PROVE  FALSE
      OBVIOUS
    <3>1. mapped[memory_cache[q]] = [page |-> q, frame |-> frame[q]]
      BY <2>1, <2>2, NullAssumption DEF Cached, EntriesCurrent
    <3> QED
      BY <2>1, <2>2, <3>1
  <2> QED
    BY <2>1, <2>2, <2>3 DEF FreeEntries
<1> QED
  BY <1>1, <1>2 DEF EntriesCurrent

\* Mapping a page at a free address leaves the other entries current, and its own is.
LEMMA MapStep ==
  ASSUME TypeOK, EntriesCurrent, NEW p \in Pages, Missing(p),
         NEW data \in Unmapped \cup {NoData}, NEW entry \in {data, None},
         Map(p, data, entry), frame' = frame
  PROVE  /\ memory_cache' \in [Pages -> Mappings \cup {NoData, None}]
         /\ mapped' \in [Mappings -> Shown \cup {None}]
         /\ EntriesCurrent'
<1> USE NullAssumption
<1>1. data \in Mappings \cup {NoData}
  BY DEF Unmapped
<1>2. /\ memory_cache' \in [Pages -> Mappings \cup {NoData, None}]
      /\ mapped' \in [Mappings -> Shown \cup {None}]
  BY <1>1 DEF Map, TypeOK, Shown
<1>3. ASSUME NEW q \in Cached', memory_cache'[q] # NoData
      PROVE  mapped'[memory_cache'[q]] = [page |-> q, frame |-> frame'[q]]
  <2>1. q \in Pages /\ memory_cache'[q] # None
    BY <1>3 DEF Cached
  <2>2. CASE q = p
    BY <1>1, <1>3, <2>1, <2>2 DEF Map, TypeOK
  <2>3. CASE q # p
    <3>1. q \notin Popped /\ memory_cache'[q] = memory_cache[q] /\ q \in Cached
      BY <2>1, <2>3 DEF Map, Cached, TypeOK
    <3>2. memory_cache[q] \in Mappings /\ mapped[memory_cache[q]] = [page |-> q, frame |-> frame[q]]
      BY <1>3, <2>1, <3>1 DEF Cached, EntriesCurrent, TypeOK
    <3>3. \A r \in Popped : memory_cache[r] # memory_cache[q]
      <4> SUFFICES ASSUME NEW r \in Popped, memory_cache[r] = memory_cache[q]
                   PROVE  FALSE
        OBVIOUS
      <4>1. r \in Pages
        BY PoppedPages DEF TypeOK
      <4>2. mapped[memory_cache[r]] = [page |-> r, frame |-> frame[r]]
        BY <3>1, <3>2, <4>1 DEF Cached, EntriesCurrent
      <4> QED
        BY <3>1, <3>2, <4>2
    <3>4. mapped[memory_cache[q]] # None
      BY <2>1, <3>2 DEF Shown, TypeOK
    <3>5. memory_cache[q] # data
      BY <3>2, <3>3, <3>4 DEF Unmapped
    <3> QED
      BY <3>1, <3>2, <3>3, <3>5 DEF Map
  <2> QED
    BY <2>2, <2>3
<1> QED
  BY <1>2, <1>3 DEF EntriesCurrent

\* The empty cache is coherent.
LEMMA InitInv == Init => CacheInv
<1> SUFFICES ASSUME Init
             PROVE  CacheInv
  OBVIOUS
<1>1. TypeOK
  BY SizeAssumption DEF Init, TypeOK
<1>2. EntriesCurrent /\ ReadIsEntry
  BY DEF Init, EntriesCurrent, ReadIsEntry, Cached
<1> QED
  BY <1>1, <1>2 DEF CacheInv

\* Every step keeps the cache coherent.
LEMMA NextInv == CacheInv /\ [Next]_vars => CacheInv'
<1> SUFFICES ASSUME CacheInv, [Next]_vars
             PROVE  CacheInv'
  OBVIOUS
<1> USE DEF CacheInv
<1>k. Kept \in Seq(Pages) /\ Popped \subseteq Pages
  BY KeptIsPrefix, PoppedPages DEF TypeOK
<1>1. ASSUME NEW p \in Pages, Hit(p)
      PROVE  CacheInv'
  <2>1. TypeOK'
    BY <1>1 DEF Hit, TypeOK, lost
  <2>2. EntriesCurrent' /\ ReadIsEntry'
    BY <1>1 DEF Hit, EntriesCurrent, Cached, ReadIsEntry
  <2> QED
    BY <2>1, <2>2
<1>2. ASSUME NEW p \in Pages, NoEntry(p)
      PROVE  CacheInv'
  <2>1. /\ memory_cache' \in [Pages -> Mappings \cup {NoData, None}]
        /\ mapped' \in [Mappings -> Shown \cup {None}]
        /\ EntriesCurrent'
    BY <1>2, <1>k, FreeEntriesStep DEF NoEntry
  <2>2. TypeOK'
    BY <1>2, <1>k, <2>1 DEF NoEntry, TypeOK, lost
  <2>3. ReadIsEntry'
    BY <1>2 DEF NoEntry, Missing, ReadIsEntry
  <2> QED
    BY <2>1, <2>2, <2>3
<1>3. ASSUME NEW p \in Pages, NoKey(p)
      PROVE  CacheInv'
  <2>1. /\ memory_cache' \in [Pages -> Mappings \cup {NoData, None}]
        /\ mapped' \in [Mappings -> Shown \cup {None}]
        /\ EntriesCurrent'
    BY <1>3, MapStep DEF NoKey
  <2>2. TypeOK'
    <3>1. leaked' \subseteq Mappings
      BY <1>3 DEF NoKey, TypeOK, Unmapped
    <3> QED
      BY <1>3, <1>k, <2>1, <3>1 DEF NoKey, TypeOK
  <2>3. ReadIsEntry'
    BY <1>3 DEF NoKey, Missing, ReadIsEntry
  <2> QED
    BY <2>1, <2>2, <2>3
<1>4. ASSUME NEW p \in Pages, NoQueueKey(p)
      PROVE  CacheInv'
  <2>1. /\ memory_cache' \in [Pages -> Mappings \cup {NoData, None}]
        /\ mapped' \in [Mappings -> Shown \cup {None}]
        /\ EntriesCurrent'
    BY <1>4, MapStep DEF NoQueueKey
  <2>2. TypeOK'
    BY <1>4, <1>k, <2>1 DEF NoQueueKey, TypeOK, lost
  <2>3. ReadIsEntry'
    BY <1>4 DEF NoQueueKey, Missing, ReadIsEntry
  <2> QED
    BY <2>1, <2>2, <2>3
<1>5. ASSUME NEW p \in Pages, Insert(p)
      PROVE  CacheInv'
  <2>1. PICK data \in Unmapped \cup {NoData} :
          /\ Map(p, data, data)
          /\ read' = [page |-> p, data |-> data]
    BY <1>5 DEF Insert
  <2>2. /\ memory_cache' \in [Pages -> Mappings \cup {NoData, None}]
        /\ mapped' \in [Mappings -> Shown \cup {None}]
        /\ EntriesCurrent'
    BY <1>5, <2>1, MapStep DEF Insert
  <2>3. Push(p) \in Seq(Pages)
    BY <1>k DEF Push
  <2>4. TypeOK'
    BY <1>5, <2>1, <2>2, <2>3 DEF Insert, TypeOK, Unmapped, lost
  <2>5. ReadIsEntry'
    BY <1>5, <2>1 DEF Insert, Map, Missing, ReadIsEntry
  <2> QED
    BY <2>2, <2>4, <2>5
<1>6. ASSUME NEW first \in Pages, NEW last \in Pages, PutMemory(first, last)
      PROVE  CacheInv'
  <2> DEFINE n == last - first + 1
             f(i) == first + i - 1
  <2>1. n \in Nat /\ \A i \in 1 .. n : f(i) \in Pages
    BY <1>6, SizeAssumption DEF PutMemory, Pages
  <2>2. put' = [i \in 1 .. n |-> f(i)]
    BY <1>6 DEF PutMemory
  <2>3. put' \in Seq(Pages)
    <3> HIDE DEF n, f
    <3> QED
      BY <2>1, <2>2
  <2>4. TypeOK'
    BY <1>6, <2>3 DEF PutMemory, TypeOK, lost
  <2>5. EntriesCurrent' /\ ReadIsEntry'
    BY <1>6 DEF PutMemory, EntriesCurrent, Cached, ReadIsEntry
  <2> QED
    BY <2>4, <2>5
<1>7. CASE PutFails
  <2>1. TypeOK'
    BY <1>7 DEF PutFails, TypeOK, lost
  <2>2. EntriesCurrent' /\ ReadIsEntry'
    BY <1>7 DEF PutFails, EntriesCurrent, Cached, ReadIsEntry
  <2> QED
    BY <2>1, <2>2
<1>8. CASE PutPage
  <2> DEFINE p == Head(put)
  <2>1. p \in Pages /\ Tail(put) \in Seq(Pages)
    BY <1>8 DEF PutPage, TypeOK
  <2>2. /\ FreeEntries({p})
        /\ \/ frame' = frame
           \/ frame[p] < MaxFrame /\ frame' = [frame EXCEPT ![p] = @ + 1]
        /\ put' = Tail(put)
        /\ UNCHANGED <<memory_cache_lru, read, lost>>
    BY <1>8 DEF PutPage, memory_cache_remove
  <2> HIDE DEF p
  <2>3. TypeOK'
    <3>1. /\ memory_cache' \in [Pages -> Mappings \cup {NoData, None}]
          /\ mapped' \in [Mappings -> Shown \cup {None}]
      BY <2>2 DEF FreeEntries, TypeOK
    <3>2. frame' \in [Pages -> 0 .. MaxFrame]
      <4>1. frame[p] \in 0 .. MaxFrame /\ (frame[p] < MaxFrame => frame[p] + 1 \in 0 .. MaxFrame)
        BY <2>1, SizeAssumption DEF TypeOK
      <4>2. frame \in [Pages -> 0 .. MaxFrame]
        BY DEF TypeOK
      <4>3. CASE frame' = frame
        BY <4>2, <4>3
      <4>4. CASE frame[p] < MaxFrame /\ frame' = [frame EXCEPT ![p] = @ + 1]
        BY <4>1, <4>2, <4>4
      <4> QED
        BY <2>2, <4>3, <4>4
    <3> QED
      BY <2>1, <2>2, <3>1, <3>2 DEF TypeOK, lost
  <2>4. ASSUME NEW q \in Cached', memory_cache'[q] # NoData
        PROVE  mapped'[memory_cache'[q]] = [page |-> q, frame |-> frame'[q]]
    <3>1. q \in Pages /\ q # p /\ memory_cache'[q] = memory_cache[q] /\ q \in Cached
      BY <2>2, <2>4 DEF Cached, FreeEntries, TypeOK
    <3>2. memory_cache[q] \in Mappings /\ mapped[memory_cache[q]] = [page |-> q, frame |-> frame[q]]
      BY <2>4, <3>1 DEF Cached, EntriesCurrent, TypeOK
    <3>3. memory_cache[p] # memory_cache[q]
      <4> SUFFICES ASSUME memory_cache[p] = memory_cache[q]
                   PROVE  FALSE
        OBVIOUS
      <4>1. mapped[memory_cache[p]] = [page |-> p, frame |-> frame[p]]
        BY <2>1, <3>2, NullAssumption DEF Cached, EntriesCurrent
      <4> QED
        BY <3>1, <3>2, <4>1
    <3>4. frame'[q] = frame[q]
      BY <2>2, <3>1 DEF TypeOK
    <3> QED
      BY <2>2, <3>1, <3>2, <3>3, <3>4 DEF FreeEntries
  <2>5. ReadIsEntry'
    BY <1>8, <2>2 DEF PutPage, ReadIsEntry
  <2> QED
    BY <2>3, <2>4, <2>5 DEF EntriesCurrent
<1>9. CASE memory_cache_destroy
  <2>1. /\ memory_cache' \in [Pages -> Mappings \cup {NoData, None}]
        /\ mapped' \in [Mappings -> Shown \cup {None}]
        /\ EntriesCurrent'
    BY <1>9, FreeEntriesStep DEF memory_cache_destroy
  <2>2. TypeOK'
    BY <1>9, <2>1 DEF memory_cache_destroy, TypeOK, lost
  <2>3. ReadIsEntry'
    BY <1>9 DEF memory_cache_destroy, ReadIsEntry
  <2> QED
    BY <2>1, <2>2, <2>3
<1>10. CASE UNCHANGED vars
  BY <1>10 DEF vars, lost, TypeOK, EntriesCurrent, Cached, ReadIsEntry
<1> QED
  BY <1>1, <1>2, <1>3, <1>4, <1>5, <1>6, <1>7, <1>8, <1>9, <1>10 DEF Next

\* Type correctness of the page cache.
THEOREM CacheTypeCorrect == Spec => []TypeOK
<1>1. CacheInv => TypeOK
  BY DEF CacheInv
<1> QED
  BY InitInv, NextInv, <1>1, PTL DEF Spec

\* Whatever the sizes are and whichever allocations fail: each cached mapping is the
\* current one of its own page, so none is shared or unmapped twice.
THEOREM CacheCoherent == Spec => []EntriesCurrent
<1>1. CacheInv => EntriesCurrent
  BY DEF CacheInv
<1> QED
  BY InitInv, NextInv, <1>1, PTL DEF Spec

\* Whatever the sizes are and whichever allocations fail: a reader never copies from an
\* unmapped address, another page or a frame the page has left.
THEOREM ReadsAreCurrent == Spec => []ReadsCurrent
<1>1. CacheInv => ReadsCurrent
  BY NullAssumption DEF CacheInv, TypeOK, ReadIsEntry, EntriesCurrent, ReadsCurrent, Cached
<1> QED
  BY InitInv, NextInv, <1>1, PTL DEF Spec

-----------------------------------------------------------------------------
\* The clean-up makes room for the key that is queued next.
QueueInv == Len(memory_cache_lru) <= SizeMax /\ Evictable

\* Every step keeps the queue within its bound and its reach over the entries.
LEMMA NextQueue == CacheInv /\ QueueInv /\ [Next]_vars => QueueInv'
<1> SUFFICES ASSUME CacheInv, QueueInv, [Next]_vars
             PROVE  QueueInv'
  OBVIOUS
<1> USE DEF CacheInv
<1>k. /\ Kept \in Seq(Pages) /\ Len(Kept) < SizeMax /\ Popped \subseteq Pages
      /\ ToSet(memory_cache_lru) \subseteq ToSet(Kept) \cup Popped
  BY KeptIsPrefix, PoppedPages, KeptOrPopped DEF TypeOK
<1>s. SizeMax \in Nat
  BY SizeAssumption
\* Without the entries of the popped pages, the queue that is kept has every key.
<1>e. ASSUME NEW q \in Pages, q \notin Popped, memory_cache[q] # None, q \notin unqueued
      PROVE  q \in ToSet(Kept)
  BY <1>k, <1>e DEF QueueInv, Evictable, Cached
<1>1. ASSUME NEW p \in Pages, NoEntry(p)
      PROVE  QueueInv'
  <2>1. \A q \in Pages : memory_cache'[q] # None => q \notin Popped /\ memory_cache[q] # None
    BY <1>1 DEF NoEntry, FreeEntries
  <2>2. memory_cache_lru' = Kept /\ UNCHANGED unqueued
    BY <1>1 DEF NoEntry, lost
  <2> QED
    BY <1>k, <1>s, <1>e, <2>1, <2>2 DEF QueueInv, Evictable, Cached
<1>2. ASSUME NEW p \in Pages, NoKey(p)
      PROVE  QueueInv'
  <2>1. \A q \in Pages : memory_cache'[q] # None => q \notin Popped /\ memory_cache[q] # None
    BY <1>2 DEF NoKey, Missing, Map
  <2>2. memory_cache_lru' = Kept /\ UNCHANGED unqueued
    BY <1>2 DEF NoKey, lost
  <2> QED
    BY <1>k, <1>s, <1>e, <2>1, <2>2 DEF QueueInv, Evictable, Cached
<1>3. ASSUME NEW p \in Pages, NoQueueKey(p)
      PROVE  QueueInv'
  <2>1. \A q \in Pages \ {p} : memory_cache'[q] # None => q \notin Popped /\ memory_cache[q] # None
    BY <1>3 DEF NoQueueKey, Map
  <2>2. memory_cache_lru' = Kept /\ unqueued' = unqueued \cup {p}
    BY <1>3 DEF NoQueueKey
  <2> QED
    BY <1>k, <1>s, <1>e, <2>1, <2>2 DEF QueueInv, Evictable, Cached
<1>4. ASSUME NEW p \in Pages, Insert(p)
      PROVE  QueueInv'
  <2>1. \A q \in Pages \ {p} : memory_cache'[q] # None => q \notin Popped /\ memory_cache[q] # None
    BY <1>4 DEF Insert, Map
  <2>2. memory_cache_lru' = <<p>> \o Kept /\ unqueued' = unqueued \ {p}
    BY <1>4 DEF Insert, Push
  <2>3. Len(memory_cache_lru') <= SizeMax
    BY <1>k, <1>s, <2>2
  <2>4. p \in ToSet(memory_cache_lru') /\ ToSet(Kept) \subseteq ToSet(memory_cache_lru')
    <3>1. /\ 1 \in DOMAIN memory_cache_lru' /\ memory_cache_lru'[1] = p
          /\ \A i \in DOMAIN Kept : /\ i + 1 \in DOMAIN memory_cache_lru'
                                   /\ memory_cache_lru'[i + 1] = Kept[i]
      BY <1>k, <2>2
    <3> QED
      BY <3>1 DEF ToSet
  <2> QED
    BY <1>e, <2>1, <2>2, <2>3, <2>4 DEF QueueInv, Evictable, Cached
<1>5. CASE PutPage
  BY <1>5 DEF PutPage, memory_cache_remove, FreeEntries, QueueInv, Evictable, Cached, lost
<1>6. CASE memory_cache_destroy
  <2>1. Len(memory_cache_lru') <= SizeMax
    BY <1>6, <1>s DEF memory_cache_destroy
  <2>2. Cached' = {}
    BY <1>6 DEF memory_cache_destroy, FreeEntries, Cached
  <2> QED
    BY <2>1, <2>2 DEF QueueInv, Evictable
<1>7. CASE UNCHANGED <<memory_cache, memory_cache_lru, unqueued>>
  BY <1>7 DEF QueueInv, Evictable, Cached
<1> QED
  BY <1>1, <1>2, <1>3, <1>4, <1>5, <1>6, <1>7 DEF Next, Hit, PutMemory, PutFails, vars, lost

\* The empty queue is within its bound.
LEMMA InitQueue == Init => QueueInv
BY SizeAssumption DEF Init, QueueInv, Evictable, Cached

\* The clean-up can reach every entry whose key could be allocated.
THEOREM EveryEntryEvictable == Spec => []Evictable
<1>1. QueueInv => Evictable
  BY DEF QueueInv
<1> QED
  BY InitInv, NextInv, InitQueue, NextQueue, <1>1, PTL DEF Spec

\* A set of the elements of a sequence has no more elements than the sequence.
LEMMA ElementsOfSeq ==
  ASSUME NEW S, NEW s \in Seq(S), NEW T, T \subseteq ToSet(s)
  PROVE  IsFiniteSet(T) /\ Cardinality(T) <= Len(s)
<1>1. Len(s) \in Nat
  OBVIOUS
<1>2. IsFiniteSet(1 .. Len(s)) /\ Cardinality(1 .. Len(s)) = Len(s)
  BY <1>1, FS_Interval, SMTT(30)
<1>3. ToSet(s) = {s[i] : i \in 1 .. Len(s)}
  BY DEF ToSet
<1>4. IsFiniteSet(ToSet(s)) /\ Cardinality(ToSet(s)) <= Len(s)
  <2> DEFINE f == [i \in 1 .. Len(s) |-> s[i]]
  <2>1. f \in Surjection(1 .. Len(s), ToSet(s))
    BY <1>3 DEF Surjection
  <2> HIDE DEF f
  <2> QED
    BY <1>2, <2>1, FS_Surjection
<1>5. IsFiniteSet(T) /\ Cardinality(T) <= Cardinality(ToSet(s)) /\ Cardinality(ToSet(s)) \in Nat
      /\ Cardinality(T) \in Nat
  BY <1>4, FS_Subset, FS_CardinalityType
<1> QED
  BY <1>1, <1>4, <1>5

\* The cache never keeps more pages mapped than its limit, but for those whose key could
\* not be queued.
THEOREM CacheBounded == Spec => []Bounded
<1>1. CacheInv /\ QueueInv => Bounded
  <2> SUFFICES ASSUME CacheInv, QueueInv
               PROVE  Bounded
    OBVIOUS
  <2>1. memory_cache_lru \in Seq(Pages) /\ Cached \ unqueued \subseteq ToSet(memory_cache_lru)
    BY DEF CacheInv, TypeOK, QueueInv, Evictable
  <2>2. IsFiniteSet(Cached \ unqueued) /\ Cardinality(Cached \ unqueued) <= Len(memory_cache_lru)
    BY <2>1, ElementsOfSeq
  <2>3. /\ Len(memory_cache_lru) <= SizeMax /\ SizeMax \in Nat /\ Len(memory_cache_lru) \in Nat
        /\ Cardinality(Cached \ unqueued) \in Nat
    BY <2>1, <2>2, SizeAssumption, FS_CardinalityType DEF QueueInv
  <2> QED
    BY <2>2, <2>3 DEF Bounded
<1> QED
  BY InitInv, NextInv, InitQueue, NextQueue, <1>1, PTL DEF Spec

-----------------------------------------------------------------------------

\* Every step keeps the mappings owned.
LEMMA NextOwned == CacheInv /\ NoLeak /\ [Next]_vars => NoLeak'
<1> SUFFICES ASSUME CacheInv, NoLeak, [Next]_vars
             PROVE  NoLeak'
  OBVIOUS
<1>k. Popped \subseteq Pages
  BY PoppedPages DEF CacheInv, TypeOK
<1>f. ASSUME NEW pages \in SUBSET Pages, FreeEntries(pages), UNCHANGED leaked
      PROVE  NoLeak'
  <2> SUFFICES ASSUME NEW m \in Mappings \ leaked, mapped'[m] # None
               PROVE  \E p \in Pages : memory_cache'[p] = m
    BY <1>f DEF NoLeak
  <2>1. mapped[m] # None /\ \A p \in pages : memory_cache[p] # m
    BY <1>f DEF FreeEntries
  <2> QED
    BY <1>f, <2>1 DEF FreeEntries, NoLeak
<1>m. ASSUME NEW p \in Pages, Missing(p), NEW data \in Unmapped \cup {NoData},
             \/ Map(p, data, data) /\ UNCHANGED leaked
             \/ Map(p, data, None) /\ leaked' = leaked \cup ({data} \ {NoData})
      PROVE  NoLeak'
  <2> SUFFICES ASSUME NEW m \in Mappings \ leaked', mapped'[m] # None
               PROVE  \E q \in Pages : memory_cache'[q] = m
    BY DEF NoLeak
  <2>1. CASE m = data
    BY <1>m, <2>1, NullAssumption DEF Map
  <2>2. CASE m # data
    <3>1. mapped[m] # None /\ \A q \in Popped : memory_cache[q] # m
      BY <1>m, <2>2 DEF Map
    <3>2. PICK q \in Pages : memory_cache[q] = m
      BY <1>m, <3>1 DEF NoLeak
    <3>3. q # p
      BY <1>m, <3>2, NullAssumption DEF Missing
    <3> QED
      BY <1>m, <3>1, <3>2, <3>3 DEF Map
  <2> QED
    BY <2>1, <2>2
<1>1. ASSUME NEW p \in Pages, NoEntry(p)
      PROVE  NoLeak'
  BY <1>1, <1>f, <1>k DEF NoEntry, lost
<1>2. ASSUME NEW p \in Pages, NoKey(p) \/ NoQueueKey(p) \/ Insert(p)
      PROVE  NoLeak'
  BY <1>2, <1>m DEF NoKey, NoQueueKey, Insert
<1>3. CASE PutPage
  <2>1. Head(put) \in Pages
    BY <1>3 DEF PutPage, CacheInv, TypeOK
  <2> QED
    BY <1>3, <1>f, <2>1 DEF PutPage, memory_cache_remove, lost
<1>4. CASE memory_cache_destroy
  BY <1>4, <1>f DEF memory_cache_destroy, lost
<1>5. CASE UNCHANGED <<memory_cache, mapped, leaked>>
  BY <1>5 DEF NoLeak
<1> QED
  BY <1>1, <1>2, <1>3, <1>4, <1>5 DEF Next, Hit, PutMemory, PutFails, vars, lost

\* At first nothing is mapped.
LEMMA InitOwned == Init => NoLeak
BY DEF Init, NoLeak

\* Every mapping has an entry that will unmap it, but for those an insertion left behind
\* when it could not allocate the key.
THEOREM NothingLeaks == Spec => []NoLeak
BY InitInv, NextInv, InitOwned, NextOwned, PTL DEF Spec

-----------------------------------------------------------------------------
(***************************************************************************)
(* The walks and the loops.  First numbers; then the recursive functions   *)
(* of the reference, level by level, and what stays of them when the guest *)
(* writes elsewhere; how the code cuts its entries; and the invariant.     *)
(***************************************************************************)

\* Quotient and remainder.
LEMMA DivMod ==
  ASSUME NEW s \in Nat \ {0}, NEW x \in Nat
  PROVE  /\ x \div s \in Nat /\ x % s \in Nat /\ x % s < s
         /\ x = (x \div s) * s + (x % s)
<1>1. x \div s \in Nat /\ x % s \in Nat /\ x % s < s
  OBVIOUS
<1>2. x = s * (x \div s) + (x % s)
  BY SMTT(30)
<1>3. s * (x \div s) = (x \div s) * s
  BY <1>1, SMTT(30)
<1> QED
  BY <1>1, <1>2, <1>3

\* They are unique.
LEMMA DivModUnique ==
  ASSUME NEW s \in Nat \ {0}, NEW q \in Nat, NEW r \in Nat, r < s
  PROVE  (q * s + r) \div s = q /\ (q * s + r) % s = r
BY SMTT(30)

\* Division in two steps.
LEMMA DivDiv ==
  ASSUME NEW s \in Nat \ {0}, NEW k \in Nat \ {0}, NEW x \in Nat
  PROVE  x \div (s * k) = (x \div s) \div k
BY SMTT(30)

\* A multiple added does not matter to the remainder.
LEMMA MultMod ==
  ASSUME NEW s \in Nat \ {0}, NEW k \in Nat, NEW x \in Nat
  PROVE  (k * s) % s = 0 /\ (k * s + x) % s = x % s
<1>1. (k * s) % s = 0
  BY DivModUnique, 0 < s, k * s + 0 = k * s
<1>2. PICK q \in Nat, r \in Nat : r < s /\ x = q * s + r /\ x % s = r
  BY DivMod
<1>3. k + q \in Nat /\ (k + q) * s = k * s + q * s /\ k * s \in Nat /\ q * s \in Nat
  BY SMTT(30)
<1>4. k * s + x = (k + q) * s + r
  BY <1>2, <1>3
<1>5. ((k + q) * s + r) % s = r
  BY <1>2, <1>3, DivModUnique
<1> QED
  BY <1>1, <1>2, <1>4, <1>5

\* What has no remainder is a multiple.
LEMMA Multiple ==
  ASSUME NEW s \in Nat \ {0}, NEW x \in Nat, x % s = 0
  PROVE  \E k \in Nat : x = k * s
BY DivMod

\* The remainder of a multiple is one.
LEMMA ModMultiple ==
  ASSUME NEW s \in Nat \ {0}, NEW k \in Nat, NEW n \in Nat \ {0}
  PROVE  ((k * s) % (n * s)) % s = 0 /\ (k * s) % (n * s) \in Nat
<1>1. PICK q \in Nat, r \in Nat : r < n /\ k = q * n + r
  BY DivMod, ZenonT(60)
<1>2. n * s \in Nat \ {0} /\ r * s \in Nat
  BY SMTT(30)
<1>3. r * s < n * s
  BY <1>1, SMTT(30)
<1>4. k * s = q * (n * s) + r * s
  BY <1>1, SMTT(30)
<1>5. (q * (n * s) + r * s) % (n * s) = r * s
  BY <1>2, <1>3, DivModUnique
<1>6. (r * s) % s = 0
  BY MultMod, 0 \in Nat
<1>7. (k * s) % (n * s) = r * s
  BY <1>4, <1>5, Zenon
<1> QED
  BY <1>2, <1>6, <1>7, Zenon

\* Bits below the limit are the number without its remainder.
LEMMA CutLow ==
  ASSUME NEW s \in Nat \ {0}, NEW x \in Nat, NEW w \in Nat \ {0}, x < w
  PROVE  Bits(x, s, w) = x - (x % s) /\ Bits(x, s, w) \in Nat
<1>1. (x \div s) * s = x - (x % s) /\ x % s \in Nat /\ x - (x % s) \in 0 .. x
  <2>1. (x \div s) * s \in Nat
    BY DivMod
  <2> QED
    BY <2>1, DivMod
<1>2. \A y \in 0 .. x : y % w = y
  OBVIOUS
<1> QED
  BY <1>1, <1>2 DEF Bits

\* Bits from a multiple of s on, below another, are a multiple of s.
LEMMA BitsAligned ==
  ASSUME NEW s \in Nat \ {0}, NEW k \in Nat \ {0}, NEW x \in Nat,
         NEW w \in Nat \ {0}, w % s = 0
  PROVE  Bits(x, k * s, w) \in Nat /\ Bits(x, k * s, w) % s = 0
<1>1. PICK n \in Nat : w = n * s
  BY Multiple
<1>2. n \in Nat \ {0}
  BY <1>1
<1>3. k * s \in Nat \ {0}
  BY SMTT(30)
<1>4. PICK j \in Nat : j = x \div (k * s)
  BY <1>3, DivMod
<1>5. j * k \in Nat /\ j * (k * s) = (j * k) * s
  BY SMTT(30)
<1>6. Bits(x, k * s, w) = ((j * k) * s) % (n * s)
  BY <1>1, <1>4, <1>5, Zenon DEF Bits
<1>7. ((j * k) * s) % (n * s) \in Nat /\ (((j * k) * s) % (n * s)) % s = 0
  BY <1>2, <1>5, ModMultiple, Zenon
<1> QED
  BY <1>6, <1>7, Zenon

-----------------------------------------------------------------------------
(* The recursive functions. *)

\* What is looked at and found from a table on, by that below.
PathAt(v, l, t) ==
  LET pos == Selected(v, l, t)
      e == At(pos)
  IN IF t \notin Frames THEN {}
     ELSE IF l > 1 /\ Present(e) /\ ~Large(l, e) THEN {pos} \cup PathFrom(v)[l - 1][e.addr]
     ELSE {pos}
PlaceAt(v, l, t) ==
  LET e == At(Selected(v, l, t))
  IN IF t \notin Frames THEN Nowhere
     ELSE IF ~Present(e) THEN Nowhere
     ELSE IF l > 1 /\ ~Large(l, e) THEN PlaceFrom(v)[l - 1][e.addr]
     ELSE [ok |-> TRUE, pa |-> e.addr - (e.addr % SizeOf(l)) + (v % SizeOf(l)),
           size |-> SizeOf(l)]

\* The entries looked at, level by level.
LEMMA PathUnfold == \A v, t \in Nat, l \in 1 .. 4 : PathFrom(v)[l][t] = PathAt(v, l, t)
<1> SUFFICES ASSUME NEW v \in Nat, NEW t \in Nat, NEW l \in 1 .. 4
             PROVE  PathFrom(v)[l][t] = PathAt(v, l, t)
  OBVIOUS
<1> DEFINE sel(k, u) == Selected(v, k, u)
           body(k, u, g) ==
             IF u \notin Frames THEN {}
             ELSE IF k > 1 /\ Present(At(sel(k, u))) /\ ~Large(k, At(sel(k, u)))
                  THEN {sel(k, u)} \cup g[At(sel(k, u)).addr]
             ELSE {sel(k, u)}
           row(k, g) == [u \in Nat |-> body(k, u, g)]
           r1 == row(1, <<>>)
           r2 == row(2, r1)
           r3 == row(3, r2)
           r4 == row(4, r3)
           F == <<r1, r2, r3, r4>>
           P(f) == f = [k \in 1 .. 4 |-> [u \in Nat |-> body(k, u, f[k - 1])]]
<1>1. PathFrom(v) = CHOOSE f : P(f)
  BY DEF PathFrom
<1>2. P(F)
  <2>1. F = [k \in 1 .. 4 |-> F[k]]
    BY SMTT(30)
  <2>2. F[1] = r1 /\ F[2] = r2 /\ F[3] = r3 /\ F[4] = r4
    OBVIOUS
  <2>3. \A g, h : row(1, g) = row(1, h)
    OBVIOUS
  <2> HIDE DEF F
  <2>4. ASSUME NEW k \in 1 .. 4 PROVE F[k] = row(k, F[k - 1])
    <3> HIDE DEF row
    <3> QED
      BY <2>2, <2>3
  <2> QED
    BY <2>1, <2>4
<1>3. P(PathFrom(v))
  <2> HIDE DEF P, F
  <2> QED
    BY <1>1, <1>2
<1>4. PathFrom(v)[l][t] = body(l, t, PathFrom(v)[l - 1])
  <2> DEFINE f == PathFrom(v)
  <2>1. f = [k \in 1 .. 4 |-> [u \in Nat |-> body(k, u, f[k - 1])]]
    BY <1>3
  <2>2. f[l][t] = body(l, t, f[l - 1])
    <3> HIDE DEF body, f
    <3> QED
      BY <2>1
  <2> QED
    BY <2>2
<1> QED
  BY <1>4 DEF PathAt

\* The place found, level by level.
LEMMA PlaceUnfold == \A v, t \in Nat, l \in 1 .. 4 : PlaceFrom(v)[l][t] = PlaceAt(v, l, t)
<1> SUFFICES ASSUME NEW v \in Nat, NEW t \in Nat, NEW l \in 1 .. 4
             PROVE  PlaceFrom(v)[l][t] = PlaceAt(v, l, t)
  OBVIOUS
<1> DEFINE e(k, u) == At(Selected(v, k, u))
           body(k, u, g) ==
             IF u \notin Frames THEN Nowhere
             ELSE IF ~Present(e(k, u)) THEN Nowhere
             ELSE IF k > 1 /\ ~Large(k, e(k, u)) THEN g[e(k, u).addr]
             ELSE [ok |-> TRUE, pa |-> e(k, u).addr - (e(k, u).addr % SizeOf(k)) + (v % SizeOf(k)),
                   size |-> SizeOf(k)]
           row(k, g) == [u \in Nat |-> body(k, u, g)]
           r1 == row(1, <<>>)
           r2 == row(2, r1)
           r3 == row(3, r2)
           r4 == row(4, r3)
           F == <<r1, r2, r3, r4>>
           P(f) == f = [k \in 1 .. 4 |-> [u \in Nat |-> body(k, u, f[k - 1])]]
<1>1. PlaceFrom(v) = CHOOSE f : P(f)
  BY DEF PlaceFrom
<1>2. P(F)
  <2>1. F = [k \in 1 .. 4 |-> F[k]]
    BY SMTT(30)
  <2>2. F[1] = r1 /\ F[2] = r2 /\ F[3] = r3 /\ F[4] = r4
    OBVIOUS
  <2>3. \A g, h : row(1, g) = row(1, h)
    OBVIOUS
  <2> HIDE DEF F
  <2>4. ASSUME NEW k \in 1 .. 4 PROVE F[k] = row(k, F[k - 1])
    <3> HIDE DEF row
    <3> QED
      BY <2>2, <2>3
  <2> QED
    BY <2>1, <2>4, SMTT(30)
<1>3. P(PlaceFrom(v))
  <2> HIDE DEF P, F
  <2> QED
    BY <1>1, <1>2
<1>4. PlaceFrom(v)[l][t] = body(l, t, PlaceFrom(v)[l - 1])
  <2> DEFINE f == PlaceFrom(v)
  <2>1. f = [k \in 1 .. 4 |-> [u \in Nat |-> body(k, u, f[k - 1])]]
    BY <1>3
  <2>2. f[l][t] = body(l, t, f[l - 1])
    <3> HIDE DEF body, f
    <3> QED
      BY <2>1
  <2> QED
    BY <2>2
<1> QED
  BY <1>4 DEF PlaceAt

\* The same for the list of pages.
ListAt(l, t, base) ==
  IF t \notin Frames THEN {}
  ELSE UNION {
    LET e == mem[t][s]
        v == base + s * SizeOf(l)
    IN IF ~EntryPresent(ListAllowed(l), e) THEN {}
       ELSE IF MapsPage(l, e)
       THEN {[va |-> v, size |-> SizeOf(l),
              pa |-> IF mode = "legacy" /\ l = 2 THEN v ELSE PagePlus(l, e, v)]}
       ELSE ListFrom[l - 1][NextTable(l, e)][v]
    : s \in Slots}

\* The pages listed, level by level.
LEMMA ListUnfold == \A t, base \in Nat, l \in 1 .. 4 : ListFrom[l][t][base] = ListAt(l, t, base)
<1> SUFFICES ASSUME NEW base \in Nat, NEW t \in Nat, NEW l \in 1 .. 4
             PROVE  ListFrom[l][t][base] = ListAt(l, t, base)
  OBVIOUS
<1> DEFINE one(k, u, b, s, g) ==
    LET e == mem[u][s]
        v == b + s * SizeOf(k)
    IN IF ~EntryPresent(ListAllowed(k), e) THEN {}
       ELSE IF MapsPage(k, e)
       THEN {[va |-> v, size |-> SizeOf(k),
              pa |-> IF mode = "legacy" /\ k = 2 THEN v ELSE PagePlus(k, e, v)]}
       ELSE g[NextTable(k, e)][v]
           body(k, u, b, g) ==
             IF u \notin Frames THEN {} ELSE UNION {one(k, u, b, s, g) : s \in Slots}
           row(k, g) == [u \in Nat |-> [b \in Nat |-> body(k, u, b, g)]]
           r1 == row(1, <<>>)
           r2 == row(2, r1)
           r3 == row(3, r2)
           r4 == row(4, r3)
           F == <<r1, r2, r3, r4>>
           P(f) == f = [k \in 1 .. 4 |-> [u \in Nat |-> [b \in Nat |-> body(k, u, b, f[k - 1])]]]
<1>1. ListFrom = CHOOSE f : P(f)
  BY SMTT(30) DEF ListFrom
<1>2. P(F)
  <2>1. F = [k \in 1 .. 4 |-> F[k]]
    <3> HIDE DEF row
    <3> QED
      BY SMTT(30)
  <2>2. F[1] = r1 /\ F[2] = r2 /\ F[3] = r3 /\ F[4] = r4
    OBVIOUS
  <2>3. \A g, h : row(1, g) = row(1, h)
    BY DEF MapsPage
  <2> HIDE DEF F
  <2>4. ASSUME NEW k \in 1 .. 4 PROVE F[k] = row(k, F[k - 1])
    <3> HIDE DEF row
    <3> QED
      BY <2>2, <2>3
  <2> QED
    BY <2>1, <2>4
<1>3. P(ListFrom)
  <2> HIDE DEF P, F
  <2> QED
    BY <1>1, <1>2
<1>4. ListFrom[l][t][base] = body(l, t, base, ListFrom[l - 1])
  <2> DEFINE f == ListFrom
  <2>1. f = [k \in 1 .. 4 |-> [u \in Nat |-> [b \in Nat |-> body(k, u, b, f[k - 1])]]]
    BY <1>3
  <2>2. f[l][t][base] = body(l, t, base, f[l - 1])
    <3> HIDE DEF body, f
    <3>1. f[l] = [u \in Nat |-> [b \in Nat |-> body(l, u, b, f[l - 1])]]
      BY <2>1
    <3>2. f[l][t] = [b \in Nat |-> body(l, t, b, f[l - 1])]
      BY <3>1
    <3> QED
      BY <3>2
  <2> QED
    BY <2>2, SMTT(30)
<1> QED
  BY <1>4 DEF ListAt

-----------------------------------------------------------------------------
(* What an address selects. *)

\* What the modes' depths are.
LEMMA Depths ==
  ASSUME mode \in Modes
  PROVE  \/ mode = "legacy" /\ Depth[mode] = 2
         \/ mode = "pae" /\ Depth[mode] = 3
         \/ mode = "ia32e" /\ Depth[mode] = 4
BY ModeAssumption DEF Depth

\* What the sizes are.
LEMMA Sizes ==
  /\ PageSize \in Nat \ {0} /\ Fanout \in Nat \ {0, 1}
  /\ SizeOf(1) = PageSize
  /\ \A l \in 1 .. 4 : /\ SizeOf(l) \in Nat \ {0}
                       /\ \E k \in Nat \ {0} : SizeOf(l) = k * PageSize
  /\ \A l \in 2 .. 4 : SizeOf(l) = SizeOf(l - 1) * Fanout
  /\ SizeOf(2) # PageSize
<1>1. PageSize \in Nat \ {0} /\ Fanout \in Nat \ {0, 1}
  BY WidthAssumption
<1>2. \A a, b \in Nat \ {0} : a * b \in Nat \ {0} /\ a * b = b * a
  BY SMTT(30)
<1>3. \A a, b, c \in Nat \ {0} : (a * b) * c = (b * c) * a
  BY SMTT(30)
<1>4. /\ SizeOf(1) = PageSize /\ SizeOf(2) = PageSize * Fanout
      /\ SizeOf(3) = PageSize * Fanout * Fanout
      /\ SizeOf(4) = PageSize * Fanout * Fanout * Fanout
  BY DEF SizeOf
<1>5. ASSUME NEW l \in 2 .. 4
      PROVE  SizeOf(l) = SizeOf(l - 1) * Fanout
  <2>1. l = 2 \/ l = 3 \/ l = 4
    OBVIOUS
  <2> QED
    BY <1>4, <2>1
<1> DEFINE Good(n) == n \in Nat \ {0} /\ \E k \in Nat \ {0} : n = k * PageSize
<1>6. ASSUME NEW n, Good(n)
      PROVE  Good(n * Fanout)
  <2>1. PICK k \in Nat \ {0} : n = k * PageSize
    BY <1>6
  <2>2. n * Fanout \in Nat \ {0} /\ k * Fanout \in Nat \ {0}
    BY <1>1, <1>2, <1>6
  <2>3. n * Fanout = (k * Fanout) * PageSize
    BY <1>1, <2>1, SMTT(30)
  <2> QED
    BY <2>2, <2>3
<1>7. Good(PageSize)
  BY <1>1, 1 * PageSize = PageSize
<1>8. Good(SizeOf(1)) /\ Good(SizeOf(2)) /\ Good(SizeOf(3)) /\ Good(SizeOf(4))
  <2> HIDE DEF Good
  <2> QED
    BY <1>4, <1>6, <1>7
<1>9. \A l \in 1 .. 4 : Good(SizeOf(l))
  <2> HIDE DEF Good
  <2>1. \A l \in 1 .. 4 : l = 1 \/ l = 2 \/ l = 3 \/ l = 4
    OBVIOUS
  <2> QED
    BY <1>8, <2>1
<1>10. PageSize * Fanout # PageSize
  <2>1. PageSize * Fanout >= PageSize * 2
    BY <1>1, SMTT(30)
  <2> QED
    BY <1>1, <2>1
<1> QED
  BY <1>1, <1>4, <1>5, <1>9, <1>10

\* The slot an address selects is one of the table's.
LEMMA SelectedIn ==
  ASSUME NEW v \in Nat, NEW l \in 1 .. 4, NEW t \in Frames
  PROVE  /\ Index(v, l) \in Slots
         /\ Selected(v, l, t) = <<t, Index(v, l)>>
         /\ Selected(v, l, t) \in Frames \X Slots
         /\ At(Selected(v, l, t)) = mem[t][Index(v, l)]
<1>1. v \div SizeOf(l) \in Nat
  BY Sizes, DivMod
<1>2. Index(v, l) \in Slots
  BY <1>1, Sizes DEF Index, Slots
<1> QED
  BY <1>2 DEF Selected, Index, At

\* An entry's address is a page's.
LEMMA EntryIn ==
  ASSUME MemTypeOK, NEW t \in Frames, NEW s \in Slots
  PROVE  /\ mem[t][s] \in Entry
         /\ mem[t][s].addr \in Nat /\ mem[t][s].addr < Full /\ mem[t][s].addr % PageSize = 0
         /\ mem[t][s].p \in BOOLEAN /\ mem[t][s].ps \in BOOLEAN /\ mem[t][s].tr \in BOOLEAN
         /\ mode = "legacy" => mem[t][s].addr < Low
<1>1. mem[t][s] \in Entry
  BY DEF MemTypeOK
<1>2. mem[t][s].addr \in Frame
  BY <1>1 DEF Entry
<1> QED
  BY <1>1, <1>2, WidthAssumption DEF MemTypeOK, Entry, Frame

-----------------------------------------------------------------------------
(* What a write to the tables changes. *)

\* What is looked at and found, level by level.
Unfolds ==
  \A v, t \in Nat, l \in 1 .. 4 :
     PathFrom(v)[l][t] = PathAt(v, l, t) /\ PlaceFrom(v)[l][t] = PlaceAt(v, l, t)

\* So it is now and after a step.
LEMMA Unfolding == Unfolds /\ Unfolds'
<1>1. Unfolds
  BY PathUnfold, PlaceUnfold DEF Unfolds
<1> QED
  BY <1>1, PTL

\* A step changes no other entries than some.
OnlyIn(W) ==
  /\ UNCHANGED config
  /\ \A pos \in (Frames \X Slots) \ W : At(pos)' = At(pos)

\* What is looked at and found for v stays when other entries change.
LEMMA Elsewhere ==
  ASSUME MemTypeOK, NEW W, OnlyIn(W),
         NEW v \in Nat, NEW l \in 1 .. 4, NEW t \in Nat,
         W \cap PathFrom(v)[l][t] = {} \/ W \cap (PathFrom(v)[l][t])' = {}
  PROVE  /\ (PathFrom(v)[l][t])' = PathFrom(v)[l][t]
         /\ (PlaceFrom(v)[l][t])' = PlaceFrom(v)[l][t]
<1> SUFFICES ASSUME UNCHANGED config, \A pos \in (Frames \X Slots) \ W : At(pos)' = At(pos)
             PROVE  /\ (PathFrom(v)[l][t])' = PathFrom(v)[l][t]
                    /\ (PlaceFrom(v)[l][t])' = PlaceFrom(v)[l][t]
  BY DEF OnlyIn
<1>u. ASSUME NEW k \in 1 .. 4, NEW u \in Nat
      PROVE  /\ PathFrom(v)[k][u] = PathAt(v, k, u)
             /\ PlaceFrom(v)[k][u] = PlaceAt(v, k, u)
             /\ (PathFrom(v)[k][u])' = PathAt(v, k, u)'
             /\ (PlaceFrom(v)[k][u])' = PlaceAt(v, k, u)'
  BY Unfolding DEF Unfolds
<1> DEFINE Q(k) == \A u \in Nat :
             W \cap PathFrom(v)[k][u] = {} \/ W \cap (PathFrom(v)[k][u])' = {} =>
               /\ (PathFrom(v)[k][u])' = PathFrom(v)[k][u]
               /\ (PlaceFrom(v)[k][u])' = PlaceFrom(v)[k][u]
<1>1. ASSUME NEW k \in 1 .. 4, k > 1 => Q(k - 1)
      PROVE  Q(k)
  <2> SUFFICES ASSUME NEW u \in Nat,
                      W \cap PathFrom(v)[k][u] = {} \/ W \cap (PathFrom(v)[k][u])' = {}
               PROVE  /\ (PathFrom(v)[k][u])' = PathFrom(v)[k][u]
                      /\ (PlaceFrom(v)[k][u])' = PlaceFrom(v)[k][u]
    OBVIOUS
  <2> DEFINE pos == Selected(v, k, u)
             e == At(pos)
  <2>u. /\ PathFrom(v)[k][u] = PathAt(v, k, u)
        /\ PlaceFrom(v)[k][u] = PlaceAt(v, k, u)
        /\ (PathFrom(v)[k][u])' = (PathAt(v, k, u))'
        /\ (PlaceFrom(v)[k][u])' = (PlaceAt(v, k, u))'
    BY <1>u
  <2>1. CASE u \notin Frames
    BY <2>u, <2>1 DEF PathAt, PlaceAt, Nowhere
  <2>2. CASE u \in Frames
    <3>1. pos \in Frames \X Slots /\ pos' = pos
      BY <2>2, SelectedIn DEF Selected, SizeOf
    <3>2. pos \in PathFrom(v)[k][u] /\ pos' \in (PathFrom(v)[k][u])'
      <4>1. pos \in PathAt(v, k, u) /\ pos' \in PathAt(v, k, u)'
        BY <2>2 DEF PathAt
      <4> QED
        BY <2>u, <4>1
    <3>3. e' = e
      BY <3>1, <3>2
    <3>4. Present(e)' = Present(e) /\ Large(k, e)' = Large(k, e)
      BY <3>3 DEF Present, Large, config
    <3>5. CASE k > 1 /\ Present(e) /\ ~Large(k, e)
      <4>1. PICK a \in Nat : a = e.addr /\ k - 1 \in 1 .. 4
        <5>1. e = mem[u][Index(v, k)] /\ Index(v, k) \in Slots
          BY <2>2, SelectedIn
        <5> QED
          BY <2>2, <3>5, <5>1, EntryIn
      <4>2. /\ PathFrom(v)[k][u] = {pos} \cup PathFrom(v)[k - 1][a]
            /\ PlaceFrom(v)[k][u] = PlaceFrom(v)[k - 1][a]
        BY <2>u, <2>2, <3>5, <4>1 DEF PathAt, PlaceAt
      <4>3. /\ (PathFrom(v)[k][u])' = {pos} \cup (PathFrom(v)[k - 1][a])'
            /\ (PlaceFrom(v)[k][u])' = (PlaceFrom(v)[k - 1][a])'
        <5>1. (PathAt(v, k, u))' = {pos} \cup (PathFrom(v)[k - 1])'[a]
          BY <2>2, <3>1, <3>3, <3>4, <3>5, <4>1, Zenon DEF PathAt
        <5>2. (PlaceAt(v, k, u))' = (PlaceFrom(v)[k - 1])'[a]
          BY <2>2, <3>1, <3>3, <3>4, <3>5, <4>1, Zenon DEF PlaceAt
        <5> QED
          BY <2>u, <5>1, <5>2
      <4>4. Q(k - 1)
        BY <1>1, <3>5
      <4>5. W \cap PathFrom(v)[k - 1][a] = {} \/ W \cap (PathFrom(v)[k - 1][a])' = {}
        BY <4>2, <4>3
      <4>6. /\ (PathFrom(v)[k - 1][a])' = PathFrom(v)[k - 1][a]
            /\ (PlaceFrom(v)[k - 1][a])' = PlaceFrom(v)[k - 1][a]
        BY <4>4, <4>5
      <4> QED
        BY <4>2, <4>3, <4>6
    <3>6. CASE ~(k > 1 /\ Present(e) /\ ~Large(k, e))
      <4>1. PathAt(v, k, u) = {pos}
        BY <2>2, <3>6, Zenon DEF PathAt
      <4>2. (PathAt(v, k, u))' = {pos}
        BY <2>2, <3>1, <3>3, <3>4, <3>6, Zenon DEF PathAt
      <4>3. (PlaceAt(v, k, u))' = PlaceAt(v, k, u)
        BY <2>2, <3>1, <3>3, <3>4, <3>6 DEF PlaceAt, Nowhere, SizeOf
      <4> QED
        BY <2>u, <4>1, <4>2, <4>3
    <3> QED
      BY <3>5, <3>6
  <2> QED
    BY <2>1, <2>2
<1>2. Q(1)
  BY <1>1
<1>3. Q(2)
  BY <1>1, <1>2
<1>4. Q(3)
  BY <1>1, <1>3
<1>5. Q(4)
  BY <1>1, <1>4
<1>6. Q(l)
  <2>1. l = 1 \/ l = 2 \/ l = 3 \/ l = 4
    OBVIOUS
  <2> QED
    BY <1>2, <1>3, <1>4, <1>5, <2>1
<1> QED
  BY <1>6

\* Only entries of the guest's tables are looked at.
LEMMA PathIn ==
  ASSUME MemTypeOK, NEW v \in Nat, NEW l \in 1 .. 4, NEW t \in Nat
  PROVE  PathFrom(v)[l][t] \subseteq Frames \X Slots
<1> DEFINE Q(k) == \A u \in Nat : PathFrom(v)[k][u] \subseteq Frames \X Slots
<1>1. ASSUME NEW k \in 1 .. 4, k > 1 => Q(k - 1)
      PROVE  Q(k)
  <2> SUFFICES ASSUME NEW u \in Nat
               PROVE  PathFrom(v)[k][u] \subseteq Frames \X Slots
    OBVIOUS
  <2>1. PathFrom(v)[k][u] = PathAt(v, k, u)
    BY PathUnfold
  <2>2. CASE u \notin Frames
    BY <2>1, <2>2 DEF PathAt
  <2>3. CASE u \in Frames
    <3>1. /\ Selected(v, k, u) \in Frames \X Slots
          /\ At(Selected(v, k, u)).addr \in Nat
      BY <2>3, SelectedIn, EntryIn, SMTT(30)
    <3>2. CASE PathAt(v, k, u) = {Selected(v, k, u)}
      BY <2>1, <3>1, <3>2
    <3>3. CASE k > 1 /\ PathAt(v, k, u) = {Selected(v, k, u)} \cup
                                          PathFrom(v)[k - 1][At(Selected(v, k, u)).addr]
      <4>1. Q(k - 1)
        BY <1>1, <3>3
      <4> QED
        BY <2>1, <3>1, <3>3, <4>1
    <3> QED
      BY <2>3, <3>2, <3>3, Zenon DEF PathAt
  <2> QED
    BY <2>2, <2>3
<1>2. Q(1)
  BY <1>1
<1>3. Q(2)
  BY <1>1, <1>2
<1>4. Q(3)
  BY <1>1, <1>3
<1>5. Q(4)
  BY <1>1, <1>4
<1> QED
  <2>1. l = 1 \/ l = 2 \/ l = 3 \/ l = 4
    OBVIOUS
  <2> QED
    BY <1>2, <1>3, <1>4, <1>5, <2>1

\* The root's entry is looked at.
LEMMA RootOnPath ==
  ASSUME MemTypeOK, NEW v \in Nat
  PROVE  /\ Dtb \in Nat /\ Depth[mode] \in 1 .. 4
         /\ Selected(v, Depth[mode], Dtb) \in PathTo(v)
<1>1. Dtb \in Frames /\ Dtb \in Nat
  BY MemoryAssumption, WidthAssumption DEF Frame
<1>2. Depth[mode] \in 1 .. 4
  BY Depths DEF MemTypeOK
<1>3. PathTo(v) = PathAt(v, Depth[mode], Dtb)
  BY <1>1, <1>2, PathUnfold DEF PathTo
<1> QED
  BY <1>1, <1>2, <1>3 DEF PathAt

\* What maps v, if it is left alone: nothing that is said of v changes.
LEMMA StillThere ==
  ASSUME MemTypeOK, NEW W, OnlyIn(W),
         touched \cup W \subseteq touched',
         NEW v \in Nat, Steady(v)'
  PROVE  /\ Steady(v) /\ W \cap PathTo(v) = {}
         /\ Translate(v)' = Translate(v)
         /\ Fits(v)' = Fits(v)
         /\ PaeHole(v)' = PaeHole(v)
<1> SUFFICES ASSUME UNCHANGED config, \A pos \in (Frames \X Slots) \ W : At(pos)' = At(pos)
             PROVE  /\ Steady(v) /\ W \cap PathTo(v) = {}
                    /\ Translate(v)' = Translate(v)
                    /\ Fits(v)' = Fits(v)
                    /\ PaeHole(v)' = PaeHole(v)
  BY DEF OnlyIn
<1>1. Dtb \in Nat /\ Depth[mode] \in 1 .. 4 /\ Depth[mode]' = Depth[mode]
  BY RootOnPath DEF config
<1>2. W \cap PathTo(v)' = {} /\ touched \cap PathTo(v)' = {}
  BY DEF Steady
<1>3. PathTo(v)' = PathTo(v) /\ Translate(v)' = Translate(v)
  <2>1. PICK l \in 1 .. 4, t \in Nat : l = Depth[mode] /\ t = Dtb
    BY <1>1
  <2>2. /\ PathTo(v) = PathFrom(v)[l][t] /\ Translate(v) = PlaceFrom(v)[l][t]
        /\ PathTo(v)' = (PathFrom(v)[l][t])' /\ Translate(v)' = (PlaceFrom(v)[l][t])'
    BY <1>1, <2>1 DEF PathTo, Translate
  <2>3. W \cap (PathFrom(v)[l][t])' = {}
    BY <1>2, <2>2
  <2>4. /\ (PathFrom(v)[l][t])' = PathFrom(v)[l][t]
        /\ (PlaceFrom(v)[l][t])' = PlaceFrom(v)[l][t]
    BY <2>3, Elsewhere, SMTT(30)
  <2> QED
    BY <2>2, <2>4
<1>4. Steady(v) /\ W \cap PathTo(v) = {}
  BY <1>2, <1>3 DEF Steady
<1>5. \A pos \in PathTo(v) : At(pos)' = At(pos)
  BY <1>1, <1>4, PathIn DEF PathTo
<1>6. Fits(v)' = Fits(v)
  BY <1>3, <1>5 DEF Fits, Narrow, config
<1>7. PaeHole(v)' = PaeHole(v)
  <2>1. CASE mode = "pae"
    <3>1. Selected(v, 3, Dtb) \in PathTo(v) /\ Selected(v, 3, Dtb)' = Selected(v, 3, Dtb)
      BY <2>1, RootOnPath DEF Depth, Selected, SizeOf
    <3> QED
      BY <1>5, <2>1, <3>1 DEF PaeHole, Present, config
  <2>2. CASE mode # "pae"
    BY <2>2 DEF PaeHole, config
  <2> QED
    BY <2>1, <2>2
<1> QED
  BY <1>3, <1>4, <1>6, <1>7

-----------------------------------------------------------------------------
(* What the code cuts out of an entry. *)

\* The limits of the fields.
LEMMA Limits ==
  ASSUME mode \in Modes, NEW l \in 1 .. 4
  PROVE  /\ {Low, Mid, Full, TableLimit(l), PageLimit(l)} \subseteq Nat \ {0}
         /\ TableLimit(l) % PageSize = 0 /\ PageLimit(l) % PageSize = 0 /\ Full % PageSize = 0
         /\ mode = "legacy" => TableLimit(l) = Low /\ PageLimit(l) = Low
         /\ mode = "ia32e" => TableLimit(l) = Full /\ PageLimit(l) = Full
         /\ mode = "pae" => /\ TableLimit(l) \in {Mid, Full}
                            /\ PageLimit(1) = Mid /\ PageLimit(2) = Low
         /\ Low <= Mid /\ Mid <= Full
<1>1. mode \in {"legacy", "pae", "ia32e"}
  BY Depths
<1>2. /\ {Low, Mid, Full} \subseteq Nat \ {0} /\ Low <= Mid /\ Mid <= Full
      /\ Low % PageSize = 0 /\ Mid % PageSize = 0 /\ Full % PageSize = 0
  BY WidthAssumption
<1>3. CASE mode = "legacy"
  BY <1>2, <1>3 DEF TableLimit, PageLimit
<1>4. CASE mode = "pae"
  BY <1>2, <1>4 DEF TableLimit, PageLimit
<1>5. CASE mode = "ia32e"
  BY <1>2, <1>5 DEF TableLimit, PageLimit
<1> QED
  BY <1>1, <1>3, <1>4, <1>5

\* Whatever an entry holds, its table is at a page, and the offset within the page stays.
LEMMA Offsets ==
  ASSUME MemTypeOK, NEW l \in 1 .. 4, NEW t \in Frames, NEW s \in Slots, NEW v \in Nat
  PROVE  /\ NextTable(l, mem[t][s]) \in Nat /\ NextTable(l, mem[t][s]) % PageSize = 0
         /\ PagePlus(l, mem[t][s], v) \in Nat
         /\ PagePlus(l, mem[t][s], v) % PageSize = v % PageSize
<1> DEFINE a == mem[t][s].addr
<1>1. a \in Nat
  BY EntryIn
<1>2. /\ TableLimit(l) \in Nat \ {0} /\ PageLimit(l) \in Nat \ {0}
      /\ TableLimit(l) % PageSize = 0 /\ PageLimit(l) % PageSize = 0
  BY Limits DEF MemTypeOK
<1>3. PageSize \in Nat \ {0}
  BY Sizes
<1> HIDE DEF a
<1>4. Bits(a, PageSize, TableLimit(l)) \in Nat /\ Bits(a, PageSize, TableLimit(l)) % PageSize = 0
  <2>1. 1 * PageSize = PageSize
    BY <1>3
  <2> QED
    BY <1>1, <1>2, <1>3, <2>1, BitsAligned
<1>5. PICK k \in Nat \ {0} : SizeOf(l) = k * PageSize
  BY Sizes
<1>6. PICK b \in Nat : b = Bits(a, SizeOf(l), PageLimit(l)) /\ b % PageSize = 0
  BY <1>1, <1>2, <1>3, <1>5, BitsAligned, SMTT(30)
<1>7. v % SizeOf(l) \in Nat /\ (v % SizeOf(l)) % PageSize = v % PageSize
  <2>1. PICK q \in Nat, r \in Nat : v = q * SizeOf(l) + r /\ r = v % SizeOf(l)
    BY Sizes, DivMod
  <2>2. q * SizeOf(l) = (q * k) * PageSize /\ q * k \in Nat
    BY <1>3, <1>5, SMTT(30)
  <2>3. ((q * k) * PageSize + r) % PageSize = r % PageSize
    BY <1>3, <2>2, MultMod
  <2> QED
    BY <2>1, <2>2, <2>3
<1>8. PICK n \in Nat : b = n * PageSize
  BY <1>3, <1>6, Multiple
<1>9. (n * PageSize + (v % SizeOf(l))) % PageSize = v % PageSize
  BY <1>3, <1>7, MultMod
<1>10. PagePlus(l, mem[t][s], v) = n * PageSize + (v % SizeOf(l))
  BY <1>6, <1>8 DEF PagePlus, a
<1>11. n * PageSize + (v % SizeOf(l)) \in Nat
  BY <1>6, <1>7, <1>8
<1> QED
  BY <1>4, <1>9, <1>10, <1>11 DEF NextTable, a

\* The code takes the same entries for present and for pages as the manual.
LEMMA SameKind ==
  ASSUME MemTypeOK, NEW l \in 1 .. 4, NEW e
  PROVE  /\ EntryPresent(transition, e) <=> Present(e)
         /\ MapsPage(l, e) <=> l = 1 \/ Large(l, e)
BY DEF EntryPresent, Present, MapsPage, Large

\* The code reads an entry as the manual does, if the PAE code has room for its address.
LEMMA SameBits ==
  ASSUME MemTypeOK, NEW l \in 1 .. 4, l <= Depth[mode],
         NEW t \in Frames, NEW s \in Slots, NEW v \in Nat,
         mode = "pae" => Narrow(mem[t][s])
  PROVE  LET e == mem[t][s] IN
         /\ NextTable(l, e) = e.addr
         /\ MapsPage(l, e) => PagePlus(l, e, v) = e.addr - (e.addr % SizeOf(l)) + (v % SizeOf(l))
<1> DEFINE e == mem[t][s]
<1>1. /\ e.addr \in Nat /\ e.addr < Full /\ e.addr % PageSize = 0 /\ e.ps \in BOOLEAN
      /\ mode = "legacy" => e.addr < Low
  BY EntryIn
<1>2. mode \in Modes /\ mode \in {"legacy", "pae", "ia32e"}
  BY Depths DEF MemTypeOK
<1>3. mode = "pae" => e.addr < Mid /\ (e.ps => e.addr < Low)
  BY <1>1, <1>2, Limits DEF Narrow
<1>4. e.addr < TableLimit(l)
  BY <1>1, <1>2, <1>3, Limits
<1>5. NextTable(l, e) = e.addr
  <2>1. TableLimit(l) \in Nat \ {0} /\ PageSize \in Nat \ {0}
    BY <1>2, Limits, Sizes
  <2>2. Bits(e.addr, PageSize, TableLimit(l)) = e.addr - (e.addr % PageSize)
    BY <1>1, <1>4, <2>1, CutLow
  <2> QED
    BY <1>1, <2>2 DEF NextTable
<1>6. ASSUME MapsPage(l, e)
      PROVE  PagePlus(l, e, v) = e.addr - (e.addr % SizeOf(l)) + (v % SizeOf(l))
  <2>1. e.addr < PageLimit(l)
    <3>1. CASE mode = "pae"
      <4>1. l = 1 \/ (l = 2 /\ e.ps)
        BY <1>6, <3>1 DEF MapsPage
      <4> QED
        BY <1>2, <1>3, <3>1, <4>1, Limits
    <3> QED
      BY <1>1, <1>2, <3>1, Limits
  <2> QED
    BY <1>1, <1>2, <2>1, Limits, Sizes, CutLow, ZenonT(60) DEF PagePlus
<1> QED
  BY <1>5, <1>6

\* Addresses of one page are of one piece of any size.
LEMMA SamePiece ==
  ASSUME NEW v \in Nat, NEW w \in Nat, v \div PageSize = w \div PageSize, NEW l \in 1 .. 4
  PROVE  v \div SizeOf(l) = w \div SizeOf(l) /\ w % SizeOf(l) = (v % SizeOf(l)) + (w - v)
<1>1. PICK k \in Nat \ {0} : SizeOf(l) = k * PageSize
  BY Sizes
<1>2. PageSize \in Nat \ {0} /\ k * PageSize = PageSize * k /\ SizeOf(l) \in Nat \ {0}
  BY Sizes, SMTT(30)
<1>3. v \div SizeOf(l) = w \div SizeOf(l)
  BY <1>1, <1>2, DivDiv
<1>4. PICK q \in Nat : q = v \div SizeOf(l)
  BY <1>2, DivMod
<1>5. v = q * SizeOf(l) + (v % SizeOf(l)) /\ w = q * SizeOf(l) + (w % SizeOf(l))
  BY <1>2, <1>3, <1>4, DivMod
<1>6. q * SizeOf(l) \in Nat /\ v % SizeOf(l) \in Nat /\ w % SizeOf(l) \in Nat
  BY <1>2, <1>4, DivMod, SMTT(30)
<1>7. w % SizeOf(l) = (v % SizeOf(l)) + (w - v)
  <2> DEFINE n == q * SizeOf(l)  r == v % SizeOf(l)  s == w % SizeOf(l)
  <2>1. v = n + r /\ w = n + s /\ n \in Nat /\ r \in Nat /\ s \in Nat
    BY <1>5, <1>6
  <2> HIDE DEF n, r, s
  <2>2. s = r + (w - v)
    BY <2>1
  <2> QED
    BY <2>2 DEF r, s
<1> QED
  BY <1>3, <1>7

\* The bytes of a page are found together.
Together(v, w, l, t) ==
  /\ PathFrom(w)[l][t] = PathFrom(v)[l][t]
  /\ PlaceFrom(w)[l][t].ok = PlaceFrom(v)[l][t].ok
  /\ PlaceFrom(v)[l][t].ok => /\ PlaceFrom(v)[l][t].pa \in Nat
                              /\ PlaceFrom(w)[l][t].pa = PlaceFrom(v)[l][t].pa + (w - v)
                              /\ PlaceFrom(w)[l][t].size = PlaceFrom(v)[l][t].size

\* They are, at every level and from every table on.
LEMMA SamePlace ==
  ASSUME MemTypeOK, NEW v \in Nat, NEW w \in Nat, v \div PageSize = w \div PageSize,
         NEW l \in 1 .. 4, NEW t \in Nat
  PROVE  Together(v, w, l, t)
<1> DEFINE Q(k) == \A u \in Nat : Together(v, w, k, u)
<1>1. ASSUME NEW k \in 1 .. 4, k > 1 => Q(k - 1)
      PROVE  Q(k)
  <2> SUFFICES ASSUME NEW u \in Nat
               PROVE  Together(v, w, k, u)
    OBVIOUS
  <2>1. /\ PathFrom(v)[k][u] = PathAt(v, k, u) /\ PathFrom(w)[k][u] = PathAt(w, k, u)
        /\ PlaceFrom(v)[k][u] = PlaceAt(v, k, u) /\ PlaceFrom(w)[k][u] = PlaceAt(w, k, u)
    BY PathUnfold, PlaceUnfold
  <2>2. Selected(w, k, u) = Selected(v, k, u)
    BY SamePiece DEF Selected
  <2>3. CASE u \notin Frames
    BY <2>1, <2>3 DEF PathAt, PlaceAt, Nowhere, Together
  <2>4. CASE u \in Frames
    <3> DEFINE pos == Selected(v, k, u)
               e == At(pos)
    <3>1. e.addr \in Nat
      BY <2>4, SelectedIn, EntryIn, SMTT(30)
    <3> HIDE DEF pos
    <3>2. PathAt(w, k, u) = PathAt(v, k, u)
      <4>1. CASE k > 1 /\ Present(e) /\ ~Large(k, e)
        <5>1. Together(v, w, k - 1, e.addr)
          BY <1>1, <3>1, <4>1
        <5> QED
          BY <2>2, <2>4, <4>1, <5>1, Zenon DEF PathAt, Together, pos
      <4>2. CASE ~(k > 1 /\ Present(e) /\ ~Large(k, e))
        BY <2>2, <2>4, <4>2, Zenon DEF PathAt, pos
      <4> QED
        BY <4>1, <4>2
    <3>3. CASE ~Present(e)
      <4>1. PlaceAt(v, k, u) = Nowhere /\ PlaceAt(w, k, u) = Nowhere
        BY <2>2, <2>4, <3>3, Zenon DEF PlaceAt, pos
      <4> QED
        BY <2>1, <3>2, <4>1 DEF Together, Nowhere
    <3>4. CASE Present(e) /\ k > 1 /\ ~Large(k, e)
      <4>1. Together(v, w, k - 1, e.addr)
        BY <1>1, <3>1, <3>4
      <4>2. /\ PlaceAt(v, k, u) = PlaceFrom(v)[k - 1][e.addr]
            /\ PlaceAt(w, k, u) = PlaceFrom(w)[k - 1][e.addr]
        BY <2>2, <2>4, <3>4, Zenon DEF PlaceAt, pos
      <4> QED
        BY <2>1, <3>2, <4>1, <4>2, Zenon DEF Together
    <3>5. CASE Present(e) /\ ~(k > 1 /\ ~Large(k, e))
      <4> DEFINE b == e.addr - (e.addr % SizeOf(k))
      <4>1. /\ PlaceAt(v, k, u) = [ok |-> TRUE, pa |-> b + (v % SizeOf(k)), size |-> SizeOf(k)]
            /\ PlaceAt(w, k, u) = [ok |-> TRUE, pa |-> b + (w % SizeOf(k)), size |-> SizeOf(k)]
        BY <2>2, <2>4, <3>5, Zenon DEF PlaceAt, pos
      <4>2. b \in Nat /\ v % SizeOf(k) \in Nat /\ w % SizeOf(k) = (v % SizeOf(k)) + (w - v)
        <5>1. SizeOf(k) \in Nat \ {0}
          BY Sizes
        <5>2. e.addr = (e.addr \div SizeOf(k)) * SizeOf(k) + (e.addr % SizeOf(k))
              /\ e.addr \div SizeOf(k) \in Nat /\ e.addr % SizeOf(k) \in Nat
          BY <3>1, <5>1, DivMod
        <5>3. (e.addr \div SizeOf(k)) * SizeOf(k) \in Nat
          BY <5>1, <5>2, SMTT(30)
        <5>4. b \in Nat
          BY <3>1, <5>2, <5>3
        <5>5. v % SizeOf(k) \in Nat
          BY <5>1, DivMod
        <5> QED
          BY <5>4, <5>5, SamePiece
      <4>3. b + (w % SizeOf(k)) = b + (v % SizeOf(k)) + (w - v)
        <5> HIDE DEF b
        <5> QED
          BY <4>2
      <4> HIDE DEF b
      <4> QED
        BY <2>1, <3>2, <4>1, <4>2, <4>3 DEF Together
    <3> QED
      BY <3>3, <3>4, <3>5
  <2> QED
    BY <2>3, <2>4
<1>2. Q(1)
  BY <1>1
<1>3. Q(2)
  BY <1>1, <1>2
<1>4. Q(3)
  BY <1>1, <1>3
<1>5. Q(4)
  BY <1>1, <1>4
<1> QED
  <2>1. l = 1 \/ l = 2 \/ l = 3 \/ l = 4
    OBVIOUS
  <2> QED
    BY <1>2, <1>3, <1>4, <1>5, <2>1

-----------------------------------------------------------------------------
\* The walk is on the way from the root to what maps its address, if the guest leaves that
\* alone: what it still looks at and finds is what it will have looked at and found.
OnWay ==
  pc = "walk" =>
    /\ level = Depth[mode] => table = Dtb
    /\ Steady(va) /\ Fits(va) =>
         /\ PathFrom(va)[level][table] \subseteq PathTo(va)
         /\ PlaceFrom(va)[level][table] = Translate(va)

\* What is walked for: the address asked, or the next byte of a read.
Asked ==
  /\ pc # "idle" => answer = Nothing
  /\ pc = "read" => call.op # "lookup"
  /\ pc = "walk" => CASE call.op = "lookup" -> va = call.va
                      [] call.op = "read" -> va = call.va + Len(buf)
                      [] OTHER -> TRUE

\* The bytes of a string in its first page.
First == PageSize - (call.va % PageSize)

\* Where vmi_read_str is: in the first page, in the second, or astray.
StrAt ==
  pc # "idle" /\ call.op = "read_str" /\ NoHole(call, Len(buf)) =>
    \/ Len(buf) = 0 /\ va = call.va
    \/ Len(buf) = First /\ va = call.va + (IF pc = "walk" THEN First ELSE 0)
    \/ Len(buf) >= First + PageSize

BufRight == pc # "idle" /\ call.op # "lookup" => Correct(call, buf)

MemInv == /\ MemTypeOK /\ OnWay /\ Asked /\ StrAt /\ BufRight
          /\ WalkAgrees /\ BytesAgree

\* A set of numbers has a least.
LEMMA LeastNat ==
  ASSUME NEW T, T \subseteq Nat, T # {}
  PROVE  \E n \in T : \A m \in T : n <= m
<1>1. PICK n \in T : \A m \in T : ~ (<<m, n>> \in OpToRel(<, Nat))
  BY NatLessThanWellFounded, WFMin
<1>2. \A m \in T : ~ (m < n)
  BY <1>1 DEF OpToRel
<1> QED
  BY <1>2

\* What vmi_read_str counts in a page: up to the first zero byte, or all.
LEMMA StrLenIs ==
  ASSUME NEW pa \in Nat
  PROVE  /\ pa % PageSize \in Nat /\ pa % PageSize < PageSize /\ PageSize \in Nat \ {0}
         /\ StrLen(pa) \in 0 .. PageSize - (pa % PageSize)
         /\ \A m \in 0 .. StrLen(pa) - 1 : pa + m \notin Nul
         /\ StrLen(pa) < PageSize - (pa % PageSize) => pa + StrLen(pa) \in Nul
<1> DEFINE rest == PageSize - (pa % PageSize)
           stop == {n \in 0 .. rest - 1 : pa + n \in Nul}
<1>1. pa % PageSize \in Nat /\ pa % PageSize < PageSize /\ PageSize \in Nat \ {0} /\ rest \in Nat
  BY Sizes, DivMod
<1>2. CASE stop = {}
  <2>1. StrLen(pa) = rest
    BY <1>2 DEF StrLen
  <2>2. \A n \in 0 .. rest - 1 : pa + n \notin Nul
    BY <1>2
  <2> HIDE DEF stop
  <2> QED
    BY <1>1, <2>1, <2>2
<1>3. CASE stop # {}
  <2>1. StrLen(pa) = CHOOSE n \in stop : \A m \in stop : n <= m
    BY <1>3 DEF StrLen
  <2>2. \E n \in stop : \A m \in stop : n <= m
    <3>1. stop \subseteq Nat
      BY <1>1
    <3> HIDE DEF stop
    <3> QED
      BY <1>3, <3>1, LeastNat
  <2>3. StrLen(pa) \in stop /\ \A m \in stop : StrLen(pa) <= m
    <3> HIDE DEF stop
    <3> QED
      BY <2>1, <2>2
  <2> QED
    BY <1>1, <2>3
<1> QED
  BY <1>2, <1>3

\* A call's address and count.
LEMMA OpIs ==
  ASSUME NEW c \in Op
  PROVE  /\ c.op \in {"lookup", "read", "read_str"}
         /\ c.va \in Nat /\ c.count \in Nat
         /\ \A i \in Nat \ {0} : ByteAt(c, i) \in Nat
         /\ \A i \in Nat : ByteAt(c, i + 1) = c.va + i
<1> DEFINE of(op, counts) == [op : {op}, va : Starts, count : counts]
<1>1. c \in of("lookup", {0}) \/ c \in of("read", Counts) \/ c \in of("read_str", {0})
  BY DEF Op
<1>2. ASSUME NEW op, NEW counts, c \in of(op, counts)
      PROVE  c.op = op /\ c.va \in Starts /\ c.count \in counts
  BY <1>2
<1> HIDE DEF of
<1>3. Counts \subseteq Nat /\ Starts \subseteq Nat /\ 0 \in Nat
  BY CallAssumption
<1>4. c.op \in {"lookup", "read", "read_str"} /\ c.va \in Nat /\ c.count \in Nat
  <2>1. CASE c \in of("lookup", {0})
    <3>1. c.op = "lookup" /\ c.va \in Starts /\ c.count \in {0}
      BY <1>2, <2>1
    <3> QED
      BY <1>3, <3>1
  <2>2. CASE c \in of("read", Counts)
    <3>1. c.op = "read" /\ c.va \in Starts /\ c.count \in Counts
      BY <1>2, <2>2
    <3> QED
      BY <1>3, <3>1
  <2>3. CASE c \in of("read_str", {0})
    <3>1. c.op = "read_str" /\ c.va \in Starts /\ c.count \in {0}
      BY <1>2, <2>3
    <3> QED
      BY <1>3, <3>1
  <2> QED
    BY <1>1, <2>1, <2>2, <2>3
<1> QED
  BY <1>4 DEF ByteAt

\* A byte that can be foreseen is looked for at its address.
LEMMA Where ==
  ASSUME MemTypeOK, Asked, StrAt, pc = "walk", call.op # "lookup",
         NEW i \in Nat, i > Len(buf), InReach(call, i), NoHole(call, i)
  PROVE  ByteAt(call, Len(buf) + 1) = va
<1>1. call \in Op /\ Len(buf) \in Nat
  BY DEF MemTypeOK
<1>2. ByteAt(call, Len(buf) + 1) = call.va + Len(buf)
  BY <1>1, OpIs
<1>3. CASE call.op = "read"
  BY <1>2, <1>3 DEF Asked
<1>4. CASE call.op = "read_str"
  <2>1. NoHole(call, Len(buf))
    BY <1>1 DEF NoHole
  <2>2. call.va \in Nat /\ PageSize \in Nat /\ call.va % PageSize \in Nat
    BY <1>1, OpIs, Sizes, DivMod
  <2>3. Len(buf) < First + PageSize
    BY <1>1, <1>4, <2>2 DEF InReach, First
  <2> QED
    BY <1>1, <1>2, <1>4, <2>1, <2>2, <2>3, SMTT(30) DEF StrAt, First
<1> QED
  BY <1>1, <1>3, <1>4, OpIs

\* What a walk found holds for the rest of the page.
LEMMA Chunk ==
  ASSUME MemTypeOK, NEW pa \in Nat, NEW v \in Nat, pa % PageSize = v % PageSize,
         Steady(v) /\ Fits(v) => Translate(v).ok /\ Translate(v).pa = pa,
         NEW k \in Nat, (pa % PageSize) + k < PageSize
  PROVE  /\ PageOf(pa + k) = PageOf(pa)
         /\ Predictable(v + k) =>
              Steady(v) /\ Translate(v + k).ok /\ Translate(v + k).pa = pa + k
<1>1. PageSize \in Nat \ {0}
  BY Sizes
<1>2. ASSUME NEW x \in Nat, x % PageSize = pa % PageSize
      PROVE  (x + k) \div PageSize = x \div PageSize
  <2>1. PICK q \in Nat, r \in Nat : x = q * PageSize + r /\ q = x \div PageSize /\ r = x % PageSize
    BY <1>1, DivMod
  <2>2. (q * PageSize + (r + k)) \div PageSize = q
    <3>1. r + k \in Nat /\ r + k < PageSize
      BY <1>2, <2>1
    <3> QED
      BY <1>1, <2>1, <3>1, DivModUnique
  <2>3. x + k = q * PageSize + (r + k)
    <3>1. q * PageSize \in Nat
      BY <1>1, SMTT(30)
    <3> QED
      BY <2>1, <3>1
  <2> QED
    BY <2>1, <2>2, <2>3
<1>3. PageOf(pa + k) = PageOf(pa)
  BY <1>2 DEF PageOf, Bits
<1>4. ASSUME Predictable(v + k)
      PROVE  Steady(v) /\ Translate(v + k).ok /\ Translate(v + k).pa = pa + k
  <2>1. Together(v, v + k, Depth[mode], Dtb)
    <3>1. v \div PageSize = (v + k) \div PageSize
      BY <1>2
    <3> QED
      BY <3>1, RootOnPath, SamePlace
  <2>2. PathTo(v + k) = PathTo(v)
    BY <2>1 DEF Together, PathTo
  <2>3. Steady(v) /\ Fits(v)
    BY <1>4, <2>2 DEF Predictable, Steady, Fits
  <2>4. Translate(v).ok /\ Translate(v).pa = pa
    BY <2>3
  <2>5. Translate(v + k).ok /\ Translate(v + k).pa = pa + ((v + k) - v)
    BY <2>1, <2>4, Zenon DEF Together, Translate
  <2> QED
    BY <2>3, <2>5
<1> QED
  BY <1>3, <1>4

-----------------------------------------------------------------------------
\* The parts of the invariant, of any walk, call and answer.
WayOf(v, l, t) ==
  /\ l = Depth[mode] => t = Dtb
  /\ Steady(v) /\ Fits(v) =>
       /\ PathFrom(v)[l][t] \subseteq PathTo(v)
       /\ PlaceFrom(v)[l][t] = Translate(v)

StrOf(c, b) ==
  NoHole(c, Len(b)) =>
    \/ Len(b) = 0 /\ va = c.va
    \/ Len(b) = First /\ va = c.va + (IF pc = "walk" THEN First ELSE 0)
    \/ Len(b) >= First + PageSize

WalkOf(c, ok, pa, size) ==
  Predictable(c.va) =>
    /\ ok <=> Translate(c.va).ok
    /\ Translate(c.va).ok => pa = Translate(c.va).pa /\ size = Translate(c.va).size

BytesOf(c, ok, b) ==
  /\ Correct(c, b)
  /\ ok /\ c.op = "read" => Len(b) = c.count
  /\ ~ok /\ c.op = "read_str" /\ Len(b) < MaxLen => Len(b) = 0
  /\ Foreseen(c, Len(b) + 1) => EndsRight(c, ok, Len(b))

Parts ==
  /\ OnWay <=> (pc = "walk" =>
                  \A v, l, t : v = va /\ l = level /\ t = table => WayOf(v, l, t))
  /\ StrAt <=> (pc # "idle" /\ call.op = "read_str" =>
                  \A c, b : c = call /\ b = buf => StrOf(c, b))
  /\ BufRight <=> (pc # "idle" /\ call.op # "lookup" =>
                     \A c, b : c = call /\ b = buf => Correct(c, b))
  /\ WalkAgrees <=> (answer # Nothing /\ answer.call.op = "lookup" =>
                       \A c, ok, pa, size :
                         c = answer.call /\ ok = answer.ok
                         /\ pa = answer.pa /\ size = answer.size => WalkOf(c, ok, pa, size))
  /\ BytesAgree <=> (answer # Nothing /\ answer.call.op # "lookup" =>
                       \A c, ok, b :
                         c = answer.call /\ ok = answer.ok /\ b = answer.bytes =>
                           BytesOf(c, ok, b))

\* They are the parts, now and after a step.
LEMMA PartsAre == Parts /\ Parts'
<1>1. Parts
  <2>1. OnWay <=> (pc = "walk" =>
                     \A v, l, t : v = va /\ l = level /\ t = table => WayOf(v, l, t))
    BY Zenon DEF OnWay, WayOf
  <2>2. StrAt <=> (pc # "idle" /\ call.op = "read_str" =>
                     \A c, b : c = call /\ b = buf => StrOf(c, b))
    <3>1. StrOf(call, buf) <=>
            (NoHole(call, Len(buf)) =>
               \/ Len(buf) = 0 /\ va = call.va
               \/ Len(buf) = First /\ va = call.va + (IF pc = "walk" THEN First ELSE 0)
               \/ Len(buf) >= First + PageSize)
      BY Zenon DEF StrOf
    <3> QED
      BY <3>1, Zenon DEF StrAt
  <2>3. BufRight <=> (pc # "idle" /\ call.op # "lookup" =>
                        \A c, b : c = call /\ b = buf => Correct(c, b))
    BY Zenon DEF BufRight
  <2>4. WalkAgrees <=> (answer # Nothing /\ answer.call.op = "lookup" =>
                          \A c, ok, pa, size :
                            c = answer.call /\ ok = answer.ok
                            /\ pa = answer.pa /\ size = answer.size => WalkOf(c, ok, pa, size))
    BY Zenon DEF WalkAgrees, WalkOf
  <2>5. BytesAgree <=> (answer # Nothing /\ answer.call.op # "lookup" =>
                          \A c, ok, b :
                            c = answer.call /\ ok = answer.ok /\ b = answer.bytes =>
                              BytesOf(c, ok, b))
    <3>1. BytesAgree <=> (answer # Nothing /\ answer.call.op # "lookup" =>
                            BytesOf(answer.call, answer.ok, answer.bytes))
      BY Zenon DEF BytesAgree, BytesOf
    <3> QED
      BY <3>1, Zenon
  <2> QED
    BY <2>1, <2>2, <2>3, <2>4, <2>5 DEF Parts
<1>2. Parts'
  BY <1>1, PTL
<1> QED
  BY <1>1, <1>2

-----------------------------------------------------------------------------
\* What a step must leave alone for what is known of the tables to stay known.
LeavesAlone(W) == OnlyIn(W) /\ touched \cup W \subseteq touched'

\* A walk stays on its way.
LEMMA WayStays ==
  ASSUME MemTypeOK, NEW W, LeavesAlone(W),
         NEW v \in Nat, NEW l \in 1 .. 4, NEW t \in Nat, WayOf(v, l, t)
  PROVE  WayOf(v, l, t)'
<1>0. Depth[mode]' = Depth[mode]
  BY DEF LeavesAlone, OnlyIn, config
<1>1. SUFFICES ASSUME Steady(v)', Fits(v)'
               PROVE  /\ (PathFrom(v)[l][t])' \subseteq PathTo(v)'
                      /\ (PlaceFrom(v)[l][t])' = Translate(v)'
  BY <1>0 DEF WayOf
<1>e. ASSUME NEW k \in 1 .. 4, NEW u \in Nat, W \cap PathFrom(v)[k][u] = {}
      PROVE  /\ (PathFrom(v)[k][u])' = PathFrom(v)[k][u]
             /\ (PlaceFrom(v)[k][u])' = PlaceFrom(v)[k][u]
  <2>1. OnlyIn(W)
    BY DEF LeavesAlone
  <2>2. W \cap PathFrom(v)[k][u] = {} \/ W \cap (PathFrom(v)[k][u])' = {}
    BY <1>e
  <2> QED
    BY <2>1, <2>2, Elsewhere, SMTT(30)
<1>2. /\ Steady(v) /\ W \cap PathTo(v) = {} /\ Translate(v)' = Translate(v) /\ Fits(v)' = Fits(v)
  BY <1>1, StillThere DEF LeavesAlone
<1>3. PathFrom(v)[l][t] \subseteq PathTo(v) /\ PlaceFrom(v)[l][t] = Translate(v)
  BY <1>1, <1>2 DEF WayOf
<1>4. /\ (PathFrom(v)[l][t])' = PathFrom(v)[l][t]
      /\ (PlaceFrom(v)[l][t])' = PlaceFrom(v)[l][t]
  <2>1. W \cap PathFrom(v)[l][t] = {}
    BY <1>2, <1>3
  <2> QED
    BY <2>1, <1>e
<1>5. PathTo(v)' = PathTo(v)
  <2>1. PICK d \in 1 .. 4, r \in Nat : d = Depth[mode] /\ r = Dtb
    BY RootOnPath
  <2>2. PathTo(v) = PathFrom(v)[d][r] /\ PathTo(v)' = (PathFrom(v)[d][r])'
    BY <1>0, <2>1 DEF PathTo
  <2>3. (PathFrom(v)[d][r])' = PathFrom(v)[d][r]
    BY <1>2, <2>2, <1>e
  <2> QED
    BY <2>2, <2>3
<1> QED
  BY <1>2, <1>3, <1>4, <1>5

\* What can be foreseen of an address could be before.
LEMMA AddressStays ==
  ASSUME MemTypeOK, NEW W, LeavesAlone(W), NEW v \in Nat, Predictable(v)'
  PROVE  Predictable(v) /\ Translate(v)' = Translate(v) /\ Readable(v)' = Readable(v)
<1>1. Steady(v)' /\ Fits(v)' /\ ~PaeHole(v)'
  BY DEF Predictable
<1>2. Steady(v) /\ Translate(v)' = Translate(v) /\ Fits(v)' = Fits(v) /\ PaeHole(v)' = PaeHole(v)
  BY <1>1, StillThere DEF LeavesAlone
<1> QED
  BY <1>1, <1>2 DEF Predictable, Readable, PageOf, Bits

\* Nor was there a hole.
LEMMA NoHoleStays ==
  ASSUME MemTypeOK, NEW W, LeavesAlone(W), NEW c \in Op, NEW i \in Nat, NoHole(c, i)'
  PROVE  NoHole(c, i)
<1>1. SUFFICES ASSUME mode = "pae", NEW j \in 1 .. i
               PROVE  Steady(ByteAt(c, j)) /\ ~PaeHole(ByteAt(c, j))
  BY DEF NoHole
<1>2. PICK v \in Nat : v = ByteAt(c, j)
  BY <1>1, OpIs
<1>3. Steady(v)' /\ ~PaeHole(v)'
  <2>1. ByteAt(c, j)' = ByteAt(c, j)
    BY DEF ByteAt
  <2>2. mode' = "pae"
    BY <1>1 DEF LeavesAlone, OnlyIn, config
  <2> QED
    BY <1>1, <1>2, <2>1, <2>2 DEF NoHole, ByteAt
<1>4. Steady(v) /\ PaeHole(v)' = PaeHole(v)
  BY <1>3, StillThere DEF LeavesAlone
<1> QED
  BY <1>2, <1>3, <1>4

\* What can be foreseen of a byte could be before.
LEMMA ByteStays ==
  ASSUME MemTypeOK, NEW W, LeavesAlone(W), NEW c \in Op, NEW i \in Nat \ {0}, Foreseen(c, i)'
  PROVE  /\ Foreseen(c, i)
         /\ Translate(ByteAt(c, i))' = Translate(ByteAt(c, i))
         /\ Readable(ByteAt(c, i))' = Readable(ByteAt(c, i))
<1>1. PICK v \in Nat : v = ByteAt(c, i)
  BY OpIs
<1>2. InReach(c, i)' /\ NoHole(c, i)' /\ Predictable(v)'
  BY <1>1 DEF Foreseen, ByteAt
<1>3. InReach(c, i) /\ NoHole(c, i)
  BY <1>2, NoHoleStays DEF InReach
<1>4. Predictable(v) /\ Translate(v)' = Translate(v) /\ Readable(v)' = Readable(v)
  BY <1>2, AddressStays
<1>5. /\ Translate(ByteAt(c, i))' = Translate(v)'
      /\ Readable(ByteAt(c, i))' = Readable(v)'
  BY <1>1 DEF ByteAt
<1> QED
  BY <1>1, <1>3, <1>4, <1>5 DEF Foreseen

\* Bytes that were right are.
LEMMA CorrectStays ==
  ASSUME MemTypeOK, NEW W, LeavesAlone(W), NEW c \in Op, NEW b \in Seq(Nat), Correct(c, b)
  PROVE  Correct(c, b)'
<1>1. ASSUME NEW i \in 1 .. Len(b), Foreseen(c, i)'
      PROVE  /\ Readable(ByteAt(c, i))'
             /\ b[i] = (Translate(ByteAt(c, i)).pa)'
             /\ c.op = "read_str" => b[i] \notin Nul
  <2>1. /\ Foreseen(c, i)
        /\ Translate(ByteAt(c, i))' = Translate(ByteAt(c, i))
        /\ Readable(ByteAt(c, i))' = Readable(ByteAt(c, i))
    BY <1>1, ByteStays
  <2> QED
    BY <2>1 DEF Correct
<1> QED
  BY <1>1 DEF Correct

\* So are the answers of walks.
LEMMA WalkStays ==
  ASSUME MemTypeOK, NEW W, LeavesAlone(W),
         NEW c \in Op, NEW ok, NEW pa, NEW size, WalkOf(c, ok, pa, size)
  PROVE  WalkOf(c, ok, pa, size)'
<1>1. PICK v \in Nat : v = c.va
  BY OpIs
<1>2. ASSUME Predictable(v)'
      PROVE  Predictable(v) /\ Translate(v)' = Translate(v)
  BY <1>2, AddressStays
<1>3. (Predictable(c.va)' <=> Predictable(v)') /\ Translate(c.va)' = Translate(v)'
  BY <1>1
<1> QED
  BY <1>1, <1>2, <1>3 DEF WalkOf

\* So are those of reads.
LEMMA BytesStay ==
  ASSUME MemTypeOK, NEW W, LeavesAlone(W),
         NEW c \in Op, NEW ok, NEW b \in Seq(Nat), BytesOf(c, ok, b)
  PROVE  BytesOf(c, ok, b)'
<1>1. Correct(c, b)'
  BY CorrectStays DEF BytesOf
<1>2. PICK n \in Nat, i \in Nat \ {0} : n = Len(b) /\ i = n + 1
  OBVIOUS
<1>3. ASSUME Foreseen(c, i)'
      PROVE  /\ Foreseen(c, i)
             /\ Translate(ByteAt(c, i))' = Translate(ByteAt(c, i))
             /\ Readable(ByteAt(c, i))' = Readable(ByteAt(c, i))
  BY <1>3, ByteStays
<1>4. Foreseen(c, n + 1)' => EndsRight(c, ok, n)'
  <2>1. Foreseen(c, n + 1) => EndsRight(c, ok, n)
    BY <1>2 DEF BytesOf
  <2> QED
    BY <1>2, <1>3, <2>1 DEF EndsRight
<1> QED
  BY <1>1, <1>2, <1>4 DEF BytesOf

-----------------------------------------------------------------------------
\* The bytes of a page from an address on.
LEMMA FromIs ==
  ASSUME NEW pa \in Nat, NEW n \in Nat
  PROVE  /\ From(pa, n) \in Seq(Nat) /\ Len(From(pa, n)) = n
         /\ \A i \in 1 .. n : From(pa, n)[i] = pa + i - 1
<1>1. \A i \in 1 .. n : pa + i - 1 \in Nat
  OBVIOUS
<1> QED
  BY <1>1 DEF From

\* Appended to what there is.
LEMMA Appended ==
  ASSUME NEW b \in Seq(Nat), NEW pa \in Nat, NEW n \in Nat
  PROVE  /\ b \o From(pa, n) \in Seq(Nat) /\ Len(b \o From(pa, n)) = Len(b) + n
         /\ \A i \in 1 .. Len(b) : (b \o From(pa, n))[i] = b[i]
         /\ \A k \in 0 .. n - 1 : (b \o From(pa, n))[Len(b) + 1 + k] = pa + k
<1>1. From(pa, n) \in Seq(Nat) /\ Len(From(pa, n)) = n
      /\ \A i \in 1 .. n : From(pa, n)[i] = pa + i - 1
  BY FromIs
<1>2. PICK f \in Seq(Nat) : f = From(pa, n)
  BY <1>1
<1>3. \A k \in 0 .. n - 1 : (b \o f)[Len(b) + 1 + k] = pa + k
  <2> SUFFICES ASSUME NEW k \in 0 .. n - 1
               PROVE  (b \o f)[Len(b) + 1 + k] = pa + k
    OBVIOUS
  <2>1. (b \o f)[Len(b) + 1 + k] = f[k + 1]
    BY <1>1, <1>2
  <2>2. f[k + 1] = pa + (k + 1) - 1
    BY <1>1, <1>2
  <2> QED
    BY <2>1, <2>2
<1>4. b \o f \in Seq(Nat) /\ Len(b \o f) = Len(b) + n
  <2>1. Len(f) = n
    BY <1>1, <1>2
  <2> QED
    BY <2>1, SMTT(30)
<1>5. \A i \in 1 .. Len(b) : (b \o f)[i] = b[i]
  OBVIOUS
<1> QED
  BY <1>2, <1>3, <1>4, <1>5, Zenon

\* What vmi_read takes from a page: what is wanted, and no more than the page has.
LEMMA ReadLenIs ==
  ASSUME NEW pa \in Nat, NEW count \in Nat
  PROVE  ReadLen(pa, count) \in Nat /\ ReadLen(pa, count) <= count
         /\ (pa % PageSize) + ReadLen(pa, count) <= PageSize
<1>1. PageSize \in Nat \ {0} /\ pa % PageSize \in Nat /\ pa % PageSize < PageSize
  BY Sizes, DivMod
<1> QED
  BY <1>1 DEF ReadLen

-----------------------------------------------------------------------------
(* The variables keep their types. *)

\* A call that returns.
LEMMA ReturnsTyped ==
  ASSUME MemTypeOK, pc # "idle",
         NEW ok \in BOOLEAN, NEW pa \in Nat \cup {Nothing}, NEW size \in Nat,
         NEW bytes \in Seq(Nat), Returns(ok, pa, size, bytes)
  PROVE  MemTypeOK'
<1>1. /\ answer' = [call |-> call, ok |-> ok, pa |-> pa, size |-> size, bytes |-> bytes]
      /\ pc' = "idle"
      /\ UNCHANGED <<config, mem, call, walk, buf, touched, writes>>
  BY DEF Returns
<1>2. answer' \in Answer
  BY <1>1 DEF MemTypeOK, Answer
<1> QED
  BY <1>1, <1>2 DEF MemTypeOK, config, walk

\* A page's bytes.
LEMMA CopyTyped ==
  ASSUME MemTypeOK, pc = "walk", NEW bytes \in Seq(Nat), CopyTo(bytes),
         call.op = "read" => Len(buf) + Len(bytes) <= call.count
  PROVE  MemTypeOK'
<1>1. /\ buf' = buf \o bytes
      /\ pc' = "read"
      /\ UNCHANGED <<config, mem, call, walk, answer, touched, writes>>
  BY DEF CopyTo
<1>2. buf \in Seq(Nat)
  BY DEF MemTypeOK
<1>3. buf \o bytes \in Seq(Nat) /\ Len(buf \o bytes) = Len(buf) + Len(bytes)
  BY <1>2
<1> QED
  BY <1>1, <1>3 DEF MemTypeOK, config, walk

\* What the caller does with the place found.
LEMMA FoundTyped ==
  ASSUME MemTypeOK, pc = "walk", NEW pa \in Nat, NEW size \in Nat, Found(pa, size)
  PROVE  MemTypeOK'
<1>1. call \in Op /\ buf \in Seq(Nat) /\ Len(buf) \in Nat
  BY DEF MemTypeOK
<1>2. /\ call.op \in {"lookup", "read", "read_str"} /\ call.count \in Nat
      /\ call.op = "read" => Len(buf) <= call.count
  BY <1>1, OpIs DEF MemTypeOK
<1>3. CASE Returns(TRUE, pa, size, <<>>)
  <2>1. <<>> \in Seq(Nat)
    OBVIOUS
  <2> QED
    BY <1>3, <2>1, ReturnsTyped
<1>4. CASE NotFound
  BY <1>1, <1>4, ReturnsTyped DEF NotFound
<1>5. CASE call.op = "read" /\ CopyTo(From(pa, ReadLen(pa, call.count - Len(buf))))
  <2>1. PICK n \in Nat : n = ReadLen(pa, call.count - Len(buf)) /\ n <= call.count - Len(buf)
    <3>1. call.count - Len(buf) \in Nat
      BY <1>1, <1>2, <1>5
    <3> QED
      BY <3>1, ReadLenIs
  <2>2. CopyTo(From(pa, n))
    BY <1>5, <2>1
  <2>3. From(pa, n) \in Seq(Nat) /\ Len(From(pa, n)) = n
    BY FromIs
  <2> QED
    BY <1>1, <1>2, <2>1, <2>2, <2>3, CopyTyped
<1>6. CASE call.op = "read_str" /\ CopyStr(pa)
  <2>1. PICK n \in Nat : n = StrLen(pa)
    BY StrLenIs
  <2>2. From(pa, n) \in Seq(Nat)
    BY FromIs
  <2>3. CASE Returns(TRUE, Nothing, 0, buf \o From(pa, n))
    BY <1>1, <2>2, <2>3, Appended, ReturnsTyped
  <2>4. CASE CopyTo(From(pa, n))
    BY <1>6, <2>2, <2>4, CopyTyped
  <2> QED
    BY <1>6, <2>1, <2>3, <2>4 DEF CopyStr
<1> QED
  BY <1>2, <1>3, <1>4, <1>5, <1>6, Zenon DEF Found

\* The types are inductive.
LEMMA MemTypes == MemTypeOK /\ [MemNext]_memVars => MemTypeOK'
<1> SUFFICES ASSUME MemTypeOK, [MemNext]_memVars
             PROVE  MemTypeOK'
  OBVIOUS
<1>0. Depth[mode] \in 1 .. 4 /\ Dtb \in Nat /\ Dtb % PageSize = 0
  <2>1. Dtb % PageSize = 0
    BY MemoryAssumption DEF Frame
  <2> QED
    BY <2>1, RootOnPath
<1>1. ASSUME NEW c \in Op, Lookup(c) \/ Read(c)
      PROVE  MemTypeOK'
  <2>1. PICK step \in {"walk", "read"} : Begin(c, step)
    BY <1>1 DEF Lookup, Read
  <2>2. c.va \in Nat /\ c.count \in Nat
    BY OpIs
  <2>3. /\ call' = c /\ pc' = step
        /\ va' = c.va /\ level' = Depth[mode] /\ table' = Dtb
        /\ buf' = <<>> /\ answer' = Nothing /\ touched' = {}
        /\ UNCHANGED <<config, mem, writes>>
    BY <2>1 DEF Begin
  <2>4. <<>> \in Seq(Nat) /\ Len(<<>>) = 0
    OBVIOUS
  <2> QED
    BY <1>0, <2>2, <2>3, <2>4 DEF MemTypeOK, config
<1>2. CASE ReadOn
  <2>1. /\ pc = "read" /\ pc' = "walk"
        /\ va' = IF call.op = "read" THEN call.va + Len(buf) ELSE va + Len(buf)
        /\ level' = Depth[mode] /\ table' = Dtb
        /\ UNCHANGED <<config, mem, call, buf, answer, touched, writes>>
    BY <1>2 DEF ReadOn
  <2>2. call.va \in Nat /\ Len(buf) \in Nat
    <3>1. call \in Op /\ buf \in Seq(Nat)
      BY <2>1 DEF MemTypeOK
    <3> QED
      BY <3>1, OpIs
  <2>3. va' \in Nat
    BY <2>1, <2>2 DEF MemTypeOK
  <2> QED
    BY <1>0, <2>1, <2>3 DEF MemTypeOK, config
<1>3. CASE ReadAll \/ GiveUp
  <2>1. pc # "idle" /\ buf \in Seq(Nat)
    BY <1>3 DEF ReadAll, GiveUp, MemTypeOK
  <2>2. Returns(TRUE, Nothing, 0, buf) \/ Returns(FALSE, Nothing, 0, buf)
    BY <1>3 DEF ReadAll, GiveUp
  <2> QED
    BY <2>1, <2>2, ReturnsTyped
<1>4. CASE EntryUnreadable
  <2>1. pc # "idle" /\ buf \in Seq(Nat) /\ \E ok \in BOOLEAN : Returns(ok, Nothing, 0, buf)
    BY <1>4 DEF EntryUnreadable, NotFound, MemTypeOK
  <2> QED
    BY <2>1, ReturnsTyped
<1>5. CASE EntryAbsent
  <2>1. /\ pc = "walk" /\ buf \in Seq(Nat)
        /\ (\E ok \in BOOLEAN : Returns(ok, Nothing, 0, buf)) \/ Found(0, 0)
    BY <1>5 DEF EntryAbsent, NotFound, MemTypeOK
  <2> QED
    BY <2>1, ReturnsTyped, FoundTyped
<1>6. CASE EntryTable
  <2>1. /\ pc = "walk" /\ table \in Frames /\ level \in 1 .. Depth[mode] /\ level \in 1 .. 4
        /\ va \in Nat
    BY <1>0, <1>6 DEF EntryTable, MemTypeOK
  <2>2. Index(va, level) \in Slots
    BY <2>1, SelectedIn
  <2>3. PICK e : e = mem[table][Index(va, level)] /\ ~MapsPage(level, e)
                 /\ table' = NextTable(level, e)
    BY <1>6 DEF EntryTable
  <2>4. table' \in Nat /\ table' % PageSize = 0
    BY <2>1, <2>2, <2>3, Offsets
  <2>5. level' = level - 1 /\ level # 1
    BY <1>6, <2>3 DEF EntryTable, MapsPage
  <2>6. UNCHANGED <<config, mem, pc, call, va, buf, answer, touched, writes>>
    BY <1>6 DEF EntryTable
  <2>7. level' \in 1 .. Depth[mode] /\ level' \in 0 .. 4
    BY <1>0, <2>1, <2>5
  <2> QED
    BY <2>1, <2>4, <2>6, <2>7 DEF MemTypeOK, config
<1>7. CASE EntryPage
  <2>1. /\ pc = "walk" /\ table \in Frames /\ level \in 1 .. 4 /\ va \in Nat
    BY <1>0, <1>7 DEF EntryPage, MemTypeOK
  <2>2. Index(va, level) \in Slots
    BY <2>1, SelectedIn
  <2>3. PICK pa, size : /\ pa = PagePlus(level, mem[table][Index(va, level)], va)
                        /\ size = SizeOf(level) /\ Found(pa, size)
    BY <1>7 DEF EntryPage
  <2>4. pa \in Nat /\ size \in Nat
    BY <2>1, <2>2, <2>3, Offsets, Sizes
  <2> QED
    BY <2>1, <2>3, <2>4, FoundTyped
<1>8. ASSUME NEW t \in Written, NEW s \in Slots, NEW e \in Entries, GuestWrites(t, s, e)
      PROVE  MemTypeOK'
  <2>1. t \in Frames /\ e \in Entry
    BY MemoryAssumption
  <2>2. /\ writes < MaxWrites /\ writes' = writes + 1
        /\ mode = "legacy" => e.addr < Low
        /\ mem' = [mem EXCEPT ![t][s] = e]
        /\ touched' = IF pc = "idle" THEN {} ELSE touched \cup {<<t, s>>}
        /\ answer' = IF pc = "idle" THEN Nothing ELSE answer
        /\ UNCHANGED <<config, pc, call, walk, buf>>
    BY <1>8 DEF GuestWrites
  <2>3. /\ mem' \in [Frames -> [Slots -> Entry]]
        /\ mode = "legacy" => \A u \in Frames, r \in Slots : mem'[u][r].addr < Low
    BY <2>1, <2>2 DEF MemTypeOK
  <2>4. touched' \subseteq Frames \X Slots /\ answer' \in Answer \cup {Nothing}
    BY <2>1, <2>2 DEF MemTypeOK
  <2>5. writes' \in 0 .. MaxWrites
    BY <2>2, CallAssumption DEF MemTypeOK
  <2> QED
    BY <2>2, <2>3, <2>4, <2>5 DEF MemTypeOK, config, walk
<1>9. CASE UNCHANGED memVars
  BY <1>9 DEF memVars, MemTypeOK, config, walk
<1> QED
  BY <1>1, <1>2, <1>3, <1>4, <1>5, <1>6, <1>7, <1>8, <1>9 DEF MemNext, Step

\* They hold at first.
LEMMA MemInitTypes == MemInit => MemTypeOK
<1> SUFFICES ASSUME MemInit
             PROVE  MemTypeOK
  OBVIOUS
<1>1. mem \in [Frames -> [Slots -> Entry]]
      /\ (mode = "legacy" => \A t \in Frames, s \in Slots : mem[t][s].addr < Low)
  BY MemoryAssumption DEF MemInit
<1>2. buf \in Seq(Nat) /\ 0 \in 0 .. MaxWrites
  BY CallAssumption DEF MemInit
<1> QED
  BY <1>1, <1>2 DEF MemInit, MemTypeOK

-----------------------------------------------------------------------------
(* What is found. *)

\* An entry that is absent or out of the memory maps nothing.
LEMMA NoneFound ==
  ASSUME MemTypeOK, OnWay, pc = "walk",
         table \in Frames => ~EntryPresent(transition, mem[table][Index(va, level)]),
         Steady(va), Fits(va)
  PROVE  Translate(va) = Nowhere
<1>1. /\ va \in Nat /\ table \in Nat /\ level \in 1 .. 4
      /\ PlaceFrom(va)[level][table] = Translate(va)
  BY RootOnPath DEF OnWay, MemTypeOK
<1>2. PlaceFrom(va)[level][table] = PlaceAt(va, level, table)
  BY <1>1, PlaceUnfold
<1>3. CASE table \notin Frames
  BY <1>1, <1>2, <1>3 DEF PlaceAt
<1>4. CASE table \in Frames
  <2>1. At(Selected(va, level, table)) = mem[table][Index(va, level)]
    BY <1>1, <1>4, SelectedIn
  <2>2. ~Present(At(Selected(va, level, table)))
    BY <1>4, <2>1 DEF Present, EntryPresent
  <2> QED
    BY <1>1, <1>2, <1>4, <2>2 DEF PlaceAt
<1> QED
  BY <1>3, <1>4

\* An entry on the way is as wide as the code takes it, and the manual's next step is known.
LEMMA EntryFound ==
  ASSUME MemTypeOK, OnWay, pc = "walk", table \in Frames,
         EntryPresent(transition, mem[table][Index(va, level)]), Steady(va), Fits(va)
  PROVE  LET e == mem[table][Index(va, level)] IN
         /\ MapsPage(level, e) =>
              Translate(va) = [ok |-> TRUE, pa |-> PagePlus(level, e, va), size |-> SizeOf(level)]
         /\ ~MapsPage(level, e) =>
              /\ PathFrom(va)[level - 1][NextTable(level, e)] \subseteq PathTo(va)
              /\ PlaceFrom(va)[level - 1][NextTable(level, e)] = Translate(va)
<1>1. /\ va \in Nat /\ table \in Nat /\ level \in 1 .. 4 /\ level <= Depth[mode]
      /\ PathFrom(va)[level][table] \subseteq PathTo(va)
      /\ PlaceFrom(va)[level][table] = Translate(va)
  BY RootOnPath DEF OnWay, MemTypeOK
<1>2. /\ PlaceFrom(va)[level][table] = PlaceAt(va, level, table)
      /\ PathFrom(va)[level][table] = PathAt(va, level, table)
  BY <1>1, PlaceUnfold, PathUnfold
<1>3. PICK e, pos : /\ e = mem[table][Index(va, level)] /\ e = At(pos)
                    /\ pos = Selected(va, level, table)
  BY <1>1, SelectedIn
<1>4. Present(e) /\ (MapsPage(level, e) <=> level = 1 \/ Large(level, e))
  BY <1>1, <1>3, SameKind
<1>5. pos \in PathTo(va)
  BY <1>1, <1>2, <1>3 DEF PathAt
<1>6. mode = "pae" => Narrow(e)
  BY <1>3, <1>5 DEF Fits
<1>7. Index(va, level) \in Slots
  BY <1>1, SelectedIn
<1>8. /\ NextTable(level, e) = e.addr
      /\ MapsPage(level, e) =>
           PagePlus(level, e, va) = e.addr - (e.addr % SizeOf(level)) + (va % SizeOf(level))
  <2> DEFINE f == mem[table][Index(va, level)]
  <2>1. mode = "pae" => Narrow(f)
    BY <1>3, <1>6
  <2>2. /\ NextTable(level, f) = f.addr
        /\ MapsPage(level, f) =>
             PagePlus(level, f, va) = f.addr - (f.addr % SizeOf(level)) + (va % SizeOf(level))
    BY <1>1, <1>7, <2>1, SameBits
  <2> QED
    BY <1>3, <2>2
<1>9. CASE MapsPage(level, e)
  <2>1. PlaceAt(va, level, table)
          = [ok |-> TRUE, pa |-> e.addr - (e.addr % SizeOf(level)) + (va % SizeOf(level)),
             size |-> SizeOf(level)]
    <3>1. ~(level > 1 /\ ~Large(level, e))
      BY <1>4, <1>9
    <3> QED
      BY <1>3, <1>4, <3>1, Zenon DEF PlaceAt
  <2> QED
    BY <1>1, <1>2, <1>3, <1>8, <1>9, <2>1
<1>10. CASE ~MapsPage(level, e)
  <2>1. level > 1 /\ ~Large(level, e)
    BY <1>1, <1>4, <1>10
  <2>2. PlaceAt(va, level, table) = PlaceFrom(va)[level - 1][e.addr]
    BY <1>3, <1>4, <2>1, Zenon DEF PlaceAt
  <2>3. PathAt(va, level, table) = {pos} \cup PathFrom(va)[level - 1][e.addr]
    BY <1>3, <1>4, <2>1, Zenon DEF PathAt
  <2> QED
    BY <1>1, <1>2, <1>3, <1>8, <1>10, <2>2, <2>3
<1> QED
  BY <1>3, <1>9, <1>10

\* The place a walk gives its caller: right, or that of a hole.
FoundAt(pa) ==
  \/ PaeHole(va)
  \/ /\ pa % PageSize = va % PageSize
     /\ Steady(va) /\ Fits(va) => Translate(va).ok /\ Translate(va).pa = pa

\* The bytes at the place found are the next of the call.
LEMMA BytesFound ==
  ASSUME MemTypeOK, Asked, StrAt, pc = "walk", call.op # "lookup",
         NEW pa \in Nat, FoundAt(pa),
         NEW k \in Nat, (pa % PageSize) + k < PageSize, Foreseen(call, Len(buf) + 1 + k)
  PROVE  LET v == ByteAt(call, Len(buf) + 1 + k) IN
         Translate(v).ok /\ Translate(v).pa = pa + k /\ PageOf(pa + k) = PageOf(pa)
<1>1. call \in Op /\ Len(buf) \in Nat /\ va \in Nat
  BY DEF MemTypeOK
<1>2. PICK i \in Nat : i = Len(buf) + 1 + k /\ i > Len(buf) /\ Foreseen(call, i)
  BY <1>1
<1>3. ByteAt(call, Len(buf) + 1) = va
  BY <1>1, <1>2, Where DEF Foreseen
<1>4. ByteAt(call, i) = va + k
  <2>1. ByteAt(call, Len(buf) + 1) = call.va + Len(buf) /\ call.va \in Nat
    BY <1>1, OpIs
  <2>2. ByteAt(call, i) = call.va + (Len(buf) + k)
    <3>1. Len(buf) + k \in Nat /\ i = (Len(buf) + k) + 1
      BY <1>1, <1>2
    <3> QED
      BY <1>1, <3>1, OpIs
  <2> QED
    BY <1>1, <1>3, <2>1, <2>2, SMTT(30)
<1>5. ~PaeHole(va)
  <2>1. mode = "pae" => ~PaeHole(ByteAt(call, Len(buf) + 1))
    BY <1>1, <1>2 DEF Foreseen, NoHole
  <2> QED
    BY <1>3, <2>1 DEF PaeHole
<1>6. Predictable(va + k)
  BY <1>2, <1>4 DEF Foreseen
<1>7. /\ pa % PageSize = va % PageSize
      /\ Steady(va) /\ Fits(va) => Translate(va).ok /\ Translate(va).pa = pa
  BY <1>5 DEF FoundAt
<1>8. /\ PageOf(pa + k) = PageOf(pa)
      /\ Translate(va + k).ok /\ Translate(va + k).pa = pa + k
  BY <1>1, <1>6, <1>7, Chunk
<1> QED
  BY <1>2, <1>4, <1>8

\* With them, what there is is right.
LEMMA MoreCorrect ==
  ASSUME MemTypeOK, Asked, StrAt, BufRight, pc = "walk", call.op # "lookup",
         NEW pa \in Nat, FoundAt(pa), PageOf(pa) \in Frames,
         NEW n \in Nat, (pa % PageSize) + n <= PageSize,
         call.op = "read_str" => \A m \in 0 .. n - 1 : pa + m \notin Nul
  PROVE  Correct(call, buf \o From(pa, n))
<1>1. call \in Op /\ Len(buf) \in Nat /\ buf \in Seq(Nat) /\ pa % PageSize \in Nat
  <2>1. pa % PageSize \in Nat
    BY Sizes, DivMod
  <2> QED
    BY <2>1 DEF MemTypeOK
<1>2. PICK b : b = buf \o From(pa, n)
  OBVIOUS
<1>3. /\ Len(b) = Len(buf) + n
      /\ \A i \in 1 .. Len(buf) : b[i] = buf[i]
      /\ \A k \in 0 .. n - 1 : b[Len(buf) + 1 + k] = pa + k
  <2>1. /\ Len(buf \o From(pa, n)) = Len(buf) + n
        /\ \A i \in 1 .. Len(buf) : (buf \o From(pa, n))[i] = buf[i]
        /\ \A k \in 0 .. n - 1 : (buf \o From(pa, n))[Len(buf) + 1 + k] = pa + k
    BY <1>1, Appended, ZenonT(60)
  <2> QED
    BY <1>2, <2>1, Zenon
<1>4. SUFFICES ASSUME NEW i \in 1 .. Len(b), Foreseen(call, i)
               PROVE  /\ Readable(ByteAt(call, i))
                      /\ b[i] = Translate(ByteAt(call, i)).pa
                      /\ call.op = "read_str" => b[i] \notin Nul
  BY <1>2, Zenon DEF Correct
<1>5. CASE i <= Len(buf)
  <2>1. i \in 1 .. Len(buf) /\ b[i] = buf[i]
    BY <1>1, <1>3, <1>5
  <2> QED
    BY <1>4, <2>1 DEF BufRight, Correct
<1>6. CASE i > Len(buf)
  <2>1. PICK k \in 0 .. n - 1 : i = Len(buf) + 1 + k
    <3>1. i - Len(buf) - 1 \in 0 .. n - 1 /\ i = Len(buf) + 1 + (i - Len(buf) - 1)
      BY <1>1, <1>3, <1>6
    <3> QED
      BY <3>1
  <2>2. k \in Nat /\ (pa % PageSize) + k < PageSize
    BY <1>1, <2>1, Sizes
  <2>3. /\ Translate(ByteAt(call, i)).ok /\ Translate(ByteAt(call, i)).pa = pa + k
        /\ PageOf(pa + k) = PageOf(pa)
    BY <1>4, <2>1, <2>2, BytesFound
  <2>4. b[i] = pa + k
    BY <1>3, <2>1
  <2> QED
    BY <2>1, <2>3, <2>4 DEF Readable
<1> QED
  BY <1>1, <1>3, <1>5, <1>6

-----------------------------------------------------------------------------
(* Each step keeps the invariant. *)

\* A step that leaves the tables alone.
LEMMA TablesAlone ==
  ASSUME UNCHANGED <<config, mem, touched>>
  PROVE  LeavesAlone({})
BY DEF LeavesAlone, OnlyIn, At

\* A call that returns what is right.
LEMMA ReturnsRight ==
  ASSUME MemInv, pc # "idle",
         NEW ok \in BOOLEAN, NEW pa \in Nat \cup {Nothing}, NEW size \in Nat,
         NEW bytes \in Seq(Nat), Returns(ok, pa, size, bytes),
         call.op = "lookup" => WalkOf(call, ok, pa, size),
         call.op # "lookup" => BytesOf(call, ok, bytes)
  PROVE  MemInv'
<1>1. MemTypeOK'
  BY ReturnsTyped DEF MemInv
<1>2. /\ answer' = [call |-> call, ok |-> ok, pa |-> pa, size |-> size, bytes |-> bytes]
      /\ pc' = "idle"
      /\ UNCHANGED <<config, mem, touched>>
  BY DEF Returns
<1>3. PICK c \in Op : c = call
  BY DEF MemInv, MemTypeOK
<1>4. LeavesAlone({}) /\ MemTypeOK
  BY <1>2, TablesAlone DEF MemInv
<1>5. OnWay' /\ StrAt' /\ BufRight'
  BY <1>2, PartsAre DEF Parts
<1>6. Asked'
  BY <1>2 DEF Asked
<1>7. /\ answer'.call = c /\ answer'.ok = ok /\ answer'.pa = pa /\ answer'.size = size
      /\ answer'.bytes = bytes
  BY <1>2, <1>3
<1>8. WalkAgrees'
  <2> SUFFICES ASSUME c.op = "lookup"
               PROVE  WalkOf(c, ok, pa, size)'
    BY <1>7, PartsAre, Zenon DEF Parts
  <2>1. WalkOf(c, ok, pa, size)
    BY <1>3
  <2> QED
    BY <1>4, <2>1, WalkStays
<1>9. BytesAgree'
  <2> SUFFICES ASSUME c.op # "lookup"
               PROVE  BytesOf(c, ok, bytes)'
    BY <1>7, PartsAre, Zenon DEF Parts
  <2>1. BytesOf(c, ok, bytes)
    BY <1>3
  <2> QED
    BY <1>4, <2>1, BytesStay
<1> QED
  BY <1>1, <1>5, <1>6, <1>8, <1>9 DEF MemInv

\* A call that has no answer yet.
LEMMA NoAnswer ==
  ASSUME answer' = Nothing
  PROVE  WalkAgrees' /\ BytesAgree'
BY DEF WalkAgrees, BytesAgree

\* The bytes of a page that is not the last.
LEMMA CopyRight ==
  ASSUME MemInv, MemTypeOK', pc = "walk", call.op # "lookup",
         NEW pa \in Nat, FoundAt(pa), PageOf(pa) \in Frames,
         NEW n \in Nat, (pa % PageSize) + n <= PageSize,
         call.op = "read_str" => /\ \A m \in 0 .. n - 1 : pa + m \notin Nul
                                 /\ (pa % PageSize) + n = PageSize,
         CopyTo(From(pa, n))
  PROVE  MemInv'
<1>1. /\ buf' = buf \o From(pa, n)
      /\ pc' = "read"
      /\ UNCHANGED <<config, mem, call, walk, answer, touched, writes>>
  BY DEF CopyTo
<1>2. /\ MemTypeOK /\ Asked /\ StrAt /\ BufRight
      /\ call \in Op /\ buf \in Seq(Nat) /\ Len(buf) \in Nat /\ va \in Nat
  BY SMTT(30) DEF MemInv, MemTypeOK
<1>3. PICK c \in Op, b \in Seq(Nat) : c = call /\ b = buf \o From(pa, n)
  BY <1>2, Appended
<1>4. Len(b) = Len(buf) + n
  <2>1. Len(buf \o From(pa, n)) = Len(buf) + n
    BY <1>2, Appended
  <2> QED
    BY <1>3, <2>1
<1>5. LeavesAlone({})
  BY <1>1, TablesAlone
<1>6. OnWay'
  BY <1>1, PartsAre DEF Parts
<1>7. Asked'
  BY <1>1 DEF Asked, MemInv
<1>8. WalkAgrees' /\ BytesAgree'
  <2>1. answer' = Nothing
    BY <1>1 DEF Asked, MemInv
  <2> QED
    BY <2>1, NoAnswer
<1>9. BufRight'
  <2>1. Correct(c, b)
    <3>1. Correct(call, buf \o From(pa, n))
      BY <1>2, MoreCorrect
    <3> QED
      BY <1>3, <3>1
  <2>2. Correct(c, b)'
    BY <1>2, <1>5, <2>1, CorrectStays
  <2> QED
    BY <1>1, <1>3, <2>2, PartsAre, Zenon DEF Parts
<1>10. StrAt'
  <2>1. SUFFICES ASSUME c.op = "read_str"
                 PROVE  StrOf(c, b)'
    BY <1>1, <1>3, PartsAre, Zenon DEF Parts
  <2>2. SUFFICES ASSUME NoHole(c, Len(b))'
                 PROVE  \/ Len(b) = 0 /\ va = c.va
                        \/ Len(b) = First /\ va = c.va
                        \/ Len(b) >= First + PageSize
    <3>1. First' = First /\ va' = va /\ pc' = "read"
      BY <1>1 DEF First, walk
    <3>2. c.va + 0 = c.va
      <4>1. c.va \in Nat
        BY OpIs
      <4> QED
        BY <4>1
    <3>3. StrOf(c, b)' <=>
            (NoHole(c, Len(b))' =>
               \/ Len(b) = 0 /\ va = c.va
               \/ Len(b) = First /\ va = c.va + 0
               \/ Len(b) >= First + PageSize)
      BY <3>1, Zenon DEF StrOf
    <3> QED
      BY <3>2, <3>3, Zenon
  <2>3. NoHole(c, Len(b))
    <3>1. PICK i \in Nat : i = Len(b) /\ NoHole(c, i)'
      BY <2>2
    <3> QED
      BY <1>2, <1>5, <3>1, NoHoleStays
  <2>4. /\ PageSize \in Nat \ {0} /\ pa % PageSize \in Nat /\ pa % PageSize < PageSize
        /\ call.va \in Nat /\ call.va % PageSize \in Nat /\ call.va % PageSize < PageSize
        /\ First \in Nat
    <3>1. call.va \in Nat /\ PageSize \in Nat \ {0}
      BY <1>2, OpIs, Sizes
    <3>2. /\ pa % PageSize \in Nat /\ pa % PageSize < PageSize
          /\ call.va % PageSize \in Nat /\ call.va % PageSize < PageSize
      BY <3>1, DivMod
    <3> QED
      BY <3>1, <3>2 DEF First
  <2>5. n = PageSize - (pa % PageSize) /\ n > 0
    BY <1>3, <2>1, <2>4
  <2>6. NoHole(call, Len(buf)) /\ NoHole(call, Len(buf) + 1)
    BY <1>2, <1>3, <1>4, <2>3, <2>5, SMTT(30) DEF NoHole
  <2>7. CASE Len(buf) >= First + PageSize
    BY <1>2, <1>4, <2>4, <2>7
  <2>8. CASE Len(buf) < First + PageSize
    <3>1. /\ \/ Len(buf) = 0 /\ va = call.va
             \/ Len(buf) = First /\ va = call.va + First
          /\ InReach(call, Len(buf) + 1)
      <4>1. \/ Len(buf) = 0 /\ va = call.va
            \/ Len(buf) = First /\ va = call.va + First
            \/ Len(buf) >= First + PageSize
        BY <1>2, <1>3, <2>1, <2>6 DEF StrAt
      <4>2. Len(buf) + 1 <= 2 * PageSize - (call.va % PageSize)
        BY <1>2, <2>4, <2>8, SMTT(30) DEF First
      <4>3. ~(Len(buf) >= First + PageSize)
        BY <1>2, <2>4, <2>8
      <4> QED
        BY <4>1, <4>2, <4>3 DEF InReach
    <3>2. ByteAt(call, Len(buf) + 1) = va
      BY <1>2, <2>6, <3>1, Where
    <3>3. ~PaeHole(va)
      BY <1>2, <2>6, <3>2 DEF NoHole, PaeHole
    <3>4. pa % PageSize = va % PageSize
      BY <3>3 DEF FoundAt
    <3>5. CASE Len(buf) = 0 /\ va = call.va
      BY <1>3, <1>4, <2>4, <2>5, <3>4, <3>5 DEF First
    <3>6. CASE Len(buf) = First /\ va = call.va + First
      <4>1. va % PageSize = 0
        <5>1. PICK q \in Nat : call.va = q * PageSize + (call.va % PageSize)
          BY <2>4, DivMod
        <5>2. (q + 1) * PageSize = q * PageSize + PageSize /\ q * PageSize \in Nat
          BY <2>4, SMTT(30)
        <5>3. va = (q + 1) * PageSize
          BY <2>4, <3>6, <5>1, <5>2 DEF First
        <5>4. \A k \in Nat : (k * PageSize) % PageSize = 0
          BY <2>4, MultMod
        <5> QED
          BY <5>3, <5>4
      <4> QED
        BY <1>2, <1>4, <2>4, <2>5, <3>4, <3>6, <4>1
    <3> QED
      BY <3>1, <3>5, <3>6
  <2> QED
    BY <1>2, <2>4, <2>7, <2>8
<1> QED
  BY <1>6, <1>7, <1>8, <1>9, <1>10 DEF MemInv

\* A call that fails where nothing can be read.
LEMMA FailsRight ==
  ASSUME MemInv, pc = "walk", NotFound,
         call.op = "lookup" => (Predictable(va) => ~Translate(va).ok),
         call.op # "lookup" => (Predictable(va) => ~Readable(va))
  PROVE  MemInv'
<1>1. /\ MemTypeOK /\ Asked /\ StrAt /\ BufRight
      /\ call \in Op /\ buf \in Seq(Nat) /\ Len(buf) \in Nat
      /\ call.op \in {"lookup", "read", "read_str"}
  <2>1. /\ MemTypeOK /\ Asked /\ StrAt /\ BufRight
        /\ call \in Op /\ buf \in Seq(Nat) /\ Len(buf) \in Nat
    BY DEF MemInv, MemTypeOK
  <2> QED
    BY <2>1, OpIs
<1>2. PICK ok \in BOOLEAN : /\ Returns(ok, Nothing, 0, buf)
                            /\ ok <=> (call.op = "read_str" /\ Len(buf) > 0)
  <2> DEFINE some == call.op = "read_str" /\ buf # <<>>
  <2>1. (buf # <<>>) <=> (Len(buf) > 0)
    BY <1>1
  <2>2. Returns(some, Nothing, 0, buf)
    BY Zenon DEF NotFound
  <2>3. some \in BOOLEAN
    BY Zenon
  <2>4. some <=> (call.op = "read_str" /\ Len(buf) > 0)
    BY <2>1, Zenon
  <2> HIDE DEF some
  <2> QED
    BY <2>2, <2>3, <2>4, Zenon
<1>3. call.op = "lookup" => WalkOf(call, ok, Nothing, 0)
  BY <1>1, <1>2 DEF WalkOf, Asked
<1>4. ASSUME call.op # "lookup"
      PROVE  BytesOf(call, ok, buf)
  <2>1. Correct(call, buf)
    BY <1>1, <1>4 DEF BufRight
  <2>2. ASSUME Foreseen(call, Len(buf) + 1)
        PROVE  ~Readable(ByteAt(call, Len(buf) + 1))
    <3>1. InReach(call, Len(buf) + 1) /\ NoHole(call, Len(buf) + 1)
          /\ Predictable(ByteAt(call, Len(buf) + 1))
      BY <2>2 DEF Foreseen
    <3>2. ByteAt(call, Len(buf) + 1) = va
      BY <1>1, <1>4, <3>1, Where
    <3> QED
      BY <1>4, <3>1, <3>2
  <2>3. Foreseen(call, Len(buf) + 1) => EndsRight(call, ok, Len(buf))
    BY <1>2, <2>2 DEF EndsRight
  <2>4. ~ok /\ call.op = "read_str" => Len(buf) = 0
    BY <1>1, <1>2
  <2>5. ~(ok /\ call.op = "read")
    BY <1>2
  <2> QED
    BY <2>1, <2>3, <2>4, <2>5 DEF BytesOf
<1> QED
  BY <1>1, <1>2, <1>3, <1>4, ReturnsRight

\* A walk that found a page.
LEMMA FoundRight ==
  ASSUME MemInv, MemTypeOK', pc = "walk", NEW pa \in Nat, NEW size \in Nat, FoundAt(pa),
         call.op = "lookup" => WalkOf(call, TRUE, pa, size),
         Found(pa, size)
  PROVE  MemInv'
<1>1. /\ MemTypeOK /\ Asked /\ StrAt /\ BufRight
      /\ call \in Op /\ buf \in Seq(Nat) /\ Len(buf) \in Nat
  BY SMTT(30) DEF MemInv, MemTypeOK
<1>2. /\ call.op \in {"lookup", "read", "read_str"} /\ call.count \in Nat
      /\ call.op = "read" => Len(buf) <= call.count
  BY <1>1, OpIs DEF MemTypeOK
<1>3. CASE call.op = "lookup"
  <2>1. Returns(TRUE, pa, size, <<>>)
    BY <1>3 DEF Found
  <2>2. <<>> \in Seq(Nat)
    OBVIOUS
  <2> QED
    BY <1>3, <2>1, <2>2, ReturnsRight
<1>4. CASE call.op # "lookup" /\ PageOf(pa) \notin Frames
  <2>1. NotFound
    BY <1>2, <1>4 DEF Found
  <2>2. Predictable(va) => ~Readable(va)
    BY <1>4 DEF FoundAt, Predictable, Readable
  <2> QED
    BY <1>4, <2>1, <2>2, FailsRight
<1>5. CASE call.op = "read" /\ PageOf(pa) \in Frames
  <2>1. PICK n \in Nat : /\ n = ReadLen(pa, call.count - Len(buf))
                         /\ (pa % PageSize) + n <= PageSize
    <3>1. call.count - Len(buf) \in Nat
      BY <1>1, <1>2, <1>5
    <3> QED
      BY <3>1, ReadLenIs
  <2>2. CopyTo(From(pa, n))
    BY <1>5, <2>1 DEF Found
  <2> QED
    BY <1>5, <2>1, <2>2, CopyRight
<1>6. CASE call.op = "read_str" /\ PageOf(pa) \in Frames
  <2>1. PICK n \in Nat : n = StrLen(pa)
    BY StrLenIs
  <2>2. /\ pa % PageSize \in Nat /\ PageSize \in Nat
        /\ (pa % PageSize) + n <= PageSize
        /\ \A m \in 0 .. n - 1 : pa + m \notin Nul
        /\ (pa % PageSize) + n < PageSize => pa + n \in Nul
    <3>1. /\ pa % PageSize \in Nat /\ PageSize \in Nat /\ pa % PageSize < PageSize
          /\ n \in 0 .. PageSize - (pa % PageSize)
          /\ \A m \in 0 .. n - 1 : pa + m \notin Nul
          /\ n < PageSize - (pa % PageSize) => pa + n \in Nul
      BY <2>1, StrLenIs, Zenon
    <3> QED
      BY <3>1
  <2>3. CopyStr(pa)
    BY <1>6 DEF Found
  <2>4. CASE (pa % PageSize) + n < PageSize
    <3>1. Returns(TRUE, Nothing, 0, buf \o From(pa, n))
      BY <2>1, <2>3, <2>4 DEF CopyStr
    <3>2. PICK b \in Seq(Nat) : b = buf \o From(pa, n) /\ Len(b) = Len(buf) + n
      BY <1>1, Appended, ZenonT(60)
    <3>3. Correct(call, b)
      <4>1. Correct(call, buf \o From(pa, n))
        BY <1>1, <1>6, <2>2, MoreCorrect
      <4> QED
        BY <3>2, <4>1
    <3>4. ASSUME Foreseen(call, Len(b) + 1)
          PROVE  EndsRight(call, TRUE, Len(b))
      <4>1. Len(b) + 1 = Len(buf) + 1 + n
        BY <1>1, <3>2
      <4>2. LET v == ByteAt(call, Len(buf) + 1 + n) IN
            Translate(v).ok /\ Translate(v).pa = pa + n /\ PageOf(pa + n) = PageOf(pa)
        BY <1>1, <1>6, <2>4, <3>4, <4>1, BytesFound
      <4> QED
        BY <1>6, <2>2, <2>4, <4>1, <4>2 DEF EndsRight, Readable
    <3>5. BytesOf(call, TRUE, b)
      BY <1>6, <3>3, <3>4 DEF BytesOf
    <3>6. Returns(TRUE, Nothing, 0, b)
      BY <3>1, <3>2
    <3> QED
      BY <1>6, <3>5, <3>6, ReturnsRight
  <2>5. CASE ~((pa % PageSize) + n < PageSize)
    <3>1. CopyTo(From(pa, n))
      BY <2>1, <2>3, <2>5 DEF CopyStr
    <3>2. (pa % PageSize) + n = PageSize
      BY <2>2, <2>5
    <3> QED
      BY <1>6, <2>2, <3>1, <3>2, CopyRight
  <2> QED
    BY <2>4, <2>5
<1> QED
  BY <1>2, <1>3, <1>4, <1>5, <1>6

\* vmi_read_str is where it was.
LEMMA StrStays ==
  ASSUME MemInv, NEW W, LeavesAlone(W), UNCHANGED <<pc, call, va, buf>>
  PROVE  StrAt'
<1>1. SUFFICES ASSUME pc # "idle", NEW c \in Op, NEW b \in Seq(Nat), c = call, b = buf,
                      c.op = "read_str"
               PROVE  StrOf(c, b)'
  <2>1. pc # "idle" => call \in Op /\ buf \in Seq(Nat)
    BY DEF MemInv, MemTypeOK
  <2> QED
    BY <2>1, PartsAre, Zenon DEF Parts
<1>2. First' = First /\ pc' = pc /\ va' = va
  BY DEF First
<1>3. StrOf(c, b)
  BY <1>1, PartsAre, Zenon DEF Parts, MemInv
<1>4. NoHole(c, Len(b))' => NoHole(c, Len(b))
  <2>1. PICK i \in Nat : i = Len(b)
    BY <1>1
  <2> QED
    BY <2>1, NoHoleStays DEF MemInv
<1> QED
  BY <1>2, <1>3, <1>4, Zenon DEF StrOf

\* The user calls.
LEMMA BeginRight ==
  ASSUME MemInv, MemTypeOK', NEW c \in Op, Lookup(c) \/ Read(c)
  PROVE  MemInv'
<1>1. PICK step : /\ Begin(c, step)
                  /\ \/ step = "walk" /\ c.op = "lookup"
                     \/ step = "read" /\ c.op # "lookup"
  BY DEF Lookup, Read
<1>2. /\ call' = c /\ pc' = step
      /\ va' = c.va /\ level' = Depth[mode] /\ table' = Dtb
      /\ buf' = <<>> /\ answer' = Nothing /\ touched' = {}
      /\ UNCHANGED <<config, mem, writes>>
  BY <1>1 DEF Begin
<1>3. PICK v \in Nat : v = c.va
  BY OpIs
<1>4. OnWay'
  <2>1. PICK l, t : l = level' /\ t = table' /\ l = Depth[mode]' /\ t = Dtb
    BY <1>2 DEF config
  <2>2. WayOf(v, l, t)'
    BY <2>1 DEF WayOf, PathTo, Translate
  <2> QED
    BY <1>2, <1>3, <2>1, <2>2, PartsAre, Zenon DEF Parts
<1>5. Asked'
  BY <1>1, <1>2 DEF Asked
<1>6. StrAt'
  <2>1. Len(<<>>) = 0
    OBVIOUS
  <2> QED
    BY <1>2, <2>1 DEF StrAt
<1>7. BufRight'
  <2>1. Correct(c, <<>>)'
    BY DEF Correct
  <2> QED
    BY <1>2, <2>1, PartsAre, Zenon DEF Parts
<1>8. WalkAgrees' /\ BytesAgree'
  BY <1>2, NoAnswer
<1> QED
  BY <1>4, <1>5, <1>6, <1>7, <1>8 DEF MemInv

\* The loop goes on to the next page.
LEMMA ReadOnRight ==
  ASSUME MemInv, MemTypeOK', ReadOn
  PROVE  MemInv'
<1>1. /\ pc = "read" /\ pc' = "walk"
      /\ call.op = "read" => Len(buf) < call.count
      /\ Len(buf) < MaxLen
      /\ va' = IF call.op = "read" THEN call.va + Len(buf) ELSE va + Len(buf)
      /\ level' = Depth[mode] /\ table' = Dtb
      /\ UNCHANGED <<config, mem, call, buf, answer, touched, writes>>
  BY DEF ReadOn
<1>2. /\ MemTypeOK /\ Asked /\ StrAt /\ BufRight
      /\ call \in Op /\ buf \in Seq(Nat) /\ Len(buf) \in Nat /\ va \in Nat
  BY <1>1 DEF MemInv, MemTypeOK
<1>3. PICK c \in Op, b \in Seq(Nat) : c = call /\ b = buf
  BY <1>2
<1>4. LeavesAlone({})
  BY <1>1, TablesAlone
<1>5. c.va \in Nat /\ c.op \in {"lookup", "read", "read_str"}
  BY OpIs
<1>6. OnWay'
  <2>1. PICK v, l, t : v = va' /\ l = level' /\ t = table' /\ l = Depth[mode]' /\ t = Dtb
    BY <1>1 DEF config
  <2>2. WayOf(v, l, t)'
    BY <2>1 DEF WayOf, PathTo, Translate
  <2> QED
    BY <1>1, <2>1, <2>2, PartsAre, Zenon DEF Parts
<1>7. answer' = Nothing /\ c.op # "lookup"
  BY <1>1, <1>2, <1>3 DEF Asked
<1>8. Asked'
  BY <1>1, <1>3, <1>5, <1>7 DEF Asked
<1>9. WalkAgrees' /\ BytesAgree'
  BY <1>7, NoAnswer
<1>10. BufRight'
  <2>1. Correct(c, b)
    BY <1>1, <1>2, <1>3, <1>7 DEF BufRight
  <2>2. Correct(c, b)'
    BY <1>2, <1>4, <2>1, CorrectStays
  <2> QED
    BY <1>1, <1>3, <2>2, PartsAre, Zenon DEF Parts
<1>11. StrAt'
  <2>1. SUFFICES ASSUME c.op = "read_str", NoHole(c, Len(b))'
                 PROVE  \/ Len(b) = 0 /\ va' = c.va
                        \/ Len(b) = First /\ va' = c.va + First
                        \/ Len(b) >= First + PageSize
    <3>1. First' = First /\ pc' = "walk"
      BY <1>1 DEF First
    <3>2. StrOf(c, b)' <=>
            (NoHole(c, Len(b))' =>
               \/ Len(b) = 0 /\ va' = c.va
               \/ Len(b) = First /\ va' = c.va + First
               \/ Len(b) >= First + PageSize)
      BY <3>1, Zenon DEF StrOf
    <3> QED
      BY <1>1, <1>3, <3>2, PartsAre, Zenon DEF Parts
  <2>2. NoHole(call, Len(buf))
    <3>1. PICK i \in Nat : i = Len(b) /\ NoHole(c, i)'
      BY <1>2, <1>3, <2>1
    <3>2. NoHole(c, i)
      BY <1>2, <1>4, <3>1, NoHoleStays
    <3> QED
      BY <1>3, <3>1, <3>2
  <2>3. \/ Len(buf) = 0 /\ va = call.va
        \/ Len(buf) = First /\ va = call.va + 0
        \/ Len(buf) >= First + PageSize
    BY <1>1, <1>2, <1>3, <2>1, <2>2, Zenon DEF StrAt
  <2>4. va' = va + Len(buf)
    BY <1>1, <1>3, <2>1
  <2> QED
    BY <1>2, <1>3, <1>5, <2>3, <2>4
<1> QED
  BY <1>6, <1>8, <1>9, <1>10, <1>11 DEF MemInv

\* The call returns from the loop's head.
LEMMA DoneRight ==
  ASSUME MemInv, ReadAll \/ GiveUp
  PROVE  MemInv'
<1>1. /\ pc = "read" /\ call.op # "lookup" /\ Correct(call, buf)
      /\ call \in Op /\ buf \in Seq(Nat) /\ Len(buf) \in Nat
  <2>1. pc = "read"
    BY DEF ReadAll, GiveUp
  <2>2. /\ call.op # "lookup" /\ call \in Op /\ buf \in Seq(Nat)
    BY <2>1 DEF MemInv, MemTypeOK, Asked
  <2>3. Correct(call, buf)
    BY <2>1, <2>2 DEF MemInv, BufRight
  <2> QED
    BY <2>1, <2>2, <2>3
<1>2. CASE ReadAll
  <2>1. call.op = "read" /\ Len(buf) = call.count /\ Returns(TRUE, Nothing, 0, buf)
    BY <1>2 DEF ReadAll
  <2>2. BytesOf(call, TRUE, buf)
    BY <1>1, <2>1 DEF BytesOf, EndsRight
  <2> QED
    BY <1>1, <2>1, <2>2, ReturnsRight
<1>3. CASE GiveUp
  <2>1. Len(buf) >= MaxLen /\ Returns(FALSE, Nothing, 0, buf)
    BY <1>3 DEF GiveUp
  <2>2. ~(Len(buf) < MaxLen)
    BY <1>1, <2>1, CallAssumption
  <2>3. BytesOf(call, FALSE, buf)
    BY <1>1, <2>2 DEF BytesOf, EndsRight
  <2> QED
    BY <1>1, <2>1, <2>3, ReturnsRight
<1> QED
  BY <1>2, <1>3

\* The walk finds nothing.
LEMMA NoneRight ==
  ASSUME MemInv, pc = "walk", NotFound,
         table \in Frames => ~EntryPresent(transition, mem[table][Index(va, level)])
  PROVE  MemInv'
<1>1. Steady(va) /\ Fits(va) => ~Translate(va).ok
  BY NoneFound DEF MemInv, Nowhere
<1> QED
  BY <1>1, FailsRight DEF Predictable, Readable

\* An entry is absent.
LEMMA AbsentRight ==
  ASSUME MemInv, MemTypeOK', EntryAbsent
  PROVE  MemInv'
<1>1. /\ pc = "walk" /\ table \in Frames
      /\ ~EntryPresent(transition, mem[table][Index(va, level)])
  BY DEF EntryAbsent
<1>2. CASE mode = "pae" /\ level = 3
  <2>1. Found(0, 0)
    BY <1>2 DEF EntryAbsent
  <2>2. PaeHole(va)
    <3>1. table = Dtb /\ va \in Nat
      BY <1>1, <1>2 DEF MemInv, OnWay, Depth, MemTypeOK
    <3>2. At(Selected(va, 3, Dtb)) = mem[table][Index(va, level)]
      BY <1>1, <1>2, <3>1, SelectedIn
    <3> QED
      BY <1>1, <1>2, <3>2 DEF PaeHole, Present, EntryPresent
  <2>3. FoundAt(0)
    BY <2>2 DEF FoundAt
  <2>4. call.op = "lookup" => WalkOf(call, TRUE, 0, 0)
    BY <1>1, <2>2 DEF WalkOf, Predictable, MemInv, Asked
  <2> QED
    BY <1>1, <2>1, <2>3, <2>4, FoundRight
<1>3. CASE ~(mode = "pae" /\ level = 3)
  <2>1. NotFound
    BY <1>3 DEF EntryAbsent
  <2> QED
    BY <1>1, <2>1, NoneRight
<1> QED
  BY <1>2, <1>3

\* An entry names the next table.
LEMMA TableRight ==
  ASSUME MemInv, MemTypeOK', EntryTable
  PROVE  MemInv'
<1>1. PICK e : /\ e = mem[table][Index(va, level)]
               /\ EntryPresent(transition, e) /\ ~MapsPage(level, e)
               /\ table' = NextTable(level, e)
  BY DEF EntryTable
<1>2. /\ pc = "walk" /\ table \in Frames /\ level' = level - 1
      /\ UNCHANGED <<config, mem, pc, call, va, buf, answer, touched, writes>>
  BY DEF EntryTable
<1>3. /\ MemTypeOK /\ OnWay /\ Asked /\ StrAt /\ BufRight
      /\ call \in Op /\ buf \in Seq(Nat) /\ Len(buf) \in Nat
      /\ va \in Nat /\ level \in 1 .. Depth[mode] /\ level # 1
  BY <1>1, <1>2 DEF MemInv, MemTypeOK, MapsPage
<1>4. LeavesAlone({})
  BY <1>2, TablesAlone
<1>5. PICK c \in Op, b \in Seq(Nat) : c = call /\ b = buf
  BY <1>3
<1>6. OnWay'
  <2>1. PICK v \in Nat, l \in 1 .. 4, t \in Nat :
          v = va /\ l = level - 1 /\ t = NextTable(level, e) /\ l # Depth[mode]
    <3>1. NextTable(level, e) \in Nat /\ level - 1 \in 1 .. 4 /\ level - 1 # Depth[mode]
      <4>1. Depth[mode] \in 1 .. 4
        BY <1>3, RootOnPath
      <4>2. Index(va, level) \in Slots /\ level \in 1 .. 4
        <5>1. level \in 1 .. 4
          BY <1>3, <4>1
        <5> QED
          BY <1>2, <1>3, <5>1, SelectedIn
      <4>3. NextTable(level, mem[table][Index(va, level)]) \in Nat
        BY <1>2, <1>3, <4>2, Offsets
      <4>4. level - 1 \in 1 .. 4 /\ level - 1 # Depth[mode]
        BY <1>3, <4>1
      <4> QED
        BY <1>1, <4>3, <4>4
    <3> QED
      BY <1>3, <3>1
  <2>2. WayOf(v, l, t)
    <3>1. ASSUME Steady(va), Fits(va)
          PROVE  /\ PathFrom(va)[l][t] \subseteq PathTo(va)
                 /\ PlaceFrom(va)[l][t] = Translate(va)
      BY <1>1, <1>2, <1>3, <2>1, <3>1, EntryFound
    <3> QED
      BY <2>1, <3>1 DEF WayOf
  <2>3. WayOf(v, l, t)'
    BY <1>3, <1>4, <2>2, WayStays
  <2>4. v = va' /\ l = level' /\ t = table'
    BY <1>1, <1>2, <2>1
  <2> QED
    BY <2>3, <2>4, PartsAre, Zenon DEF Parts
<1>7. answer' = Nothing /\ Asked'
  BY <1>2, <1>3 DEF Asked
<1>8. WalkAgrees' /\ BytesAgree'
  BY <1>7, NoAnswer
<1>9. ASSUME call.op # "lookup"
      PROVE  BufRight'
  <2>1. Correct(c, b)
    BY <1>2, <1>3, <1>5, <1>9 DEF BufRight
  <2>2. Correct(c, b)'
    BY <1>3, <1>4, <2>1, CorrectStays
  <2> QED
    BY <1>2, <1>5, <2>2, PartsAre, Zenon DEF Parts
<1>10. call.op = "lookup" => BufRight'
  BY <1>2 DEF BufRight
<1>11. StrAt'
  BY <1>2, <1>3, <1>4, <1>5, StrStays
<1> QED
  BY <1>6, <1>7, <1>8, <1>9, <1>10, <1>11 DEF MemInv

\* An entry names the page.
LEMMA PageRight ==
  ASSUME MemInv, MemTypeOK', EntryPage
  PROVE  MemInv'
<1>1. PICK e : /\ e = mem[table][Index(va, level)]
               /\ EntryPresent(transition, e) /\ MapsPage(level, e)
               /\ Found(PagePlus(level, e, va), SizeOf(level))
  BY DEF EntryPage
<1>2. /\ pc = "walk" /\ table \in Frames
  BY DEF EntryPage
<1>3. /\ MemTypeOK /\ OnWay /\ Asked
      /\ va \in Nat /\ level \in 1 .. 4
  <2>1. MemTypeOK /\ Depth[mode] \in 1 .. 4
    BY RootOnPath DEF MemInv
  <2> QED
    BY <1>2, <2>1 DEF MemInv, MemTypeOK
<1>4. PICK pa \in Nat, size \in Nat :
        /\ pa = PagePlus(level, e, va) /\ size = SizeOf(level)
        /\ pa % PageSize = va % PageSize
  <2>1. Index(va, level) \in Slots /\ SizeOf(level) \in Nat
    BY <1>2, <1>3, SelectedIn, Sizes
  <2>2. /\ PagePlus(level, mem[table][Index(va, level)], va) \in Nat
        /\ PagePlus(level, mem[table][Index(va, level)], va) % PageSize = va % PageSize
    BY <1>2, <1>3, <2>1, Offsets
  <2> QED
    BY <1>1, <2>1, <2>2
<1>5. Steady(va) /\ Fits(va) => Translate(va) = [ok |-> TRUE, pa |-> pa, size |-> size]
  BY <1>1, <1>2, <1>3, <1>4, EntryFound
<1>6. FoundAt(pa)
  BY <1>4, <1>5 DEF FoundAt
<1>7. call.op = "lookup" => WalkOf(call, TRUE, pa, size)
  BY <1>2, <1>3, <1>5 DEF WalkOf, Predictable, Asked
<1>8. Found(pa, size)
  BY <1>1, <1>4
<1> QED
  BY <1>2, <1>6, <1>7, <1>8, FoundRight

\* The guest writes.
LEMMA WriteRight ==
  ASSUME MemInv, MemTypeOK',
         NEW u \in Written, NEW s \in Slots, NEW e \in Entries, GuestWrites(u, s, e)
  PROVE  MemInv'
<1>1. /\ mem' = [mem EXCEPT ![u][s] = e]
      /\ touched' = IF pc = "idle" THEN {} ELSE touched \cup {<<u, s>>}
      /\ answer' = IF pc = "idle" THEN Nothing ELSE answer
      /\ UNCHANGED <<config, pc, call, walk, buf>>
  BY DEF GuestWrites
<1>2. answer' = Nothing /\ Asked'
  <2>1. answer' = Nothing
    BY <1>1 DEF MemInv, Asked
  <2> QED
    BY <1>1, <2>1 DEF MemInv, Asked, walk
<1>3. WalkAgrees' /\ BytesAgree'
  BY <1>2, NoAnswer
<1>4. CASE pc = "idle"
  <2>1. OnWay' /\ StrAt' /\ BufRight'
    BY <1>1, <1>4, PartsAre DEF Parts
  <2> QED
    BY <1>2, <1>3, <2>1 DEF MemInv
<1>5. CASE pc # "idle"
  <2>1. LeavesAlone({<<u, s>>})
    <3>1. \A pos \in (Frames \X Slots) \ {<<u, s>>} : At(pos)' = At(pos)
      <4> SUFFICES ASSUME NEW t \in Frames, NEW r \in Slots, <<t, r>> # <<u, s>>
                   PROVE  mem'[t][r] = mem[t][r]
        BY DEF At
      <4>1. mem \in [Frames -> [Slots -> Entry]]
        BY DEF MemInv, MemTypeOK
      <4> QED
        BY <1>1, <4>1
    <3> QED
      BY <1>1, <1>5, <3>1 DEF LeavesAlone, OnlyIn
  <2>2. /\ MemTypeOK /\ OnWay /\ BufRight
        /\ call \in Op /\ buf \in Seq(Nat) /\ va \in Nat /\ table \in Nat
        /\ pc = "walk" => level \in 1 .. 4
    <3>1. MemTypeOK /\ Depth[mode] \in 1 .. 4
      BY RootOnPath DEF MemInv
    <3> QED
      BY <1>5, <3>1 DEF MemInv, MemTypeOK
  <2>3. UNCHANGED <<pc, call, va, level, table, buf>>
    BY <1>1 DEF walk
  <2>4. StrAt'
    BY <2>1, <2>3, StrStays
  <2>5. OnWay'
    <3>1. SUFFICES ASSUME pc = "walk", NEW v \in Nat, NEW l \in 1 .. 4, NEW t \in Nat,
                          v = va, l = level, t = table
                   PROVE  WayOf(v, l, t)'
      BY <2>2, <2>3, PartsAre, Zenon DEF Parts
    <3>2. WayOf(v, l, t)
      BY <2>2, <3>1, PartsAre, Zenon DEF Parts
    <3> QED
      BY <2>1, <2>2, <3>2, WayStays
  <2>6. BufRight'
    <3>1. SUFFICES ASSUME call.op # "lookup", NEW c \in Op, NEW b \in Seq(Nat), c = call, b = buf
                   PROVE  Correct(c, b)'
      BY <2>2, <2>3, PartsAre, Zenon DEF Parts
    <3>2. Correct(c, b)
      BY <1>5, <2>2, <3>1, PartsAre, Zenon DEF Parts
    <3> QED
      BY <2>1, <2>2, <3>2, CorrectStays
  <2> QED
    BY <1>2, <1>3, <2>4, <2>5, <2>6 DEF MemInv
<1> QED
  BY <1>4, <1>5

\* Nothing happens.
LEMMA StutterRight ==
  ASSUME MemInv, MemTypeOK', UNCHANGED memVars
  PROVE  MemInv'
<1>1. /\ UNCHANGED <<config, mem, touched>>
      /\ UNCHANGED <<pc, call, va, level, table, buf, answer>>
  BY DEF memVars, walk
<1>2. LeavesAlone({})
  BY <1>1, TablesAlone
<1>3. Asked'
  BY <1>1 DEF MemInv, Asked
<1>4. StrAt'
  BY <1>1, <1>2, StrStays
<1>5. /\ MemTypeOK /\ OnWay /\ BufRight /\ WalkAgrees /\ BytesAgree
      /\ pc # "idle" => call \in Op
      /\ buf \in Seq(Nat) /\ va \in Nat /\ table \in Nat
      /\ pc = "walk" => level \in 1 .. 4
      /\ answer # Nothing => answer.call \in Op /\ answer.bytes \in Seq(Nat)
  <2>1. MemTypeOK /\ Depth[mode] \in 1 .. 4
    BY RootOnPath DEF MemInv
  <2>2. answer # Nothing => answer.call \in Op /\ answer.bytes \in Seq(Nat)
    <3>1. answer # Nothing => answer \in Answer
      BY <2>1 DEF MemTypeOK
    <3>2. \A a \in Answer : a.call \in Op /\ a.bytes \in Seq(Nat)
      BY DEF Answer
    <3> QED
      BY <3>1, <3>2
  <2> QED
    BY <2>1, <2>2 DEF MemInv, MemTypeOK
<1>6. OnWay'
  <2>1. SUFFICES ASSUME pc = "walk", NEW v \in Nat, NEW l \in 1 .. 4, NEW t \in Nat,
                        v = va, l = level, t = table
                 PROVE  WayOf(v, l, t)'
    BY <1>1, <1>5, PartsAre, Zenon DEF Parts
  <2>2. WayOf(v, l, t)
    BY <1>5, <2>1, PartsAre, Zenon DEF Parts
  <2> QED
    BY <1>2, <1>5, <2>2, WayStays
<1>7. BufRight'
  <2>1. SUFFICES ASSUME pc # "idle", call.op # "lookup",
                        NEW c \in Op, NEW b \in Seq(Nat), c = call, b = buf
                 PROVE  Correct(c, b)'
    BY <1>1, <1>5, PartsAre, Zenon DEF Parts
  <2>2. Correct(c, b)
    BY <1>5, <2>1, PartsAre, Zenon DEF Parts
  <2> QED
    BY <1>2, <1>5, <2>2, CorrectStays
<1>8. WalkAgrees'
  <2>1. SUFFICES ASSUME answer # Nothing, answer.call.op = "lookup",
                        NEW c \in Op, NEW ok, NEW pa, NEW size,
                        c = answer.call, ok = answer.ok, pa = answer.pa, size = answer.size
                 PROVE  WalkOf(c, ok, pa, size)'
    BY <1>1, <1>5, PartsAre, Zenon DEF Parts
  <2>2. WalkOf(c, ok, pa, size)
    BY <1>5, <2>1, PartsAre, Zenon DEF Parts
  <2> QED
    BY <1>2, <1>5, <2>2, WalkStays
<1>9. BytesAgree'
  <2>1. SUFFICES ASSUME answer # Nothing, answer.call.op # "lookup",
                        NEW c \in Op, NEW ok, NEW b \in Seq(Nat),
                        c = answer.call, ok = answer.ok, b = answer.bytes
                 PROVE  BytesOf(c, ok, b)'
    BY <1>1, <1>5, PartsAre, Zenon DEF Parts
  <2>2. BytesOf(c, ok, b)
    BY <1>5, <2>1, PartsAre, Zenon DEF Parts
  <2> QED
    BY <1>2, <1>5, <2>2, BytesStay
<1> QED
  BY <1>3, <1>4, <1>6, <1>7, <1>8, <1>9 DEF MemInv

\* The invariant holds at first.
LEMMA MemInvInit == MemInit => MemInv
<1> SUFFICES ASSUME MemInit
             PROVE  MemInv
  OBVIOUS
<1>1. pc = "idle" /\ answer = Nothing
  BY DEF MemInit
<1> QED
  BY <1>1, MemInitTypes DEF MemInv, OnWay, Asked, StrAt, BufRight, WalkAgrees, BytesAgree

\* And every step keeps it.
LEMMA MemInvNext == MemInv /\ [MemNext]_memVars => MemInv'
<1> SUFFICES ASSUME MemInv, [MemNext]_memVars
             PROVE  MemInv'
  OBVIOUS
<1>1. MemTypeOK'
  BY MemTypes DEF MemInv
<1>2. CASE \E c \in Op : Lookup(c) \/ Read(c)
  BY <1>1, <1>2, BeginRight
<1>3. CASE ReadOn
  BY <1>1, <1>3, ReadOnRight
<1>4. CASE ReadAll \/ GiveUp
  BY <1>4, DoneRight
<1>5. CASE EntryUnreadable
  BY <1>5, NoneRight DEF EntryUnreadable
<1>6. CASE EntryAbsent
  BY <1>1, <1>6, AbsentRight
<1>7. CASE EntryTable
  BY <1>1, <1>7, TableRight
<1>8. CASE EntryPage
  BY <1>1, <1>8, PageRight
<1>9. CASE \E t \in Written, s \in Slots, e \in Entries : GuestWrites(t, s, e)
  BY <1>1, <1>9, WriteRight
<1>10. CASE UNCHANGED memVars
  BY <1>1, <1>10, StutterRight
<1> QED
  BY <1>2, <1>3, <1>4, <1>5, <1>6, <1>7, <1>8, <1>9, <1>10 DEF MemNext, Step

\* The invariant.
LEMMA MemInvariant == MemSpec => []MemInv
BY MemInvInit, MemInvNext, PTL DEF MemSpec

(***************************************************************************)
(* v2p_nopae, v2p_pae and v2p_ia32e stay within the tables and find an     *)
(* address exactly where the tables have it, for any tables and sizes,     *)
(* while the guest writes to other entries.                                *)
(***************************************************************************)
THEOREM WalksAreRight == MemSpec => []WalksRight
<1>1. MemInv => WalksRight
  BY DEF MemInv, WalksRight
<1> QED
  BY <1>1, MemInvariant, PTL

(***************************************************************************)
(* vmi_read and vmi_read_str deliver the bytes their addresses map: all of *)
(* a count, or up to a page that cannot be read; of a string what comes    *)
(* before its zero byte or, cut off, before a page that cannot be read.    *)
(* This holds for any addresses, counts and limit of a string, but not for *)
(* the bytes of a string beyond its second page, nor for those after a     *)
(* hole of a PAE table (Foreseen).                                         *)
(***************************************************************************)
THEOREM BytesAreRight == MemSpec => []BytesAgree
<1>1. MemInv => BytesAgree
  BY DEF MemInv
<1> QED
  BY <1>1, MemInvariant, PTL

-----------------------------------------------------------------------------
(* The list of pages. *)

\* Where a table's entry is, among the addresses the table maps.
LEMMA SlotAt ==
  ASSUME NEW l \in 1 .. 4, NEW base \in Nat, base % (Fanout * SizeOf(l)) = 0,
         NEW s \in Slots, NEW r \in Nat, r < SizeOf(l),
         NEW w \in Nat, w = base + s * SizeOf(l)
  PROVE  /\ ((w + r) \div SizeOf(l)) % Fanout = s /\ (w + r) % SizeOf(l) = r
         /\ w % SizeOf(l) = 0
         /\ base <= w + r /\ w + r < base + Fanout * SizeOf(l)
<1>1. PICK z \in Nat \ {0} : z = SizeOf(l)
  BY Sizes
<1>2. Fanout \in Nat \ {0} /\ s \in Nat /\ s < Fanout
  BY Sizes DEF Slots
<1>3. PICK k \in Nat : base = k * (Fanout * z)
  <2>1. Fanout * z \in Nat \ {0}
    BY <1>1, <1>2, SMTT(30)
  <2> QED
    BY <1>1, <2>1, Multiple
<1>4. PICK q \in Nat : q = k * Fanout + s
  <2>1. k * Fanout \in Nat
    BY <1>2, SMTT(30)
  <2> QED
    BY <1>2, <2>1
<1>5. w = q * z
  <2>1. (k * Fanout + s) * z = k * (Fanout * z) + s * z
    BY <1>1, <1>2, SMTT(30)
  <2> QED
    BY <1>1, <1>3, <1>4, <2>1
<1>6. (w + r) \div z = q /\ (w + r) % z = r /\ w % z = 0
  <2>1. (q * z + r) \div z = q /\ (q * z + r) % z = r
    BY <1>1, DivModUnique
  <2>2. (q * z) % z = 0
    BY <1>1, MultMod
  <2> QED
    BY <1>5, <2>1, <2>2
<1>7. q % Fanout = s
  <2>1. (k * Fanout + s) % Fanout = s
    BY <1>2, DivModUnique
  <2> QED
    BY <1>4, <2>1
<1>8. base <= w + r /\ w + r < base + Fanout * z
  <2>1. s * z \in Nat /\ s * z + z <= Fanout * z
    <3>1. s + 1 <= Fanout
      BY <1>2
    <3>2. (s + 1) * z <= Fanout * z
      BY <1>1, <1>2, <3>1, SMTT(30)
    <3>3. (s + 1) * z = s * z + z /\ s * z \in Nat
      BY <1>1, <1>2, SMTT(30)
    <3> QED
      BY <3>2, <3>3
  <2>2. w = base + s * z
    BY <1>1
  <2>3. Fanout * z \in Nat
    BY <1>1, <1>2, SMTT(30)
  <2> QED
    BY <1>1, <2>1, <2>2, <2>3
<1> QED
  BY <1>1, <1>6, <1>7, <1>8

\* Every address the table maps is in a slot of it.
LEMMA InSlot ==
  ASSUME NEW l \in 1 .. 4, NEW base \in Nat, NEW v \in Nat,
         base <= v, v < base + Fanout * SizeOf(l)
  PROVE  \E s \in Slots, r \in Nat, w \in Nat :
           w = base + s * SizeOf(l) /\ r < SizeOf(l) /\ v = w + r
<1>1. PICK z \in Nat \ {0} : z = SizeOf(l)
  BY Sizes
<1>2. PICK x \in Nat : v = base + x /\ x < Fanout * z
  <2>1. Fanout * z \in Nat
    BY <1>1, Sizes, SMTT(30)
  <2> DEFINE x == v - base
  <2>2. x \in Nat /\ v = base + x /\ x < Fanout * z
    BY <1>1, <2>1
  <2> QED
    BY <2>2
<1>3. PICK s \in Nat, r \in Nat : x = s * z + r /\ r < z
  <2>1. x \div z \in Nat /\ x % z \in Nat /\ x % z < z /\ x = (x \div z) * z + (x % z)
    BY <1>1, DivMod
  <2> QED
    BY <2>1
<1>4. s \in Slots
  <2>1. Fanout \in Nat
    BY Sizes
  <2>2. s < Fanout
    <3> SUFFICES ASSUME s >= Fanout
                 PROVE  FALSE
      BY <2>1
    <3>1. s * z >= Fanout * z /\ s * z \in Nat /\ Fanout * z \in Nat
      BY <1>1, <2>1, SMTT(30)
    <3> QED
      BY <1>2, <1>3, <3>1
  <2> QED
    BY <2>1, <2>2 DEF Slots
<1>5. s * z \in Nat
  BY <1>1, SMTT(30)
<1> QED
  BY <1>1, <1>2, <1>3, <1>4, <1>5

\* The code has room for the entries looked at.
NarrowFrom(v, l, t) == mode = "pae" => \A pos \in PathFrom(v)[l][t] : Narrow(At(pos))

\* List and walk agree on the entries looked at.
ClearFrom(v, l, t) ==
  os_type = transition \/ \A pos \in PathFrom(v)[l][t] : ~(~At(pos).p /\ At(pos).tr)

\* A present entry on the way, its path and the code's reading of it.
LEMMA EntryReads ==
  ASSUME MemTypeOK, NEW l \in 1 .. 4, l <= Depth[mode], NEW t \in Frames, NEW s \in Slots,
         NEW v \in Nat, (v \div SizeOf(l)) % Fanout = s,
         NEW e, e = mem[t][s], EntryPresent(transition, e), NarrowFrom(v, l, t)
  PROVE  \E pos :
           /\ e = At(pos) /\ pos = Selected(v, l, t) /\ Present(e)
           /\ PlaceFrom(v)[l][t] = PlaceAt(v, l, t) /\ PathFrom(v)[l][t] = PathAt(v, l, t)
           /\ MapsPage(l, e) <=> l = 1 \/ Large(l, e)
           /\ NextTable(l, e) = e.addr
           /\ MapsPage(l, e) =>
                PagePlus(l, e, v) = e.addr - (e.addr % SizeOf(l)) + (v % SizeOf(l))
<1>1. PICK pos : e = mem[t][s] /\ e = At(pos) /\ pos = Selected(v, l, t)
  BY DEF Selected, At
<1>2. PlaceFrom(v)[l][t] = PlaceAt(v, l, t) /\ PathFrom(v)[l][t] = PathAt(v, l, t)
  <2>1. t \in Nat
    BY MemoryAssumption DEF Frame
  <2> QED
    BY <2>1, PlaceUnfold, PathUnfold
<1>3. Present(e) /\ (MapsPage(l, e) <=> l = 1 \/ Large(l, e))
  BY <1>1, SameKind
<1>4. mode = "pae" => Narrow(e)
  <2>1. pos \in PathAt(v, l, t)
    BY <1>1 DEF PathAt
  <2> QED
    BY <1>1, <1>2, <2>1 DEF NarrowFrom
<1>5. /\ NextTable(l, e) = e.addr
      /\ MapsPage(l, e) => PagePlus(l, e, v) = e.addr - (e.addr % SizeOf(l)) + (v % SizeOf(l))
  <2>1. mode = "pae" => Narrow(mem[t][s])
    BY <1>1, <1>4
  <2>2. /\ NextTable(l, mem[t][s]) = mem[t][s].addr
        /\ MapsPage(l, mem[t][s]) =>
             PagePlus(l, mem[t][s], v)
               = mem[t][s].addr - (mem[t][s].addr % SizeOf(l)) + (v % SizeOf(l))
    BY <2>1, SameBits
  <2> QED
    BY <1>1, <2>2, Zenon
<1> QED
  BY <1>1, <1>2, <1>3, <1>5

\* One that maps a page is the walk's end.
LEMMA PageLeads ==
  ASSUME MemTypeOK, NEW l \in 1 .. 4, l <= Depth[mode], NEW t \in Frames, NEW s \in Slots,
         NEW v \in Nat, (v \div SizeOf(l)) % Fanout = s,
         NEW e, e = mem[t][s], EntryPresent(transition, e), NarrowFrom(v, l, t),
         MapsPage(l, e)
  PROVE  PlaceFrom(v)[l][t] = [ok |-> TRUE, pa |-> PagePlus(l, e, v), size |-> SizeOf(l)]
<1>1. PICK pos :
        /\ e = At(pos) /\ pos = Selected(v, l, t) /\ Present(e)
        /\ PlaceFrom(v)[l][t] = PlaceAt(v, l, t)
        /\ MapsPage(l, e) <=> l = 1 \/ Large(l, e)
        /\ PagePlus(l, e, v) = e.addr - (e.addr % SizeOf(l)) + (v % SizeOf(l))
  BY EntryReads
<1>2. ~(l > 1 /\ ~Large(l, e))
  BY <1>1
<1>3. PlaceAt(v, l, t) = [ok |-> TRUE, pa |-> e.addr - (e.addr % SizeOf(l)) + (v % SizeOf(l)),
                          size |-> SizeOf(l)]
  BY <1>1, <1>2, Zenon DEF PlaceAt
<1> QED
  BY <1>1, <1>3

\* Another leads to the next table.
LEMMA TableLeads ==
  ASSUME MemTypeOK, NEW l \in 1 .. 4, l <= Depth[mode], NEW t \in Frames, NEW s \in Slots,
         NEW v \in Nat, (v \div SizeOf(l)) % Fanout = s,
         NEW e, e = mem[t][s], EntryPresent(transition, e), NarrowFrom(v, l, t),
         ~MapsPage(l, e)
  PROVE  /\ NextTable(l, e) = e.addr
         /\ PlaceFrom(v)[l][t] = PlaceFrom(v)[l - 1][e.addr]
         /\ NarrowFrom(v, l - 1, e.addr)
<1>1. PICK pos :
        /\ e = At(pos) /\ pos = Selected(v, l, t) /\ Present(e)
        /\ PlaceFrom(v)[l][t] = PlaceAt(v, l, t) /\ PathFrom(v)[l][t] = PathAt(v, l, t)
        /\ MapsPage(l, e) <=> l = 1 \/ Large(l, e)
        /\ NextTable(l, e) = e.addr
  BY EntryReads
<1>2. l > 1 /\ ~Large(l, e)
  BY <1>1
<1>3. PlaceAt(v, l, t) = PlaceFrom(v)[l - 1][e.addr]
  BY <1>1, <1>2, Zenon DEF PlaceAt
<1>4. PathAt(v, l, t) = {pos} \cup PathFrom(v)[l - 1][e.addr]
  BY <1>1, <1>2, Zenon DEF PathAt
<1>5. NarrowFrom(v, l - 1, e.addr)
  BY <1>1, <1>4 DEF NarrowFrom
<1> QED
  BY <1>1, <1>3, <1>5

\* A page the list has at a level.
PageAt(l, e, v) ==
  [va |-> v, size |-> SizeOf(l), pa |-> IF mode = "legacy" /\ l = 2 THEN v ELSE PagePlus(l, e, v)]

\* It has every address of it where the walk finds it.
LEMMA PageShown ==
  ASSUME MemTypeOK, NEW l \in 1 .. 4, NEW e, e.addr \in Nat,
         NEW w \in Nat, NEW r \in Nat, r < SizeOf(l),
         w % SizeOf(l) = 0, (w + r) % SizeOf(l) = r
  PROVE  ShownAt(PageAt(l, e, w), w + r,
                 [ok |-> TRUE, pa |-> PagePlus(l, e, w + r), size |-> SizeOf(l)])
<1>1. SizeOf(l) \in Nat \ {0} /\ SizeOf(2) # PageSize
  BY Sizes
<1>2. PICK x : x = Bits(e.addr, SizeOf(l), PageLimit(l))
  OBVIOUS
<1>3. PagePlus(l, e, w) = x + 0 /\ PagePlus(l, e, w + r) = x + r /\ x \in Int
  <2>1. x \in Int
    <3>1. PageLimit(l) \in Nat \ {0}
      BY Limits DEF MemTypeOK
    <3>2. (e.addr \div SizeOf(l)) \in Nat
      BY <1>1, DivMod
    <3>3. (e.addr \div SizeOf(l)) * SizeOf(l) \in Nat
      BY <1>1, <3>2, SMTT(30)
    <3> QED
      BY <1>2, <3>1, <3>3, DivMod DEF Bits
  <2> QED
    BY <1>2, <2>1 DEF PagePlus
<1>4. PageAt(l, e, w).va = w /\ PageAt(l, e, w).size = SizeOf(l)
      /\ PageAt(l, e, w).pa = IF mode = "legacy" /\ l = 2 THEN w ELSE PagePlus(l, e, w)
  BY DEF PageAt
<1>5. ASSUME mode # "legacy" \/ SizeOf(l) = PageSize
      PROVE  PageAt(l, e, w).pa + ((w + r) - w) = PagePlus(l, e, w + r)
  BY <1>1, <1>3, <1>4, <1>5
<1>6. w <= w + r /\ w + r < w + SizeOf(l)
  BY <1>1
<1> QED
  BY <1>4, <1>5, <1>6, Zenon DEF ShownAt

\* A listed page is in the table's range, and where the walk finds it.
Sound(l) ==
  \A t, base \in Nat : base % (Fanout * SizeOf(l)) = 0 =>
    \A page \in ListFrom[l][t][base] :
      /\ page.va \in Nat /\ base <= page.va /\ page.va < base + Fanout * SizeOf(l)
      /\ NarrowFrom(page.va, l, t) /\ ClearFrom(page.va, l, t) =>
           /\ PlaceFrom(page.va)[l][t].ok
           /\ ShownAt(page, page.va, PlaceFrom(page.va)[l][t])

\* What the walk finds is listed.
Complete(l) ==
  \A t, base, v \in Nat :
    /\ base % (Fanout * SizeOf(l)) = 0 /\ base <= v /\ v < base + Fanout * SizeOf(l)
    /\ PlaceFrom(v)[l][t].ok /\ NarrowFrom(v, l, t) /\ ClearFrom(v, l, t)
    => \E page \in ListFrom[l][t][base] : ShownAt(page, v, PlaceFrom(v)[l][t])

\* Where they agree they take the same entries for present, and agree further on.
LEMMA SameAllowed ==
  ASSUME MemTypeOK, NEW l \in 1 .. 4, l <= Depth[mode], NEW t \in Frames, NEW s \in Slots,
         NEW v \in Nat, (v \div SizeOf(l)) % Fanout = s,
         NEW e, e = mem[t][s], ClearFrom(v, l, t)
  PROVE  /\ EntryPresent(ListAllowed(l), e) <=> EntryPresent(transition, e)
         /\ EntryPresent(transition, e) /\ ~MapsPage(l, e) => ClearFrom(v, l - 1, e.addr)
<1>1. PICK pos : e = At(pos) /\ pos = Selected(v, l, t)
  BY DEF Selected, At
<1>2. PathFrom(v)[l][t] = PathAt(v, l, t)
  <2>1. t \in Nat
    BY MemoryAssumption DEF Frame
  <2> QED
    BY <2>1, PathUnfold
<1>3. pos \in PathAt(v, l, t)
  BY <1>1 DEF PathAt
<1>4. CASE os_type = transition
  BY <1>4 DEF ListAllowed, ClearFrom
<1>5. CASE os_type # transition
  <2>1. ~(~e.p /\ e.tr)
    BY <1>1, <1>2, <1>3, <1>5 DEF ClearFrom
  <2>2. EntryPresent(ListAllowed(l), e) <=> EntryPresent(transition, e)
    BY <2>1 DEF EntryPresent
  <2>3. ASSUME EntryPresent(transition, e), ~MapsPage(l, e)
        PROVE  ClearFrom(v, l - 1, e.addr)
    <3>1. Present(e) /\ l > 1 /\ ~Large(l, e)
      <4>1. Present(e) /\ (MapsPage(l, e) <=> l = 1 \/ Large(l, e))
        BY <2>3, SameKind
      <4> QED
        BY <2>3, <4>1
    <3>2. PathAt(v, l, t) = {pos} \cup PathFrom(v)[l - 1][e.addr]
      BY <1>1, <3>1, Zenon DEF PathAt
    <3> QED
      BY <1>2, <3>2 DEF ClearFrom
  <2> QED
    BY <2>2, <2>3
<1> QED
  BY <1>4, <1>5

\* A table's list, slot by slot.
InList(l, t, base, page) ==
  \E s \in Slots :
    /\ EntryPresent(ListAllowed(l), mem[t][s])
    /\ MapsPage(l, mem[t][s]) => page = PageAt(l, mem[t][s], base + s * SizeOf(l))
    /\ ~MapsPage(l, mem[t][s]) =>
         page \in ListFrom[l - 1][NextTable(l, mem[t][s])][base + s * SizeOf(l)]

\* That is what the list is made of.
LEMMA InListIs ==
  ASSUME NEW l \in 1 .. 4, NEW t \in Nat, NEW base \in Nat, NEW page
  PROVE  page \in ListFrom[l][t][base] <=> t \in Frames /\ InList(l, t, base, page)
<1>1. ListFrom[l][t][base] = ListAt(l, t, base)
  BY ListUnfold
<1>2. CASE t \notin Frames
  <2>1. ListAt(l, t, base) = {}
    BY <1>2 DEF ListAt
  <2> QED
    BY <1>1, <1>2, <2>1
<1>3. CASE t \in Frames
  <2> DEFINE part(s) ==
        LET e == mem[t][s]
            v == base + s * SizeOf(l)
        IN IF ~EntryPresent(ListAllowed(l), e) THEN {}
           ELSE IF MapsPage(l, e)
           THEN {[va |-> v, size |-> SizeOf(l),
                  pa |-> IF mode = "legacy" /\ l = 2 THEN v ELSE PagePlus(l, e, v)]}
           ELSE ListFrom[l - 1][NextTable(l, e)][v]
  <2>1. ListAt(l, t, base) = UNION {part(s) : s \in Slots}
    BY <1>3, SMTT(30) DEF ListAt
  <2>2. ASSUME NEW s \in Slots
        PROVE  page \in part(s) <=>
                 /\ EntryPresent(ListAllowed(l), mem[t][s])
                 /\ MapsPage(l, mem[t][s]) => page = PageAt(l, mem[t][s], base + s * SizeOf(l))
                 /\ ~MapsPage(l, mem[t][s]) =>
                      page \in ListFrom[l - 1][NextTable(l, mem[t][s])][base + s * SizeOf(l)]
    <3>2. CASE ~EntryPresent(ListAllowed(l), mem[t][s])
      BY <3>2
    <3>3. CASE EntryPresent(ListAllowed(l), mem[t][s]) /\ MapsPage(l, mem[t][s])
      <4>1. part(s) = {PageAt(l, mem[t][s], base + s * SizeOf(l))}
        BY <3>3 DEF PageAt
      <4> HIDE DEF part
      <4> QED
        BY <3>3, <4>1
    <3>4. CASE EntryPresent(ListAllowed(l), mem[t][s]) /\ ~MapsPage(l, mem[t][s])
      <4>1. part(s) = ListFrom[l - 1][NextTable(l, mem[t][s])][base + s * SizeOf(l)]
        BY <3>4
      <4> HIDE DEF part
      <4> QED
        BY <3>4, <4>1
    <3> QED
      BY <3>2, <3>3, <3>4
  <2> HIDE DEF part
  <2> QED
    BY <1>1, <1>3, <2>1, <2>2 DEF InList
<1> QED
  BY <1>2, <1>3

\* A table's pages are where the walk finds them if the next table's are.
LEMMA SoundAbove ==
  ASSUME MemTypeOK, NEW l \in 1 .. 4, l <= Depth[mode],
         l > 1 => Sound(l - 1)
  PROVE  Sound(l)
<1> SUFFICES ASSUME NEW t \in Nat, NEW base \in Nat, base % (Fanout * SizeOf(l)) = 0,
                    NEW page \in ListFrom[l][t][base]
             PROVE  /\ page.va \in Nat /\ base <= page.va /\ page.va < base + Fanout * SizeOf(l)
                    /\ NarrowFrom(page.va, l, t) /\ ClearFrom(page.va, l, t) =>
                         /\ PlaceFrom(page.va)[l][t].ok
                         /\ ShownAt(page, page.va, PlaceFrom(page.va)[l][t])
  BY DEF Sound
<1>1. t \in Frames /\ InList(l, t, base, page)
  BY InListIs
<1>2. PICK s \in Slots :
        /\ EntryPresent(ListAllowed(l), mem[t][s])
        /\ MapsPage(l, mem[t][s]) => page = PageAt(l, mem[t][s], base + s * SizeOf(l))
        /\ ~MapsPage(l, mem[t][s]) =>
             page \in ListFrom[l - 1][NextTable(l, mem[t][s])][base + s * SizeOf(l)]
  BY <1>1 DEF InList
<1>3. PICK z \in Nat \ {0}, e \in Entry :
        e = mem[t][s] /\ z = SizeOf(l) /\ e.addr \in Nat
  <2>1. mem[t][s] \in Entry /\ mem[t][s].addr \in Nat
    BY <1>1, EntryIn
  <2>2. SizeOf(l) \in Nat \ {0}
    BY Sizes
  <2> QED
    BY <2>1, <2>2
<1>4. PICK w \in Nat : w = base + s * SizeOf(l)
  <2>1. s * z \in Nat
    BY <1>3, Sizes, SMTT(30) DEF Slots
  <2> QED
    BY <1>3, <2>1
<1>5. ASSUME NEW r \in Nat, r < z
      PROVE  /\ ((w + r) \div SizeOf(l)) % Fanout = s /\ (w + r) % SizeOf(l) = r
             /\ w % SizeOf(l) = 0
             /\ base <= w + r /\ w + r < base + Fanout * SizeOf(l)
  BY <1>3, <1>4, <1>5, SlotAt
<1>6. CASE MapsPage(l, e)
  <2>1. page = PageAt(l, e, w) /\ page.va = w + 0 /\ w + 0 = w
    BY <1>2, <1>3, <1>4, <1>6 DEF PageAt
  <2>2. /\ (w \div SizeOf(l)) % Fanout = s /\ w % SizeOf(l) = 0
        /\ base <= w /\ w < base + Fanout * SizeOf(l)
    <3>1. 0 \in Nat /\ 0 < z
      BY <1>3
    <3> QED
      BY <1>5, <2>1, <3>1
  <2>3. ASSUME NarrowFrom(w, l, t), ClearFrom(w, l, t)
        PROVE  PlaceFrom(w)[l][t] = [ok |-> TRUE, pa |-> PagePlus(l, e, w), size |-> SizeOf(l)]
    <3>1. EntryPresent(transition, e)
      BY <1>1, <1>2, <1>3, <2>2, <2>3, SameAllowed
    <3> QED
      BY <1>1, <1>2, <1>3, <1>6, <2>2, <2>3, <3>1, PageLeads
  <2>4. ShownAt(page, w, [ok |-> TRUE, pa |-> PagePlus(l, e, w), size |-> SizeOf(l)])
    <3>1. 0 \in Nat /\ 0 < SizeOf(l)
      BY <1>3
    <3>2. ShownAt(PageAt(l, e, w), w + 0,
                  [ok |-> TRUE, pa |-> PagePlus(l, e, w + 0), size |-> SizeOf(l)])
      BY <1>3, <2>1, <2>2, <3>1, PageShown
    <3> QED
      BY <2>1, <3>2
  <2> QED
    BY <2>1, <2>2, <2>3, <2>4
<1>7. CASE ~MapsPage(l, e)
  <2>1. l > 1 /\ l - 1 \in 1 .. 4 /\ l \in 2 .. 4
    BY <1>7 DEF MapsPage
  <2>2. SizeOf(l) = Fanout * SizeOf(l - 1)
    BY <2>1, Sizes
  <2>3. PICK n \in Nat : n = NextTable(l, e) /\ page \in ListFrom[l - 1][n][w]
    BY <1>1, <1>2, <1>3, <1>4, <1>7, Offsets
  <2>4. w % (Fanout * SizeOf(l - 1)) = 0
    <3>1. 0 \in Nat /\ 0 < z
      BY <1>3
    <3> QED
      BY <1>5, <2>2, <3>1
  <2>5. /\ page.va \in Nat /\ w <= page.va /\ page.va < w + z
        /\ NarrowFrom(page.va, l - 1, n) /\ ClearFrom(page.va, l - 1, n) =>
             /\ PlaceFrom(page.va)[l - 1][n].ok
             /\ ShownAt(page, page.va, PlaceFrom(page.va)[l - 1][n])
    BY <1>3, <2>1, <2>2, <2>3, <2>4 DEF Sound
  <2>6. PICK r \in Nat : r < z /\ page.va = w + r
    <3>1. page.va - w \in Nat /\ page.va - w < z /\ page.va = w + (page.va - w)
      BY <1>3, <2>5
    <3> QED
      BY <3>1
  <2>7. /\ (page.va \div SizeOf(l)) % Fanout = s
        /\ base <= page.va /\ page.va < base + Fanout * SizeOf(l)
    BY <1>5, <2>6
  <2>8. ASSUME NarrowFrom(page.va, l, t), ClearFrom(page.va, l, t)
        PROVE  /\ PlaceFrom(page.va)[l][t] = PlaceFrom(page.va)[l - 1][n]
               /\ NarrowFrom(page.va, l - 1, n) /\ ClearFrom(page.va, l - 1, n)
    <3>0. /\ t \in Frames /\ e = mem[t][s] /\ page.va \in Nat
          /\ (page.va \div SizeOf(l)) % Fanout = s
      BY <1>1, <1>2, <1>3, <2>5, <2>7
    <3>1. EntryPresent(transition, e) /\ ClearFrom(page.va, l - 1, e.addr)
      BY <1>2, <1>3, <1>7, <2>8, <3>0, SameAllowed
    <3>2. /\ NextTable(l, e) = e.addr
          /\ PlaceFrom(page.va)[l][t] = PlaceFrom(page.va)[l - 1][e.addr]
          /\ NarrowFrom(page.va, l - 1, e.addr)
      BY <1>7, <2>8, <3>0, <3>1, TableLeads, SMTT(30)
    <3> QED
      BY <2>3, <3>1, <3>2
  <2> QED
    BY <2>5, <2>7, <2>8
<1> QED
  BY <1>6, <1>7

\* What the walk finds from a table is in its list if the next table's is.
LEMMA CompleteAbove ==
  ASSUME MemTypeOK, NEW l \in 1 .. 4, l <= Depth[mode],
         l > 1 => Complete(l - 1)
  PROVE  Complete(l)
<1> SUFFICES ASSUME NEW t \in Nat, NEW base \in Nat, NEW v \in Nat,
                    base % (Fanout * SizeOf(l)) = 0, base <= v, v < base + Fanout * SizeOf(l),
                    PlaceFrom(v)[l][t].ok, NarrowFrom(v, l, t), ClearFrom(v, l, t)
             PROVE  \E page \in ListFrom[l][t][base] : ShownAt(page, v, PlaceFrom(v)[l][t])
  BY DEF Complete
<1>1. PICK s \in Slots, r \in Nat, w \in Nat :
        w = base + s * SizeOf(l) /\ r < SizeOf(l) /\ v = w + r
  BY InSlot
<1>2. (v \div SizeOf(l)) % Fanout = s /\ v % SizeOf(l) = r /\ w % SizeOf(l) = 0
  BY <1>1, SlotAt
<1>3. PlaceFrom(v)[l][t] = PlaceAt(v, l, t)
  BY PlaceUnfold
<1>4. t \in Frames
  BY <1>3 DEF PlaceAt, Nowhere
<1>5. PICK e \in Entry : e = mem[t][s] /\ e = At(Selected(v, l, t)) /\ e.addr \in Nat
  <2>1. mem[t][s] \in Entry /\ mem[t][s].addr \in Nat
    BY <1>4, EntryIn
  <2> QED
    BY <1>2, <2>1 DEF At, Selected
<1>6. /\ EntryPresent(transition, e) /\ EntryPresent(ListAllowed(l), e)
      /\ ~MapsPage(l, e) => ClearFrom(v, l - 1, e.addr)
  <2>1. Present(e)
    BY <1>3, <1>4, <1>5 DEF PlaceAt, Nowhere
  <2>2. EntryPresent(transition, e)
    BY <2>1 DEF Present, EntryPresent
  <2> QED
    BY <1>2, <1>4, <1>5, <2>2, SameAllowed
<1>7. CASE MapsPage(l, e)
  <2>1. PageAt(l, e, w) \in ListFrom[l][t][base]
    <3>1. InList(l, t, base, PageAt(l, e, w))
      BY <1>1, <1>5, <1>6, <1>7 DEF InList
    <3> QED
      BY <1>4, <3>1, InListIs
  <2>2. PlaceFrom(v)[l][t] = [ok |-> TRUE, pa |-> PagePlus(l, e, v), size |-> SizeOf(l)]
    <3>1. t \in Frames /\ (v \div SizeOf(l)) % Fanout = s /\ e = mem[t][s]
      BY <1>2, <1>4, <1>5
    <3> QED
      BY <1>6, <1>7, <3>1, PageLeads
  <2>3. ShownAt(PageAt(l, e, w), w + r,
                [ok |-> TRUE, pa |-> PagePlus(l, e, w + r), size |-> SizeOf(l)])
    BY <1>1, <1>2, <1>5, PageShown
  <2> QED
    BY <1>1, <2>1, <2>2, <2>3
<1>8. CASE ~MapsPage(l, e)
  <2>1. l > 1 /\ l - 1 \in 1 .. 4 /\ l \in 2 .. 4
    BY <1>8 DEF MapsPage
  <2>2. SizeOf(l) = Fanout * SizeOf(l - 1)
    BY <2>1, Sizes
  <2>3. /\ NextTable(l, e) = e.addr
        /\ PlaceFrom(v)[l][t] = PlaceFrom(v)[l - 1][e.addr]
        /\ NarrowFrom(v, l - 1, e.addr)
    <3>1. t \in Frames /\ (v \div SizeOf(l)) % Fanout = s /\ e = mem[t][s]
      BY <1>2, <1>4, <1>5
    <3> QED
      BY <1>6, <1>8, <3>1, TableLeads
  <2>4. PICK n \in Nat : n = e.addr
    BY <1>5
  <2>5. w <= v /\ v < w + Fanout * SizeOf(l - 1) /\ w % (Fanout * SizeOf(l - 1)) = 0
    <3>1. SizeOf(l) \in Nat
      BY Sizes
    <3>2. w <= v /\ v < w + SizeOf(l) /\ w % SizeOf(l) = 0
      BY <1>1, <1>2, <3>1
    <3> QED
      BY <2>2, <3>2
  <2>6. PICK page \in ListFrom[l - 1][n][w] : ShownAt(page, v, PlaceFrom(v)[l - 1][n])
    <3>1. /\ PlaceFrom(v)[l - 1][n].ok /\ NarrowFrom(v, l - 1, n) /\ ClearFrom(v, l - 1, n)
          /\ Complete(l - 1)
      BY <1>6, <1>8, <2>1, <2>3, <2>4
    <3> QED
      BY <2>5, <3>1 DEF Complete
  <2>7. page \in ListFrom[l][t][base]
    <3>1. InList(l, t, base, page)
      BY <1>1, <1>5, <1>6, <1>8, <2>3, <2>4, <2>6 DEF InList
    <3> QED
      BY <1>4, <3>1, InListIs
  <2> QED
    BY <2>3, <2>4, <2>6, <2>7
<1> QED
  BY <1>7, <1>8

\* The list agrees with the walk in every state.
LEMMA ListRight == MemTypeOK => ListAgrees
<1> SUFFICES ASSUME MemTypeOK
             PROVE  /\ \A page \in Listed :
                         Fits(page.va) /\ ~Doubtful(page.va) =>
                           Translate(page.va).ok /\ ShownAt(page, page.va, Translate(page.va))
                    /\ \A v \in 0 .. Fanout * SizeOf(Depth[mode]) - 1 :
                         Translate(v).ok /\ Fits(v) /\ ~Doubtful(v) =>
                           \E page \in Listed : ShownAt(page, v, Translate(v))
  BY Zenon DEF ListAgrees
<1>1. PICK d \in 1 .. 4 : d = Depth[mode]
  BY RootOnPath
<1>2. ASSUME NEW l \in 1 .. d, l > 1 => Sound(l - 1) /\ Complete(l - 1)
      PROVE  Sound(l) /\ Complete(l)
  BY <1>1, <1>2, SoundAbove, CompleteAbove
<1>3. Sound(d) /\ Complete(d)
  <2>1. Sound(1) /\ Complete(1)
    BY <1>2
  <2>2. d >= 2 => Sound(2) /\ Complete(2)
    BY <1>2, <2>1
  <2>3. d >= 3 => Sound(3) /\ Complete(3)
    BY <1>2, <2>2
  <2>4. d >= 4 => Sound(4) /\ Complete(4)
    BY <1>2, <2>3
  <2>5. d = 1 \/ d = 2 \/ d = 3 \/ d = 4
    OBVIOUS
  <2> QED
    BY <2>1, <2>2, <2>3, <2>4, <2>5
<1>4. /\ Listed = ListFrom[d][Dtb][0] /\ Dtb \in Nat /\ 0 \in Nat
      /\ 0 % (Fanout * SizeOf(d)) = 0 /\ Fanout * SizeOf(d) \in Nat
  <2>1. PICK z \in Nat \ {0} : z = Fanout * SizeOf(d)
    <3>1. SizeOf(d) \in Nat \ {0} /\ Fanout \in Nat \ {0}
      BY Sizes
    <3>2. Fanout * SizeOf(d) \in Nat \ {0}
      BY <3>1, SMTT(30)
    <3> QED
      BY <3>2
  <2>2. 0 % z = 0
    BY <2>1, DivMod
  <2> QED
    BY <1>1, <2>1, <2>2, RootOnPath DEF Listed
<1>5. ASSUME NEW v
      PROVE  /\ Translate(v) = PlaceFrom(v)[d][Dtb]
             /\ Fits(v) <=> NarrowFrom(v, d, Dtb)
             /\ ~Doubtful(v) <=> ClearFrom(v, d, Dtb)
  <2>1. PathTo(v) = PathFrom(v)[d][Dtb] /\ Translate(v) = PlaceFrom(v)[d][Dtb]
    BY <1>1 DEF Translate, PathTo
  <2>2. Fits(v) <=> NarrowFrom(v, d, Dtb)
    BY <2>1 DEF Fits, NarrowFrom
  <2>3. ~Doubtful(v) <=> ClearFrom(v, d, Dtb)
    BY <2>1 DEF Doubtful, ClearFrom
  <2> QED
    BY <2>1, <2>2, <2>3
<1>6. ASSUME NEW page \in Listed, Fits(page.va), ~Doubtful(page.va)
      PROVE  Translate(page.va).ok /\ ShownAt(page, page.va, Translate(page.va))
  BY <1>3, <1>4, <1>5, <1>6 DEF Sound
<1>7. ASSUME NEW v \in 0 .. Fanout * SizeOf(Depth[mode]) - 1, Translate(v).ok, Fits(v),
             ~Doubtful(v)
      PROVE  \E page \in Listed : ShownAt(page, v, Translate(v))
  <2>1. v \in Nat /\ 0 <= v /\ v < 0 + Fanout * SizeOf(d)
    BY <1>1, <1>4
  <2> QED
    BY <1>3, <1>4, <1>5, <1>7, <2>1, ZenonT(60) DEF Complete
<1> QED
  BY <1>6, <1>7

(***************************************************************************)
(* In every state of the tables get_va_pages_* list what the walks find    *)
(* and nothing else, but for pages behind an entry in transition where     *)
(* os_type and transition_pages differ: there a Linux guest, and Windows   *)
(* in its initialisation, has absent pages listed (intel.c:415).           *)
(***************************************************************************)
THEOREM ListIsRight == MemSpec => []ListAgrees
<1>1. MemInv => ListAgrees
  BY ListRight DEF MemInv
<1> QED
  BY <1>1, MemInvariant, PTL
=============================================================================
