----------------------------- MODULE MemoryCache -----------------------------
(***************************************************************************)
(* The page cache between the read functions and the hypervisor:           *)
(* driver/tiny_memory_cache.c as driver/xen/xen.c uses it.  Every page     *)
(* that is read is mapped into LibVMI's address space and stays mapped     *)
(* while the cache holds it; xen_put_memory writes through mappings of its *)
(* own and then drops the cached one.                                      *)
(*                                                                         *)
(* Xen passes the age limit 0, so a hit never refreshes the entry (the     *)
(* branch of validate_and_return_data that does is not reachable).         *)
(* Addresses are page numbers; a request that is not page aligned is       *)
(* refused and changes nothing.                                            *)
(***************************************************************************)
EXTENDS Integers, Sequences, FiniteSets, SequencesExt

CONSTANTS
  NumPages,  \* pages the user asks for or writes
  MaxPage,   \* vmi->max_physical_address, in pages (the guest is an HVM guest)
  SizeMax,   \* vmi->memory_cache_size_max
  Mappings,  \* addresses a mapping may be given
  NoData,    \* the null pointer get_data_callback returns when mapping fails
  None,
  MayFail,   \* allocations of memory_cache_insert that may fail
  MaxFrame   \* bound on the frames a page moves through

Pages == 0 .. NumPages - 1

Shown == [page : Pages, frame : 0 .. MaxFrame]

ASSUME SizeAssumption == /\ NumPages \in Nat \ {0}
                         /\ MaxPage \in Nat
                         /\ SizeMax \in Nat \ {0}
                         /\ MaxFrame \in Nat
                         /\ MayFail \subseteq {"entry", "key", "key2"}
ASSUME NullAssumption == /\ NoData \notin Mappings
                         /\ None \notin Mappings
                         /\ None # NoData
                         /\ None \notin Shown

VARIABLES
  memory_cache,      \* data of the entry of each page, None without an entry
  memory_cache_lru,  \* the queue of keys, head first
  mapped,            \* what each mapping shows: a page in the frame it had then
  frame,             \* the machine frame that holds each page now
  read,              \* the pointer the caller of vmi_read_page is copying from
  put,               \* pages xen_put_memory still has to write
  leaked,            \* history: mappings an insertion left behind when it failed
  unqueued           \* history: pages whose last insertion could not queue the key

lost == <<leaked, unqueued>>
vars == <<memory_cache, memory_cache_lru, mapped, frame, read, put, lost>>

Cached == {p \in Pages : memory_cache[p] # None}

\* Mutant: the entries go, their mappings stay.
FreeEntries_Leak(pages) ==
  /\ memory_cache' = [p \in Pages |-> IF p \in pages THEN None ELSE memory_cache[p]]
  /\ mapped' = mapped

\* memory_cache_entry_free of the entries of some pages: their data is unmapped.
FreeEntries(pages) ==
  /\ memory_cache' = [p \in Pages |-> IF p \in pages THEN None ELSE memory_cache[p]]
  /\ mapped' = [m \in Mappings |-> IF m \in {memory_cache[p] : p \in pages}
                                   THEN None ELSE mapped[m]]

Missing(p) == put = <<>> /\ memory_cache[p] = None

-----------------------------------------------------------------------------
Init ==
  /\ memory_cache = [p \in Pages |-> None]
  /\ memory_cache_lru = <<>>
  /\ mapped = [m \in Mappings |-> None]
  /\ frame = [p \in Pages |-> 0]
  /\ read = None
  /\ put = <<>>
  /\ leaked = {} /\ unqueued = {}

\* memory_cache_insert finds the page, validate_and_return_data returns its data.
Hit(p) ==
  /\ put = <<>>
  /\ memory_cache[p] # None
  /\ read' = [page |-> p, data |-> memory_cache[p]]
  /\ UNCHANGED <<memory_cache, memory_cache_lru, mapped, frame, put, lost>>

\* Mutant: the clean-up starts only when the queue has passed its limit.
Kept_OffByOne == IF Len(memory_cache_lru) > SizeMax
                 THEN SubSeq(memory_cache_lru, 1, SizeMax \div 2)
                 ELSE memory_cache_lru

\* The queue after clean_cache, which runs when it has reached its limit.
Kept == IF Len(memory_cache_lru) >= SizeMax
        THEN SubSeq(memory_cache_lru, 1, SizeMax \div 2)
        ELSE memory_cache_lru

\* The keys clean_cache pops; each removes the entry of its page, if there is one.
Popped == {memory_cache_lru[i] : i \in Len(Kept) + 1 .. Len(memory_cache_lru)}

\* Where a page can be mapped once the popped entries are freed.
Unmapped == {m \in Mappings : mapped[m] = None \/ \E p \in Popped : memory_cache[p] = m}

\* memory_cache_insert cleans up, but there is no entry for p: it is beyond the guest's
\* memory, or the entry cannot be allocated.
NoEntry(p) ==
  /\ Missing(p)
  /\ p + 1 > MaxPage \/ "entry" \in MayFail
  /\ FreeEntries(Popped)
  /\ memory_cache_lru' = Kept
  /\ read' = [page |-> p, data |-> NoData]
  /\ UNCHANGED <<frame, put, lost>>

\* The popped entries are freed, p is mapped at data, and p has the given entry.
Map(p, data, entry) ==
  /\ memory_cache' = [q \in Pages |-> IF q = p THEN entry
                                      ELSE IF q \in Popped THEN None ELSE memory_cache[q]]
  /\ mapped' = [m \in Mappings |->
                  IF m = data THEN [page |-> p, frame |-> frame[p]]
                  ELSE IF m \in {memory_cache[q] : q \in Popped} THEN None ELSE mapped[m]]

\* The key of the table cannot be allocated: entry and mapping are left behind.
NoKey(p) ==
  /\ Missing(p)
  /\ p + 1 <= MaxPage
  /\ "key" \in MayFail
  /\ \E data \in Unmapped \cup {NoData} :
       /\ Map(p, data, None)
       /\ leaked' = leaked \cup ({data} \ {NoData})
  /\ memory_cache_lru' = Kept
  /\ read' = [page |-> p, data |-> NoData]
  /\ UNCHANGED <<frame, put, unqueued>>

\* The key of the queue cannot be allocated: the entry is in the table only.
NoQueueKey(p) ==
  /\ Missing(p)
  /\ p + 1 <= MaxPage
  /\ "key2" \in MayFail
  /\ \E data \in Unmapped \cup {NoData} : Map(p, data, data)
  /\ memory_cache_lru' = Kept
  /\ unqueued' = unqueued \cup {p}
  /\ read' = [page |-> p, data |-> NoData]
  /\ UNCHANGED <<frame, put, leaked>>

\* Mutant: the key is not queued.
Push_Not(p) == Kept

\* g_queue_push_head, also when an older key of the page is still queued.
Push(p) == <<p>> \o Kept

\* memory_cache_insert does not find the page: clean up, map it, insert the entry.  An
\* entry is made, and stays, for a page that could not be mapped, too.
Insert(p) ==
  /\ Missing(p)
  /\ p + 1 <= MaxPage
  /\ \E data \in Unmapped \cup {NoData} :
       /\ Map(p, data, data)
       /\ read' = [page |-> p, data |-> data]
  /\ memory_cache_lru' = Push(p)
  /\ unqueued' = unqueued \ {p}
  /\ UNCHANGED <<frame, put, leaked>>

\* xen_put_memory is called for the pages from first to last.
PutMemory(first, last) ==
  /\ put = <<>>
  /\ first <= last
  /\ put' = [i \in 1 .. last - first + 1 |-> first + i - 1]
  /\ read' = None
  /\ UNCHANGED <<memory_cache, memory_cache_lru, mapped, frame, lost>>

\* xen_get_memory_pfn fails for the next page: VMI_FAILURE, the pages before are written.
PutFails ==
  /\ put # <<>>
  /\ put' = <<>>
  /\ UNCHANGED <<memory_cache, memory_cache_lru, mapped, frame, read, lost>>

\* Mutant: xen_put_memory keeps the cached mapping.
memory_cache_remove_None(p) == UNCHANGED <<memory_cache, mapped>>

\* The entry goes, the key stays in the queue.
memory_cache_remove(p) == FreeEntries({p})

\* One page is written through a mapping of its own, released again.  If the page was
\* shared copy-on-write, it has another frame from now on.
PutPage ==
  /\ put # <<>>
  /\ \/ frame' = frame
     \/ frame[Head(put)] < MaxFrame /\ frame' = [frame EXCEPT ![Head(put)] = @ + 1]
  /\ memory_cache_remove(Head(put))
  /\ put' = Tail(put)
  /\ UNCHANGED <<memory_cache_lru, read, lost>>

\* vmi_destroy: memory_cache_destroy frees the keys, then the entries.
memory_cache_destroy ==
  /\ put = <<>>
  /\ FreeEntries(Pages)
  /\ memory_cache_lru' = <<>>
  /\ read' = None
  /\ UNCHANGED <<frame, put, lost>>

Next ==
  \/ \E p \in Pages : Hit(p) \/ NoEntry(p) \/ NoKey(p) \/ NoQueueKey(p) \/ Insert(p)
  \/ \E first, last \in Pages : PutMemory(first, last)
  \/ PutFails
  \/ PutPage
  \/ memory_cache_destroy

Spec == Init /\ [][Next]_vars

-----------------------------------------------------------------------------
\* The variables have their types.
TypeOK ==
  /\ memory_cache \in [Pages -> Mappings \cup {NoData, None}]
  /\ memory_cache_lru \in Seq(Pages)
  /\ mapped \in [Mappings -> Shown \cup {None}]
  /\ frame \in [Pages -> 0 .. MaxFrame]
  /\ read \in [page : Pages, data : Mappings \cup {NoData}] \cup {None}
  /\ put \in Seq(Pages)
  /\ leaked \subseteq Mappings
  /\ unqueued \subseteq Pages

\* What a caller of vmi_read_page copies from is the page it asked for, mapped, in the
\* frame the page has now: no write left an older mapping behind, no clean-up took it.
ReadsCurrent ==
  read # None /\ read.data # NoData =>
    mapped[read.data] = [page |-> read.page, frame |-> frame[read.page]]

\* Each entry's mapping shows the entry's own page in the frame the page has now.  So no
\* two entries share a mapping, and none is unmapped twice.
EntriesCurrent ==
  \A p \in Cached : memory_cache[p] # NoData =>
     mapped[memory_cache[p]] = [page |-> p, frame |-> frame[p]]

\* Every mapping belongs to an entry, which unmaps it when the entry goes; only an
\* insertion that could not allocate the key leaves one behind.
NoLeak ==
  \A m \in Mappings \ leaked : mapped[m] # None => \E p \in Pages : memory_cache[p] = m

\* The clean-up can reach every entry, for the queue has a key of its page, unless that
\* key could not be allocated.
Evictable == \A p \in Cached \ unqueued : p \in ToSet(memory_cache_lru)

\* The queue, and with it the number of pages that are kept mapped, stays within the limit
\* however many keys of dropped entries the queue holds.
Bounded == Len(memory_cache_lru) <= SizeMax /\ Cardinality(Cached \ unqueued) <= SizeMax
=============================================================================
