# TinyVMI in TLA+

TinyVMI is LibVMI 0.11 ported to Xen's MiniOS: a single-threaded library with which
one domain watches another.  It reads the guest's memory, translates its addresses
through caches, and receives the events (page accesses, single steps, ...) that Xen
reports while the guest's virtual CPUs run concurrently.  This directory holds TLA+
modules translated from `src/`, TLC configurations that check them on small instances,
and TLAPS proofs of the properties that matter most.

    tlc -config Step.cfg MCEventListener       # one run; PROJECT.json lists them all
    tlapm EventListener_proofs.tla             # the proofs of one component

## 1. Inventory

| component | state | operations | interacts with |
|---|---|---|---|
| event tables, `events.c` | hash tables by page, vCPU, register, interrupt; lists of steps and swaps; table of deferred clears; `step_vcpus`, `event_callback` | register, clear, swap, step, listen; `step_and_reg_events`; `clear_events_full` | event driver (hypercalls), user callbacks |
| Xen event driver, `driver/xen/xen_events_48.c` | the ring page's indices, the event channel, `monitor_*_on` switches | `process_requests` and one handler per reason; start/stop/shutdown of single-stepping; `xen_events_listen_48`; init, destroy | ring shared with Xen; tables of `events.c` |
| Xen, guest vCPUs (external) | trapped accesses, monitor trap flags, pause, blocked vCPUs | trap and block, consume responses and resume | the ring, concurrently with everything |
| older event drivers, `xen_events_46.c`, `xen_events_legacy.c` | same | same | chosen by Xen version at start |
| Xen driver, `driver/xen/xen.c` | handles, domain id, page mappings | map, write, pause, resume, registers, domain lookup | page cache, XenStore, hypercalls |
| page cache, `driver/tiny_memory_cache.c` | hash table of mappings, LRU queue | insert (lookup), remove, trim, refresh, destroy | `xen.c` maps and unmaps |
| address caches, `cache.c`; translation, `accessors.c` | pid -> dtb; (dtb, va) -> pa; (base, pid) -> symbol -> va; (base, dtb) -> rva -> symbol | get, set, del, flush; `vmi_translate_*`, `vmi_pagetable_lookup*` | hash table, page walks, page cache |
| hash table, `tiny_glib/hash.c`, `hashtable.c` | buckets of chains, counts, sizes | insert, replace, remove, foreach_remove, remove_all, resize | every cache, every event table |
| lists and queues, `tiny_glib/*` | linked lists | GLib's | swap and step lists, LRU queue |
| page walks, `arch/*.c` | none | IA-32e, PAE, legacy, ARM lookups | `read.c` |
| reads and writes, `read.c`, `memory.c` (OS) | none | page by page copy loops | translation, page cache |
| OS layers, `os/*` | offsets, kernel base, task list heads | process and symbol lookup, KDBG search | reads |
| init and teardown, `tiny_core.c` | the instance | `vmi_init*`, `vmi_destroy` | all of the above |
| configuration parser, `config/*` | | generated by bison and flex | init |

What is hard here, and what each component owes its users:

* **Event delivery.**  While the library handles one request every other vCPU may put
  another on the ring; callbacks remove, replace and step events whose requests are
  already there.  `clear` and `swap` from a callback are therefore deferred until the
  domain is paused and the ring drained.  Owed: every request finds its handler, every
  blocked vCPU gets exactly one answer and is let go, what Xen traps is what the tables
  say, free routines run once and leave nothing behind.
* **Stepping.**  `vmi_step_event` takes an event off for some instructions and puts it
  back: a list of wrappers, a counter per vCPU and a deferred clear of the internal
  single-step event must agree at all times.  Owed: a vCPU single-steps exactly while
  an event is being stepped on it, and the event comes back.
* **Failing hypercalls** half-way through an operation.
* **Caches** whose entries own memory (mappings, table values) and whose contents the
  guest changes without telling.  Owed: no entry refers to freed memory, everything
  mapped is unmapped once, sizes stay bounded, entries were true when they were made.
* **Arithmetic**: page offsets, bits of page table entries, ring indices modulo 2^32.
* **Teardown** with requests still on the ring.

`PROJECT.json` lists every component and, under `hazards`, each hazard at its line.

## 2. Plan

Order of work, the most important behaviour first:

1. `EventListener` with the abstract `TrapDelivery`: events.c and the listen loop for
   memory events and stepping.  Done, with proofs of every invariant and of the
   refinement.
2. `MemoryCache`: the page cache, its queue of keys and the mappings it owns.  Done, with
   proofs of every invariant.
3. `Translation`: pid and v2p caches with the memory their entries own, the lookups of
   `accessors.c`, and a guest that changes its tables and processes.  Done, with proofs of
   every invariant.
4. `TinyHash`, implementing the abstract `FiniteMap`: chains, counts, sizes, the memory of
   keys and values.  Done, with proofs of every property.
5. `EventRing`, implementing the abstract `EventQueue`: indices modulo their width, the
   event channel, what a return value means.  Done, with proofs of every safety property
   and of the refinement.
6. `MonitorEvents`: the events that are neither on a page nor steps, and their switches in
   the driver.  Done, with proofs of both invariants.
7. `Lifecycle`: init by stages, destroy with requests on the ring, several instances of one
   domain.  Done, with proofs of both invariants.
8. `GuestMemory`: page walks against a reference definition, the copy loops of `read.c`.
   Done, with proofs of every property.
9. `TaskList`: the searches of the process lists of a running guest.  Done, with proofs of
   both invariants.

How they compose.  `EventListener` and `MonitorEvents` are two halves of `events.c` and
of the handlers of `xen_events_48.c`, split by the tables they touch; both treat the ring as
a sequence and its end as one step, which is what `EventRing` shows of the indices.
`Lifecycle` has the one ring of a domain and its pause count shared by instances.
`Translation` takes a walk as one step, `GuestMemory` shows what a walk is when the guest
writes meanwhile, `MemoryCache` is below the reads of both.  All caches and tables use
`TinyHash` as the finite map it implements, with the answer of `g_hash_table_insert` that
`Translation` depends on.

Next: what of `SteppingRight` and `Bookkeeping` holds with swaps queued (section 3 says why
the proofs suppose none).  To model still: symbol and rva caches, the user's own single-step
events.

## 3. EventListener

### State and actions

The module's variables carry the source's names where there is one: `mem_events_on_gfn`,
`ss_events`, `step_events`, `step_vcpus`, `clear_events` (split into the user's events and
the internal single-step events, `clear_steps`), `swap_events`, `monitor_singlestep_on`.
`pc` is the position of the library's only thread; `req`, `reg_list`, `remain` and
`loop` are C locals that survive across callbacks.  `mem_access`, `mtf`, `paused`,
`ring`, `responses` and `blocked` are Xen's side.  A guest action may occur between any
two steps of the library; a user's call may occur where the user's code runs, between
two listens or in a callback.

| source | actions |
|---|---|
| `vmi_register_event`, `vmi_clear_event`, `vmi_swap_events`, `vmi_step_event` | `RegisterEvent`, `ClearEvent`, `SwapEvents`, `StepEvent`, `StepEventFails` |
| `xen_events_listen_48` | `EventsListen`, `FirstPassDone`, `PauseForDeferred`, `SecondPassDone`, `ApplySwap`, `SwapsDone`, `ApplyClear`, `ApplyClearStep`, `ClearsDone`, `Notify` |
| `process_requests`, `process_mem`, `process_single_step_event` | `TakeMemRequest`, `TakeStepRequest`, `PutResponse` |
| `step_and_reg_events` | `KeepWrapper`, `ReRegister`, `CallStepCallback`, `StepCallbackReturns`, `StepsDone` |
| `vmi_pause_vm`, `vmi_resume_vm` | `PauseVm`, `ResumeVm` |
| Xen and the vCPUs | `GuestAccess`, `GuestStep`, and the responses `Notify` makes Xen consume |

Abstractions.  An access is one kind of access to one page; the handler is found if the
event on the page asked for it.  Events are registered on a page (not on addresses in
it), on the default view (`slat_id` 0), with accesses Xen can be asked for.  A hypercall
either takes effect or fails without effect; `MayFail` says which ones may fail.  The
lists are sequences with the newest element first, as `g_slist_prepend` builds them.  The
user keeps the ownership rule of `events.h` (`MayPass`): it does not hand the library an
event it has asked to be freed, and does not ask that of an event being stepped.  Swaps
are between events on one page.  The deferred clears are applied in any order, the hash
table's order being arbitrary.

`TrapDelivery` is the abstract specification: a set of things is watched, a vCPU that
does one of them stops, is answered while that thing is still watched, and goes on.
`EventListener` implements it under a refinement mapping that reads the watched set off
the tables and the state of a vCPU off `blocked`, `responses`, `ring` and `req`.

### Properties and runs

| run | question | properties |
|---|---|---|
| `listener_step` | 3 vCPUs, one event cleared, stepped (1 or 2 instructions, with and without callback) and re-registered from callbacks, under fairness | `PendingHandled`, `SteppingRight`, `Progress`, `DeliverySpec` |
| `listener_changes` | 2 events compete for one page; register, clear, swap, pause and resume between listens, clear, step and register in callbacks, with and without free routines; any hypercall but the listener's pause may fail | `PagesMatchTable`, `OneAnswer`, `Bookkeeping`, `QuietChange` |
| `listener_swap` | swaps, clears and steps in callbacks, with swaps re-applied by every later listen | `QuietChange`, `DeliverySpec` |
| `user_pause` (violated) | is the domain paused until its user resumes it? | `UserPauseKept` |

`SteppingRight` is `StepVcpusCount` (the counter of a vCPU counts the wrappers, wherever they
are), `StepArmed` (a vCPU with an event to step has the flag and the single-step event)
and `StepUnwound` (one without has neither, between listens).  `Bookkeeping` is that counter,
`NoDangling` and `FreedOnce`.  `Progress` is `VcpuResumed`, `ClearsApplied` and
`StepReRegisters`.

`user_pause` shows that the code does not do what its header says: the deferred section
resumes a domain that its user had paused (`findings` in `PROJECT.json` quotes it).  Other
disagreements that the bounds of the passing runs leave out are in section 12.

**Bounds.**  Three vCPUs are one more than is needed for a request behind another whose
callback takes its handler away; two suffice elsewhere.  One page is enough since
pages do not interact except through events, and two events are what is needed to
compete for it.  `MaxWraps` (2) bounds the wrappers alive at once: one that finishes
while another one on the same or on another vCPU goes on.  `MaxSteps` (2) tells the
last step from an earlier one; one is enough where several events matter.  `MaxSwaps` bounds the calls in callbacks, because the
list never shrinks.

**Fairness.**  `WF(ListenStep)`: the user calls `vmi_events_listen` in a loop, as every
example under `src/tests/examples` does, and callbacks return.  `SF(GuestStep(v))`: a vCPU with
the monitor trap flag set that is let run again and again completes an instruction at
some point; strong, because the listener's pause interrupts it each time, and nothing
weaker holds of a processor that can be descheduled.  Guest accesses and user calls
have no fairness.

### Proofs

`EventListener_proofs` proves for any number of vCPUs, pages and events, any bounds
and any set of API calls:

* `TypeCorrect`: `Spec => []TypeOK`, one lemma per group of actions.  `TypeOK` includes
  what makes the C locals usable: in a callback there is a request, in a step callback
  the list has a head.
* `PagesAgree`: `Spec => []PagesMatchTable`, with no assumption on failures.  The lemma
  `NextPageStep` reduces every step to one of four cases (no page touched, register,
  clear, swap) and says where the thread is in each; the theorem only looks at these.
* `Delivered`: `Spec => []PendingHandled`, if the user's clears and swaps come from
  callbacks (`ChangesDeferred`), callbacks do not resume the domain and the listener's
  pause succeeds (`PauseHolds`).  `PendingHandled` is not inductive: one must know that
  what Xen traps has a handler when the request is made (`PagesMatchTable`,
  `SingleStepInv`), and that during the removal nothing runs and the ring is empty
  (`PauseInv`).  Those are the lemmas `PauseCorrect` and `SingleStepCorrect`; `RingStep` and
  `PageEventKept` then say what a step can do to the ring and to the handlers.  The
  assumptions are necessary: without `ChangesDeferred` a clear between two listens takes
  the handler of a request that is already on the ring, and without `PauseHolds` the
  domain runs while the handlers are removed.
* `ChangesAreQuiet`: `Spec => QuietChange` under `PauseHolds`.
* `WrappersCounted` and `AnsweredOnce`: `Spec => []StepVcpusCount` and `Spec => []OneAnswer`,
  with no assumption on failures or calls.  Both count elements of sequences, so the
  lemmas `CountAppend`, `CountConcat` and their like come first.  Every action is one of
  few kinds as far as the lists are concerned (`ListStep`: a wrapper is added, moved,
  kept or finished; `RequestStep`: a request is put, taken, answered or its vCPU let go),
  and each kind keeps the sum.  `ListsHeld` and `RequestHeld` are the strengthening: outside of
  `step_and_reg_events` its locals are empty, and outside of a handler no request is held.
* `BooksRight`: `Spec => []Bookkeeping` if callbacks queue no swap (`NoSwapQueued`).  The
  inductive invariant `BooksInv` adds that an event is only ever on its own page, that
  no clear waits when the listener is idle, and that an event to be freed is not being
  stepped.
* `StepsArmed` and `SteppingKept`: `Spec => []StepArmed` if Xen does as it is told for vCPUs
  that exist (`StepsWork`), and all of `SteppingRight` if also no swap is queued.  The
  inductive invariant (`ArmedInv`, `InUse`) relates the counter, the installed event, the
  trap flag and the deferred clear of each vCPU.
* `DeliversTraps`: `Spec => DeliverySpec`, the refinement of `TrapDelivery`, under
  the assumptions of `Delivered`.  `StatesRight` gives the abstract state of each vCPU, for
  which `OneAnswer` is needed: a vCPU has one request, so its state is not two things.

Each of these assumptions is there because the code needs it.  `NoSwapQueued`: the list of
swaps is never emptied (section 12), so an event that a callback swaps out may later
be cleared and freed while the list still names it, its free routine runs again with every
listen, and the inverted search refuses the clear of a single-step event as long as there
is a swap on the list.  `StepsWork`: when the hypercall for one vCPU fails,
`xen_start_single_step_48` stops single-stepping on the vCPUs below it, also where
events are being stepped.  The instances of `listener_changes` and `listener_step` satisfy the
assumptions of the theorems about the properties they check.

The invariants were checked with TLC on those instances as well.  Liveness
(`Progress`) is only model-checked.

## 4. MemoryCache

`vmi_read_page` goes through `memory_cache_insert`: a hit returns the mapping of the
cached entry; a miss cleans the cache up if its queue of keys is full, maps the page,
inserts the entry and queues its key.  `xen_put_memory` writes page by page through
mappings of its own and then drops the page's entry, because the write may have
unshared a copy-on-write page and the cached mapping would show the old one.

`memory_cache` and `memory_cache_lru` are the table and the queue of the source; `mapped`
says what each mapping of the address space shows (a page, in the frame it had when it was
mapped), `frame` where each page is now.  `read` is the pointer the caller copies from,
until another call of the library; `put` is the rest of a write in progress.

| source | actions |
|---|---|
| `memory_cache_insert`, `clean_cache`, `create_new_entry` | `Hit`, `Insert`, `NoEntry`, `NoKey`, `NoQueueKey` |
| `xen_put_memory`, `memory_cache_remove` | `PutMemory`, `PutPage`, `PutFails` |
| `memory_cache_destroy` | `memory_cache_destroy` |

A clean-up removes the keys at the tail, so it is modelled as one step with the keys that
stay (`Kept`) and those that go (`Popped`); the new page may be mapped where a freed entry
was.  Mapping may fail for any page (`NoData`).  A request that is not page aligned is
refused without effect and left out.  The refresh of entries past an age is not reachable:
the Xen driver passes the limit 0.

| run | question | properties |
|---|---|---|
| `cache` | 3 pages, 2 mappings, limit 2; every mapping and every allocation may fail | `ReadsCurrent`, `EntriesCurrent`, `NoLeak`, `Evictable`, `Bounded` |

Two history variables keep the last three properties exact: `leaked` has the mappings that an
insertion left behind when it could not allocate the key of the table, `unqueued` the
pages whose key could not be queued.  Nothing else escapes the clean-up.

**Bounds.**  The queue, not the table, is counted against the limit, and a page dropped by
a write is queued a second time when it is read again; with limit 2 and three pages a
queue with two keys of one page, one key without entry, and an eviction of each
occur.  `MaxFrame` 1 tells an old frame from the current one.

**Proofs** (`Memory_proofs`, first part), for all sizes, any number of mappings:
`CacheCoherent` and `ReadsAreCurrent` need no assumption on failures.  The inductive
invariant adds to them that the reader's pointer is the page's entry (`ReadIsEntry`),
which a clean-up could break only in a call that replaces the pointer.  The bound
on the table follows from the bound on the queue because every entry has a key in it
(`Evictable`), and a set of elements of a sequence is no larger than its length.

## 5. Translation

A call of `vmi_pagetable_lookup`, `_extended` or `vmi_translate_uv2p` (`vmi_translate_kv2p` is
the first with `Kpgd`) is a sequence of steps, `pc` naming the next one; the guest may
change its page tables (`Remap`) and processes (`Switch`) between any two.  `pgd` and `pt`
are the guest's structures, `pid_cache` and `v2p_cache` the library's.  `freed` is the set of
entries in a table whose memory was freed; after that the library's behaviour is undefined
and the model lets it take no step.  `v2p_changed`, `pid_changed` and `steady` only say, for
the properties, what changed: since the cache was flushed of it, or at all.

| source | actions |
|---|---|
| `vmi_pagetable_lookup_cache` | `vmi_pagetable_lookup`, `Get`, `Verify`, `Found`, `NotFound` |
| `vmi_pagetable_lookup_extended` | `vmi_pagetable_lookup_extended`, `Found`, `NotFound` |
| `vmi_translate_uv2p`, `vmi_pid_to_dtb` | `vmi_translate_uv2p`, `Resolve`, `Retry`, `ResolveAgain` |
| `vmi_v2pcache_add`, `_flush`, `vmi_pidcache_add`, `_flush` | the actions of these names |

Addresses are pages; a walk reads one state of the tables; allocations succeed; the
process list of the guest is read in one step.

| run | question | properties |
|---|---|---|
| `translate` | all calls, 2 processes, 2 address spaces, guest changes everything | `Fresh`, `AnswerRight`, `Intact`, `FailedNotCached` |

`g_hash_table_insert` stores the value also when it returns FALSE for a key that was
there; `v2p_cache_set` and `pid_cache_set` take FALSE for a failure and free what they
passed.  The retry reaches this in the code when a process has changed its directory to one for
which another process's lookup cached the address, and a user who adds an entry twice
reaches it directly (section 12).  `Intact` shows, and `CachesIntact` proves, that the
lookups by themselves never insert twice while processes keep their directories.

**Bounds.**  Two directories and two processes are what a retry needs to land in an
address space that another process filled; one address suffices since addresses interact
only through the directory.  Physical address 0 is the one the cache refuses; address 1 is
on a page that may be unreadable.

**Proofs** (`Translation_proofs`), for any processes, directories and addresses: `Fresh` is
inductive together with `AnswerRight` and what the steps of a call know (`CallInv`): the
directory is the pid's unless the process changed, and the tables lack the address when a
walk has failed.  `CachesIntact` and `FailuresAreNotCached` add that from a failed lookup to
the end of the retry the cache has no entry for the address (`StableSteps`).

## 6. TinyHash and FiniteMap

`h` is the `struct hashtable`: the slots with their chains, and the counts that the
growth and the resizing look at.  Keys and values are blocks of memory the table owns
(`owned`); `lost` has what an insertion without memory leaves to nobody.

The iterator is no action.  `g_return_val_if_fail(ri->position < ri->hash_table->size, FALSE)`
at `hash.c:886` expands to `if(!ri->position < ...)` (`types.h:139`), and as `position` starts at -1
this is `0 < size`: `g_hash_table_iter_next` returns FALSE at its first call, whatever is in the
table.  Its two users are in `MonitorEvents` (section 8).  Growth by `realloc`, which
`hashtable_expand` tries when `calloc` has failed, is left out (section 12).

| source | actions |
|---|---|
| `g_hash_table_insert`, `_replace`, `hashtable_insert`, `hashtable_expand` | `InsertNew`, `InsertNoMemory`, `InsertOld`, `ReplaceOld` |
| `g_hash_table_remove`, `_foreach_remove`, `_remove_all`, `_destroy`, with `g_hash_table_maybe_resize` and `hashtable_resize` | `RemoveKey`, `RemoveMissing`, `ForeachRemove`, `RemoveAll`, `Destroy` |

`FiniteMap` is the abstract specification: a map from keys to values and the answers of the
calls.  `TinyHash` implements it when the map is what a search of the chains finds.  The
answer matters: `Translation` depends on what an insertion of an old key returns.

| run | question | properties |
|---|---|---|
| `hash` | 3 keys, allocations fail, every call | `WellFormed`, `OwnsMemory`, `MapSpec` |

`WellFormed` consists of `TypeOK`, `InBounds` (array, size and counts agree) and `Searchable`
(every entry is where a search looks).  Shrinking never works: `hashtable_set_optimal_size`
returns -1 and the caller takes it for the new size, so the allocation fails and `primeindex` wraps
round.  `InBounds` shows that the table survives this, since size and array keep fitting.

**Bounds.**  Tables of 2, 3, 5 and 7 slots at the real load of 65 percent: three keys grow the
table twice, meet in one chain and part again.  Four key blocks are one more than
the keys, for an insertion of a key that is there.  `noccupied` only ever grows, and
`MaxOccupied` (6) stops it after a resize was tried.  Blocks and values are symmetric.  No fairness is needed.

**Proofs** (`TinyHash_proofs`): all three properties, for any keys, hashes, sizes and allocations
that fail.  A table is taken apart into its chains and put together into the set of its
entries (`Entries`), each at a spot, a slot and a place in its chain.  The lemmas about
operations say what each does to that set: an insertion adds an entry, a removal takes one
out, a replacement changes one, a growth or a resize leaves the set as it is.  Memory and
map are functions of the set, so `MemoryOwned` and the refinement `TableIsMap` follow from
these lemmas without looking at chains again.  The inductive invariant `IInv` has a part for each:

* `GoodTable` (for `TableFit`): every chain has the entries that belong into its slot, no two
  of one key, and `entrycount` is the number of keys.  The array may be larger than `size`
  after a resize that failed, so its length is a parameter of `Good`.  There is a larger
  prime whenever the table is crowded, because the table has at most as many entries as
  there are keys (`PrimesAssumption`); that no index beyond the array is used after a growth
  needs this.
* `OwnedInv`: blocks in use and not lost are those of the entries, none of two of them.

That a growth loses nothing rests on counting: an entry's place in its new chain is the
number of entries that go into the same slot later, and numbering a finite set by
how many follow is a bijection.  The assumptions on the constants are that key blocks and values are
apart from each other and from the markers `Null` and `None`, and that the keys are few
enough for the primes.

## 7. EventRing and EventQueue

`ring` has the slots that requests and responses share; `req_prod`, `rsp_prod`, `req_cons` and
`rsp_cons` are the indices of the shared page, of the listener and of Xen, counted modulo
`Width` (2^32 in the code).  `port` and `masked` are the event channel, `waiting` the vCPUs
that found the ring full.  What a handler does is left to the other modules: here it
succeeds or fails, and may leave work for a second pass.

| source | actions |
|---|---|
| `xen_events_listen_48`, `wait_for_event_or_timeout` | `EventsListen`, `PollReady`, `PollTimeout`, `PollFails`, `Unmask`, `Defer`, `Notify` |
| `process_requests`, `get_request`, `put_response` | `GetRequest`, `OtherVersion`, `Handle`, `PassDone` |
| Xen | `Trap`, `Enqueue`, and the consumption of responses in `Notify` |

`EventQueue` is the abstract specification: two queues that lose, repeat and reorder nothing.
`QueueSpec` is the refinement, each queue being the slots between two indices.

| run | question | properties |
|---|---|---|
| `ring` | 3 vCPUs, 2 slots, indices that wrap at 4, polls, unmasking and notification may fail, either interface version | `InOrder`, `WakesUp`, `ServedOnSuccess`, `Answered`, `QueueSpec` |

`InOrder` consists of `TypeOK`, `IndicesInOrder` and `SlotsHoldTheirKind`.  `ServedOnSuccess` says what
a result of `VMI_SUCCESS` is worth: everything that was on the ring when the call began
is answered and Xen knows.  A request of another version is taken and never answered,
which the result reports as a failure; `Answered` therefore supposes the expected version.
The second pass replaces the result of the first one, so `VMI_SUCCESS` says nothing about
what the handlers reported.

**Bounds.**  One vCPU more than there are slots, so that one waits; twice as many index
values as slots, so that the indices wrap and full differs from empty.

**Fairness.**  `WF(Listener)`, the user's loop.  `SF` of the successful outcomes of poll and
notification: they may fail, but not every time.  `SF(Enqueue(v))`: Xen wakes the vCPUs
that wait for a slot in turn.  There are no signals in MiniOS, so a poll is not
interrupted.

**Proofs** (`EventRing_proofs`), for any number of vCPUs and slots and every width of the indices
that is a multiple of the slots (as 2^32 is of the code's slots, a power of two):
`RingInOrder`, `RequestsWake`, `SuccessServes` and the refinement `RingIsTwoQueues`.  The lemmas
come in three layers: numbers (`Apart`: numbers with the same remainder that are less than m
apart are equal), indices (a difference of indices modulo the width shrinks by one when
the earlier one moves), and slots (the slots between two indices are different ones as long
as there are at most `Size`).  The invariant `IInv` adds to `InOrder` what a pass has taken and not
answered (`PassInv`), that the port is set also between two passes (`PortInv`), and that what a
call that has not failed still owes is on the ring or answered (`ServedInv`).  `Answered`
is liveness and only model-checked.

## 8. MonitorEvents

The events that are neither steps nor on a page.  `registered` is the library's tables of
handlers (`reg_events`, `interrupt_events`, `mem_events_generic`, `cpuid_event`, ...), `on` the driver's
`monitor_*_on` switches, `monitored` what Xen reports.  `clear_events`, `freed`, `ring`, `blocked`,
`responses` and `pc` are as in `EventListener`; `stale` only remembers whose requests were under
way when an event was cleared outside of callbacks, or after a pause that failed.

Two kinds of events do not work in the code, and the model follows it.  Generic memory events
are looked for with the iterator that yields nothing (`Iterated`, section 6): `process_mem`
calls no generic handler (`xen_events_48.c:447`), and `vmi_set_mem_event` finds none either and
refuses to restrict any page (`events.c:750`), so no such request ever comes.  And
`driver_set_privcall_event` calls `set_debug_event_ptr` (`driver_wrapper.h:528`, `SwitchOf`):
registering an event for privileged calls makes Xen report debug exceptions, of which the user
knows nothing, and no privileged call.

| source | actions |
|---|---|
| `vmi_register_event`, `vmi_set_mem_event`, `vmi_clear_event`, with `register_*`, `clear_*` and the driver's `xen_set_*` | `RegisterEvent`, `SetMemEvent`, `ClearEvent` |
| `process_requests` and its handlers | `TakeRequest`, `CallbackReturns`, `PutResponse` |
| `xen_events_listen_48`, `clear_events_full` | `EventsListen`, `FirstPassDone`, `PauseForDeferred`, `SecondPassDone`, `ApplyClear`, `ResumeAfterDeferred`, `Notify` |
| Xen and the vCPUs | `Trap` |

| run | question | properties |
|---|---|---|
| `monitor` | the MSRs, debug exceptions, privileged calls and a generic memory event; register, clear and restrict between listens, register and clear in callbacks; Xen does not offer privileged calls, and hypercalls may fail, the pause and resume of the listener included | `Coherent`, `Deliverable`, `ClearsDone` |

`Coherent` consists of `TypeOK`, `Agree` (table, switch and Xen say the same of every kind) and
`NoDangling` (no freed event is in a table).  `Agree` names what is wrong in the code: what Xen
never reports although there is a handler (`Unreported`: generic memory events, privileged calls),
and what it may report without one (`MayLinger`: debug exceptions while an event for privileged
calls is registered, and a register of the MSR event whose own hypercall failed, which the driver ignores).
`Deliverable` is the counterpart of `PendingHandled`; its exceptions are `MayLinger` and `stale`.  The
listener ignores the result of `vmi_pause_vm` (`xen_events_48.c:1326`): if it fails, the vCPUs run while the
deferred clears are applied, and their requests are `stale` too.

**Bounds.**  Two vCPUs: one in a callback that clears, one whose request is behind it.
One event of each kind: a second one of a kind is refused by the table, whatever the kind.
MSR_ALL has a switch in the driver, which the other kinds here do not have; both sorts of kind have
one event that works.  Interrupt re-injection in the response, asynchronous events and the
register values that a callback may send back are left out.

**Fairness.**  `WF(Listener)`.

**Proofs** (`MonitorEvents_proofs`), for any vCPUs, kinds, events and registers and any calls the
user makes: `TablesCoherent` and `RequestsDeliverable`.  `Deliverable` is not inductive: a request
must find its handler at the moment it is made (`Agree`), an event is cleared in the
deferred section with the domain paused and the ring empty, unless the pause failed (`PauseInv`), no clear is
left over from an earlier listen (`ClearsInv`), and a vCPU has one request only, so that
`stale` can be said of its vCPU (`WaitInv`).  That no privileged call is reported follows from no
driver call being made for that kind (`PrivUnreported`).  Of the kinds the proofs use that what one serves
no other does (`KindAssumption`: registers are named apart from kinds).  `ClearsDone` is
liveness and only model-checked.

## 9. Lifecycle

Instances of one domain, each between two stages of a call: `pc`.  `held` is what an
instance has allocated, opened or mapped; `owner`, `trapped`, `waiting` and `pauses` are what Xen keeps
of the domain: its one monitor ring, its traps, a vCPU waiting for an answer, its pause
count.  `admin` is a pause by somebody else.

| source | actions |
|---|---|
| `vmi_init`, `vmi_init_complete`, `xen_init`, `set_id_and_name`, `xen_init_vmi`, `xen_init_events_48` | `Start`, `DriverInit`, `Lookup`, `Probe`, `MonitorEnable`, `EvtchnOpen`, `Bind`, `Finish`, `InitOs` |
| `vmi_destroy`, `xen_events_destroy_48`, `xen_destroy` | `Destroy`, `Info`, `Check`, `Pause`, `Reset`, `LastListen`, `CloseEvents`, `Resume`, `FreeInstance` |
| users, guest, administrator | `Register`, `Listen`, `Trap`, `AdminPause`, `AdminResume` |

A stage that fails leads to the teardown, as `error_exit` of `vmi_init` does; a failed stage of
`vmi_init_complete` does not, and leaves an instance nobody has (`lost`).

| run | question | properties |
|---|---|---|
| `lifecycle` | 2 instances, any stage failing, with and without events, the user's event channel handle, the snapshot flag | `Returned`, `NotLeftPaused`, `LetGo` |

`Returned` consists of `TypeOK`, `NothingLeft` (after a failed init or a destroy nothing stays open but
the domain's name and a handle of the user that was not taken over), `ReadyToListen` (an instance
with events has all it takes) and `MonitorReturned` (the ring of the domain does not outlive its
instance).  It says nothing of instances that nobody can destroy any more: `lost` (a failed
`vmi_init_complete`) and `crashed` (a teardown on a ring that was never initialised).

`NotLeftPaused` counts the pauses Xen holds: the administrator's, those of teardowns that go on to
undo theirs, and those of programs that crashed in their teardown (`Abandoned`).  Nobody undoes the
last ones, so the domain does stay paused there; the property adds that this is the only way: the
program had mapped the ring and not bound its port.  All of these exceptions are disagreements
of section 12.

The last listen of a teardown may have deferred work from a callback of its own, or
from swaps left in the list by an earlier listen (`MayDefer`), and then resumes the domain before
the teardown does.  The resume of a domain found paused is taken to succeed.

**Bounds.**  Two instances, because everything that can go wrong between instances is a
matter of one that has the ring and one that takes or disables it, or of two overlapping
pauses.

**Fairness.**  `WF(Step(i))`: a call that has begun goes on.  `WF(Listen(i))`: users listen
again and again.

**Proofs** (`Lifecycle_proofs`), for any finite number of instances, any flags and any stages
that fail: `PausesUndone` and `ResourcesReturned`.  The first counts: the pause count changes with
the set of instances that are to undo a pause (`ResumingInv` says at which stages those
are, and what a crashed one of them holds).  The second needs what an instance holds at every stage (`HeldInv`); its core is that
whoever holds anything of the event driver goes through `xen_events_destroy_48`.
`LetGo` is liveness and only model-checked.

## 10. GuestMemory

`mem` is the guest's page tables; `va`, `level` and `table` are the place of a walk, one step reading
one entry; `buf` is what a read has delivered, each byte named by the physical address it
came from.  The guest writes entries between any two steps (`touched` remembers which).

| source | actions and operators |
|---|---|
| `v2p_nopae`, `v2p_pae`, `v2p_ia32e` | `Lookup`, `EntryUnreadable`, `EntryAbsent`, `EntryTable`, `EntryPage`; `Index`, `EntryPresent`, `MapsPage`, `NextTable`, `PagePlus` |
| `vmi_read`, `vmi_read_str` | `Read`, `ReadOn`, `ReadAll`, `ReadLen`, `StrLen`, `Found`, `NotFound` |
| `get_va_pages_nopae`, `_pae`, `_ia32e` | `Listed` |

An address is a number.  The code's shifts and masks are divisions and remainders by the powers
of two that bound a field: `PageSize` for 2^12, `Fanout` entries of a table, `Low`, `Mid` and
`Full` for 2^32, 2^36 and 2^52.  Nothing in the module depends on their being powers of two,
only on the limits being multiples of the page size.  Names that `MemoryCache` has too begin with
`Mem` or `mem`, since `Memory_proofs` extends both.

The reference definition is `Translate`: the translation that the processor's manual gives for the
tables as they are, stated without the code's masks, and `PathTo`, the entries it looks at.
`Predictable` says where the code is held to it: the guest left alone the entries on the path,
the addresses fit the bits the PAE code keeps, and the page directory pointer is present.
For reads `Foreseen` adds two things.  `InReach`: `vmi_read_str` is at the right address in the first
two pages only.  `NoHole`: under an absent page directory pointer the PAE walk succeeds with
address 0, whose offset in a page is 0 whatever was asked for, so a read that starts inside a page
there takes a whole page's worth and so delivers, for addresses beyond the hole, bytes of the
first physical pages (`intel.c:350` with `read.c`); the attempt to prove `BytesAgree` without
`NoHole` found this, and TLC shows it when the condition is dropped.

| run | question | properties |
|---|---|---|
| `memory` | three paging modes, with and without large pages, every combination of system and `transition_pages`; lookups, reads and strings over page boundaries while the guest writes | `WalksRight`, `BytesAgree`, `ListAgrees` |

`WalksRight` consists of `MemTypeOK` and `WalkAgrees`.  `BytesAgree` follows what the code returns at a
page that cannot be translated or read: `vmi_read` fails with the bytes so far, while `vmi_read_str`
returns the beginning of the string like a whole one (`read.c:357`, `:368`), and NULL only if it has
nothing yet.  So a string ends at its zero byte or at such a page (`EndsRight`), which its caller cannot
tell apart.  `ListAgrees` compares the lists with the walk for every kind of system; where system and
`transition_pages` differ, pages behind an entry in transition are excepted (`Doubtful`): the lists take
such an entry for present as soon as the system is known, Linux as well as Windows (`intel.c:415`), the
walks only if `transition_pages` is set, which is done late in the initialisation of a Windows guest
(`windows/core.c:971`), or when the user asks `vmi_init_paging` for it.

**Bounds.**  Pages of two bytes and tables of two entries keep every field of an address,
with physical addresses of 5, 6 and 7 bits for 32, 36 and 52, so that each mask cuts
something off.  Reads of four bytes from an odd address touch three pages; of the two
addresses one is the first page's and one the last byte before a table's end.  Two guest
writes move an entry and its successor.

**Proofs** (`Memory_proofs`, second part): `WalksAreRight`, `BytesAreRight` and `ListIsRight`, for
any page and table sizes, limits, tables, addresses, counts and writes of the guest, from the
assumptions on the constants alone.  The inductive invariant `MemInv` adds to the types and to
the two properties

* `OnWay`: while the entries on the path to `va` are left alone and fit, what is still looked
  at from `table` on is part of the path, and the place the reference finds from `table`
  on is the place it finds from the root; without it nothing relates the middle of a walk to
  `Translate`;
* `Asked` and `StrAt`: `va` is the address of the next byte wanted, with the places where
  `vmi_read_str` really is (first page, second page, astray);
* `BufRight`: the bytes in `buf` are right already, not only when they are returned.

A write of the guest keeps them because paths and places change only when an entry on
them does (`Elsewhere`, `StillThere`).  A whole page may be copied after one walk because
all addresses of a page have one path and places at the same distance (`SamePlace`, `Chunk`).
The reference and the list are recursive functions, which are unfolded once for each of the four
levels (`PathUnfold`, `PlaceUnfold`, `ListUnfold`); the number of levels being fixed, what holds of
them follows level by level without induction over data.  `ListAgrees` holds in every state that
has its types: by level, listed pages are where the walk finds them (`Sound`) and what the walk
finds is listed (`Complete`), every address of a table's range being in one of its slots
(`SlotAt`, `InSlot`).

## 11. TaskList

`next`, `pid`, `mm` and `active_mm` are the guest's process list; `node`, `list_head` and `tmp_next` are the
locals of the search, one step being one read.  Processes are created at the tail, exit, lose
or borrow an address space between any two reads; the memory of one that left keeps its
contents until it is used again.  `stayed`, `had` and `spoilt` remember, for the properties, what was
there during the call.  A page directory stands for the `mm` that holds it, so the reads of
`task->mm` and `mm->pgd` (`linux/memory.c:119-131`, `:176-212`) are one step: an `mm` that is freed and used
again between the two is left out.

| source | actions |
|---|---|
| `linux_get_taskstruct_addr_from_pid`, `_from_pgd`, `linux_pid_to_pgd`, `linux_pgd_to_pid` | `LinuxField`, `LinuxMm`, `LinuxActive`, `LinuxNext`, `LinuxOwn`, `LinuxReadFails`, `LinuxStray` |
| `eprocess_list_search`, `windows_pid_to_pgd`, `windows_pgd_to_pid` | `WindowsHead`, `WindowsRoot`, `WindowsNext`, `WindowsField`, `WindowsOwn`, `WindowsReadFails` |
| the guest (external) | `Fork`, `ExitMm`, `Exit`, `Borrow` |

| run | question | properties |
|---|---|---|
| `tasks` | both systems, two processes besides the first one, any read may fail | `AnswersTrue`, `FoundIfThere`, `SearchEnds` |

`AnswersTrue` consists of `TypeOK` and `AnswerHeld`.  A call in which memory was used again or a read
failed promises nothing (`spoilt`), except that it ends: `SearchEnds` names the two ways it does not.

**Bounds.**  Two places besides the first process: the one the search stands on and the one
it should find, either of which may leave.  Two creations use a place again.  Values not
in use are alike, and `ToUse` offers one of them.

**Fairness.**  `WF(Reads)`: the call's thread goes on.  The guest has none.

**Proofs** (`TaskList_proofs`), for any number of processes and creations: `SearchesAnswerTruly` and
`SearchesFind`.  The search may stand on a process that has left, whose link is as old as
its exit.  The argument gives every process a rank, the number of creations before it:
new ones are listed at the tail, so the list is sorted by rank, and so is everything the
search can stand on or go to (`Met`): a process that left links to one of higher rank, and
passes over none that was there all the time.  What is sought is therefore never behind
the search (`Ahead`), which is the inductive form of `FoundIfThere`.  The ranks are not
variables of the model; the invariant says that there are some (`ListInv`).  `SearchEnds`
is liveness and only model-checked.

## 12. Known disagreements

Places where the code does not do what its comments or its header say, or what the reader
would expect.  The passing runs leave them out by the exceptions named in the modules; the
run `user_pause` shows one of them.

| where | what |
|---|---|
| `xen_events_48.c:1329` | the deferred section resumes a domain its user had paused (`user_pause`; `PROJECT.json` quotes the header) |
| `xen_events_48.c:1330` | the list of swaps is not emptied, so every later listen swaps and runs the free routine again, against `events.h:644` |
| `events.c:63` | the search for a swap behind a clear is inverted, against the comment at `events.c:916` |
| `events.c:981`, `xen_events_48.c:1119` | a vCPU number equal to the number of vCPUs passes the check; when the hypercall for it fails single-stepping stops on the vCPUs below it |
| `accessors.c:584`, `cache.c:617`, `cache.c:182` | adding an entry that is there frees the value the table keeps |
| `hash.c:886`, `types.h:139` | the check of the iterator's position expands to `!position < size`, so `g_hash_table_iter_next` yields nothing, against its comment at `hash.c:872`: no handler of a generic memory event is ever called (`xen_events_48.c:447`), and `vmi_set_mem_event` restricts no page (`events.c:750`) |
| `hash.c:676` | `g_hash_table_foreach_remove` reads the link of an entry it has freed; the model supposes that the freed block keeps its contents meanwhile |
| `hashtable.c:140-163` | plan B of `hashtable_expand` sets `newsize - size` bytes to zero where it means slots, from an address that is the contents of a slot; the model leaves plan B out, which takes a `realloc` that succeeds where `calloc` has failed |
| `hash.c` | a resize takes -1 for a size; entries with hash 0 or 1 are dropped by `g_hash_table_foreach_remove`, and so are entries whose callback returns FALSE, against the comment at `hash.c:632` (no callback of the library does); an insertion without memory reports success |
| `xen_events_48.c:678` | a request of another version is consumed and never answered |
| `xen_events_48.c:1326` | a `vmi_pause_vm` that fails is ignored and the deferred clears and swaps are applied while the vCPUs run, against the comment at `xen_events_48.c:1320` |
| `driver_wrapper.h:528` | registering an event for privileged calls makes Xen report debug exceptions |
| `xen_events_48.c:1328` | the result of the second pass replaces that of the first |
| `xen_events_48.c:1393` | traps that callbacks set during the last listen stay on, against the comment |
| `xen.c:739`, `:675-680` | the copy of the domain's name is never freed, against `tiny_libvmi.h:761` |
| `tiny_core.c:860-878` | a failed `vmi_init_complete` leaves the instance and its ring to nobody, against `tiny_libvmi.h:685` |
| `xen_events_48.c`, init | an init refused because the domain has a ring destroys the event driver and with it the other instance's traps and ring; one that cannot open or bind the event channel runs its last listen on a null ring, and the domain stays paused |
| `tiny_core.c`, init | the snapshot flag in a build without snapshots reports success and skips `events_init` |
| `tiny_libvmi.h:669-671` | the user's event channel handle is not released by an init that fails before the driver takes it |
| `xen.c`, pause | `xen_pause_vm` reports success for a domain it finds paused, and the destroy then takes one pause too many off |
| `xen_events_48.c`, destroy | the monitors of privileged calls and descriptor accesses are never switched off |
| `xen_events_48.c:834-836` | a single MSR is always refused; only all of them can be monitored, and failures of their hypercalls are ignored (`:907`) |
| `events.h:655`, `events.h:661` | page permissions are not reset when a generic memory event is cleared; privileged-call and descriptor events cannot be cleared (`events.c:962`) |
| `xen_events_48.c:1231`, `:1254` | the driver looks at the pointer of another kind of event |
| `intel.c:350` | an absent PAE directory pointer is a success with the address 0, against `tiny_libvmi.h:937`; a read there may deliver wrong bytes for addresses beyond the hole (section 10) |
| `intel.c:232` | large PAE pages lose the address bits from 32 on, and page and table addresses those from 36 on |
| `intel.c:415`, `:423` | the lists of pages use the kind of system where the walks use `transition_pages`, so a Linux guest, or Windows in its initialisation, has pages listed that are not there; a large legacy page is listed at its virtual address |
| `read.c:357`, `:368` | `vmi_read_str` returns the beginning of a string whose rest cannot be read like a whole string, against `tiny_libvmi.h:1040` |
| `read.c:354` | `vmi_read_str` reads the wrong address from the third page on, against `tiny_libvmi.h:1034` |
| `linux/memory.c:64-71` | failed reads are ignored; after a failed link the search may never end |
| `windows/process.c:301` | the search ends at the second entry of the list, and never if that process exits meanwhile |
| `linux/memory.c` | a kernel thread without borrowed address space gives `VMI_SUCCESS` and no result, which `vmi_pid_to_dtb` then caches; `vmi_dtb_to_pid` may name a thread that borrows the directory, against `tiny_libvmi.h:897` |

## 13. Not modelled

`PROJECT.json` gives the reason for every component without a module and says what is left
of the ones that are modelled in part.

* The two generated symbol tables `target_libvmi_sym.c` (216218 of the repository's lines) are
  constant data, and the parser under `config/` is generated code.  Together they are most
  of the tree, so the share of all lines that the modules cover stays small whatever
  is modelled.
* The file driver is not built for MiniOS; the older event drivers repeat the modelled
  one; the ARM walks are not used on x86; lists and queues are unchanged GLib code and
  appear as sequences; printing and accessors keep no state.
* Of the operating system layers the searches of running processes are modelled; the
  searches for kernel images and symbols parse a guest that stands still.
* Of the events: changed registers and other payloads of a response, altp2m views,
  re-injected interrupts, asynchronous events, the user's own single-step events.
* Of `accessors.c` and `cache.c`: symbol and rva caches.

**Proved or only model-checked.**  Every safety property the runs check is proved for all values of
the constants, except the one the code violates (`UserPauseKept`).  Six theorems about `EventListener` (`Delivered`, `ChangesAreQuiet`, `DeliversTraps`, `BooksRight`,
`StepsArmed`, `SteppingKept`) have assumptions about the user's calls or failing hypercalls, given in
section 3; the others have none but those on the constants.
Two constants stand for "none" (`None`, `Null`); that they are no value of another kind is assumed
by name in each module (`NoneAssumption`, `CallAssumption`, `BlockAssumption`), and TLC evaluates
these assumptions on every run.

Model-checked only are the liveness properties (`Progress`, `Answered`, `ClearsDone`, `LetGo`,
`SearchEnds`), since fairness and `ENABLED` are beyond the prover.
