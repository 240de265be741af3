----------------------------- MODULE Translation -----------------------------
(***************************************************************************)
(* Virtual to physical translation: the lookups of accessors.c, the pid    *)
(* and v2p caches of cache.c, and a guest that changes its page tables and *)
(* its processes at any time.                                              *)
(*                                                                         *)
(* A translation is one thread's work: pc says which step of the call is   *)
(* next, and the guest runs between any two steps.  Addresses are pages,   *)
(* and a page table walk reads one consistent state of the tables.         *)
(***************************************************************************)
EXTENDS Integers, FiniteSets

CONSTANTS
  Pids,    \* process identifiers other than 0
  Kernel,  \* the pid 0, which stands for the kernel's address space
  Dtbs,    \* physical addresses of page directories, not 0
  Kpgd,    \* vmi->kpgd
  Vas,     \* virtual addresses, not 0
  Pas,     \* physical addresses; 0 is one that the cache does not take
  Vanish,  \* physical addresses whose page may be unreadable
  None,
  Calls,   \* functions of the interface the user calls
  Changes  \* what the guest changes: "tables", "processes"

ASSUME AddressAssumption == /\ Pas \subseteq Nat
                            /\ Vanish \subseteq Pas
                            /\ Kpgd \in Dtbs
                            /\ Kernel \notin Pids
                            /\ None \notin Pas \cup Dtbs \cup Pids \cup Vas \cup {Kernel}
ASSUME CallAssumption == /\ Calls \subseteq {"lookup", "extended", "uv2p", "v2p_add", "v2p_flush",
                                             "pid_add", "pid_flush"}
                         /\ Changes \subseteq {"tables", "processes"}

VARIABLES
  pgd,          \* guest: the page directory of each process, None without one
  pt,           \* guest: what each address space maps, None where not present
  pid_cache,    \* page directory cached for each pid, or None
  v2p_cache,    \* translation cached for each address of each directory, or None
  freed,        \* entries that are in a table although their memory was freed
  pc,           \* next step of the call, "idle" in the user's code
  call,         \* arguments and locals of the call
  answer,       \* the last call with its result, until the user makes the next one
  v2p_changed,  \* directories whose tables changed, or got an entry of the user's, since
                \* the v2p cache was flushed of them
  pid_changed,  \* the same of processes and the pid cache
  steady        \* history: no process changed, and the user neither added an entry nor
                \* walked past the cache

guest  == <<pgd, pt>>
caches == <<pid_cache, v2p_cache, freed>>
ghosts == <<v2p_changed, pid_changed, steady>>
vars   == <<guest, caches, pc, call, answer, ghosts>>

Tables == [Dtbs -> [Vas -> Pas \cup {None}]]

Call == [op : {"lookup", "extended"}, pid : {None}, dtb : Dtbs, va : Vas]
        \cup [op : {"uv2p"}, pid : Pids \cup {Kernel}, dtb : Dtbs \cup {None}, va : Vas]
Answer == [call : Call, pa : Pas \cup {None}]

ASSUME NoneAssumption == None \notin Call \cup Answer

-----------------------------------------------------------------------------
Init ==
  /\ pgd \in [Pids -> Dtbs \cup {None}]
  /\ pt \in Tables
  /\ pid_cache = [p \in Pids |-> None]
  /\ v2p_cache = [d \in Dtbs |-> [v \in Vas |-> None]]
  /\ freed = {}
  /\ pc = "idle" /\ call = None /\ answer = None
  /\ v2p_changed = {} /\ pid_changed = {} /\ steady = TRUE

\* The guest maps, remaps or unmaps an address.
Remap(dtb, va) ==
  /\ "tables" \in Changes
  /\ \E pa \in (Pas \cup {None}) \ {pt[dtb][va]} : pt' = [pt EXCEPT ![dtb][va] = pa]
  /\ v2p_changed' = v2p_changed \cup {dtb}
  /\ UNCHANGED <<pgd, caches, pc, call, answer, pid_changed, steady>>

\* A process starts, executes another program or exits.
Switch(pid) ==
  /\ "processes" \in Changes
  /\ \E dtb \in (Dtbs \cup {None}) \ {pgd[pid]} : pgd' = [pgd EXCEPT ![pid] = dtb]
  /\ pid_changed' = pid_changed \cup {pid}
  /\ steady' = FALSE
  /\ UNCHANGED <<pt, caches, pc, call, answer, v2p_changed>>

-----------------------------------------------------------------------------
(* The caches. *)

\* g_hash_table_insert returns FALSE when it replaced a value.  The caller takes that for a
\* failure and frees the key, which the table has freed, and the value, which it now holds.
v2p_cache_set(dtb, va, pa) ==
  IF pa = 0 THEN UNCHANGED <<v2p_cache, freed>>
  ELSE /\ v2p_cache' = [v2p_cache EXCEPT ![dtb][va] = pa]
       /\ freed' = IF v2p_cache[dtb][va] = None THEN freed ELSE freed \cup {<<dtb, va>>}

\* Mutant: the entry of the failed verification stays.
v2p_cache_del_Not(dtb, va) == v2p_cache' = v2p_cache

v2p_cache_del(dtb, va) == v2p_cache' = [v2p_cache EXCEPT ![dtb][va] = None]

\* Mutant: one address space is flushed where all were asked for.
Flushed_One(dtbs) == LET d == CHOOSE d \in dtbs : TRUE IN
                     [v2p_cache EXCEPT ![d] = [v \in Vas |-> None]]

\* The table without the address spaces in dtbs.
Flushed(dtbs) == [d \in Dtbs |-> IF d \in dtbs THEN [v \in Vas |-> None] ELSE v2p_cache[d]]

\* As v2p_cache_set: the entry that replaces another is freed and stays in the table.
pid_cache_set(pid, dtb) ==
  /\ pid_cache' = [pid_cache EXCEPT ![pid] = dtb]
  /\ freed' = IF pid_cache[pid] = None THEN freed ELSE freed \cup {pid}

-----------------------------------------------------------------------------
(* The calls.  What happens once a table refers to freed memory is undefined: *)
(* the library takes no step then.                                            *)

User(op) == pc = "idle" /\ freed = {} /\ op \in Calls

At(step) == pc = step /\ freed = {}

\* The call returns; pa is None when it fails.
Return(pa) == pc' = "idle" /\ answer' = [call |-> call, pa |-> pa] /\ call' = None

vmi_pagetable_lookup(dtb, va) ==
  /\ User("lookup")
  /\ pc' = "lookup"
  /\ call' = [op |-> "lookup", pid |-> None, dtb |-> dtb, va |-> va]
  /\ answer' = None
  /\ UNCHANGED <<guest, caches, ghosts>>

vmi_pagetable_lookup_extended(dtb, va) ==
  /\ User("extended")
  /\ pc' = "extended"
  /\ call' = [op |-> "extended", pid |-> None, dtb |-> dtb, va |-> va]
  /\ answer' = None
  /\ steady' = FALSE
  /\ UNCHANGED <<guest, caches, v2p_changed, pid_changed>>

vmi_translate_uv2p(pid, va) ==
  /\ User("uv2p")
  /\ pc' = "dtb"
  /\ call' = [op |-> "uv2p", pid |-> pid, dtb |-> None, va |-> va]
  /\ answer' = None
  /\ UNCHANGED <<guest, caches, ghosts>>

vmi_v2pcache_add(dtb, va, pa) ==
  /\ User("v2p_add")
  /\ v2p_cache_set(dtb, va, pa)
  /\ v2p_changed' = v2p_changed \cup {dtb}
  /\ steady' = FALSE
  /\ answer' = None
  /\ UNCHANGED <<guest, pid_cache, pc, call, pid_changed>>

\* dtbs is one directory, or all of them for the argument ~0ull.
vmi_v2pcache_flush(dtbs) ==
  /\ User("v2p_flush")
  /\ v2p_cache' = Flushed(dtbs)
  /\ v2p_changed' = v2p_changed \ dtbs
  /\ answer' = None
  /\ UNCHANGED <<guest, pid_cache, freed, pc, call, pid_changed, steady>>

vmi_pidcache_add(pid, dtb) ==
  /\ User("pid_add")
  /\ pid_cache_set(pid, dtb)
  /\ pid_changed' = pid_changed \cup {pid}
  /\ steady' = FALSE
  /\ answer' = None
  /\ UNCHANGED <<guest, v2p_cache, pc, call, v2p_changed>>

\* Mutant: the table of pids keeps its entries.
vmi_pidcache_flush_Nothing ==
  /\ User("pid_flush")
  /\ pid_changed' = {}
  /\ answer' = None
  /\ UNCHANGED <<guest, caches, pc, call, v2p_changed, steady>>

vmi_pidcache_flush ==
  /\ User("pid_flush")
  /\ pid_cache' = [p \in Pids |-> None]
  /\ pid_changed' = {}
  /\ answer' = None
  /\ UNCHANGED <<guest, v2p_cache, freed, pc, call, v2p_changed, steady>>

\* vmi_pid_to_dtb: from the cache, or from the guest's process list and into the cache.
\* The call goes on at the given step, or fails.
vmi_pid_to_dtb(step) ==
  LET Found(dtb) == pc' = step /\ call' = [call EXCEPT !.dtb = dtb] /\ answer' = answer
  IN  \/ /\ call.pid = Kernel
         /\ Found(Kpgd)
         /\ UNCHANGED <<pid_cache, freed>>
      \/ /\ call.pid \in Pids /\ pid_cache[call.pid] # None
         /\ Found(pid_cache[call.pid])
         /\ UNCHANGED <<pid_cache, freed>>
      \/ /\ call.pid \in Pids /\ pid_cache[call.pid] = None /\ pgd[call.pid] # None
         /\ Found(pgd[call.pid])
         /\ pid_cache_set(call.pid, pgd[call.pid])
      \/ /\ call.pid \in Pids /\ pid_cache[call.pid] = None /\ pgd[call.pid] = None
         /\ Return(None)
         /\ UNCHANGED <<pid_cache, freed>>

Resolve ==
  /\ At("dtb")
  /\ vmi_pid_to_dtb("lookup")
  /\ UNCHANGED <<guest, v2p_cache, ghosts>>

\* v2p_cache_get
Get ==
  /\ At("lookup")
  /\ pc' = IF v2p_cache[call.dtb][call.va] # None THEN "verify" ELSE "walk"
  /\ UNCHANGED <<guest, caches, call, answer, ghosts>>

\* A byte of the cached page is read to "verify that address is still valid".
Verify ==
  /\ At("verify")
  /\ \/ /\ Return(v2p_cache[call.dtb][call.va])
        /\ UNCHANGED v2p_cache
     \/ /\ v2p_cache[call.dtb][call.va] \in Vanish
        /\ v2p_cache_del(call.dtb, call.va)
        /\ pc' = "walk"
        /\ UNCHANGED <<call, answer>>
  /\ UNCHANGED <<guest, pid_cache, freed, ghosts>>

\* The page tables translate the address, and the cache takes the translation.
Found ==
  /\ At("walk") \/ At("extended")
  /\ pt[call.dtb][call.va] # None
  /\ v2p_cache_set(call.dtb, call.va, pt[call.dtb][call.va])
  /\ Return(pt[call.dtb][call.va])
  /\ UNCHANGED <<guest, pid_cache, ghosts>>

\* The page tables do not.
NotFound ==
  /\ At("walk") \/ At("extended")
  /\ pt[call.dtb][call.va] = None
  /\ IF pc = "walk" /\ call.op = "uv2p" THEN pc' = "retry" /\ UNCHANGED <<call, answer>>
     ELSE Return(None)
  /\ UNCHANGED <<guest, caches, ghosts>>

\* vmi_translate_uv2p drops the cached directory and resolves the pid again; with
\* nothing to drop it fails.
Retry ==
  /\ At("retry")
  /\ IF call.pid \in Pids /\ pid_cache[call.pid] # None
     THEN /\ pid_cache' = [pid_cache EXCEPT ![call.pid] = None]
          /\ pc' = "dtb2" /\ UNCHANGED <<call, answer>>
     ELSE Return(None) /\ UNCHANGED pid_cache
  /\ UNCHANGED <<guest, v2p_cache, freed, ghosts>>

ResolveAgain ==
  /\ At("dtb2")
  /\ vmi_pid_to_dtb("extended")
  /\ UNCHANGED <<guest, v2p_cache, ghosts>>

Next ==
  \/ \E dtb \in Dtbs, va \in Vas :
       \/ Remap(dtb, va)
       \/ vmi_pagetable_lookup(dtb, va)
       \/ vmi_pagetable_lookup_extended(dtb, va)
       \/ \E pa \in Pas : vmi_v2pcache_add(dtb, va, pa)
  \/ \E pid \in Pids : Switch(pid) \/ \E dtb \in Dtbs : vmi_pidcache_add(pid, dtb)
  \/ \E pid \in Pids \cup {Kernel}, va \in Vas : vmi_translate_uv2p(pid, va)
  \/ \E dtbs \in {{d} : d \in Dtbs} \cup {Dtbs} : vmi_v2pcache_flush(dtbs)
  \/ vmi_pidcache_flush
  \/ Resolve \/ Get \/ Verify \/ Found \/ NotFound \/ Retry \/ ResolveAgain

Spec == Init /\ [][Next]_vars

-----------------------------------------------------------------------------
\* The variables have their types.
TypeOK ==
  /\ pgd \in [Pids -> Dtbs \cup {None}]
  /\ pt \in Tables
  /\ pid_cache \in [Pids -> Dtbs \cup {None}]
  /\ v2p_cache \in Tables
  /\ freed \subseteq (Dtbs \X Vas) \cup Pids
  /\ pc \in {"idle", "dtb", "lookup", "verify", "walk", "extended", "retry", "dtb2"}
  /\ call \in IF pc = "idle" THEN {None} ELSE Call
  /\ answer \in Answer \cup {None}
  /\ v2p_changed \subseteq Dtbs
  /\ pid_changed \subseteq Pids
  /\ steady \in BOOLEAN

\* The page directory a pid has now.
DirectoryOf(pid) == IF pid = Kernel THEN Kpgd ELSE pgd[pid]

\* A flush makes an address space right: what the caches hold of it then is what the guest
\* has, until the guest changes it ("useful if you believe that an entry in the cache is
\* incorrect, or out of date", tiny_libvmi.h:2111).
Fresh ==
  /\ \A d \in Dtbs \ v2p_changed, v \in Vas : v2p_cache[d][v] \in {None, pt[d][v]}
  /\ \A p \in Pids \ pid_changed : pid_cache[p] \in {None, pgd[p]}

\* After a flush, and as long as the guest then leaves process and tables alone, calls
\* answer what the guest's structures say: the address, or failure where there is none.
\* The caches are not seen in it.
AnswerRight ==
  answer # None =>
    LET c == answer.call
        dtb == IF c.op = "uv2p" THEN DirectoryOf(c.pid) ELSE c.dtb
    IN  /\ c.op = "uv2p" => c.pid \notin pid_changed
        /\ dtb # None => dtb \notin v2p_changed
        => answer.pa = IF dtb = None THEN None ELSE pt[dtb][c.va]

\* The lookups never free an entry that is in a table: while processes keep their
\* directories, and the user adds nothing, they insert only what is not there.
Intact == steady => freed = {}

\* Under the same conditions a failed call leaves no translation of its address behind
\* that a later one would use.
FailedNotCached ==
  steady /\ answer # None /\ answer.pa = None /\ answer.call.dtb # None
    => v2p_cache[answer.call.dtb][answer.call.va] = None
=============================================================================
