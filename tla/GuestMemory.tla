----------------------------- MODULE GuestMemory -----------------------------
(***************************************************************************)
(* Reading a guest's memory: the page table walks of arch/intel.c and      *)
(* arch/amd64.c, which read one entry of the guest's tables per level, and *)
(* the loops of read.c that walk once per page - while the guest writes to *)
(* its tables.  The caches in front of the walk are Translation's, those   *)
(* below it MemoryCache's.                                                 *)
(*                                                                         *)
(* An address is a number whose bits are cut out as the code cuts them; a  *)
(* field's place is given by the powers of two that bound it.  A byte is   *)
(* named by the physical address it was read from.                         *)
(* pc is idle, read (the head of the loop of vmi_read or vmi_read_str) or  *)
(* walk (about to read the entry for va at level in table).                *)
(*                                                                         *)
(* MemInit, MemNext and the like are so named because Memory_proofs speaks *)
(* of this module and MemoryCache together.                                *)
(***************************************************************************)
EXTENDS Integers, Sequences

CONSTANTS
  Modes,              \* vmi->page_mode: "legacy", "pae", "ia32e"
  PageSize,           \* 2 ^ 12 in the code
  Fanout,             \* entries of a table: 2 ^ 9, or 2 ^ 10 in legacy mode
  Low, Mid, Full,     \* limits of physical addresses: 2 ^ 32, 2 ^ 36 and 2 ^ 52
  Frames,             \* physical addresses of the pages of the guest's memory
  Dtb,                \* physical address of the root table
  Written,            \* the pages the guest writes to
  Entries,            \* page table entries the guest writes
  Tables(_),          \* by mode, its tables at first
  Nul,                \* physical addresses of zero bytes
  Calls,              \* what the user calls: "lookup", "read", "read_str"
  Starts, Counts,     \* addresses and lengths the user asks for
  MaxWrites, MaxLen,  \* bounds: the guest's writes, the length of a string
  Nothing

Depth == [legacy |-> 2, pae |-> 3, ia32e |-> 4]
Slots == 0 .. Fanout - 1
Frame == {a \in 0 .. Full - 1 : a % PageSize = 0}

\* What an entry maps that is found at a level, 1 the lowest: a page, or a table of them.
SizeOf(l) == <<PageSize, PageSize * Fanout, PageSize * Fanout * Fanout,
               PageSize * Fanout * Fanout * Fanout>>[l]

\* addr: the address bits; p: present; ps: maps a large page; tr: in transition, with the
\* prototype bit clear.
Entry == [addr : Frame, p : BOOLEAN, ps : BOOLEAN, tr : BOOLEAN]

ASSUME ModeAssumption == Modes \subseteq DOMAIN Depth
ASSUME WidthAssumption ==
  /\ {PageSize, Low, Mid, Full} \subseteq Nat \ {0}
  /\ Fanout \in Nat \ {0, 1}
  /\ Low <= Mid /\ Mid <= Full
  /\ \A limit \in {Low, Mid, Full} : limit % PageSize = 0
ASSUME MemoryAssumption ==
  /\ Frames \subseteq Frame
  /\ Dtb \in Frames /\ Dtb # 0 /\ Written \subseteq Frames
  /\ Entries \subseteq Entry
  /\ \A m \in Modes :
       /\ Tables(m) \in [Frames -> [Slots -> Entry]]
       /\ m = "legacy" => \A t \in Frames, s \in Slots : Tables(m)[t][s].addr < Low
ASSUME CallAssumption ==
  /\ Starts \subseteq Nat /\ Counts \subseteq Nat
  /\ MaxWrites \in Nat /\ MaxLen \in Nat

VARIABLES
  mode, pse, transition,  \* page_mode, x86.pse, x86.transition_pages
  os_type,                \* is it known?
  mem,                    \* the guest's pages, read as tables
  pc, call,
  va, level, table,       \* of the walk
  buf,                    \* the bytes read, each by its physical address
  answer,                 \* the last call and its result
  touched,                \* history: entries written to since the call began
  writes                  \* number of the guest's writes

config == <<mode, pse, transition, os_type>>
walk   == <<va, level, table>>
memVars == <<config, mem, pc, call, walk, buf, answer, touched, writes>>

Op == [op : {"lookup"}, va : Starts, count : {0}]
      \cup [op : {"read"}, va : Starts, count : Counts]
      \cup [op : {"read_str"}, va : Starts, count : {0}]

MemInit ==
  /\ mode \in Modes
  /\ pse \in BOOLEAN /\ (mode # "legacy" => ~pse)  \* of no consequence in other modes
  /\ transition \in BOOLEAN /\ os_type \in BOOLEAN
  /\ mem = Tables(mode)
  /\ pc = "idle" /\ call = Nothing
  /\ va = 0 /\ level = 0 /\ table = 0
  /\ buf = <<>> /\ answer = Nothing
  /\ touched = {} /\ writes = 0

\* The guest maps, unmaps or moves something.  Legacy entries have 32 bits.
GuestWrites(t, s, e) ==
  /\ writes < MaxWrites
  /\ mode = "legacy" => e.addr < Low
  /\ mem[t][s] # e
  /\ mem' = [mem EXCEPT ![t][s] = e]
  /\ touched' = IF pc = "idle" THEN {} ELSE touched \cup {<<t, s>>}
  /\ answer' = IF pc = "idle" THEN Nothing ELSE answer
  /\ writes' = writes + 1
  /\ UNCHANGED <<config, pc, call, walk, buf>>

-----------------------------------------------------------------------------
(* Cutting an entry into its fields. *)

\* The bits of x from lo up to hi, two powers of two, in place.
Bits(x, lo, hi) == ((x \div lo) * lo) % hi

\* get_pml4_index, pdpi_index, pgd_index_pae, ...: the slot for v at a level, 1 the lowest.
Index(v, l) == (v \div SizeOf(l)) % Fanout

\* ENTRY_PRESENT.
EntryPresent(allowed, e) == e.p \/ (allowed /\ e.tr)

\* Mutant: large pages whatever CR4 says.
MapsPage_IgnoresPse(l, e) ==
  \/ l = 1
  \/ e.ps /\ (l = 2 \/ (l = 3 /\ mode = "ia32e"))

\* Does an entry of the level map a page?  A table of the lowest level maps pages only.
MapsPage(l, e) ==
  \/ l = 1
  \/ e.ps /\ \/ l = 2 /\ (mode = "legacy" => pse)
             \/ l = 3 /\ mode = "ia32e"

\* The bits of an entry that the code takes for the next table's address (pdba_base_*,
\* ptba_base_*, the masks of amd64.c) and for the page's (get_paddr_*, get_large_paddr_*,
\* get_2megpage_ia32e, get_gigpage_ia32e).
TableLimit(l) == CASE mode = "legacy" -> Low
                   [] mode = "pae" /\ l = 2 -> Mid
                   [] OTHER -> Full
PageLimit(l) == CASE mode = "legacy" \/ (mode = "pae" /\ l = 2) -> Low
                  [] mode = "pae" /\ l = 1 -> Mid
                  [] OTHER -> Full

NextTable(l, e) == Bits(e.addr, PageSize, TableLimit(l))

PagePlus(l, e, v) == Bits(e.addr, SizeOf(l), PageLimit(l)) + (v % SizeOf(l))

-----------------------------------------------------------------------------
(* The user's calls. *)

\* ok: VMI_SUCCESS, or a string other than NULL.
Returns(ok, pa, size, bytes) ==
  /\ answer' = [call |-> call, ok |-> ok, pa |-> pa, size |-> size, bytes |-> bytes]
  /\ pc' = "idle"
  /\ UNCHANGED <<config, mem, call, walk, buf, touched, writes>>

Begin(c, step) ==
  /\ pc = "idle" /\ c.op \in Calls
  /\ call' = c
  /\ pc' = step
  /\ va' = c.va /\ level' = Depth[mode] /\ table' = Dtb
  /\ buf' = <<>> /\ answer' = Nothing /\ touched' = {}
  /\ UNCHANGED <<config, mem, writes>>

\* vmi_pagetable_lookup_extended.
Lookup(c) == c.op = "lookup" /\ Begin(c, "walk")

\* vmi_read and vmi_read_str in an address space given by its page directory.
Read(c) == c.op # "lookup" /\ Begin(c, "read")

\* The loop's head.  vmi_read adds what it has read to the address it was given,
\* vmi_read_str to the address of the page before.
ReadOn ==
  /\ pc = "read"
  /\ call.op = "read" => Len(buf) < call.count
  /\ Len(buf) < MaxLen
  /\ va' = IF call.op = "read" THEN call.va + Len(buf) ELSE va + Len(buf)
  /\ level' = Depth[mode] /\ table' = Dtb
  /\ pc' = "walk"
  /\ UNCHANGED <<config, mem, call, buf, answer, touched, writes>>

ReadAll ==
  /\ pc = "read"
  /\ call.op = "read" /\ Len(buf) = call.count
  /\ Returns(TRUE, Nothing, 0, buf)

\* Strings longer than MaxLen are given up.
GiveUp ==
  /\ pc = "read"
  /\ Len(buf) >= MaxLen /\ (call.op = "read" => Len(buf) < call.count)
  /\ Returns(FALSE, Nothing, 0, buf)

-----------------------------------------------------------------------------
(* The page of a walk that succeeded. *)

PageOf(pa) == Bits(pa, PageSize, Full)

From(pa, n) == [i \in 1 .. n |-> pa + i - 1]

\* Mutant: the rest of the count is copied from one page.
ReadLen_Count(pa, count) == count

\* How much of the page is wanted.
ReadLen(pa, count) ==
  IF (pa % PageSize) + count > PageSize THEN PageSize - (pa % PageSize) ELSE count

\* The characters from pa to a zero byte, or to the end of the page.
StrLen(pa) ==
  LET rest == PageSize - (pa % PageSize)
      stop == {n \in 0 .. rest - 1 : pa + n \in Nul}
  IN IF stop = {} THEN rest ELSE CHOOSE n \in stop : \A m \in stop : n <= m

CopyTo(bytes) ==
  /\ buf' = buf \o bytes
  /\ pc' = "read"
  /\ UNCHANGED <<config, mem, call, walk, answer, touched, writes>>

\* A string that ends within the page is returned.
CopyStr(pa) ==
  LET n == StrLen(pa) IN
  IF (pa % PageSize) + n < PageSize
  THEN Returns(TRUE, Nothing, 0, buf \o From(pa, n))
  ELSE CopyTo(From(pa, n))

\* A page is not found, or cannot be read.  vmi_read_str then returns what it has of the
\* string like any other, and NULL only if that is nothing.
NotFound == Returns(call.op = "read_str" /\ buf # <<>>, Nothing, 0, buf)

\* The caller's next step, with the address the walk found.
Found(pa, size) ==
  CASE call.op = "lookup" -> Returns(TRUE, pa, size, <<>>)
    [] call.op # "lookup" /\ PageOf(pa) \notin Frames -> NotFound
    [] call.op = "read" /\ PageOf(pa) \in Frames ->
         CopyTo(From(pa, ReadLen(pa, call.count - Len(buf))))
    [] call.op = "read_str" /\ PageOf(pa) \in Frames -> CopyStr(pa)

-----------------------------------------------------------------------------
(* v2p_nopae, v2p_pae and v2p_ia32e: one step for each entry. *)

\* The table is beyond the guest's memory.
EntryUnreadable ==
  /\ pc = "walk" /\ table \notin Frames
  /\ NotFound

\* An absent page directory pointer leaves v2p_pae with the status of the read, and the
\* address 0.
EntryAbsent ==
  /\ pc = "walk" /\ table \in Frames
  /\ ~EntryPresent(transition, mem[table][Index(va, level)])
  /\ IF mode = "pae" /\ level = 3 THEN Found(0, 0) ELSE NotFound

EntryTable ==
  /\ pc = "walk" /\ table \in Frames
  /\ LET e == mem[table][Index(va, level)] IN
       /\ EntryPresent(transition, e)
       /\ ~MapsPage(level, e)
       /\ table' = NextTable(level, e)
  /\ level' = level - 1
  /\ UNCHANGED <<config, mem, pc, call, va, buf, answer, touched, writes>>

EntryPage ==
  /\ pc = "walk" /\ table \in Frames
  /\ LET e == mem[table][Index(va, level)] IN
       /\ EntryPresent(transition, e)
       /\ MapsPage(level, e)
       /\ Found(PagePlus(level, e, va), SizeOf(level))

-----------------------------------------------------------------------------
(***************************************************************************)
(* get_va_pages_nopae, _pae and _ia32e list the pages an address space     *)
(* maps.  At the lower levels ENTRY_PRESENT is given os_type where the     *)
(* walks give it transition_pages; a large legacy page is listed at its    *)
(* virtual address (get_large_paddr_nopae is called with pgd_base_vaddr).  *)
(***************************************************************************)
\* Mutant: entries in transition are left out of the list.
ListAllowed_Never(l) == FALSE

ListAllowed(l) == IF l <= 2 THEN os_type ELSE transition

\* Levels, tables and the base of the addresses they map.
ListFrom[l \in 1 .. 4] == [t \in Nat |-> [base \in Nat |->
  IF t \notin Frames THEN {}
  ELSE UNION {
    LET e == mem[t][s]
        v == base + s * SizeOf(l)
    IN IF ~EntryPresent(ListAllowed(l), e) THEN {}
       ELSE IF MapsPage(l, e)
       THEN {[va |-> v, size |-> SizeOf(l),
              pa |-> IF mode = "legacy" /\ l = 2 THEN v ELSE PagePlus(l, e, v)]}
       ELSE ListFrom[l - 1][NextTable(l, e)][v]
    : s \in Slots}]]

Listed == ListFrom[Depth[mode]][Dtb][0]

-----------------------------------------------------------------------------
Step == \/ ReadOn \/ ReadAll \/ GiveUp
        \/ EntryUnreadable \/ EntryAbsent \/ EntryTable \/ EntryPage

MemNext == \/ \E c \in Op : Lookup(c) \/ Read(c)
           \/ Step
           \/ \E t \in Written, s \in Slots, e \in Entries : GuestWrites(t, s, e)

MemSpec == MemInit /\ [][MemNext]_memVars

-----------------------------------------------------------------------------
(***************************************************************************)
(* What the processor's manual says of the tables as they are.             *)
(***************************************************************************)
Present(e) == e.p \/ (transition /\ e.tr)

Large(l, e) == e.ps /\ \/ l = 2 /\ (mode = "legacy" => pse)
                       \/ l = 3 /\ mode = "ia32e"

\* The entry of a table t of level l that v selects, by its place and itself.
Selected(v, l, t) == <<t, (v \div SizeOf(l)) % Fanout>>
At(pos) == mem[pos[1]][pos[2]]

\* The entries that are looked at for v from a table on.
PathFrom(v) ==
  LET from[l \in 1 .. 4] == [t \in Nat |->
        LET pos == Selected(v, l, t)
            e == At(pos)
        IN IF t \notin Frames THEN {}
           ELSE IF l > 1 /\ Present(e) /\ ~Large(l, e) THEN {pos} \cup from[l - 1][e.addr]
           ELSE {pos}]
  IN from

\* Where v is, if anywhere, by the tables from one on.
Nowhere == [ok |-> FALSE, pa |-> 0, size |-> 0]
PlaceFrom(v) ==
  LET from[l \in 1 .. 4] == [t \in Nat |->
        LET e == At(Selected(v, l, t))
        IN IF t \notin Frames THEN Nowhere
           ELSE IF ~Present(e) THEN Nowhere
           ELSE IF l > 1 /\ ~Large(l, e) THEN from[l - 1][e.addr]
           ELSE [ok |-> TRUE, pa |-> e.addr - (e.addr % SizeOf(l)) + (v % SizeOf(l)),
                 size |-> SizeOf(l)]]
  IN from

PathTo(v) == PathFrom(v)[Depth[mode]][Dtb]
Translate(v) == PlaceFrom(v)[Depth[mode]][Dtb]

\* The PAE code keeps the low 36 bits of an address, and 32 of a large page's.
Narrow(e) == e.addr < (IF e.ps THEN Low ELSE Mid)
Fits(v) == mode = "pae" => \A pos \in PathTo(v) : Narrow(At(pos))

\* An address under an absent page directory pointer.
PaeHole(v) == mode = "pae" /\ ~Present(At(Selected(v, 3, Dtb)))

\* The guest left alone what maps v.
Steady(v) == PathTo(v) \cap touched = {}

Predictable(v) == Steady(v) /\ Fits(v) /\ ~PaeHole(v)

Readable(v) == Translate(v).ok /\ PageOf(Translate(v).pa) \in Frames

-----------------------------------------------------------------------------
(* Properties. *)

Answer == [call : Op, ok : BOOLEAN, pa : Nat \cup {Nothing}, size : Nat, bytes : Seq(Nat)]

\* The variables have their types.
MemTypeOK ==
  /\ mode \in Modes /\ pse \in BOOLEAN /\ transition \in BOOLEAN /\ os_type \in BOOLEAN
  /\ mem \in [Frames -> [Slots -> Entry]]
  /\ mode = "legacy" => \A t \in Frames, s \in Slots : mem[t][s].addr < Low
  /\ pc \in {"idle", "read", "walk"}
  /\ pc # "idle" => call \in Op
  /\ va \in Nat /\ table \in Nat /\ level \in 0 .. 4
  /\ pc = "walk" => level \in 1 .. Depth[mode] /\ table % PageSize = 0
  /\ buf \in Seq(Nat) /\ (pc # "idle" /\ call.op = "read" => Len(buf) <= call.count)
  /\ answer \in Answer \cup {Nothing}
  /\ touched \subseteq Frames \X Slots
  /\ writes \in 0 .. MaxWrites

(***************************************************************************)
(* A walk finds an address exactly when the tables map it, and finds the   *)
(* place and the size the processor would, in every paging mode, with      *)
(* large pages at any level, and whatever the guest writes elsewhere in    *)
(* its tables meanwhile (v2p_nopae, v2p_pae, v2p_ia32e).                   *)
(***************************************************************************)
WalkAgrees ==
  answer # Nothing /\ answer.call.op = "lookup" /\ Predictable(answer.call.va) =>
    LET t == Translate(answer.call.va) IN
    /\ answer.ok <=> t.ok
    /\ t.ok => answer.pa = t.pa /\ answer.size = t.size

\* The walks stay within the tables and their answers are right.
WalksRight == MemTypeOK /\ WalkAgrees

\* The virtual address of the i-th byte of a read.
ByteAt(c, i) == c.va + i - 1

\* Bytes whose place vmi_read_str knows: those of the first page and of the next.
InReach(c, i) == c.op = "read_str" => i <= 2 * PageSize - (c.va % PageSize)

\* A read that falls into the hole under an absent page directory pointer takes a page's
\* worth of bytes from there, also for addresses beyond the hole.
NoHole(c, i) ==
  mode = "pae" => \A j \in 1 .. i : Steady(ByteAt(c, j)) /\ ~PaeHole(ByteAt(c, j))

Foreseen(c, i) == InReach(c, i) /\ NoHole(c, i) /\ Predictable(ByteAt(c, i))

\* The bytes are those of their addresses, and none of a string's is its end.
Correct(c, bytes) ==
  \A i \in 1 .. Len(bytes) :
    Foreseen(c, i) =>
      /\ Readable(ByteAt(c, i))
      /\ bytes[i] = Translate(ByteAt(c, i)).pa
      /\ c.op = "read_str" => bytes[i] \notin Nul

\* What comes after the n bytes a call has delivered.  The end of a string that is cut off
\* looks to its caller like a zero byte.
EndsRight(c, ok, n) ==
  LET next == ByteAt(c, n + 1) IN
  IF ok
  THEN c.op = "read_str" => \/ Readable(next) /\ Translate(next).pa \in Nul
                            \/ n > 0 /\ ~Readable(next)
  ELSE n < MaxLen => ~Readable(next)

(***************************************************************************)
(* Every byte vmi_read and vmi_read_str deliver, also before a failure, is *)
(* the one its virtual address maps at the time, and comes before the      *)
(* string's end.  A count is complete, and vmi_read fails only at a page   *)
(* that cannot be read.  A string ends at its zero byte or, cut off, at a  *)
(* page that cannot be read; NULL means that its first page cannot.        *)
(* Nothing is said of bytes that are not Foreseen: those of a string       *)
(* beyond its second page, and those after a hole of a PAE table.          *)
(***************************************************************************)
BytesAgree ==
  answer # Nothing /\ answer.call.op # "lookup" =>
    LET c == answer.call
        n == Len(answer.bytes)
    IN /\ Correct(c, answer.bytes)
       /\ answer.ok /\ c.op = "read" => n = c.count
       /\ ~answer.ok /\ c.op = "read_str" /\ n < MaxLen => n = 0
       /\ Foreseen(c, n + 1) => EndsRight(c, answer.ok, n)

\* A listed page has v where t says.
ShownAt(page, v, t) ==
  /\ page.va <= v /\ v < page.va + page.size /\ page.size = t.size
  /\ mode # "legacy" \/ t.size = PageSize => page.pa + (v - page.va) = t.pa

\* The walk to v meets an entry that is in transition, which the list takes for present and
\* the walk for absent, or the other way round.
Doubtful(v) ==
  os_type # transition /\ \E pos \in PathTo(v) : ~At(pos).p /\ At(pos).tr

(***************************************************************************)
(* The list of an address space's pages is complete and agrees with the    *)
(* walk (the search for the kernel in os/linux/core.c and                  *)
(* os/windows/kdbg.c reads the pages of the list).  The exceptions are     *)
(* large legacy pages, which are listed at the wrong place, and pages      *)
(* behind an entry in transition where os_type and transition_pages        *)
(* differ: a Linux guest, or Windows in its initialisation, has such pages *)
(* listed although they are not there (intel.c:415), and a user who asks   *)
(* for transition pages before the system is known has them left out.      *)
(***************************************************************************)
ListAgrees ==
  pc = "idle" /\ answer = Nothing =>
    /\ \A page \in Listed :
         Fits(page.va) /\ ~Doubtful(page.va) =>
           Translate(page.va).ok /\ ShownAt(page, page.va, Translate(page.va))
    /\ \A v \in 0 .. Fanout * SizeOf(Depth[mode]) - 1 :
         Translate(v).ok /\ Fits(v) /\ ~Doubtful(v) =>
           \E page \in Listed : ShownAt(page, v, Translate(v))
=============================================================================
