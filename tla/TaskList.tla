------------------------------ MODULE TaskList ------------------------------
(***************************************************************************)
(* Finding a process in the guest's own list of processes, and its page    *)
(* directory: os/linux/memory.c, os/windows/process.c and                  *)
(* os/windows/memory.c.  Every field is one read of the guest's memory,    *)
(* and the guest goes on between two reads: processes are created at the   *)
(* tail of the list and leave it, their memory keeping its contents until  *)
(* it is used again.                                                       *)
(*                                                                         *)
(* A place is the memory of one task_struct or EPROCESS.  Root is the one  *)
(* that is always there: init_task, with which Linux begins and ends its   *)
(* circular list, or the first process of Windows, whose list runs through *)
(* Head, an anchor that is no process.  A page directory stands for the mm *)
(* that holds it: the pointer to the mm and the directory in it are one    *)
(* read here, so an mm that is used again between the two is left out.     *)
(*                                                                         *)
(* pc is idle or the next read: head, next (the links), field (what is     *)
(* looked for), mm, active, own (the answer's field).                      *)
(***************************************************************************)
EXTENDS Integers, FiniteSets

CONSTANTS
  Oses,       \* "linux", "windows"
  Places, Root, Head,
  Pids, RootPid,
  Pgds, RootPgd,
  None,
  MayFail,    \* TRUE if reads may fail
  MaxForks    \* bound: processes the guest creates

ASSUME PlaceAssumption == Root \in Places /\ Head \notin Places /\ None \notin Places \cup {Head}
ASSUME NameAssumption == /\ RootPid \notin Pids /\ None \notin Pids \cup {RootPid}
                         /\ RootPgd \notin Pgds /\ None \notin Pgds \cup {RootPgd}
ASSUME OsAssumption == Oses \subseteq {"linux", "windows"} /\ MayFail \in BOOLEAN
ASSUME BoundAssumption == MaxForks \in Nat

Nodes == Places \cup {Head}

VARIABLES
  os,
  next, pid, mm, active_mm,  \* the guest's memory; Windows has no active_mm
  listed,                    \* the places in the list
  forks,
  pc, call,
  node, list_head, tmp_next, \* locals
  answer,                    \* the last call and its result
  stayed,                    \* history: places listed, with the same page directory,
                             \* since the call began
  had,                       \* history: what held of a listed process during the call
  spoilt                     \* history: memory was used again, or a read failed

tasks   == <<next, pid, mm, active_mm, listed, forks>>
locals  == <<node, list_head, tmp_next>>
history == <<stayed, had, spoilt>>
vars    == <<os, tasks, pc, call, locals, answer, history>>

AllPids == Pids \cup {RootPid}
AllPgds == Pgds \cup {RootPgd}

Call == [op : {"pid_to_pgd"}, of : AllPids] \cup [op : {"pgd_to_pid"}, of : AllPgds]

ASSUME CallAssumption == None \notin Call

Anchor == IF os = "linux" THEN Root ELSE Head

Init ==
  /\ os \in Oses
  /\ next = [n \in Nodes |-> IF n = Root /\ os = "windows" THEN Head ELSE Root]
  /\ pid = [p \in Places |-> IF p = Root THEN RootPid ELSE None]
  /\ mm = [p \in Places |-> IF p = Root /\ os = "windows" THEN RootPgd ELSE None]
  /\ active_mm = [p \in Places |-> IF p = Root /\ os = "linux" THEN RootPgd ELSE None]
  /\ listed = {Root}
  /\ forks = 0
  /\ pc = "idle" /\ call = None
  /\ node = Root /\ list_head = Root /\ tmp_next = Root
  /\ answer = None
  /\ stayed = {} /\ had = {} /\ spoilt = FALSE

-----------------------------------------------------------------------------
(* The guest. *)

Used == {mm[p] : p \in listed} \cup {active_mm[p] : p \in listed}

\* The page directory that a process uses.
PgdOf(p) == IF mm[p] = None THEN active_mm[p] ELSE mm[p]

\* What a guest step does to the histories of the call that runs, if one does and is not spoilt.
Witnessed(stay, facts, reused) ==
  /\ answer' = IF pc = "idle" THEN None ELSE answer
  /\ spoilt' = (pc # "idle" /\ (spoilt \/ reused))
  /\ IF pc = "idle" \/ spoilt'
     THEN stayed' = {} /\ had' = {}
     ELSE stayed' = stay /\ had' = had \cup facts

\* A process, or without a page directory a kernel thread, is put at the tail.
Fork(p, id, pgd) ==
  /\ forks < MaxForks /\ p \notin listed
  /\ id \notin {pid[q] : q \in listed}
  /\ pgd \in (Pgds \ Used) \cup (IF os = "linux" THEN {None} ELSE {})
  /\ next' = [next EXCEPT ![p] = Anchor,
                          ![CHOOSE n \in listed \cup {Anchor} : next[n] = Anchor] = p]
  /\ pid' = [pid EXCEPT ![p] = id]
  /\ mm' = [mm EXCEPT ![p] = pgd]
  /\ active_mm' = [active_mm EXCEPT ![p] = IF os = "linux" THEN pgd ELSE None]
  /\ listed' = listed \cup {p}
  /\ forks' = forks + 1
  /\ Witnessed(stayed, {<<id, pgd>>}, pid[p] # None)
  /\ UNCHANGED <<os, pc, call, locals>>

\* Linux: an exiting process gives its mm up and keeps using it.
ExitMm(p) ==
  /\ os = "linux" /\ p \in listed /\ mm[p] # None
  /\ mm' = [mm EXCEPT ![p] = None]
  /\ Witnessed(stayed \ {p}, {}, FALSE)
  /\ UNCHANGED <<os, next, pid, active_mm, listed, forks, pc, call, locals>>

\* Linux: a kernel thread runs with the page directory of the process before it, or stops.
Borrow(p, pgd) ==
  /\ os = "linux" /\ p \in listed /\ mm[p] = None
  /\ pgd \in {mm[q] : q \in listed} \cup {None} /\ pgd # active_mm[p]
  /\ active_mm' = [active_mm EXCEPT ![p] = pgd]
  /\ Witnessed(stayed \ {p}, {<<pid[p], pgd>>}, FALSE)
  /\ UNCHANGED <<os, next, pid, mm, listed, forks, pc, call, locals>>

\* The process leaves the list; its memory stays as it is, with its own link (list_del_rcu).
\* Outside a call nothing depends on that memory.
Exit(p) ==
  /\ p \in listed \ {Root} /\ (os = "linux" => mm[p] = None)
  /\ next' = [n \in Nodes |-> IF next[n] = p /\ n \in listed \cup {Anchor} THEN next[p]
                              ELSE IF n = p /\ pc = "idle" THEN Root ELSE next[n]]
  /\ listed' = listed \ {p}
  /\ pid' = IF pc = "idle" THEN [pid EXCEPT ![p] = None] ELSE pid
  /\ mm' = IF pc = "idle" THEN [mm EXCEPT ![p] = None] ELSE mm
  /\ active_mm' = IF pc = "idle" THEN [active_mm EXCEPT ![p] = None] ELSE active_mm
  /\ Witnessed(stayed \ {p}, {}, FALSE)
  /\ UNCHANGED <<os, forks, pc, call, locals>>

\* What may be taken into use: what a call can meet in memory, and one of the others, which
\* are alike.  Between two calls that is only what is in use.
ToUse(values, used, met) ==
  LET known == IF pc = "idle" THEN used ELSE met \cup {call.of}
      fresh == values \ (known \cup used)
  IN  (values \ (used \cup fresh)) \cup (IF fresh = {} THEN {} ELSE {CHOOSE v \in fresh : TRUE})

Guest ==
  \/ \E p \in ToUse(Places, listed, {q \in Places : pid[q] # None}),
        id \in ToUse(Pids, {pid[q] : q \in listed}, {pid[q] : q \in Places}),
        pgd \in ToUse(Pgds, Used, {mm[q] : q \in Places} \cup {active_mm[q] : q \in Places})
                \cup {None} : Fork(p, id, pgd)
  \/ \E p \in Places : ExitMm(p) \/ Exit(p)
  \/ \E p \in Places, pgd \in Pgds \cup {None} : Borrow(p, pgd)

-----------------------------------------------------------------------------
(* The calls. *)

Answers(ok, result) ==
  /\ answer' = [call |-> call, ok |-> ok, result |-> result]
  /\ pc' = "idle" /\ call' = None
  /\ node' = Root /\ list_head' = Root /\ tmp_next' = Root

Returns(ok, result) == Answers(ok, result) /\ UNCHANGED <<os, tasks, history>>

Spoilt == spoilt' = TRUE /\ stayed' = {} /\ had' = {}

GoTo(step) == /\ pc' = step
              /\ UNCHANGED <<os, tasks, call, locals, answer, history>>

Visit(n, step) ==
  /\ node' = n
  /\ pc' = step
  /\ UNCHANGED <<os, tasks, call, list_head, tmp_next, answer, history>>

\* os_pid_to_pgd and os_pgd_to_pid.  A process that left long ago is nothing to find.
Begin(c) ==
  /\ pc = "idle"
  /\ call' = c
  /\ pc' = IF os = "windows" THEN "head" ELSE IF c.op = "pid_to_pgd" THEN "field" ELSE "mm"
  /\ node' = Root /\ list_head' = Root /\ tmp_next' = Root
  /\ answer' = None
  /\ stayed' = listed /\ had' = {<<pid[p], PgdOf(p)>> : p \in listed} /\ spoilt' = FALSE
  /\ UNCHANGED <<os, tasks>>

-----------------------------------------------------------------------------
(* os/linux/memory.c *)

\* The first read of each task: linux_get_taskstruct_addr_from_pid and _from_pgd.
First == IF call.op = "pid_to_pgd" THEN "field" ELSE "mm"

LinuxField ==
  /\ os = "linux" /\ pc = "field" /\ node \in Places
  /\ GoTo(IF pid[node] = call.of THEN "mm" ELSE "next")

\* A pointer to the page directory was read from the task.  Without one pid_to_pgd returns
\* VMI_SUCCESS and no result.
Follow(pgd) ==
  CASE call.op = "pid_to_pgd" -> Returns(TRUE, pgd)
    [] call.op = "pgd_to_pid" /\ pgd = call.of -> GoTo("own")
    [] call.op = "pgd_to_pid" /\ pgd # call.of -> GoTo("next")

LinuxMm ==
  /\ os = "linux" /\ pc = "mm" /\ node \in Places
  /\ IF mm[node] = None THEN GoTo("active") ELSE Follow(mm[node])

LinuxActive ==
  /\ os = "linux" /\ pc = "active" /\ node \in Places
  /\ Follow(active_mm[node])

\* Mutant: the search ends at the last task instead of after it.
Continues_NotLast(n) == next[n] # Root

\* Mutant: the end is expected where a link is null.
Continues_TillNull(n) == n # None

Continues(n) == n # Root

LinuxNext ==
  /\ os = "linux" /\ pc = "next" /\ node \in Places
  /\ IF Continues(next[node]) THEN Visit(next[node], First) ELSE Returns(FALSE, None)

LinuxOwn ==
  /\ os = "linux" /\ pc = "own"
  /\ Returns(TRUE, pid[node])

(***************************************************************************)
(* The searches ignore that a read failed.  A task whose fields cannot be  *)
(* read is passed over, and an mm that cannot is taken for none; after a   *)
(* link that cannot be read the address is moved by the offset of the link *)
(* and read from again, away from the list (None), for as long as nothing  *)
(* there looks like the process.                                           *)
(***************************************************************************)
LinuxReadFails ==
  /\ os = "linux" /\ MayFail /\ node \in Places
  /\ \/ /\ pc = "field" \/ (pc \in {"mm", "active"} /\ call.op = "pgd_to_pid")
        /\ pc' = "next"
        /\ UNCHANGED <<call, locals, answer>>
     \/ /\ pc = "mm"
        /\ pc' = "active"
        /\ UNCHANGED <<call, locals, answer>>
     \/ /\ pc = "own" \/ (pc \in {"mm", "active"} /\ call.op = "pid_to_pgd")
        /\ Answers(FALSE, None)
     \/ /\ pc = "next"
        /\ node' = None
        /\ UNCHANGED <<pc, call, list_head, tmp_next, answer>>
  /\ Spoilt
  /\ UNCHANGED <<os, tasks>>

\* The loop goes on with whatever is at the addresses it has come to.
LinuxStray ==
  /\ os = "linux" /\ node = None
  /\ GoTo(IF pc = "next" THEN First ELSE "next")

-----------------------------------------------------------------------------
(* eprocess_list_search of os/windows/process.c *)

SameField(p) == call.of = IF call.op = "pid_to_pgd" THEN pid[p] ELSE mm[p]

Matches(p) == p \in Places /\ SameField(p)

\* The list's second entry is where the search will end.
WindowsHead ==
  /\ os = "windows" /\ pc = "head"
  /\ list_head' = next[Root]
  /\ pc' = "field"
  /\ UNCHANGED <<os, tasks, call, node, tmp_next, answer, history>>

\* The first process is compared before the loop, the others in it.
WindowsRoot ==
  /\ os = "windows" /\ pc = "field" /\ node = Root /\ tmp_next = Root
  /\ IF Matches(Root) THEN GoTo("own") ELSE Visit(list_head, "next")

EndsAt(n) == n = list_head

WindowsNext ==
  /\ os = "windows" /\ pc = "next"
  /\ IF EndsAt(next[node]) THEN Returns(FALSE, None)
     ELSE /\ tmp_next' = next[node]
          /\ pc' = "compare"
          /\ UNCHANGED <<os, tasks, call, node, list_head, answer, history>>

WindowsField ==
  /\ os = "windows" /\ pc = "compare"
  /\ IF Matches(node) THEN GoTo("own") ELSE Visit(tmp_next, "next")

\* Mutant: the field of the next process is read.
Found_Next == IF tmp_next \in Places THEN tmp_next ELSE node

Found == node

\* windows_pid_to_pgd and windows_pgd_to_pid.
WindowsOwn ==
  /\ os = "windows" /\ pc = "own"
  /\ Returns(TRUE, IF call.op = "pid_to_pgd" THEN mm[Found] ELSE pid[Found])

\* Here every read is checked.
WindowsReadFails ==
  /\ os = "windows" /\ MayFail /\ pc # "idle"
  /\ Answers(FALSE, None)
  /\ Spoilt
  /\ UNCHANGED <<os, tasks>>

Reads == \/ LinuxField \/ LinuxMm \/ LinuxActive \/ LinuxNext \/ LinuxOwn \/ LinuxStray
         \/ WindowsHead \/ WindowsRoot \/ WindowsNext \/ WindowsField \/ WindowsOwn

Next == \/ \E c \in Call : Begin(c)
        \/ Reads \/ LinuxReadFails \/ WindowsReadFails
        \/ Guest

Spec == Init /\ [][Next]_vars

\* A call runs to its end in the caller's thread.
FairSpec == Spec /\ WF_vars(Reads)

-----------------------------------------------------------------------------
(* Properties. *)

\* The variables have their types.
TypeOK ==
  /\ os \in Oses
  /\ next \in [Nodes -> Nodes]
  /\ pid \in [Places -> AllPids \cup {None}]
  /\ mm \in [Places -> AllPgds \cup {None}] /\ active_mm \in [Places -> AllPgds \cup {None}]
  /\ listed \subseteq Places /\ Root \in listed
  /\ forks \in 0 .. MaxForks
  /\ pc \in {"idle", "head", "next", "field", "compare", "mm", "active", "own"}
  /\ call \in Call \cup {None} /\ (call = None => pc = "idle")
  /\ node \in Nodes \cup {None} /\ list_head \in Nodes /\ tmp_next \in Nodes
  /\ pc = "own" => node \in Places
  /\ answer = None \/ /\ answer.call \in Call /\ answer.ok \in BOOLEAN
                      /\ answer.result \in AllPids \cup AllPgds \cup {None}
  /\ stayed \subseteq Places /\ spoilt \in BOOLEAN
  /\ had \subseteq AllPids \X (AllPgds \cup {None})

\* The processes that a call should find.
Sought(c) ==
  {p \in stayed : c.of = IF c.op = "pid_to_pgd" THEN pid[p] ELSE PgdOf(p)}

(***************************************************************************)
(* A process that is in the list, with its page directory, from the        *)
(* beginning of the call to its end is found, whatever comes and goes      *)
(* around it and wherever the search stands when that happens, even on a   *)
(* process that has left: "not found" means not there.                     *)
(***************************************************************************)
FoundIfThere ==
  answer # None /\ ~spoilt /\ Sought(answer.call) # {} => answer.ok

(***************************************************************************)
(* What a call reports held of a process at some time during the call,     *)
(* although pid and page directory are read one after the other.           *)
(***************************************************************************)
AnswerHeld ==
  answer # None /\ answer.ok /\ ~spoilt =>
    IF answer.call.op = "pid_to_pgd" THEN <<answer.call.of, answer.result>> \in had
                                     ELSE <<answer.result, answer.call.of>> \in had

\* The searches stand on entries of the list or on none, and their answers are true.
AnswersTrue == TypeOK /\ AnswerHeld

(***************************************************************************)
(* A search of a changing list ends (with FairSpec).  There are two ways   *)
(* out of the list for good: a failed read of a link, in Linux, and the    *)
(* exit of the second process of Windows, whose entry the search has       *)
(* chosen to end at.                                                       *)
(***************************************************************************)
SearchEnds ==
  pc # "idle" ~> \/ pc = "idle" \/ node = None
                 \/ os = "windows" /\ list_head \notin listed \cup {Head}
=============================================================================
