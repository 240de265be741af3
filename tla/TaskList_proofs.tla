--------------------------- MODULE TaskList_proofs ---------------------------
(***************************************************************************)
(* Theorems about TaskList, for any places, pids and page directories and  *)
(* any number of processes the guest creates: what a search answers is     *)
(* true, and it finds what is there.                                       *)
(*                                                                         *)
(* The argument gives every process a rank, the number of forks before it. *)
(* The list is sorted by rank, and so is everything a search can still     *)
(* stand on: the links of a process that has left lead to processes of     *)
(* higher rank, over the head of none that was there all the time.         *)
(***************************************************************************)
EXTENDS TaskList, TLAPS

\* A call runs, and its histories are kept.
Searching == pc # "idle" /\ ~spoilt

(***************************************************************************)
(* The places of S are linked in the order of r, up to the anchor a, and   *)
(* no link passes over a place of X.                                       *)
(***************************************************************************)
Chain(nx, a, S, X, r) ==
  /\ \A n \in S : nx[n] = a \/ (nx[n] \in S /\ r[n] < r[nx[n]])
  /\ \A p, q \in S : r[p] = r[q] => p = q
  /\ \A n \in S, x \in X : r[n] < r[x] => nx[n] # a /\ r[nx[n]] <= r[x]

\* The list is a chain from Root to the anchor, and each of its entries has one before it.
Listed(r) ==
  /\ r \in [Places -> 0 .. forks] /\ r[Root] = 0
  /\ Chain(next, Anchor, listed, listed, r)
  /\ \A q \in (listed \ {Root}) \cup {Anchor} : \E n \in listed : next[n] = q
  /\ next[Head] = Root

\* S is what the search can stand on: the processes that were in the list during the call.
Met(S, r) ==
  /\ listed \subseteq S
  /\ Chain(next, Anchor, S, stayed, r)
  /\ \A p \in S : pid[p] # None /\ <<pid[p], PgdOf(p)>> \in had
  /\ {node, list_head, tmp_next} \subseteq S \cup {Anchor}

\* What is sought is not behind the search.
Ahead(r) ==
  /\ os = "linux" =>
       \A x \in Sought(call) : /\ pc \in {"field", "mm", "active"} => r[node] <= r[x]
                               /\ pc = "next" => r[node] < r[x]
  /\ os = "windows" =>
       /\ pc = "field" =>
            \A x \in stayed : 0 < r[x] => list_head \in Places /\ r[list_head] <= r[x]
       /\ pc \in {"next", "compare"} =>
            \A x \in Sought(call) : /\ node \in Places /\ list_head \in Places
                                    /\ r[list_head] <= r[node] /\ r[node] <= r[x]
       /\ pc = "compare" =>
            \A x \in Sought(call) : r[node] < r[x] =>
              tmp_next \in Places /\ r[node] < r[tmp_next] /\ r[tmp_next] <= r[x]

\* What the guest's memory holds: Linux keeps in active_mm the mm a process has.
MemoryInv ==
  /\ \A p \in listed : pid[p] # None
  /\ os = "linux" => \A p \in Places : mm[p] # None => active_mm[p] = mm[p]
  /\ os = "windows" => \A p \in Places : active_mm[p] = None

\* Where each search may be; only that of Linux is led off the list.
PlaceInv ==
  /\ node = None => os = "linux" /\ pc # "idle" /\ spoilt
  /\ os = "linux" => /\ pc \notin {"head", "compare"}
                     /\ pc = "field" => call.op = "pid_to_pgd"
                     /\ pc = "own" => call.op = "pgd_to_pid"
  /\ os = "windows" => pc \notin {"mm", "active"}
  /\ os = "windows" /\ pc \in {"head", "field"} => node = Root /\ tmp_next = Root
  /\ stayed \subseteq listed
  /\ pc # "idle" => answer = None

\* What was read before the next read still holds, or held during the call.
ReadInv ==
  Searching =>
    /\ pc = "active" => mm[node] = None
    /\ pc \in {"mm", "active", "own"} /\ call.op = "pid_to_pgd" => pid[node] = call.of
    /\ pc = "own" /\ call.op = "pgd_to_pid" => <<pid[node], call.of>> \in had

ListInv == \E r \in [Places -> 0 .. forks] :
             /\ Listed(r)
             /\ Searching => \E S \in SUBSET Places : Met(S, r) /\ Ahead(r)

Types == TypeOK /\ MemoryInv /\ PlaceInv

IInv == Types /\ ReadInv /\ ListInv /\ AnswerHeld /\ FoundIfThere
-----------------------------------------------------------------------------
(* Types. *)

\* What is taken into use is chosen from the given values.
LEMMA ToUseSubset == ASSUME NEW values, NEW used, NEW met
                     PROVE  ToUse(values, used, met) \subseteq values
<1> DEFINE known == IF pc = "idle" THEN used ELSE met \cup {call.of}
           fresh == values \ (known \cup used)
           one == IF fresh = {} THEN {} ELSE {CHOOSE v \in fresh : TRUE}
<1>1. one \subseteq fresh
  BY Zenon
<1>2. ToUse(values, used, met) = (values \ (used \cup fresh)) \cup one
  BY DEF ToUse
<1> HIDE DEF one
<1> QED
  BY <1>1, <1>2

\* The parameters of the guest's steps.
LEMMA GuestSteps ==
  ASSUME Guest
  PROVE  \/ \E p \in Places, id \in Pids, pgd \in Pgds \cup {None} : Fork(p, id, pgd)
         \/ \E p \in Places : ExitMm(p) \/ Exit(p)
         \/ \E p \in Places, pgd \in Pgds \cup {None} : Borrow(p, pgd)
<1>1. CASE \E p \in ToUse(Places, listed, {q \in Places : pid[q] # None}),
              id \in ToUse(Pids, {pid[q] : q \in listed}, {pid[q] : q \in Places}),
              pgd \in ToUse(Pgds, Used,
                            {mm[q] : q \in Places} \cup {active_mm[q] : q \in Places})
                      \cup {None} : Fork(p, id, pgd)
  BY <1>1, ToUseSubset, Zenon
<1> QED
  BY <1>1, Zenon DEF Guest

\* The initial state is well typed.
LEMMA TypesInit == Init => Types
<1> SUFFICES ASSUME Init PROVE Types
  OBVIOUS
<1>1. /\ next \in [Nodes -> Nodes] /\ pid \in [Places -> AllPids \cup {None}]
      /\ mm \in [Places -> AllPgds \cup {None}] /\ active_mm \in [Places -> AllPgds \cup {None}]
  BY PlaceAssumption, NameAssumption DEF Init, Nodes, AllPids, AllPgds
<1>2. MemoryInv
  BY PlaceAssumption, NameAssumption, OsAssumption DEF Init, MemoryInv
<1>3. PlaceInv
  BY PlaceAssumption DEF Init, PlaceInv
<1> QED
  <2>1. forks \in 0 .. MaxForks
    BY BoundAssumption DEF Init
  <2>2. TypeOK
    <3>1. listed \subseteq Places /\ Root \in listed /\ node \in Nodes \cup {None}
          /\ list_head \in Nodes /\ tmp_next \in Nodes
      BY PlaceAssumption DEF Init, Nodes
    <3>2. stayed \subseteq Places /\ spoilt \in BOOLEAN
          /\ had \subseteq AllPids \X (AllPgds \cup {None})
      BY DEF Init
    <3>3. pc = "idle" /\ call = None /\ answer = None /\ os \in Oses
      BY DEF Init
    <3> QED
      BY <1>1, <2>1, <3>1, <3>2, <3>3 DEF TypeOK
  <2> QED
    BY <1>2, <1>3, <2>2 DEF Types

\* What a guest step leaves of the histories is part of what they were, and of what it adds.
LEMMA WitnessedType ==
  ASSUME Types, NEW stay \in SUBSET stayed, NEW facts,
         \E b \in BOOLEAN : Witnessed(stay, facts, b)
  PROVE  /\ answer' = IF pc = "idle" THEN None ELSE answer
         /\ spoilt' \in BOOLEAN
         /\ stayed' \subseteq stay
         /\ had' \subseteq had \cup facts
         /\ pc # "idle" /\ spoilt => spoilt'
<1> PICK b \in BOOLEAN : Witnessed(stay, facts, b)
  OBVIOUS
<1>1. spoilt \in BOOLEAN
  BY DEF Types, TypeOK
<1>2. spoilt' \in BOOLEAN /\ (pc # "idle" /\ spoilt => spoilt')
  BY <1>1, Zenon DEF Witnessed
<1>3. CASE pc = "idle" \/ spoilt'
  BY <1>2, <1>3 DEF Witnessed
<1>4. CASE ~(pc = "idle" \/ spoilt')
  BY <1>2, <1>4 DEF Witnessed
<1> QED
  BY <1>3, <1>4

\* A created process keeps the types.
LEMMA ForkTypes ==
  ASSUME Types, NEW p \in Places, NEW id \in Pids, NEW pgd \in Pgds \cup {None},
         Fork(p, id, pgd)
  PROVE  Types'
<1>1. \E b \in BOOLEAN : Witnessed(stayed, {<<id, pgd>>}, b)
  BY DEF Fork
<1>2. /\ answer' = IF pc = "idle" THEN None ELSE answer
      /\ spoilt' \in BOOLEAN
      /\ stayed' \subseteq stayed
      /\ had' \subseteq had \cup {<<id, pgd>>}
      /\ pc # "idle" /\ spoilt => spoilt'
  BY <1>1, WitnessedType
<1>3. next' \in [Nodes -> Nodes]
  BY PlaceAssumption DEF Fork, Types, TypeOK, Nodes, Anchor
<1>4. pid' \in [Places -> AllPids \cup {None}] /\ \A q \in listed' : pid'[q] # None
  BY NameAssumption DEF Fork, Types, TypeOK, AllPids, MemoryInv
<1>5. /\ mm' \in [Places -> AllPgds \cup {None}] /\ active_mm' \in [Places -> AllPgds \cup {None}]
      /\ os = "linux" => \A q \in Places : mm'[q] # None => active_mm'[q] = mm'[q]
      /\ os = "windows" => \A q \in Places : active_mm'[q] = None
  BY OsAssumption DEF Fork, Types, TypeOK, AllPgds, MemoryInv
<1>6. forks' \in 0 .. MaxForks /\ listed' \subseteq Places /\ Root \in listed'
      /\ listed \subseteq listed'
  BY BoundAssumption DEF Fork, Types, TypeOK
<1>7. had' \subseteq AllPids \X (AllPgds \cup {None})
  BY <1>2 DEF Types, TypeOK, AllPids, AllPgds
<1>8. UNCHANGED <<os, pc, call, node, list_head, tmp_next>>
  BY DEF Fork, locals
<1> QED
  BY <1>2, <1>3, <1>4, <1>5, <1>6, <1>7, <1>8 DEF Types, TypeOK, MemoryInv, PlaceInv

\* An exiting process keeps the types.
LEMMA ExitTypes ==
  ASSUME Types, NEW p \in Places, ExitMm(p) \/ Exit(p)
  PROVE  Types'
<1>1. \E b \in BOOLEAN : Witnessed(stayed \ {p}, {}, b)
  BY Zenon DEF Exit, ExitMm
<1>2. /\ answer' = IF pc = "idle" THEN None ELSE answer
      /\ spoilt' \in BOOLEAN
      /\ stayed' \subseteq stayed \ {p}
      /\ had' \subseteq had
      /\ pc # "idle" /\ spoilt => spoilt'
  <2>1. stayed \ {p} \in SUBSET stayed /\ had \cup {} = had
    OBVIOUS
  <2> QED
    BY <1>1, <2>1, WitnessedType, Zenon
<1>3. next' \in [Nodes -> Nodes]
  <2>1. CASE ExitMm(p)
    BY <2>1 DEF ExitMm, Types, TypeOK
  <2>2. CASE Exit(p)
    <3>1. next \in [Nodes -> Nodes] /\ Root \in Nodes /\ p \in Nodes
      BY PlaceAssumption DEF Types, TypeOK, Nodes
    <3> QED
      BY <2>2, <3>1 DEF Exit
  <2> QED
    BY <2>1, <2>2
<1>4. pid' \in [Places -> AllPids \cup {None}] /\ \A q \in listed' : pid'[q] # None
  BY DEF Exit, ExitMm, Types, TypeOK, MemoryInv
<1>5. /\ mm' \in [Places -> AllPgds \cup {None}] /\ active_mm' \in [Places -> AllPgds \cup {None}]
      /\ os = "linux" => \A q \in Places : mm'[q] # None => active_mm'[q] = mm'[q]
      /\ os = "windows" => \A q \in Places : active_mm'[q] = None
  <2>1. CASE ExitMm(p)
    BY <2>1 DEF ExitMm, Types, TypeOK, MemoryInv
  <2>2. CASE Exit(p)
    BY <2>2 DEF Exit, Types, TypeOK, MemoryInv
  <2> QED
    BY <2>1, <2>2
<1>6. UNCHANGED forks /\ listed' \subseteq Places /\ Root \in listed'
      /\ listed \ {p} \subseteq listed'
  BY DEF Exit, ExitMm, Types, TypeOK
<1>8. UNCHANGED <<os, pc, call, node, list_head, tmp_next>>
  BY DEF Exit, ExitMm, locals
<1> QED
  BY <1>2, <1>3, <1>4, <1>5, <1>6, <1>8 DEF Types, TypeOK, MemoryInv, PlaceInv

\* A kernel thread that changes its page directory keeps the types.
LEMMA BorrowTypes ==
  ASSUME Types, NEW p \in Places, NEW pgd \in Pgds \cup {None}, Borrow(p, pgd)
  PROVE  Types'
<1>1. \E b \in BOOLEAN : Witnessed(stayed \ {p}, {<<pid[p], pgd>>}, b)
  BY Zenon DEF Borrow
<1>2. /\ answer' = IF pc = "idle" THEN None ELSE answer
      /\ spoilt' \in BOOLEAN
      /\ stayed' \subseteq stayed \ {p}
      /\ had' \subseteq had \cup {<<pid[p], pgd>>}
      /\ pc # "idle" /\ spoilt => spoilt'
  BY <1>1, WitnessedType
<1>3. active_mm' \in [Places -> AllPgds \cup {None}]
      /\ (\A q \in Places : mm[q] # None => active_mm'[q] = active_mm[q])
  BY DEF Borrow, Types, TypeOK, AllPgds
<1>4. had' \subseteq AllPids \X (AllPgds \cup {None})
  BY <1>2 DEF Borrow, Types, TypeOK, AllPids, AllPgds, MemoryInv
<1>5. UNCHANGED <<os, next, pid, mm, listed, forks, pc, call, node, list_head, tmp_next>>
      /\ os = "linux"
  BY DEF Borrow, locals
<1> QED
  BY <1>2, <1>3, <1>4, <1>5 DEF Types, TypeOK, MemoryInv, PlaceInv

\* The beginning of a call keeps the types.
LEMMA BeginTypes == ASSUME Types, NEW c \in Call, Begin(c) PROVE Types'
<1>1. had' \subseteq AllPids \X (AllPgds \cup {None})
  BY DEF Begin, Types, TypeOK, MemoryInv, PgdOf
<1>2. /\ UNCHANGED <<os, next, pid, mm, active_mm, listed, forks>>
      /\ call' = c /\ node' = Root /\ list_head' = Root /\ tmp_next' = Root
      /\ answer' = None /\ stayed' = listed /\ spoilt' = FALSE
  BY DEF Begin, tasks
<1>3. /\ pc' \in {"head", "field", "mm"}
      /\ pc' = "head" <=> os = "windows"
      /\ pc' = "field" => c.op = "pid_to_pgd"
  BY SMT DEF Begin
<1>4. TypeOK'
  BY <1>1, <1>2, <1>3, PlaceAssumption, CallAssumption DEF Types, TypeOK, Nodes
<1>5. MemoryInv'
  BY <1>2 DEF Types, MemoryInv
<1>6. PlaceInv'
  BY <1>2, <1>3, PlaceAssumption DEF PlaceInv
<1> QED
  BY <1>4, <1>5, <1>6 DEF Types
\* A call that runs is a call.
LEMMA RunningCall ==
  ASSUME Types, pc # "idle"
  PROVE  call \in Call /\ call.of \in AllPids \cup AllPgds
         /\ call.op \in {"pid_to_pgd", "pgd_to_pid"}
<1>1. call \in Call
  BY DEF Types, TypeOK
<1> QED
  BY <1>1 DEF Call

\* Where a search may go.
Allowed(step, n) ==
  /\ step \in {"next", "field", "compare", "mm", "active", "own"}
  /\ n \in Nodes \cup {None}
  /\ step = "own" => n \in Places
  /\ os = "linux" => /\ step # "compare"
                     /\ step = "field" => call.op = "pid_to_pgd"
                     /\ step = "own" => call.op = "pgd_to_pid"
  /\ os = "windows" => n # None /\ step \notin {"mm", "active"}
                       /\ (step = "field" => n = Root /\ tmp_next = Root)
  /\ n = None => spoilt

\* An answer keeps the types.
LEMMA AnswersTypes ==
  ASSUME Types, pc # "idle", NEW ok \in BOOLEAN, NEW result \in AllPids \cup AllPgds \cup {None},
         Answers(ok, result), UNCHANGED history \/ Spoilt, UNCHANGED <<os, tasks>>
  PROVE  Types'
<1>1. call \in Call
  BY RunningCall
<1>2. /\ answer' = [call |-> call, ok |-> ok, result |-> result]
      /\ pc' = "idle" /\ call' = None /\ node' = Root /\ list_head' = Root /\ tmp_next' = Root
      /\ UNCHANGED <<os, next, pid, mm, active_mm, listed, forks>>
  BY DEF Answers, tasks
<1>3. answer'.call \in Call /\ answer'.ok \in BOOLEAN
      /\ answer'.result \in AllPids \cup AllPgds \cup {None}
  BY <1>1, <1>2
<1>4. stayed' \subseteq stayed /\ spoilt' \in BOOLEAN /\ had' \subseteq had
  BY DEF history, Spoilt, Types, TypeOK
<1>5. TypeOK'
  BY <1>2, <1>3, <1>4, PlaceAssumption DEF Types, TypeOK, Nodes
<1>6. MemoryInv'
  BY <1>2 DEF Types, MemoryInv
<1>7. PlaceInv'
  BY <1>2, <1>4, PlaceAssumption DEF Types, PlaceInv
<1> QED
  BY <1>5, <1>6, <1>7 DEF Types

\* A step to an allowed place keeps the types.
LEMMA MoveTypes ==
  ASSUME Types, pc # "idle", UNCHANGED <<os, tasks, call, list_head, answer, history>>,
         tmp_next' \in Nodes, os = "windows" /\ pc' = "field" => tmp_next' = tmp_next,
         Allowed(pc', node')
  PROVE  Types'
<1>1. UNCHANGED <<os, next, pid, mm, active_mm, listed, forks, call, list_head, answer,
                  stayed, had, spoilt>>
  BY DEF tasks, history
<1>2. call \in Call
  BY RunningCall
<1>3. TypeOK'
  BY <1>1, <1>2, CallAssumption DEF Types, TypeOK, Allowed
<1>4. MemoryInv'
  BY <1>1 DEF Types, MemoryInv
<1>5. PlaceInv'
  <2>1. os = "linux" \/ os = "windows"
    BY OsAssumption DEF Types, TypeOK
  <2> QED
    BY <1>1, <2>1 DEF Types, PlaceInv, Allowed
<1> QED
  BY <1>3, <1>4, <1>5 DEF Types

\* Every read keeps the types.
LEMMA ReadTypes == ASSUME Types, Reads PROVE Types'
<1>1. /\ pc # "idle" => call \in Call /\ call.of \in AllPids \cup AllPgds
                        /\ call.op \in {"pid_to_pgd", "pgd_to_pid"}
      /\ node \in Nodes \cup {None} /\ tmp_next \in Nodes /\ list_head \in Nodes
      /\ Root \in Places /\ Nodes = Places \cup {Head} /\ None \notin Nodes
      /\ \A n \in Nodes : next[n] \in Nodes
      /\ \A n \in Places : /\ pid[n] \in AllPids \cup AllPgds \cup {None}
                           /\ mm[n] \in AllPids \cup AllPgds \cup {None}
                           /\ active_mm[n] \in AllPids \cup AllPgds \cup {None}
      /\ "linux" # "windows"
  BY RunningCall, PlaceAssumption DEF Types, TypeOK, Nodes
<1>2. /\ node = None => os = "linux" /\ pc # "idle" /\ spoilt
      /\ os = "windows" /\ pc = "field" => node = Root /\ tmp_next = Root
      /\ os = "windows" /\ pc = "head" => node = Root /\ tmp_next = Root
      /\ pc = "own" => node \in Places
  BY DEF Types, PlaceInv, TypeOK
<1>3. ASSUME NEW step, GoTo(step), pc # "idle", Allowed(step, node) PROVE Types'
  BY <1>1, <1>3, MoveTypes DEF GoTo, locals
<1>4. ASSUME NEW n, NEW step, Visit(n, step), pc # "idle", Allowed(step, n) PROVE Types'
  BY <1>1, <1>4, MoveTypes DEF Visit
<1>5. ASSUME NEW ok \in BOOLEAN, NEW result \in AllPids \cup AllPgds \cup {None},
             Returns(ok, result), pc # "idle"
      PROVE  Types'
  BY <1>5, AnswersTypes DEF Returns
<1>6. ASSUME NEW pgd \in AllPids \cup AllPgds \cup {None}, Follow(pgd), pc # "idle",
             node \in Places, os = "linux"
      PROVE  Types'
  <2>1. CASE call.op = "pid_to_pgd"
    <3>1. Returns(TRUE, pgd)
      BY <1>6, <2>1, Zenon DEF Follow
    <3> QED
      BY <1>5, <1>6, <3>1
  <2>2. CASE call.op = "pgd_to_pid" /\ pgd = call.of
    <3>1. GoTo("own")
      BY <1>6, <2>2, Zenon DEF Follow
    <3> QED
      BY <1>1, <1>3, <1>6, <2>2, <3>1 DEF Allowed
  <2>3. CASE call.op = "pgd_to_pid" /\ pgd # call.of
    <3>1. GoTo("next")
      BY <1>6, <2>3, Zenon DEF Follow
    <3> QED
      BY <1>1, <1>3, <1>6, <3>1 DEF Allowed
  <2> QED
    BY <1>1, <1>6, <2>1, <2>2, <2>3
<1>7. CASE LinuxField
  BY <1>1, <1>2, <1>3, <1>7 DEF LinuxField, Allowed
<1>8. CASE LinuxMm
  BY <1>1, <1>2, <1>3, <1>6, <1>8 DEF LinuxMm, Allowed
<1>9. CASE LinuxActive
  BY <1>1, <1>6, <1>9 DEF LinuxActive
<1>10. CASE LinuxNext
  BY <1>1, <1>2, <1>4, <1>5, <1>10 DEF LinuxNext, Continues, Allowed, First
<1>11. CASE LinuxOwn
  BY <1>1, <1>2, <1>5, <1>11 DEF LinuxOwn
<1>12. CASE LinuxStray
  BY <1>1, <1>2, <1>3, <1>12 DEF LinuxStray, Allowed, First
<1>13. CASE WindowsHead
  <2>1. /\ UNCHANGED <<os, next, pid, mm, active_mm, listed, forks, call, node, tmp_next, answer,
                       stayed, had, spoilt>>
        /\ list_head' = next[Root] /\ pc' = "field" /\ pc = "head" /\ os = "windows"
    BY <1>13 DEF WindowsHead, tasks, history
  <2>2. TypeOK'
    BY <1>1, <1>2, <2>1, CallAssumption DEF Types, TypeOK
  <2>3. MemoryInv'
    BY <2>1 DEF Types, MemoryInv
  <2>4. PlaceInv'
    BY <1>1, <1>2, <2>1 DEF Types, PlaceInv
  <2> QED
    BY <2>2, <2>3, <2>4 DEF Types
<1>14. CASE WindowsRoot
  BY <1>1, <1>2, <1>3, <1>4, <1>14 DEF WindowsRoot, Allowed
<1>15. CASE WindowsNext
  <2>1. CASE EndsAt(next[node])
    BY <1>1, <1>5, <1>15, <2>1 DEF WindowsNext
  <2>2. CASE ~EndsAt(next[node])
    BY <1>1, <1>2, <1>15, <2>2, MoveTypes DEF WindowsNext, Allowed
  <2> QED
    BY <2>1, <2>2
<1>16. CASE WindowsField
  BY <1>1, <1>2, <1>3, <1>4, <1>16 DEF WindowsField, Matches, Allowed
<1>17. CASE WindowsOwn
  BY <1>1, <1>2, <1>5, <1>17 DEF WindowsOwn, Found
<1> QED
  BY <1>7, <1>8, <1>9, <1>10, <1>11, <1>12, <1>13, <1>14, <1>15, <1>16, <1>17 DEF Reads

\* A failed read keeps the types: it ends the call, or leads the search of Linux astray.
LEMMA FailTypes == ASSUME Types, LinuxReadFails \/ WindowsReadFails PROVE Types'
<1>1. FALSE \in BOOLEAN /\ None \in AllPids \cup AllPgds \cup {None}
  OBVIOUS
<1>2. CASE WindowsReadFails
  BY <1>1, <1>2, AnswersTypes DEF WindowsReadFails
<1>3. CASE LinuxReadFails /\ Answers(FALSE, None) /\ pc # "idle"
  BY <1>1, <1>3, AnswersTypes DEF LinuxReadFails
<1>4. CASE LinuxReadFails /\ ~(Answers(FALSE, None) /\ pc # "idle")
  <2>1. /\ UNCHANGED <<os, next, pid, mm, active_mm, listed, forks, call, list_head, tmp_next,
                       answer>>
        /\ os = "linux" /\ pc' \in {"next", "active"} /\ pc # "idle"
        /\ stayed' = {} /\ had' = {} /\ spoilt' = TRUE
        /\ node' \in {node, None}
    BY <1>4, Zenon DEF LinuxReadFails, Spoilt, tasks, locals
  <2>2. call \in Call
    BY <2>1, RunningCall
  <2>3. TypeOK'
    BY <2>1, <2>2, CallAssumption DEF Types, TypeOK
  <2>4. MemoryInv'
    BY <2>1 DEF Types, MemoryInv
  <2>5. PlaceInv'
    BY <2>1 DEF Types, PlaceInv
  <2> QED
    BY <2>3, <2>4, <2>5 DEF Types
<1> QED
  BY <1>2, <1>3, <1>4

\* Every step keeps the types.
LEMMA TypesNext == ASSUME Types, [Next]_vars PROVE Types'
<1>1. CASE \E c \in Call : Begin(c)
  BY <1>1, BeginTypes
<1>2. CASE Reads
  BY <1>2, ReadTypes
<1>3. CASE LinuxReadFails \/ WindowsReadFails
  BY <1>3, FailTypes
<1>4. CASE Guest
  BY <1>4, GuestSteps, ForkTypes, ExitTypes, BorrowTypes
<1>5. CASE UNCHANGED vars
  <2>1. UNCHANGED <<os, next, pid, mm, active_mm, listed, forks, pc, call, node, list_head,
                    tmp_next, answer, stayed, had, spoilt>>
    BY <1>5 DEF vars, tasks, locals, history
  <2> QED
    BY <2>1 DEF Types, TypeOK, MemoryInv, PlaceInv
<1> QED
  BY <1>1, <1>2, <1>3, <1>4, <1>5 DEF Next
-----------------------------------------------------------------------------
(* Chains. *)

\* A chain that is not interested in some places is still one.
LEMMA ChainSubset ==
  ASSUME NEW nx, NEW a, NEW S, NEW X, NEW Y \in SUBSET X, NEW r, Chain(nx, a, S, X, r)
  PROVE  Chain(nx, a, S, Y, r)
  BY DEF Chain

(***************************************************************************)
(* A new place p, of the highest rank, is put after t, the end of a chain. *)
(* No place of X is passed over, nor is p if X is the chain itself.        *)
(***************************************************************************)
LEMMA ChainAppend ==
  ASSUME NEW nx \in [Nodes -> Nodes], NEW a \in Nodes, NEW S \in SUBSET Places, NEW X \in SUBSET S,
         NEW k \in Nat, NEW r \in [Places -> 0 .. k], NEW p \in Places \ S, NEW t \in S,
         nx[t] = a, a # p, Chain(nx, a, S, X, r),
         NEW ny, ny = [nx EXCEPT ![p] = a, ![t] = p], NEW s, s = [r EXCEPT ![p] = k + 1]
  PROVE  /\ s \in [Places -> 0 .. k + 1]
         /\ Chain(ny, a, S \cup {p}, X, s)
         /\ X = S => Chain(ny, a, S \cup {p}, X \cup {p}, s)
<1>1. s \in [Places -> 0 .. k + 1]
  OBVIOUS
<1>2. /\ \A x \in S : s[x] = r[x] /\ r[x] \in 0 .. k
      /\ s[p] = k + 1 /\ p # t /\ p \notin S
  OBVIOUS
<1>3. /\ ny[t] = p /\ ny[p] = a
      /\ \A n \in S : n # t => ny[n] = nx[n]
  BY DEF Nodes
<1>4. \A n \in S \cup {p} : ny[n] = a \/ (ny[n] \in S \cup {p} /\ s[n] < s[ny[n]])
  <2> TAKE n \in S \cup {p}
  <2>1. CASE n = p
    BY <1>3, <2>1
  <2>2. CASE n = t
    BY <1>2, <1>3, <2>2
  <2>3. CASE n # p /\ n # t
    <3>1. n \in S /\ ny[n] = nx[n] /\ (nx[n] = a \/ (nx[n] \in S /\ r[n] < r[nx[n]]))
      BY <1>3, <2>3 DEF Chain
    <3> QED
      BY <1>2, <3>1
  <2> QED
    BY <2>1, <2>2, <2>3
<1>5. \A x, y \in S \cup {p} : s[x] = s[y] => x = y
  BY <1>2 DEF Chain
<1>6. ASSUME NEW n \in S \cup {p}, NEW x \in X, s[n] < s[x]
      PROVE  ny[n] # a /\ s[ny[n]] <= s[x]
  <2>1. x \in S /\ s[x] = r[x]
    BY <1>2
  <2>2. n \in S /\ s[n] = r[n]
    BY <1>2, <1>6, <2>1
  <2>3. nx[n] # a /\ r[nx[n]] <= r[x]
    BY <1>6, <2>1, <2>2 DEF Chain
  <2>4. n # t /\ ny[n] = nx[n] /\ nx[n] \in S
    BY <1>3, <2>2, <2>3 DEF Chain
  <2> QED
    BY <1>2, <2>1, <2>3, <2>4
<1>7. ASSUME X = S, NEW n \in S \cup {p}, s[n] < s[p]
      PROVE  ny[n] # a /\ s[ny[n]] <= s[p]
  <2>1. n \in S
    BY <1>2, <1>7
  <2>2. CASE n = t
    BY <1>2, <1>3, <2>2
  <2>3. CASE n # t
    <3>1. ny[n] = nx[n] /\ r[n] # r[t] /\ r[n] \in 0 .. k /\ r[t] \in 0 .. k
      BY <1>2, <1>3, <2>1, <2>3 DEF Chain
    <3>2. ~(r[t] < r[n])
      BY <1>7, <2>1 DEF Chain
    <3>3. r[n] < r[t]
      BY <3>1, <3>2
    <3>4. nx[n] # a /\ nx[n] \in S
      BY <1>7, <2>1, <3>3 DEF Chain
    <3> QED
      BY <1>2, <3>1, <3>4
  <2> QED
    BY <2>2, <2>3
<1>8. Chain(ny, a, S \cup {p}, X, s)
  BY <1>4, <1>5, <1>6 DEF Chain
<1>9. ASSUME X = S PROVE Chain(ny, a, S \cup {p}, X \cup {p}, s)
  BY <1>4, <1>5, <1>6, <1>7, <1>9 DEF Chain
<1> QED
  BY <1>1, <1>8, <1>9

(***************************************************************************)
(* Some links to p are put to where p leads: what is left is a chain for   *)
(* all but p.                                                              *)
(***************************************************************************)
LEMMA ChainRemove ==
  ASSUME NEW nx, NEW a, NEW S, NEW X \in SUBSET S, NEW r, NEW p \in S, p # a,
         \A x \in S : r[x] \in Int,
         Chain(nx, a, S, X, r),
         NEW ny, NEW T \in SUBSET S,
         \A n \in T : ny[n] = nx[n] \/ (nx[n] = p /\ ny[n] = nx[p]),
         \A n \in T : ny[n] \in T \cup {a}
  PROVE  Chain(ny, a, T, X \ {p}, r)
<1>1. \A n \in T : ny[n] = a \/ (ny[n] \in T /\ r[n] < r[ny[n]])
  <2> TAKE n \in T
  <2>1. CASE ny[n] = nx[n]
    BY <2>1 DEF Chain
  <2>2. CASE nx[n] = p /\ ny[n] = nx[p]
    <3>1. r[n] < r[p] /\ (nx[p] = a \/ (nx[p] \in S /\ r[p] < r[nx[p]]))
      BY <2>2 DEF Chain
    <3>2. r[n] \in Int /\ r[p] \in Int /\ (nx[p] \in S => r[nx[p]] \in Int)
      OBVIOUS
    <3> QED
      BY <2>2, <3>1, <3>2
  <2> QED
    BY <2>1, <2>2
<1>2. ASSUME NEW n \in T, NEW x \in X \ {p}, r[n] < r[x]
      PROVE  ny[n] # a /\ r[ny[n]] <= r[x]
  <2>1. nx[n] # a /\ r[nx[n]] <= r[x]
    BY <1>2 DEF Chain
  <2>2. CASE ny[n] = nx[n]
    BY <2>1, <2>2
  <2>3. CASE nx[n] = p /\ ny[n] = nx[p]
    <3>1. r[p] # r[x] /\ r[p] \in Int /\ r[x] \in Int
      BY DEF Chain
    <3>2. r[p] < r[x]
      BY <2>1, <2>3, <3>1
    <3> QED
      BY <2>3, <3>2 DEF Chain
  <2> QED
    BY <2>2, <2>3
<1> QED
  BY <1>1, <1>2 DEF Chain
-----------------------------------------------------------------------------
(* The guest's steps keep the list and what the search can stand on. *)

\* Ranks are numbers, and the anchor is a node.
LEMMA ListTypes ==
  ASSUME Types
  PROVE  /\ forks \in Nat /\ next \in [Nodes -> Nodes]
         /\ listed \in SUBSET Places /\ Root \in listed /\ stayed \in SUBSET listed
         /\ Anchor \in Nodes /\ (Anchor = Head \/ Anchor = Root)
         /\ Root # Head /\ Head \notin Places /\ Nodes = Places \cup {Head}
         /\ os \in {"linux", "windows"}
         /\ os = "linux" => Anchor = Root
         /\ os = "windows" => Anchor = Head
  BY PlaceAssumption, OsAssumption, BoundAssumption
  DEF Types, TypeOK, PlaceInv, Nodes, Anchor

\* What is sought after a step of the guest was sought before, and the search is where it was.
LEMMA AheadKept ==
  ASSUME Types, Searching, NEW S \in SUBSET Places, NEW r, Met(S, r), Ahead(r),
         UNCHANGED <<os, pc, call, node, list_head, tmp_next>>,
         stayed' \subseteq stayed,
         \A x \in stayed' : pid'[x] = pid[x] /\ PgdOf(x)' = PgdOf(x),
         NEW s, \A x \in S : s[x] = r[x]
  PROVE  Ahead(s)'
<1>1. Sought(call)' \subseteq Sought(call) /\ stayed' \subseteq S /\ Sought(call) \subseteq S
  BY ListTypes DEF Sought, Met
<1>2. node \in Places => node \in S
  BY ListTypes DEF Met
<1>3. list_head \in Places => list_head \in S
  BY ListTypes DEF Met
<1>4. tmp_next \in Places => tmp_next \in S
  BY ListTypes DEF Met
<1>5. os = "linux" => node \in S
  BY ListTypes DEF Met
<1>6. os = "linux" =>
        \A x \in Sought(call)' : /\ pc \in {"field", "mm", "active"} => s[node] <= s[x]
                                 /\ pc = "next" => s[node] < s[x]
  BY <1>1, <1>5 DEF Ahead
<1>7. ASSUME os = "windows"
      PROVE  /\ pc = "field" =>
                  \A x \in stayed' : 0 < s[x] => list_head \in Places /\ s[list_head] <= s[x]
             /\ pc \in {"next", "compare"} =>
                  \A x \in Sought(call)' : /\ node \in Places /\ list_head \in Places
                                           /\ s[list_head] <= s[node] /\ s[node] <= s[x]
             /\ pc = "compare" =>
                  \A x \in Sought(call)' : s[node] < s[x] =>
                    tmp_next \in Places /\ s[node] < s[tmp_next] /\ s[tmp_next] <= s[x]
  <2>1. /\ pc = "field" =>
             \A x \in stayed : 0 < r[x] => list_head \in Places /\ r[list_head] <= r[x]
        /\ pc \in {"next", "compare"} =>
             \A x \in Sought(call) : /\ node \in Places /\ list_head \in Places
                                     /\ r[list_head] <= r[node] /\ r[node] <= r[x]
        /\ pc = "compare" =>
             \A x \in Sought(call) : r[node] < r[x] =>
               tmp_next \in Places /\ r[node] < r[tmp_next] /\ r[tmp_next] <= r[x]
    BY <1>7 DEF Ahead
  <2>2. pc = "field" =>
             \A x \in stayed' : 0 < s[x] => list_head \in Places /\ s[list_head] <= s[x]
    BY <1>1, <1>3, <2>1
  <2>3. pc \in {"next", "compare"} =>
             \A x \in Sought(call)' : /\ node \in Places /\ list_head \in Places
                                      /\ s[list_head] <= s[node] /\ s[node] <= s[x]
    BY <1>1, <1>2, <1>3, <2>1
  <2>4. pc = "compare" =>
             \A x \in Sought(call)' : s[node] < s[x] =>
               tmp_next \in Places /\ s[node] < s[tmp_next] /\ s[tmp_next] <= s[x]
    BY <1>1, <1>2, <1>3, <1>4, <2>1
  <2> QED
    BY <2>2, <2>3, <2>4
<1> QED
  BY <1>6, <1>7 DEF Ahead

\* A step of the guest leaves a running call's histories only if it spoils nothing.
LEMMA NotSpoilt ==
  ASSUME Types, NEW stay, NEW facts, NEW reused \in BOOLEAN,
         Witnessed(stay, facts, reused), pc' = pc
  PROVE  /\ answer' = None
         /\ Searching' => /\ Searching /\ ~reused
                          /\ stayed' = stay /\ had' = had \cup facts
<1>1. spoilt \in BOOLEAN /\ (pc # "idle" => answer = None)
  BY DEF Types, TypeOK, PlaceInv
<1>2. answer' = None
  BY <1>1 DEF Witnessed
<1>3. ASSUME Searching' PROVE Searching /\ ~reused /\ stayed' = stay /\ had' = had \cup facts
  <2>1. pc # "idle" /\ ~spoilt' /\ ~spoilt /\ ~reused
    BY <1>1, <1>3, Zenon DEF Searching, Witnessed
  <2>2. stayed' = stay /\ had' = had \cup facts
    BY <2>1, Zenon DEF Witnessed
  <2> QED
    BY <2>1, <2>2, Zenon DEF Searching
<1> QED
  BY <1>2, <1>3

\* A created process goes to the end of the list, and of the chain a search can follow.
LEMMA ForkStep ==
  ASSUME Types, ReadInv, ListInv,
         NEW p \in Places, NEW id \in Pids, NEW pgd \in Pgds \cup {None}, Fork(p, id, pgd)
  PROVE  ReadInv' /\ ListInv' /\ answer' = None
<1> DEFINE t == CHOOSE n \in listed \cup {Anchor} : next[n] = Anchor
<1> PICK r \in [Places -> 0 .. forks] :
      Listed(r) /\ (Searching => \E S \in SUBSET Places : Met(S, r) /\ Ahead(r))
  BY DEF ListInv
<1>0. PICK s : s = [r EXCEPT ![p] = forks + 1]
  OBVIOUS
<1>1. /\ p \notin listed /\ forks' = forks + 1 /\ listed' = listed \cup {p}
      /\ next' = [next EXCEPT ![p] = Anchor, ![t] = p]
      /\ UNCHANGED <<os, pc, call, node, list_head, tmp_next>>
      /\ Anchor' = Anchor
  BY DEF Fork, locals, Anchor
<1>2. t \in listed /\ next[t] = Anchor
  <2>1. \E n \in listed \cup {Anchor} : next[n] = Anchor
    BY DEF Listed
  <2>2. t \in listed \cup {Anchor} /\ next[t] = Anchor
    BY <2>1
  <2>3. next[Head] # Head
    BY ListTypes DEF Listed
  <2> HIDE DEF t
  <2> QED
    BY <2>2, <2>3, ListTypes
<1>3. Anchor # p
  BY <1>1, ListTypes
<1> HIDE DEF t
<1>4. s \in [Places -> 0 .. forks'] /\ (\A x \in Places \ {p} : s[x] = r[x])
  BY <1>0, <1>1, ListTypes
<1>5. Chain(next', Anchor, listed \cup {p}, listed \cup {p}, s)
  <2>1. Chain(next, Anchor, listed, listed, r) /\ p \in Places \ listed
    BY <1>1 DEF Listed
  <2>2. listed \in SUBSET listed
    OBVIOUS
  <2> QED
    BY <1>0, <1>1, <1>2, <1>3, <2>1, <2>2, ListTypes, ChainAppend, Zenon
<1>6. /\ next'[t] = p /\ next'[p] = Anchor
      /\ \A n \in Nodes : n # t /\ n # p => next'[n] = next[n]
  BY <1>1, <1>2, ListTypes
<1>7. Listed(s)'
  <2>1. \A q \in (listed' \ {Root}) \cup {Anchor} : \E n \in listed' : next'[n] = q
    <3> TAKE q \in (listed' \ {Root}) \cup {Anchor}
    <3>1. CASE q = p
      BY <1>1, <1>2, <1>6, <3>1
    <3>2. CASE q = Anchor
      BY <1>1, <1>6, <3>2
    <3>3. CASE q # p /\ q # Anchor
      <4>1. PICK n \in listed : next[n] = q
        BY <1>1, <3>3 DEF Listed
      <4>2. n # t /\ n # p /\ n \in Nodes
        BY <1>1, <1>2, <3>3, <4>1, ListTypes
      <4> QED
        BY <1>1, <1>6, <4>1, <4>2
    <3> QED
      BY <3>1, <3>2, <3>3
  <2>2. next'[Head] = Root
    BY <1>2, <1>6, ListTypes DEF Listed
  <2>3. s[Root] = 0
    BY <1>1, <1>4, ListTypes DEF Listed
  <2> QED
    BY <1>1, <1>4, <1>5, <2>1, <2>2, <2>3 DEF Listed
<1>8. /\ answer' = None
      /\ Searching' => /\ Searching /\ pid[p] = None
                       /\ stayed' = stayed /\ had' = had \cup {<<id, pgd>>}
  BY <1>1, NotSpoilt DEF Fork
<1>9. /\ \A q \in Places \ {p} : pid'[q] = pid[q] /\ mm'[q] = mm[q] /\ active_mm'[q] = active_mm[q]
      /\ pid'[p] = id /\ mm'[p] = pgd
      /\ pgd = None => active_mm'[p] = None
  BY ListTypes DEF Fork, Types, TypeOK
<1>10. /\ \A q \in Places \ {p} : PgdOf(q)' = PgdOf(q)
       /\ PgdOf(p)' = pgd
  BY <1>9 DEF PgdOf
<1>11. ASSUME Searching'
       PROVE  ReadInv' /\ \E S \in SUBSET Places : (Met(S, s) /\ Ahead(s))'
  <2>1. PICK S \in SUBSET Places : Met(S, r) /\ Ahead(r)
    BY <1>8, <1>11
  <2>2. p \notin S
    BY <1>8, <1>11, <2>1 DEF Met
  <2>3. Chain(next', Anchor, S \cup {p}, stayed, s)
    <3>1. Chain(next, Anchor, S, stayed, r) /\ p \in Places \ S /\ t \in S /\ stayed \in SUBSET S
      BY <1>2, <2>1, <2>2, ListTypes DEF Met
    <3> QED
      BY <1>0, <1>1, <1>2, <1>3, <3>1, ListTypes, ChainAppend, Zenon
  <2>4. Met(S \cup {p}, s)'
    <3>1. \A q \in S \cup {p} : pid'[q] # None /\ <<pid'[q], PgdOf(q)'>> \in had'
      BY <1>8, <1>9, <1>10, <1>11, <2>1, NameAssumption DEF Met
    <3>2. {node, list_head, tmp_next} \subseteq (S \cup {p}) \cup {Anchor}
      BY <2>1 DEF Met
    <3> QED
      BY <1>1, <1>8, <1>11, <2>1, <2>3, <3>1, <3>2 DEF Met
  <2>5. Ahead(s)'
    <3>1. stayed' \subseteq stayed /\ (\A x \in S : s[x] = r[x])
          /\ (\A x \in stayed' : pid'[x] = pid[x] /\ PgdOf(x)' = PgdOf(x))
      BY <1>1, <1>4, <1>8, <1>9, <1>10, <1>11, <2>1, <2>2, ListTypes DEF Met
    <3> QED
      BY <1>1, <1>8, <1>11, <2>1, <3>1, AheadKept
  <2>6. ReadInv'
    <3>1. pc \in {"active", "mm", "own"} => node \in Places /\ node # p
      <4>1. pc \in {"active", "mm"} => os = "linux"
        BY ListTypes DEF Types, PlaceInv
      <4>2. pc = "own" => node \in Places
        BY DEF Types, TypeOK
      <4> QED
        BY <2>1, <2>2, <4>1, <4>2, ListTypes DEF Met
    <3> QED
      BY <1>1, <1>8, <1>9, <1>11, <3>1 DEF ReadInv
  <2>7. S \cup {p} \in SUBSET Places
    OBVIOUS
  <2> QED
    BY <2>4, <2>5, <2>6, <2>7
<1> QED
  BY <1>4, <1>7, <1>8, <1>11 DEF ListInv, ReadInv
(***************************************************************************)
(* A step by which p alone changes, and loses its place among those that   *)
(* stay as they are.                                                       *)
(***************************************************************************)
LEMMA GuestKept ==
  ASSUME Types, ReadInv, NEW r \in [Places -> 0 .. forks], Listed(r)', forks' = forks,
         Searching => \E S \in SUBSET Places : Met(S, r) /\ Ahead(r),
         UNCHANGED <<os, pc, call, node, list_head, tmp_next>>,
         NEW p \in Places, NEW facts, Witnessed(stayed \ {p}, facts, FALSE),
         listed' \subseteq listed,
         ASSUME Searching
         PROVE  /\ pid' = pid
                /\ \A q \in Places : mm[q] = None => mm'[q] = None
                /\ \A q \in Places : q # p => PgdOf(q)' = PgdOf(q)
                /\ PgdOf(p)' = PgdOf(p) \/ <<pid[p], PgdOf(p)'>> \in facts,
         ASSUME Searching, NEW S \in SUBSET Places, listed \subseteq S,
                Chain(next, Anchor, S, stayed, r)
         PROVE  Chain(next', Anchor, S, stayed \ {p}, r)
  PROVE  ReadInv' /\ ListInv' /\ answer' = None
<1>1. /\ answer' = None
      /\ Searching' => Searching /\ stayed' = stayed \ {p} /\ had' = had \cup facts
  BY NotSpoilt
<1>2. Anchor' = Anchor
  BY DEF Anchor
<1>3. ASSUME Searching'
      PROVE  ReadInv' /\ \E S \in SUBSET Places : (Met(S, r) /\ Ahead(r))'
  <2>1. PICK S \in SUBSET Places : Met(S, r) /\ Ahead(r)
    BY <1>1, <1>3
  <2>2. Searching /\ stayed' = stayed \ {p} /\ had' = had \cup facts
    BY <1>1, <1>3
  <2>3. /\ pid' = pid
        /\ \A q \in Places : mm[q] = None => mm'[q] = None
        /\ \A q \in Places : q # p => PgdOf(q)' = PgdOf(q)
        /\ PgdOf(p)' = PgdOf(p) \/ <<pid[p], PgdOf(p)'>> \in facts
    BY <2>2
  <2>4. Chain(next', Anchor, S, stayed \ {p}, r)
    BY <2>1, <2>2 DEF Met
  <2>5. Met(S, r)'
    <3>1. \A q \in S : pid'[q] # None /\ <<pid'[q], PgdOf(q)'>> \in had'
      BY <2>1, <2>2, <2>3 DEF Met
    <3>2. listed' \subseteq S /\ {node, list_head, tmp_next} \subseteq S \cup {Anchor}
      BY <2>1 DEF Met
    <3> QED
      BY <1>2, <2>2, <2>4, <3>1, <3>2 DEF Met
  <2>6. Ahead(r)'
    <3>1. \A x \in stayed' : pid'[x] = pid[x] /\ PgdOf(x)' = PgdOf(x)
      BY <2>2, <2>3, ListTypes
    <3>2. stayed' \subseteq stayed
      BY <2>2
    <3> QED
      BY <2>1, <2>2, <3>1, <3>2, AheadKept
  <2>7. ReadInv'
    <3>1. pc = "active" => node \in Places
      <4>1. pc = "active" => os = "linux"
        BY ListTypes DEF Types, PlaceInv
      <4> QED
        BY <2>1, <4>1, ListTypes DEF Met
    <3> QED
      BY <2>2, <2>3, <3>1 DEF ReadInv
  <2> QED
    BY <2>5, <2>6, <2>7
<1> QED
  BY <1>1, <1>3 DEF ListInv, ReadInv

\* An exiting process that gives up its mm, and a kernel thread that changes its page
\* directory, stay in the list.
LEMMA MmStep ==
  ASSUME Types, ReadInv, ListInv, NEW p \in Places,
         ExitMm(p) \/ \E pgd \in Pgds \cup {None} : Borrow(p, pgd)
  PROVE  ReadInv' /\ ListInv' /\ answer' = None
<1> PICK r \in [Places -> 0 .. forks] :
      Listed(r) /\ (Searching => \E S \in SUBSET Places : Met(S, r) /\ Ahead(r))
  BY DEF ListInv
<1>1. /\ UNCHANGED <<os, next, pid, listed, forks, pc, call, node, list_head, tmp_next>>
      /\ os = "linux"
  BY DEF ExitMm, Borrow, locals
<1>2. Listed(r)'
  BY <1>1 DEF Listed, Anchor
<1>3. ASSUME NEW S \in SUBSET Places, Chain(next, Anchor, S, stayed, r)
      PROVE  Chain(next', Anchor, S, stayed \ {p}, r)
  <2>1. stayed \ {p} \in SUBSET stayed
    OBVIOUS
  <2> QED
    BY <1>1, <1>3, <2>1, ChainSubset
<1>4. CASE ExitMm(p)
  <2>1. /\ mm' = [mm EXCEPT ![p] = None] /\ UNCHANGED active_mm /\ mm[p] # None
        /\ Witnessed(stayed \ {p}, {}, FALSE)
    BY <1>4 DEF ExitMm
  <2>2. /\ \A q \in Places : mm[q] = None => mm'[q] = None
        /\ \A q \in Places : q # p => PgdOf(q)' = PgdOf(q)
    BY <2>1 DEF PgdOf, Types, TypeOK
  <2>3. PgdOf(p)' = PgdOf(p)
    BY <1>1, <2>1 DEF PgdOf, Types, TypeOK, MemoryInv
  <2> QED
    BY <1>1, <1>2, <1>3, <2>1, <2>2, <2>3, GuestKept
<1>5. ASSUME NEW pgd \in Pgds \cup {None}, Borrow(p, pgd)
      PROVE  ReadInv' /\ ListInv' /\ answer' = None
  <2>1. /\ active_mm' = [active_mm EXCEPT ![p] = pgd] /\ UNCHANGED mm /\ mm[p] = None
        /\ Witnessed(stayed \ {p}, {<<pid[p], pgd>>}, FALSE)
    BY <1>5 DEF Borrow
  <2>2. /\ \A q \in Places : mm[q] = None => mm'[q] = None
        /\ \A q \in Places : q # p => PgdOf(q)' = PgdOf(q)
    BY <2>1 DEF PgdOf, Types, TypeOK
  <2>3. PgdOf(p)' = pgd
    BY <2>1 DEF PgdOf, Types, TypeOK
  <2> QED
    BY <1>1, <1>2, <1>3, <2>1, <2>2, <2>3, GuestKept
<1> QED
  BY <1>4, <1>5

\* A process that leaves the list stays in the chain that a search can follow.
LEMMA ExitStep ==
  ASSUME Types, ReadInv, ListInv, NEW p \in Places, Exit(p)
  PROVE  ReadInv' /\ ListInv' /\ answer' = None
<1> PICK r \in [Places -> 0 .. forks] :
      Listed(r) /\ (Searching => \E S \in SUBSET Places : Met(S, r) /\ Ahead(r))
  BY DEF ListInv
<1>1. /\ UNCHANGED <<os, forks, pc, call, node, list_head, tmp_next>>
      /\ p \in listed /\ p # Root /\ listed' = listed \ {p}
      /\ Anchor' = Anchor
      /\ Witnessed(stayed \ {p}, {}, FALSE)
      /\ pc # "idle" => UNCHANGED <<pid, mm, active_mm>>
  BY DEF Exit, locals, Anchor
<1>2. /\ \A n \in listed \cup {Anchor} : next'[n] = IF next[n] = p THEN next[p]
                                         ELSE IF n = p /\ pc = "idle" THEN Root ELSE next[n]
      /\ \A n \in Nodes \ (listed \cup {Anchor}) : next'[n] = next[n]
  BY <1>1, ListTypes DEF Exit
<1>3. p # Anchor /\ (\A x \in Places : r[x] \in Int) /\ next[p] # p
      /\ Chain(next, Anchor, listed, listed, r)
  <2>1. p # Anchor /\ \A x \in Places : r[x] \in Int
    BY <1>1, ListTypes
  <2>2. Chain(next, Anchor, listed, listed, r)
    BY DEF Listed
  <2>3. next[p] # p
    <3>1. next[p] = Anchor \/ r[p] < r[next[p]]
      BY <1>1, <2>2 DEF Chain
    <3>2. r[p] \in Int
      BY <2>1
    <3> QED
      BY <2>1, <3>1, <3>2
  <2> QED
    BY <2>1, <2>2, <2>3
<1>4. Chain(next', Anchor, listed \ {p}, listed \ {p}, r)
  <2>1. \A n \in listed \ {p} : next'[n] = next[n] \/ (next[n] = p /\ next'[n] = next[p])
    BY <1>2
  <2>2. \A n \in listed \ {p} : next'[n] \in (listed \ {p}) \cup {Anchor}
    BY <1>1, <1>2, <1>3 DEF Chain
  <2>3. listed \in SUBSET listed /\ listed \ {p} \in SUBSET listed
        /\ (\A x \in listed : r[x] \in Int)
    BY <1>3, ListTypes
  <2> QED
    BY <1>1, <1>3, <2>1, <2>2, <2>3, ChainRemove, Zenon
<1>5. Listed(r)'
  <2>1. ASSUME NEW q \in (listed' \ {Root}) \cup {Anchor} PROVE \E n \in listed' : next'[n] = q
    <3>1. q # p /\ q \in (listed \ {Root}) \cup {Anchor}
      BY <1>1, <1>3
    <3>2. PICK n \in listed : next[n] = q
      BY <3>1 DEF Listed
    <3>3. CASE n # p
      BY <1>1, <1>2, <3>1, <3>2, <3>3
    <3>4. CASE n = p
      <4>1. PICK m \in listed : next[m] = p
        BY <1>1 DEF Listed
      <4> QED
        BY <1>1, <1>2, <1>3, <3>2, <3>4, <4>1
    <3> QED
      BY <3>3, <3>4
  <2>2. next'[Head] = Root
    BY <1>1, <1>2, ListTypes DEF Listed
  <2> QED
    BY <1>1, <1>4, <2>1, <2>2 DEF Listed
<1>6. ASSUME Searching, NEW S \in SUBSET Places, listed \subseteq S,
             Chain(next, Anchor, S, stayed, r)
      PROVE  Chain(next', Anchor, S, stayed \ {p}, r)
  <2>1. pc # "idle" /\ S \subseteq Nodes
    BY <1>6, ListTypes DEF Searching
  <2>2. \A n \in S : next'[n] = next[n] \/ (next[n] = p /\ next'[n] = next[p])
    BY <1>2, <2>1
  <2>3. \A n \in S : next'[n] \in S \cup {Anchor}
    BY <1>1, <1>6, <2>2 DEF Chain
  <2>4. stayed \in SUBSET S /\ S \in SUBSET S /\ p \in S /\ \A x \in S : r[x] \in Int
    BY <1>1, <1>3, <1>6, ListTypes
  <2> QED
    BY <1>3, <1>6, <2>2, <2>3, <2>4, ChainRemove, Zenon
<1>7. ASSUME Searching
      PROVE  /\ pid' = pid
             /\ \A q \in Places : mm[q] = None => mm'[q] = None
             /\ \A q \in Places : q # p => PgdOf(q)' = PgdOf(q)
             /\ PgdOf(p)' = PgdOf(p)
  BY <1>1, <1>7 DEF Searching, PgdOf
<1> QED
  BY <1>1, <1>5, <1>6, <1>7, GuestKept

\* No step of the guest loses what a search needs.
LEMMA GuestStep ==
  ASSUME Types, ReadInv, ListInv, Guest PROVE ReadInv' /\ ListInv' /\ answer' = None
  BY GuestSteps, ForkStep, MmStep, ExitStep
-----------------------------------------------------------------------------
(* The steps of a search. *)

\* A step of the search, that answers or that goes on without losing what is sought.
Serves ==
  /\ ListInv'
  /\ ReadInv'
  /\ AnswerHeld'
  /\ FoundIfThere'

\* A search that goes on stands on what it has met; it remains to show what is ahead.
LEMMA SearchMoves ==
  ASSUME Types, NEW r \in [Places -> 0 .. forks], Listed(r),
         UNCHANGED <<os, tasks, call, answer, history>>,
         pc # "idle",
         ASSUME Searching, NEW S \in SUBSET Places, Met(S, r), Ahead(r)
         PROVE  /\ {node', list_head', tmp_next'} \subseteq S \cup {Anchor}
                /\ Ahead(r)' /\ ReadInv',
         Searching => \E S \in SUBSET Places : Met(S, r) /\ Ahead(r)
  PROVE  Serves
<1>1. UNCHANGED <<os, next, pid, mm, active_mm, listed, forks, call, answer, stayed, had, spoilt>>
      /\ Anchor' = Anchor
  BY DEF tasks, history, Anchor
<1>2. Listed(r)'
  BY <1>1 DEF Listed
<1>3. answer' = None
  BY <1>1 DEF Types, PlaceInv
<1>4. Searching' => Searching
  BY <1>1 DEF Searching
<1>5. ASSUME Searching' PROVE ReadInv' /\ \E S \in SUBSET Places : (Met(S, r) /\ Ahead(r))'
  <2>1. PICK S \in SUBSET Places : Met(S, r) /\ Ahead(r)
    BY <1>4, <1>5
  <2>2. {node', list_head', tmp_next'} \subseteq S \cup {Anchor} /\ Ahead(r)' /\ ReadInv'
    BY <1>4, <1>5, <2>1
  <2>3. Met(S, r)'
    BY <1>1, <2>1, <2>2 DEF Met, PgdOf
  <2> QED
    BY <2>2, <2>3
<1> QED
  BY <1>1, <1>2, <1>3, <1>5 DEF Serves, ListInv, ReadInv, AnswerHeld, FoundIfThere

\* A search that answers answers truly.
LEMMA SearchAnswers ==
  ASSUME Types, NEW r \in [Places -> 0 .. forks], Listed(r), pc # "idle",
         NEW ok \in BOOLEAN, NEW result, Returns(ok, result),
         Searching => \E S \in SUBSET Places : Met(S, r) /\ Ahead(r),
         ASSUME Searching, NEW S \in SUBSET Places, Met(S, r), Ahead(r)
         PROVE  /\ ok => IF call.op = "pid_to_pgd" THEN <<call.of, result>> \in had
                                                  ELSE <<result, call.of>> \in had
                /\ Sought(call) # {} => ok
  PROVE  Serves
<1>1. /\ UNCHANGED <<os, next, pid, mm, active_mm, listed, forks, stayed, had, spoilt>>
      /\ Anchor' = Anchor /\ pc' = "idle"
      /\ answer' = [call |-> call, ok |-> ok, result |-> result]
  BY DEF Returns, Answers, tasks, history, Anchor
<1>2. Listed(r)' /\ ~Searching'
  BY <1>1 DEF Listed, Searching
<1>3. answer'.call = call /\ answer'.ok = ok /\ answer'.result = result
  BY <1>1
<1>4. ASSUME ~spoilt
      PROVE  /\ ok => IF call.op = "pid_to_pgd" THEN <<call.of, result>> \in had
                                                ELSE <<result, call.of>> \in had
             /\ Sought(call) # {} => ok
  <2>1. Searching
    BY <1>4 DEF Searching
  <2> QED
    BY <2>1
<1>5. Sought(answer.call)' = Sought(call)
  BY <1>1, <1>3 DEF Sought, PgdOf
<1>6. AnswerHeld'
  BY <1>1, <1>3, <1>4 DEF AnswerHeld
<1>7. FoundIfThere'
  BY <1>1, <1>3, <1>4, <1>5 DEF FoundIfThere
<1> QED
  BY <1>1, <1>2, <1>6, <1>7 DEF Serves, ListInv, ReadInv
\* What is known where a search stands.
LEMMA Standing ==
  ASSUME Types, NEW r \in [Places -> 0 .. forks], Listed(r), Searching,
         NEW S \in SUBSET Places, Met(S, r)
  PROVE  /\ Root \in S /\ r[Root] = 0
         /\ \A x \in S : r[x] \in Nat /\ next[x] \in S \cup {Anchor}
         /\ \A n \in S : next[n] # Anchor => r[n] < r[next[n]]
         /\ \A n \in S, x \in stayed : r[n] < r[x] => next[n] \in S /\ next[n] # Anchor
                                                      /\ r[next[n]] <= r[x]
         /\ \A x, y \in S : r[x] <= r[y] /\ x # y => r[x] < r[y]
         /\ stayed \subseteq S /\ Sought(call) \subseteq stayed
         /\ \A x \in Sought(call) : call.of = IF call.op = "pid_to_pgd" THEN pid[x] ELSE PgdOf(x)
         /\ \A x \in S : <<pid[x], PgdOf(x)>> \in had
         /\ {node, list_head, tmp_next} \subseteq S \cup {Anchor}
         /\ node \in Places => node \in S
         /\ list_head \in Places => list_head \in S
         /\ os = "linux" => node \in S
         /\ call.op \in {"pid_to_pgd", "pgd_to_pid"}
<1>1. \A x \in Places : r[x] \in Nat
  BY ListTypes
<1>2. Chain(next, Anchor, S, stayed, r) /\ listed \subseteq S
  BY DEF Met
<1>3. \A x, y \in S : r[x] <= r[y] /\ x # y => r[x] < r[y]
  BY <1>1, <1>2 DEF Chain
<1>4. /\ \A x \in S : r[x] \in Nat /\ next[x] \in S \cup {Anchor}
      /\ \A n \in S : next[n] # Anchor => r[n] < r[next[n]]
  BY <1>1, <1>2 DEF Chain
<1>5. \A n \in S, x \in stayed : r[n] < r[x] => next[n] \in S /\ next[n] # Anchor
                                                /\ r[next[n]] <= r[x]
  BY <1>2 DEF Chain
<1>6. Root \in S /\ r[Root] = 0 /\ stayed \subseteq S
  BY <1>2, ListTypes DEF Listed
<1>7. /\ Sought(call) \subseteq stayed
      /\ \A x \in Sought(call) : call.of = IF call.op = "pid_to_pgd" THEN pid[x] ELSE PgdOf(x)
  BY DEF Sought
<1>8. /\ {node, list_head, tmp_next} \subseteq S \cup {Anchor}
      /\ node \in Places => node \in S
      /\ list_head \in Places => list_head \in S
      /\ os = "linux" => node \in S
      /\ \A x \in S : <<pid[x], PgdOf(x)>> \in had
  BY <1>6, ListTypes DEF Met
<1> QED
  BY <1>3, <1>4, <1>5, <1>6, <1>7, <1>8, RunningCall DEF Searching

(***************************************************************************)
(* What follows a page directory that was read: in a call that is not      *)
(* spoilt it is that of the task.                                          *)
(***************************************************************************)
LEMMA FollowStep ==
  ASSUME Types, ReadInv, NEW r \in [Places -> 0 .. forks], Listed(r),
         Searching => \E S \in SUBSET Places : Met(S, r) /\ Ahead(r),
         os = "linux", pc \in {"mm", "active"}, node \in Places,
         NEW pgd, Follow(pgd), Searching => pgd = PgdOf(node)
  PROVE  Serves
<1>1. /\ pc # "idle" /\ "linux" # "windows"
      /\ call.op \in {"pid_to_pgd", "pgd_to_pid"} /\ TRUE \in BOOLEAN
  BY RunningCall
<1>2. CASE call.op = "pid_to_pgd"
  <2>1. Returns(TRUE, pgd)
    BY <1>2, Zenon DEF Follow
  <2>2. ASSUME Searching, NEW S \in SUBSET Places, Met(S, r), Ahead(r)
        PROVE  <<call.of, pgd>> \in had
    BY <1>2, <2>2, Standing DEF ReadInv
  <2> QED
    BY <1>1, <1>2, <2>1, <2>2, SearchAnswers
<1>3. CASE call.op = "pgd_to_pid" /\ pgd = call.of
  <2>1. GoTo("own")
    BY <1>3, Zenon DEF Follow
  <2>2. ASSUME Searching, NEW S \in SUBSET Places, Met(S, r), Ahead(r)
        PROVE  /\ {node', list_head', tmp_next'} \subseteq S \cup {Anchor}
               /\ Ahead(r)' /\ ReadInv'
    <3>1. {node', list_head', tmp_next'} \subseteq S \cup {Anchor}
      BY <2>1, <2>2, Standing DEF GoTo, locals
    <3>2. <<pid[node], call.of>> \in had
      BY <1>3, <2>2, Standing
    <3>3. pc' = "own" /\ UNCHANGED <<os, call, node, pid, had>>
      BY <2>1 DEF GoTo, locals, tasks, history
    <3>4. ReadInv'
      BY <1>3, <3>2, <3>3 DEF ReadInv
    <3>5. Ahead(r)'
      BY <3>3 DEF Ahead
    <3> QED
      BY <3>1, <3>4, <3>5
  <2>3. UNCHANGED <<os, tasks, call, answer, history>>
    BY <2>1 DEF GoTo
  <2> QED
    BY <1>1, <2>2, <2>3, SearchMoves
<1>4. CASE call.op = "pgd_to_pid" /\ pgd # call.of
  <2>1. GoTo("next")
    BY <1>4, Zenon DEF Follow
  <2>2. ASSUME Searching, NEW S \in SUBSET Places, Met(S, r), Ahead(r)
        PROVE  /\ {node', list_head', tmp_next'} \subseteq S \cup {Anchor}
               /\ Ahead(r)' /\ ReadInv'
    <3>1. {node', list_head', tmp_next'} \subseteq S \cup {Anchor}
      BY <2>1, <2>2, Standing DEF GoTo, locals
    <3>3. pc' = "next" /\ UNCHANGED <<os, call, node, pid, mm, active_mm, stayed, had>>
      BY <2>1 DEF GoTo, locals, tasks, history
    <3>4. ReadInv'
      BY <3>3 DEF ReadInv
    <3>5. \A x \in Sought(call) : r[node] < r[x]
      <4>1. \A x \in Sought(call) : x # node /\ r[node] <= r[x]
        BY <1>4, <2>2, Standing DEF Ahead
      <4> QED
        BY <2>2, <4>1, Standing
    <3>6. Sought(call)' = Sought(call)
      BY <3>3 DEF Sought, PgdOf
    <3>7. Ahead(r)'
      BY <3>3, <3>5, <3>6 DEF Ahead
    <3> QED
      BY <3>1, <3>4, <3>7
  <2>3. UNCHANGED <<os, tasks, call, answer, history>>
    BY <2>1 DEF GoTo
  <2> QED
    BY <1>1, <2>2, <2>3, SearchMoves
<1> QED
  BY <1>1, <1>2, <1>3, <1>4
\* A search in the list of Linux.
LEMMA LinuxStep ==
  ASSUME Types, ReadInv, NEW r \in [Places -> 0 .. forks], Listed(r),
         Searching => \E S \in SUBSET Places : Met(S, r) /\ Ahead(r),
         \/ LinuxField \/ LinuxMm \/ LinuxActive \/ LinuxNext \/ LinuxOwn \/ LinuxStray
  PROVE  Serves
<1>1. /\ os = "linux" /\ "linux" # "windows" /\ pc # "idle" /\ pc = "own" => node \in Places
      /\ TRUE \in BOOLEAN /\ FALSE \in BOOLEAN /\ Anchor = Root
      /\ os = "linux" /\ pc # "idle"
  <2>1. /\ os = "linux" /\ (pc # "idle" \/ node = None) /\ (pc = "own" => node \in Places)
        /\ node = None => pc # "idle"
    BY DEF Types, TypeOK, PlaceInv, LinuxField, LinuxMm, LinuxActive, LinuxNext, LinuxOwn,
           LinuxStray
  <2> QED
    BY <2>1, ListTypes
<1>2. ASSUME NEW step, GoTo(step)
      PROVE  /\ UNCHANGED <<os, tasks, call, answer, history>>
             /\ UNCHANGED <<os, next, pid, mm, active_mm, call, node, list_head, tmp_next, stayed,
                            had, spoilt>>
             /\ pc' = step
             /\ Sought(call)' = Sought(call)
  BY <1>2 DEF GoTo, tasks, locals, history, Sought, PgdOf
<1>3. CASE LinuxField
  <2>1. CASE pid[node] = call.of
    <3>1. GoTo("mm")
      BY <1>3, <2>1 DEF LinuxField
    <3>2. ASSUME Searching, NEW S \in SUBSET Places, Met(S, r), Ahead(r)
          PROVE  /\ {node', list_head', tmp_next'} \subseteq S \cup {Anchor}
                 /\ Ahead(r)' /\ ReadInv'
      <4>1. {node', list_head', tmp_next'} \subseteq S \cup {Anchor}
        BY <1>2, <3>1, <3>2, Standing
      <4>2. ReadInv'
        BY <1>2, <2>1, <3>1 DEF ReadInv
      <4>3. Ahead(r)'
        BY <1>1, <1>2, <1>3, <3>1, <3>2 DEF Ahead, LinuxField
      <4> QED
        BY <4>1, <4>2, <4>3
    <3> QED
      BY <1>1, <1>2, <3>1, <3>2, SearchMoves
  <2>2. CASE pid[node] # call.of
    <3>1. GoTo("next") /\ call.op = "pid_to_pgd" /\ pc = "field"
      BY <1>1, <1>3, <2>2 DEF LinuxField, Types, PlaceInv
    <3>2. ASSUME Searching, NEW S \in SUBSET Places, Met(S, r), Ahead(r)
          PROVE  /\ {node', list_head', tmp_next'} \subseteq S \cup {Anchor}
                 /\ Ahead(r)' /\ ReadInv'
      <4>1. {node', list_head', tmp_next'} \subseteq S \cup {Anchor}
        BY <1>2, <3>1, <3>2, Standing
      <4>2. ReadInv'
        BY <1>2, <3>1 DEF ReadInv
      <4>3. \A x \in Sought(call) : r[node] < r[x]
        <5>1. \A x \in Sought(call) : x # node /\ r[node] <= r[x]
          BY <1>1, <2>2, <3>1, <3>2, Standing DEF Ahead
        <5> QED
          BY <1>1, <3>2, <5>1, Standing
      <4>4. Ahead(r)'
        BY <1>1, <1>2, <3>1, <4>3 DEF Ahead
      <4> QED
        BY <4>1, <4>2, <4>4
    <3> QED
      BY <1>1, <1>2, <3>1, <3>2, SearchMoves
  <2> QED
    BY <2>1, <2>2
<1>4. CASE LinuxMm
  <2>1. CASE mm[node] = None
    <3>1. GoTo("active") /\ pc = "mm"
      BY <1>4, <2>1 DEF LinuxMm
    <3>2. ASSUME Searching, NEW S \in SUBSET Places, Met(S, r), Ahead(r)
          PROVE  /\ {node', list_head', tmp_next'} \subseteq S \cup {Anchor}
                 /\ Ahead(r)' /\ ReadInv'
      <4>1. {node', list_head', tmp_next'} \subseteq S \cup {Anchor}
        BY <1>2, <3>1, <3>2, Standing
      <4>2. ReadInv'
        BY <1>2, <2>1, <3>1, <3>2 DEF ReadInv
      <4>3. Ahead(r)'
        BY <1>1, <1>2, <3>1, <3>2 DEF Ahead
      <4> QED
        BY <4>1, <4>2, <4>3
    <3> QED
      BY <1>1, <1>2, <3>1, <3>2, SearchMoves
  <2>2. CASE mm[node] # None
    <3>1. Follow(mm[node]) /\ node \in Places /\ pc = "mm"
      BY <1>4, <2>2 DEF LinuxMm
    <3>2. mm[node] = PgdOf(node)
      BY <2>2 DEF PgdOf
    <3> QED
      BY <1>1, <3>1, <3>2, FollowStep
  <2> QED
    BY <2>1, <2>2
<1>5. CASE LinuxActive
  <2>1. Follow(active_mm[node]) /\ node \in Places /\ pc = "active"
    BY <1>5 DEF LinuxActive
  <2>2. Searching => active_mm[node] = PgdOf(node)
    BY <2>1 DEF PgdOf, ReadInv
  <2> QED
    BY <1>1, <2>1, <2>2, FollowStep
<1>6. CASE LinuxNext
  <2>1. CASE Continues(next[node])
    <3>1. Visit(next[node], First) /\ pc = "next"
      BY <1>6, <2>1 DEF LinuxNext
    <3>2. /\ UNCHANGED <<os, tasks, call, answer, history>>
          /\ UNCHANGED <<os, next, pid, mm, active_mm, call, list_head, tmp_next, stayed, had,
                         spoilt>>
          /\ pc' = First /\ node' = next[node] /\ First \in {"field", "mm"}
          /\ Sought(call)' = Sought(call)
      BY <3>1, Zenon DEF Visit, tasks, history, Sought, PgdOf, First
    <3>3. ASSUME Searching, NEW S \in SUBSET Places, Met(S, r), Ahead(r)
          PROVE  /\ {node', list_head', tmp_next'} \subseteq S \cup {Anchor}
                 /\ Ahead(r)' /\ ReadInv'
      <4>1. {node', list_head', tmp_next'} \subseteq S \cup {Anchor}
        BY <1>1, <3>2, <3>3, Standing
      <4>2. ReadInv'
        BY <3>2, <3>3 DEF ReadInv, First
      <4>3. \A x \in Sought(call) : r[node'] <= r[x]
        BY <1>1, <3>1, <3>2, <3>3, Standing DEF Ahead
      <4>4. Ahead(r)'
        BY <1>1, <3>2, <4>3 DEF Ahead
      <4> QED
        BY <4>1, <4>2, <4>4
    <3> QED
      BY <1>1, <3>2, <3>3, SearchMoves
  <2>2. CASE ~Continues(next[node])
    <3>1. Returns(FALSE, None) /\ pc = "next" /\ next[node] = Anchor
      BY <1>1, <1>6, <2>2 DEF LinuxNext, Continues
    <3>2. ASSUME Searching, NEW S \in SUBSET Places, Met(S, r), Ahead(r)
          PROVE  Sought(call) = {}
      BY <1>1, <3>1, <3>2, Standing DEF Ahead
    <3> QED
      BY <1>1, <3>1, <3>2, SearchAnswers
  <2> QED
    BY <2>1, <2>2
<1>7. CASE LinuxOwn
  <2>1. Returns(TRUE, pid[node]) /\ pc = "own"
    BY <1>7 DEF LinuxOwn
  <2>2. call.op = "pgd_to_pid" /\ "pgd_to_pid" # "pid_to_pgd"
    BY <1>1, <2>1 DEF Types, PlaceInv
  <2>3. Searching => <<pid[node], call.of>> \in had
    BY <2>1, <2>2 DEF ReadInv
  <2> QED
    BY <1>1, <2>1, <2>2, <2>3, SearchAnswers
<1>8. CASE LinuxStray
  <2>1. ~Searching
    BY <1>8 DEF LinuxStray, Searching, Types, PlaceInv
  <2>2. UNCHANGED <<os, tasks, call, answer, history>>
    BY <1>8 DEF LinuxStray, GoTo
  <2> QED
    BY <1>1, <2>1, <2>2, SearchMoves
<1> QED
  BY <1>3, <1>4, <1>5, <1>6, <1>7, <1>8
\* A search in the list of Windows.
LEMMA WindowsStep ==
  ASSUME Types, ReadInv, NEW r \in [Places -> 0 .. forks], Listed(r),
         Searching => \E S \in SUBSET Places : Met(S, r) /\ Ahead(r),
         WindowsHead \/ WindowsRoot \/ WindowsNext \/ WindowsField \/ WindowsOwn
  PROVE  Serves
<1>1. /\ os = "windows" /\ "linux" # "windows" /\ pc # "idle" /\ (pc = "own" => node \in Places)
      /\ TRUE \in BOOLEAN /\ FALSE \in BOOLEAN /\ Anchor = Head /\ Head \notin Places
      /\ Root \in Places
  <2>1. os = "windows" /\ pc # "idle" /\ (pc = "own" => node \in Places)
    BY DEF Types, TypeOK, WindowsHead, WindowsRoot, WindowsNext, WindowsField, WindowsOwn
  <2> QED
    BY <2>1, ListTypes
<1>2. \A q \in Places : PgdOf(q) = mm[q]
  BY <1>1 DEF PgdOf, Types, MemoryInv
<1>3. ASSUME NEW step, GoTo(step)
      PROVE  /\ UNCHANGED <<os, tasks, call, answer, history>>
             /\ UNCHANGED <<os, next, pid, mm, active_mm, call, node, list_head, tmp_next, stayed,
                            had, spoilt>>
             /\ pc' = step
             /\ Sought(call)' = Sought(call)
  BY <1>3 DEF GoTo, tasks, locals, history, Sought, PgdOf
<1>4. ASSUME NEW n, NEW step, Visit(n, step)
      PROVE  /\ UNCHANGED <<os, tasks, call, answer, history>>
             /\ UNCHANGED <<os, next, pid, mm, active_mm, call, list_head, tmp_next, stayed, had,
                            spoilt>>
             /\ pc' = step /\ node' = n
             /\ Sought(call)' = Sought(call)
  BY <1>4 DEF Visit, tasks, history, Sought, PgdOf
\* The process on which the search stands is the one it looks for.
<1>5. ASSUME pc \in {"field", "compare"}, Matches(node), GoTo("own") PROVE Serves
  <2>1. ASSUME Searching, NEW S \in SUBSET Places, Met(S, r), Ahead(r)
        PROVE  /\ {node', list_head', tmp_next'} \subseteq S \cup {Anchor}
               /\ Ahead(r)' /\ ReadInv'
    <3>1. {node', list_head', tmp_next'} \subseteq S \cup {Anchor}
      BY <1>3, <1>5, <2>1, Standing
    <3>2. node \in S /\ call.of = IF call.op = "pid_to_pgd" THEN pid[node] ELSE mm[node]
      BY <1>5, <2>1, Standing DEF Matches, SameField
    <3>3. <<pid[node], mm[node]>> \in had
      BY <1>2, <2>1, <3>2, Standing
    <3>4. ReadInv'
      BY <1>3, <1>5, <3>2, <3>3 DEF ReadInv
    <3>5. Ahead(r)'
      BY <1>1, <1>3, <1>5 DEF Ahead
    <3> QED
      BY <3>1, <3>4, <3>5
  <2> QED
    BY <1>1, <1>3, <1>5, <2>1, SearchMoves
\* A process that does not match is not what is sought.
<1>6. ASSUME node \in Places, ~Matches(node), Searching, NEW x \in Sought(call) PROVE x # node
  BY <1>2, <1>6 DEF Sought, Matches, SameField, Types, TypeOK
<1>7. CASE WindowsHead
  <2>1. /\ UNCHANGED <<os, tasks, call, answer, history>>
        /\ UNCHANGED <<os, next, pid, mm, active_mm, call, node, tmp_next, stayed, had, spoilt>>
        /\ pc' = "field" /\ list_head' = next[Root]
    BY <1>7 DEF WindowsHead, tasks, history
  <2>2. ASSUME Searching, NEW S \in SUBSET Places, Met(S, r), Ahead(r)
        PROVE  /\ {node', list_head', tmp_next'} \subseteq S \cup {Anchor}
               /\ Ahead(r)' /\ ReadInv'
    <3>1. {node', list_head', tmp_next'} \subseteq S \cup {Anchor}
      BY <2>1, <2>2, Standing
    <3>2. ReadInv'
      BY <2>1 DEF ReadInv
    <3>3. \A x \in stayed : 0 < r[x] => list_head' \in Places /\ r[list_head'] <= r[x]
      BY <2>1, <2>2, Standing
    <3>4. Ahead(r)'
      BY <1>1, <2>1, <3>3 DEF Ahead
    <3> QED
      BY <3>1, <3>2, <3>4
  <2> QED
    BY <1>1, <2>1, <2>2, SearchMoves
<1>8. CASE WindowsRoot
  <2>1. node = Root /\ pc = "field"
    BY <1>8 DEF WindowsRoot
  <2>2. CASE Matches(Root)
    BY <1>5, <1>8, <2>1, <2>2 DEF WindowsRoot
  <2>3. CASE ~Matches(Root)
    <3>1. Visit(list_head, "next")
      BY <1>8, <2>3 DEF WindowsRoot
    <3>2. ASSUME Searching, NEW S \in SUBSET Places, Met(S, r), Ahead(r)
          PROVE  /\ {node', list_head', tmp_next'} \subseteq S \cup {Anchor}
                 /\ Ahead(r)' /\ ReadInv'
      <4>1. {node', list_head', tmp_next'} \subseteq S \cup {Anchor}
        BY <1>4, <3>1, <3>2, Standing
      <4>2. ReadInv'
        BY <1>4, <3>1 DEF ReadInv
      <4>3. ASSUME NEW x \in Sought(call)
            PROVE  list_head \in Places /\ r[list_head] <= r[list_head] /\ r[list_head] <= r[x]
        <5>1. x \in stayed /\ x \in S /\ x # Root
          BY <1>1, <1>6, <2>1, <2>3, <3>2, <4>3, Standing
        <5>2. 0 < r[x]
          BY <3>2, <5>1, Standing
        <5>3. list_head \in Places /\ r[list_head] <= r[x]
          BY <1>1, <2>1, <3>2, <5>1, <5>2 DEF Ahead
        <5> QED
          BY <3>2, <5>3, Standing
      <4>4. Ahead(r)'
        BY <1>1, <1>4, <3>1, <4>3 DEF Ahead
      <4> QED
        BY <4>1, <4>2, <4>4
    <3> QED
      BY <1>1, <1>4, <3>1, <3>2, SearchMoves
  <2> QED
    BY <2>2, <2>3
<1>9. CASE WindowsNext
  <2>1. ASSUME Searching, NEW S \in SUBSET Places, Met(S, r), Ahead(r), NEW x \in Sought(call)
        PROVE  /\ node \in S /\ list_head \in S /\ r[list_head] <= r[node] /\ r[node] <= r[x]
               /\ r[list_head] \in Nat /\ r[node] \in Nat /\ x \in stayed
    <3>1. node \in Places /\ list_head \in Places /\ r[list_head] <= r[node] /\ r[node] <= r[x]
      BY <1>1, <1>9, <2>1 DEF Ahead, WindowsNext
    <3> QED
      BY <2>1, <3>1, Standing
  <2>2. CASE EndsAt(next[node])
    <3>1. Returns(FALSE, None) /\ next[node] = list_head
      BY <1>9, <2>2 DEF WindowsNext, EndsAt
    <3>2. ASSUME Searching, NEW S \in SUBSET Places, Met(S, r), Ahead(r)
          PROVE  Sought(call) = {}
      <4> SUFFICES ASSUME NEW x \in Sought(call) PROVE FALSE
        OBVIOUS
      <4>1. /\ node \in S /\ list_head \in S /\ r[list_head] <= r[node]
            /\ r[list_head] \in Nat /\ r[node] \in Nat
        BY <2>1, <3>2
      <4>2. r[node] < r[list_head]
        BY <1>1, <3>1, <3>2, <4>1, Standing
      <4> QED
        BY <4>1, <4>2
    <3> QED
      BY <1>1, <3>1, <3>2, SearchAnswers
  <2>3. CASE ~EndsAt(next[node])
    <3>1. /\ UNCHANGED <<os, tasks, call, answer, history>>
          /\ UNCHANGED <<os, next, pid, mm, active_mm, call, node, list_head, stayed, had, spoilt>>
          /\ pc = "next" /\ pc' = "compare" /\ tmp_next' = next[node]
          /\ Sought(call)' = Sought(call)
      BY <1>9, <2>3 DEF WindowsNext, tasks, history, Sought, PgdOf
    <3>2. ASSUME Searching, NEW S \in SUBSET Places, Met(S, r), Ahead(r)
          PROVE  /\ {node', list_head', tmp_next'} \subseteq S \cup {Anchor}
                 /\ Ahead(r)' /\ ReadInv'
      <4>1. {node', list_head', tmp_next'} \subseteq S \cup {Anchor}
        <5>1. next[Head] = Root
          BY DEF Listed
        <5> QED
          BY <1>1, <3>1, <3>2, <5>1, Standing
      <4>2. ReadInv'
        BY <3>1 DEF ReadInv
      <4>3. ASSUME NEW x \in Sought(call), r[node] < r[x]
            PROVE  next[node] \in Places /\ r[node] < r[next[node]] /\ r[next[node]] <= r[x]
        BY <2>1, <3>2, <4>3, Standing
      <4>4. \A x \in Sought(call) : /\ node \in Places /\ list_head \in Places
                                    /\ r[list_head] <= r[node] /\ r[node] <= r[x]
        BY <2>1, <3>2
      <4>5. Ahead(r)'
        BY <1>1, <3>1, <4>3, <4>4 DEF Ahead
      <4> QED
        BY <4>1, <4>2, <4>5
    <3> QED
      BY <1>1, <3>1, <3>2, SearchMoves
  <2> QED
    BY <2>2, <2>3
<1>10. CASE WindowsField
  <2>1. CASE Matches(node)
    BY <1>5, <1>10, <2>1 DEF WindowsField
  <2>2. CASE ~Matches(node)
    <3>1. Visit(tmp_next, "next") /\ pc = "compare"
      BY <1>10, <2>2 DEF WindowsField
    <3>2. ASSUME Searching, NEW S \in SUBSET Places, Met(S, r), Ahead(r)
          PROVE  /\ {node', list_head', tmp_next'} \subseteq S \cup {Anchor}
                 /\ Ahead(r)' /\ ReadInv'
      <4>1. {node', list_head', tmp_next'} \subseteq S \cup {Anchor}
        BY <1>4, <3>1, <3>2, Standing
      <4>2. ReadInv'
        BY <1>4, <3>1 DEF ReadInv
      <4>3. ASSUME NEW x \in Sought(call)
            PROVE  /\ tmp_next \in Places /\ list_head \in Places
                   /\ r[list_head] <= r[tmp_next] /\ r[tmp_next] <= r[x]
        <5>1. /\ node \in Places /\ list_head \in Places
              /\ r[list_head] <= r[node] /\ r[node] <= r[x]
          BY <1>1, <3>1, <3>2, <4>3 DEF Ahead
        <5>2. r[node] < r[x]
          BY <1>6, <2>2, <3>2, <4>3, <5>1, Standing
        <5>3. tmp_next \in Places /\ r[node] < r[tmp_next] /\ r[tmp_next] <= r[x]
          BY <1>1, <3>1, <3>2, <4>3, <5>2 DEF Ahead
        <5>4. r[list_head] \in Nat /\ r[node] \in Nat /\ r[tmp_next] \in Nat
          BY <5>1, <5>3, ListTypes
        <5> QED
          BY <5>1, <5>3, <5>4
      <4>4. Ahead(r)'
        BY <1>1, <1>4, <3>1, <4>3 DEF Ahead
      <4> QED
        BY <4>1, <4>2, <4>4
    <3> QED
      BY <1>1, <1>4, <3>1, <3>2, SearchMoves
  <2> QED
    BY <2>1, <2>2
<1>11. CASE WindowsOwn
  <2>1. Returns(TRUE, IF call.op = "pid_to_pgd" THEN mm[node] ELSE pid[node]) /\ pc = "own"
    BY <1>11 DEF WindowsOwn, Found
  <2>2. ASSUME Searching, NEW S \in SUBSET Places, Met(S, r), Ahead(r)
        PROVE  IF call.op = "pid_to_pgd" THEN <<call.of, mm[node]>> \in had
                                         ELSE <<pid[node], call.of>> \in had
    <3>1. <<pid[node], mm[node]>> \in had
      BY <1>1, <1>2, <2>1, <2>2, Standing
    <3> QED
      BY <2>1, <2>2, <3>1, Standing DEF ReadInv
  <2> QED
    BY <1>1, <2>1, <2>2, SearchAnswers
<1> QED
  BY <1>7, <1>8, <1>9, <1>10, <1>11
\* A call begins at the first process, with all that is listed ahead of it.
LEMMA BeginStep == ASSUME Types, ListInv, NEW c \in Call, Begin(c) PROVE Serves
<1> PICK r \in [Places -> 0 .. forks] : Listed(r)
  BY DEF ListInv
<1>1. /\ UNCHANGED <<os, next, pid, mm, active_mm, listed, forks>>
      /\ call' = c /\ node' = Root /\ list_head' = Root /\ tmp_next' = Root
      /\ answer' = None /\ stayed' = listed /\ had' = {<<pid[p], PgdOf(p)>> : p \in listed}
      /\ Anchor' = Anchor
  BY DEF Begin, tasks, Anchor
<1>2. /\ pc' = IF os = "windows" THEN "head" ELSE IF c.op = "pid_to_pgd" THEN "field" ELSE "mm"
      /\ c.op \in {"pid_to_pgd", "pgd_to_pid"}
  BY DEF Begin, Call
<1>3. Listed(r)'
  BY <1>1 DEF Listed
<1>4. Met(listed, r)'
  <2>1. Chain(next, Anchor, listed, listed, r)
    BY DEF Listed
  <2>2. \A p \in listed : pid'[p] # None /\ <<pid'[p], PgdOf(p)'>> \in had'
    BY <1>1 DEF Types, MemoryInv, PgdOf
  <2> QED
    BY <1>1, <2>1, <2>2, ListTypes DEF Met
<1>5. Ahead(r)'
  <2>1. \A x \in Sought(call)' : x \in Places /\ r[x] \in Nat
    BY <1>1, ListTypes DEF Sought
  <2>2. r[Root] = 0
    BY DEF Listed
  <2>3. os = "linux" => pc' \in {"field", "mm"} /\ \A x \in Sought(call)' : r[node'] <= r[x]
    BY <1>1, <1>2, <2>1, <2>2
  <2>4. os = "windows" => pc' = "head"
    BY <1>2
  <2> QED
    BY <1>1, <2>3, <2>4 DEF Ahead
<1>6. ReadInv'
  <2>1. pc' = "mm" => c.op = "pgd_to_pid"
    BY <1>2
  <2> QED
    BY <1>1, <1>2, <2>1 DEF ReadInv
<1>7. listed' = listed /\ listed \in SUBSET Places
  BY <1>1, ListTypes
<1>8. \E S \in SUBSET Places : (Met(S, r) /\ Ahead(r))'
  BY <1>4, <1>5, <1>7
<1>9. ListInv'
  BY <1>1, <1>3, <1>8 DEF ListInv
<1> QED
  BY <1>1, <1>6, <1>9 DEF Serves, AnswerHeld, FoundIfThere

\* Every step serves the call that runs, if any.
LEMMA ServesNext ==
  ASSUME Types, ReadInv, ListInv, AnswerHeld, FoundIfThere, [Next]_vars
  PROVE  Serves
<1> PICK r \in [Places -> 0 .. forks] :
      Listed(r) /\ (Searching => \E S \in SUBSET Places : Met(S, r) /\ Ahead(r))
  BY DEF ListInv
<1>1. CASE \E c \in Call : Begin(c)
  BY <1>1, BeginStep
<1>2. CASE Reads
  <2>1. \/ LinuxField \/ LinuxMm \/ LinuxActive \/ LinuxNext \/ LinuxOwn \/ LinuxStray
        \/ WindowsHead \/ WindowsRoot \/ WindowsNext \/ WindowsField \/ WindowsOwn
    BY <1>2 DEF Reads
  <2> QED
    BY <2>1, LinuxStep, WindowsStep
<1>3. CASE LinuxReadFails \/ WindowsReadFails
  <2>1. /\ UNCHANGED <<os, next, pid, mm, active_mm, listed, forks>> /\ spoilt' = TRUE
        /\ Anchor' = Anchor
    BY <1>3 DEF LinuxReadFails, WindowsReadFails, tasks, Spoilt, Anchor
  <2>2. Listed(r)' /\ ~Searching'
    BY <2>1 DEF Listed, Searching
  <2> QED
    BY <2>1, <2>2 DEF Serves, ListInv, ReadInv, AnswerHeld, FoundIfThere
<1>4. CASE Guest
  BY <1>4, GuestStep DEF Serves, AnswerHeld, FoundIfThere
<1>5. CASE UNCHANGED vars
  <2>1. UNCHANGED <<os, next, pid, mm, active_mm, listed, forks, pc, call, node, list_head,
                    tmp_next, answer, stayed, had, spoilt>>
    BY <1>5 DEF vars, tasks, locals, history
  <2>2. ReadInv' /\ AnswerHeld' /\ FoundIfThere'
    BY <2>1 DEF ReadInv, AnswerHeld, FoundIfThere, Searching, Sought, PgdOf
  <2>3. ListInv'
    BY <2>1, SMTT(30) DEF ListInv, Listed, Met, Ahead, Searching, Sought, PgdOf, Anchor
  <2> QED
    BY <2>2, <2>3 DEF Serves
<1> QED
  BY <1>1, <1>2, <1>3, <1>4, <1>5 DEF Next

\* The list begins with the first process alone.
LEMMA ListInit == Init => ReadInv /\ ListInv /\ AnswerHeld /\ FoundIfThere
<1> SUFFICES ASSUME Init PROVE ReadInv /\ ListInv /\ AnswerHeld /\ FoundIfThere
  OBVIOUS
<1> DEFINE r == [p \in Places |-> 0]
<1>1. r \in [Places -> 0 .. forks]
  BY DEF Init
<1>2. Types
  BY TypesInit
<1>3. /\ next \in [Nodes -> Nodes] /\ listed = {Root} /\ next[Head] = Root /\ next[Root] = Anchor
      /\ r[Root] = 0 /\ Root \in Places
  BY <1>1, <1>2, ListTypes DEF Init, Anchor
<1>4. Chain(next, Anchor, listed, listed, r)
  BY <1>3 DEF Chain
<1>5. Listed(r)
  BY <1>1, <1>3, <1>4 DEF Listed
<1> QED
  BY <1>1, <1>5 DEF Init, ReadInv, ListInv, AnswerHeld, FoundIfThere, Searching

-----------------------------------------------------------------------------
(* Theorems. *)

\* The invariant is inductive.
LEMMA SearchInvariant == Spec => []IInv
<1>1. Init => IInv
  BY TypesInit, ListInit DEF IInv
<1>2. IInv /\ [Next]_vars => IInv'
  BY TypesNext, ServesNext DEF IInv, Serves
<1> QED
  BY <1>1, <1>2, PTL DEF Spec

(***************************************************************************)
(* What a search reports held of a process at some time during the call    *)
(* (linux_pid_to_pgd, linux_pgd_to_pid, windows_pid_to_pgd and             *)
(* windows_pgd_to_pid), for any number of processes coming and going       *)
(* between any two reads; and every link followed is one of the list.      *)
(***************************************************************************)
THEOREM SearchesAnswerTruly == Spec => []AnswersTrue
<1>1. IInv => AnswersTrue
  BY DEF IInv, Types, AnswersTrue
<1> QED
  BY <1>1, SearchInvariant, PTL

(***************************************************************************)
(* "Not found" means not there: a process that was listed with the same    *)
(* page directory from the beginning of a search to its end is found, in   *)
(* the list of Linux and in that of Windows.                               *)
(***************************************************************************)
THEOREM SearchesFind == Spec => []FoundIfThere
<1>1. IInv => FoundIfThere
  BY DEF IInv
<1> QED
  BY <1>1, SearchInvariant, PTL
=============================================================================
