-------------------------- MODULE Translation_proofs --------------------------
(***************************************************************************)
(* Theorems about translation, for any processes, address spaces and       *)
(* addresses, and for a guest that changes them between any two steps.     *)
(***************************************************************************)
EXTENDS Translation, TLAPS

\* What the steps of a call know: the directory is the pid's unless the process changed,
\* and the tables do not have the address when the walk has failed.
CallInv ==
  call # None =>
    /\ pc \notin {"dtb", "dtb2"} => call.dtb \in Dtbs
    /\ pc \in {"dtb", "dtb2", "retry"} => call.op = "uv2p"
    /\ pc \in {"lookup", "verify", "walk", "extended", "retry", "dtb2"} /\ call.op = "uv2p"
         /\ call.pid \notin pid_changed => call.dtb = DirectoryOf(call.pid)
    /\ pc = "verify" => v2p_cache[call.dtb][call.va] # None
    /\ pc = "retry" /\ call.dtb \notin v2p_changed => pt[call.dtb][call.va] = None

TransInv == TypeOK /\ Fresh /\ CallInv /\ AnswerRight

\* Empty caches satisfy the invariant.
LEMMA InitTrans == Init => TransInv
<1> SUFFICES ASSUME Init
             PROVE  TransInv
  OBVIOUS
<1>1. TypeOK
  <2>1. v2p_cache \in Tables
    BY DEF Init, Tables
  <2> QED
    BY <2>1 DEF Init, TypeOK
<1>2. Fresh
  <2>1. \A d \in Dtbs, v \in Vas : v2p_cache[d][v] = None
    BY DEF Init
  <2>2. \A p \in Pids : pid_cache[p] = None
    BY DEF Init
  <2> QED
    BY <2>1, <2>2 DEF Fresh
<1>3. CallInv /\ AnswerRight
  BY DEF Init, CallInv, AnswerRight
<1> QED
  BY <1>1, <1>2, <1>3 DEF TransInv

\* An entry set in, or removed from, the table of an address space.
LEMMA TableTyped ==
  ASSUME NEW t \in Tables, NEW d \in Dtbs, NEW v \in Vas, NEW pa \in Pas \cup {None}
  PROVE  /\ [t EXCEPT ![d][v] = pa] \in Tables
         /\ \A e \in Dtbs, w \in Vas :
              [t EXCEPT ![d][v] = pa][e][w] = IF e = d /\ w = v THEN pa ELSE t[e][w]
         /\ t[d][v] \in Pas \cup {None}
BY DEF Tables

\* Caching a translation keeps the types.
LEMMA SetTyped ==
  ASSUME v2p_cache \in Tables, freed \subseteq (Dtbs \X Vas) \cup Pids,
         NEW d \in Dtbs, NEW v \in Vas, NEW pa \in Pas, v2p_cache_set(d, v, pa)
  PROVE  v2p_cache' \in Tables /\ freed' \subseteq (Dtbs \X Vas) \cup Pids
<1>1. CASE pa = 0
  BY <1>1 DEF v2p_cache_set
<1>2. CASE pa # 0
  <2>1. v2p_cache' = [v2p_cache EXCEPT ![d][v] = pa]
        /\ freed' \in {freed, freed \cup {<<d, v>>}}
    BY <1>2 DEF v2p_cache_set
  <2>2. v2p_cache' \in Tables
    BY <2>1, TableTyped
  <2>3. freed' \subseteq (Dtbs \X Vas) \cup Pids
    BY <2>1
  <2> QED
    BY <2>2, <2>3
<1> QED
  BY <1>1, <1>2

\* Outside the user's code there is a call.
LEMMA InCall == TypeOK /\ pc # "idle" => call \in Call /\ call # None
BY NoneAssumption DEF TypeOK

\* Resolving a pid ends the call, or gives it a directory.
LEMMA ResolveTyped ==
  ASSUME TypeOK, pc # "idle", NEW step \in {"lookup", "extended"}, vmi_pid_to_dtb(step)
  PROVE  /\ pid_cache' \in [Pids -> Dtbs \cup {None}]
         /\ freed' \subseteq (Dtbs \X Vas) \cup Pids
         /\ \/ /\ pc' = step /\ call' \in Call /\ call'.dtb \in Dtbs /\ answer' = answer
               /\ call' = [call EXCEPT !.dtb = call'.dtb]
            \/ pc' = "idle" /\ call' = None /\ answer' \in Answer
<1> USE DEF TypeOK
<1>1. call \in Call /\ \A d \in Dtbs : LET c == [call EXCEPT !.dtb = d] IN c \in Call /\ c.dtb = d
  BY InCall DEF Call
<1>2. CASE call.pid = Kernel /\ pc' = step /\ call' = [call EXCEPT !.dtb = Kpgd]
           /\ answer' = answer /\ UNCHANGED <<pid_cache, freed>>
  BY <1>1, <1>2, AddressAssumption
<1>3. CASE /\ call.pid \in Pids /\ pid_cache[call.pid] # None
           /\ pc' = step /\ call' = [call EXCEPT !.dtb = pid_cache[call.pid]]
           /\ answer' = answer /\ UNCHANGED <<pid_cache, freed>>
  <2>1. pid_cache[call.pid] \in Dtbs
    BY <1>3
  <2> QED
    BY <1>1, <1>3, <2>1
<1>4. CASE /\ call.pid \in Pids /\ pid_cache[call.pid] = None /\ pgd[call.pid] # None
           /\ pc' = step /\ call' = [call EXCEPT !.dtb = pgd[call.pid]]
           /\ answer' = answer /\ pid_cache_set(call.pid, pgd[call.pid])
  <2>1. pgd[call.pid] \in Dtbs
    BY <1>4
  <2>2. /\ pid_cache' \in [Pids -> Dtbs \cup {None}]
        /\ freed' = freed
    BY <1>4, <2>1 DEF pid_cache_set
  <2> QED
    BY <1>1, <1>4, <2>1, <2>2
<1>5. CASE Return(None) /\ UNCHANGED <<pid_cache, freed>>
  BY <1>1, <1>5 DEF Return, Answer
<1> QED
  BY <1>2, <1>3, <1>4, <1>5 DEF vmi_pid_to_dtb

\* Every step keeps the types.
LEMMA NextTypes == TypeOK /\ CallInv /\ [Next]_vars => TypeOK'
<1> SUFFICES ASSUME TypeOK, CallInv, [Next]_vars
             PROVE  TypeOK'
  OBVIOUS
<1> USE AddressAssumption DEF TypeOK, Tables
<1>1. ASSUME NEW dtb \in Dtbs, NEW va \in Vas, Remap(dtb, va)
      PROVE  TypeOK'
  BY <1>1 DEF Remap, caches
<1>2. ASSUME NEW dtb \in Dtbs, NEW va \in Vas,
             vmi_pagetable_lookup(dtb, va) \/ vmi_pagetable_lookup_extended(dtb, va)
      PROVE  TypeOK'
  <2>1. steady' \in BOOLEAN
    BY <1>2 DEF vmi_pagetable_lookup, vmi_pagetable_lookup_extended, ghosts
  <2>2. CASE vmi_pagetable_lookup(dtb, va)
    BY <2>1, <2>2 DEF vmi_pagetable_lookup, guest, caches, ghosts, Call
  <2>3. CASE vmi_pagetable_lookup_extended(dtb, va)
    BY <2>1, <2>3 DEF vmi_pagetable_lookup_extended, guest, caches, Call
  <2> QED
    BY <1>2, <2>2, <2>3
<1>3. ASSUME NEW dtb \in Dtbs, NEW va \in Vas, NEW pa \in Pas, vmi_v2pcache_add(dtb, va, pa)
      PROVE  TypeOK'
  BY <1>3, SetTyped DEF vmi_v2pcache_add, guest
<1>4. ASSUME NEW pid \in Pids, Switch(pid)
      PROVE  TypeOK'
  <2>1. steady' \in BOOLEAN
    BY <1>4 DEF Switch
  <2> QED
    BY <1>4, <2>1 DEF Switch, caches
<1>5. ASSUME NEW pid \in Pids, NEW dtb \in Dtbs, vmi_pidcache_add(pid, dtb)
      PROVE  TypeOK'
  BY <1>5 DEF vmi_pidcache_add, pid_cache_set, guest
<1>6. ASSUME NEW pid \in Pids \cup {Kernel}, NEW va \in Vas, vmi_translate_uv2p(pid, va)
      PROVE  TypeOK'
  BY <1>6 DEF vmi_translate_uv2p, guest, caches, ghosts, Call
<1>7. ASSUME NEW dtbs \in SUBSET Dtbs, vmi_v2pcache_flush(dtbs)
      PROVE  TypeOK'
  BY <1>7 DEF vmi_v2pcache_flush, Flushed, guest
<1>8. CASE vmi_pidcache_flush
  BY <1>8 DEF vmi_pidcache_flush, guest
<1>9. CASE Resolve
  <2>1. pc = "dtb" /\ vmi_pid_to_dtb("lookup") /\ UNCHANGED <<guest, v2p_cache, ghosts>>
    BY <1>9 DEF Resolve, At
  <2> QED
    BY <2>1, ResolveTyped DEF guest, ghosts
<1>10. CASE Get
  BY <1>10 DEF Get, At, guest, caches, ghosts
<1>11. CASE Verify
  <2>1. call \in Call /\ call.dtb \in Dtbs /\ call.va \in Vas /\ pc = "verify"
    BY <1>11, InCall DEF Verify, At, Call, CallInv
  <2>2. v2p_cache[call.dtb][call.va] \in Pas \cup {None}
    BY <2>1, TableTyped
  <2>3. v2p_cache' \in Tables
    <3>1. CASE UNCHANGED v2p_cache
      BY <3>1
    <3>2. CASE v2p_cache_del(call.dtb, call.va)
      BY <2>1, <3>2, TableTyped DEF v2p_cache_del
    <3> QED
      BY <1>11, <3>1, <3>2 DEF Verify
  <2> QED
    BY <1>11, <2>1, <2>2, <2>3 DEF Verify, Return, guest, ghosts, Answer
<1>12. CASE Found
  <2>1. call \in Call /\ call.dtb \in Dtbs /\ call.va \in Vas
    BY <1>12, InCall DEF Found, At, Call, CallInv
  <2>2. pt[call.dtb][call.va] \in Pas
    BY <1>12, <2>1, TableTyped DEF Found
  <2>3. v2p_cache' \in Tables /\ freed' \subseteq (Dtbs \X Vas) \cup Pids
    BY <1>12, <2>1, <2>2, SetTyped DEF Found
  <2> QED
    BY <1>12, <2>1, <2>2, <2>3 DEF Found, Return, guest, ghosts, Answer
<1>13. CASE NotFound
  BY <1>13 DEF NotFound, At, Return, guest, caches, ghosts, Answer
<1>14. CASE Retry
  BY <1>14 DEF Retry, At, Return, guest, ghosts, Answer
<1>15. CASE ResolveAgain
  <2>1. pc = "dtb2" /\ vmi_pid_to_dtb("extended") /\ UNCHANGED <<guest, v2p_cache, ghosts>>
    BY <1>15 DEF ResolveAgain, At
  <2> QED
    BY <2>1, ResolveTyped DEF guest, ghosts
<1>16. CASE UNCHANGED vars
  BY <1>16 DEF vars, guest, caches, ghosts
<1>17. \A dtbs \in {{d} : d \in Dtbs} \cup {Dtbs} : dtbs \in SUBSET Dtbs
  OBVIOUS
<1> QED
  BY <1>1, <1>2, <1>3, <1>4, <1>5, <1>6, <1>7, <1>8, <1>9, <1>10, <1>11, <1>12, <1>13, <1>14,
     <1>15, <1>16, <1>17 DEF Next

-----------------------------------------------------------------------------
\* A call that returns what the tables have for its directory is answered right.
LEMMA ReturnRight ==
  ASSUME TypeOK, call \in Call, call.dtb \in Dtbs, NEW pa, Return(pa), UNCHANGED <<guest, ghosts>>,
         call.op = "uv2p" /\ call.pid \notin pid_changed => call.dtb = DirectoryOf(call.pid),
         call.dtb \notin v2p_changed => pa = pt[call.dtb][call.va]
  PROVE  AnswerRight'
<1>1. answer' = [call |-> call, pa |-> pa]
  BY DEF Return
<1>2. call.dtb # None
  BY AddressAssumption
<1> QED
  BY <1>1, <1>2 DEF AnswerRight, guest, ghosts, DirectoryOf

\* Only adding an entry, or a change of the guest, can make a cached translation wrong.
LEMMA SetFresh ==
  ASSUME TypeOK, Fresh, NEW d \in Dtbs, NEW v \in Vas, NEW pa \in Pas, v2p_cache_set(d, v, pa),
         d \in v2p_changed' \/ pa = pt[d][v], v2p_changed \subseteq v2p_changed',
         UNCHANGED <<guest, pid_cache, pid_changed>>
  PROVE  Fresh'
<1>1. \A e \in Dtbs, w \in Vas : \/ v2p_cache'[e][w] = v2p_cache[e][w]
                                 \/ e = d /\ w = v /\ v2p_cache'[e][w] = pa
  <2>1. CASE pa = 0
    BY <2>1 DEF v2p_cache_set
  <2>2. CASE pa # 0
    <3>1. v2p_cache' = [v2p_cache EXCEPT ![d][v] = pa]
      BY <2>2 DEF v2p_cache_set
    <3>2. \A e \in Dtbs, w \in Vas :
             v2p_cache'[e][w] = IF e = d /\ w = v THEN pa ELSE v2p_cache[e][w]
      BY <3>1, TableTyped, SMTT(30) DEF TypeOK
    <3> QED
      BY <3>2
  <2> QED
    BY <2>1, <2>2
<1>2. \A e \in Dtbs \ v2p_changed', w \in Vas : v2p_cache'[e][w] \in {None, pt'[e][w]}
  BY <1>1 DEF Fresh, guest
<1> QED
  BY <1>2 DEF Fresh, guest

\* Resolving the directory of a call keeps the answers right.
LEMMA ResolveRight ==
  ASSUME TransInv, NEW step \in {"lookup", "extended"}, pc \in {"dtb", "dtb2"},
         vmi_pid_to_dtb(step),
         UNCHANGED <<guest, v2p_cache, ghosts>>
  PROVE  Fresh' /\ CallInv' /\ AnswerRight'
<1> USE DEF TransInv, guest, ghosts
<1>1. call \in Call /\ call # None /\ call.op = "uv2p" /\ call.pid \in Pids \cup {Kernel}
  BY InCall DEF CallInv, Call
<1>2. \A d \in Dtbs : LET c == [call EXCEPT !.dtb = d] IN
                       c \in Call /\ c.dtb = d /\ c.op = "uv2p" /\ c.pid = call.pid
  BY <1>1 DEF Call
<1>3. ASSUME NEW d \in Dtbs, pc' = step, call' = [call EXCEPT !.dtb = d], answer' = answer,
             call.pid \notin pid_changed => d = DirectoryOf(call.pid)
      PROVE  CallInv' /\ AnswerRight'
  BY <1>1, <1>2, <1>3 DEF CallInv, AnswerRight, DirectoryOf
<1>4. CASE call.pid = Kernel /\ pc' = step /\ call' = [call EXCEPT !.dtb = Kpgd]
           /\ answer' = answer /\ UNCHANGED <<pid_cache, freed>>
  <2>1. CallInv' /\ AnswerRight'
    BY <1>3, <1>4, AddressAssumption DEF DirectoryOf
  <2> QED
    BY <1>4, <2>1 DEF Fresh
<1>5. CASE /\ call.pid \in Pids /\ pid_cache[call.pid] # None
           /\ pc' = step /\ call' = [call EXCEPT !.dtb = pid_cache[call.pid]]
           /\ answer' = answer /\ UNCHANGED <<pid_cache, freed>>
  <2>1. pid_cache[call.pid] \in Dtbs /\ call.pid # Kernel
    BY <1>5, AddressAssumption DEF TypeOK
  <2>2. call.pid \notin pid_changed => pid_cache[call.pid] = DirectoryOf(call.pid)
    BY <1>5, <2>1 DEF Fresh, DirectoryOf
  <2>3. CallInv' /\ AnswerRight'
    BY <1>3, <1>5, <2>1, <2>2
  <2> QED
    BY <1>5, <2>3 DEF Fresh
<1>6. CASE /\ call.pid \in Pids /\ pid_cache[call.pid] = None /\ pgd[call.pid] # None
           /\ pc' = step /\ call' = [call EXCEPT !.dtb = pgd[call.pid]]
           /\ answer' = answer /\ pid_cache_set(call.pid, pgd[call.pid])
  <2>1. pgd[call.pid] \in Dtbs /\ call.pid # Kernel
    BY <1>6, AddressAssumption DEF TypeOK
  <2>2. CallInv' /\ AnswerRight'
    BY <1>3, <1>6, <2>1 DEF DirectoryOf
  <2>3. pid_cache' = [pid_cache EXCEPT ![call.pid] = pgd[call.pid]]
    BY <1>6 DEF pid_cache_set
  <2>4. Fresh'
    BY <1>6, <2>3 DEF Fresh, TypeOK
  <2> QED
    BY <2>2, <2>4
<1>7. CASE /\ call.pid \in Pids /\ pid_cache[call.pid] = None /\ pgd[call.pid] = None
           /\ Return(None) /\ UNCHANGED <<pid_cache, freed>>
  <2>1. DirectoryOf(call.pid) = None
    BY <1>7, AddressAssumption DEF DirectoryOf
  <2>2. answer' = [call |-> call, pa |-> None] /\ call' = None
    BY <1>7 DEF Return
  <2> QED
    BY <1>1, <1>7, <2>1, <2>2 DEF Fresh, CallInv, AnswerRight, DirectoryOf
<1> QED
  BY <1>4, <1>5, <1>6, <1>7 DEF vmi_pid_to_dtb

\* Every step keeps the invariant of the answers.
LEMMA NextTrans == TransInv /\ [Next]_vars => TransInv'
<1> SUFFICES ASSUME TransInv, [Next]_vars
             PROVE  Fresh' /\ CallInv' /\ AnswerRight'
  BY NextTypes DEF TransInv
<1> USE DEF TransInv
<1>1. ASSUME NEW dtb \in Dtbs, NEW va \in Vas, Remap(dtb, va)
      PROVE  Fresh' /\ CallInv' /\ AnswerRight'
  <2>1. PICK pa \in Pas \cup {None} : pt' = [pt EXCEPT ![dtb][va] = pa]
    BY <1>1 DEF Remap
  <2>2. \A d \in Dtbs \ {dtb} : pt'[d] = pt[d]
    BY <2>1 DEF TypeOK, Tables
  <2>3. v2p_changed' = v2p_changed \cup {dtb}
        /\ UNCHANGED <<pgd, caches, pc, call, answer, pid_changed>>
    BY <1>1 DEF Remap
  <2>4. Fresh'
    BY <2>2, <2>3 DEF Fresh, caches
  <2>5. CallInv'
    BY <2>2, <2>3 DEF CallInv, caches, DirectoryOf
  <2>6. AnswerRight'
    <3> SUFFICES ASSUME answer # None
                 PROVE  AnswerRight'
      BY <2>3 DEF AnswerRight
    <3> DEFINE c == answer.call
               d == IF c.op = "uv2p" THEN DirectoryOf(c.pid) ELSE c.dtb
    <3>1. answer \in Answer /\ c \in Call
      BY DEF TypeOK, Answer
    <3>2. d \in Dtbs \cup {None}
      BY <3>1, AddressAssumption DEF Call, DirectoryOf, TypeOK
    <3>3. \A v : d \notin v2p_changed' /\ d \in Dtbs => pt'[d][v] = pt[d][v]
      BY <2>2, <2>3
    <3>4. DirectoryOf(c.pid)' = DirectoryOf(c.pid) /\ UNCHANGED <<answer, pid_changed>>
      BY <2>3 DEF DirectoryOf
    <3>5. v2p_changed \subseteq v2p_changed'
      BY <2>3
    <3>6. CASE d = None
      BY <3>4, <3>5, <3>6 DEF AnswerRight
    <3>7. CASE d \in Dtbs
      BY <3>3, <3>4, <3>5, <3>7, AddressAssumption DEF AnswerRight
    <3> QED
      BY <3>2, <3>6, <3>7
  <2> QED
    BY <2>4, <2>5, <2>6
<1>2. ASSUME NEW pid \in Pids, Switch(pid)
      PROVE  Fresh' /\ CallInv' /\ AnswerRight'
  <2>1. PICK dtb \in Dtbs \cup {None} : pgd' = [pgd EXCEPT ![pid] = dtb]
    BY <1>2 DEF Switch
  <2>2. pid_changed' = pid_changed \cup {pid}
        /\ UNCHANGED <<pt, caches, pc, call, answer, v2p_changed>>
    BY <1>2 DEF Switch
  <2>3. \A p : p # pid => DirectoryOf(p)' = DirectoryOf(p)
    BY <2>1 DEF DirectoryOf, TypeOK
  <2>4. Fresh'
    BY <2>1, <2>2 DEF Fresh, caches, TypeOK
  <2>5. CallInv' /\ AnswerRight'
    BY <2>2, <2>3 DEF CallInv, AnswerRight, caches
  <2> QED
    BY <2>4, <2>5
<1>3. ASSUME NEW dtb \in Dtbs, NEW va \in Vas,
             vmi_pagetable_lookup(dtb, va) \/ vmi_pagetable_lookup_extended(dtb, va)
      PROVE  Fresh' /\ CallInv' /\ AnswerRight'
  BY <1>3 DEF vmi_pagetable_lookup, vmi_pagetable_lookup_extended, guest, caches, ghosts,
              Fresh, CallInv, AnswerRight
<1>4. ASSUME NEW pid \in Pids \cup {Kernel}, NEW va \in Vas, vmi_translate_uv2p(pid, va)
      PROVE  Fresh' /\ CallInv' /\ AnswerRight'
  BY <1>4 DEF vmi_translate_uv2p, guest, caches, ghosts, Fresh, CallInv, AnswerRight
<1>5. ASSUME NEW dtb \in Dtbs, NEW va \in Vas, NEW pa \in Pas, vmi_v2pcache_add(dtb, va, pa)
      PROVE  Fresh' /\ CallInv' /\ AnswerRight'
  <2>1. Fresh'
    BY <1>5, SetFresh DEF vmi_v2pcache_add, TypeOK
  <2>2. CallInv' /\ AnswerRight'
    BY <1>5 DEF vmi_v2pcache_add, User, CallInv, AnswerRight, TypeOK
  <2> QED
    BY <2>1, <2>2
<1>6. ASSUME NEW dtbs \in SUBSET Dtbs, vmi_v2pcache_flush(dtbs)
      PROVE  Fresh' /\ CallInv' /\ AnswerRight'
  <2>1. \A d \in Dtbs, v \in Vas : v2p_cache'[d][v] = IF d \in dtbs THEN None ELSE v2p_cache[d][v]
    BY <1>6 DEF vmi_v2pcache_flush, Flushed
  <2>2. Fresh'
    BY <1>6, <2>1 DEF vmi_v2pcache_flush, guest, Fresh
  <2>3. CallInv' /\ AnswerRight'
    BY <1>6 DEF vmi_v2pcache_flush, User, CallInv, AnswerRight, TypeOK
  <2> QED
    BY <2>2, <2>3
<1>7. ASSUME NEW pid \in Pids, NEW dtb \in Dtbs, vmi_pidcache_add(pid, dtb)
      PROVE  Fresh' /\ CallInv' /\ AnswerRight'
  <2>1. pid_cache' = [pid_cache EXCEPT ![pid] = dtb]
    BY <1>7 DEF vmi_pidcache_add, pid_cache_set
  <2>2. Fresh'
    BY <1>7, <2>1 DEF vmi_pidcache_add, guest, Fresh, TypeOK
  <2>3. CallInv' /\ AnswerRight'
    BY <1>7 DEF vmi_pidcache_add, User, CallInv, AnswerRight, TypeOK
  <2> QED
    BY <2>2, <2>3
<1>8. CASE vmi_pidcache_flush
  BY <1>8 DEF vmi_pidcache_flush, User, guest, Fresh, CallInv, AnswerRight, TypeOK
<1>9. CASE Resolve
  BY <1>9, ResolveRight DEF Resolve, At
<1>10. CASE Get
  BY <1>10 DEF Get, At, guest, caches, ghosts, Fresh, CallInv, AnswerRight, DirectoryOf
<1>11. CASE Verify
  <2>1. /\ call \in Call /\ call.dtb \in Dtbs /\ call.va \in Vas /\ call # None
        /\ call.op = "uv2p" /\ call.pid \notin pid_changed => call.dtb = DirectoryOf(call.pid)
        /\ v2p_cache[call.dtb][call.va] # None
    BY <1>11, InCall DEF Verify, At, Call, CallInv
  <2>2. UNCHANGED <<guest, pid_cache, freed, ghosts>>
    BY <1>11 DEF Verify
  <2>3. CASE Return(v2p_cache[call.dtb][call.va]) /\ UNCHANGED v2p_cache
    <3>1. call.dtb \notin v2p_changed => v2p_cache[call.dtb][call.va] = pt[call.dtb][call.va]
      BY <2>1 DEF Fresh
    <3>2. AnswerRight'
      BY <2>1, <2>2, <2>3, <3>1, ReturnRight
    <3> QED
      BY <2>2, <2>3, <3>2 DEF Return, Fresh, CallInv, guest, ghosts
  <2>4. CASE v2p_cache_del(call.dtb, call.va) /\ pc' = "walk" /\ UNCHANGED <<call, answer>>
    <3>1. \A d \in Dtbs, v \in Vas : v2p_cache'[d][v] \in {None, v2p_cache[d][v]}
      BY <2>1, <2>4, TableTyped DEF v2p_cache_del, TypeOK
    <3> QED
      BY <2>1, <2>2, <2>4, <3>1 DEF Fresh, CallInv, AnswerRight, guest, ghosts, DirectoryOf
  <2> QED
    BY <1>11, <2>3, <2>4 DEF Verify
<1>12. CASE Found
  <2>1. /\ call \in Call /\ call.dtb \in Dtbs /\ call.va \in Vas
        /\ call.op = "uv2p" /\ call.pid \notin pid_changed => call.dtb = DirectoryOf(call.pid)
    BY <1>12, InCall DEF Found, At, Call, CallInv
  <2>2. pt[call.dtb][call.va] \in Pas
    BY <1>12, <2>1 DEF Found, TypeOK, Tables
  <2>3. /\ v2p_cache_set(call.dtb, call.va, pt[call.dtb][call.va])
        /\ Return(pt[call.dtb][call.va])
        /\ UNCHANGED <<guest, pid_cache, ghosts>>
    BY <1>12 DEF Found
  <2>4. Fresh'
    BY <2>1, <2>2, <2>3, SetFresh DEF ghosts
  <2>5. AnswerRight'
    BY <2>1, <2>3, ReturnRight
  <2>6. CallInv'
    BY <2>3 DEF Return, CallInv
  <2> QED
    BY <2>4, <2>5, <2>6
<1>13. CASE NotFound
  <2>1. /\ call \in Call /\ call.dtb \in Dtbs /\ call.va \in Vas /\ call # None
        /\ call.op = "uv2p" /\ call.pid \notin pid_changed => call.dtb = DirectoryOf(call.pid)
        /\ pt[call.dtb][call.va] = None
        /\ UNCHANGED <<guest, caches, ghosts>>
    BY <1>13, InCall DEF NotFound, At, Call, CallInv
  <2>2. CASE call.op = "uv2p" /\ pc' = "retry" /\ UNCHANGED <<call, answer>>
    BY <2>1, <2>2 DEF Fresh, CallInv, AnswerRight, guest, caches, ghosts, DirectoryOf
  <2>3. CASE Return(None)
    <3>1. AnswerRight'
      BY <2>1, <2>3, ReturnRight
    <3> QED
      BY <2>1, <2>3, <3>1 DEF Return, Fresh, CallInv, guest, caches, ghosts
  <2> QED
    BY <1>13, <2>2, <2>3 DEF NotFound
<1>14. CASE Retry
  <2>1. /\ call \in Call /\ call.dtb \in Dtbs /\ call # None /\ call.op = "uv2p"
        /\ call.pid \in Pids \cup {Kernel}
        /\ call.pid \notin pid_changed => call.dtb = DirectoryOf(call.pid)
        /\ call.dtb \notin v2p_changed => pt[call.dtb][call.va] = None
        /\ UNCHANGED <<guest, v2p_cache, freed, ghosts>>
    BY <1>14, InCall DEF Retry, At, CallInv, Call
  <2>2. CASE pid_cache' = [pid_cache EXCEPT ![call.pid] = None] /\ pc' = "dtb2"
          /\ UNCHANGED <<call, answer>>
    BY <2>1, <2>2 DEF Fresh, CallInv, AnswerRight, guest, ghosts, DirectoryOf, TypeOK
  <2>3. CASE Return(None) /\ UNCHANGED pid_cache
    <3>1. AnswerRight'
      BY <2>1, <2>3, ReturnRight
    <3> QED
      BY <2>1, <2>3, <3>1 DEF Return, Fresh, CallInv, guest, ghosts
  <2> QED
    BY <1>14, <2>2, <2>3 DEF Retry
<1>15. CASE ResolveAgain
  BY <1>15, ResolveRight DEF ResolveAgain, At
<1>16. CASE UNCHANGED vars
  BY <1>16 DEF vars, guest, caches, ghosts, Fresh, CallInv, AnswerRight, DirectoryOf
<1>17. \A dtbs \in {{d} : d \in Dtbs} \cup {Dtbs} : dtbs \in SUBSET Dtbs
  OBVIOUS
<1> QED
  BY <1>1, <1>2, <1>3, <1>4, <1>5, <1>6, <1>7, <1>8, <1>9, <1>10, <1>11, <1>12, <1>13, <1>14,
     <1>15, <1>16, <1>17 DEF Next

\* Type correctness of translation.
THEOREM TranslationTypeCorrect == Spec => []TypeOK
<1>1. TransInv => TypeOK
  BY DEF TransInv
<1> QED
  BY InitTrans, NextTrans, <1>1, PTL DEF Spec

\* A flush makes the caches right, for every address space and process it covers and
\* until the guest changes them.
THEOREM FlushMakesFresh == Spec => []Fresh
<1>1. TransInv => Fresh
  BY DEF TransInv
<1> QED
  BY InitTrans, NextTrans, <1>1, PTL DEF Spec

\* A call made after a flush answers, address or failure, what the guest's own structures
\* say, however guest steps of other processes interleave with it.
THEOREM AnswersAreRight == Spec => []AnswerRight
<1>1. TransInv => AnswerRight
  BY DEF TransInv
<1> QED
  BY InitTrans, NextTrans, <1>1, PTL DEF Spec

-----------------------------------------------------------------------------
\* While processes keep their directories and the user adds no entries, an entry is only
\* set where there is none.
StableSteps ==
  steady => /\ freed = {} /\ pid_changed = {}
            /\ pc = "dtb" => call.dtb = None
            /\ pc \in {"walk", "retry", "dtb2", "extended"} => v2p_cache[call.dtb][call.va] = None
            /\ FailedNotCached

StableInv == TransInv /\ StableSteps

\* Resolving the directory of a call frees nothing while processes keep theirs.
LEMMA StableResolve ==
  ASSUME StableInv, steady, NEW step \in {"lookup", "extended"},
         pc = IF step = "lookup" THEN "dtb" ELSE "dtb2",
         vmi_pid_to_dtb(step), UNCHANGED <<guest, v2p_cache, ghosts>>
  PROVE  /\ freed' = {}
         /\ pc' = "extended" => v2p_cache'[call'.dtb][call'.va] = None
         /\ pc' \notin {"dtb", "walk", "retry", "dtb2"}
         /\ FailedNotCached'
<1> USE DEF StableInv, StableSteps, TransInv, guest, ghosts
<1>1. call \in Call /\ call # None /\ call.op = "uv2p" /\ call.pid \in Pids \cup {Kernel}
  BY InCall DEF CallInv, Call
<1>2. \A d \in Dtbs : LET c == [call EXCEPT !.dtb = d] IN c.dtb = d /\ c.va = call.va
  BY <1>1 DEF Call
<1>3. step = "extended" => call.dtb = DirectoryOf(call.pid) /\ v2p_cache[call.dtb][call.va] = None
  BY <1>1 DEF CallInv
<1>4. ASSUME NEW d \in Dtbs, pc' = step, call' = [call EXCEPT !.dtb = d], answer' = answer,
             d = DirectoryOf(call.pid)
      PROVE  /\ pc' = "extended" => v2p_cache'[call'.dtb][call'.va] = None
             /\ pc' \notin {"dtb", "walk", "retry", "dtb2"}
             /\ FailedNotCached'
  BY <1>2, <1>3, <1>4 DEF FailedNotCached
<1>5. CASE call.pid = Kernel /\ pc' = step /\ call' = [call EXCEPT !.dtb = Kpgd]
           /\ answer' = answer /\ UNCHANGED <<pid_cache, freed>>
  BY <1>4, <1>5, AddressAssumption DEF DirectoryOf
<1>6. CASE /\ call.pid \in Pids /\ pid_cache[call.pid] # None
           /\ pc' = step /\ call' = [call EXCEPT !.dtb = pid_cache[call.pid]]
           /\ answer' = answer /\ UNCHANGED <<pid_cache, freed>>
  <2>1. pid_cache[call.pid] \in Dtbs /\ pid_cache[call.pid] = DirectoryOf(call.pid)
    BY <1>6, AddressAssumption DEF TypeOK, Fresh, DirectoryOf
  <2> QED
    BY <1>4, <1>6, <2>1
<1>7. CASE /\ call.pid \in Pids /\ pid_cache[call.pid] = None /\ pgd[call.pid] # None
           /\ pc' = step /\ call' = [call EXCEPT !.dtb = pgd[call.pid]]
           /\ answer' = answer /\ pid_cache_set(call.pid, pgd[call.pid])
  <2>1. pgd[call.pid] \in Dtbs /\ pgd[call.pid] = DirectoryOf(call.pid)
    BY <1>7, AddressAssumption DEF TypeOK, DirectoryOf
  <2>2. freed' = {}
    BY <1>7 DEF pid_cache_set
  <2> QED
    BY <1>4, <1>7, <2>1, <2>2
<1>8. CASE Return(None) /\ UNCHANGED <<pid_cache, freed>>
  <2>1. answer' = [call |-> call, pa |-> None] /\ pc' = "idle"
    BY <1>8 DEF Return
  <2> QED
    BY <1>3, <1>8, <2>1 DEF FailedNotCached
<1> QED
  BY <1>5, <1>6, <1>7, <1>8 DEF vmi_pid_to_dtb

\* Every step keeps the invariant of the steady caches.
LEMMA NextStable == StableInv /\ [Next]_vars => StableInv'
<1> SUFFICES ASSUME StableInv, [Next]_vars, steady'
             PROVE  StableSteps'
  BY NextTrans DEF StableInv, StableSteps
<1> USE DEF StableInv, StableSteps, TransInv
<1>1. ASSUME NEW dtb \in Dtbs, NEW va \in Vas, Remap(dtb, va)
      PROVE  StableSteps'
  BY <1>1 DEF Remap, caches, FailedNotCached
<1>2. ASSUME NEW dtb \in Dtbs, NEW va \in Vas, vmi_pagetable_lookup(dtb, va)
      PROVE  StableSteps'
  BY <1>2 DEF vmi_pagetable_lookup, guest, caches, ghosts, FailedNotCached
<1>3. ASSUME NEW pid \in Pids \cup {Kernel}, NEW va \in Vas, vmi_translate_uv2p(pid, va)
      PROVE  StableSteps'
  BY <1>3 DEF vmi_translate_uv2p, guest, caches, ghosts, FailedNotCached
<1>4. ASSUME NEW dtbs \in SUBSET Dtbs, vmi_v2pcache_flush(dtbs)
      PROVE  StableSteps'
  BY <1>4 DEF vmi_v2pcache_flush, User, FailedNotCached
<1>5. CASE vmi_pidcache_flush
  BY <1>5 DEF vmi_pidcache_flush, User, FailedNotCached
<1>6. CASE Resolve
  <2>1. pc = "dtb" /\ vmi_pid_to_dtb("lookup") /\ UNCHANGED <<guest, v2p_cache, ghosts>>
    BY <1>6 DEF Resolve, At
  <2> QED
    BY <2>1, StableResolve DEF ghosts
<1>7. CASE Get
  BY <1>7 DEF Get, At, guest, caches, ghosts, FailedNotCached
<1>8. CASE Verify
  <2>1. call \in Call /\ call.dtb \in Dtbs /\ call.va \in Vas
        /\ v2p_cache[call.dtb][call.va] # None /\ UNCHANGED <<freed, ghosts>>
    BY <1>8, InCall DEF Verify, At, Call, CallInv
  <2>2. CASE Return(v2p_cache[call.dtb][call.va]) /\ UNCHANGED v2p_cache
    BY <2>1, <2>2 DEF Return, ghosts, FailedNotCached
  <2>3. CASE v2p_cache_del(call.dtb, call.va) /\ pc' = "walk" /\ UNCHANGED <<call, answer>>
    <3>1. \A d \in Dtbs, v \in Vas :
             v2p_cache'[d][v] = IF d = call.dtb /\ v = call.va THEN None ELSE v2p_cache[d][v]
      BY <2>1, <2>3 DEF v2p_cache_del, TypeOK, Tables
    <3>2. answer # None /\ answer.call.dtb # None =>
            answer.call.dtb \in Dtbs /\ answer.call.va \in Vas
      BY DEF TypeOK, Answer, Call
    <3> QED
      BY <2>1, <2>3, <3>1, <3>2 DEF ghosts, FailedNotCached
  <2> QED
    BY <1>8, <2>2, <2>3 DEF Verify
<1>9. CASE Found
  <2>1. v2p_cache[call.dtb][call.va] = None /\ freed = {}
    BY <1>9 DEF Found, At, ghosts
  <2>2. freed' = {}
    BY <1>9, <2>1 DEF Found, v2p_cache_set
  <2> QED
    BY <1>9, <2>2 DEF Found, Return, ghosts, FailedNotCached
<1>10. CASE NotFound
  BY <1>10 DEF NotFound, At, Return, caches, ghosts, FailedNotCached
<1>11. CASE Retry
  BY <1>11 DEF Retry, At, Return, ghosts, FailedNotCached
<1>12. CASE ResolveAgain
  <2>1. pc = "dtb2" /\ vmi_pid_to_dtb("extended") /\ UNCHANGED <<guest, v2p_cache, ghosts>>
    BY <1>12 DEF ResolveAgain, At
  <2> QED
    BY <2>1, StableResolve DEF ghosts
<1>13. CASE UNCHANGED vars
  BY <1>13 DEF vars, guest, caches, ghosts, FailedNotCached
<1>14. \A dtbs \in {{d} : d \in Dtbs} \cup {Dtbs} : dtbs \in SUBSET Dtbs
  OBVIOUS
<1>15. /\ \A dtb, va : ~vmi_pagetable_lookup_extended(dtb, va)
       /\ \A dtb, va, pa : ~vmi_v2pcache_add(dtb, va, pa)
       /\ \A pid, dtb : ~vmi_pidcache_add(pid, dtb)
       /\ \A pid : ~Switch(pid)
  BY DEF vmi_pagetable_lookup_extended, vmi_v2pcache_add, vmi_pidcache_add, Switch
<1> QED
  BY <1>1, <1>2, <1>3, <1>4, <1>5, <1>6, <1>7, <1>8, <1>9, <1>10, <1>11, <1>12, <1>13, <1>14,
     <1>15 DEF Next

\* Empty caches are steady.
LEMMA InitStable == Init => StableInv
BY InitTrans DEF Init, StableInv, StableSteps, FailedNotCached

\* While no process changes its directory and the user adds no entries of his own, neither
\* table ever refers to freed memory, whatever the guest does to its page tables.
THEOREM CachesIntact == Spec => []Intact
<1>1. StableInv => Intact
  BY DEF StableInv, StableSteps, Intact
<1> QED
  BY InitStable, NextStable, <1>1, PTL DEF Spec

\* Under the same conditions a call that fails leaves no translation of its address.
THEOREM FailuresAreNotCached == Spec => []FailedNotCached
<1>1. StableInv => FailedNotCached
  BY DEF StableInv, StableSteps, FailedNotCached
<1> QED
  BY InitStable, NextStable, <1>1, PTL DEF Spec
=============================================================================
