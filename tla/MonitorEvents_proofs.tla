------------------------- MODULE MonitorEvents_proofs -------------------------
(***************************************************************************)
(* Theorems about MonitorEvents, for any vCPUs, kinds, events and          *)
(* registers, and any calls the user makes.                                *)
(***************************************************************************)
EXTENDS MonitorEvents, SequenceTheorems, TLAPS

\* Nothing waits to be cleared once a listen is over: an event that is cleared at once is
\* not in the queue as well.
ClearsInv == pc \in {"idle", "notify"} => ~ClearsQueued

\* Where the domain did pause, xen_events_listen_48 comes to the clears with the ring empty.
PauseInv == pc = "clears" /\ paused => ring = <<>>

\* The vCPUs whose requests are under way: each waits for one, which is on the ring, taken
\* or answered.
WaitInv ==
  /\ responses \subseteq blocked
  /\ \A i \in DOMAIN ring : ring[i].vcpu_id \in blocked \ responses
  /\ \A i, j \in DOMAIN ring : ring[i].vcpu_id = ring[j].vcpu_id => i = j
  /\ req # None => /\ req.vcpu_id \in blocked \ responses
                   /\ \A i \in DOMAIN ring : ring[i].vcpu_id # req.vcpu_id

IInv == TypeOK /\ Agree /\ NoDangling /\ ClearsInv /\ PauseInv /\ WaitInv /\ Deliverable

-----------------------------------------------------------------------------
(* The kinds and the driver's switches. *)

\* No trap of a kind with a switch of its own belongs to another kind.
LEMMA ServesApart ==
  ASSUME NEW k \in Kinds \ Generic, NEW j \in Kinds, j # k
  PROVE  Serves[k] \cap Serves[j] = {}
  <1>0. \A h \in Kinds \ Generic : Serves[h] = IF h = "MSR_ALL" THEN Msrs ELSE {h}
    BY KindAssumption
  <1>1. CASE j \in Generic
    <2>1. Serves[j] \cap (Kinds \cup Msrs) = {}
      BY <1>1, KindAssumption
    <2> QED BY <1>0, <2>1
  <1>2. CASE j \notin Generic
    <2>1. Msrs \cap Kinds = {}
      BY KindAssumption
    <2>2. Serves[k] = Msrs \/ Serves[k] = {k}
      BY <1>0
    <2>3. /\ Serves[j] = Msrs => j = "MSR_ALL"
          /\ k = "MSR_ALL" <=> Serves[k] = Msrs
      BY <1>0, <1>2, <2>1
    <2>4. Serves[j] = Msrs \/ Serves[j] = {j}
      BY <1>0, <1>2
    <2> QED BY <2>1, <2>2, <2>3, <2>4, <1>0
  <1> QED BY <1>1, <1>2

\* What a driver call does: nothing if it fails; otherwise the switch is turned and Xen
\* told, all of it unless the hypercalls of single registers may fail.
LEMMA DriverEffect ==
  ASSUME TypeOK, NEW k \in Kinds \ Generic, NEW enable \in BOOLEAN, NEW ok \in BOOLEAN,
         DriverSet(k, enable, ok)
  PROVE  /\ ~ok => UNCHANGED <<on, monitored>>
         /\ ok => /\ on' = IF k \notin Switched THEN on
                           ELSE IF enable THEN on \cup {k} ELSE on \ {k}
                  /\ \E traps \in SUBSET Serves[k] :
                       /\ Monitor(traps, enable)
                       /\ k # "MSR_ALL" \/ "msr" \notin MayFail => traps = Serves[k]
         /\ on' \subseteq Switched /\ monitored' \subseteq Traps
  <1>1. CASE ~ok
    BY <1>1 DEF DriverSet, TypeOK
  <1>2. CASE ok
    <2>1. on' = IF k \notin Switched THEN on ELSE IF enable THEN on \cup {k} ELSE on \ {k}
      BY <1>2 DEF DriverSet
    <2>2. PICK traps \in (IF k = "MSR_ALL" THEN Reached ELSE {Serves[k]}) :
            Monitor(traps, enable)
      BY <1>2 DEF DriverSet
    <2>3. traps \subseteq Serves[k]
      BY KindAssumption DEF Reached
    <2>4. k # "MSR_ALL" \/ "msr" \notin MayFail => traps = Serves[k]
      BY KindAssumption DEF Reached
    <2>5. monitored' \subseteq Traps
      BY <2>2, <2>3 DEF Monitor, Traps, TypeOK
    <2>6. on' \subseteq Switched
      BY <2>1 DEF TypeOK
    <2> QED BY <1>2, <2>1, <2>2, <2>3, <2>4, <2>5, <2>6
  <1> QED BY <1>1, <1>2

\* A page is restricted for generic memory events only, so the user's restrictions leave
\* the traps of the other kinds alone.
LEMMA MemTrapsApart ==
  ASSUME NEW k \in Kinds \ Generic PROVE Serves[k] \cap MemTraps = {}
  BY ServesApart, KindAssumption DEF MemTraps

\* No driver call makes Xen report what it never reports.
LEMMA SwitchReports ==
  ASSUME NEW k \in Kinds \ Generic
  PROVE  /\ SwitchOf(k) \in Kinds \ Generic
         /\ Serves[SwitchOf(k)] \cap Unreported = {}
         /\ k = "PRIVILEGED_CALL" => /\ Serves[SwitchOf(k)] = {"DEBUG_EXCEPTION"}
                                     /\ SwitchOf(k) \notin Switched
         /\ k # "PRIVILEGED_CALL" => SwitchOf(k) = k
  <1>1. SwitchOf(k) \in Kinds \ Generic /\ SwitchOf(k) # "PRIVILEGED_CALL"
    BY KindAssumption DEF SwitchOf, Special
  <1>2. Serves[SwitchOf(k)] = IF SwitchOf(k) = "MSR_ALL" THEN Msrs ELSE {SwitchOf(k)}
    BY <1>1, KindAssumption
  <1>3. Serves[SwitchOf(k)] \cap Kinds \cap {"PRIVILEGED_CALL"} = {}
    BY <1>1, <1>2, KindAssumption
  <1>4. Serves[SwitchOf(k)] \cap MemTraps = {}
    BY <1>1, MemTrapsApart
  <1>5. k = "PRIVILEGED_CALL" => SwitchOf(k) = "DEBUG_EXCEPTION"
    BY DEF SwitchOf
  <1>6. "DEBUG_EXCEPTION" \notin Switched
    BY DEF Switched
  <1> QED BY <1>1, <1>2, <1>3, <1>4, <1>5, <1>6 DEF Unreported, SwitchOf

\* A privileged call is never reported.
LEMMA PrivUnreported ==
  ASSUME "PRIVILEGED_CALL" \in Kinds
  PROVE  Serves["PRIVILEGED_CALL"] \subseteq Unreported
  <1>1. "PRIVILEGED_CALL" \in Kinds \ Generic
    BY KindAssumption DEF Special
  <1>2. Serves["PRIVILEGED_CALL"] = {"PRIVILEGED_CALL"}
    BY <1>1, KindAssumption
  <1> QED BY <1>2 DEF Unreported

\* What may linger for a kind of its own: the registers.
LEMMA SureTraps ==
  ASSUME NEW k \in Kinds \ Generic, NEW traps \in SUBSET Serves[k],
         k # "MSR_ALL" \/ "msr" \notin MayFail => traps = Serves[k]
  PROVE  Serves[k] \ Unsure \subseteq traps
  BY KindAssumption, ZenonT(60) DEF Unsure

\* A table entry written with the driver's consent leaves the three records in agreement.
LEMMA AgreeSet ==
  ASSUME TypeOK, Agree, NEW k \in Kinds \ Generic, NEW enable \in BOOLEAN,
         NEW ok \in BOOLEAN, DriverSet(SwitchOf(k), enable, ok),
         NEW e \in Events \cup {None}, enable <=> e # None,
         k = "PRIVILEGED_CALL" => enable,
         registered' = IF ok THEN [registered EXCEPT ![k] = e] ELSE registered
  PROVE  Agree'
  <1> DEFINE s == SwitchOf(k)
  <1>0. /\ s \in Kinds \ Generic /\ Serves[s] \cap Unreported = {}
        /\ k = "PRIVILEGED_CALL" => Serves[s] = {"DEBUG_EXCEPTION"} /\ s \notin Switched
        /\ k # "PRIVILEGED_CALL" => s = k
    BY SwitchReports
  <1> HIDE DEF s
  <1>1. CASE ~ok
    <2>1. UNCHANGED <<registered, on, monitored>>
      BY <1>0, <1>1, DriverEffect DEF s
    <2> QED BY <2>1 DEF Agree, MayLinger
  <1>2. CASE ok
    <2>1. PICK traps \in SUBSET Serves[s] :
            /\ Monitor(traps, enable)
            /\ s # "MSR_ALL" \/ "msr" \notin MayFail => traps = Serves[s]
      BY <1>0, <1>2, DriverEffect DEF s
    <2>2. on' = IF s \notin Switched THEN on ELSE IF enable THEN on \cup {s} ELSE on \ {s}
      BY <1>0, <1>2, DriverEffect DEF s
    <2>3. registered'[k] = e /\ \A j \in Kinds \ {k} : registered'[j] = registered[j]
      BY <1>2 DEF TypeOK
    <2>4. MayLinger \subseteq MayLinger' /\ Unsure \subseteq MayLinger'
      BY <2>3 DEF MayLinger, Unsure
    <2>5. k = "PRIVILEGED_CALL" => "DEBUG_EXCEPTION" \in MayLinger'
      BY <2>3 DEF MayLinger
    <2>6. monitored' = IF enable THEN monitored \cup traps ELSE monitored \ traps
      BY <2>1 DEF Monitor
    <2>7. Serves[s] \ Unsure \subseteq traps
      BY <1>0, <2>1, SureTraps
    <2>8. \A j \in Kinds \ {s} : Serves[j] \cap traps = {}
      BY <1>0, <2>1, ServesApart
    <2>9. ASSUME NEW j \in Switched PROVE j \in on' <=> registered'[j] # None
      <3>1. j \in Kinds /\ j # "PRIVILEGED_CALL" /\ (j \in on <=> registered[j] # None)
        BY DEF Switched, Agree
      <3>2. CASE j = k
        BY <1>0, <2>2, <2>3, <3>1, <3>2
      <3>3. CASE j # k
        BY <1>0, <2>2, <2>3, <3>1, <3>3
      <3> QED BY <3>2, <3>3
    <2>10. ASSUME NEW j \in Kinds, registered'[j] # None
           PROVE  Serves[j] \ (Unreported \cup Unsure) \subseteq monitored'
      <3>1. CASE j = k /\ k = "PRIVILEGED_CALL"
        <4>1. Serves[j] \subseteq Unreported
          BY <3>1, PrivUnreported
        <4> QED BY <4>1
      <3>2. CASE j = k /\ k # "PRIVILEGED_CALL"
        BY <1>0, <2>3, <2>6, <2>7, <2>10, <3>2
      <3>3. CASE j # k
        <4>1. Serves[j] \ (Unreported \cup Unsure) \subseteq monitored
          BY <2>3, <2>10, <3>3 DEF Agree
        <4> QED BY <1>0, <2>6, <2>8, <3>3, <4>1
      <3> QED BY <3>1, <3>2, <3>3
    <2>11. ASSUME NEW j \in Kinds, registered'[j] = None
           PROVE  Serves[j] \cap monitored' \subseteq MayLinger'
      <3>1. CASE j = k
        BY <1>0, <2>3, <2>4, <2>6, <2>7, <2>11, <3>1
      <3>2. CASE j # k
        <4>1. Serves[j] \cap monitored \subseteq MayLinger'
          BY <2>3, <2>4, <2>11, <3>2 DEF Agree
        <4>2. Serves[j] \cap traps \subseteq MayLinger'
          BY <1>0, <2>1, <2>5, <2>8, <3>2
        <4> QED BY <2>6, <4>1, <4>2
      <3> QED BY <3>1, <3>2
    <2>12. Unreported \cap monitored' = {}
      BY <1>0, <2>1, <2>6 DEF Agree
    <2> QED BY <2>9, <2>10, <2>11, <2>12 DEF Agree
  <1> QED BY <1>1, <1>2

\* A handler of generic memory events comes and goes without the driver.
LEMMA AgreeGeneric ==
  ASSUME TypeOK, Agree, NEW k \in Generic, NEW e \in Events \cup {None},
         registered' = [registered EXCEPT ![k] = e], UNCHANGED <<on, monitored>>
  PROVE  Agree'
  <1>1. k \in Kinds /\ k \notin Switched /\ k # "PRIVILEGED_CALL" /\ Serves[k] \subseteq Unreported
    <2>1. k \in Kinds /\ k # "PRIVILEGED_CALL" /\ Serves[k] \subseteq MemTraps
      BY KindAssumption DEF MemTraps, Special
    <2>2. k \notin Switched
      BY KindAssumption DEF Switched, Special
    <2> QED BY <2>1, <2>2 DEF Unreported
  <1>2. \A j \in Kinds \ {k} : registered'[j] = registered[j]
    BY DEF TypeOK
  <1>3. MayLinger' = MayLinger
    BY <1>1, <1>2 DEF MayLinger
  <1>4. ASSUME NEW j \in Kinds, registered'[j] # None
        PROVE  Serves[j] \ (Unreported \cup Unsure) \subseteq monitored'
    BY <1>1, <1>2, <1>4 DEF Agree
  <1>5. ASSUME NEW j \in Kinds, registered'[j] = None
        PROVE  Serves[j] \cap monitored' \subseteq MayLinger'
    BY <1>1, <1>2, <1>3, <1>5 DEF Agree
  <1>6. \A j \in Switched : j \in on' <=> registered'[j] # None
    BY <1>1, <1>2 DEF Agree, Switched
  <1> QED BY <1>4, <1>5, <1>6 DEF Agree

\* What a call of vmi_register_event does.
LEMMA RegisterEffect ==
  ASSUME TypeOK, Agree, NEW e \in Events, Register(e)
  PROVE  /\ Agree'
         /\ registered' = registered \/ registered' = [registered EXCEPT ![EvKind[e]] = e]
         /\ registered[EvKind[e]] = None
         /\ on' \subseteq Switched /\ monitored' \subseteq Traps
  <1> DEFINE k == EvKind[e]
  <1>0. k \in Kinds
    BY EventAssumption
  <1>1. CASE k \in Generic
    <2>1. registered' = [registered EXCEPT ![k] = e] /\ UNCHANGED <<on, monitored>>
      BY <1>1 DEF Register
    <2>2. Agree'
      <3> HIDE DEF k
      <3> QED BY <1>1, <2>1, AgreeGeneric
    <2> QED BY <2>1, <2>2 DEF Register, TypeOK
  <1>2. CASE k \notin Generic
    <2>1. PICK ok \in BOOLEAN :
            /\ DriverSet(SwitchOf(k), TRUE, ok)
            /\ registered' = IF ok THEN [registered EXCEPT ![k] = e] ELSE registered
      BY <1>2 DEF Register
    <2>2. k \in Kinds \ Generic
      BY <1>0, <1>2
    <2>3. Agree'
      <3>1. e \in Events \cup {None} /\ (TRUE <=> e # None)
        BY EventAssumption
      <3> HIDE DEF k
      <3> QED BY <2>1, <2>2, <3>1, AgreeSet
    <2>4. on' \subseteq Switched /\ monitored' \subseteq Traps
      BY <2>1, <2>2, SwitchReports, DriverEffect
    <2> QED BY <2>1, <2>3, <2>4 DEF Register
  <1> QED BY <1>1, <1>2

\* What a call of vmi_clear_event does, apart from its queue: the free routine is told that
\* the event is gone only if no event of its kind is left.
LEMMA ClearEffect ==
  ASSUME TypeOK, Agree, NEW e \in Events, NEW routine \in {"null", "free"},
         Clear(e, routine)
  PROVE  /\ Agree'
         /\ \/ UNCHANGED <<registered, freed>>
            \/ /\ registered' = [registered EXCEPT ![EvKind[e]] = None]
               /\ freed' = IF routine = "free" THEN freed \cup {e} ELSE freed
         /\ on' \subseteq Switched /\ monitored' \subseteq Traps
  <1> DEFINE k == EvKind[e]
  <1>0. k \in Kinds
    BY EventAssumption
  <1>1. CASE k \in Generic /\ registered' = [registered EXCEPT ![k] = None]
               /\ RunFree(e, routine, TRUE) /\ UNCHANGED <<on, monitored>>
    <2>1. Agree'
      <3> HIDE DEF k
      <3> QED BY <1>1, AgreeGeneric
    <2> QED BY <1>1, <2>1 DEF RunFree, TypeOK
  <1>2. CASE UNCHANGED <<tables, freed>>
    BY <1>2 DEF tables, Agree, MayLinger, TypeOK
  <1>3. ASSUME k \notin Generic \cup Unclearable, NEW ok \in BOOLEAN, DriverSet(k, FALSE, ok),
               registered' = IF ok THEN [registered EXCEPT ![k] = None] ELSE registered,
               RunFree(e, routine, ok)
        PROVE  /\ Agree'
               /\ \/ UNCHANGED <<registered, freed>>
                  \/ /\ registered' = [registered EXCEPT ![k] = None]
                     /\ freed' = IF routine = "free" THEN freed \cup {e} ELSE freed
               /\ on' \subseteq Switched /\ monitored' \subseteq Traps
    <2>1. k \in Kinds \ Generic
      BY <1>0, <1>3
    <2>2. Agree'
      <3>1. k # "PRIVILEGED_CALL" /\ SwitchOf(k) = k
        BY <1>3, <2>1 DEF Unclearable, SwitchOf
      <3> HIDE DEF k
      <3> QED BY <1>3, <2>1, <3>1, AgreeSet
    <2>3. on' \subseteq Switched /\ monitored' \subseteq Traps
      BY <1>3, <2>1, DriverEffect
    <2> QED BY <1>3, <2>2, <2>3 DEF RunFree
  <1> QED BY <1>1, <1>2, <1>3 DEF Clear

-----------------------------------------------------------------------------
(* Types. *)

\* Every step keeps the types.
LEMMA TypeStep == ASSUME TypeOK, Agree, [Next]_vars PROVE TypeOK'
  <1> USE DEF tables, clears, thread, guest
  <1>1. ASSUME NEW e \in Events, RegisterEvent(e) PROVE TypeOK'
    <2>1. registered' \in [Kinds -> Events \cup {None}]
      BY <1>1, RegisterEffect, EventAssumption DEF RegisterEvent, TypeOK
    <2>2. \A k \in Kinds : registered'[k] # None => EvKind[registered'[k]] = k
      BY <1>1, RegisterEffect, EventAssumption DEF RegisterEvent, TypeOK
    <2>3. on' \subseteq Switched /\ monitored' \subseteq Traps
      BY <1>1, RegisterEffect DEF RegisterEvent
    <2> QED BY <1>1, <2>1, <2>2, <2>3 DEF RegisterEvent, TypeOK
  <1>2. ASSUME NEW e \in Events, NEW routine \in {"null", "free"}, Clear(e, routine),
               clear_events' \in [Events -> {"no", "null", "free"}],
               UNCHANGED <<pc, deferring, req, ring, responses, blocked, paused>>,
               stale' \subseteq VCpus
        PROVE  TypeOK'
    <2>1. registered' \in [Kinds -> Events \cup {None}]
      BY <1>2, ClearEffect, EventAssumption DEF TypeOK
    <2>2. \A k \in Kinds : registered'[k] # None => EvKind[registered'[k]] = k
      BY <1>2, ClearEffect, EventAssumption DEF TypeOK
    <2>3. on' \subseteq Switched /\ monitored' \subseteq Traps
      BY <1>2, ClearEffect
    <2>4. freed' \subseteq Events
      BY <1>2, ClearEffect DEF TypeOK
    <2> QED BY <1>2, <2>1, <2>2, <2>3, <2>4 DEF TypeOK
  <1>3. ASSUME NEW e \in Events, NEW routine \in {"null", "free"}, ClearEvent(e, routine)
        PROVE  TypeOK'
    <2>1. CASE DeferClear(e, routine)
      <3>1. clear_events' \in [Events -> {"no", "null", "free"}]
        BY <2>1 DEF DeferClear, TypeOK
      <3> QED BY <1>3, <2>1, <3>1 DEF ClearEvent, DeferClear, TypeOK
    <2>2. CASE ClearNow(e, routine)
      <3>1. \A r \in ToSet(ring) : r \in Request
        BY DEF ToSet, TypeOK
      <3>2. stale' \subseteq VCpus
        BY <2>2, <3>1 DEF ClearNow, UnderWay, TypeOK, Request
      <3>3. clear_events' \in [Events -> {"no", "null", "free"}]
        BY <2>2 DEF ClearNow, TypeOK
      <3> QED BY <1>2, <1>3, <2>2, <3>2, <3>3 DEF ClearEvent, ClearNow
    <2> QED BY <1>3, <2>1, <2>2 DEF ClearEvent
  <1>4. ASSUME NEW e \in Events, ApplyClear(e) PROVE TypeOK'
    <2>1. clear_events[e] \in {"null", "free"}
      BY <1>4 DEF ApplyClear, TypeOK
    <2>2. clear_events' \in [Events -> {"no", "null", "free"}]
      BY <1>4 DEF ApplyClear, TypeOK
    <2>3. stale' \subseteq VCpus
      <3>1. \A r \in ToSet(ring) : r \in Request
        BY DEF ToSet, TypeOK
      <3> QED BY <1>4, <3>1 DEF ApplyClear, UnderWay, TypeOK, Request
    <2> QED BY <1>2, <1>4, <2>1, <2>2, <2>3 DEF ApplyClear
  <1>5. ASSUME NEW t \in MemTraps, NEW restrict \in BOOLEAN, SetMemEvent(t, restrict)
        PROVE  TypeOK'
    <2>1. t \in Traps
      BY KindAssumption DEF MemTraps, Traps
    <2>2. monitored' \subseteq Traps
      BY <1>5, <2>1 DEF SetMemEvent, Monitor, TypeOK
    <2> QED BY <1>5, <2>2 DEF SetMemEvent, TypeOK
  <1>6. ASSUME NEW v \in VCpus, NEW t \in Traps, Trap(v, t) PROVE TypeOK'
    <2>1. [vcpu_id |-> v, trap |-> t] \in Request
      BY DEF Request
    <2>2. ring' \in Seq(Request)
      BY <1>6, <2>1 DEF Trap, TypeOK
    <2> QED BY <1>6, <2>2 DEF Trap, TypeOK
  <1>7. CASE TakeRequest
    <2>1. Head(ring) \in Request /\ Tail(ring) \in Seq(Request)
      BY <1>7 DEF TakeRequest, TypeOK
    <2>2. req' # None
      BY <1>7, <2>1, NoneAssumption DEF TakeRequest
    <2>3. pc' \in {"callback", "respond"}
      BY <1>7 DEF TakeRequest
    <2> QED BY <1>7, <2>1, <2>2, <2>3 DEF TakeRequest, TypeOK
  <1>8. CASE PutResponse
    <2>1. req.vcpu_id \in VCpus
      BY <1>8 DEF PutResponse, TypeOK, Request
    <2> QED BY <1>8, <2>1 DEF PutResponse, TypeOK
  <1>10. CASE EventsListen \/ CallbackReturns
    BY <1>10 DEF EventsListen, CallbackReturns, TypeOK
  <1>11. CASE FirstPassDone
    BY <1>11 DEF FirstPassDone, TypeOK
  <1>12. CASE PauseForDeferred \/ SecondPassDone
    BY <1>12 DEF PauseForDeferred, Pause, SecondPassDone, TypeOK
  <1>13. CASE ResumeAfterDeferred \/ Notify
    BY <1>13 DEF ResumeAfterDeferred, Resume, Notify, TypeOK
  <1>14. CASE UNCHANGED vars
    BY <1>14 DEF vars, TypeOK
  <1> QED
    BY <1>1, <1>3, <1>4, <1>5, <1>6, <1>7, <1>8, <1>10, <1>11, <1>12, <1>13, <1>14
    DEF Next, Listener, User

-----------------------------------------------------------------------------
(* The tables. *)

\* The handlers, the switches and Xen agree after every step.
LEMMA AgreeStep == ASSUME TypeOK, Agree, [Next]_vars PROVE Agree'
  <1> USE DEF tables, clears, thread, guest
  <1>1. ASSUME NEW e \in Events, RegisterEvent(e) PROVE Agree'
    BY <1>1, RegisterEffect DEF RegisterEvent
  <1>2. ASSUME NEW e \in Events, NEW routine \in {"null", "free"}, ClearEvent(e, routine)
        PROVE  Agree'
    <2>1. CASE DeferClear(e, routine)
      BY <2>1 DEF DeferClear, Agree, MayLinger
    <2>2. CASE ClearNow(e, routine)
      BY <2>2, ClearEffect DEF ClearNow
    <2> QED BY <1>2, <2>1, <2>2 DEF ClearEvent
  <1>3. ASSUME NEW e \in Events, ApplyClear(e) PROVE Agree'
    <2>1. clear_events[e] \in {"null", "free"}
      BY <1>3 DEF ApplyClear, TypeOK
    <2> QED BY <1>3, <2>1, ClearEffect DEF ApplyClear
  <1>4. ASSUME NEW t \in MemTraps, NEW restrict \in BOOLEAN, SetMemEvent(t, restrict)
        PROVE  Agree'
    <2>1. restrict = FALSE /\ UNCHANGED <<registered, on>>
          /\ monitored' \in {monitored, monitored \ {t}}
      BY <1>4 DEF SetMemEvent, Iterated, Monitor
    <2>2. t \notin monitored
      BY DEF Agree, Unreported
    <2> QED BY <2>1, <2>2 DEF Agree, MayLinger
  <1>5. CASE UNCHANGED tables
    BY <1>5 DEF Agree, MayLinger
  <1>6. CASE \E v \in VCpus, t \in Traps : Trap(v, t)
    BY <1>5, <1>6 DEF Trap
  <1>7. CASE TakeRequest \/ PutResponse \/ EventsListen \/ CallbackReturns \/ Notify
    BY <1>5, <1>7 DEF TakeRequest, PutResponse, EventsListen, CallbackReturns, Notify
  <1>8. CASE FirstPassDone \/ PauseForDeferred \/ SecondPassDone \/ ResumeAfterDeferred
    BY <1>5, <1>8 DEF FirstPassDone, PauseForDeferred, SecondPassDone, ResumeAfterDeferred
  <1>10. CASE UNCHANGED vars
    BY <1>5, <1>10 DEF vars
  <1> QED BY <1>1, <1>2, <1>3, <1>4, <1>6, <1>7, <1>8, <1>10 DEF Next, Listener, User

\* An event that is freed was the only one its table could hold, and waits in no queue.
LEMMA DanglingStep ==
  ASSUME TypeOK, Agree, NoDangling, ClearsInv, [Next]_vars
  PROVE  NoDangling'
  <1> USE DEF tables, clears, thread, guest
  <1>1. ASSUME NEW e \in Events, RegisterEvent(e) PROVE NoDangling'
    <2>1. e \notin freed /\ UNCHANGED clears
      BY <1>1 DEF RegisterEvent, MayPass
    <2>2. registered' = registered \/ registered' = [registered EXCEPT ![EvKind[e]] = e]
      BY <1>1, RegisterEffect DEF RegisterEvent
    <2> QED BY <2>1, <2>2 DEF NoDangling, TypeOK
  <1>2. ASSUME NEW e \in Events, NEW routine \in {"null", "free"}, Clear(e, routine),
               clear_events'[e] = "no",
               \A d \in Events : d # e => clear_events'[d] = clear_events[d]
        PROVE  NoDangling'
    <2>1. CASE UNCHANGED <<registered, freed>>
      BY <1>2, <2>1 DEF NoDangling, TypeOK
    <2>2. CASE /\ registered' = [registered EXCEPT ![EvKind[e]] = None]
               /\ freed' = IF routine = "free" THEN freed \cup {e} ELSE freed
      <3>1. ASSUME NEW k \in Kinds, registered'[k] # None
            PROVE  registered'[k] \notin freed'
        <4>1. k # EvKind[e] /\ registered'[k] = registered[k]
          BY <2>2, <3>1, EventAssumption DEF TypeOK
        <4>2. registered[k] # e
          BY <3>1, <4>1 DEF TypeOK
        <4> QED BY <2>2, <3>1, <4>1, <4>2 DEF NoDangling
      <3>2. \A d \in freed' : clear_events'[d] = "no"
        BY <1>2, <2>2 DEF NoDangling, TypeOK
      <3> QED BY <3>1, <3>2 DEF NoDangling
    <2> QED BY <1>2, <2>1, <2>2, ClearEffect
  <1>3. ASSUME NEW e \in Events, NEW routine \in {"null", "free"}, ClearEvent(e, routine)
        PROVE  NoDangling'
    <2>1. CASE DeferClear(e, routine)
      BY <1>3, <2>1 DEF ClearEvent, MayPass, DeferClear, NoDangling, TypeOK
    <2>2. CASE ClearNow(e, routine)
      <3>1. clear_events[e] = "no" /\ clear_events' = clear_events
        BY <2>2 DEF ClearNow, ClearsInv, ClearsQueued
      <3> QED BY <1>2, <2>2, <3>1 DEF ClearNow
    <2> QED BY <1>3, <2>1, <2>2 DEF ClearEvent
  <1>4. ASSUME NEW e \in Events, ApplyClear(e) PROVE NoDangling'
    <2>1. clear_events[e] \in {"null", "free"}
      BY <1>4 DEF ApplyClear, TypeOK
    <2>2. clear_events'[e] = "no" /\ \A d \in Events : d # e => clear_events'[d] = clear_events[d]
      BY <1>4 DEF ApplyClear, TypeOK
    <2> QED BY <1>2, <1>4, <2>1, <2>2 DEF ApplyClear
  <1>5. CASE UNCHANGED <<registered, clears>>
    BY <1>5 DEF NoDangling
  <1>6. CASE \E t \in MemTraps, restrict \in BOOLEAN : SetMemEvent(t, restrict)
    BY <1>5, <1>6 DEF SetMemEvent
  <1>7. CASE \E v \in VCpus, t \in Traps : Trap(v, t)
    BY <1>5, <1>7 DEF Trap
  <1>8. CASE TakeRequest \/ PutResponse \/ EventsListen \/ CallbackReturns \/ Notify
    BY <1>5, <1>8 DEF TakeRequest, PutResponse, EventsListen, CallbackReturns, Notify
  <1>9. CASE FirstPassDone \/ PauseForDeferred \/ SecondPassDone \/ ResumeAfterDeferred
    BY <1>5, <1>9 DEF FirstPassDone, PauseForDeferred, SecondPassDone, ResumeAfterDeferred
  <1>11. CASE UNCHANGED vars
    BY <1>5, <1>11 DEF vars
  <1> QED
    BY <1>1, <1>3, <1>4, <1>6, <1>7, <1>8, <1>9, <1>11 DEF Next, Listener, User

-----------------------------------------------------------------------------
(* The listening thread. *)

\* The queue of clears is empty outside of a listen, and the ring when they are applied.
LEMMA ThreadStep ==
  ASSUME TypeOK, ClearsInv, PauseInv, [Next]_vars
  PROVE  ClearsInv' /\ PauseInv'
  <1> USE DEF tables, clears, thread, guest, ClearsInv, ClearsQueued, PauseInv
  <1>1. ASSUME NEW e \in Events, NEW routine \in {"null", "free"}, ClearEvent(e, routine)
        PROVE  ClearsInv' /\ PauseInv'
    BY <1>1 DEF ClearEvent, DeferClear, ClearNow
  <1>2. ASSUME NEW e \in Events, ApplyClear(e) PROVE ClearsInv' /\ PauseInv'
    BY <1>2 DEF ApplyClear
  <1>3. CASE UNCHANGED <<clear_events, pc, paused>> /\ (paused => ring' = ring)
    BY <1>3
  <1>4. CASE \/ \E e \in Events : RegisterEvent(e)
             \/ \E t \in MemTraps, restrict \in BOOLEAN : SetMemEvent(t, restrict)
    BY <1>3, <1>4 DEF RegisterEvent, SetMemEvent
  <1>5. CASE \E v \in VCpus, t \in Traps : Trap(v, t)
    BY <1>3, <1>5 DEF Trap
  <1>6. CASE TakeRequest \/ PutResponse \/ EventsListen \/ CallbackReturns
    BY <1>6 DEF TakeRequest, PutResponse, EventsListen, CallbackReturns
  <1>7. CASE FirstPassDone \/ Notify
    BY <1>7 DEF FirstPassDone, Notify
  <1>8. CASE PauseForDeferred \/ SecondPassDone \/ ResumeAfterDeferred
    BY <1>8 DEF PauseForDeferred, SecondPassDone, ResumeAfterDeferred
  <1>10. CASE UNCHANGED vars
    BY <1>3, <1>10 DEF vars
  <1> QED BY <1>1, <1>2, <1>4, <1>5, <1>6, <1>7, <1>8, <1>10 DEF Next, Listener, User

-----------------------------------------------------------------------------
(* The requests. *)

\* What Trap and TakeRequest do to the ring.
LEMMA RingAppend ==
  ASSUME ring \in Seq(Request), NEW r \in Request, ring' = Append(ring, r)
  PROVE  \A i \in DOMAIN ring' : \/ i \in DOMAIN ring /\ ring'[i] = ring[i]
                                 \/ i = Len(ring) + 1 /\ ring'[i] = r
  OBVIOUS

\* Taking the first request off moves the others up by one.
LEMMA RingTail ==
  ASSUME ring \in Seq(Request), ring # <<>>, ring' = Tail(ring)
  PROVE  \A i \in DOMAIN ring' : i + 1 \in DOMAIN ring \ {1} /\ ring'[i] = ring[i + 1]
  OBVIOUS

\* A vCPU waits for one request at a time.
LEMMA WaitStep == ASSUME TypeOK, WaitInv, [Next]_vars PROVE WaitInv'
  <1> USE DEF tables, clears, thread, guest
  <1>1. ASSUME NEW v \in VCpus, NEW t \in Traps, Trap(v, t) PROVE WaitInv'
    <2> DEFINE r == [vcpu_id |-> v, trap |-> t]
    <2>1. r \in Request /\ r.vcpu_id = v
      BY DEF Request
    <2>2. /\ v \notin blocked /\ blocked' = blocked \cup {v}
          /\ ring' = Append(ring, r) /\ UNCHANGED <<responses, req>>
      BY <1>1 DEF Trap
    <2>3. \A i \in DOMAIN ring' : \/ i \in DOMAIN ring /\ ring'[i] = ring[i]
                                  \/ i = Len(ring) + 1 /\ ring'[i] = r
      BY <2>1, <2>2, RingAppend DEF TypeOK
    <2> HIDE DEF r
    <2>4. \A i \in DOMAIN ring' : ring'[i].vcpu_id \in blocked' \ responses
      BY <2>1, <2>2, <2>3 DEF WaitInv
    <2>5. \A i, j \in DOMAIN ring' : ring'[i].vcpu_id = ring'[j].vcpu_id => i = j
      BY <2>1, <2>2, <2>3 DEF WaitInv
    <2> QED BY <2>1, <2>2, <2>3, <2>4, <2>5 DEF WaitInv
  <1>2. CASE TakeRequest
    <2>1. /\ ring # <<>> /\ ring \in Seq(Request)
          /\ req' = ring[1] /\ 1 \in DOMAIN ring
          /\ ring' = Tail(ring) /\ UNCHANGED <<responses, blocked>>
      BY <1>2 DEF TakeRequest, TypeOK
    <2>2. \A i \in DOMAIN ring' : i + 1 \in DOMAIN ring \ {1} /\ ring'[i] = ring[i + 1]
      BY <2>1, RingTail
    <2>3. \A i, j \in DOMAIN ring' : ring'[i].vcpu_id = ring'[j].vcpu_id => i = j
      <3>1. DOMAIN ring' \subseteq Int
        BY <2>1
      <3> QED BY <2>2, <3>1 DEF WaitInv
    <2> QED BY <2>1, <2>2, <2>3 DEF WaitInv
  <1>3. CASE PutResponse
    <2>1. req # None
      BY <1>3 DEF PutResponse, TypeOK
    <2> QED BY <1>3, <2>1 DEF PutResponse, WaitInv
  <1>4. CASE Notify
    <2>1. req = None
      BY <1>4 DEF Notify, TypeOK
    <2> QED BY <1>4, <2>1 DEF Notify, WaitInv
  <1>5. CASE UNCHANGED <<ring, req, responses, blocked>>
    BY <1>5 DEF WaitInv
  <1>6. CASE User
    BY <1>5, <1>6 DEF User, RegisterEvent, ClearEvent, SetMemEvent
  <1>7. CASE EventsListen \/ CallbackReturns 
    BY <1>5, <1>7 DEF EventsListen, CallbackReturns
  <1>8. CASE FirstPassDone \/ PauseForDeferred \/ SecondPassDone \/ ResumeAfterDeferred
    BY <1>5, <1>8 DEF FirstPassDone, PauseForDeferred, SecondPassDone, ResumeAfterDeferred
  <1>9. CASE \E e \in Events : ApplyClear(e)
    BY <1>5, <1>9 DEF ApplyClear
  <1>10. CASE UNCHANGED vars
    BY <1>5, <1>10 DEF vars
  <1> QED BY <1>1, <1>2, <1>3, <1>4, <1>6, <1>7, <1>8, <1>9, <1>10 DEF Next, Listener

\* A trap that Xen reports has a handler, unless it may linger.
LEMMA TrapHandled ==
  ASSUME TypeOK, Agree, NEW t \in monitored, t \notin MayLinger
  PROVE  Handlers(t) # {}
  <1>1. PICK k \in Kinds : t \in Serves[k]
    BY DEF TypeOK, Traps
  <1>2. k \notin Generic
    BY <1>1 DEF Agree, Unreported, MemTraps
  <1>3. registered[k] # None
    BY <1>1 DEF Agree
  <1> QED BY <1>1, <1>2, <1>3 DEF Handlers

\* Handlers go only when no request waits for them.
LEMMA DeliverStep ==
  ASSUME TypeOK, Agree, PauseInv, WaitInv, Deliverable, [Next]_vars
  PROVE  Deliverable'
  <1> USE DEF tables, clears, thread, guest
  <1>1. ASSUME NEW v \in VCpus, NEW t \in Traps, Trap(v, t) PROVE Deliverable'
    <2> DEFINE r == [vcpu_id |-> v, trap |-> t]
    <2>1. r \in Request /\ r.trap = t
      BY DEF Request
    <2>2. /\ t \in monitored /\ ring' = Append(ring, r)
          /\ UNCHANGED <<registered, stale>>
      BY <1>1 DEF Trap
    <2>3. \A i \in DOMAIN ring' : \/ i \in DOMAIN ring /\ ring'[i] = ring[i]
                                  \/ i = Len(ring) + 1 /\ ring'[i] = r
      BY <2>1, <2>2, RingAppend DEF TypeOK
    <2>4. t \notin MayLinger => Handlers(t) # {}
      BY <2>2, TrapHandled
    <2> HIDE DEF r
    <2> QED BY <2>1, <2>2, <2>3, <2>4 DEF Deliverable, Handlers, MayLinger
  <1>2. CASE TakeRequest
    <2>1. /\ ring # <<>> /\ ring \in Seq(Request)
          /\ ring' = Tail(ring) /\ UNCHANGED <<registered, stale>>
      BY <1>2 DEF TakeRequest, TypeOK
    <2>2. \A i \in DOMAIN ring' : i + 1 \in DOMAIN ring /\ ring'[i] = ring[i + 1]
      BY <2>1, RingTail
    <2> QED BY <2>1, <2>2 DEF Deliverable, Handlers, MayLinger
  <1>3. CASE PutResponse
    <2>1. req # None /\ UNCHANGED <<registered, ring>> /\ stale' = stale \ {req.vcpu_id}
      BY <1>3 DEF PutResponse, TypeOK
    <2> QED BY <2>1 DEF WaitInv, Deliverable, Handlers, MayLinger
  <1>4. ASSUME NEW e \in Events, RegisterEvent(e) PROVE Deliverable'
    <2>1. \A k \in Kinds : registered[k] # None => registered'[k] # None
      BY <1>4, RegisterEffect, EventAssumption DEF RegisterEvent, TypeOK
    <2>2. UNCHANGED <<ring, stale>>
      BY <1>4 DEF RegisterEvent
    <2>3. MayLinger \subseteq MayLinger'
      BY <2>1 DEF MayLinger
    <2>4. \A t : Handlers(t) # {} => Handlers(t)' # {}
      BY <2>1, KindAssumption DEF Handlers, Iterated
    <2> QED BY <2>2, <2>3, <2>4 DEF Deliverable
  <1>5. ASSUME NEW e \in Events, NEW routine \in {"null", "free"}, ClearEvent(e, routine)
        PROVE  Deliverable'
    <2>1. CASE DeferClear(e, routine)
      BY <1>5, <2>1 DEF ClearEvent, DeferClear, Deliverable, Handlers, MayLinger
    <2>2. CASE ClearNow(e, routine)
      <3>1. ring' = ring /\ \A i \in DOMAIN ring : ring[i].vcpu_id \in stale'
        BY <1>5, <2>2 DEF ClearEvent, ClearNow, UnderWay, ToSet
      <3> QED BY <3>1 DEF Deliverable
    <2> QED BY <1>5, <2>1, <2>2 DEF ClearEvent
  <1>6. ASSUME NEW e \in Events, ApplyClear(e) PROVE Deliverable'
    <2>1. CASE paused
      BY <1>6, <2>1 DEF ApplyClear, PauseInv, Deliverable
    <2>2. CASE ~paused
      <3>1. ring' = ring /\ \A i \in DOMAIN ring : ring[i].vcpu_id \in stale'
        BY <1>6, <2>2 DEF ApplyClear, UnderWay, ToSet
      <3> QED BY <3>1 DEF Deliverable
    <2> QED BY <2>1, <2>2
  <1>7. CASE UNCHANGED <<registered, ring, stale>>
    BY <1>7 DEF Deliverable, Handlers, MayLinger
  <1>8. CASE \E t \in MemTraps, restrict \in BOOLEAN : SetMemEvent(t, restrict)
    BY <1>7, <1>8 DEF SetMemEvent
  <1>9. CASE EventsListen \/ CallbackReturns \/ Notify
    BY <1>7, <1>9 DEF EventsListen, CallbackReturns, Notify
  <1>10. CASE FirstPassDone \/ PauseForDeferred \/ SecondPassDone \/ ResumeAfterDeferred
    BY <1>7, <1>10 DEF FirstPassDone, PauseForDeferred, SecondPassDone, ResumeAfterDeferred
  <1>11. CASE UNCHANGED vars
    BY <1>7, <1>11 DEF vars
  <1> QED
    BY <1>1, <1>2, <1>3, <1>4, <1>5, <1>6, <1>8, <1>9, <1>10, <1>11
    DEF Next, Listener, User

-----------------------------------------------------------------------------
(* The theorems. *)

\* All parts of the invariant together.
LEMMA Invariant == Spec => []IInv
  <1>1. ASSUME Init PROVE IInv
    <2>1. /\ registered \in [Kinds -> Events \cup {None}]
          /\ clear_events \in [Events -> {"no", "null", "free"}]
      BY <1>1 DEF Init
    <2>2. TypeOK
      <3>1. ring \in Seq(Request) /\ \A k \in Kinds : registered[k] = None
        BY <1>1 DEF Init
      <3>2. pc = "idle" /\ req = None
        BY <1>1 DEF Init
      <3>3. /\ on = {} /\ monitored = {} /\ freed = {}
            /\ responses = {} /\ blocked = {} /\ stale = {}
            /\ deferring = FALSE /\ paused = FALSE
        BY <1>1 DEF Init
      <3> QED BY <2>1, <3>1, <3>2, <3>3 DEF TypeOK
    <2>3. Agree /\ NoDangling
      <3>1. /\ on = {} /\ monitored = {} /\ freed = {}
            /\ \A k \in Kinds : registered[k] = None
        BY <1>1 DEF Init
      <3>2. Switched \subseteq Kinds
        BY DEF Switched
      <3> QED BY <3>1, <3>2 DEF Agree, NoDangling
    <2>4. ClearsInv /\ PauseInv
      BY <1>1 DEF Init, ClearsInv, ClearsQueued, PauseInv
    <2>5. WaitInv /\ Deliverable
      <3>1. ring = <<>> /\ req = None /\ responses = {} /\ DOMAIN ring = {}
        BY <1>1 DEF Init
      <3> QED BY <3>1 DEF WaitInv, Deliverable
    <2> QED BY <2>2, <2>3, <2>4, <2>5 DEF IInv
  <1>2. ASSUME IInv, [Next]_vars PROVE IInv'
    BY <1>2, TypeStep, AgreeStep, DanglingStep, ThreadStep, WaitStep, DeliverStep DEF IInv
  <1> QED BY <1>1, <1>2, PTL DEF Spec

(***************************************************************************)
(* After every call of vmi_register_event, vmi_clear_event and             *)
(* vmi_set_mem_event, also one whose hypercall failed, the library's       *)
(* tables, the driver's switches and what Xen reports agree, and no table  *)
(* or queue holds an event that was freed.  Named in Agree, and excepted:  *)
(* generic memory events and privileged calls, which Xen never reports,    *)
(* the debug exceptions it reports instead of the latter, and registers    *)
(* whose own hypercall failed.                                             *)
(***************************************************************************)
THEOREM TablesCoherent == Spec => []Coherent
  <1>1. IInv => Coherent
    BY DEF IInv, Coherent
  <1> QED BY <1>1, Invariant, PTL

(***************************************************************************)
(* A request has a handler when its turn comes, unless it waited while the *)
(* user cleared an event outside of callbacks, or while clears were        *)
(* applied after a pause that failed, or is one of those that may linger:  *)
(* where the pause holds, deferring the clears and the second              *)
(* process_requests of xen_events_listen_48 lose no request.               *)
(***************************************************************************)
THEOREM RequestsDeliverable == Spec => []Deliverable
  <1>1. IInv => Deliverable
    BY DEF IInv
  <1> QED BY <1>1, Invariant, PTL
=============================================================================
