---------------------------- MODULE MonitorEvents ----------------------------
(***************************************************************************)
(* The events that are neither single steps nor tied to a page: registers, *)
(* interrupts, guest requests, CPUID, debug exceptions, privileged calls,  *)
(* descriptor accesses and generic memory events - their registration and  *)
(* clearing in events.c, the switches of driver/xen/xen_events_48.c, and   *)
(* the dispatch of their requests by process_requests.                     *)
(*                                                                         *)
(* Of each kind at most one event is registered.  A trap is what Xen       *)
(* reports: an instruction of the kind, one machine-specific register, or  *)
(* an access to a page the user restricts with vmi_set_mem_event, which    *)
(* the generic memory events for that access are meant to handle.          *)
(*                                                                         *)
(* Two kinds do not work as they are meant to.  Both loops over            *)
(* mem_events_generic yield nothing, so that no generic event is ever      *)
(* found; and the switch of privileged calls is the one of debug           *)
(* exceptions.                                                             *)
(*                                                                         *)
(* pc is where the library's only thread is: idle (the user's own code),   *)
(* requests (head of process_requests' loop), callback (the user's),       *)
(* respond (before put_response), pause and clears (the deferred section   *)
(* of xen_events_listen_48), notify.                                       *)
(***************************************************************************)
EXTENDS Integers, Sequences, FiniteSets, SequencesExt

CONSTANTS
  VCpus,
  Kinds,       \* kinds of events in use
  Generic,     \* those of them that are generic memory events (one per in_access)
  Msrs,        \* msr_all: the registers monitored together
  Serves,      \* the traps each kind handles
  Capable,     \* kinds this Xen can monitor
  Events,      \* the user's vmi_event_t structures
  EvKind,      \* event->type, with the register, interrupt or access
  None,
  IdleOps,     \* calls the user makes between two listens
  CallbackOps, \* calls the user makes in callbacks
  MayFail      \* hypercalls that may fail

\* Kinds whose switch the driver remembers in xen_events_t.
Switched == Kinds \cap {"CR0", "CR3", "CR4", "XCR0", "MSR_ALL", "INT3"}

\* Kinds vmi_clear_event has no case for.
Unclearable == Kinds \cap {"PRIVILEGED_CALL", "DESCRIPTOR_ACCESS"}

Traps == UNION {Serves[k] : k \in Kinds}
MemTraps == UNION {Serves[k] : k \in Generic}

\* Kinds other than generic memory events, each with a place of its own in the tables.
Special == {"CR0", "CR3", "CR4", "XCR0", "MSR_ALL", "INT3", "GUEST_REQUEST", "CPUID",
            "DEBUG_EXCEPTION", "PRIVILEGED_CALL", "DESCRIPTOR_ACCESS"}

Ops == {"register", "clear", "set_mem_event"}

ASSUME KindAssumption ==
  /\ Generic = Kinds \ Special
  /\ "PRIVILEGED_CALL" \in Kinds => "DEBUG_EXCEPTION" \in Kinds
  /\ Capable \subseteq Kinds
  /\ Msrs \cap Kinds = {}
  /\ \A k \in Kinds \ Generic : Serves[k] = IF k = "MSR_ALL" THEN Msrs ELSE {k}
  /\ \A k \in Generic : Serves[k] # {} /\ Serves[k] \cap (Kinds \cup Msrs) = {}
ASSUME EventAssumption == EvKind \in [Events -> Kinds] /\ None \notin Events
ASSUME OpsAssumption == IdleOps \subseteq Ops /\ CallbackOps \subseteq Ops
ASSUME FailAssumption == MayFail \subseteq {"monitor", "msr", "mem_access", "pause", "resume"}

VARIABLES
  registered,    \* reg_events, interrupt_events, mem_events_generic, cpuid_event, ...
  on,            \* kinds with monitor_cr0_on, ..., monitor_intr_on set
  monitored,     \* Xen: the traps it reports
  clear_events,  \* deferred clears: "no", "null", "free" (by their free routine)
  freed,         \* events whose free routine ran with VMI_SUCCESS
  pc,
  deferring,     \* in the second process_requests
  req,           \* the request that was taken
  ring, responses, blocked, paused,
  stale          \* history: vCPUs whose request was under way when an event was
                 \* cleared outside of callbacks, or with a domain that should pause

tables == <<registered, on, monitored>>
clears == <<clear_events, freed>>
thread == <<pc, deferring, req>>
guest  == <<ring, responses, blocked, paused, stale>>
vars   == <<tables, clears, thread, guest>>

Request == [vcpu_id : VCpus, trap : Traps]

ASSUME NoneAssumption == None \notin Request

Init ==
  /\ registered = [k \in Kinds |-> None]
  /\ on = {}
  /\ monitored = {}
  /\ clear_events = [e \in Events |-> "no"]
  /\ freed = {}
  /\ pc = "idle" /\ deferring = FALSE /\ req = None
  /\ ring = <<>> /\ responses = {} /\ blocked = {} /\ paused = FALSE /\ stale = {}

UserRuns(op) == \/ pc = "idle" /\ op \in IdleOps
                \/ pc = "callback" /\ op \in CallbackOps

\* The user does not pass an event on after asking for it to be freed.
MayPass(e) == e \notin freed /\ clear_events[e] # "free"

-----------------------------------------------------------------------------
(* The guest, and Xen consuming the responses. *)

Trap(v, t) ==
  /\ ~paused /\ v \notin blocked
  /\ t \in monitored
  /\ ring' = Append(ring, [vcpu_id |-> v, trap |-> t])
  /\ blocked' = blocked \cup {v}
  /\ UNCHANGED <<tables, clears, thread, responses, paused, stale>>

-----------------------------------------------------------------------------
(* The tables and the driver's switches. *)

\* What ghashtable_foreach yields of mem_events_generic: nothing (g_hash_table_iter_next
\* returns FALSE at its first call, see TinyHash).
Iterated == {}

\* The events a request is given to: of its kind, or every generic one that is found.
Handlers(t) ==
  {k \in (Kinds \ Generic) \cup Iterated : t \in Serves[k] /\ registered[k] # None}

\* The kind whose switch the driver turns: driver_set_privcall_event calls
\* set_debug_event_ptr.
SwitchOf(k) == IF k = "PRIVILEGED_CALL" THEN "DEBUG_EXCEPTION" ELSE k

\* Every machine-specific register is set by a hypercall of its own, whose failure is
\* ignored.
Reached == IF "msr" \in MayFail THEN SUBSET Msrs ELSE {Msrs}

Monitor(traps, enable) ==
  monitored' = IF enable THEN monitored \cup traps ELSE monitored \ traps

\* A kind with a switch is refused if it is switched that way already.
Permitted(k, enable) == k \in Capable /\ (k \in Switched => (k \in on) # enable)

\* xen_set_reg_access_48, xen_set_int3_access, xen_set_cpuid_event_48, ...
DriverSet(k, enable, ok) ==
  /\ ok => Permitted(k, enable)
  /\ ~ok => ~Permitted(k, enable) \/ ("monitor" \in MayFail /\ k # "MSR_ALL")
  /\ IF ok
     THEN /\ \E traps \in (IF k = "MSR_ALL" THEN Reached ELSE {Serves[k]}) :
               Monitor(traps, enable)
          /\ on' = IF k \notin Switched THEN on
                   ELSE IF enable THEN on \cup {k} ELSE on \ {k}
     ELSE UNCHANGED <<monitored, on>>

-----------------------------------------------------------------------------
(* vmi_register_event and vmi_set_mem_event. *)

\* Mutant: the table is written before the driver is asked.
Register_TableFirst(e) ==
  LET k == EvKind[e] IN
  /\ registered[k] = None
  /\ registered' = [registered EXCEPT ![k] = e]
  /\ \/ k \in Generic /\ UNCHANGED <<on, monitored>>
     \/ k \notin Generic /\ \E ok \in BOOLEAN : DriverSet(SwitchOf(k), TRUE, ok)

\* Of each kind there may be one event; the driver is asked, then the table is written.
\* A generic memory event needs no driver.
Register(e) ==
  LET k == EvKind[e] IN
  /\ registered[k] = None
  /\ \/ /\ k \in Generic
        /\ registered' = [registered EXCEPT ![k] = e]
        /\ UNCHANGED <<on, monitored>>
     \/ /\ k \notin Generic
        /\ \E ok \in BOOLEAN :
             /\ DriverSet(SwitchOf(k), TRUE, ok)
             /\ registered' = IF ok THEN [registered EXCEPT ![k] = e] ELSE registered

RegisterEvent(e) ==
  /\ UserRuns("register")
  /\ MayPass(e)
  /\ Register(e)
  /\ UNCHANGED <<clears, thread, guest>>

\* vmi_set_mem_event: restricting a page needs a generic handler for the access, which the
\* loop does not find; only lifting a restriction goes through.
SetMemEvent(t, restrict) ==
  /\ UserRuns("set_mem_event")
  /\ restrict => \E k \in Iterated : t \in Serves[k]
  /\ \/ Monitor({t}, restrict)
     \/ "mem_access" \in MayFail /\ UNCHANGED monitored
  /\ UNCHANGED <<registered, on, clears, thread, guest>>

-----------------------------------------------------------------------------
(* vmi_clear_event. *)

RunFree(e, routine, ok) == freed' = IF routine = "free" /\ ok THEN freed \cup {e} ELSE freed

(***************************************************************************)
(* The event's kind is cleared, whichever event of it is registered; the   *)
(* free routine runs whatever the result, and is told.  There is no case   *)
(* for two of the kinds, and clearing a generic memory event succeeds even *)
(* if none is registered.                                                  *)
(***************************************************************************)
Clear(e, routine) ==
  LET k == EvKind[e] IN
  \/ /\ k \in Generic
     /\ registered' = [registered EXCEPT ![k] = None]
     /\ RunFree(e, routine, TRUE)
     /\ UNCHANGED <<on, monitored>>
  \/ /\ k \in Unclearable \/ (k \notin Generic /\ registered[k] = None)
     /\ UNCHANGED <<tables, freed>>
  \/ /\ k \notin Generic \cup Unclearable /\ registered[k] # None
     /\ \E ok \in BOOLEAN :
          /\ DriverSet(k, FALSE, ok)
          /\ registered' = IF ok THEN [registered EXCEPT ![k] = None] ELSE registered
          /\ RunFree(e, routine, ok)

\* The vCPUs whose request is on the ring.
UnderWay == {r.vcpu_id : r \in ToSet(ring)}

\* In a callback the clear is noted; a noted clear without a free routine is not found.
DeferClear(e, routine) ==
  /\ pc = "callback"
  /\ clear_events[e] # "free"
  /\ clear_events' = [clear_events EXCEPT ![e] = routine]
  /\ UNCHANGED <<tables, freed, stale>>

\* Otherwise it is done at once, though requests of the event may be on the ring.
ClearNow(e, routine) ==
  /\ pc = "idle"
  /\ Clear(e, routine)
  /\ stale' = stale \cup UnderWay
  /\ UNCHANGED clear_events

ClearEvent(e, routine) ==
  /\ UserRuns("clear")
  /\ MayPass(e)
  /\ DeferClear(e, routine) \/ ClearNow(e, routine)
  /\ UNCHANGED <<thread, ring, responses, blocked, paused>>

-----------------------------------------------------------------------------
(* process_requests. *)

\* vmi_events_listen, after its wait.
EventsListen ==
  /\ pc = "idle"
  /\ pc' = "requests"
  /\ UNCHANGED <<tables, clears, deferring, req, guest>>

TakeRequest ==
  /\ pc = "requests" /\ ring # <<>>
  /\ req' = Head(ring)
  /\ ring' = Tail(ring)
  /\ pc' = IF Handlers(req'.trap) # {} THEN "callback" ELSE "respond"
  /\ UNCHANGED <<tables, clears, deferring, responses, blocked, paused, stale>>

CallbackReturns ==
  /\ pc = "callback"
  /\ pc' = "respond"
  /\ UNCHANGED <<tables, clears, deferring, req, guest>>

\* put_response, with or without a handler.
PutResponse ==
  /\ pc = "respond"
  /\ responses' = responses \cup {req.vcpu_id}
  /\ stale' = stale \ {req.vcpu_id}
  /\ req' = None
  /\ pc' = "requests"
  /\ UNCHANGED <<tables, clears, deferring, ring, blocked, paused>>

-----------------------------------------------------------------------------
(* xen_events_listen_48 after the first process_requests. *)

ClearsQueued == \E e \in Events : clear_events[e] # "no"

\* Mutant: the deferred clears are left for another listen.
FirstPassDone_Later ==
  /\ pc = "requests" /\ ring = <<>> /\ ~deferring
  /\ pc' = "notify"
  /\ UNCHANGED <<tables, clears, deferring, req, guest>>

FirstPassDone ==
  /\ pc = "requests" /\ ring = <<>> /\ ~deferring
  /\ pc' = IF ClearsQueued THEN "pause" ELSE "notify"
  /\ UNCHANGED <<tables, clears, deferring, req, guest>>

\* vmi_pause_vm and vmi_resume_vm, whose results are ignored.
Pause  == paused' = TRUE \/ ("pause" \in MayFail /\ UNCHANGED paused)
Resume == paused' = FALSE \/ ("resume" \in MayFail /\ UNCHANGED paused)

\* Mutant: the ring is not looked at again.
PauseForDeferred_Once ==
  /\ pc = "pause"
  /\ Pause
  /\ pc' = "clears"
  /\ UNCHANGED <<tables, clears, deferring, req, ring, responses, blocked, stale>>

PauseForDeferred ==
  /\ pc = "pause"
  /\ Pause
  /\ deferring' = TRUE
  /\ pc' = "requests"
  /\ UNCHANGED <<tables, clears, req, ring, responses, blocked, stale>>

SecondPassDone ==
  /\ pc = "requests" /\ ring = <<>> /\ deferring
  /\ pc' = "clears"
  /\ UNCHANGED <<tables, clears, deferring, req, guest>>

\* clear_events_full; the entry goes whatever the result.
ApplyClear(e) ==
  /\ pc = "clears" /\ clear_events[e] # "no"
  /\ Clear(e, clear_events[e])
  /\ clear_events' = [clear_events EXCEPT ![e] = "no"]
  /\ stale' = IF paused THEN stale ELSE stale \cup UnderWay
  /\ UNCHANGED <<thread, ring, responses, blocked, paused>>

ResumeAfterDeferred ==
  /\ pc = "clears" /\ ~ClearsQueued
  /\ Resume
  /\ deferring' = FALSE
  /\ pc' = "notify"
  /\ UNCHANGED <<tables, clears, req, ring, responses, blocked, stale>>

\* Xen takes the responses and lets their vCPUs go on.
Notify ==
  /\ pc = "notify"
  /\ blocked' = blocked \ responses
  /\ responses' = {}
  /\ pc' = "idle"
  /\ UNCHANGED <<tables, clears, deferring, req, ring, paused, stale>>

Listener ==
  \/ EventsListen \/ TakeRequest \/ CallbackReturns \/ PutResponse
  \/ FirstPassDone \/ PauseForDeferred \/ SecondPassDone
  \/ \E e \in Events : ApplyClear(e)
  \/ ResumeAfterDeferred \/ Notify

User ==
  \/ \E e \in Events : RegisterEvent(e)
  \/ \E e \in Events, routine \in {"null", "free"} : ClearEvent(e, routine)
  \/ \E t \in MemTraps, restrict \in BOOLEAN : SetMemEvent(t, restrict)

Next == \/ Listener
        \/ User
        \/ \E v \in VCpus, t \in Traps : Trap(v, t)

Spec == Init /\ [][Next]_vars

\* Users listen in a loop, and their callbacks return.
FairSpec == Spec /\ WF_vars(Listener)

-----------------------------------------------------------------------------
(* Properties. *)

\* The variables have their types.
TypeOK ==
  /\ registered \in [Kinds -> Events \cup {None}]
  /\ \A k \in Kinds : registered[k] # None => EvKind[registered[k]] = k
  /\ on \subseteq Switched
  /\ monitored \subseteq Traps
  /\ clear_events \in [Events -> {"no", "null", "free"}]
  /\ freed \subseteq Events
  /\ pc \in {"idle", "requests", "callback", "respond", "pause", "clears", "notify"}
  /\ deferring \in BOOLEAN /\ paused \in BOOLEAN
  /\ req \in Request \cup {None} /\ (req # None <=> pc \in {"callback", "respond"})
  /\ ring \in Seq(Request)
  /\ responses \subseteq VCpus /\ blocked \subseteq VCpus /\ stale \subseteq VCpus

\* What Xen never reports, although events for it may be registered: accesses to pages,
\* which vmi_set_mem_event does not restrict, and privileged calls.
Unreported == MemTraps \cup (Kinds \cap {"PRIVILEGED_CALL"})

\* Registers whose own hypercall may have failed, either way.
Unsure == IF "msr" \in MayFail /\ "MSR_ALL" \in Kinds THEN Msrs ELSE {}

\* Traps that Xen may report without a handler: those registers, and debug exceptions once
\* an event for privileged calls is registered.
MayLinger ==
  Unsure \cup {t \in {"DEBUG_EXCEPTION"} : /\ "PRIVILEGED_CALL" \in Kinds
                                          /\ registered["PRIVILEGED_CALL"] # None}

(***************************************************************************)
(* The three records of a kind agree after every call, also one whose      *)
(* hypercall failed: the library's table of handlers (events.c), the       *)
(* driver's memory of the switch (xen_events_t), and what Xen reports.  A  *)
(* driver that believes a switch is on which is off refuses it for good.   *)
(* Xen reports what there is a handler for, but for the two kinds in       *)
(* Unreported, and nothing else but what may linger.                       *)
(***************************************************************************)
Agree ==
  /\ \A k \in Switched : k \in on <=> registered[k] # None
  /\ \A k \in Kinds :
       IF registered[k] # None THEN Serves[k] \ (Unreported \cup Unsure) \subseteq monitored
                               ELSE Serves[k] \cap monitored \subseteq MayLinger
  /\ Unreported \cap monitored = {}

(***************************************************************************)
(* A request on the ring has a handler when its turn comes, unless it was  *)
(* there when the user cleared an event outside of callbacks, or when the  *)
(* clears were applied after a pause that failed: this is what deferring   *)
(* the clears of callbacks and the second process_requests of              *)
(* xen_events_listen_48 are for (the comment at events.c:914).             *)
(***************************************************************************)
Deliverable ==
  \A i \in DOMAIN ring :
    ring[i].vcpu_id \notin stale /\ ring[i].trap \notin MayLinger => Handlers(ring[i].trap) # {}

(***************************************************************************)
(* An event whose free routine ran with VMI_SUCCESS is in no table and in  *)
(* no queue: the next request or deferred clear would use it after it was  *)
(* freed (events.c clear_*_event, clear_events_full).                      *)
(***************************************************************************)
NoDangling ==
  /\ \A k \in Kinds : registered[k] # None => registered[k] \notin freed
  /\ \A e \in freed : clear_events[e] = "no"

\* Tables, switches, Xen and the user's free routines agree on every event after every
\* call, whichever of its steps failed (events.c; what does not work is named in Agree).
Coherent == TypeOK /\ Agree /\ NoDangling

\* The clears asked for in callbacks are carried out (with FairSpec): the user's free
\* routines wait for them (events.h:662).
ClearsDone == ClearsQueued ~> ~ClearsQueued
=============================================================================
