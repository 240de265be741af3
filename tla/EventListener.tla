---------------------------- MODULE EventListener ----------------------------
(***************************************************************************)
(* The memory-event path of LibVMI on Xen: events.c (registration tables,  *)
(* deferred clears and swaps, event stepping) together with the driver's   *)
(* listen loop in driver/xen/xen_events_48.c, the guest vCPUs that trap,   *)
(* and what Xen does with the requests and the responses.                  *)
(*                                                                         *)
(* LibVMI itself is single threaded: the user calls vmi_events_listen in a *)
(* loop, and callbacks run inside that call.  The vCPUs run concurrently   *)
(* with every step of it.  pc says where the library's only thread is:     *)
(*   idle          in the user's own code, between two calls               *)
(*   requests      at the head of process_requests' loop                   *)
(*   callback      in the user's callback of a memory event                *)
(*   steps         in the loop of step_and_reg_events                      *)
(*   stepCallback  in the user's callback of a step wrapper                *)
(*   respond       a request needs no callback (any more), its response    *)
(*                 has not been put on the ring                            *)
(*   pause, swaps, clears   the deferred section of xen_events_listen_48   *)
(*   notify        about to signal the event channel                       *)
(***************************************************************************)
EXTENDS Integers, Sequences, FiniteSets, SequencesExt

CONSTANTS
  NumVCpus,     \* vmi->num_vcpus
  Gfns,         \* guest page frames
  Accesses,     \* kinds of access Xen can trap (VMI_MEMACCESS_R, _W, _X)
  Events,       \* the user's vmi_event_t structures of type VMI_EVENT_MEMORY
  EvGfn,        \* event->mem_event.gfn
  EvAccess,     \* event->mem_event.in_access, as a set of accesses
  None,
  IdleOps,      \* API calls the user makes between two listens
  CallbackOps,  \* API calls the user makes from inside callbacks
  Routines,     \* the free routines passed: TRUE a function, FALSE a null pointer
  StepArgs,     \* vCPU numbers the user passes to vmi_step_event
  MayFail,      \* hypercalls that may fail
  MaxSteps,     \* bound on the steps argument of vmi_step_event
  MaxWraps,     \* bound on the wrappers alive at once
  MaxSwaps      \* bound on the swaps requested from callbacks

VCpus == 0 .. NumVCpus - 1

Ops == {"register", "clear", "swap", "step", "pause", "resume"}

ASSUME NumVCpusAssumption == NumVCpus \in Nat \ {0}
ASSUME EventAssumption == /\ EvGfn \in [Events -> Gfns]
                          /\ EvAccess \in [Events -> (SUBSET Accesses) \ {{}}]
                          /\ None \notin Events
                          /\ None \notin Gfns
ASSUME OpsAssumption == IdleOps \subseteq Ops /\ CallbackOps \subseteq Ops
ASSUME ArgsAssumption == Routines \subseteq BOOLEAN /\ StepArgs \subseteq 0 .. NumVCpus
ASSUME FailAssumption == MayFail \subseteq {"mem_access", "debug_control", "monitor",
                                            "pause", "resume", "notify"}
ASSUME BoundAssumption == /\ MaxSteps \in Nat \ {0}
                          /\ MaxWraps \in Nat
                          /\ MaxSwaps \in Nat

VARIABLES
  mem_events_on_gfn,  \* the event registered on each page, or None
  ss_events,          \* vCPUs with an internal single-step event installed
  step_events,        \* list of step_and_reg_event_wrapper_t
  step_vcpus,         \* number of events being stepped on each vCPU
  clear_events,       \* deferred clears of user events: "no", "null", "free"
  clear_steps,        \* deferred clears of the internal single-step events
  swap_events,        \* list of swap_wrapper_t
  freed,              \* how often the event's free routine ran with VMI_SUCCESS
  pc, deferring,      \* where the thread is; in the second process_requests
  req,                \* the request being processed, or None
  reg_list, remain,   \* locals of step_and_reg_events
  loop,               \* local of xen_events_listen_48: swaps still to apply
  mem_access,         \* Xen: accesses trapped on each page
  mtf,                \* Xen: monitor trap flag of each vCPU
  monitor_singlestep_on,
  paused, user_paused,\* the domain is paused; the user paused it and did not resume
  ring,               \* requests on the ring page, oldest first
  responses,          \* vCPUs whose response Xen has not consumed
  blocked             \* vCPUs Xen holds until their response

tables  == <<mem_events_on_gfn, ss_events, step_events, step_vcpus>>
pending == <<clear_events, clear_steps, swap_events, freed>>
locals  == <<deferring, req, reg_list, remain, loop>>
traps   == <<mem_access, mtf, monitor_singlestep_on>>
guest   == <<ring, responses, blocked>>
pauses  == <<paused, user_paused>>
vars    == <<tables, pending, pc, locals, traps, guest, pauses>>

Wrapper == [event : Events, vcpu_id : VCpus, steps : 1 .. MaxSteps, cb : BOOLEAN]
SwapWrapper == [swap_from : Events, swap_to : Events, free_routine : BOOLEAN]
Request == [reason : {"mem_access", "singlestep"}, vcpu_id : VCpus,
            gfn : Gfns \cup {None}, access : Accesses \cup {None}]

ASSUME NoneAssumption == None \notin Request

\* Mutant: process_mem forgets to set the flag.
EventCallback_MemUnset == pc \in {"steps", "stepCallback"}

\* vmi->event_callback is set exactly while a callback of the library runs.
EventCallback == pc \in {"callback", "steps", "stepCallback"}

\* The user's code runs: between listens, or in a callback it provided.
UserRuns(op) == \/ pc = "idle" /\ op \in IdleOps
                \/ pc \in {"callback", "stepCallback"} /\ op \in CallbackOps

\* The results a hypercall can return.
Result(call) == IF call \in MayFail THEN BOOLEAN ELSE {TRUE}

\* Single-step ON/OFF hypercalls whose results the code ignores: which take effect.
Stopped(vcpus) == IF "debug_control" \in MayFail THEN SUBSET vcpus ELSE {vcpus}

Wrappers == Len(step_events) + Len(reg_list) + Len(remain)

\* Events a wrapper of vmi_step_event still refers to.
Stepped == {w.event : w \in ToSet(step_events) \cup ToSet(reg_list) \cup ToSet(remain)}

(***************************************************************************)
(* The user keeps the ownership rule of events.h: having asked for an      *)
(* event to be freed it no longer passes that event to the library, and it *)
(* does not ask for that while the event is being stepped.                 *)
(***************************************************************************)
GivenAway(e) == \/ freed[e] > 0
                \/ clear_events[e] = "free"
                \/ \E w \in ToSet(swap_events) : w.swap_from = e /\ w.free_routine

MayPass(e, free_routine) == ~GivenAway(e) /\ (free_routine => e \notin Stepped)

RunFree(e, free_routine) ==
  freed' = IF free_routine THEN [freed EXCEPT ![e] = IF @ = 0 THEN 1 ELSE 2] ELSE freed

-----------------------------------------------------------------------------
Init ==
  /\ mem_events_on_gfn = [g \in Gfns |-> None]
  /\ ss_events = {}
  /\ step_events = <<>>
  /\ step_vcpus = [v \in VCpus |-> 0]
  /\ clear_events = [e \in Events |-> "no"]
  /\ clear_steps = {}
  /\ swap_events = <<>>
  /\ freed = [e \in Events |-> 0]
  /\ pc = "idle"
  /\ deferring = FALSE
  /\ req = None
  /\ reg_list = <<>> /\ remain = <<>> /\ loop = <<>>
  /\ mem_access = [g \in Gfns |-> {}]
  /\ mtf = [v \in VCpus |-> FALSE]
  /\ monitor_singlestep_on = FALSE
  /\ paused = FALSE /\ user_paused = FALSE
  /\ ring = <<>>
  /\ responses = {}
  /\ blocked = {}

-----------------------------------------------------------------------------
(* The guest and Xen. *)

CanRun(v) == ~paused /\ v \notin blocked

\* A vCPU touches a page in a way Xen traps: it blocks until it is answered.
GuestAccess(v, g, a) ==
  /\ CanRun(v)
  /\ a \in mem_access[g]
  /\ ring' = Append(ring, [reason |-> "mem_access", vcpu_id |-> v, gfn |-> g, access |-> a])
  /\ blocked' = blocked \cup {v}
  /\ UNCHANGED <<tables, pending, pc, locals, traps, responses, pauses>>

\* A vCPU with the monitor trap flag completes one instruction.
GuestStep(v) ==
  /\ CanRun(v)
  /\ mtf[v] /\ monitor_singlestep_on
  /\ ring' = Append(ring, [reason |-> "singlestep", vcpu_id |-> v,
                           gfn |-> None, access |-> None])
  /\ blocked' = blocked \cup {v}
  /\ UNCHANGED <<tables, pending, pc, locals, traps, responses, pauses>>

-----------------------------------------------------------------------------
(* vmi_register_event, of a memory event on a page. *)

\* register_mem_event_on_gfn: the page must have no event; Xen first, then the table.
RegisterOnGfn(e) ==
  LET g == EvGfn[e] IN
  \E ok \in Result("mem_access") :
    IF mem_events_on_gfn[g] = None /\ ok
      THEN /\ mem_access' = [mem_access EXCEPT ![g] = EvAccess[e]]
           /\ mem_events_on_gfn' = [mem_events_on_gfn EXCEPT ![g] = e]
      ELSE UNCHANGED <<mem_access, mem_events_on_gfn>>

RegisterEvent(e) ==
  /\ UserRuns("register")
  /\ MayPass(e, FALSE)
  /\ RegisterOnGfn(e)
  /\ UNCHANGED <<ss_events, step_events, step_vcpus, pending, pc, locals, mtf,
                 monitor_singlestep_on, guest, pauses>>

-----------------------------------------------------------------------------
(* vmi_clear_event and vmi_swap_events. *)

(***************************************************************************)
(* g_slist_find_custom returns the first element for which the function    *)
(* yields 0, and swap_search_from yields 1 on a match: what is found is a  *)
(* wrapper of ANOTHER event.                                               *)
(***************************************************************************)
QueuedForSwap(event) == \E w \in ToSet(swap_events) : w.swap_from # event

\* The lookup returns the stored free routine, so a null routine reads as absent.
DeferClear(e, free_routine) ==
  /\ ~QueuedForSwap(e)
  /\ clear_events[e] # "free"
  /\ clear_events' = [clear_events EXCEPT ![e] = IF free_routine THEN "free" ELSE "null"]

\* Mutants: the result of the driver is ignored; the free routine runs although the
\* driver failed.
ClearOnGfn_IgnoresResult(e, free_routine) ==
  \E ok \in Result("mem_access") :
    /\ mem_access' = IF ok THEN [mem_access EXCEPT ![EvGfn[e]] = {}] ELSE mem_access
    /\ mem_events_on_gfn' = [mem_events_on_gfn EXCEPT ![EvGfn[e]] = None]
    /\ RunFree(e, free_routine)

ClearOnGfn_FreesAnyway(e, free_routine) ==
  \E ok \in Result("mem_access") :
    /\ IF ok
         THEN /\ mem_access' = [mem_access EXCEPT ![EvGfn[e]] = {}]
              /\ mem_events_on_gfn' = [mem_events_on_gfn EXCEPT ![EvGfn[e]] = None]
         ELSE UNCHANGED <<mem_access, mem_events_on_gfn>>
    /\ RunFree(e, free_routine)

\* clear_mem_event: the page is opened, and its table entry dropped whoever owns it.
ClearOnGfn(e, free_routine) ==
  \E ok \in Result("mem_access") :
    /\ IF ok
         THEN /\ mem_access' = [mem_access EXCEPT ![EvGfn[e]] = {}]
              /\ mem_events_on_gfn' = [mem_events_on_gfn EXCEPT ![EvGfn[e]] = None]
         ELSE UNCHANGED <<mem_access, mem_events_on_gfn>>
    /\ RunFree(e, free_routine /\ ok)

ClearEvent(e, free_routine) ==
  /\ UserRuns("clear")
  /\ MayPass(e, free_routine)
  /\ IF EventCallback
       THEN /\ DeferClear(e, free_routine)
            /\ UNCHANGED <<mem_access, mem_events_on_gfn, freed>>
       ELSE /\ ClearOnGfn(e, free_routine)
            /\ UNCHANGED clear_events
  /\ UNCHANGED <<ss_events, step_events, step_vcpus, clear_steps, swap_events, pc,
                 locals, mtf, monitor_singlestep_on, guest, pauses>>

\* swap_events: the page gets the new event's permissions, then the table its event.
SwapOnGfn(from, to, free_routine) ==
  \E ok \in Result("mem_access") :
    /\ IF ok
         THEN /\ mem_access' = [mem_access EXCEPT ![EvGfn[to]] = EvAccess[to]]
              /\ mem_events_on_gfn' = [mem_events_on_gfn EXCEPT ![EvGfn[to]] = to]
         ELSE UNCHANGED <<mem_access, mem_events_on_gfn>>
    /\ RunFree(from, free_routine /\ ok)

\* events.h: for "changing the MEMACCESS page permissions on a page", so of one page.
SwapEvents(from, to, free_routine) ==
  /\ UserRuns("swap")
  /\ from # to /\ EvGfn[from] = EvGfn[to]
  /\ MayPass(from, free_routine) /\ MayPass(to, FALSE)
  /\ mem_events_on_gfn[EvGfn[from]] # None
  /\ IF EventCallback
       THEN /\ ~QueuedForSwap(from)
            /\ Len(swap_events) < MaxSwaps
            /\ swap_events' = Append(swap_events, [swap_from |-> from, swap_to |-> to,
                                                   free_routine |-> free_routine])
            /\ UNCHANGED <<mem_access, mem_events_on_gfn, freed>>
       ELSE /\ SwapOnGfn(from, to, free_routine)
            /\ UNCHANGED swap_events
  /\ UNCHANGED <<ss_events, step_events, step_vcpus, clear_events, clear_steps, pc,
                 locals, mtf, monitor_singlestep_on, guest, pauses>>

-----------------------------------------------------------------------------
(* vmi_step_event. *)

\* The first test of vmi_step_event compares with >, so NumVCpus itself passes it.
StepArgumentsPass(v) ==
  /\ v <= NumVCpus
  /\ v \in ss_events => step_vcpus[v] > 0

AddWrapper(e, v, steps, cb) ==
  /\ step_events' = <<[event |-> e, vcpu_id |-> v, steps |-> steps, cb |-> cb]>>
                    \o step_events
  /\ step_vcpus' = [step_vcpus EXCEPT ![v] = @ + 1]

\* The event is queued; the vCPU starts single-stepping unless it already does.
StepEvent(e, v, steps, cb) ==
  /\ UserRuns("step")
  /\ MayPass(e, FALSE)
  /\ StepArgumentsPass(v) /\ v \in VCpus
  /\ Wrappers < MaxWraps
  /\ IF v \in ss_events
       THEN UNCHANGED <<ss_events, mtf, monitor_singlestep_on>>
       ELSE /\ ss_events' = ss_events \cup {v}
            /\ mtf' = [mtf EXCEPT ![v] = TRUE]
            /\ monitor_singlestep_on' = TRUE
  /\ AddWrapper(e, v, steps, cb)
  /\ UNCHANGED <<mem_events_on_gfn, pending, pc, locals, mem_access, guest, pauses>>

(***************************************************************************)
(* xen_start_single_step_48 cannot set the flag - the hypercall fails, or  *)
(* there is no such vCPU - and rewinds: every vCPU up to v is stopped.     *)
(***************************************************************************)
StepEventFails(v) ==
  /\ UserRuns("step")
  /\ StepArgumentsPass(v) /\ v \notin ss_events
  /\ v \notin VCpus \/ "debug_control" \in MayFail
  /\ monitor_singlestep_on' = TRUE
  /\ \E off \in Stopped({u \in VCpus : u <= v}) :
       mtf' = [u \in VCpus |-> mtf[u] /\ u \notin off]
  /\ UNCHANGED <<tables, pending, pc, locals, mem_access, guest, pauses>>

-----------------------------------------------------------------------------
(* vmi_pause_vm and vmi_resume_vm, called by the user. *)

PauseVm ==
  /\ UserRuns("pause")
  /\ paused' = TRUE /\ user_paused' = TRUE
  /\ UNCHANGED <<tables, pending, pc, locals, traps, guest>>

ResumeVm ==
  /\ UserRuns("resume")
  /\ paused' = FALSE /\ user_paused' = FALSE
  /\ UNCHANGED <<tables, pending, pc, locals, traps, guest>>

-----------------------------------------------------------------------------
(* process_requests. *)

\* vmi_events_listen; the wait is over, because of an event or of the timeout.
EventsListen ==
  /\ pc = "idle"
  /\ pc' = "requests"
  /\ UNCHANGED <<tables, pending, locals, traps, guest, pauses>>

\* process_mem finds a handler for this access.
Handles(e, access) == e # None /\ access \in EvAccess[e]

\* get_request, then process_mem up to the callback.
TakeMemRequest ==
  /\ pc = "requests" /\ ring # <<>>
  /\ Head(ring).reason = "mem_access"
  /\ req' = Head(ring)
  /\ ring' = Tail(ring)
  /\ pc' = IF Handles(mem_events_on_gfn[req'.gfn], req'.access)
             THEN "callback" ELSE "respond"
  /\ UNCHANGED <<tables, pending, deferring, reg_list, remain, loop, traps,
                 responses, blocked, pauses>>

(***************************************************************************)
(* get_request, then process_single_step_event, whose callback is          *)
(* step_and_reg_events: the list is reversed into a copy and emptied.      *)
(***************************************************************************)
TakeStepRequest ==
  /\ pc = "requests" /\ ring # <<>>
  /\ Head(ring).reason = "singlestep"
  /\ req' = Head(ring)
  /\ ring' = Tail(ring)
  /\ IF req'.vcpu_id \in ss_events
       THEN /\ pc' = "steps"
            /\ reg_list' = Reverse(step_events)
            /\ remain' = <<>>
            /\ step_events' = <<>>
       ELSE /\ pc' = "respond"
            /\ UNCHANGED <<reg_list, remain, step_events>>
  /\ UNCHANGED <<mem_events_on_gfn, ss_events, step_vcpus, pending, deferring, loop,
                 traps, responses, blocked, pauses>>

\* put_response, at the end of a turn of the loop.
PutResponse ==
  /\ pc \in {"callback", "respond"}
  /\ responses' = responses \cup {req.vcpu_id}
  /\ req' = None
  /\ pc' = "requests"
  /\ UNCHANGED <<tables, pending, deferring, reg_list, remain, loop, traps, ring,
                 blocked, pauses>>

-----------------------------------------------------------------------------
(* step_and_reg_events. *)

StepsLeft(w) == IF w.vcpu_id = req.vcpu_id THEN w.steps - 1 ELSE w.steps

(***************************************************************************)
(* The wrapper is done: its vCPU has one event less to step and, when it   *)
(* was the last, the internal single-step event is cleared.  A callback is *)
(* running, so that clear is deferred - and refused if a swap is queued,   *)
(* every one of which is "another event".                                  *)
(***************************************************************************)
FinishWrapper(w) ==
  /\ reg_list' = Tail(reg_list)
  /\ step_vcpus' = [step_vcpus EXCEPT ![w.vcpu_id] = @ - 1]
  /\ clear_steps' = IF step_vcpus[w.vcpu_id] = 1 /\ swap_events = <<>>
                      THEN clear_steps \cup {w.vcpu_id}
                      ELSE clear_steps

KeepWrapper ==
  /\ pc = "steps" /\ reg_list # <<>>
  /\ LET w == Head(reg_list) IN
     /\ StepsLeft(w) > 0
     /\ remain' = <<[w EXCEPT !.steps = StepsLeft(w)]>> \o remain
  /\ reg_list' = Tail(reg_list)
  /\ UNCHANGED <<tables, pending, pc, deferring, req, loop, traps, guest, pauses>>

\* Mutant: the event of a wrapper without a callback is forgotten.
ReRegister_Forgets ==
  /\ pc = "steps" /\ reg_list # <<>>
  /\ StepsLeft(Head(reg_list)) = 0 /\ ~Head(reg_list).cb
  /\ FinishWrapper(Head(reg_list))
  /\ UNCHANGED <<mem_events_on_gfn, mem_access, ss_events, step_events, clear_events,
                 swap_events, freed, pc, deferring, req, remain, loop, mtf,
                 monitor_singlestep_on, guest, pauses>>

\* The last step of a wrapper without a callback: vmi_register_event.
ReRegister ==
  /\ pc = "steps" /\ reg_list # <<>>
  /\ LET w == Head(reg_list) IN
     /\ StepsLeft(w) = 0 /\ ~w.cb
     /\ RegisterOnGfn(w.event)
     /\ FinishWrapper(w)
  /\ UNCHANGED <<ss_events, step_events, clear_events, swap_events, freed, pc,
                 deferring, req, remain, loop, mtf, monitor_singlestep_on, guest, pauses>>

\* The last step of a wrapper with one: the user's code runs.
CallStepCallback ==
  /\ pc = "steps" /\ reg_list # <<>>
  /\ StepsLeft(Head(reg_list)) = 0 /\ Head(reg_list).cb
  /\ pc' = "stepCallback"
  /\ UNCHANGED <<tables, pending, locals, traps, guest, pauses>>

StepCallbackReturns ==
  /\ pc = "stepCallback"
  /\ FinishWrapper(Head(reg_list))
  /\ pc' = "steps"
  /\ UNCHANGED <<mem_events_on_gfn, ss_events, step_events, clear_events, swap_events,
                 freed, deferring, req, remain, loop, traps, guest, pauses>>

\* Mutant: the list is overwritten, with what the user added meanwhile.
StepsDone_Overwrites ==
  /\ pc = "steps" /\ reg_list = <<>>
  /\ step_events' = remain
  /\ remain' = <<>>
  /\ pc' = "respond"
  /\ UNCHANGED <<mem_events_on_gfn, ss_events, step_vcpus, pending, deferring, req,
                 reg_list, loop, traps, guest, pauses>>

\* What remains goes in front of what the user added meanwhile.
StepsDone ==
  /\ pc = "steps" /\ reg_list = <<>>
  /\ step_events' = remain \o step_events
  /\ remain' = <<>>
  /\ pc' = "respond"
  /\ UNCHANGED <<mem_events_on_gfn, ss_events, step_vcpus, pending, deferring, req,
                 reg_list, loop, traps, guest, pauses>>

-----------------------------------------------------------------------------
(* xen_events_listen_48, after the first process_requests. *)

ClearsQueued == clear_steps # {} \/ \E e \in Events : clear_events[e] # "no"

DeferredWork == swap_events # <<>> \/ ClearsQueued

FirstPassDone ==
  /\ pc = "requests" /\ ring = <<>> /\ ~deferring
  /\ pc' = IF DeferredWork THEN "pause" ELSE "notify"
  /\ UNCHANGED <<tables, pending, locals, traps, guest, pauses>>

\* xen_pause_vm leaves a paused domain alone; the listener ignores its result.
PauseForDeferred ==
  /\ pc = "pause"
  /\ \E ok \in Result("pause") : paused' = (paused \/ ok)
  /\ deferring' = TRUE
  /\ pc' = "requests"
  /\ UNCHANGED <<tables, pending, req, reg_list, remain, loop, traps, guest, user_paused>>

SecondPassDone ==
  /\ pc = "requests" /\ ring = <<>> /\ deferring
  /\ loop' = swap_events
  /\ pc' = "swaps"
  /\ UNCHANGED <<tables, pending, deferring, req, reg_list, remain, traps, guest, pauses>>

\* The list is walked; nothing removes its elements or empties it.
ApplySwap ==
  /\ pc = "swaps" /\ loop # <<>>
  /\ LET w == Head(loop) IN SwapOnGfn(w.swap_from, w.swap_to, w.free_routine)
  /\ loop' = Tail(loop)
  /\ UNCHANGED <<ss_events, step_events, step_vcpus, clear_events, clear_steps,
                 swap_events, pc, deferring, req, reg_list, remain, mtf,
                 monitor_singlestep_on, guest, pauses>>

SwapsDone ==
  /\ pc = "swaps" /\ loop = <<>>
  /\ pc' = "clears"
  /\ UNCHANGED <<tables, pending, locals, traps, guest, pauses>>

\* clear_events_full on one entry; the hash table yields them in any order.
ApplyClear(e) ==
  /\ pc = "clears" /\ clear_events[e] # "no"
  /\ ClearOnGfn(e, clear_events[e] = "free")
  /\ clear_events' = [clear_events EXCEPT ![e] = "no"]
  /\ UNCHANGED <<ss_events, step_events, step_vcpus, clear_steps, swap_events, pc,
                 locals, mtf, monitor_singlestep_on, guest, pauses>>

\* vmi_shutdown_single_step, once no single-step event is left.
ShutdownSingleStep(v) ==
  \E off \in Stopped(VCpus), ok \in Result("monitor") :
    /\ mtf' = [u \in VCpus |-> u # v /\ u \notin off /\ mtf[u]]
    /\ monitor_singlestep_on' = (monitor_singlestep_on /\ ~ok)

(***************************************************************************)
(* clear_events_full on the internal single-step event of v; if stopping v *)
(* fails the event stays installed and is not freed.                       *)
(***************************************************************************)
ApplyClearStep(v) ==
  /\ pc = "clears" /\ v \in clear_steps
  /\ clear_steps' = clear_steps \ {v}
  /\ \E ok \in Result("debug_control") :
       \/ ~ok /\ UNCHANGED <<ss_events, mtf, monitor_singlestep_on>>
       \/ /\ ok
          /\ ss_events' = ss_events \ {v}
          /\ IF ss_events' = {}
               THEN ShutdownSingleStep(v)
               ELSE /\ mtf' = [mtf EXCEPT ![v] = FALSE]
                    /\ UNCHANGED monitor_singlestep_on
  /\ UNCHANGED <<mem_events_on_gfn, step_events, step_vcpus, clear_events, swap_events,
                 freed, pc, locals, mem_access, guest, pauses>>

\* vmi_resume_vm, whoever had paused the domain.
ClearsDone ==
  /\ pc = "clears" /\ ~ClearsQueued
  /\ \E ok \in Result("resume") : paused' = (paused /\ ~ok)
  /\ deferring' = FALSE
  /\ pc' = "notify"
  /\ UNCHANGED <<tables, pending, req, reg_list, remain, loop, traps, guest, user_paused>>

\* Mutant: responses are lost when the notification fails.
Consume_Loses(ok) ==
  /\ blocked' = IF ok THEN blocked \ responses ELSE blocked
  /\ responses' = {}

\* Xen, if notified, consumes every response and lets those vCPUs go.
Consume(ok) == IF ok THEN blocked' = blocked \ responses /\ responses' = {}
                     ELSE UNCHANGED <<blocked, responses>>

\* xc_evtchn_notify, the last thing of a listen.
Notify ==
  /\ pc = "notify"
  /\ pc' = "idle"
  /\ \E ok \in Result("notify") : Consume(ok)
  /\ UNCHANGED <<tables, pending, locals, traps, ring, pauses>>

-----------------------------------------------------------------------------
UserCall ==
  \/ \E e \in Events : RegisterEvent(e)
  \/ \E e \in Events, fr \in Routines : ClearEvent(e, fr)
  \/ \E e1, e2 \in Events, fr \in Routines : SwapEvents(e1, e2, fr)
  \/ \E e \in Events, v \in StepArgs, n \in 1 .. MaxSteps, cb \in BOOLEAN :
       StepEvent(e, v, n, cb)
  \/ \E v \in StepArgs : StepEventFails(v)
  \/ PauseVm
  \/ ResumeVm

StepAndReg ==
  KeepWrapper \/ ReRegister \/ CallStepCallback \/ StepCallbackReturns \/ StepsDone

Deferred ==
  \/ FirstPassDone \/ PauseForDeferred \/ SecondPassDone
  \/ ApplySwap \/ SwapsDone
  \/ \E e \in Events : ApplyClear(e)
  \/ \E v \in VCpus : ApplyClearStep(v)
  \/ ClearsDone

ListenStep ==
  EventsListen \/ TakeMemRequest \/ TakeStepRequest \/ PutResponse
  \/ StepAndReg \/ Deferred \/ Notify

Guest ==
  \/ \E v \in VCpus, g \in Gfns, a \in Accesses : GuestAccess(v, g, a)
  \/ \E v \in VCpus : GuestStep(v)

Next == UserCall \/ ListenStep \/ Guest

Spec == Init /\ [][Next]_vars

(***************************************************************************)
(* The user calls vmi_events_listen again and again and its callbacks      *)
(* return; a single-stepping vCPU that keeps being resumed does, at some   *)
(* point, complete an instruction.                                         *)
(***************************************************************************)
Fairness == WF_vars(ListenStep) /\ \A v \in VCpus : SF_vars(GuestStep(v))

FairSpec == Spec /\ Fairness

-----------------------------------------------------------------------------
\* The variables have their types; inside a callback there is a request, and inside a
\* step callback a wrapper, that it belongs to.
TypeOK ==
  /\ mem_events_on_gfn \in [Gfns -> Events \cup {None}]
  /\ ss_events \subseteq VCpus
  /\ step_events \in Seq(Wrapper)
  /\ step_vcpus \in [VCpus -> Int]
  /\ clear_events \in [Events -> {"no", "null", "free"}]
  /\ clear_steps \subseteq VCpus
  /\ swap_events \in Seq(SwapWrapper)
  /\ freed \in [Events -> 0 .. 2]
  /\ pc \in {"idle", "requests", "callback", "steps", "stepCallback", "respond",
             "pause", "swaps", "clears", "notify"}
  /\ deferring \in BOOLEAN
  /\ req \in Request \cup {None}
  /\ pc \in {"callback", "steps", "stepCallback", "respond"} => req \in Request
  /\ reg_list \in Seq(Wrapper)
  /\ pc = "stepCallback" => reg_list # <<>>
  /\ remain \in Seq(Wrapper)
  /\ loop \in Seq(SwapWrapper)
  /\ mem_access \in [Gfns -> SUBSET Accesses]
  /\ mtf \in [VCpus -> BOOLEAN]
  /\ monitor_singlestep_on \in BOOLEAN
  /\ paused \in BOOLEAN /\ user_paused \in BOOLEAN
  /\ ring \in Seq(Request)
  /\ \A i \in DOMAIN ring : ring[i].reason = "mem_access" =>
       ring[i].gfn \in Gfns /\ ring[i].access \in Accesses
  /\ responses \subseteq VCpus
  /\ blocked \subseteq VCpus

\* What Xen traps on a page is what the event registered on it asked for: no page
\* traps without a handler (the guest would loop on it), and none is registered in vain.
PagesMatchTable ==
  \A g \in Gfns :
    mem_access[g] = IF mem_events_on_gfn[g] = None THEN {}
                    ELSE EvAccess[mem_events_on_gfn[g]]

\* Every request waiting on the ring will find its handler: what the deferral of
\* clears and swaps is for, and what the TODO in process_mem doubts for several vCPUs.
PendingHandled ==
  \A i \in DOMAIN ring :
    LET r == ring[i] IN
    IF r.reason = "mem_access" THEN Handles(mem_events_on_gfn[r.gfn], r.access)
                               ELSE r.vcpu_id \in ss_events

\* Inside a listen a handler is removed or replaced only with every vCPU stopped and
\* no request left on the ring.
QuietChange ==
  [][\A g \in Gfns :
       mem_events_on_gfn[g] # None /\ mem_events_on_gfn'[g] # mem_events_on_gfn[g]
         => pc = "idle" \/ (paused /\ ring = <<>>)]_vars

WrappersOf(s, v) == Cardinality({i \in DOMAIN s : s[i].vcpu_id = v})

\* vmi->step_vcpus counts the wrappers, also while step_and_reg_events holds some of
\* them in its locals and callbacks add new ones to the list.
StepVcpusCount ==
  \A v \in VCpus : step_vcpus[v] = WrappersOf(step_events, v) + WrappersOf(reg_list, v)
                                     + WrappersOf(remain, v)

\* An event being stepped on a vCPU has that vCPU single-stepping, and no deferred
\* clear is about to take the single-step event away from under it.
StepArmed ==
  \A v \in VCpus : step_vcpus[v] > 0 => /\ v \in ss_events \ clear_steps
                                        /\ mtf[v] /\ monitor_singlestep_on

\* Between listens, a vCPU with nothing to step does not single-step.
StepUnwound ==
  pc = "idle" => \A v \in VCpus : step_vcpus[v] = 0 => v \notin ss_events /\ ~mtf[v]

\* Stepping keeps its books: the counter, the flag of the vCPU, the single-step event and
\* its deferred clear agree, whichever of step, callback and clear came last
\* (step_and_reg_events, vmi_step_event).
SteppingRight == StepVcpusCount /\ StepArmed /\ StepUnwound

\* A blocked vCPU is owed exactly one response, a running one none: its request is on
\* the ring, or being processed, or its response waits for the next notification.
OneAnswer ==
  \A v \in VCpus :
    WrappersOf(ring, v) + (IF req # None /\ req.vcpu_id = v THEN 1 ELSE 0)
      + (IF v \in responses THEN 1 ELSE 0) = (IF v \in blocked THEN 1 ELSE 0)

\* Once its free routine ran, no table and no list of the library refers to an event.
NoDangling ==
  \A e \in Events : freed[e] > 0 =>
    /\ \A g \in Gfns : mem_events_on_gfn[g] # e
    /\ clear_events[e] = "no"
    /\ e \notin Stepped
    /\ \A w \in ToSet(swap_events) : e \notin {w.swap_from, w.swap_to}

\* events.h: free_routine is the "Function to call when it is safe to free" the event;
\* it runs once.
FreedOnce == \A e \in Events : freed[e] <= 1

\* What the library counts and what it hands back agree with its tables and lists, also
\* after a failed hypercall: wrappers per vCPU, and events whose free routine has run.
Bookkeeping == StepVcpusCount /\ NoDangling /\ FreedOnce

\* vmi_pause_vm: the VM stays paused until the user calls vmi_resume_vm.
UserPauseKept == user_paused => paused

\* A deferred clear is carried out.
ClearsApplied == \A e \in Events : clear_events[e] # "no" ~> clear_events[e] = "no"

\* An event stepped without a callback is registered again: its page has a handler.
StepReRegisters ==
  \A e \in Events :
    (\E w \in ToSet(step_events) : w.event = e /\ ~w.cb)
      ~> mem_events_on_gfn[EvGfn[e]] # None

-----------------------------------------------------------------------------
(***************************************************************************)
(* The refinement mapping to TrapDelivery.  Watchable are the accesses to  *)
(* pages and the single steps of vCPUs; a vCPU waits for what its request, *)
(* on the ring or being processed, says.                                   *)
(***************************************************************************)
Watchable == (Gfns \X Accesses) \cup ({"singlestep"} \X VCpus)

WatchOf(r) == IF r.reason = "mem_access" THEN <<r.gfn, r.access>>
                                         ELSE <<"singlestep", r.vcpu_id>>

Watched == {t \in Gfns \X Accesses : Handles(mem_events_on_gfn[t[1]], t[2])}
             \cup ({"singlestep"} \X ss_events)

Requests == ToSet(ring) \cup ({req} \ {None})

VCpuState == [v \in VCpus |->
  IF v \notin blocked THEN <<"running">>
  ELSE IF v \in responses THEN <<"answered">>
  ELSE WatchOf(CHOOSE r \in Requests : r.vcpu_id = v)]

Delivery == INSTANCE TrapDelivery WITH
  Running <- <<"running">>, Answered <- <<"answered">>, watched <- Watched, state <- VCpuState

\* The listener delivers traps as TrapDelivery says.
DeliverySpec == Delivery!Spec

\* A vCPU that trapped is let go again, once the listener has answered it.
VcpuResumed == Delivery!Progress

\* Nothing that waits for the listener waits for ever: blocked vCPUs, deferred clears,
\* and events that were taken off their page to be stepped.
Progress == VcpuResumed /\ ClearsApplied /\ StepReRegisters
=============================================================================
