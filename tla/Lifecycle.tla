------------------------------ MODULE Lifecycle ------------------------------
(***************************************************************************)
(* Initialisation and teardown of LibVMI instances that look at the same   *)
(* HVM domain: vmi_init, vmi_init_complete and vmi_destroy of tiny_core.c, *)
(* the stages the Xen driver adds to them (driver/xen/xen.c), and the      *)
(* setup and the destruction of the event driver                           *)
(* (driver/xen/xen_events_48.c).  Every stage may fail, and a failed       *)
(* vmi_init destroys what it has built so far.                             *)
(*                                                                         *)
(* An instance belongs to a program; programs run side by side, one        *)
(* program may keep several instances, and the administrator pauses and    *)
(* resumes the domain with other tools.  All of them share what Xen keeps  *)
(* of the domain: its one monitor ring, its traps and its pause count.     *)
(*                                                                         *)
(* pc[i] is the next stage of the call that is running for instance i:     *)
(*   driver lookup probe monitor evtchn bind finish os: vmi_init and       *)
(*     vmi_init_complete;                                                  *)
(*   info check pause reset listen disable resume xen: vmi_destroy;        *)
(* or the state of an instance between two calls: none, ready, lost (the   *)
(* call that made it failed without destroying it) and crashed (its        *)
(* program died of a null pointer).                                        *)
(***************************************************************************)
EXTENDS Integers, FiniteSets

CONSTANTS
  Insts,    \* instances
  None,
  FlagSets, \* sets of init flags that users pass
  MayFail   \* stages that may fail

Flags == {"events", "evtchn", "shm"}

ASSUME InstsAssumption == IsFiniteSet(Insts) /\ None \notin Insts
ASSUME FlagsAssumption == FlagSets \subseteq SUBSET Flags
ASSUME FailAssumption ==
  MayFail \subseteq {"driver", "lookup", "probe", "monitor", "evtchn", "bind", "memsize", "os",
                     "getinfo", "pause", "reset"}

VARIABLES
  pc,
  flags,     \* vmi->init_flags
  complete,  \* instances vmi_init_complete is making
  held,      \* what each instance has allocated, opened or mapped
  resuming,  \* instances whose xen_events_destroy_48 resumes the domain at its end, and
             \* those that crashed before they came to it
  owner,     \* Xen: the instance that enabled the monitor ring of the domain
  trapped,   \* Xen: pages or registers of the domain are trapped
  waiting,   \* some vCPU waits for the answer to a request on that ring
  pauses,    \* Xen: the pause count of the domain
  admin      \* the administrator has paused the domain

instances == <<pc, flags, complete, held, resuming>>
domain    == <<owner, trapped, waiting, pauses, admin>>
vars      == <<instances, domain>>

Stages == {"driver", "lookup", "probe", "monitor", "evtchn", "bind", "finish", "os"}
Teardown == {"info", "check", "pause", "reset", "listen", "disable", "resume", "xen"}
\* vmi      the instance structure        xen   xen_instance_t and its handles
\* cache    the page cache                xe    xen_events_t (xen->events)
\* ring     the mapped monitor ring       xce   the event channel handle
\* port     the bound event channel; from then on the rings are initialised
\* handle   an event channel handle of the user that the instance has not taken over
\* tables   the tables of events.c        os    os_data and os_interface
\* name     the name of the domain (xen->name)
Resources == {"vmi", "xen", "name", "cache", "xe", "ring", "xce", "port", "handle", "tables",
              "os"}

Fails(stage) == IF stage \in MayFail THEN BOOLEAN ELSE {FALSE}

Goto(i, stage) == pc' = [pc EXCEPT ![i] = stage]
Gain(i, rs)    == held' = [held EXCEPT ![i] = @ \cup rs]
Release(i, rs) == held' = [held EXCEPT ![i] = @ \ rs]

Init ==
  /\ pc = [i \in Insts |-> "none"]
  /\ flags = [i \in Insts |-> {}]
  /\ complete = {}
  /\ held = [i \in Insts |-> {}]
  /\ resuming = {}
  /\ owner = None
  /\ trapped = FALSE
  /\ waiting = FALSE
  /\ pauses = 0
  /\ admin = FALSE

-----------------------------------------------------------------------------
(* Initialisation. *)

\* Mutant: the event driver is destroyed only if it had come up completely.
Destroying_Bound(i) == IF "events" \in flags[i] /\ "port" \in held[i] THEN "info" ELSE "xen"

\* Where vmi_destroy starts: without events there is nothing of the event driver to
\* destroy (xen_destroy looks at the init flags, xen_events_destroy_48 at the handle).
Destroying(i) == IF "events" \in flags[i] /\ "xe" \in held[i] THEN "info" ELSE "xen"

\* The stage fails: error_exit of vmi_init destroys the instance.
Fail(i) == /\ Goto(i, Destroying(i))
           /\ complete' = complete \ {i}
           /\ UNCHANGED <<flags, held, resuming, domain>>

\* vmi_init, or vmi_init_complete, which calls it.  This is another structure: what an
\* earlier one has left behind is out of everybody's reach.
Start(i, fs, whole) ==
  /\ pc[i] = "none"
  /\ flags' = [flags EXCEPT ![i] = fs]
  /\ complete' = IF whole THEN complete \cup {i} ELSE complete
  /\ held' = [held EXCEPT ![i] = {"vmi"} \cup IF "evtchn" \in fs THEN {"handle"} ELSE {}]
  /\ Goto(i, "driver")
  /\ UNCHANGED <<resuming, domain>>

\* driver_init: xen_init opens its handles, or closes the ones it had opened.
DriverInit(i) ==
  /\ pc[i] = "driver"
  /\ \/ TRUE \in Fails("driver") /\ Fail(i)
     \/ /\ Gain(i, {"xen"})
        /\ Goto(i, "lookup")
        /\ UNCHANGED <<flags, complete, resuming, domain>>

\* set_id_and_name: the domain is looked up and its name copied.
Lookup(i) ==
  /\ pc[i] = "lookup"
  /\ \/ TRUE \in Fails("lookup") /\ Fail(i)
     \/ /\ Gain(i, {"name"})
        /\ Goto(i, "probe")
        /\ UNCHANGED <<flags, complete, resuming, domain>>

\* xen_init_vmi asks for the size of the domain and sets the page cache up.
Probe(i) ==
  /\ pc[i] = "probe"
  /\ \/ TRUE \in Fails("probe") /\ Fail(i)
     \/ /\ Gain(i, {"cache"})
        /\ Goto(i, IF "events" \in flags[i] THEN "monitor" ELSE "finish")
        /\ UNCHANGED <<flags, complete, resuming, domain>>

\* xen_init_events_48 up to xc_monitor_enable; Xen refuses while the ring is enabled.
\* xen->events is set before, so that a failure leaves it to be destroyed.
MonitorEnable(i) ==
  /\ pc[i] = "monitor"
  /\ \E fails \in Fails("monitor") :
       IF owner # None \/ fails
       THEN /\ Gain(i, {"xe"})
            /\ Goto(i, "info")
            /\ complete' = complete \ {i}
            /\ UNCHANGED <<flags, resuming, domain>>
       ELSE /\ Gain(i, {"xe", "ring"})
            /\ owner' = i
            /\ Goto(i, "evtchn")
            /\ UNCHANGED <<flags, complete, resuming, trapped, waiting, pauses, admin>>

\* The user's event channel handle is taken over, or one is opened.
EvtchnOpen(i) ==
  /\ pc[i] = "evtchn"
  /\ \/ "evtchn" \notin flags[i] /\ TRUE \in Fails("evtchn") /\ Fail(i)
     \/ /\ held' = [held EXCEPT ![i] = (@ \ {"handle"}) \cup {"xce"}]
        /\ Goto(i, "bind")
        /\ UNCHANGED <<flags, complete, resuming, domain>>

\* The port is bound and the rings are initialised.
Bind(i) ==
  /\ pc[i] = "bind"
  /\ \/ TRUE \in Fails("bind") /\ Fail(i)
     \/ /\ Gain(i, {"port"})
        /\ Goto(i, "finish")
        /\ UNCHANGED <<flags, complete, resuming, domain>>

\* The memory size, the caches of translations and events_init; the build has no
\* snapshots, and the branch that says so leaves before events_init, with VMI_SUCCESS.
Finish(i) ==
  /\ pc[i] = "finish"
  /\ \/ TRUE \in Fails("memsize") /\ Fail(i)
     \/ /\ Gain(i, IF "events" \in flags[i] /\ "shm" \notin flags[i]
                    THEN {"tables"} ELSE {})
        /\ Goto(i, IF i \in complete THEN "os" ELSE "ready")
        /\ UNCHANGED <<flags, complete, resuming, domain>>

\* vmi_init_paging and vmi_init_os, as vmi_init_complete calls them: when one fails the
\* caller is told so and not given the instance.
InitOs(i) ==
  /\ pc[i] = "os"
  /\ \/ /\ TRUE \in Fails("os")
        /\ Goto(i, "lost")
        /\ UNCHANGED held
     \/ /\ Gain(i, {"os"})
        /\ Goto(i, "ready")
  /\ complete' = complete \ {i}
  /\ UNCHANGED <<flags, resuming, domain>>

-----------------------------------------------------------------------------
(* Teardown. *)

\* vmi_destroy, which vmi_init also calls when a stage fails.
Destroy(i) ==
  /\ pc[i] = "ready"
  /\ Fail(i)

\* xen_events_destroy_48 asks whether the domain runs ...
Info(i) ==
  /\ pc[i] = "info"
  /\ \E fails \in Fails("getinfo") :
       Goto(i, IF fails \/ pauses > 0 THEN "reset" ELSE "check")
  /\ UNCHANGED <<flags, complete, held, resuming, domain>>

\* ... and xen_pause_vm asks again: it reports success for a domain it finds paused.
Check(i) ==
  /\ pc[i] = "check"
  /\ \/ /\ TRUE \in Fails("getinfo")
        /\ Goto(i, "reset")
        /\ UNCHANGED resuming
     \/ /\ pauses > 0
        /\ Goto(i, "reset")
        /\ resuming' = resuming \cup {i}
     \/ /\ pauses = 0
        /\ Goto(i, "pause")
        /\ UNCHANGED resuming
  /\ UNCHANGED <<flags, complete, held, domain>>

\* Mutant: whether the domain was paused is decided after the pause.
Pause_Asks(i) ==
  /\ pc[i] = "pause"
  /\ Goto(i, "reset")
  /\ pauses' = pauses + 1
  /\ resuming' = IF pauses' = 1 THEN resuming \cup {i} ELSE resuming
  /\ UNCHANGED <<flags, complete, held, owner, trapped, waiting, admin>>

Pause(i) ==
  /\ pc[i] = "pause"
  /\ Goto(i, "reset")
  /\ \/ /\ TRUE \in Fails("pause")
        /\ UNCHANGED <<resuming, pauses>>
     \/ /\ resuming' = resuming \cup {i}
        /\ pauses' = pauses + 1
  /\ UNCHANGED <<flags, complete, held, owner, trapped, waiting, admin>>

\* Single steps, page accesses and monitors are switched off, whoever switched them on;
\* the results are ignored.
Reset(i) ==
  /\ pc[i] = "reset"
  /\ \E fails \in Fails("reset") : trapped' = (trapped /\ fails)
  /\ Goto(i, IF "ring" \in held[i] THEN "listen" ELSE "disable")
  /\ UNCHANGED <<flags, complete, held, resuming, owner, waiting, pauses, admin>>

\* Whether the last listen finds requests, and runs callbacks: its ring may be one that
\* Xen does not serve any more.
FindsRequests(i) == IF owner = i THEN {waiting} ELSE BOOLEAN

\* Whether clears and swaps may wait: asked for by a callback of this listen, or swaps left
\* in the list by an earlier one (whose user had the tables).
MayDefer(i, called) == called \/ "tables" \in held[i]

\* xen_events_listen_48 and the unmapping of the ring.  The callbacks may trap something
\* again.  Clears and swaps are applied with the domain paused; the domain is resumed
\* after them, once, whoever paused it.  A ring that has not been initialised is a null
\* pointer to process_requests.
LastListen(i) ==
  /\ pc[i] = "listen"
  /\ IF "port" \notin held[i]
     THEN /\ Goto(i, "crashed")
          /\ UNCHANGED <<held, trapped, waiting, pauses>>
     ELSE /\ \E called \in FindsRequests(i), deferred \in BOOLEAN, traps \in BOOLEAN :
               /\ trapped' = (trapped \/ (called /\ traps))
               /\ deferred => MayDefer(i, called)
               /\ pauses' = IF deferred /\ pauses > 0 THEN pauses - 1 ELSE pauses
          /\ waiting' = (waiting /\ owner # i)
          /\ Release(i, {"ring"})
          /\ Goto(i, "disable")
  /\ UNCHANGED <<flags, complete, resuming, owner, admin>>

\* Mutant: only a handle the library opened itself is closed.
CloseEvents_OwnHandle(i) ==
  /\ pc[i] = "disable"
  /\ owner' = None
  /\ waiting' = FALSE
  /\ Release(i, {"port", "xe"} \cup IF "evtchn" \in flags[i] THEN {} ELSE {"xce"})
  /\ Goto(i, IF i \in resuming THEN "resume" ELSE "xen")
  /\ UNCHANGED <<flags, complete, resuming, trapped, pauses, admin>>

\* xc_monitor_disable: Xen takes the domain's ring away from whoever has it, and lets
\* the vCPUs that wait for an answer go on.  Channel, handle and xen->events are released.
CloseEvents(i) ==
  /\ pc[i] = "disable"
  /\ owner' = None
  /\ waiting' = FALSE
  /\ Release(i, {"port", "xce", "xe"})
  /\ Goto(i, IF i \in resuming THEN "resume" ELSE "xen")
  /\ UNCHANGED <<flags, complete, resuming, trapped, pauses, admin>>

\* The pause is undone: Xen refuses to resume a domain that runs, and is taken to resume
\* one that is paused.
Resume(i) ==
  /\ pc[i] = "resume"
  /\ pauses' = IF pauses > 0 THEN pauses - 1 ELSE 0
  /\ resuming' = resuming \ {i}
  /\ Goto(i, "xen")
  /\ UNCHANGED <<flags, complete, held, owner, trapped, waiting, admin>>

\* xen_destroy closes the handles of the instance and frees xen_instance_t, but not the
\* name in it; events_destroy, the operating system's data, the caches and the structure
\* itself follow.
FreeInstance(i) ==
  /\ pc[i] = "xen"
  /\ Release(i, {"xen", "tables", "os", "cache", "vmi"})
  /\ flags' = [flags EXCEPT ![i] = {}]
  /\ Goto(i, "none")
  /\ UNCHANGED <<complete, resuming, domain>>

-----------------------------------------------------------------------------
(* Users, guest and administrator. *)

\* The user registers an event; Xen needs an enabled ring for that, no matter whose.
Register(i) ==
  /\ pc[i] = "ready"
  /\ "tables" \in held[i]
  /\ owner # None
  /\ trapped' = TRUE
  /\ UNCHANGED <<instances, owner, waiting, pauses, admin>>

\* vmi_events_listen between two calls: the requests on the instance's ring are answered.
Listen(i) ==
  /\ pc[i] = "ready"
  /\ owner = i
  /\ waiting
  /\ waiting' = FALSE
  /\ UNCHANGED <<instances, owner, trapped, pauses, admin>>

Trap ==
  /\ trapped
  /\ owner # None
  /\ pauses = 0
  /\ waiting' = TRUE
  /\ UNCHANGED <<instances, owner, trapped, pauses, admin>>

AdminPause ==
  /\ ~admin
  /\ admin' = TRUE
  /\ pauses' = pauses + 1
  /\ UNCHANGED <<instances, owner, trapped, waiting>>

AdminResume ==
  /\ admin
  /\ admin' = FALSE
  /\ pauses' = IF pauses > 0 THEN pauses - 1 ELSE 0
  /\ UNCHANGED <<instances, owner, trapped, waiting>>

Step(i) ==
  \/ DriverInit(i) \/ Lookup(i) \/ Probe(i) \/ MonitorEnable(i) \/ EvtchnOpen(i)
  \/ Bind(i) \/ Finish(i) \/ InitOs(i)
  \/ Info(i) \/ Check(i) \/ Pause(i) \/ Reset(i) \/ LastListen(i)
  \/ CloseEvents(i) \/ Resume(i) \/ FreeInstance(i)

User(i) ==
  \/ \E fs \in FlagSets, whole \in BOOLEAN : Start(i, fs, whole)
  \/ Destroy(i)
  \/ Register(i)
  \/ Listen(i)

Next == \/ \E i \in Insts : Step(i) \/ User(i)
        \/ Trap
        \/ AdminPause
        \/ AdminResume

Spec == Init /\ [][Next]_vars

\* A call that has started goes on, and users listen again and again.
Fairness == \A i \in Insts : WF_vars(Step(i)) /\ WF_vars(Listen(i))

FairSpec == Spec /\ Fairness

-----------------------------------------------------------------------------
(* Properties. *)

\* Types; an instance is noted to resume the domain only while it is being destroyed.
TypeOK ==
  /\ pc \in [Insts -> Stages \cup Teardown \cup {"none", "ready", "lost", "crashed"}]
  /\ flags \in [Insts -> SUBSET Flags]
  /\ complete \subseteq Insts
  /\ held \in [Insts -> SUBSET Resources]
  /\ resuming \subseteq {i \in Insts : pc[i] \in {"reset", "listen", "disable", "resume",
                                                  "crashed"}}
  /\ owner \in Insts \cup {None}
  /\ trapped \in BOOLEAN
  /\ waiting \in BOOLEAN
  /\ pauses \in 0 .. (1 + Cardinality(Insts))
  /\ admin \in BOOLEAN

(***************************************************************************)
(* Wherever a vmi_init failed, and after every vmi_destroy, nothing of the *)
(* instance is left open, mapped or allocated but the two things the code  *)
(* does not return: the copy of the domain's name, which nobody frees      *)
(* (against tiny_libvmi.h:761), and an event channel handle of the user    *)
(* that the event driver never got to see (no events asked for, or the     *)
(* call failed before the driver stored it).                               *)
(***************************************************************************)
NothingLeft == \A i \in Insts : pc[i] = "none" => held[i] \subseteq {"handle", "name"}

\* An instance given to a user who asked for events has all it takes to listen:
\* tables, ring, bound channel.  VMI_INIT_SHM in a build without snapshots is the
\* exception: vmi_init reports success and has skipped the tables.
ReadyToListen ==
  \A i \in Insts : pc[i] = "ready" /\ "events" \in flags[i]
                   => /\ {"xe", "ring", "xce", "port"} \subseteq held[i]
                      /\ "shm" \in flags[i] \/ "tables" \in held[i]

\* The monitor ring of the domain does not outlive the instance that enabled it: while
\* Xen has it enabled its owner has it mapped, or is about to disable it.  Otherwise
\* every later vmi_init with events would fail ("vm_event is (or was) active").
MonitorReturned ==
  owner # None => \/ "ring" \in held[owner] /\ pc[owner] # "none"
                  \/ pc[owner] = "disable"

(***************************************************************************)
(* What vmi_init and vmi_destroy acquired is where it belongs after every  *)
(* stage, a failed one included: with an instance that can use it, or      *)
(* returned, but for what NothingLeft names.  Nothing is said of the       *)
(* instances nobody can destroy any more, which keep what they hold: those *)
(* a failing vmi_init_complete does not hand out (its caller could not     *)
(* "eventually call vmi_destroy", tiny_libvmi.h:685), and crashed ones.    *)
(***************************************************************************)
Returned == TypeOK /\ NothingLeft /\ ReadyToListen /\ MonitorReturned

\* Programs that died in a teardown of theirs that had paused the domain.
Abandoned == {i \in resuming : pc[i] = "crashed"}

(***************************************************************************)
(* However many instances come, fail and go at once, and however their     *)
(* pauses interleave with the administrator's, the domain is not left      *)
(* paused: Xen counts no more pauses than the administrator's, those of    *)
(* teardowns that go on to undo theirs, and those of programs that died    *)
(* before.  The latter stay for good, and there is one way to them: a      *)
(* vmi_init that fails after it enabled the monitor ring and before it     *)
(* bound the ring's port.                                                  *)
(***************************************************************************)
NotLeftPaused ==
  /\ pauses <= Cardinality(resuming \ Abandoned) + Cardinality(Abandoned)
                 + (IF admin THEN 1 ELSE 0)
  /\ \A i \in Abandoned : "ring" \in held[i] /\ "port" \notin held[i]

\* A vCPU that waits for an answer is let go: by a listen, or by the teardown of the
\* instance that should have listened.  The exceptions are a ring whose instance nobody
\* can use any more: vmi_init_complete failed, or its program died.
LetGo == waiting ~> (~waiting \/ \E i \in Insts : owner = i /\ pc[i] \in {"lost", "crashed"})
=============================================================================
