------------------------- MODULE EventListener_proofs -------------------------
(***************************************************************************)
(* Theorems about EventListener, for any number of vCPUs, pages and events *)
(* and any bounds.                                                         *)
(***************************************************************************)
EXTENDS EventListener, SequenceTheorems, FunctionTheorems, FiniteSetTheorems, TLAPS

\* Reverse keeps the type of the elements.
LEMMA ReverseType ==
  ASSUME NEW S, NEW s \in Seq(S)
  PROVE  Reverse(s) \in Seq(S)
  <1>1. Len(s) \in Nat /\ \A i \in 1 .. Len(s) : s[i] \in S
    OBVIOUS
  <1>2. Reverse(s) \in [1 .. Len(s) -> S]
    BY <1>1 DEF Reverse
  <1>3. Reverse(s) \in Seq(S)
    BY <1>1, <1>2, SeqDef
  <1> QED BY <1>3

-----------------------------------------------------------------------------
(* Type correctness. *)

\* The first state is well typed.
LEMMA TypeInit == Init => TypeOK
  <1>1. ASSUME NEW S PROVE <<>> \in Seq(S)
    OBVIOUS
  <1>2. ASSUME Init
        PROVE  /\ mem_events_on_gfn \in [Gfns -> Events \cup {None}]
               /\ mem_access \in [Gfns -> SUBSET Accesses]
               /\ step_vcpus \in [VCpus -> Int]
               /\ mtf \in [VCpus -> BOOLEAN]
    BY <1>2 DEF Init
  <1>3. ASSUME Init
        PROVE  /\ clear_events \in [Events -> {"no", "null", "free"}]
               /\ freed \in [Events -> 0 .. 2]
    BY <1>3 DEF Init
  <1>4. ASSUME Init
        PROVE  /\ step_events \in Seq(Wrapper) /\ reg_list \in Seq(Wrapper)
               /\ remain \in Seq(Wrapper)
               /\ swap_events \in Seq(SwapWrapper) /\ loop \in Seq(SwapWrapper)
               /\ ring \in Seq(Request) /\ \A i \in DOMAIN ring : FALSE
    BY <1>1, <1>4 DEF Init
  <1> QED BY <1>2, <1>3, <1>4 DEF Init, TypeOK

\* The table and Xen's view of the pages keep their types under the three operations
\* that change them.
PageTypes == /\ mem_events_on_gfn \in [Gfns -> Events \cup {None}]
             /\ mem_access \in [Gfns -> SUBSET Accesses]

\* Registering an event on a page keeps the types of tables and pages.
LEMMA RegisterTypes == ASSUME PageTypes, NEW e \in Events, RegisterOnGfn(e)
                       PROVE  PageTypes'
  <1>1. EvGfn[e] \in Gfns /\ EvAccess[e] \in SUBSET Accesses
    BY EventAssumption
  <1>2. CASE UNCHANGED <<mem_access, mem_events_on_gfn>>
    BY <1>2 DEF PageTypes
  <1>3. CASE /\ mem_access' = [mem_access EXCEPT ![EvGfn[e]] = EvAccess[e]]
             /\ mem_events_on_gfn' = [mem_events_on_gfn EXCEPT ![EvGfn[e]] = e]
    BY <1>1, <1>3 DEF PageTypes
  <1> QED BY <1>2, <1>3 DEF RegisterOnGfn

\* Clearing an event of a page keeps the types of tables and pages.
LEMMA ClearTypes ==
  ASSUME PageTypes, freed \in [Events -> 0 .. 2], NEW e \in Events, NEW fr \in BOOLEAN,
         ClearOnGfn(e, fr)
  PROVE  PageTypes' /\ freed' \in [Events -> 0 .. 2]
  <1>1. EvGfn[e] \in Gfns
    BY EventAssumption
  <1>2. PageTypes'
    <2>1. CASE UNCHANGED <<mem_access, mem_events_on_gfn>>
      BY <2>1 DEF PageTypes
    <2>2. CASE /\ mem_access' = [mem_access EXCEPT ![EvGfn[e]] = {}]
               /\ mem_events_on_gfn' = [mem_events_on_gfn EXCEPT ![EvGfn[e]] = None]
      BY <1>1, <2>2 DEF PageTypes
    <2> QED BY <2>1, <2>2 DEF ClearOnGfn
  <1>3. freed' \in [Events -> 0 .. 2]
    BY DEF ClearOnGfn, RunFree
  <1> QED BY <1>2, <1>3

\* Swapping the events of a page keeps the types of tables and pages.
LEMMA SwapTypes ==
  ASSUME PageTypes, freed \in [Events -> 0 .. 2], NEW from \in Events, NEW to \in Events,
         NEW fr \in BOOLEAN, SwapOnGfn(from, to, fr)
  PROVE  PageTypes' /\ freed' \in [Events -> 0 .. 2]
  <1>1. EvGfn[to] \in Gfns /\ EvAccess[to] \in SUBSET Accesses
    BY EventAssumption
  <1>2. PageTypes'
    <2>1. CASE UNCHANGED <<mem_access, mem_events_on_gfn>>
      BY <2>1 DEF PageTypes
    <2>2. CASE /\ mem_access' = [mem_access EXCEPT ![EvGfn[to]] = EvAccess[to]]
               /\ mem_events_on_gfn' = [mem_events_on_gfn EXCEPT ![EvGfn[to]] = to]
      BY <1>1, <2>2 DEF PageTypes
    <2> QED BY <2>1, <2>2 DEF SwapOnGfn
  <1>3. freed' \in [Events -> 0 .. 2]
    BY DEF SwapOnGfn, RunFree
  <1> QED BY <1>2, <1>3

\* What the user calls keeps the types.
LEMMA TypeUser == ASSUME TypeOK, UserCall PROVE TypeOK'
  <1> USE DEF tables, pending, locals, traps, guest, pauses
  <1>0. PageTypes
    BY DEF TypeOK, PageTypes
  <1>1. ASSUME NEW e \in Events, RegisterEvent(e) PROVE TypeOK'
    <2>1. PageTypes'
      BY <1>0, <1>1, RegisterTypes DEF RegisterEvent
    <2> QED BY <1>1, <2>1 DEF RegisterEvent, PageTypes, TypeOK
  <1>2. ASSUME NEW e \in Events, NEW fr \in Routines, ClearEvent(e, fr) PROVE TypeOK'
    <2>0. fr \in BOOLEAN
      BY ArgsAssumption
    <2>1. CASE EventCallback
      BY <1>2, <2>1, ZenonT(60) DEF ClearEvent, DeferClear, TypeOK
    <2>2. CASE ~EventCallback
      <3>1. PageTypes' /\ freed' \in [Events -> 0 .. 2]
        BY <1>0, <1>2, <2>0, <2>2, ClearTypes DEF ClearEvent, TypeOK
      <3> QED BY <1>2, <2>2, <3>1 DEF ClearEvent, PageTypes, TypeOK
    <2> QED BY <2>1, <2>2
  <1>3. ASSUME NEW e1 \in Events, NEW e2 \in Events, NEW fr \in Routines,
               SwapEvents(e1, e2, fr)
        PROVE  TypeOK'
    <2>0. fr \in BOOLEAN
      BY ArgsAssumption
    <2>1. CASE EventCallback
      <3>1. [swap_from |-> e1, swap_to |-> e2, free_routine |-> fr] \in SwapWrapper
        BY <2>0 DEF SwapWrapper
      <3>2. swap_events' = Append(swap_events, [swap_from |-> e1, swap_to |-> e2,
                                                free_routine |-> fr])
        BY <1>3, <2>1 DEF SwapEvents
      <3>3. swap_events' \in Seq(SwapWrapper)
        BY <3>1, <3>2, AppendProperties DEF TypeOK
      <3> QED BY <1>3, <2>1, <3>3 DEF SwapEvents, TypeOK
    <2>2. CASE ~EventCallback
      <3>1. PageTypes' /\ freed' \in [Events -> 0 .. 2]
        BY <1>0, <1>3, <2>0, <2>2, SwapTypes DEF SwapEvents, TypeOK
      <3> QED BY <1>3, <2>2, <3>1 DEF SwapEvents, PageTypes, TypeOK
    <2> QED BY <2>1, <2>2
  <1>4. ASSUME NEW e \in Events, NEW v \in StepArgs, NEW n \in 1 .. MaxSteps,
               NEW cb \in BOOLEAN, StepEvent(e, v, n, cb)
        PROVE  TypeOK'
    <2>1. v \in VCpus
      BY <1>4 DEF StepEvent
    <2>2. step_events' \in Seq(Wrapper)
      <3>1. [event |-> e, vcpu_id |-> v, steps |-> n, cb |-> cb] \in Wrapper
        BY <2>1 DEF Wrapper
      <3> QED BY <1>4, <3>1 DEF StepEvent, AddWrapper, TypeOK
    <2>3. step_vcpus' \in [VCpus -> Int]
      BY <1>4, <2>1 DEF StepEvent, AddWrapper, TypeOK
    <2>4. ss_events' \subseteq VCpus /\ mtf' \in [VCpus -> BOOLEAN]
            /\ monitor_singlestep_on' \in BOOLEAN
      BY <1>4, <2>1 DEF StepEvent, TypeOK
    <2> QED BY <1>4, <2>2, <2>3, <2>4 DEF StepEvent, TypeOK
  <1>5. ASSUME NEW v \in StepArgs, StepEventFails(v) PROVE TypeOK'
    BY <1>5 DEF StepEventFails, TypeOK
  <1>6. CASE PauseVm
    BY <1>6 DEF PauseVm, TypeOK
  <1>7. CASE ResumeVm
    BY <1>7 DEF ResumeVm, TypeOK
  <1> QED BY <1>1, <1>2, <1>3, <1>4, <1>5, <1>6, <1>7 DEF UserCall

\* What the guest does keeps the types.
LEMMA TypeGuest == ASSUME TypeOK, Guest PROVE TypeOK'
  <1> USE DEF tables, pending, locals, traps, pauses
  <1>1. ASSUME NEW r \in Request, NEW v \in VCpus, ring' = Append(ring, r),
               r.reason = "mem_access" => r.gfn \in Gfns /\ r.access \in Accesses,
               blocked' = blocked \cup {v},
               UNCHANGED <<tables, pending, pc, locals, traps, responses, pauses>>
        PROVE  TypeOK'
    <2>1. ring' \in Seq(Request)
      BY <1>1, AppendProperties DEF TypeOK
    <2>2. \A i \in DOMAIN ring' : ring'[i].reason = "mem_access" =>
            ring'[i].gfn \in Gfns /\ ring'[i].access \in Accesses
      BY <1>1, <2>1, AppendProperties DEF TypeOK
    <2> QED BY <1>1, <2>1, <2>2 DEF TypeOK
  <1>2. ASSUME NEW v \in VCpus, NEW g \in Gfns, NEW a \in Accesses, GuestAccess(v, g, a)
        PROVE  TypeOK'
    <2> DEFINE r == [reason |-> "mem_access", vcpu_id |-> v, gfn |-> g, access |-> a]
    <2>1. r \in Request
      BY DEF Request
    <2> QED BY <1>1, <1>2, <2>1 DEF GuestAccess
  <1>3. ASSUME NEW v \in VCpus, GuestStep(v) PROVE TypeOK'
    <2> DEFINE r == [reason |-> "singlestep", vcpu_id |-> v, gfn |-> None, access |-> None]
    <2>1. r \in Request
      BY DEF Request
    <2> QED BY <1>1, <1>3, <2>1 DEF GuestStep
  <1> QED BY <1>2, <1>3 DEF Guest

\* The ring keeps its type when a request is taken off it, and the request has its own.
LEMMA TakeTypes ==
  ASSUME TypeOK, ring # <<>>, req' = Head(ring), ring' = Tail(ring)
  PROVE  /\ req' \in Request
         /\ ring' \in Seq(Request)
         /\ \A i \in DOMAIN ring' : ring'[i].reason = "mem_access" =>
              ring'[i].gfn \in Gfns /\ ring'[i].access \in Accesses
  <1>1. req' \in Request /\ ring' \in Seq(Request)
    BY HeadTailProperties DEF TypeOK
  <1>2. ASSUME NEW i \in DOMAIN ring' PROVE i + 1 \in DOMAIN ring /\ ring'[i] = ring[i + 1]
    BY <1>1, HeadTailProperties, LenProperties DEF TypeOK
  <1> QED BY <1>1, <1>2 DEF TypeOK

\* Taking a request, answering it and notifying Xen keep the types.
LEMMA TypeRequests ==
  ASSUME TypeOK, EventsListen \/ TakeMemRequest \/ TakeStepRequest \/ PutResponse \/ Notify
  PROVE  TypeOK'
  <1> USE DEF tables, pending, locals, traps, guest, pauses
  <1>1. CASE EventsListen
    BY <1>1 DEF EventsListen, TypeOK
  <1>2. CASE TakeMemRequest
    <2>1. /\ req' \in Request
          /\ ring' \in Seq(Request)
          /\ \A i \in DOMAIN ring' : ring'[i].reason = "mem_access" =>
               ring'[i].gfn \in Gfns /\ ring'[i].access \in Accesses
      BY <1>2, TakeTypes DEF TakeMemRequest
    <2> QED BY <1>2, <2>1 DEF TakeMemRequest, TypeOK
  <1>3. CASE TakeStepRequest
    <2>1. /\ req' \in Request
          /\ ring' \in Seq(Request)
          /\ \A i \in DOMAIN ring' : ring'[i].reason = "mem_access" =>
               ring'[i].gfn \in Gfns /\ ring'[i].access \in Accesses
      BY <1>3, TakeTypes DEF TakeStepRequest
    <2>2. Reverse(step_events) \in Seq(Wrapper) /\ <<>> \in Seq(Wrapper)
      BY ReverseType DEF TypeOK
    <2> QED BY <1>3, <2>1, <2>2 DEF TakeStepRequest, TypeOK
  <1>4. CASE PutResponse
    BY <1>4 DEF PutResponse, TypeOK, Request
  <1>5. CASE Notify
    BY <1>5 DEF Notify, Consume, TypeOK
  <1> QED BY <1>1, <1>2, <1>3, <1>4, <1>5

\* Taking the first wrapper off reg_list keeps the types of its counters.
LEMMA FinishTypes ==
  ASSUME TypeOK, reg_list # <<>>, FinishWrapper(Head(reg_list))
  PROVE  /\ reg_list' \in Seq(Wrapper)
         /\ step_vcpus' \in [VCpus -> Int]
         /\ clear_steps' \subseteq VCpus
  <1>1. Head(reg_list) \in Wrapper /\ Tail(reg_list) \in Seq(Wrapper)
    BY HeadTailProperties DEF TypeOK
  <1>2. Head(reg_list).vcpu_id \in VCpus
    BY <1>1 DEF Wrapper
  <1> QED BY <1>1, <1>2 DEF FinishWrapper, TypeOK

\* The pass of step_and_reg_events over its wrappers keeps the types.
LEMMA TypeSteps == ASSUME TypeOK, StepAndReg PROVE TypeOK'
  <1> USE DEF tables, pending, locals, traps, guest, pauses
  <1>1. CASE KeepWrapper
    <2> DEFINE w == Head(reg_list)
               kept == [w EXCEPT !.steps = StepsLeft(w)]
    <2>1. w \in Wrapper /\ Tail(reg_list) \in Seq(Wrapper)
      BY <1>1, HeadTailProperties DEF KeepWrapper, TypeOK
    <2>2. StepsLeft(w) \in 1 .. MaxSteps
      BY <1>1, <2>1, BoundAssumption DEF KeepWrapper, StepsLeft, Wrapper
    <2>3. kept \in Wrapper
      BY <2>1, <2>2 DEF Wrapper
    <2>4. <<kept>> \o remain \in Seq(Wrapper)
      BY <2>3, ConcatProperties DEF TypeOK
    <2>5. remain' = <<kept>> \o remain /\ reg_list' = Tail(reg_list)
      BY <1>1 DEF KeepWrapper
    <2> HIDE DEF w, kept
    <2>6. pc = "steps" /\ UNCHANGED <<tables, pending, pc, deferring, req, loop, traps,
                                      guest, pauses>>
      BY <1>1 DEF KeepWrapper
    <2> QED BY <2>1, <2>4, <2>5, <2>6 DEF TypeOK
  <1>2. CASE ReRegister
    <2>1. /\ reg_list' \in Seq(Wrapper)
          /\ step_vcpus' \in [VCpus -> Int]
          /\ clear_steps' \subseteq VCpus
      BY <1>2, FinishTypes DEF ReRegister
    <2>2. Head(reg_list).event \in Events
      <3>1. Head(reg_list) \in Wrapper
        BY <1>2, HeadTailProperties DEF ReRegister, TypeOK
      <3> QED BY <3>1 DEF Wrapper
    <2>3. PageTypes'
      BY <1>2, <2>2, RegisterTypes DEF ReRegister, PageTypes, TypeOK
    <2> QED BY <1>2, <2>1, <2>3 DEF ReRegister, PageTypes, TypeOK
  <1>3. CASE CallStepCallback
    BY <1>3 DEF CallStepCallback, TypeOK
  <1>4. CASE StepCallbackReturns
    <2>1. /\ reg_list' \in Seq(Wrapper)
          /\ step_vcpus' \in [VCpus -> Int]
          /\ clear_steps' \subseteq VCpus
      BY <1>4, FinishTypes DEF StepCallbackReturns, TypeOK
    <2> QED BY <1>4, <2>1 DEF StepCallbackReturns, TypeOK
  <1>5. CASE StepsDone
    <2>1. remain \o step_events \in Seq(Wrapper) /\ <<>> \in Seq(Wrapper)
      BY ConcatProperties DEF TypeOK
    <2> QED BY <1>5, <2>1 DEF StepsDone, TypeOK
  <1> QED BY <1>1, <1>2, <1>3, <1>4, <1>5 DEF StepAndReg

\* Applying the queued swaps and clears keeps the types.
LEMMA TypeDeferred == ASSUME TypeOK, Deferred PROVE TypeOK'
  <1> USE DEF tables, pending, locals, traps, guest, pauses
  <1>0. PageTypes
    BY DEF TypeOK, PageTypes
  <1>1. CASE FirstPassDone
    BY <1>1 DEF FirstPassDone, TypeOK
  <1>2. CASE PauseForDeferred
    BY <1>2 DEF PauseForDeferred, TypeOK
  <1>3. CASE SecondPassDone
    BY <1>3 DEF SecondPassDone, TypeOK
  <1>4. CASE ApplySwap
    <2> DEFINE w == Head(loop)
    <2>1. w \in SwapWrapper /\ Tail(loop) \in Seq(SwapWrapper)
      BY <1>4, HeadTailProperties DEF ApplySwap, TypeOK
    <2>2. PageTypes' /\ freed' \in [Events -> 0 .. 2]
      BY <1>0, <1>4, <2>1, SwapTypes DEF ApplySwap, TypeOK, SwapWrapper
    <2> QED BY <1>4, <2>1, <2>2 DEF ApplySwap, PageTypes, TypeOK
  <1>5. CASE SwapsDone
    BY <1>5 DEF SwapsDone, TypeOK
  <1>6. ASSUME NEW e \in Events, ApplyClear(e) PROVE TypeOK'
    <2>1. PageTypes' /\ freed' \in [Events -> 0 .. 2]
      <3>1. (clear_events[e] = "free") \in BOOLEAN
        OBVIOUS
      <3> QED BY <1>0, <1>6, <3>1, ClearTypes DEF ApplyClear, TypeOK
    <2>2. clear_events' \in [Events -> {"no", "null", "free"}]
      BY <1>6 DEF ApplyClear, TypeOK
    <2> QED BY <1>6, <2>1, <2>2 DEF ApplyClear, PageTypes, TypeOK
  <1>7. ASSUME NEW v \in VCpus, ApplyClearStep(v) PROVE TypeOK'
    BY <1>7 DEF ApplyClearStep, ShutdownSingleStep, TypeOK
  <1>8. CASE ClearsDone
    BY <1>8 DEF ClearsDone, TypeOK
  <1> QED BY <1>1, <1>2, <1>3, <1>4, <1>5, <1>6, <1>7, <1>8 DEF Deferred

\* Every step keeps the types.
LEMMA TypeNext == ASSUME TypeOK, [Next]_vars PROVE TypeOK'
  <1>1. CASE UNCHANGED vars
    BY <1>1 DEF vars, tables, pending, locals, traps, guest, pauses, TypeOK
  <1> QED BY <1>1, TypeUser, TypeGuest, TypeRequests, TypeSteps, TypeDeferred
          DEF Next, ListenStep

\* The variables have their types in every reachable state.
THEOREM TypeCorrect == Spec => []TypeOK
  BY TypeInit, TypeNext, PTL DEF Spec

-----------------------------------------------------------------------------
(* What Xen traps and what the table says. *)

\* The only steps that touch a page, and where the library's thread is when they do.
PageStep ==
  \/ UNCHANGED <<mem_access, mem_events_on_gfn>>
  \/ \E e \in Events : RegisterOnGfn(e)
  \/ /\ pc = "clears" \/ (pc = "idle" /\ "clear" \in IdleOps)
     /\ \E e \in Events, fr \in BOOLEAN : ClearOnGfn(e, fr)
  \/ /\ pc = "swaps" \/ (pc = "idle" /\ "swap" \in IdleOps)
     /\ \E from, to \in Events, fr \in BOOLEAN : SwapOnGfn(from, to, fr)

\* Every step does to the tables and pages what PageStep allows.
LEMMA NextPageStep == ASSUME TypeOK, [Next]_vars PROVE PageStep
  <1> USE DEF tables, pending, locals, traps, guest, pauses
  <1>1. CASE UNCHANGED vars
    BY <1>1 DEF vars, PageStep
  <1>2. ASSUME UserCall PROVE PageStep
    <2>1. ASSUME NEW e \in Events, RegisterEvent(e) PROVE PageStep
      BY <2>1 DEF RegisterEvent, PageStep
    <2>2. ASSUME NEW e \in Events, NEW fr \in Routines, ClearEvent(e, fr) PROVE PageStep
      <3>1. fr \in BOOLEAN
        BY ArgsAssumption
      <3>2. CASE EventCallback
        BY <2>2, <3>2 DEF ClearEvent, PageStep
      <3>3. CASE ~EventCallback
        <4>1. pc = "idle" /\ "clear" \in IdleOps
          BY <2>2, <3>3 DEF ClearEvent, UserRuns, EventCallback
        <4>2. ClearOnGfn(e, fr)
          BY <2>2, <3>3 DEF ClearEvent
        <4> QED BY <3>1, <4>1, <4>2 DEF PageStep
      <3> QED BY <3>2, <3>3
    <2>3. ASSUME NEW e1 \in Events, NEW e2 \in Events, NEW fr \in Routines,
                 SwapEvents(e1, e2, fr)
          PROVE  PageStep
      <3>1. fr \in BOOLEAN
        BY ArgsAssumption
      <3>2. CASE EventCallback
        BY <2>3, <3>2 DEF SwapEvents, PageStep
      <3>3. CASE ~EventCallback
        <4>1. pc = "idle" /\ "swap" \in IdleOps
          BY <2>3, <3>3 DEF SwapEvents, UserRuns, EventCallback
        <4>2. SwapOnGfn(e1, e2, fr)
          BY <2>3, <3>3 DEF SwapEvents
        <4> QED BY <3>1, <4>1, <4>2 DEF PageStep
      <3> QED BY <3>2, <3>3
    <2> QED BY <1>2, <2>1, <2>2, <2>3
            DEF UserCall, StepEvent, StepEventFails, PauseVm, ResumeVm, PageStep
  <1>3. ASSUME EventsListen \/ TakeMemRequest \/ TakeStepRequest \/ PutResponse \/ Notify
        PROVE  PageStep
    BY <1>3 DEF EventsListen, TakeMemRequest, TakeStepRequest, PutResponse, Notify, PageStep
  <1>4. ASSUME StepAndReg PROVE PageStep
    <2>1. CASE ReRegister
      <3>1. Head(reg_list) \in Wrapper
        BY <2>1, HeadTailProperties DEF ReRegister, TypeOK
      <3>2. Head(reg_list).event \in Events
        BY <3>1 DEF Wrapper
      <3> QED BY <2>1, <3>2 DEF ReRegister, PageStep
    <2> QED BY <1>4, <2>1 DEF StepAndReg, KeepWrapper, CallStepCallback,
                              StepCallbackReturns, StepsDone, PageStep
  <1>5. ASSUME Deferred PROVE PageStep
    <2>1. CASE ApplySwap
      <3>1. Head(loop) \in SwapWrapper
        BY <2>1, HeadTailProperties DEF ApplySwap, TypeOK
      <3>2. /\ Head(loop).swap_from \in Events /\ Head(loop).swap_to \in Events
            /\ Head(loop).free_routine \in BOOLEAN
        BY <3>1 DEF SwapWrapper
      <3> QED BY <2>1, <3>2 DEF ApplySwap, PageStep
    <2>2. ASSUME NEW e \in Events, ApplyClear(e) PROVE PageStep
      <3>1. (clear_events[e] = "free") \in BOOLEAN
        OBVIOUS
      <3> QED BY <2>2, <3>1 DEF ApplyClear, PageStep
    <2>3. ASSUME NEW v \in VCpus, ApplyClearStep(v) PROVE PageStep
      BY <2>3 DEF ApplyClearStep, PageStep
    <2> QED BY <1>5, <2>1, <2>2, <2>3 DEF Deferred, FirstPassDone, PauseForDeferred,
                                        SecondPassDone, SwapsDone, ClearsDone, PageStep
  <1>6. ASSUME Guest PROVE PageStep
    BY <1>6 DEF Guest, GuestAccess, GuestStep, PageStep
  <1> QED BY <1>1, <1>2, <1>3, <1>4, <1>5, <1>6 DEF Next, ListenStep

\* The three operations on a page keep Xen and the table in agreement, whether the
\* hypercall succeeds or not.
LEMMA PagesStep == ASSUME TypeOK, PagesMatchTable, PageStep PROVE PagesMatchTable'
  <1>1. CASE UNCHANGED <<mem_access, mem_events_on_gfn>>
    BY <1>1 DEF PagesMatchTable
  <1>2. ASSUME NEW e \in Events, RegisterOnGfn(e) PROVE PagesMatchTable'
    <2>1. EvGfn[e] \in Gfns /\ e # None
      BY EventAssumption
    <2>2. CASE UNCHANGED <<mem_access, mem_events_on_gfn>>
      BY <2>2 DEF PagesMatchTable
    <2>3. CASE /\ mem_access' = [mem_access EXCEPT ![EvGfn[e]] = EvAccess[e]]
               /\ mem_events_on_gfn' = [mem_events_on_gfn EXCEPT ![EvGfn[e]] = e]
      BY <2>1, <2>3 DEF PagesMatchTable, TypeOK
    <2> QED BY <1>2, <2>2, <2>3 DEF RegisterOnGfn
  <1>3. ASSUME NEW e \in Events, NEW fr \in BOOLEAN, ClearOnGfn(e, fr)
        PROVE  PagesMatchTable'
    <2>1. EvGfn[e] \in Gfns
      BY EventAssumption
    <2>2. CASE UNCHANGED <<mem_access, mem_events_on_gfn>>
      BY <2>2 DEF PagesMatchTable
    <2>3. CASE /\ mem_access' = [mem_access EXCEPT ![EvGfn[e]] = {}]
               /\ mem_events_on_gfn' = [mem_events_on_gfn EXCEPT ![EvGfn[e]] = None]
      BY <2>1, <2>3 DEF PagesMatchTable, TypeOK
    <2> QED BY <1>3, <2>2, <2>3 DEF ClearOnGfn
  <1>4. ASSUME NEW from \in Events, NEW to \in Events, NEW fr \in BOOLEAN,
               SwapOnGfn(from, to, fr)
        PROVE  PagesMatchTable'
    <2>1. EvGfn[to] \in Gfns /\ to # None
      BY EventAssumption
    <2>2. CASE UNCHANGED <<mem_access, mem_events_on_gfn>>
      BY <2>2 DEF PagesMatchTable
    <2>3. CASE /\ mem_access' = [mem_access EXCEPT ![EvGfn[to]] = EvAccess[to]]
               /\ mem_events_on_gfn' = [mem_events_on_gfn EXCEPT ![EvGfn[to]] = to]
      BY <2>1, <2>3 DEF PagesMatchTable, TypeOK
    <2> QED BY <1>4, <2>2, <2>3 DEF SwapOnGfn
  <1> QED BY <1>1, <1>2, <1>3, <1>4 DEF PageStep

\* What Xen traps on a page is what the event registered on it asked for, whatever the
\* user calls and whichever hypercalls fail.
THEOREM PagesAgree == Spec => []PagesMatchTable
  <1>1. Init => PagesMatchTable
    BY DEF Init, PagesMatchTable
  <1>2. TypeOK /\ PagesMatchTable /\ [Next]_vars => PagesMatchTable'
    BY NextPageStep, PagesStep
  <1> QED BY <1>1, <1>2, TypeCorrect, PTL DEF Spec

-----------------------------------------------------------------------------
(* No request loses its handler. *)

\* What the theorems below ask of the environment: callbacks do not resume the domain
\* behind the listener's back, and its pause takes effect.
PauseHolds == "resume" \notin CallbackOps /\ "pause" \notin MayFail

\* The user's code removes and replaces handlers from callbacks only.
ChangesDeferred == {"clear", "swap"} \cap IdleOps = {}

\* The deferred section: everything stands still once its second pass is over.
PauseInv ==
  /\ deferring => paused
  /\ pc \in {"idle", "pause", "notify"} => ~deferring
  /\ pc \in {"swaps", "clears"} => deferring /\ ring = <<>>

\* Only a vCPU with a single-step event installed single-steps.
SingleStepInv == \A v \in VCpus : mtf[v] => v \in ss_events

\* Every step keeps the listener's pause.
LEMMA PauseStep == ASSUME PauseHolds, TypeOK, PauseInv, [Next]_vars PROVE PauseInv'
  <1> USE DEF tables, pending, locals, traps, guest, pauses
  <1>1. CASE UNCHANGED vars
    BY <1>1 DEF vars, PauseInv
  <1>2. ASSUME UserCall PROVE PauseInv'
    <2>1. pc \in {"idle", "callback", "stepCallback"}
      BY <1>2 DEF UserCall, RegisterEvent, ClearEvent, SwapEvents, StepEvent,
                  StepEventFails, PauseVm, ResumeVm, UserRuns
    <2>2. UNCHANGED <<pc, deferring, ring>>
      BY <1>2 DEF UserCall, RegisterEvent, ClearEvent, SwapEvents, StepEvent,
                  StepEventFails, PauseVm, ResumeVm
    <2>3. CASE ResumeVm
      <3>1. pc = "idle"
        BY <2>3 DEF ResumeVm, UserRuns, PauseHolds
      <3> QED BY <2>2, <3>1 DEF PauseInv
    <2>4. CASE ~ResumeVm
      <3>1. paused' \in {paused, TRUE}
        BY <1>2, <2>4 DEF UserCall, RegisterEvent, ClearEvent, SwapEvents, StepEvent,
                          StepEventFails, PauseVm
      <3> QED BY <2>1, <2>2, <3>1 DEF PauseInv
    <2> QED BY <2>3, <2>4
  <1>3. ASSUME EventsListen \/ TakeMemRequest \/ TakeStepRequest \/ PutResponse \/ Notify
        PROVE  PauseInv'
    BY <1>3 DEF EventsListen, TakeMemRequest, TakeStepRequest, PutResponse, Notify, PauseInv
  <1>4. ASSUME StepAndReg PROVE PauseInv'
    BY <1>4 DEF StepAndReg, KeepWrapper, ReRegister, CallStepCallback,
                StepCallbackReturns, StepsDone, PauseInv
  <1>5. ASSUME Deferred PROVE PauseInv'
    <2>1. CASE PauseForDeferred
      <3>1. paused'
        BY <2>1 DEF PauseForDeferred, Result, PauseHolds
      <3> QED BY <2>1, <3>1 DEF PauseForDeferred, PauseInv
    <2>2. CASE ClearsDone
      BY <2>2 DEF ClearsDone, PauseInv
    <2>3. CASE FirstPassDone \/ SecondPassDone \/ SwapsDone
      BY <2>3 DEF FirstPassDone, SecondPassDone, SwapsDone, PauseInv
    <2>4. CASE ApplySwap
      BY <2>4 DEF ApplySwap, PauseInv
    <2>5. ASSUME NEW e \in Events, ApplyClear(e) PROVE PauseInv'
      BY <2>5 DEF ApplyClear, PauseInv
    <2>6. ASSUME NEW v \in VCpus, ApplyClearStep(v) PROVE PauseInv'
      BY <2>6 DEF ApplyClearStep, PauseInv
    <2> QED BY <1>5, <2>1, <2>2, <2>3, <2>4, <2>5, <2>6 DEF Deferred
  <1>6. ASSUME Guest PROVE PauseInv'
    <2>1. ~paused /\ UNCHANGED <<pc, deferring, paused>>
      BY <1>6 DEF Guest, GuestAccess, GuestStep, CanRun
    <2>2. pc \notin {"swaps", "clears"}
      BY <2>1 DEF PauseInv
    <2> QED BY <2>1, <2>2 DEF PauseInv
  <1> QED BY <1>1, <1>2, <1>3, <1>4, <1>5, <1>6 DEF Next, ListenStep

\* Every step keeps the trap flags within ss_events.
LEMMA SingleStepStep == ASSUME TypeOK, SingleStepInv, [Next]_vars PROVE SingleStepInv'
  <1> USE DEF tables, pending, locals, traps, guest, pauses
  <1>1. CASE UNCHANGED <<ss_events, mtf>>
    BY <1>1 DEF SingleStepInv
  <1>2. ASSUME NEW e \in Events, NEW v \in StepArgs, NEW n \in 1 .. MaxSteps,
               NEW cb \in BOOLEAN, StepEvent(e, v, n, cb)
        PROVE  SingleStepInv'
    BY <1>2 DEF StepEvent, SingleStepInv, TypeOK
  <1>3. ASSUME NEW v \in StepArgs, StepEventFails(v) PROVE SingleStepInv'
    BY <1>3 DEF StepEventFails, SingleStepInv
  <1>4. ASSUME NEW v \in VCpus, ApplyClearStep(v) PROVE SingleStepInv'
    <2>1. CASE UNCHANGED <<ss_events, mtf, monitor_singlestep_on>>
      BY <2>1 DEF SingleStepInv
    <2>2. CASE ss_events' = ss_events \ {v} /\ ShutdownSingleStep(v)
      BY <2>2 DEF ShutdownSingleStep, SingleStepInv
    <2>3. CASE ss_events' = ss_events \ {v} /\ mtf' = [mtf EXCEPT ![v] = FALSE]
      BY <2>3 DEF SingleStepInv, TypeOK
    <2> QED BY <1>4, <2>1, <2>2, <2>3 DEF ApplyClearStep
  <1>5. ASSUME StepAndReg PROVE UNCHANGED <<ss_events, mtf>>
    BY <1>5 DEF StepAndReg, KeepWrapper, ReRegister, CallStepCallback,
                StepCallbackReturns, StepsDone
  <1>6. ASSUME Guest \/ EventsListen \/ TakeMemRequest \/ TakeStepRequest \/ PutResponse
                 \/ Notify
        PROVE  UNCHANGED <<ss_events, mtf>>
    BY <1>6 DEF Guest, GuestAccess, GuestStep, EventsListen, TakeMemRequest,
                TakeStepRequest, PutResponse, Notify
  <1>7. ASSUME Deferred, ~ \E v \in VCpus : ApplyClearStep(v)
        PROVE  UNCHANGED <<ss_events, mtf>>
    BY <1>7 DEF Deferred, FirstPassDone, PauseForDeferred, SecondPassDone, ApplySwap,
                SwapsDone, ApplyClear, ClearsDone
  <1>8. ASSUME UserCall,
               ~ \E e \in Events, v \in StepArgs, n \in 1 .. MaxSteps, cb \in BOOLEAN :
                   StepEvent(e, v, n, cb),
               ~ \E v \in StepArgs : StepEventFails(v)
        PROVE  UNCHANGED <<ss_events, mtf>>
    BY <1>8 DEF UserCall, RegisterEvent, ClearEvent, SwapEvents, PauseVm, ResumeVm
  <1> QED BY <1>1, <1>2, <1>3, <1>4, <1>5, <1>6, <1>7, <1>8 DEF Next, ListenStep, vars


\* What a step may not take from a request on the ring.
HandlersKept ==
  /\ \A g \in Gfns :
       mem_events_on_gfn[g] # None => mem_events_on_gfn'[g] = mem_events_on_gfn[g]
  /\ ss_events \subseteq ss_events'

\* A page loses its event only between listens or with everything standing still.
LEMMA PageEventKept ==
  ASSUME TypeOK, PauseInv, PageStep,
         NEW g \in Gfns, mem_events_on_gfn[g] # None,
         mem_events_on_gfn'[g] # mem_events_on_gfn[g]
  PROVE  \/ pc \in {"swaps", "clears"} /\ paused /\ ring = <<>>
         \/ pc = "idle" /\ ~ChangesDeferred
  <1>1. ASSUME NEW e \in Events, RegisterOnGfn(e) PROVE FALSE
    <2>1. EvGfn[e] \in Gfns
      BY EventAssumption
    <2> QED BY <1>1, <2>1 DEF RegisterOnGfn, TypeOK
  <1>2. pc \in {"swaps", "clears"} \/ (pc = "idle" /\ ~ChangesDeferred)
    BY <1>1 DEF PageStep, ChangesDeferred
  <1> QED BY <1>2 DEF PauseInv

\* The ring is not touched while the deferred clears and swaps are applied.
LEMMA RingStill ==
  ASSUME PauseInv, pc \in {"swaps", "clears"}, [Next]_vars
  PROVE  ring = <<>> /\ ring' = <<>>
  <1> USE DEF tables, pending, locals, traps, guest, pauses
  <1>1. ring = <<>> /\ paused
    BY DEF PauseInv
  <1>2. ~Guest
    BY <1>1 DEF Guest, GuestAccess, GuestStep, CanRun
  <1>3. ~UserCall
    BY DEF UserCall, RegisterEvent, ClearEvent, SwapEvents, StepEvent, StepEventFails,
           PauseVm, ResumeVm, UserRuns
  <1>4. ASSUME Deferred PROVE ring' = ring
    BY <1>4 DEF Deferred, FirstPassDone, PauseForDeferred, SecondPassDone, ApplySwap,
                SwapsDone, ApplyClear, ApplyClearStep, ClearsDone
  <1>5. ~(EventsListen \/ TakeMemRequest \/ TakeStepRequest \/ PutResponse \/ Notify
            \/ StepAndReg)
    BY DEF EventsListen, TakeMemRequest, TakeStepRequest, PutResponse, Notify, StepAndReg,
           KeepWrapper, ReRegister, CallStepCallback, StepCallbackReturns, StepsDone
  <1> QED BY <1>1, <1>2, <1>3, <1>4, <1>5 DEF Next, ListenStep, vars

\* A vCPU leaves ss_events only when changes are applied.
LEMMA SingleStepKept ==
  ASSUME [Next]_vars, ~(ss_events \subseteq ss_events')
  PROVE  pc \in {"swaps", "clears"}
  <1> USE DEF tables, pending, locals, traps, guest, pauses
  <1>1. ASSUME UserCall PROVE ss_events \subseteq ss_events'
    BY <1>1 DEF UserCall, RegisterEvent, ClearEvent, SwapEvents, StepEvent,
                StepEventFails, PauseVm, ResumeVm
  <1>2. ASSUME StepAndReg PROVE ss_events' = ss_events
    BY <1>2 DEF StepAndReg, KeepWrapper, ReRegister, CallStepCallback,
                StepCallbackReturns, StepsDone
  <1>3. ASSUME Guest \/ EventsListen \/ TakeMemRequest \/ TakeStepRequest \/ PutResponse
                 \/ Notify
        PROVE  ss_events' = ss_events
    BY <1>3 DEF Guest, GuestAccess, GuestStep, EventsListen, TakeMemRequest,
                TakeStepRequest, PutResponse, Notify
  <1>4. ASSUME Deferred PROVE ss_events' = ss_events \/ pc = "clears"
    BY <1>4 DEF Deferred, FirstPassDone, PauseForDeferred, SecondPassDone, ApplySwap,
                SwapsDone, ApplyClear, ApplyClearStep, ClearsDone
  <1> QED BY <1>1, <1>2, <1>3, <1>4 DEF Next, ListenStep, vars

\* The ring only loses its head, or gains a request for which there is a handler.
LEMMA RingStep ==
  ASSUME TypeOK, PagesMatchTable, SingleStepInv, [Next]_vars
  PROVE  \/ ring' = ring
         \/ ring # <<>> /\ ring' = Tail(ring)
         \/ \E r \in Request :
              /\ ring' = Append(ring, r)
              /\ IF r.reason = "mem_access"
                   THEN r.gfn \in Gfns /\ Handles(mem_events_on_gfn[r.gfn], r.access)
                   ELSE r.vcpu_id \in ss_events
  <1> USE DEF tables, pending, locals, traps, guest, pauses
  <1>1. ASSUME NEW v \in VCpus, NEW g \in Gfns, NEW a \in Accesses, GuestAccess(v, g, a)
        PROVE  \E r \in Request :
                 /\ ring' = Append(ring, r)
                 /\ IF r.reason = "mem_access"
                      THEN r.gfn \in Gfns /\ Handles(mem_events_on_gfn[r.gfn], r.access)
                      ELSE r.vcpu_id \in ss_events
    <2> DEFINE r == [reason |-> "mem_access", vcpu_id |-> v, gfn |-> g, access |-> a]
    <2>1. r \in Request /\ ring' = Append(ring, r)
      BY <1>1 DEF GuestAccess, Request
    <2>2. Handles(mem_events_on_gfn[g], a)
      BY <1>1 DEF GuestAccess, PagesMatchTable, Handles
    <2> QED BY <2>1, <2>2
  <1>2. ASSUME NEW v \in VCpus, GuestStep(v)
        PROVE  \E r \in Request :
                 /\ ring' = Append(ring, r)
                 /\ IF r.reason = "mem_access"
                      THEN r.gfn \in Gfns /\ Handles(mem_events_on_gfn[r.gfn], r.access)
                      ELSE r.vcpu_id \in ss_events
    <2> DEFINE r == [reason |-> "singlestep", vcpu_id |-> v, gfn |-> None, access |-> None]
    <2>1. r \in Request /\ ring' = Append(ring, r)
      BY <1>2 DEF GuestStep, Request
    <2>2. v \in ss_events
      BY <1>2 DEF GuestStep, SingleStepInv
    <2> QED BY <2>1, <2>2
  <1>3. ASSUME UserCall PROVE ring' = ring
    BY <1>3 DEF UserCall, RegisterEvent, ClearEvent, SwapEvents, StepEvent,
                StepEventFails, PauseVm, ResumeVm
  <1>4. ASSUME StepAndReg PROVE ring' = ring
    BY <1>4 DEF StepAndReg, KeepWrapper, ReRegister, CallStepCallback,
                StepCallbackReturns, StepsDone
  <1>5. ASSUME Deferred PROVE ring' = ring
    BY <1>5 DEF Deferred, FirstPassDone, PauseForDeferred, SecondPassDone, ApplySwap,
                SwapsDone, ApplyClear, ApplyClearStep, ClearsDone
  <1>6. ASSUME EventsListen \/ TakeMemRequest \/ TakeStepRequest \/ PutResponse \/ Notify
        PROVE  ring' = ring \/ (ring # <<>> /\ ring' = Tail(ring))
    BY <1>6 DEF EventsListen, TakeMemRequest, TakeStepRequest, PutResponse, Notify
  <1> QED BY <1>1, <1>2, <1>3, <1>4, <1>5, <1>6 DEF Next, ListenStep, Guest, vars

\* Every step keeps the requests on the ring with a handler.
LEMMA PendingStep ==
  ASSUME ChangesDeferred, TypeOK, PagesMatchTable, PauseInv, SingleStepInv,
         PendingHandled, [Next]_vars
  PROVE  PendingHandled'
  <1> DEFINE Now(r)  == IF r.reason = "mem_access"
                          THEN r.gfn \in Gfns /\ Handles(mem_events_on_gfn[r.gfn], r.access)
                          ELSE r.vcpu_id \in ss_events
             Next1(r) == IF r.reason = "mem_access"
                          THEN Handles(mem_events_on_gfn'[r.gfn], r.access)
                          ELSE r.vcpu_id \in ss_events'
  <1>1. HandlersKept \/ pc \in {"swaps", "clears"}
    <2>1. ASSUME NEW g \in Gfns, mem_events_on_gfn[g] # None,
                 mem_events_on_gfn'[g] # mem_events_on_gfn[g]
          PROVE  pc \in {"swaps", "clears"}
      BY <2>1, NextPageStep, PageEventKept
    <2> QED BY <2>1, SingleStepKept DEF HandlersKept
  <1>2. CASE pc \in {"swaps", "clears"}
    BY <1>2, RingStill DEF PendingHandled
  <1>3. CASE HandlersKept
    <2>1. ASSUME NEW r, Now(r) PROVE Next1(r)
      BY <1>3, <2>1 DEF HandlersKept, Handles
    <2>2. \A i \in DOMAIN ring : Now(ring[i])
      BY DEF TypeOK, PendingHandled
    <2>3. \A i \in DOMAIN ring' : Next1(ring'[i])
      <3>1. CASE ring' = ring
        BY <2>1, <2>2, <3>1
      <3>2. CASE ring # <<>> /\ ring' = Tail(ring)
        <4>1. ASSUME NEW i \in DOMAIN ring'
              PROVE  i + 1 \in DOMAIN ring /\ ring'[i] = ring[i + 1]
          BY <3>2, HeadTailProperties, LenProperties DEF TypeOK
        <4> QED BY <2>1, <2>2, <4>1
      <3>3. ASSUME NEW r \in Request, ring' = Append(ring, r), Now(r)
            PROVE  \A i \in DOMAIN ring' : Next1(ring'[i])
        <4>1. ASSUME NEW i \in DOMAIN ring'
              PROVE  ring'[i] = r \/ (i \in DOMAIN ring /\ ring'[i] = ring[i])
          BY <3>3, AppendProperties DEF TypeOK
        <4> QED BY <2>1, <2>2, <3>3, <4>1
      <3> QED BY <3>1, <3>2, <3>3, RingStep
    <2> HIDE DEF Now
    <2> QED BY <2>3 DEF PendingHandled, Handles
  <1> QED BY <1>1, <1>2, <1>3

\* The invariants about the pause and the single-stepping, for every behaviour.
LEMMA PauseCorrect == ASSUME PauseHolds PROVE Spec => []PauseInv
  <1>1. Init => PauseInv
    BY DEF Init, PauseInv
  <1>2. TypeOK /\ PauseInv /\ [Next]_vars => PauseInv'
    BY PauseStep
  <1> QED BY <1>1, <1>2, TypeCorrect, PTL DEF Spec

\* A vCPU whose trap flag is set is one of ss_events, whatever fails.
LEMMA SingleStepCorrect == Spec => []SingleStepInv
  <1>1. Init => SingleStepInv
    BY DEF Init, SingleStepInv, VCpus
  <1>2. TypeOK /\ SingleStepInv /\ [Next]_vars => SingleStepInv'
    BY SingleStepStep
  <1> QED BY <1>1, <1>2, TypeCorrect, PTL DEF Spec

\* With clears and swaps left to callbacks, whatever hypercalls but the pause fail, every
\* request on the ring finds its handler however many vCPUs trapped before it.
THEOREM Delivered == ASSUME PauseHolds, ChangesDeferred PROVE Spec => []PendingHandled
  <1>1. Init => PendingHandled
    BY DEF Init, PendingHandled
  <1>2. TypeOK /\ PagesMatchTable /\ PauseInv /\ SingleStepInv /\ PendingHandled
          /\ [Next]_vars => PendingHandled'
    BY PendingStep
  <1> QED BY <1>1, <1>2, TypeCorrect, PagesAgree, PauseCorrect, SingleStepCorrect, PTL
          DEF Spec

\* A page loses its event between two listens, or with the domain paused and the ring
\* drained; never in the middle of one.
THEOREM ChangesAreQuiet == ASSUME PauseHolds PROVE Spec => QuietChange
  <1> DEFINE Quiet == \A g \in Gfns :
               mem_events_on_gfn[g] # None /\ mem_events_on_gfn'[g] # mem_events_on_gfn[g]
                 => pc = "idle" \/ (paused /\ ring = <<>>)
  <1>1. TypeOK /\ PauseInv /\ [Next]_vars => Quiet
    BY NextPageStep, PageEventKept
  <1>2. (TypeOK /\ PauseInv /\ [Next]_vars) => [Quiet]_vars
    BY <1>1
  <1> HIDE DEF Quiet
  <1>3. Spec => [][Quiet]_vars
    BY <1>2, TypeCorrect, PauseCorrect, PTL DEF Spec
  <1> QED BY <1>3 DEF Quiet, QuietChange
-----------------------------------------------------------------------------
(* Counting the elements of a sequence that are about one vCPU. *)

\* Sets between which there is a one-to-one correspondence have as many elements.
LEMMA SameCount ==
  ASSUME NEW S, NEW T, IsFiniteSet(S), NEW f \in [S -> T],
         \A a, b \in S : f[a] = f[b] => a = b,
         \A t \in T : \E s \in S : f[s] = t
  PROVE  IsFiniteSet(T) /\ Cardinality(T) = Cardinality(S)
  <1>1. f \in Bijection(S, T)
    BY Fun_IsBij
  <1> QED BY <1>1, FS_Bijection DEF ExistsBijection

\* The positions counted are finitely many.
LEMMA CountType ==
  ASSUME NEW S, NEW s \in Seq(S), NEW v
  PROVE  /\ IsFiniteSet({i \in DOMAIN s : s[i].vcpu_id = v})
         /\ WrappersOf(s, v) \in Nat
  <1>1. IsFiniteSet(1 .. Len(s)) /\ DOMAIN s = 1 .. Len(s)
    BY LenProperties, FS_Interval
  <1>2. {i \in DOMAIN s : s[i].vcpu_id = v} \in SUBSET (1 .. Len(s))
    BY <1>1
  <1>3. IsFiniteSet({i \in DOMAIN s : s[i].vcpu_id = v})
    BY <1>1, <1>2, FS_Subset
  <1> QED BY <1>3, FS_CardinalityType DEF WrappersOf

\* None are counted in the empty sequence.
LEMMA CountEmpty == \A v : WrappersOf(<<>>, v) = 0
  <1>1. ASSUME NEW v PROVE {i \in DOMAIN <<>> : <<>>[i].vcpu_id = v} = {}
    OBVIOUS
  <1> QED BY <1>1, FS_EmptySet DEF WrappersOf

\* A sequence of one element counts one for its vCPU.
LEMMA CountOne ==
  ASSUME NEW x, NEW v
  PROVE  WrappersOf(<<x>>, v) = IF x.vcpu_id = v THEN 1 ELSE 0
  <1>1. DOMAIN <<x>> = {1} /\ <<x>>[1] = x
    OBVIOUS
  <1>2. {i \in DOMAIN <<x>> : <<x>>[i].vcpu_id = v} = IF x.vcpu_id = v THEN {1} ELSE {}
    BY <1>1
  <1> QED BY <1>2, FS_EmptySet, FS_Singleton DEF WrappersOf

\* The counts of two sequences put together add up.
LEMMA CountConcat ==
  ASSUME NEW S, NEW s \in Seq(S), NEW t \in Seq(S), NEW v
  PROVE  WrappersOf(s \o t, v) = WrappersOf(s, v) + WrappersOf(t, v)
  <1> DEFINE m == Len(s)
             In(q) == {i \in DOMAIN q : q[i].vcpu_id = v}
             Late == {i \in DOMAIN (s \o t) : i > m /\ (s \o t)[i].vcpu_id = v}
             f == [i \in In(t) |-> i + m]
  <1>1. /\ m \in Nat /\ DOMAIN s = 1 .. m
        /\ Len(t) \in Nat /\ DOMAIN t = 1 .. Len(t)
        /\ DOMAIN (s \o t) = 1 .. (m + Len(t))
        /\ \A i \in 1 .. (m + Len(t)) : (s \o t)[i] = IF i <= m THEN s[i] ELSE t[i - m]
    BY LenProperties, ConcatProperties
  <1>2. In(s \o t) = In(s) \cup Late /\ In(s) \cap Late = {}
    BY <1>1
  <1>3. IsFiniteSet(In(s)) /\ IsFiniteSet(In(t))
    BY CountType
  <1>4. IsFiniteSet(Late) /\ Cardinality(Late) = Cardinality(In(t))
    <2>1. f \in [In(t) -> Late]
      BY <1>1
    <2>2. \A a, b \in In(t) : f[a] = f[b] => a = b
      BY <1>1
    <2>3. \A j \in Late : \E i \in In(t) : f[i] = j
      <3>1. ASSUME NEW j \in Late PROVE j - m \in In(t) /\ f[j - m] = j
        BY <1>1
      <3> QED BY <3>1
    <2> HIDE DEF f, In, Late
    <2> QED BY <1>3, <2>1, <2>2, <2>3, SameCount
  <1>5. Cardinality(In(s) \cup Late) = Cardinality(In(s)) + Cardinality(Late)
    <2> HIDE DEF In, Late
    <2>1. Cardinality(In(s)) \in Nat /\ Cardinality(Late) \in Nat
      BY <1>3, <1>4, FS_CardinalityType
    <2>2. Cardinality(In(s) \cap Late) = 0
      BY <1>2, FS_EmptySet
    <2>3. Cardinality(In(s) \cup Late)
            = Cardinality(In(s)) + Cardinality(Late) - Cardinality(In(s) \cap Late)
      BY <1>3, <1>4, FS_Union
    <2> QED BY <2>1, <2>2, <2>3
  <1> QED BY <1>2, <1>4, <1>5 DEF WrappersOf

\* The count of a sequence without its head.
LEMMA CountTail ==
  ASSUME NEW S, NEW s \in Seq(S), s # <<>>, NEW v
  PROVE  WrappersOf(s, v) = WrappersOf(Tail(s), v) + IF Head(s).vcpu_id = v THEN 1 ELSE 0
  <1>1. Head(s) \in S /\ Tail(s) \in Seq(S)
    BY HeadTailProperties
  <1>2. s = <<Head(s)>> \o Tail(s)
    OBVIOUS
  <1>3. WrappersOf(s, v) = WrappersOf(<<Head(s)>>, v) + WrappersOf(Tail(s), v)
    <2>1. <<Head(s)>> \in Seq(S)
      BY <1>1
    <2>2. WrappersOf(<<Head(s)>> \o Tail(s), v)
            = WrappersOf(<<Head(s)>>, v) + WrappersOf(Tail(s), v)
      BY <1>1, <2>1, CountConcat
    <2> QED BY <1>2, <2>2
  <1>4. WrappersOf(Tail(s), v) \in Nat
    BY <1>1, CountType
  <1> QED BY <1>3, <1>4, CountOne

\* The count of a sequence with one more element at its end.
LEMMA CountAppend ==
  ASSUME NEW S, NEW s \in Seq(S), NEW x \in S, NEW v
  PROVE  WrappersOf(Append(s, x), v) = WrappersOf(s, v) + IF x.vcpu_id = v THEN 1 ELSE 0
  <1>1. Append(s, x) = s \o <<x>> /\ <<x>> \in Seq(S)
    OBVIOUS
  <1>2. WrappersOf(s \o <<x>>, v) = WrappersOf(s, v) + WrappersOf(<<x>>, v)
    BY <1>1, CountConcat
  <1> QED BY <1>1, <1>2, CountOne

\* Turning a sequence round does not change the count.
LEMMA CountReverse ==
  ASSUME NEW S, NEW s \in Seq(S), NEW v
  PROVE  WrappersOf(Reverse(s), v) = WrappersOf(s, v)
  <1> DEFINE n == Len(s)
             In(q) == {i \in DOMAIN q : q[i].vcpu_id = v}
             f == [i \in In(s) |-> n - i + 1]
  <1>1. /\ n \in Nat /\ DOMAIN s = 1 .. n
        /\ DOMAIN Reverse(s) = 1 .. n
        /\ \A i \in 1 .. n : Reverse(s)[i] = s[n - i + 1]
    BY LenProperties DEF Reverse
  <1>2. f \in [In(s) -> In(Reverse(s))]
    <2>1. ASSUME NEW i \in In(s)
          PROVE  n - i + 1 \in 1 .. n /\ n - (n - i + 1) + 1 = i
      BY <1>1
    <2>2. \A i \in In(s) : n - i + 1 \in In(Reverse(s))
      BY <1>1, <2>1
    <2> QED BY <2>2
  <1>3. \A a, b \in In(s) : f[a] = f[b] => a = b
    BY <1>1
  <1>4. \A j \in In(Reverse(s)) : \E i \in In(s) : f[i] = j
    <2>1. ASSUME NEW j \in In(Reverse(s))
          PROVE  n - j + 1 \in In(s) /\ f[n - j + 1] = j
      BY <1>1
    <2> QED BY <2>1
  <1>5. IsFiniteSet(In(s))
    BY CountType
  <1>6. Cardinality(In(Reverse(s))) = Cardinality(In(s))
    <2> HIDE DEF f, In
    <2> QED BY <1>2, <1>3, <1>4, <1>5, SameCount
  <1> QED BY <1>6 DEF WrappersOf
-----------------------------------------------------------------------------
(* The wrappers of vmi_step_event and their counter. *)

\* Outside step_and_reg_events its two lists are empty.
ListsHeld == pc \notin {"steps", "stepCallback"} => reg_list = <<>> /\ remain = <<>>

\* What a step does with the wrappers: nothing; add one; take them all over; keep the
\* next, with fewer steps, or finish it; put back those kept.
ListStep ==
  \/ UNCHANGED <<step_events, step_vcpus, reg_list, remain>>
  \/ /\ \E e \in Events, v \in VCpus, n \in 1 .. MaxSteps, cb \in BOOLEAN :
          MayPass(e, FALSE) /\ AddWrapper(e, v, n, cb)
     /\ UNCHANGED <<reg_list, remain>>
  \/ /\ reg_list = <<>> /\ remain = <<>>
     /\ reg_list' = Reverse(step_events) /\ step_events' = <<>>
     /\ UNCHANGED <<step_vcpus, remain>>
  \/ /\ reg_list # <<>>
     /\ \E w \in Wrapper : /\ w.vcpu_id = Head(reg_list).vcpu_id
                           /\ w.event = Head(reg_list).event
                           /\ remain' = <<w>> \o remain
     /\ reg_list' = Tail(reg_list)
     /\ UNCHANGED <<step_events, step_vcpus>>
  \/ /\ reg_list # <<>> /\ FinishWrapper(Head(reg_list))
     /\ UNCHANGED <<step_events, remain>>
  \/ /\ reg_list = <<>>
     /\ step_events' = remain \o step_events /\ remain' = <<>>
     /\ UNCHANGED <<step_vcpus, reg_list>>

\* Every step does to the wrappers what ListStep allows.
LEMMA NextListStep ==
  ASSUME TypeOK, ListsHeld, [Next]_vars
  PROVE  ListStep /\ ListsHeld'
  <1> USE DEF tables, pending, locals, traps, guest, pauses
  <1> DEFINE Same == UNCHANGED <<step_events, step_vcpus, reg_list, remain>>
  <1>1. ASSUME UserCall PROVE ListStep /\ UNCHANGED <<pc, reg_list, remain>>
    <2>1. ASSUME NEW e \in Events, NEW v \in StepArgs, NEW n \in 1 .. MaxSteps,
                 NEW cb \in BOOLEAN, StepEvent(e, v, n, cb)
          PROVE  ListStep /\ UNCHANGED <<pc, reg_list, remain>>
      <3>1. v \in VCpus /\ MayPass(e, FALSE) /\ AddWrapper(e, v, n, cb)
              /\ UNCHANGED <<pc, reg_list, remain>>
        BY <2>1 DEF StepEvent
      <3> QED BY <3>1 DEF ListStep
    <2>2. ASSUME ~ \E e \in Events, v \in StepArgs, n \in 1 .. MaxSteps, cb \in BOOLEAN :
                     StepEvent(e, v, n, cb)
          PROVE  Same /\ UNCHANGED pc
      BY <1>1, <2>2 DEF UserCall, RegisterEvent, ClearEvent, SwapEvents, StepEventFails,
                        PauseVm, ResumeVm
    <2> QED BY <2>1, <2>2 DEF ListStep
  <1>2. ASSUME Guest \/ EventsListen \/ TakeMemRequest \/ PutResponse \/ Notify
        PROVE  Same /\ (UNCHANGED pc \/ pc \notin {"steps", "stepCallback"})
    BY <1>2 DEF Guest, GuestAccess, GuestStep, EventsListen, TakeMemRequest, PutResponse,
                Notify
  <1>3. ASSUME Deferred PROVE Same /\ pc \notin {"steps", "stepCallback"}
    BY <1>3 DEF Deferred, FirstPassDone, PauseForDeferred, SecondPassDone, ApplySwap,
                SwapsDone, ApplyClear, ApplyClearStep, ClearsDone
  <1>4. CASE TakeStepRequest
    <2>1. reg_list = <<>> /\ remain = <<>>
      BY <1>4 DEF TakeStepRequest, ListsHeld
    <2> QED BY <1>4, <2>1 DEF TakeStepRequest, ListStep, ListsHeld
  <1>5. CASE KeepWrapper
    <2> DEFINE w == Head(reg_list)
               kept == [w EXCEPT !.steps = StepsLeft(w)]
    <2>1. w \in Wrapper /\ reg_list # <<>>
      BY <1>5, HeadTailProperties DEF KeepWrapper, TypeOK
    <2>2. StepsLeft(w) \in 1 .. MaxSteps
      BY <1>5, <2>1, BoundAssumption DEF KeepWrapper, StepsLeft, Wrapper
    <2>3. kept \in Wrapper /\ kept.vcpu_id = w.vcpu_id /\ kept.event = w.event
      BY <2>1, <2>2 DEF Wrapper
    <2>4. /\ remain' = <<kept>> \o remain /\ reg_list' = Tail(reg_list)
          /\ UNCHANGED <<pc, step_events, step_vcpus>> /\ pc = "steps"
      BY <1>5 DEF KeepWrapper
    <2> HIDE DEF kept
    <2> QED BY <2>1, <2>3, <2>4 DEF ListStep, ListsHeld
  <1>6. CASE ReRegister
    BY <1>6 DEF ReRegister, ListStep, ListsHeld
  <1>7. CASE CallStepCallback
    BY <1>7 DEF CallStepCallback, ListStep, ListsHeld
  <1>8. CASE StepCallbackReturns
    BY <1>8 DEF StepCallbackReturns, ListStep, ListsHeld, TypeOK
  <1>9. CASE StepsDone
    BY <1>9 DEF StepsDone, ListStep, ListsHeld
  <1>10. CASE UNCHANGED vars
    BY <1>10 DEF vars, ListStep, ListsHeld
  <1> QED BY <1>1, <1>2, <1>3, <1>4, <1>5, <1>6, <1>7, <1>8, <1>9, <1>10
          DEF Next, ListenStep, StepAndReg, ListStep, ListsHeld

\* A step of the wrappers keeps their count in step_vcpus.
LEMMA CountStep ==
  ASSUME TypeOK, StepVcpusCount, ListStep
  PROVE  StepVcpusCount'
  <1> DEFINE One(w, v) == IF w.vcpu_id = v THEN 1 ELSE 0
  <1>1. /\ step_events \in Seq(Wrapper) /\ reg_list \in Seq(Wrapper)
        /\ remain \in Seq(Wrapper) /\ step_vcpus \in [VCpus -> Int]
    BY DEF TypeOK
  <1>2. \A v : /\ WrappersOf(step_events, v) \in Nat /\ WrappersOf(reg_list, v) \in Nat
               /\ WrappersOf(remain, v) \in Nat
    BY <1>1, CountType
  <1>3. \A v \in VCpus : step_vcpus[v] = WrappersOf(step_events, v)
                           + WrappersOf(reg_list, v) + WrappersOf(remain, v)
    BY DEF StepVcpusCount
  <1>4. ASSUME NEW w \in Wrapper, NEW s \in Seq(Wrapper), NEW v
        PROVE  WrappersOf(<<w>> \o s, v) = WrappersOf(s, v) + One(w, v)
    <2>1. <<w>> \in Seq(Wrapper)
      OBVIOUS
    <2>2. WrappersOf(<<w>> \o s, v) = WrappersOf(<<w>>, v) + WrappersOf(s, v)
      BY <2>1, CountConcat
    <2>3. WrappersOf(s, v) \in Nat
      BY CountType
    <2> QED BY <2>2, <2>3, CountOne
  <1>5. ASSUME reg_list # <<>>, NEW v
        PROVE  WrappersOf(reg_list, v)
                 = WrappersOf(Tail(reg_list), v) + One(Head(reg_list), v)
    BY <1>1, <1>5, CountTail
  <1>6. ASSUME reg_list # <<>>
        PROVE  /\ Head(reg_list) \in Wrapper /\ Tail(reg_list) \in Seq(Wrapper)
               /\ \A v : WrappersOf(Tail(reg_list), v) \in Nat
    BY <1>1, <1>6, HeadTailProperties, CountType
  <1>7. CASE UNCHANGED <<step_events, step_vcpus, reg_list, remain>>
    BY <1>3, <1>7 DEF StepVcpusCount
  <1>8. ASSUME NEW e \in Events, NEW u \in VCpus, NEW n \in 1 .. MaxSteps,
               NEW cb \in BOOLEAN, AddWrapper(e, u, n, cb), UNCHANGED <<reg_list, remain>>
        PROVE  StepVcpusCount'
    <2> DEFINE w == [event |-> e, vcpu_id |-> u, steps |-> n, cb |-> cb]
    <2>1. w \in Wrapper /\ w.vcpu_id = u
      BY DEF Wrapper
    <2>2. step_events' = <<w>> \o step_events /\ step_vcpus' = [step_vcpus EXCEPT ![u] = @ + 1]
      BY <1>8 DEF AddWrapper
    <2> HIDE DEF w
    <2>3. \A v \in VCpus : WrappersOf(step_events', v) = WrappersOf(step_events, v) + One(w, v)
      BY <1>1, <1>4, <2>1, <2>2
    <2>4. \A v \in VCpus : step_vcpus'[v] = step_vcpus[v] + One(w, v)
      BY <1>1, <2>1, <2>2
    <2> HIDE DEF One
    <2>5. \A v \in VCpus : One(w, v) \in Nat
      BY DEF One
    <2> QED BY <1>1, <1>2, <1>3, <1>8, <2>3, <2>4, <2>5, SMTT(30) DEF StepVcpusCount
  <1>9. CASE /\ reg_list = <<>> /\ remain = <<>>
             /\ reg_list' = Reverse(step_events) /\ step_events' = <<>>
             /\ UNCHANGED <<step_vcpus, remain>>
    <2>1. \A v : WrappersOf(reg_list', v) = WrappersOf(step_events, v)
      BY <1>1, <1>9, CountReverse
    <2> QED BY <1>2, <1>3, <1>9, <2>1, CountEmpty DEF StepVcpusCount
  <1>10. ASSUME reg_list # <<>>, NEW w \in Wrapper, w.vcpu_id = Head(reg_list).vcpu_id,
                remain' = <<w>> \o remain, reg_list' = Tail(reg_list),
                UNCHANGED <<step_events, step_vcpus>>
         PROVE  StepVcpusCount'
    <2>1. \A v : WrappersOf(remain', v) = WrappersOf(remain, v) + One(w, v)
      BY <1>1, <1>4, <1>10
    <2>2. \A v : WrappersOf(reg_list, v) = WrappersOf(reg_list', v) + One(w, v)
      BY <1>5, <1>10
    <2>3. \A v : WrappersOf(reg_list', v) \in Nat
      BY <1>6, <1>10
    <2> HIDE DEF One
    <2>4. \A v : One(w, v) \in Nat
      BY DEF One
    <2> QED BY <1>2, <1>3, <1>10, <2>1, <2>2, <2>3, <2>4, SMTT(30) DEF StepVcpusCount
  <1>11. CASE /\ reg_list # <<>> /\ FinishWrapper(Head(reg_list))
              /\ UNCHANGED <<step_events, remain>>
    <2> DEFINE w == Head(reg_list)
    <2>1. w \in Wrapper /\ w.vcpu_id \in VCpus
      BY <1>6, <1>11 DEF Wrapper
    <2>2. reg_list' = Tail(reg_list) /\ step_vcpus' = [step_vcpus EXCEPT ![w.vcpu_id] = @ - 1]
      BY <1>11 DEF FinishWrapper
    <2>3. \A v : WrappersOf(reg_list, v) = WrappersOf(reg_list', v) + One(w, v)
      BY <1>5, <1>11, <2>2
    <2>4. \A v : WrappersOf(reg_list', v) \in Nat
      BY <1>6, <1>11, <2>2
    <2> HIDE DEF w
    <2>5. \A v \in VCpus : step_vcpus'[v] = step_vcpus[v] - One(w, v)
      BY <1>1, <2>1, <2>2
    <2> HIDE DEF One
    <2>6. \A v : One(w, v) \in Nat
      BY DEF One
    <2> QED BY <1>1, <1>2, <1>3, <1>11, <2>3, <2>4, <2>5, <2>6, SMTT(30) DEF StepVcpusCount
  <1>12. CASE /\ reg_list = <<>>
              /\ step_events' = remain \o step_events /\ remain' = <<>>
              /\ UNCHANGED <<step_vcpus, reg_list>>
    <2>1. \A v : WrappersOf(step_events', v) = WrappersOf(remain, v) + WrappersOf(step_events, v)
      BY <1>1, <1>12, CountConcat
    <2> QED BY <1>2, <1>3, <1>12, <2>1, CountEmpty DEF StepVcpusCount
  <1> QED BY <1>7, <1>8, <1>9, <1>10, <1>11, <1>12 DEF ListStep

\* step_vcpus counts the wrappers of each vCPU wherever they are, whatever callbacks add
\* while step_and_reg_events has them in its locals, and whichever hypercalls fail.
THEOREM WrappersCounted == Spec => []StepVcpusCount
  <1>1. Init => ListsHeld /\ StepVcpusCount
    BY CountEmpty DEF Init, ListsHeld, StepVcpusCount
  <1>2. TypeOK /\ ListsHeld /\ StepVcpusCount /\ [Next]_vars
          => ListsHeld' /\ StepVcpusCount'
    BY NextListStep, CountStep
  <1> QED BY <1>1, <1>2, TypeCorrect, PTL DEF Spec
-----------------------------------------------------------------------------
(* Requests, responses and the vCPUs that wait for them. *)

\* A request is held only while it is being processed.
RequestHeld == pc \notin {"callback", "steps", "stepCallback", "respond"} => req = None

\* A vCPU traps, its request is taken off the ring and answered, Xen lets it go.
TrapStep(r) ==
  /\ r.vcpu_id \notin blocked
  /\ ring' = Append(ring, r)
  /\ blocked' = blocked \cup {r.vcpu_id}
  /\ UNCHANGED <<req, responses, mem_events_on_gfn, ss_events>>

TakeStep ==
  /\ ring # <<>> /\ req = None
  /\ req' = Head(ring) /\ ring' = Tail(ring)
  /\ UNCHANGED <<responses, blocked>>

AnswerStep ==
  /\ req \in Request
  /\ responses' = responses \cup {req.vcpu_id} /\ req' = None
  /\ UNCHANGED <<ring, blocked, mem_events_on_gfn, ss_events>>

ReleaseStep ==
  /\ blocked' = blocked \ responses /\ responses' = {}
  /\ UNCHANGED <<ring, req, mem_events_on_gfn, ss_events>>

RequestStep ==
  \/ UNCHANGED <<ring, req, responses, blocked>>
  \/ \E r \in Request : TrapStep(r)
  \/ TakeStep \/ AnswerStep \/ ReleaseStep

\* Every step does to the requests what RequestStep allows.
LEMMA NextRequestStep ==
  ASSUME TypeOK, RequestHeld, [Next]_vars
  PROVE  RequestStep /\ RequestHeld'
  <1> USE DEF tables, pending, locals, traps, guest, pauses
  <1> DEFINE Same == UNCHANGED <<ring, req, responses, blocked>>
             Busy == {"callback", "steps", "stepCallback", "respond"}
  <1>1. ASSUME NEW v \in VCpus, NEW g \in Gfns, NEW a \in Accesses, GuestAccess(v, g, a)
        PROVE  RequestStep /\ RequestHeld'
    <2> DEFINE r == [reason |-> "mem_access", vcpu_id |-> v, gfn |-> g, access |-> a]
    <2>1. r \in Request /\ r.vcpu_id = v
      BY DEF Request
    <2>2. /\ v \notin blocked /\ ring' = Append(ring, r) /\ blocked' = blocked \cup {v}
          /\ UNCHANGED <<pc, req, responses, mem_events_on_gfn, ss_events>>
      BY <1>1 DEF GuestAccess, CanRun
    <2> HIDE DEF r
    <2> QED BY <2>1, <2>2 DEF RequestStep, TrapStep, RequestHeld
  <1>2. ASSUME NEW v \in VCpus, GuestStep(v) PROVE RequestStep /\ RequestHeld'
    <2> DEFINE r == [reason |-> "singlestep", vcpu_id |-> v, gfn |-> None, access |-> None]
    <2>1. r \in Request /\ r.vcpu_id = v
      BY DEF Request
    <2>2. /\ v \notin blocked /\ ring' = Append(ring, r) /\ blocked' = blocked \cup {v}
          /\ UNCHANGED <<pc, req, responses, mem_events_on_gfn, ss_events>>
      BY <1>2 DEF GuestStep, CanRun
    <2> HIDE DEF r
    <2> QED BY <2>1, <2>2 DEF RequestStep, TrapStep, RequestHeld
  <1>3. ASSUME UserCall PROVE Same /\ UNCHANGED pc
    BY <1>3 DEF UserCall, RegisterEvent, ClearEvent, SwapEvents, StepEvent,
                StepEventFails, PauseVm, ResumeVm
  <1>4. ASSUME StepAndReg PROVE Same /\ pc' \in Busy
    BY <1>4 DEF StepAndReg, KeepWrapper, ReRegister, CallStepCallback,
                StepCallbackReturns, StepsDone
  <1>5. ASSUME Deferred \/ EventsListen PROVE Same /\ pc \notin Busy
    BY <1>5 DEF Deferred, FirstPassDone, PauseForDeferred, SecondPassDone, ApplySwap,
                SwapsDone, ApplyClear, ApplyClearStep, ClearsDone, EventsListen
  <1>6. CASE TakeMemRequest
    BY <1>6 DEF TakeMemRequest, RequestStep, TakeStep, RequestHeld
  <1>7. CASE TakeStepRequest
    BY <1>7 DEF TakeStepRequest, RequestStep, TakeStep, RequestHeld
  <1>8. CASE PutResponse
    BY <1>8 DEF PutResponse, RequestStep, AnswerStep, RequestHeld, TypeOK
  <1>9. CASE Notify
    BY <1>9 DEF Notify, Consume, RequestStep, ReleaseStep, RequestHeld
  <1>10. CASE UNCHANGED vars
    BY <1>10 DEF vars, RequestStep, RequestHeld
  <1> QED BY <1>1, <1>2, <1>3, <1>4, <1>5, <1>6, <1>7, <1>8, <1>9, <1>10
          DEF Next, ListenStep, Guest, RequestStep, RequestHeld

\* A step of the requests keeps one request or answer for each waiting vCPU.
LEMMA AnswerCountStep ==
  ASSUME TypeOK, OneAnswer, RequestStep
  PROVE  OneAnswer'
  <1> DEFINE One(r, v) == IF r.vcpu_id = v THEN 1 ELSE 0
             Held(v) == IF req # None /\ req.vcpu_id = v THEN 1 ELSE 0
             In(S, v) == IF v \in S THEN 1 ELSE 0
  <1>1. ring \in Seq(Request) /\ \A v : WrappersOf(ring, v) \in Nat
    BY CountType DEF TypeOK
  <1>2. \A v \in VCpus : WrappersOf(ring, v) + Held(v) + In(responses, v) = In(blocked, v)
    BY DEF OneAnswer
  <1>3. SUFFICES ASSUME NEW v \in VCpus
                 PROVE  WrappersOf(ring', v) + Held(v)' + In(responses', v) = In(blocked', v)
    BY DEF OneAnswer
  <1>4. CASE UNCHANGED <<ring, req, responses, blocked>>
    BY <1>2, <1>4
  <1>5. ASSUME NEW r \in Request, TrapStep(r)
        PROVE  WrappersOf(ring', v) + Held(v)' + In(responses', v) = In(blocked', v)
    <2>1. WrappersOf(ring', v) = WrappersOf(ring, v) + One(r, v)
      BY <1>1, <1>5, CountAppend DEF TrapStep
    <2>2. In(blocked', v) = In(blocked, v) + One(r, v)
      BY <1>5 DEF TrapStep
    <2>3. Held(v)' = Held(v) /\ In(responses', v) = In(responses, v)
      BY <1>5 DEF TrapStep
    <2>4. One(r, v) \in Nat /\ Held(v) \in Nat /\ In(responses, v) \in Nat /\ In(blocked, v) \in Nat
      OBVIOUS
    <2> HIDE DEF One, Held, In
    <2> QED BY <1>1, <1>2, <2>1, <2>2, <2>3, <2>4
  <1>6. CASE TakeStep
    <2>1. Head(ring) \in Request
      BY <1>1, <1>6, HeadTailProperties DEF TakeStep
    <2>2. WrappersOf(ring, v) = WrappersOf(ring', v) + One(Head(ring), v)
      BY <1>1, <1>6, CountTail DEF TakeStep
    <2>3. Held(v) = 0 /\ Held(v)' = One(Head(ring), v)
      BY <1>6, <2>1, NoneAssumption DEF TakeStep
    <2>4. In(responses', v) = In(responses, v) /\ In(blocked', v) = In(blocked, v)
      BY <1>6 DEF TakeStep
    <2>5. WrappersOf(ring', v) \in Nat
      BY <1>1, <1>6, HeadTailProperties, CountType DEF TakeStep
    <2>6. One(Head(ring), v) \in Nat /\ In(responses, v) \in Nat /\ In(blocked, v) \in Nat
      OBVIOUS
    <2> HIDE DEF One, Held, In
    <2> QED BY <1>1, <1>2, <2>2, <2>3, <2>4, <2>5, <2>6
  <1>7. CASE AnswerStep
    <2>1. Held(v) = One(req, v) /\ Held(v)' = 0
      BY <1>7, NoneAssumption DEF AnswerStep
    <2>2. ASSUME req.vcpu_id = v PROVE v \notin responses
      <3>1. Held(v) = 1
        BY <2>1, <2>2
      <3> QED BY <1>1, <1>2, <3>1
    <2>3. In(responses', v) = In(responses, v) + One(req, v)
      BY <1>7, <2>2 DEF AnswerStep
    <2>4. WrappersOf(ring', v) = WrappersOf(ring, v) /\ In(blocked', v) = In(blocked, v)
      BY <1>7 DEF AnswerStep
    <2>5. One(req, v) \in Nat /\ In(responses, v) \in Nat /\ In(blocked, v) \in Nat
      OBVIOUS
    <2> HIDE DEF One, Held, In
    <2> QED BY <1>1, <1>2, <2>1, <2>3, <2>4, <2>5
  <1>8. CASE ReleaseStep
    <2>1. In(blocked', v) = In(blocked, v) - In(responses, v)
      BY <1>1, <1>2, <1>8 DEF ReleaseStep
    <2>2. In(responses', v) = 0 /\ WrappersOf(ring', v) = WrappersOf(ring, v) /\ Held(v)' = Held(v)
      BY <1>8 DEF ReleaseStep
    <2>3. Held(v) \in Nat /\ In(responses, v) \in Nat /\ In(blocked, v) \in Nat
      OBVIOUS
    <2> HIDE DEF Held, In
    <2> QED BY <1>1, <1>2, <2>1, <2>2, <2>3
  <1> QED BY <1>4, <1>5, <1>6, <1>7, <1>8 DEF RequestStep

\* A blocked vCPU is owed exactly one response and a running one none, whatever fails and
\* whichever callbacks ran in between.
THEOREM AnsweredOnce == Spec => []OneAnswer
  <1>1. Init => RequestHeld /\ OneAnswer
    BY CountEmpty DEF Init, RequestHeld, OneAnswer
  <1>2. TypeOK /\ RequestHeld /\ OneAnswer /\ [Next]_vars => RequestHeld' /\ OneAnswer'
    BY NextRequestStep, AnswerCountStep
  <1> QED BY <1>1, <1>2, TypeCorrect, PTL DEF Spec
-----------------------------------------------------------------------------
(* Events whose free routine has run. *)

\* What the next theorem asks of the user: events are not swapped from callbacks, where
\* the swap would be queued, and stay queued.
NoSwapQueued == "swap" \notin CallbackOps

NoSwaps == swap_events = <<>> /\ loop = <<>>

\* An event is registered on its own page only.
OwnPages == \A g \in Gfns :
              mem_events_on_gfn[g] # None => EvGfn[mem_events_on_gfn[g]] = g

\* Between listens no clear waits.
ClearsWaiting == pc \in {"idle", "notify"} => ~ClearsQueued

\* What will be freed is not being stepped.
FreeUnstepped == \A e \in Events : clear_events[e] = "free" => e \notin Stepped

BooksInv == /\ NoSwaps /\ ListsHeld /\ OwnPages /\ ClearsWaiting /\ FreeUnstepped
            /\ NoDangling /\ FreedOnce

\* The elements of two sequences put together are those of both.
LEMMA ConcatElements ==
  ASSUME NEW S, NEW s \in Seq(S), NEW t \in Seq(S)
  PROVE  ToSet(s \o t) = ToSet(s) \cup ToSet(t)
  <1>1. /\ Len(s) \in Nat /\ DOMAIN s = 1 .. Len(s)
        /\ Len(t) \in Nat /\ DOMAIN t = 1 .. Len(t)
    BY LenProperties
  <1>2. /\ DOMAIN (s \o t) = 1 .. (Len(s) + Len(t))
        /\ \A i \in 1 .. (Len(s) + Len(t)) :
             (s \o t)[i] = IF i <= Len(s) THEN s[i] ELSE t[i - Len(s)]
    BY <1>1, ConcatProperties, LenProperties
  <1>3. ASSUME NEW i \in DOMAIN s PROVE s[i] \in ToSet(s \o t)
    <2>1. i \in DOMAIN (s \o t) /\ (s \o t)[i] = s[i]
      BY <1>1, <1>2
    <2> QED BY <2>1 DEF ToSet
  <1>4. ASSUME NEW i \in DOMAIN t PROVE t[i] \in ToSet(s \o t)
    <2>1. i + Len(s) \in DOMAIN (s \o t) /\ (s \o t)[i + Len(s)] = t[i]
      BY <1>1, <1>2
    <2> QED BY <2>1 DEF ToSet
  <1>5. ASSUME NEW i \in DOMAIN (s \o t) PROVE (s \o t)[i] \in ToSet(s) \cup ToSet(t)
    <2>1. \/ i \in DOMAIN s /\ (s \o t)[i] = s[i]
          \/ i - Len(s) \in DOMAIN t /\ (s \o t)[i] = t[i - Len(s)]
      BY <1>1, <1>2
    <2> QED BY <2>1 DEF ToSet
  <1>6. ToSet(s \o t) \subseteq ToSet(s) \cup ToSet(t)
    BY <1>5 DEF ToSet
  <1>7. ToSet(s) \subseteq ToSet(s \o t) /\ ToSet(t) \subseteq ToSet(s \o t)
    <2> HIDE DEF ToSet
    <2>1. ToSet(s) = {s[i] : i \in DOMAIN s} /\ ToSet(t) = {t[i] : i \in DOMAIN t}
      BY DEF ToSet
    <2> QED BY <1>3, <1>4, <2>1
  <1> QED BY <1>6, <1>7

\* Turning a sequence round keeps its elements.
LEMMA ReverseElements ==
  ASSUME NEW S, NEW s \in Seq(S)
  PROVE  ToSet(Reverse(s)) = ToSet(s)
  <1>1. /\ Len(s) \in Nat /\ DOMAIN s = 1 .. Len(s)
        /\ DOMAIN Reverse(s) = 1 .. Len(s)
        /\ \A i \in 1 .. Len(s) : Reverse(s)[i] = s[Len(s) - i + 1]
    BY LenProperties DEF Reverse
  <1>2. ASSUME NEW i \in 1 .. Len(s)
        PROVE  /\ Len(s) - i + 1 \in 1 .. Len(s)
               /\ Reverse(s)[Len(s) - i + 1] = s[i] /\ Reverse(s)[i] = s[Len(s) - i + 1]
    BY <1>1
  <1> QED BY <1>1, <1>2 DEF ToSet

\* A sequence has its head and the elements of its tail.
LEMMA TailElements ==
  ASSUME NEW S, NEW s \in Seq(S), s # <<>>
  PROVE  ToSet(s) = {Head(s)} \cup ToSet(Tail(s))
  <1>1. Head(s) \in S /\ Tail(s) \in Seq(S) /\ <<Head(s)>> \in Seq(S)
    BY HeadTailProperties
  <1>2. s = <<Head(s)>> \o Tail(s)
    OBVIOUS
  <1>3. ToSet(<<Head(s)>> \o Tail(s)) = ToSet(<<Head(s)>>) \cup ToSet(Tail(s))
    BY <1>1, ConcatElements, ZenonT(60)
  <1>4. ToSet(<<Head(s)>>) = {Head(s)}
    BY DEF ToSet
  <1> QED BY <1>2, <1>3, <1>4

\* The events being stepped are those of before, or one more that the user passed.
LEMMA SteppedStep ==
  ASSUME TypeOK, ListStep
  PROVE  \/ Stepped' \subseteq Stepped
         \/ \E e \in Events : MayPass(e, FALSE) /\ Stepped' \subseteq Stepped \cup {e}
  <1>1. /\ step_events \in Seq(Wrapper) /\ reg_list \in Seq(Wrapper)
        /\ remain \in Seq(Wrapper)
    BY DEF TypeOK
  <1> DEFINE Ev(s) == {w.event : w \in ToSet(s)}
  <1>2. Stepped = Ev(step_events) \cup Ev(reg_list) \cup Ev(remain)
    BY DEF Stepped
  <1>3. Stepped' = Ev(step_events') \cup Ev(reg_list') \cup Ev(remain')
    BY DEF Stepped
  <1>4. ASSUME NEW w \in Wrapper, NEW s \in Seq(Wrapper)
        PROVE  Ev(<<w>> \o s) = Ev(s) \cup {w.event}
    <2>1. <<w>> \in Seq(Wrapper)
      OBVIOUS
    <2>2. ToSet(<<w>> \o s) = ToSet(<<w>>) \cup ToSet(s)
      BY <2>1, ConcatElements, ZenonT(60)
    <2>3. ToSet(<<w>>) = {w}
      BY DEF ToSet
    <2> QED BY <2>2, <2>3
  <1>5. ASSUME reg_list # <<>>
        PROVE  Ev(reg_list) = {Head(reg_list).event} \cup Ev(Tail(reg_list))
    <2>1. ToSet(reg_list) = {Head(reg_list)} \cup ToSet(Tail(reg_list))
      BY <1>1, <1>5, TailElements
    <2> QED BY <2>1
  <1>6. Ev(<<>>) = {} /\ Ev(Reverse(step_events)) = Ev(step_events)
          /\ Ev(remain \o step_events) = Ev(remain) \cup Ev(step_events)
    <2>1. ToSet(Reverse(step_events)) = ToSet(step_events)
      BY <1>1, ReverseElements
    <2>2. ToSet(remain \o step_events) = ToSet(remain) \cup ToSet(step_events)
      BY <1>1, ConcatElements
    <2>3. ToSet(<<>>) = {}
      BY DEF ToSet
    <2> QED BY <2>1, <2>2, <2>3
  <1>7. ASSUME NEW e \in Events, NEW v \in VCpus, NEW n \in 1 .. MaxSteps,
               NEW cb \in BOOLEAN, AddWrapper(e, v, n, cb), UNCHANGED <<reg_list, remain>>
        PROVE  Stepped' \subseteq Stepped \cup {e}
    <2> DEFINE w == [event |-> e, vcpu_id |-> v, steps |-> n, cb |-> cb]
    <2>1. w \in Wrapper /\ w.event = e /\ step_events' = <<w>> \o step_events
      BY <1>7 DEF Wrapper, AddWrapper
    <2>2. Ev(step_events') = Ev(step_events) \cup {e}
      <3> HIDE DEF w, Ev
      <3> QED BY <1>1, <1>4, <2>1
    <2> HIDE DEF w, Ev
    <2> QED BY <1>2, <1>3, <1>7, <2>2
  <1> HIDE DEF Ev
  <1>8. CASE UNCHANGED <<step_events, step_vcpus, reg_list, remain>>
    BY <1>2, <1>3, <1>8
  <1>9. CASE /\ reg_list = <<>> /\ remain = <<>>
             /\ reg_list' = Reverse(step_events) /\ step_events' = <<>>
             /\ UNCHANGED <<step_vcpus, remain>>
    BY <1>2, <1>3, <1>6, <1>9
  <1>10. ASSUME reg_list # <<>>, NEW w \in Wrapper, w.event = Head(reg_list).event,
                remain' = <<w>> \o remain, reg_list' = Tail(reg_list), UNCHANGED step_events
         PROVE  Stepped' \subseteq Stepped
    <2>1. Ev(remain') = Ev(remain) \cup {w.event}
      BY <1>1, <1>4, <1>10
    <2> QED BY <1>2, <1>3, <1>5, <1>10, <2>1
  <1>11. CASE /\ reg_list # <<>> /\ FinishWrapper(Head(reg_list))
              /\ UNCHANGED <<step_events, remain>>
    BY <1>2, <1>3, <1>5, <1>11 DEF FinishWrapper
  <1>12. CASE /\ reg_list = <<>>
              /\ step_events' = remain \o step_events /\ remain' = <<>>
              /\ UNCHANGED <<step_vcpus, reg_list>>
    BY <1>2, <1>3, <1>6, <1>12
  <1>13. ASSUME /\ \E e \in Events, v \in VCpus, n \in 1 .. MaxSteps, cb \in BOOLEAN :
                     MayPass(e, FALSE) /\ AddWrapper(e, v, n, cb)
                /\ UNCHANGED <<reg_list, remain>>
         PROVE  \E e \in Events : MayPass(e, FALSE) /\ Stepped' \subseteq Stepped \cup {e}
    <2>1. PICK e \in Events, v \in VCpus, n \in 1 .. MaxSteps, cb \in BOOLEAN :
                 MayPass(e, FALSE) /\ AddWrapper(e, v, n, cb)
      BY <1>13
    <2>2. Stepped' \subseteq Stepped \cup {e}
      BY <1>7, <1>13, <2>1
    <2> QED BY <2>1, <2>2
  <1> QED BY <1>8, <1>9, <1>10, <1>11, <1>12, <1>13 DEF ListStep
\* What a step does to one event's registration, deferred clear and free routine.
UntouchedStep ==
  UNCHANGED <<mem_events_on_gfn, clear_events, freed>> /\ Stepped' \subseteq Stepped

PassStep(e) ==
  /\ freed[e] = 0 /\ clear_events[e] # "free"
  /\ Stepped' \subseteq Stepped \cup {e}
  /\ UNCHANGED <<mem_events_on_gfn, clear_events, freed>>

RegisterStep(e) ==
  /\ freed[e] = 0 /\ RegisterOnGfn(e)
  /\ Stepped' \subseteq Stepped
  /\ UNCHANGED <<clear_events, freed>>

DeferStep(e, fr) ==
  /\ freed[e] = 0 /\ (fr => e \notin Stepped)
  /\ clear_events' = [clear_events EXCEPT ![e] = IF fr THEN "free" ELSE "null"]
  /\ Stepped' \subseteq Stepped
  /\ UNCHANGED <<mem_events_on_gfn, freed>>

ClearStep(e, fr) ==
  /\ freed[e] = 0 /\ (fr => e \notin Stepped)
  /\ ClearOnGfn(e, fr)
  /\ clear_events' = [clear_events EXCEPT ![e] = "no"]
  /\ Stepped' \subseteq Stepped

SwapStep(from, to, fr) ==
  /\ from # to /\ EvGfn[from] = EvGfn[to]
  /\ freed[from] = 0 /\ freed[to] = 0 /\ clear_events[from] = "no"
  /\ fr => from \notin Stepped
  /\ SwapOnGfn(from, to, fr)
  /\ Stepped' \subseteq Stepped
  /\ UNCHANGED clear_events

BookStep ==
  \/ UntouchedStep
  \/ \E e \in Events : PassStep(e) \/ RegisterStep(e)
  \/ \E e \in Events, fr \in BOOLEAN : DeferStep(e, fr) \/ ClearStep(e, fr)
  \/ \E from, to \in Events, fr \in BOOLEAN : SwapStep(from, to, fr)

\* Every step does to the books of events what BookStep allows.
LEMMA NextBookStep ==
  ASSUME NoSwapQueued, TypeOK, BooksInv, [Next]_vars
  PROVE  BookStep
  <1> USE DEF tables, pending, locals, traps, guest, pauses
  <1> DEFINE Lists == UNCHANGED <<step_events, reg_list, remain>>
  <1>1. Lists => Stepped' = Stepped
    BY DEF Stepped
  <1>0. \A e \in Events : freed[e] \in 0 .. 2 /\ (~(freed[e] > 0) => freed[e] = 0)
    <2>1. \A e \in Events : freed[e] \in 0 .. 2
      BY DEF TypeOK
    <2> QED BY <2>1
  <1>2. ASSUME NEW e \in Events, NEW fr \in BOOLEAN, MayPass(e, fr)
        PROVE  freed[e] = 0 /\ clear_events[e] # "free" /\ (fr => e \notin Stepped)
    <2>1. ~(freed[e] > 0) /\ clear_events[e] # "free" /\ (fr => e \notin Stepped)
      BY <1>2 DEF MayPass, GivenAway
    <2> QED BY <1>0, <2>1
  <1>3. ASSUME NEW e \in Events, RegisterEvent(e) PROVE BookStep
    <2>1. freed[e] = 0
      BY <1>2, <1>3 DEF RegisterEvent
    <2>2. Lists /\ RegisterOnGfn(e) /\ UNCHANGED <<clear_events, freed>>
      BY <1>3 DEF RegisterEvent
    <2> QED BY <1>1, <2>1, <2>2 DEF BookStep, RegisterStep
  <1>4. ASSUME NEW e \in Events, NEW fr \in Routines, ClearEvent(e, fr) PROVE BookStep
    <2>1. fr \in BOOLEAN
      BY ArgsAssumption
    <2>2. freed[e] = 0 /\ (fr => e \notin Stepped) /\ Lists
      BY <1>2, <1>4, <2>1 DEF ClearEvent
    <2>3. CASE EventCallback
      BY <1>1, <1>4, <2>1, <2>2, <2>3 DEF ClearEvent, DeferClear, BookStep, DeferStep
    <2>4. CASE ~EventCallback
      <3>1. pc = "idle"
        BY <1>4, <2>4 DEF ClearEvent, UserRuns, EventCallback
      <3>2. clear_events[e] = "no"
        BY <3>1 DEF BooksInv, ClearsWaiting, ClearsQueued
      <3>3. clear_events' = [clear_events EXCEPT ![e] = "no"]
        BY <1>4, <2>4, <3>2 DEF ClearEvent, TypeOK
      <3>4. ClearOnGfn(e, fr)
        BY <1>4, <2>4 DEF ClearEvent
      <3> QED BY <1>1, <2>1, <2>2, <3>3, <3>4 DEF BookStep, ClearStep
    <2> QED BY <2>3, <2>4
  <1>5. ASSUME NEW e1 \in Events, NEW e2 \in Events, NEW fr \in Routines,
               SwapEvents(e1, e2, fr)
        PROVE  BookStep
    <2>1. fr \in BOOLEAN
      BY ArgsAssumption
    <2>2. pc = "idle" /\ ~EventCallback
      BY <1>5 DEF SwapEvents, UserRuns, NoSwapQueued, EventCallback
    <2>3. clear_events[e1] = "no"
      BY <2>2 DEF BooksInv, ClearsWaiting, ClearsQueued
    <2>4. freed[e1] = 0 /\ freed[e2] = 0 /\ (fr => e1 \notin Stepped)
      BY <1>2, <1>5, <2>1 DEF SwapEvents
    <2>5. /\ e1 # e2 /\ EvGfn[e1] = EvGfn[e2] /\ SwapOnGfn(e1, e2, fr) /\ Lists
          /\ UNCHANGED clear_events
      BY <1>5, <2>2 DEF SwapEvents
    <2> QED BY <1>1, <2>1, <2>3, <2>4, <2>5 DEF BookStep, SwapStep
  <1>6. ASSUME NEW e \in Events, NEW v \in StepArgs, NEW n \in 1 .. MaxSteps,
               NEW cb \in BOOLEAN, StepEvent(e, v, n, cb)
        PROVE  BookStep
    <2>1. freed[e] = 0 /\ clear_events[e] # "free"
      BY <1>2, <1>6 DEF StepEvent
    <2>2. Stepped' \subseteq Stepped \cup {e}
      <3> DEFINE w == [event |-> e, vcpu_id |-> v, steps |-> n, cb |-> cb]
      <3>1. w \in Wrapper /\ w.event = e
        BY <1>6 DEF Wrapper, StepEvent
      <3>2. step_events' = <<w>> \o step_events /\ UNCHANGED <<reg_list, remain>>
        BY <1>6 DEF StepEvent, AddWrapper
      <3> HIDE DEF w
      <3>3. <<w>> \in Seq(Wrapper) /\ step_events \in Seq(Wrapper)
        BY <3>1 DEF TypeOK
      <3>4. ToSet(step_events') = ToSet(<<w>>) \cup ToSet(step_events)
        BY <3>2, <3>3, ConcatElements, ZenonT(60)
      <3>5. ToSet(<<w>>) = {w}
        BY DEF ToSet
      <3> QED BY <3>1, <3>2, <3>4, <3>5 DEF Stepped
    <2>3. UNCHANGED <<mem_events_on_gfn, clear_events, freed>>
      BY <1>6 DEF StepEvent
    <2> QED BY <2>1, <2>2, <2>3 DEF BookStep, PassStep
  <1>7. ASSUME NEW e \in Events, ApplyClear(e) PROVE BookStep
    <2> DEFINE fr == clear_events[e] = "free"
    <2>1. freed[e] = 0 /\ (fr => e \notin Stepped)
      <3>1. freed[e] = 0
        BY <1>0, <1>7 DEF ApplyClear, BooksInv, NoDangling
      <3> QED BY <3>1 DEF BooksInv, FreeUnstepped
    <2>2. /\ Lists /\ ClearOnGfn(e, fr) /\ fr \in BOOLEAN
          /\ clear_events' = [clear_events EXCEPT ![e] = "no"]
      BY <1>7 DEF ApplyClear
    <2> HIDE DEF fr
    <2> QED BY <1>1, <2>1, <2>2 DEF BookStep, ClearStep
  <1>8. CASE ReRegister
    <2> DEFINE e == Head(reg_list).event
    <2>1. Head(reg_list) \in Wrapper /\ Head(reg_list) \in ToSet(reg_list)
      <3>1. reg_list # <<>> /\ reg_list \in Seq(Wrapper)
        BY <1>8 DEF ReRegister, TypeOK
      <3>2. ToSet(reg_list) = {Head(reg_list)} \cup ToSet(Tail(reg_list))
        BY <3>1, TailElements
      <3> QED BY <3>1, <3>2, HeadTailProperties
    <2>2. e \in Events /\ e \in Stepped
      BY <2>1 DEF Wrapper, Stepped
    <2>3. freed[e] = 0
      BY <1>0, <2>2 DEF BooksInv, NoDangling
    <2>4. RegisterOnGfn(e) /\ UNCHANGED <<clear_events, freed>>
      BY <1>8 DEF ReRegister
    <2>5. Stepped' \subseteq Stepped
      <3>1. reg_list # <<>> /\ FinishWrapper(Head(reg_list)) /\ UNCHANGED <<step_events, remain>>
        BY <1>8 DEF ReRegister
      <3>2. reg_list' = Tail(reg_list)
        BY <3>1 DEF FinishWrapper
      <3>3. ToSet(reg_list) = {Head(reg_list)} \cup ToSet(Tail(reg_list))
        BY <3>1, TailElements DEF TypeOK
      <3> QED BY <3>1, <3>2, <3>3 DEF Stepped
    <2> HIDE DEF e
    <2> QED BY <2>2, <2>3, <2>4, <2>5 DEF BookStep, RegisterStep
  <1>9. ASSUME StepAndReg \/ TakeStepRequest, ~ReRegister PROVE BookStep
    <2>1. UNCHANGED <<mem_events_on_gfn, clear_events, freed>>
      BY <1>9 DEF StepAndReg, KeepWrapper, CallStepCallback, StepCallbackReturns,
                  StepsDone, TakeStepRequest
    <2>2. \/ Stepped' \subseteq Stepped
          \/ \E e \in Events : MayPass(e, FALSE) /\ Stepped' \subseteq Stepped \cup {e}
      BY NextListStep, SteppedStep DEF BooksInv
    <2> QED BY <1>2, <2>1, <2>2 DEF BookStep, UntouchedStep, PassStep
  <1>10. ASSUME PauseVm \/ ResumeVm \/ (\E v \in StepArgs : StepEventFails(v)) \/ Guest
                  \/ EventsListen \/ TakeMemRequest \/ PutResponse \/ Notify
         PROVE  UNCHANGED <<mem_events_on_gfn, clear_events, freed>> /\ Lists
    BY <1>10 DEF PauseVm, ResumeVm, StepEventFails, Guest, GuestAccess, GuestStep,
                 EventsListen, TakeMemRequest, PutResponse, Notify
  <1>11. ASSUME Deferred, ~ \E e \in Events : ApplyClear(e)
         PROVE  UNCHANGED <<mem_events_on_gfn, clear_events, freed>> /\ Lists
    <2>1. ~ApplySwap
      BY DEF ApplySwap, BooksInv, NoSwaps
    <2> QED BY <1>11, <2>1 DEF Deferred, FirstPassDone, PauseForDeferred, SecondPassDone,
                 SwapsDone, ApplyClearStep, ClearsDone
  <1>12. CASE UNCHANGED vars
    BY <1>1, <1>12 DEF vars, BookStep, UntouchedStep
  <1>13. UNCHANGED <<mem_events_on_gfn, clear_events, freed>> /\ Lists => BookStep
    BY <1>1 DEF BookStep, UntouchedStep
  <1> HIDE DEF Lists
  <1> QED BY <1>3, <1>4, <1>5, <1>6, <1>7, <1>8, <1>9, <1>10, <1>11, <1>12, <1>13
          DEF Next, UserCall, ListenStep

\* No swap is ever queued if callbacks queue none.
LEMMA NoSwapsStep ==
  ASSUME NoSwapQueued, NoSwaps, [Next]_vars
  PROVE  NoSwaps'
  <1> USE DEF tables, pending, locals, traps, guest, pauses
  <1>1. ASSUME NEW e1 \in Events, NEW e2 \in Events, NEW fr \in Routines,
               SwapEvents(e1, e2, fr)
        PROVE  UNCHANGED <<swap_events, loop>>
    <2>1. ~EventCallback
      BY <1>1 DEF SwapEvents, UserRuns, NoSwapQueued, EventCallback
    <2> QED BY <1>1, <2>1 DEF SwapEvents
  <1>2. ASSUME UserCall, ~ \E e1, e2 \in Events, fr \in Routines : SwapEvents(e1, e2, fr)
        PROVE  UNCHANGED <<swap_events, loop>>
    BY <1>2 DEF UserCall, RegisterEvent, ClearEvent, StepEvent, StepEventFails, PauseVm,
                ResumeVm
  <1>3. ASSUME StepAndReg PROVE UNCHANGED <<swap_events, loop>>
    BY <1>3 DEF StepAndReg, KeepWrapper, ReRegister, CallStepCallback,
                StepCallbackReturns, StepsDone
  <1>4. ASSUME Guest \/ EventsListen \/ TakeMemRequest \/ TakeStepRequest \/ PutResponse
                 \/ Notify
        PROVE  UNCHANGED <<swap_events, loop>>
    BY <1>4 DEF Guest, GuestAccess, GuestStep, EventsListen, TakeMemRequest,
                TakeStepRequest, PutResponse, Notify
  <1>5. ASSUME Deferred PROVE swap_events' = swap_events /\ loop' \in {loop, swap_events}
    <2>1. ~ApplySwap
      BY DEF ApplySwap, NoSwaps
    <2> QED BY <1>5, <2>1 DEF Deferred, FirstPassDone, PauseForDeferred, SecondPassDone,
                SwapsDone, ApplyClear, ApplyClearStep, ClearsDone
  <1> QED BY <1>1, <1>2, <1>3, <1>4, <1>5 DEF Next, ListenStep, vars, NoSwaps

\* Queued clears are applied before the listener is idle again.
LEMMA ClearsWaitingStep ==
  ASSUME ClearsWaiting, [Next]_vars
  PROVE  ClearsWaiting'
  <1> USE DEF tables, pending, locals, traps, guest, pauses
  <1> DEFINE Same == UNCHANGED <<pc, clear_events, clear_steps>>
             Quiet == {"idle", "notify"}
  <1>1. ASSUME UserCall PROVE Same \/ (UNCHANGED pc /\ pc \notin Quiet)
    BY <1>1, ZenonT(60) DEF UserCall, RegisterEvent, ClearEvent, EventCallback, SwapEvents,
                                 StepEvent, StepEventFails, PauseVm, ResumeVm
  <1>2. ASSUME StepAndReg PROVE pc' \notin Quiet
    BY <1>2 DEF StepAndReg, KeepWrapper, ReRegister, CallStepCallback,
                StepCallbackReturns, StepsDone
  <1>3. ASSUME Guest PROVE Same
    BY <1>3 DEF Guest, GuestAccess, GuestStep
  <1>4. ASSUME EventsListen \/ TakeMemRequest \/ TakeStepRequest \/ PutResponse
        PROVE  pc' \notin Quiet
    BY <1>4 DEF EventsListen, TakeMemRequest, TakeStepRequest, PutResponse
  <1>5. ASSUME Notify \/ ClearsDone \/ FirstPassDone PROVE ClearsWaiting'
    BY <1>5 DEF Notify, ClearsDone, FirstPassDone, DeferredWork, ClearsWaiting, ClearsQueued
  <1>6. ASSUME Deferred, ~ClearsDone, ~FirstPassDone PROVE pc' \notin Quiet
    BY <1>6 DEF Deferred, PauseForDeferred, SecondPassDone, ApplySwap, SwapsDone,
                ApplyClear, ApplyClearStep
  <1> QED BY <1>1, <1>2, <1>3, <1>4, <1>5, <1>6
          DEF Next, ListenStep, vars, ClearsWaiting, ClearsQueued

\* Whatever a step does to an event, the tables stay in order and what is freed stays out.
LEMMA BooksKept ==
  ASSUME TypeOK, OwnPages, FreeUnstepped, NoDangling, FreedOnce, NoSwaps, NoSwaps', BookStep
  PROVE  OwnPages' /\ FreeUnstepped' /\ NoDangling' /\ FreedOnce'
  <1> DEFINE Gone(e) == freed[e] > 0
             Free(e) == /\ \A g \in Gfns : mem_events_on_gfn[g] # e
                        /\ clear_events[e] = "no" /\ e \notin Stepped
  <1>1. /\ mem_events_on_gfn \in [Gfns -> Events \cup {None}]
        /\ clear_events \in [Events -> {"no", "null", "free"}]
        /\ freed \in [Events -> 0 .. 2]
    BY DEF TypeOK
  <1>2. \A e \in Events : EvGfn[e] \in Gfns /\ e # None
    BY EventAssumption
  <1>3. \A e \in Events : Gone(e) => Free(e)
    BY DEF NoDangling
  <1>4. \A e \in Events : freed[e] <= 1
    BY DEF FreedOnce
  <1>5. ASSUME \A e \in Events : Gone(e)' => Free(e)' PROVE NoDangling'
    <2>1. ToSet(swap_events') = {}
      BY DEF NoSwaps, ToSet
    <2> QED BY <1>5, <2>1 DEF NoDangling
  <1>6. CASE UntouchedStep
    <2>1. \A e \in Events : Gone(e)' => Free(e)'
      BY <1>3, <1>6 DEF UntouchedStep
    <2> HIDE DEF Gone, Free
    <2> QED BY <1>5, <1>6, <2>1 DEF UntouchedStep, OwnPages, FreeUnstepped, FreedOnce
  <1>7. ASSUME NEW e \in Events, PassStep(e)
        PROVE  OwnPages' /\ FreeUnstepped' /\ NoDangling' /\ FreedOnce'
    <2>1. \A d \in Events : Gone(d)' => Free(d)'
      BY <1>3, <1>7 DEF PassStep
    <2> HIDE DEF Gone, Free
    <2> QED BY <1>5, <1>7, <2>1 DEF PassStep, OwnPages, FreeUnstepped, FreedOnce
  <1>8. ASSUME NEW e \in Events, RegisterStep(e)
        PROVE  OwnPages' /\ FreeUnstepped' /\ NoDangling' /\ FreedOnce'
    <2>1. \A g \in Gfns : mem_events_on_gfn'[g] = mem_events_on_gfn[g]
                            \/ (mem_events_on_gfn'[g] = e /\ EvGfn[e] = g)
      BY <1>1, <1>2, <1>8 DEF RegisterStep, RegisterOnGfn
    <2>2. \A d \in Events : Gone(d)' => Free(d)'
      BY <1>3, <1>8, <2>1 DEF RegisterStep
    <2> HIDE DEF Gone, Free
    <2> QED BY <1>5, <1>8, <2>1, <2>2 DEF RegisterStep, OwnPages, FreeUnstepped, FreedOnce
  <1>9. ASSUME NEW e \in Events, NEW fr \in BOOLEAN, DeferStep(e, fr)
        PROVE  OwnPages' /\ FreeUnstepped' /\ NoDangling' /\ FreedOnce'
    <2>1. \A d \in Events : clear_events'[d] =
            IF d = e THEN IF fr THEN "free" ELSE "null" ELSE clear_events[d]
      BY <1>1, <1>9 DEF DeferStep
    <2>2. \A d \in Events : Gone(d)' => Free(d)'
      BY <1>3, <1>9, <2>1 DEF DeferStep
    <2>3. FreeUnstepped'
      BY <1>9, <2>1 DEF DeferStep, FreeUnstepped
    <2> HIDE DEF Gone, Free
    <2> QED BY <1>5, <1>9, <2>2, <2>3 DEF DeferStep, OwnPages, FreedOnce
  <1>10. ASSUME NEW e \in Events, NEW fr \in BOOLEAN, ClearStep(e, fr)
         PROVE  OwnPages' /\ FreeUnstepped' /\ NoDangling' /\ FreedOnce'
    <2>1. PICK ok \in Result("mem_access") :
            /\ IF ok THEN mem_events_on_gfn' = [mem_events_on_gfn EXCEPT ![EvGfn[e]] = None]
                     ELSE UNCHANGED mem_events_on_gfn
            /\ RunFree(e, fr /\ ok)
      BY <1>10 DEF ClearStep, ClearOnGfn
    <2>2. \A d \in Events : clear_events'[d] = IF d = e THEN "no" ELSE clear_events[d]
      BY <1>1, <1>10 DEF ClearStep
    <2>3. \A g \in Gfns : mem_events_on_gfn'[g] \in {mem_events_on_gfn[g], None}
      BY <1>1, <1>2, <2>1
    <2>4. \A d \in Events : freed'[d] = IF d = e /\ fr /\ ok THEN 1 ELSE freed[d]
      BY <1>1, <1>10, <2>1 DEF ClearStep, RunFree
    <2>5. ASSUME fr, ok, NEW g \in Gfns PROVE mem_events_on_gfn'[g] # e
      BY <1>1, <1>2, <2>1, <2>5 DEF OwnPages
    <2>6. ASSUME NEW d \in Events, Gone(d)' PROVE Free(d)'
      BY <1>2, <1>3, <1>10, <2>2, <2>3, <2>4, <2>5, <2>6 DEF ClearStep
    <2>7. OwnPages' /\ FreeUnstepped' /\ FreedOnce'
      BY <1>4, <1>10, <2>2, <2>3, <2>4 DEF ClearStep, OwnPages, FreeUnstepped, FreedOnce
    <2> HIDE DEF Gone, Free
    <2> QED BY <1>5, <2>6, <2>7
  <1>11. ASSUME NEW from \in Events, NEW to \in Events, NEW fr \in BOOLEAN,
                SwapStep(from, to, fr)
         PROVE  OwnPages' /\ FreeUnstepped' /\ NoDangling' /\ FreedOnce'
    <2>1. PICK ok \in Result("mem_access") :
            /\ IF ok THEN mem_events_on_gfn' = [mem_events_on_gfn EXCEPT ![EvGfn[to]] = to]
                     ELSE UNCHANGED mem_events_on_gfn
            /\ RunFree(from, fr /\ ok)
      BY <1>11 DEF SwapStep, SwapOnGfn
    <2>2. \A g \in Gfns : mem_events_on_gfn'[g] = mem_events_on_gfn[g]
                            \/ (mem_events_on_gfn'[g] = to /\ EvGfn[to] = g)
      BY <1>1, <1>2, <2>1
    <2>3. \A d \in Events : freed'[d] = IF d = from /\ fr /\ ok THEN 1 ELSE freed[d]
      BY <1>1, <1>11, <2>1 DEF SwapStep, RunFree
    <2>4. ASSUME fr, ok, NEW g \in Gfns PROVE mem_events_on_gfn'[g] # from
      BY <1>1, <1>2, <1>11, <2>1, <2>4 DEF OwnPages, SwapStep
    <2>5. ASSUME NEW d \in Events, Gone(d)' PROVE Free(d)'
      BY <1>3, <1>11, <2>2, <2>3, <2>4, <2>5 DEF SwapStep
    <2>6. OwnPages' /\ FreeUnstepped' /\ FreedOnce'
      BY <1>4, <1>11, <2>2, <2>3 DEF SwapStep, OwnPages, FreeUnstepped, FreedOnce
    <2> HIDE DEF Gone, Free
    <2> QED BY <1>5, <2>5, <2>6
  <1> QED BY <1>6, <1>7, <1>8, <1>9, <1>10, <1>11 DEF BookStep

\* Every step keeps the books.
LEMMA BooksStep ==
  ASSUME NoSwapQueued, TypeOK, BooksInv, [Next]_vars
  PROVE  BooksInv'
  <1>1. NoSwaps' /\ ListsHeld' /\ ClearsWaiting'
    BY NoSwapsStep, NextListStep, ClearsWaitingStep DEF BooksInv
  <1>2. OwnPages' /\ FreeUnstepped' /\ NoDangling' /\ FreedOnce'
    BY <1>1, NextBookStep, BooksKept DEF BooksInv
  <1> QED BY <1>1, <1>2 DEF BooksInv

\* Without swaps from callbacks the books are right whatever else the user does, wherever
\* it does it, and whichever hypercalls fail: the wrappers of each vCPU are counted, and an
\* event is freed once, when no table and no list refers to it any more.
THEOREM BooksRight == ASSUME NoSwapQueued PROVE Spec => []Bookkeeping
  <1>1. Init => BooksInv
    <2>1. Init => Stepped = {} /\ ToSet(swap_events) = {}
      BY DEF Init, Stepped, ToSet
    <2>2. Init => NoDangling /\ FreedOnce
      BY <2>1 DEF Init, NoDangling, FreedOnce
    <2> QED BY <2>2 DEF Init, BooksInv, NoSwaps, ListsHeld, OwnPages, ClearsWaiting,
                    ClearsQueued, FreeUnstepped
  <1>2. TypeOK /\ BooksInv /\ [Next]_vars => BooksInv'
    BY BooksStep
  <1>3. BooksInv /\ StepVcpusCount => Bookkeeping
    BY DEF BooksInv, Bookkeeping
  <1> QED BY <1>1, <1>2, <1>3, TypeCorrect, WrappersCounted, PTL DEF Spec
-----------------------------------------------------------------------------
(* Single-stepping is on where it is needed, and nowhere else. *)

\* What the next theorems ask: Xen does as told, and the user steps vCPUs that exist.
\* Otherwise the rewind of xen_start_single_step_48 stops vCPUs that are still stepped.
StepsWork == "debug_control" \notin MayFail /\ StepArgs \subseteq VCpus

\* A vCPU is stepped only with its single-step event installed and not to be cleared, and
\* the event installed means that the vCPU single-steps.
ArmedInv ==
  /\ clear_steps \subseteq ss_events
  /\ \A v \in VCpus : step_vcpus[v] > 0 => v \in ss_events \ clear_steps
  /\ \A v \in ss_events : mtf[v] /\ monitor_singlestep_on

\* An event installed is in use or waits to be cleared.
InUse == \A v \in ss_events : step_vcpus[v] > 0 \/ v \in clear_steps

\* What a step does to the single-stepping of a vCPU.
StartStep(v) ==
  /\ v \in ss_events => step_vcpus[v] > 0
  /\ IF v \in ss_events
       THEN UNCHANGED <<ss_events, mtf, monitor_singlestep_on>>
       ELSE /\ ss_events' = ss_events \cup {v}
            /\ mtf' = [mtf EXCEPT ![v] = TRUE]
            /\ monitor_singlestep_on' = TRUE
  /\ step_vcpus' = [step_vcpus EXCEPT ![v] = @ + 1]
  /\ UNCHANGED clear_steps

FinishStep(v) ==
  /\ step_vcpus[v] > 0
  /\ step_vcpus' = [step_vcpus EXCEPT ![v] = @ - 1]
  /\ clear_steps' = IF step_vcpus[v] = 1 /\ swap_events = <<>> THEN clear_steps \cup {v}
                                                               ELSE clear_steps
  /\ UNCHANGED <<ss_events, mtf, monitor_singlestep_on>>

StopStep(v) ==
  /\ v \in clear_steps
  /\ clear_steps' = clear_steps \ {v}
  /\ ss_events' = ss_events \ {v}
  /\ ss_events' # {} => /\ mtf' = [mtf EXCEPT ![v] = FALSE]
                        /\ UNCHANGED monitor_singlestep_on
  /\ UNCHANGED step_vcpus

ArmStep ==
  \/ UNCHANGED <<ss_events, step_vcpus, clear_steps, mtf, monitor_singlestep_on>>
  \/ \E v \in VCpus : StartStep(v) \/ FinishStep(v) \/ StopStep(v)

\* Every step does to the trap flags and their counts what ArmStep allows.
LEMMA NextArmStep ==
  ASSUME StepsWork, TypeOK, StepVcpusCount, [Next]_vars
  PROVE  ArmStep
  <1> USE DEF tables, pending, locals, traps, guest, pauses
  <1> DEFINE Same == UNCHANGED <<ss_events, step_vcpus, clear_steps, mtf,
                                 monitor_singlestep_on>>
  <1>1. ASSUME NEW e \in Events, NEW v \in StepArgs, NEW n \in 1 .. MaxSteps,
               NEW cb \in BOOLEAN, StepEvent(e, v, n, cb)
        PROVE  ArmStep
    <2>1. v \in VCpus
      BY DEF StepsWork
    <2>2. StartStep(v)
      BY <1>1 DEF StepEvent, StepArgumentsPass, AddWrapper, StartStep
    <2> QED BY <2>1, <2>2 DEF ArmStep
  <1>2. ASSUME NEW v \in StepArgs PROVE ~StepEventFails(v)
    BY DEF StepsWork, StepEventFails
  <1>3. ASSUME UserCall,
               ~ \E e \in Events, v \in StepArgs, n \in 1 .. MaxSteps, cb \in BOOLEAN :
                   StepEvent(e, v, n, cb)
        PROVE  Same
    BY <1>2, <1>3 DEF UserCall, RegisterEvent, ClearEvent, SwapEvents, PauseVm, ResumeVm
  <1>4. ASSUME reg_list # <<>>, FinishWrapper(Head(reg_list)),
               UNCHANGED <<ss_events, mtf, monitor_singlestep_on>>
        PROVE  ArmStep
    <2> DEFINE v == Head(reg_list).vcpu_id
    <2>1. /\ step_events \in Seq(Wrapper) /\ reg_list \in Seq(Wrapper)
          /\ remain \in Seq(Wrapper)
      BY DEF TypeOK
    <2>2. v \in VCpus
      <3>1. Head(reg_list) \in Wrapper
        BY <1>4, <2>1, HeadTailProperties
      <3> QED BY <3>1 DEF Wrapper
    <2>3. step_vcpus[v] > 0
      <3>1. WrappersOf(reg_list, v) = WrappersOf(Tail(reg_list), v) + 1
        BY <1>4, <2>1, CountTail
      <3>2. /\ WrappersOf(Tail(reg_list), v) \in Nat /\ WrappersOf(step_events, v) \in Nat
            /\ WrappersOf(remain, v) \in Nat
        BY <1>4, <2>1, HeadTailProperties, CountType
      <3>3. step_vcpus[v] = WrappersOf(step_events, v) + WrappersOf(reg_list, v)
                              + WrappersOf(remain, v)
        BY <2>2 DEF StepVcpusCount
      <3> HIDE DEF v
      <3> QED BY <3>1, <3>2, <3>3
    <2>4. FinishStep(v)
      BY <1>4, <2>3 DEF FinishWrapper, FinishStep
    <2> QED BY <2>2, <2>4 DEF ArmStep
  <1>5. CASE ReRegister
    BY <1>4, <1>5 DEF ReRegister
  <1>6. CASE StepCallbackReturns
    BY <1>4, <1>6 DEF StepCallbackReturns, TypeOK
  <1>7. ASSUME KeepWrapper \/ CallStepCallback \/ StepsDone PROVE Same
    BY <1>7 DEF KeepWrapper, CallStepCallback, StepsDone
  <1>8. ASSUME Guest \/ EventsListen \/ TakeMemRequest \/ TakeStepRequest \/ PutResponse
                 \/ Notify
        PROVE  Same
    BY <1>8 DEF Guest, GuestAccess, GuestStep, EventsListen, TakeMemRequest,
                TakeStepRequest, PutResponse, Notify
  <1>9. ASSUME Deferred, ~ \E v \in VCpus : ApplyClearStep(v) PROVE Same
    BY <1>9 DEF Deferred, FirstPassDone, PauseForDeferred, SecondPassDone, ApplySwap,
                SwapsDone, ApplyClear, ClearsDone
  <1>10. ASSUME NEW v \in VCpus, ApplyClearStep(v) PROVE ArmStep
    <2>1. StopStep(v)
      BY <1>10 DEF StepsWork, ApplyClearStep, Result, StopStep
    <2> QED BY <2>1 DEF ArmStep
  <1>11. CASE UNCHANGED vars
    BY <1>11 DEF vars, ArmStep
  <1>12. Same => ArmStep
    BY DEF ArmStep
  <1> HIDE DEF Same
  <1> QED BY <1>1, <1>3, <1>5, <1>6, <1>7, <1>8, <1>9, <1>10, <1>11, <1>12
          DEF Next, ListenStep, StepAndReg

\* The counters are naturals.
LEMMA CountersNat ==
  ASSUME TypeOK, StepVcpusCount
  PROVE  step_vcpus \in [VCpus -> Nat]
  <1>1. /\ step_events \in Seq(Wrapper) /\ reg_list \in Seq(Wrapper)
        /\ remain \in Seq(Wrapper) /\ step_vcpus \in [VCpus -> Int]
    BY DEF TypeOK
  <1>2. ASSUME NEW v \in VCpus PROVE step_vcpus[v] \in Nat
    <2>1. /\ WrappersOf(step_events, v) \in Nat /\ WrappersOf(reg_list, v) \in Nat
          /\ WrappersOf(remain, v) \in Nat
      BY <1>1, CountType
    <2> QED BY <2>1 DEF StepVcpusCount
  <1> QED BY <1>1, <1>2

\* A step of the trap flags keeps them armed, and in use when no swap is queued.
LEMMA ArmedStep ==
  ASSUME TypeOK, StepVcpusCount, ArmedInv, ArmStep
  PROVE  ArmedInv' /\ (swap_events = <<>> /\ InUse => InUse')
  <1>1. /\ step_vcpus \in [VCpus -> Nat] /\ mtf \in [VCpus -> BOOLEAN]
        /\ ss_events \subseteq VCpus /\ clear_steps \subseteq VCpus
    BY CountersNat DEF TypeOK
  <1>2. CASE UNCHANGED <<ss_events, step_vcpus, clear_steps, mtf, monitor_singlestep_on>>
    BY <1>2 DEF ArmedInv, InUse
  <1>3. ASSUME NEW v \in VCpus, StartStep(v)
        PROVE  ArmedInv' /\ (InUse => InUse')
    <2>1. \A u \in VCpus : step_vcpus'[u] = IF u = v THEN step_vcpus[u] + 1 ELSE step_vcpus[u]
      BY <1>1, <1>3 DEF StartStep
    <2>2. step_vcpus'[v] > 0 /\ (step_vcpus[v] > 0 <=> v \in ss_events)
      BY <1>1, <1>3, <2>1 DEF StartStep, ArmedInv
    <2>3. ss_events' = ss_events \cup {v} /\ clear_steps' = clear_steps
      BY <1>3 DEF StartStep
    <2>4. v \notin clear_steps
      BY <2>2, <1>3 DEF ArmedInv
    <2>5. \A u \in ss_events' : mtf'[u] /\ monitor_singlestep_on'
      BY <1>1, <1>3, <2>3 DEF StartStep, ArmedInv
    <2> QED BY <1>1, <2>1, <2>2, <2>3, <2>4, <2>5 DEF ArmedInv, InUse
  <1>4. ASSUME NEW v \in VCpus, FinishStep(v)
        PROVE  ArmedInv' /\ (swap_events = <<>> /\ InUse => InUse')
    <2>1. \A u \in VCpus : step_vcpus'[u] = IF u = v THEN step_vcpus[u] - 1 ELSE step_vcpus[u]
      BY <1>1, <1>4 DEF FinishStep
    <2>2. v \in ss_events \ clear_steps /\ step_vcpus[v] > 0
      BY <1>4 DEF FinishStep, ArmedInv
    <2>3. clear_steps' = IF step_vcpus[v] = 1 /\ swap_events = <<>> THEN clear_steps \cup {v}
                                                                    ELSE clear_steps
      BY <1>4 DEF FinishStep
    <2>4. UNCHANGED <<ss_events, mtf, monitor_singlestep_on>>
      BY <1>4 DEF FinishStep
    <2>5. ArmedInv'
      BY <1>1, <2>1, <2>2, <2>3, <2>4 DEF ArmedInv
    <2>6. ASSUME swap_events = <<>>, InUse PROVE InUse'
      BY <1>1, <2>1, <2>2, <2>3, <2>4, <2>6 DEF InUse
    <2> QED BY <2>5, <2>6
  <1>5. ASSUME NEW v \in VCpus, StopStep(v)
        PROVE  ArmedInv' /\ (InUse => InUse')
    <2>1. /\ v \in clear_steps /\ clear_steps' = clear_steps \ {v}
          /\ ss_events' = ss_events \ {v} /\ step_vcpus' = step_vcpus
      BY <1>5 DEF StopStep
    <2>2. \A u \in ss_events' : mtf'[u] /\ monitor_singlestep_on'
      BY <1>1, <1>5, <2>1 DEF StopStep, ArmedInv
    <2> QED BY <2>1, <2>2 DEF ArmedInv, InUse
  <1> QED BY <1>2, <1>3, <1>4, <1>5 DEF ArmStep

\* If single-stepping works, a vCPU is stepped only with its event installed and its trap set.
LEMMA ArmedCorrect == ASSUME StepsWork PROVE Spec => []ArmedInv
  <1>1. Init => ArmedInv
    BY DEF Init, ArmedInv
  <1>2. TypeOK /\ StepVcpusCount /\ ArmedInv /\ [Next]_vars => ArmedInv'
    BY NextArmStep, ArmedStep
  <1> QED BY <1>1, <1>2, TypeCorrect, WrappersCounted, PTL DEF Spec

\* An event being stepped on a vCPU has that vCPU single-stepping and no clear waiting for
\* it, also with swaps queued.
THEOREM StepsArmed == ASSUME StepsWork PROVE Spec => []StepArmed
  <1>1. ArmedInv => StepArmed
    BY DEF ArmedInv, StepArmed
  <1> QED BY <1>1, ArmedCorrect, PTL

\* Without swaps from callbacks stepping keeps its books: counter, flag, single-step event
\* and deferred clear agree, and between listens nothing single-steps in vain.
THEOREM SteppingKept == ASSUME StepsWork, NoSwapQueued PROVE Spec => []SteppingRight
  <1>1. Init => InUse /\ NoSwaps /\ ClearsWaiting
    BY DEF Init, InUse, NoSwaps, ClearsWaiting, ClearsQueued
  <1>2. TypeOK /\ StepVcpusCount /\ ArmedInv /\ InUse /\ NoSwaps /\ ClearsWaiting /\ [Next]_vars
          => InUse' /\ NoSwaps' /\ ClearsWaiting'
    <2>1. TypeOK /\ StepVcpusCount /\ ArmedInv /\ InUse /\ NoSwaps /\ [Next]_vars => InUse'
      BY NextArmStep, ArmedStep DEF NoSwaps
    <2> QED BY <2>1, NoSwapsStep, ClearsWaitingStep
  <1>3. ASSUME ArmedInv, InUse, ClearsWaiting, SingleStepInv PROVE StepUnwound
    <2>1. ASSUME pc = "idle", NEW v \in VCpus, step_vcpus[v] = 0
          PROVE  v \notin ss_events /\ ~mtf[v]
      <3>1. clear_steps = {}
        BY <1>3, <2>1 DEF ClearsWaiting, ClearsQueued
      <3>2. v \notin ss_events
        BY <1>3, <2>1, <3>1 DEF InUse
      <3> QED BY <1>3, <3>2 DEF SingleStepInv
    <2> QED BY <2>1 DEF StepUnwound
  <1>4. StepVcpusCount /\ StepArmed /\ StepUnwound => SteppingRight
    BY DEF SteppingRight
  <1> QED BY <1>1, <1>2, <1>3, <1>4, TypeCorrect, WrappersCounted, ArmedCorrect, StepsArmed,
          SingleStepCorrect, PTL DEF Spec
-----------------------------------------------------------------------------
(* The listener implements TrapDelivery. *)

\* There is a handler for what r says.
Handled(r) ==
  IF r.reason = "mem_access"
    THEN /\ r.gfn \in Gfns /\ r.access \in Accesses
         /\ Handles(mem_events_on_gfn[r.gfn], r.access)
    ELSE r.vcpu_id \in ss_events

\* The request being processed keeps its handler, like those on the ring.
AllHandled == \A r \in Requests : Handled(r)

\* Each vCPU runs, or has been answered, or waits with the one request that is its own.
StatesRight ==
  \A v \in VCpus :
    /\ v \notin blocked => VCpuState[v] = <<"running">>
    /\ v \in responses => v \in blocked /\ VCpuState[v] = <<"answered">>
    /\ v \in blocked \ responses => \E r \in Requests : r.vcpu_id = v
    /\ \A r \in Requests : r.vcpu_id = v =>
         v \in blocked \ responses /\ VCpuState[v] = WatchOf(r)

\* The requests there are have their type.
LEMMA RequestsType == ASSUME TypeOK PROVE Requests \subseteq Request /\ None \notin Requests
  <1>1. ASSUME NEW r \in ToSet(ring) PROVE r \in Request
    BY DEF TypeOK, ToSet
  <1> QED BY <1>1, NoneAssumption DEF TypeOK, Requests

\* A vCPU has one request at most, and has it exactly while it waits for its answer.
LEMMA OwnRequest ==
  ASSUME TypeOK, OneAnswer, NEW v \in VCpus
  PROVE  /\ v \in responses => v \in blocked
         /\ v \in blocked \ responses => \E r \in Requests : r.vcpu_id = v
         /\ \A r \in Requests : r.vcpu_id = v =>
              /\ v \in blocked \ responses
              /\ \A q \in Requests : q.vcpu_id = v => q = r
  <1> DEFINE At == {i \in DOMAIN ring : ring[i].vcpu_id = v}
             held == IF req # None /\ req.vcpu_id = v THEN 1 ELSE 0
             answered == IF v \in responses THEN 1 ELSE 0
  <1>1. IsFiniteSet(At) /\ Cardinality(At) \in Nat /\ WrappersOf(ring, v) = Cardinality(At)
    <2>1. ring \in Seq(Request)
      BY DEF TypeOK
    <2>2. IsFiniteSet(At)
      BY <2>1, CountType
    <2> QED BY <2>2, FS_CardinalityType DEF WrappersOf
  <1>2. Cardinality(At) + held + answered = IF v \in blocked THEN 1 ELSE 0
    BY <1>1 DEF OneAnswer
  <1>3. v \in responses => v \in blocked
    BY <1>1, <1>2
  <1>4. v \notin blocked \ responses => Cardinality(At) = 0 /\ held = 0
    BY <1>1, <1>2
  <1>5. v \in blocked \ responses => \/ Cardinality(At) = 0 /\ held = 1
                                     \/ Cardinality(At) = 1 /\ held = 0
    BY <1>1, <1>2
  <1>6. Requests = {ring[i] : i \in DOMAIN ring} \cup ({req} \ {None})
    BY DEF Requests, ToSet
  <1>7. CASE Cardinality(At) = 0 /\ held = 0
    <2>1. At = {}
      BY <1>1, <1>7, FS_EmptySet
    <2>2. \A r \in Requests : r.vcpu_id # v
      BY <1>6, <1>7, <2>1
    <2> QED BY <1>3, <1>5, <1>7, <2>2
  <1>8. CASE Cardinality(At) = 0 /\ held = 1
    <2>1. At = {}
      BY <1>1, <1>8, FS_EmptySet
    <2>2. req \in Requests /\ req.vcpu_id = v
      BY <1>6, <1>8
    <2>3. \A r \in Requests : r.vcpu_id = v => r = req
      BY <1>6, <2>1
    <2> HIDE DEF At, held, answered
    <2> QED BY <1>3, <1>4, <1>8, <2>2, <2>3
  <1>9. CASE Cardinality(At) = 1 /\ held = 0
    <2>1. PICK i : At = {i}
      BY <1>1, <1>9, FS_Singleton
    <2>2. ring[i] \in Requests /\ ring[i].vcpu_id = v
      BY <1>6, <2>1
    <2>3. \A r \in Requests : r.vcpu_id = v => r = ring[i]
      BY <1>6, <1>9, <2>1
    <2> HIDE DEF At, held, answered
    <2> QED BY <1>3, <1>4, <1>9, <2>2, <2>3
  <1> QED BY <1>4, <1>5, <1>7, <1>8, <1>9

\* The state of a vCPU tells where its one request is.
LEMMA StatesAgree == ASSUME TypeOK, OneAnswer PROVE StatesRight
  <1>1. ASSUME NEW v \in VCpus, v \notin blocked PROVE VCpuState[v] = <<"running">>
    BY <1>1 DEF VCpuState
  <1>2. ASSUME NEW v \in VCpus, v \in responses PROVE VCpuState[v] = <<"answered">>
    BY <1>2, OwnRequest DEF VCpuState
  <1>3. ASSUME NEW v \in VCpus, NEW r \in Requests, r.vcpu_id = v
        PROVE  v \in blocked \ responses /\ VCpuState[v] = WatchOf(r)
    <2> DEFINE q == CHOOSE q \in Requests : q.vcpu_id = v
    <2>1. v \in blocked \ responses
      BY <1>3, OwnRequest
    <2>2. q \in Requests /\ q.vcpu_id = v
      BY <1>3
    <2>3. VCpuState[v] = WatchOf(q)
      BY <2>1 DEF VCpuState
    <2> HIDE DEF q
    <2>4. q = r
      BY <1>3, <2>2, OwnRequest
    <2> QED BY <2>1, <2>3, <2>4
  <1> QED BY <1>1, <1>2, <1>3, OwnRequest DEF StatesRight

\* What a vCPU waits for is neither of the other two states.
LEMMA WatchApart ==
  ASSUME NEW r
  PROVE  WatchOf(r) # <<"running">> /\ WatchOf(r) # <<"answered">>
  <1>1. ASSUME NEW a, NEW b, NEW c PROVE <<a, b>> # <<c>>
    <2>1. Len(<<a, b>>) = 2 /\ Len(<<c>>) = 1
      OBVIOUS
    <2> QED BY <2>1
  <1> QED BY <1>1 DEF WatchOf

\* What has a handler is watched.
LEMMA HandledWatched ==
  ASSUME NEW r \in Request, Handled(r)
  PROVE  WatchOf(r) \in Watched /\ WatchOf(r) \in Watchable
  <1>1. r.vcpu_id \in VCpus
    BY DEF Request
  <1>2. CASE r.reason = "mem_access"
    BY <1>2 DEF Handled, WatchOf, Watched, Watchable
  <1>3. CASE r.reason # "mem_access"
    BY <1>1, <1>3 DEF Handled, WatchOf, Watched, Watchable
  <1> QED BY <1>2, <1>3

\* Every step keeps the requests, taken ones too, with a handler.
LEMMA AllHandledStep ==
  ASSUME ChangesDeferred, TypeOK, PagesMatchTable, PauseInv, SingleStepInv, RequestHeld,
         AllHandled, PendingHandled', TypeOK', [Next]_vars
  PROVE  AllHandled'
  <1>1. ASSUME NEW r \in ToSet(ring') PROVE Handled(r)'
    <2>1. PICK i \in DOMAIN ring' : r = ring'[i]
      BY DEF ToSet
    <2>2. IF r.reason = "mem_access" THEN Handles(mem_events_on_gfn'[r.gfn], r.access)
                                     ELSE r.vcpu_id \in ss_events'
      BY <2>1 DEF PendingHandled, Handles
    <2>3. r.reason = "mem_access" => r.gfn \in Gfns /\ r.access \in Accesses
      BY <2>1 DEF TypeOK
    <2> QED BY <2>2, <2>3 DEF Handled, Handles
  <1>2. ASSUME NEW r, r = req', r # None PROVE Handled(r)'
    <2>1. RequestStep
      BY NextRequestStep
    <2>2. r \in Requests
      <3>1. CASE TakeStep
        <4>1. ToSet(ring) = {Head(ring)} \cup ToSet(Tail(ring))
          BY <3>1, TailElements DEF TakeStep, TypeOK
        <4>2. Head(ring) \in Request
          BY <3>1, HeadTailProperties DEF TakeStep, TypeOK
        <4> QED BY <1>2, <3>1, <4>1, <4>2 DEF TakeStep, Requests
      <3>2. CASE req' \in {req, None}
        BY <1>2, <3>2 DEF Requests
      <3> QED BY <2>1, <3>1, <3>2 DEF RequestStep, TrapStep, AnswerStep, ReleaseStep
    <2>3. Handled(r)
      BY <2>2 DEF AllHandled
    <2>4. pc \notin {"swaps", "clears"}
      <3>1. ASSUME pc \in {"swaps", "clears"} PROVE FALSE
        <4>1. ring = <<>> /\ req = None
          BY <3>1 DEF PauseInv, RequestHeld
        <4>2. ToSet(ring) = {}
          BY <4>1 DEF ToSet
        <4> QED BY <2>2, <4>1, <4>2 DEF Requests
      <3> QED BY <3>1
    <2>5. HandlersKept
      <3>1. ASSUME NEW g \in Gfns, mem_events_on_gfn[g] # None,
                   mem_events_on_gfn'[g] # mem_events_on_gfn[g]
            PROVE  pc \in {"swaps", "clears"}
        BY <3>1, NextPageStep, PageEventKept
      <3> QED BY <2>4, <3>1, SingleStepKept DEF HandlersKept
    <2> QED BY <2>3, <2>5 DEF Handled, Handles, HandlersKept
  <1> QED BY <1>1, <1>2 DEF AllHandled, Requests

\* A step that leaves the vCPUs as they are changes at most what is watched.
LEMMA DeliveryRewatch ==
  ASSUME TypeOK', StatesRight', AllHandled', VCpuState' = VCpuState
  PROVE  [Delivery!Next]_<<Watched, VCpuState>>
  <1>1. Watched' \in SUBSET Watchable
    BY DEF TypeOK, Watched, Watchable
  <1>2. ASSUME NEW v \in VCpus, VCpuState[v] \notin {<<"running">>, <<"answered">>}
        PROVE  VCpuState[v] \in Watched'
    <2>1. v \in blocked' \ responses'
      BY <1>2 DEF StatesRight
    <2>2. PICK r \in Requests' : r.vcpu_id = v
      BY <2>1 DEF StatesRight
    <2>3. VCpuState[v] = WatchOf(r)
      BY <2>2 DEF StatesRight
    <2>4. r \in Request /\ Handled(r)'
      <3>1. (Requests \subseteq Request /\ None \notin Requests)'
        BY RequestsType, PTL
      <3> QED BY <2>2, <3>1 DEF AllHandled
    <2>5. WatchOf(r) \in Watched'
      <3>1. r.vcpu_id \in VCpus
        BY <2>4 DEF Request
      <3> QED BY <2>4, <3>1 DEF Handled, WatchOf, Watched
    <2> QED BY <2>3, <2>5
  <1>3. Delivery!Rewatch(Watched')
    BY <1>1, <1>2 DEF Delivery!Rewatch, Delivery!Waiting
  <1> QED BY <1>1, <1>3 DEF Delivery!Next
\* The state of a vCPU whose flags and request a step keeps stays what it was.
LEMMA StateKept ==
  ASSUME StatesRight, StatesRight', NEW u \in VCpus,
         u \in blocked <=> u \in blocked', u \in responses <=> u \in responses',
         \A q \in Requests : q.vcpu_id = u => q \in Requests'
  PROVE  VCpuState'[u] = VCpuState[u]
  <1>1. CASE u \notin blocked
    BY <1>1 DEF StatesRight
  <1>2. CASE u \in responses
    BY <1>2 DEF StatesRight
  <1>3. CASE u \in blocked \ responses
    <2>1. PICK q \in Requests : q.vcpu_id = u
      BY <1>3 DEF StatesRight
    <2>2. VCpuState[u] = WatchOf(q) /\ VCpuState'[u] = WatchOf(q)
      BY <2>1 DEF StatesRight
    <2> QED BY <2>2
  <1> QED BY <1>1, <1>2, <1>3

\* A step of the listener is a step of the delivery of traps, or none.
LEMMA DeliveryStep ==
  ASSUME TypeOK, RequestHeld, StatesRight, AllHandled,
         TypeOK', StatesRight', AllHandled', [Next]_vars
  PROVE  [Delivery!Next]_<<Watched, VCpuState>>
  <1>1. /\ VCpuState = [v \in VCpus |-> VCpuState[v]]
        /\ VCpuState' = [v \in VCpus |-> VCpuState'[v]]
    BY DEF VCpuState
  <1>2. Requests \subseteq Request /\ ring \in Seq(Request)
    BY RequestsType DEF TypeOK
  <1>3. CASE UNCHANGED <<ring, req, responses, blocked>>
    <2>1. VCpuState' = VCpuState
      BY <1>3 DEF VCpuState, Requests
    <2> QED BY <2>1, DeliveryRewatch
  <1>4. ASSUME NEW r \in Request, TrapStep(r)
        PROVE  [Delivery!Next]_<<Watched, VCpuState>>
    <2> DEFINE v == r.vcpu_id
    <2>1. v \in VCpus /\ v \notin blocked
      BY <1>4 DEF TrapStep, Request
    <2>2. Requests' = Requests \cup {r}
      <3>1. <<r>> \in Seq(Request) /\ ring' = ring \o <<r>>
        BY <1>2, <1>4, AppendIsConcat DEF TrapStep
      <3>2. ToSet(ring') = ToSet(ring) \cup ToSet(<<r>>)
        BY <1>2, <3>1, ConcatElements, ZenonT(60)
      <3>3. ToSet(<<r>>) = {r}
        BY DEF ToSet
      <3> QED BY <1>4, <3>2, <3>3 DEF Requests, TrapStep
    <2>3. ASSUME NEW u \in VCpus, u # v PROVE VCpuState'[u] = VCpuState[u]
      <3>1. u \in blocked <=> u \in blocked'
        BY <1>4, <2>3 DEF TrapStep
      <3>2. u \in responses <=> u \in responses'
        BY <1>4 DEF TrapStep
      <3> QED BY <2>2, <3>1, <3>2, StateKept
    <2>4. VCpuState[v] = <<"running">> /\ VCpuState'[v] = WatchOf(r)
      BY <2>1, <2>2 DEF StatesRight
    <2>5. Handled(r) /\ Watched' = Watched
      <3>1. Handled(r)'
        BY <2>2 DEF AllHandled
      <3> QED BY <1>4, <3>1 DEF TrapStep, Handled, Handles, Watched
    <2>6. WatchOf(r) \in Watched /\ WatchOf(r) \in Watchable
      BY <2>5, HandledWatched
    <2> HIDE DEF v
    <2>7. VCpuState' = [VCpuState EXCEPT ![v] = WatchOf(r)]
      BY <1>1, <2>1, <2>3, <2>4
    <2>8. Delivery!Trap(v, WatchOf(r))
      BY <2>4, <2>5, <2>6, <2>7 DEF Delivery!Trap
    <2> QED BY <2>1, <2>6, <2>8 DEF Delivery!Next
  <1>5. CASE TakeStep
    <2>1. ToSet(ring) = {Head(ring)} \cup ToSet(Tail(ring)) /\ Head(ring) \in Request
      BY <1>2, <1>5, TailElements, HeadTailProperties DEF TakeStep
    <2>2. Requests' = Requests
      BY <1>5, <2>1, NoneAssumption DEF TakeStep, Requests
    <2>3. VCpuState' = VCpuState
      BY <1>5, <2>2 DEF TakeStep, VCpuState
    <2> QED BY <2>3, DeliveryRewatch
  <1>6. CASE AnswerStep
    <2> DEFINE v == req.vcpu_id
    <2>1. req \in Requests /\ v \in VCpus /\ v \in blocked \ responses
            /\ VCpuState[v] = WatchOf(req)
      <3>1. req \in Requests
        BY <1>6, NoneAssumption DEF AnswerStep, Requests
      <3>2. v \in VCpus
        BY <1>6 DEF AnswerStep, Request
      <3> QED BY <3>1, <3>2 DEF StatesRight
    <2>2. ASSUME NEW u \in VCpus, u # v PROVE VCpuState'[u] = VCpuState[u]
      <3>1. \A q \in Requests : q.vcpu_id = u => q \in Requests'
        BY <1>6, <2>2 DEF AnswerStep, Requests
      <3>2. (u \in blocked <=> u \in blocked') /\ (u \in responses <=> u \in responses')
        BY <1>6, <2>2 DEF AnswerStep
      <3> QED BY <3>1, <3>2, StateKept
    <2>3. VCpuState'[v] = <<"answered">>
      BY <1>6, <2>1 DEF AnswerStep, StatesRight
    <2>4. WatchOf(req) \in Watched /\ Watched' = Watched
      <3>1. Handled(req) /\ req \in Request
        BY <1>2, <2>1 DEF AllHandled
      <3>2. Watched' = Watched
        BY <1>6 DEF AnswerStep, Watched
      <3> QED BY <3>1, <3>2, HandledWatched
    <2> HIDE DEF v
    <2>5. VCpuState' = [VCpuState EXCEPT ![v] = <<"answered">>]
      BY <1>1, <2>1, <2>2, <2>3
    <2>6. Delivery!Answer(v)
      BY <2>1, <2>4, <2>5, WatchApart DEF Delivery!Answer, Delivery!Waiting
    <2> QED BY <2>1, <2>6 DEF Delivery!Next
  <1>7. CASE ReleaseStep
    <2>1. Requests' = Requests /\ Watched' = Watched
      BY <1>7 DEF ReleaseStep, Requests, Watched
    <2>2. ASSUME NEW u \in VCpus
          PROVE  VCpuState'[u] = IF VCpuState[u] = <<"answered">> THEN <<"running">>
                                                                  ELSE VCpuState[u]
      <3>1. CASE u \in responses
        BY <1>7, <3>1 DEF ReleaseStep, StatesRight
      <3>2. CASE u \notin responses
        <4>1. VCpuState'[u] = VCpuState[u]
          BY <1>7, <2>1, <3>2, StateKept DEF ReleaseStep
        <4>2. VCpuState[u] # <<"answered">>
          <5>1. CASE u \notin blocked
            BY <5>1 DEF StatesRight
          <5>2. CASE u \in blocked
            <6>1. PICK q \in Requests : q.vcpu_id = u
              BY <3>2, <5>2 DEF StatesRight
            <6>2. VCpuState[u] = WatchOf(q)
              BY <6>1 DEF StatesRight
            <6> QED BY <6>2, WatchApart
          <5> QED BY <5>1, <5>2
        <4> QED BY <4>1, <4>2
      <3> QED BY <3>1, <3>2
    <2>3. Delivery!Release
      BY <1>1, <2>1, <2>2 DEF Delivery!Release
    <2> QED BY <2>3 DEF Delivery!Next
  <1> QED BY <1>3, <1>4, <1>5, <1>6, <1>7, NextRequestStep DEF RequestStep

\* The listener delivers traps as TrapDelivery says: a vCPU that trapped is answered while
\* what it did is still watched, and only then goes on.
THEOREM DeliversTraps == ASSUME PauseHolds, ChangesDeferred PROVE Spec => DeliverySpec
  <1>1. ASSUME Init PROVE AllHandled /\ RequestHeld /\ Delivery!Init
    <2>1. ToSet(ring) = {} /\ Requests = {}
      BY <1>1 DEF Init, Requests, ToSet
    <2>2. Watched = {}
      BY <1>1 DEF Init, Watched, Handles
    <2>3. VCpuState = [v \in VCpus |-> <<"running">>]
      BY <1>1 DEF Init, VCpuState
    <2> QED BY <1>1, <2>1, <2>2, <2>3 DEF Init, AllHandled, RequestHeld, Delivery!Init
  <1>2. /\ TypeOK /\ PagesMatchTable /\ PauseInv /\ SingleStepInv /\ RequestHeld /\ AllHandled
        /\ PendingHandled' /\ TypeOK' /\ [Next]_vars
        => AllHandled' /\ RequestHeld'
    BY AllHandledStep, NextRequestStep
  <1>3. TypeOK /\ OneAnswer => StatesRight
    BY StatesAgree
  <1>4. /\ TypeOK /\ RequestHeld /\ StatesRight /\ AllHandled
        /\ TypeOK' /\ StatesRight' /\ AllHandled' /\ [Next]_vars
        => [Delivery!Next]_<<Watched, VCpuState>>
    BY DeliveryStep
  <1>5. Spec => Delivery!Init /\ [][Delivery!Next]_<<Watched, VCpuState>>
    BY <1>1, <1>2, <1>3, <1>4, TypeCorrect, PagesAgree, PauseCorrect, SingleStepCorrect,
       Delivered, AnsweredOnce, PTL DEF Spec
  <1> QED BY <1>5 DEF DeliverySpec, Delivery!Spec, Delivery!vars
===============================================================================
