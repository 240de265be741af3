--------------------------- MODULE Lifecycle_proofs ---------------------------
(***************************************************************************)
(* Theorems about Lifecycle, for any number of instances of the domain,    *)
(* any sets of init flags and any stages that may fail.                    *)
(***************************************************************************)
EXTENDS Lifecycle, FiniteSetTheorems, TLAPS

\* What the event driver holds of an instance (xen_init_events_48).
DriverResources == {"xe", "ring", "xce", "port"}

(***************************************************************************)
(* What an instance holds at each stage.  The first part is what the       *)
(* error path of vmi_init relies on: whoever holds anything of the event   *)
(* driver goes through xen_events_destroy_48.                              *)
(***************************************************************************)
Held(i) ==
  /\ held[i] \cap DriverResources # {} => "events" \in flags[i] /\ "xe" \in held[i]
  /\ pc[i] \in {"none", "resume", "xen"} => held[i] \cap DriverResources = {}
  /\ pc[i] = "none" => held[i] \subseteq {"handle", "name"}
  /\ pc[i] = "monitor" => "events" \in flags[i]
  /\ pc[i] \in {"evtchn", "bind"} => {"xe", "ring"} \subseteq held[i]
  /\ pc[i] = "bind" => "xce" \in held[i]
  /\ pc[i] \in {"finish", "os", "ready"} /\ "events" \in flags[i] =>
       DriverResources \subseteq held[i]
  /\ pc[i] \in {"os", "ready"} /\ "events" \in flags[i] /\ "shm" \notin flags[i] =>
       "tables" \in held[i]
  /\ pc[i] = "disable" => "ring" \notin held[i]
  /\ pc[i] = "listen" => "ring" \in held[i]
  /\ pc[i] = "crashed" => "ring" \in held[i] /\ "port" \notin held[i]

HeldInv == \A i \in Insts : Held(i)

\* The types without the bound on the pause count, which is a theorem of its own.
Types ==
  /\ pc \in [Insts -> Stages \cup Teardown \cup {"none", "ready", "lost", "crashed"}]
  /\ flags \in [Insts -> SUBSET Flags]
  /\ complete \subseteq Insts
  /\ held \in [Insts -> SUBSET Resources]
  /\ owner \in Insts \cup {None}
  /\ trapped \in BOOLEAN
  /\ waiting \in BOOLEAN
  /\ pauses \in Nat
  /\ admin \in BOOLEAN

\* An instance is noted to undo a pause only while its teardown lasts, and whenever its
\* teardown comes to undo one.
ResumingInv ==
  /\ resuming \subseteq {i \in Insts : pc[i] \in {"reset", "listen", "disable", "resume",
                                                  "crashed"}}
  /\ \A i \in Insts : pc[i] = "resume" => i \in resuming

-----------------------------------------------------------------------------
(* Types. *)

Places == Stages \cup Teardown \cup {"none", "ready", "lost", "crashed"}

\* The updates of the two function-valued variables keep their types.
LEMMA GotoType == ASSUME Types, NEW i \in Insts, NEW s \in Places, Goto(i, s)
                  PROVE  pc' \in [Insts -> Places]
  BY DEF Types, Goto, Places

\* Gaining and releasing resources keep their type.
LEMMA HeldType ==
  ASSUME Types, NEW i \in Insts, NEW rs \in SUBSET Resources, Gain(i, rs) \/ Release(i, rs)
  PROVE  held' \in [Insts -> SUBSET Resources]
  BY DEF Types, Gain, Release

\* Every stage of vmi_init and vmi_destroy keeps the types.
LEMMA TypesStep == ASSUME Types, [Next]_vars PROVE Types'
  <1> USE DEF instances, domain
  <1>0. \A i \in Insts, s \in Places : Goto(i, s) => pc' \in [Insts -> Places]
    BY GotoType
  <1>a. \A i \in Insts, rs \in SUBSET Resources :
          Gain(i, rs) \/ Release(i, rs) => held' \in [Insts -> SUBSET Resources]
    BY HeldType
  <1>b. "info" \in Places /\ "xen" \in Places
    BY DEF Places, Teardown
  <1>1. ASSUME NEW i \in Insts, Fail(i) PROVE Types'
    <2>1. pc' \in [Insts -> Places]
      BY <1>0, <1>1, <1>b DEF Fail, Destroying
    <2> QED BY <1>1, <2>1 DEF Fail, Types, Places
  <1>2. ASSUME NEW i \in Insts, Step(i) PROVE Types'
    <2>1. CASE DriverInit(i)
      <3>1. "lookup" \in Places /\ {"xen"} \in SUBSET Resources
        BY DEF Places, Stages, Resources
      <3> QED BY <1>0, <1>a, <1>1, <2>1, <3>1 DEF DriverInit, Types, Places
    <2>14. CASE Lookup(i)
      <3>1. "probe" \in Places /\ {"name"} \in SUBSET Resources
        BY DEF Places, Stages, Resources
      <3> QED BY <1>0, <1>a, <1>1, <2>14, <3>1 DEF Lookup, Types, Places
    <2>2. CASE Probe(i)
      <3>1. "monitor" \in Places /\ "finish" \in Places /\ {"cache"} \in SUBSET Resources
        BY DEF Places, Stages, Resources
      <3> QED BY <1>0, <1>a, <1>1, <2>2, <3>1 DEF Probe, Types, Places
    <2>3. CASE MonitorEnable(i)
      <3>1. "evtchn" \in Places /\ {"xe"} \in SUBSET Resources
              /\ {"xe", "ring"} \in SUBSET Resources
        BY DEF Places, Stages, Resources
      <3> QED BY <1>0, <1>a, <1>b, <2>3, <3>1 DEF MonitorEnable, Types, Places
    <2>4. CASE EvtchnOpen(i)
      <3>1. "bind" \in Places /\ "xce" \in Resources
        BY DEF Places, Stages, Resources
      <3>2. ASSUME held' = [held EXCEPT ![i] = (@ \ {"handle"}) \cup {"xce"}]
            PROVE  held' \in [Insts -> SUBSET Resources]
        BY <3>1, <3>2 DEF Types
      <3> QED BY <1>0, <1>1, <2>4, <3>1, <3>2 DEF EvtchnOpen, Types, Places
    <2>5. CASE Bind(i)
      <3>1. "finish" \in Places /\ {"port"} \in SUBSET Resources
        BY DEF Places, Stages, Resources
      <3> QED BY <1>0, <1>a, <1>1, <2>5, <3>1 DEF Bind, Types, Places
    <2>6. CASE Finish(i)
      <3>1. "os" \in Places /\ "ready" \in Places /\ {"tables"} \in SUBSET Resources
              /\ {} \in SUBSET Resources
        BY DEF Places, Stages, Resources
      <3> QED BY <1>0, <1>a, <1>1, <2>6, <3>1 DEF Finish, Types, Places
    <2>7. CASE InitOs(i)
      <3>1. "lost" \in Places /\ "ready" \in Places /\ {"os"} \in SUBSET Resources
        BY DEF Places, Resources
      <3> QED BY <1>0, <1>a, <2>7, <3>1 DEF InitOs, Types, Places
    <2>8. CASE Info(i) \/ Check(i) \/ Pause(i)
      <3>1. {"check", "pause", "reset"} \subseteq Places
        BY DEF Places, Teardown
      <3>2. pc' \in [Insts -> Places]
        BY <1>0, <2>8, <3>1 DEF Info, Check, Pause
      <3>3. CASE Info(i) \/ Check(i)
        BY <3>2, <3>3 DEF Info, Check, Types, Places
      <3>4. CASE Pause(i)
        <4>1. pauses' = pauses \/ pauses' = pauses + 1
          BY <3>4 DEF Pause
        <4>2. pauses' \in Nat
          BY <4>1 DEF Types
        <4> QED BY <3>2, <3>4, <4>2 DEF Pause, Types, Places
      <3> QED BY <2>8, <3>3, <3>4
    <2>9. CASE Reset(i)
      <3>1. "listen" \in Places /\ "disable" \in Places
        BY DEF Places, Teardown
      <3> QED BY <1>0, <2>9, <3>1 DEF Reset, Types, Places, Fails
    <2>10. CASE LastListen(i)
      <3>1. "disable" \in Places /\ "crashed" \in Places /\ {"ring"} \in SUBSET Resources
        BY DEF Places, Teardown, Resources
      <3>2. pc' \in [Insts -> Places] /\ held' \in [Insts -> SUBSET Resources]
        BY <1>0, <1>a, <2>10, <3>1 DEF LastListen, Types
      <3>3. trapped' \in BOOLEAN /\ waiting' \in BOOLEAN
        <4>1. CASE "port" \notin held[i]
          BY <2>10, <4>1, Zenon DEF LastListen, Types
        <4>2. CASE "port" \in held[i]
          <5>1. \E called, traps : trapped' = (trapped \/ (called /\ traps))
            BY <2>10, <4>2, Zenon DEF LastListen
          <5>2. waiting' = (waiting /\ owner # i)
            BY <2>10, <4>2, Zenon DEF LastListen
          <5> QED BY <5>1, <5>2, SMT
        <4> QED BY <4>1, <4>2
      <3>4. pauses' \in Nat
        BY <2>10, SMT DEF LastListen, Types
      <3> QED BY <2>10, <3>2, <3>3, <3>4 DEF LastListen, Types, Places
    <2>11. CASE CloseEvents(i)
      <3>1. "resume" \in Places /\ {"port", "xce", "xe"} \in SUBSET Resources
        BY DEF Places, Teardown, Resources
      <3>2. pc' \in [Insts -> Places] /\ held' \in [Insts -> SUBSET Resources]
        BY <1>0, <1>a, <1>b, <2>11, <3>1 DEF CloseEvents
      <3> QED BY <2>11, <3>2 DEF CloseEvents, Types, Places
    <2>12. CASE Resume(i)
      BY <1>0, <1>b, <2>12 DEF Resume, Types, Places
    <2>13. CASE FreeInstance(i)
      <3>1. "none" \in Places /\ {"xen", "tables", "os", "cache", "vmi"} \in SUBSET Resources
        BY DEF Places, Resources
      <3>2. pc' \in [Insts -> Places] /\ held' \in [Insts -> SUBSET Resources]
        BY <1>0, <1>a, <2>13, <3>1 DEF FreeInstance
      <3> QED BY <2>13, <3>2 DEF FreeInstance, Types, Places
    <2> QED
      BY <1>2, <2>1, <2>2, <2>3, <2>4, <2>5, <2>6, <2>7, <2>8, <2>9, <2>10, <2>11, <2>12,
         <2>13, <2>14 DEF Step
  <1>3. ASSUME NEW i \in Insts, User(i) PROVE Types'
    <2>1. ASSUME NEW fs \in FlagSets, NEW whole \in BOOLEAN, Start(i, fs, whole)
          PROVE  Types'
      <3>1. "driver" \in Places /\ "vmi" \in Resources /\ "handle" \in Resources
        BY DEF Places, Stages, Resources
      <3>2. pc' \in [Insts -> Places]
        BY <1>0, <2>1, <3>1 DEF Start
      <3>3. held' \in [Insts -> SUBSET Resources] /\ flags' \in [Insts -> SUBSET Flags]
        BY <2>1, <3>1, FlagsAssumption DEF Start, Types
      <3> QED BY <2>1, <3>2, <3>3 DEF Start, Types, Places
    <2>2. CASE Destroy(i)
      BY <1>1, <2>2 DEF Destroy
    <2>3. CASE Register(i) \/ Listen(i)
      BY <2>3 DEF Register, Listen, Types
    <2> QED BY <1>3, <2>1, <2>2, <2>3 DEF User
  <1>4. CASE Trap \/ AdminPause \/ AdminResume
    <2>1. pauses' \in Nat
      BY <1>4 DEF Trap, AdminPause, AdminResume, Types
    <2> QED BY <1>4, <2>1 DEF Trap, AdminPause, AdminResume, Types
  <1>5. CASE UNCHANGED vars
    BY <1>5 DEF vars, Types
  <1> QED BY <1>2, <1>3, <1>4, <1>5 DEF Next

\* The types hold throughout.
LEMMA TypesCorrect == Spec => []Types
  <1>1. ASSUME Init PROVE Types
    <2>1. flags \in [Insts -> SUBSET Flags] /\ held \in [Insts -> SUBSET Resources]
      BY <1>1 DEF Init
    <2> QED BY <1>1, <2>1 DEF Init, Types
  <1> QED BY <1>1, TypesStep, PTL DEF Spec

-----------------------------------------------------------------------------
(* What instances hold. *)

\* A step of one instance is nothing to the others.
LEMMA OthersKeep ==
  ASSUME Types, [Next]_vars
  PROVE  \/ \A j \in Insts : pc'[j] = pc[j] /\ held'[j] = held[j] /\ flags'[j] = flags[j]
         \/ \E i \in Insts : /\ Step(i) \/ User(i)
                             /\ \A j \in Insts \ {i} : /\ pc'[j] = pc[j]
                                                       /\ held'[j] = held[j]
                                                       /\ flags'[j] = flags[j]
  <1> USE DEF instances, Types, Goto, Gain, Release
  <1>1. ASSUME NEW i \in Insts, Step(i), NEW j \in Insts \ {i}
        PROVE  pc'[j] = pc[j] /\ held'[j] = held[j] /\ flags'[j] = flags[j]
    <2>1. CASE DriverInit(i) \/ Lookup(i) \/ Probe(i) \/ EvtchnOpen(i) \/ Bind(i) \/ Finish(i)
      BY <2>1 DEF DriverInit, Lookup, Probe, EvtchnOpen, Bind, Finish, Fail
    <2>2. CASE MonitorEnable(i) \/ InitOs(i)
      BY <2>2 DEF MonitorEnable, InitOs
    <2>3. CASE Info(i) \/ Check(i) \/ Pause(i) \/ Reset(i)
      BY <2>3 DEF Info, Check, Pause, Reset
    <2>4. CASE LastListen(i) \/ CloseEvents(i) \/ Resume(i) \/ FreeInstance(i)
      BY <2>4 DEF LastListen, CloseEvents, Resume, FreeInstance
    <2> QED BY <1>1, <2>1, <2>2, <2>3, <2>4 DEF Step
  <1>2. ASSUME NEW i \in Insts, User(i), NEW j \in Insts \ {i}
        PROVE  pc'[j] = pc[j] /\ held'[j] = held[j] /\ flags'[j] = flags[j]
    BY <1>2 DEF User, Start, Destroy, Fail, Register, Listen
  <1>3. CASE Trap \/ AdminPause \/ AdminResume
    BY <1>3 DEF Trap, AdminPause, AdminResume
  <1>4. CASE UNCHANGED vars
    BY <1>4 DEF vars
  <1> QED BY <1>1, <1>2, <1>3, <1>4 DEF Next

\* The error path of vmi_init begins where what the instance holds says.
LEMMA HeldFail ==
  ASSUME Types, NEW i \in Insts, Held(i), Fail(i), pc[i] \notin {"disable"}
  PROVE  Held(i)'
  BY DEF Fail, Destroying, Goto, Types, Held, DriverResources

\* The stages of vmi_init and vmi_init_complete.
LEMMA HeldInitStep ==
  ASSUME Types, NEW i \in Insts, Held(i),
         \/ DriverInit(i) \/ Lookup(i) \/ Probe(i) \/ MonitorEnable(i) \/ EvtchnOpen(i)
         \/ Bind(i) \/ Finish(i) \/ InitOs(i)
  PROVE  Held(i)'
  <1> USE DEF Goto, Gain, Types, Held, DriverResources
  <1>1. CASE Fail(i) /\ pc[i] # "disable"
    BY <1>1, HeldFail
  <1>2. CASE DriverInit(i) /\ ~Fail(i)
    BY <1>2 DEF DriverInit
  <1>9. CASE Lookup(i) /\ ~Fail(i)
    BY <1>9, ZenonT(60) DEF Lookup
  <1>3. CASE Probe(i) /\ ~Fail(i)
    BY <1>3, ZenonT(60) DEF Probe
  <1>4. CASE MonitorEnable(i)
    BY <1>4 DEF MonitorEnable
  <1>5. CASE EvtchnOpen(i) /\ ~Fail(i)
    BY <1>5, ZenonT(60) DEF EvtchnOpen
  <1>6. CASE Bind(i) /\ ~Fail(i)
    <2>1. /\ pc[i] = "bind" /\ pc'[i] = "finish"
          /\ held'[i] = held[i] \cup {"port"} /\ flags'[i] = flags[i]
      BY <1>6 DEF Bind
    <2> QED BY <2>1
  <1>7. CASE Finish(i) /\ ~Fail(i)
    <2>1. /\ pc[i] = "finish" /\ pc'[i] \in {"os", "ready"}
          /\ held'[i] = held[i] \cup IF "events" \in flags[i] /\ "shm" \notin flags[i]
                                   THEN {"tables"} ELSE {}
          /\ flags'[i] = flags[i]
      BY <1>7 DEF Finish
    <2> QED BY <2>1
  <1>8. CASE InitOs(i)
    BY <1>8, ZenonT(60) DEF InitOs
  <1> QED BY <1>1, <1>2, <1>3, <1>4, <1>5, <1>6, <1>7, <1>8, <1>9
             DEF DriverInit, Lookup, Probe, EvtchnOpen, Bind, Finish

\* The stages of vmi_destroy.
LEMMA HeldDestroyStep ==
  ASSUME Types, NEW i \in Insts, Held(i),
         \/ Info(i) \/ Check(i) \/ Pause(i) \/ Reset(i) \/ LastListen(i)
         \/ CloseEvents(i) \/ Resume(i) \/ FreeInstance(i)
  PROVE  Held(i)'
  <1> USE DEF Goto, Release, Types, Held, DriverResources
  <1>1. CASE Info(i) \/ Check(i) \/ Pause(i)
    BY <1>1 DEF Info, Check, Pause
  <1>2. CASE Reset(i)
    BY <1>2 DEF Reset
  <1>3. CASE LastListen(i)
    BY <1>3 DEF LastListen
  <1>4. CASE CloseEvents(i)
    BY <1>4 DEF CloseEvents
  <1>5. CASE Resume(i)
    BY <1>5 DEF Resume
  <1>6. CASE FreeInstance(i)
    BY <1>6 DEF FreeInstance, Resources
  <1> QED BY <1>1, <1>2, <1>3, <1>4, <1>5, <1>6

\* The user's own calls.
LEMMA HeldUserStep == ASSUME Types, NEW i \in Insts, Held(i), User(i) PROVE Held(i)'
  <1> USE DEF Goto, Types, Held, DriverResources
  <1>1. ASSUME NEW fs \in FlagSets, NEW whole \in BOOLEAN, Start(i, fs, whole)
        PROVE  Held(i)'
    BY <1>1 DEF Start
  <1>2. CASE Destroy(i)
    BY <1>2, HeldFail DEF Destroy
  <1>3. CASE Register(i) \/ Listen(i)
    BY <1>3 DEF Register, Listen, instances
  <1> QED BY <1>1, <1>2, <1>3 DEF User

\* What each instance holds, throughout.
LEMMA HeldCorrect == Spec => []HeldInv
  <1>1. ASSUME Init PROVE HeldInv
    BY <1>1 DEF Init, HeldInv, Held, DriverResources
  <1>2. ASSUME Types, HeldInv, [Next]_vars PROVE HeldInv'
    <2>1. ASSUME NEW j \in Insts, pc'[j] = pc[j], held'[j] = held[j], flags'[j] = flags[j]
          PROVE  Held(j)'
      BY <1>2, <2>1 DEF HeldInv, Held
    <2>2. ASSUME NEW i \in Insts, Step(i) \/ User(i) PROVE Held(i)'
      BY <1>2, <2>2, HeldInitStep, HeldDestroyStep, HeldUserStep DEF HeldInv, Step
    <2> QED BY <1>2, <2>1, <2>2, OthersKeep DEF HeldInv
  <1> QED BY <1>1, <1>2, TypesCorrect, PTL DEF Spec

-----------------------------------------------------------------------------
(* The pause count. *)

\* The notes of a pause to undo, over every step.
LEMMA ResumingStep == ASSUME Types, ResumingInv, [Next]_vars PROVE ResumingInv'
  <1> USE DEF instances, domain, Types, ResumingInv, Goto
  <1>1. ASSUME NEW i \in Insts, Fail(i), pc[i] \in Stages \cup {"ready"} PROVE ResumingInv'
    BY <1>1 DEF Fail, Destroying, Stages
  <1>2. ASSUME NEW i \in Insts, Step(i) PROVE ResumingInv'
    <2>1. CASE DriverInit(i) \/ Lookup(i) \/ Probe(i)
      BY <1>1, <2>1 DEF DriverInit, Lookup, Probe, Stages
    <2>2. CASE MonitorEnable(i) \/ InitOs(i)
      BY <2>2 DEF MonitorEnable, InitOs
    <2>3. CASE EvtchnOpen(i) \/ Bind(i) \/ Finish(i)
      BY <1>1, <2>3 DEF EvtchnOpen, Bind, Finish, Stages
    <2>4. CASE Info(i) \/ Check(i) \/ Pause(i)
      BY <2>4 DEF Info, Check, Pause
    <2>5. CASE Reset(i) \/ LastListen(i)
      BY <2>5 DEF Reset, LastListen
    <2>6. CASE CloseEvents(i) \/ Resume(i) \/ FreeInstance(i)
      BY <2>6 DEF CloseEvents, Resume, FreeInstance
    <2> QED BY <1>2, <2>1, <2>2, <2>3, <2>4, <2>5, <2>6 DEF Step
  <1>3. ASSUME NEW i \in Insts, User(i) PROVE ResumingInv'
    <2>1. ASSUME NEW fs \in FlagSets, NEW whole \in BOOLEAN, Start(i, fs, whole)
          PROVE  ResumingInv'
      BY <2>1 DEF Start
    <2>2. CASE Destroy(i)
      BY <1>1, <2>2 DEF Destroy
    <2>3. CASE Register(i) \/ Listen(i)
      BY <2>3 DEF Register, Listen
    <2> QED BY <1>3, <2>1, <2>2, <2>3 DEF User
  <1>4. CASE Trap \/ AdminPause \/ AdminResume
    BY <1>4 DEF Trap, AdminPause, AdminResume
  <1>5. CASE UNCHANGED vars
    BY <1>5 DEF vars
  <1> QED BY <1>2, <1>3, <1>4, <1>5 DEF Next

\* Noting and forgetting an instance counts one up and down.
LEMMA ResumingCount ==
  ASSUME ResumingInv
  PROVE  /\ IsFiniteSet(resuming) /\ Cardinality(resuming) \in Nat
         /\ Cardinality(resuming) <= Cardinality(Insts)
         /\ \A i \in Insts \ resuming :
              Cardinality(resuming \cup {i}) = Cardinality(resuming) + 1
         /\ \A i \in Insts : Cardinality(resuming) <= Cardinality(resuming \cup {i})
         /\ \A i \in resuming : Cardinality(resuming \ {i}) = Cardinality(resuming) - 1
  <1>1. IsFiniteSet(resuming) /\ Cardinality(resuming) <= Cardinality(Insts)
    BY InstsAssumption, FS_Subset DEF ResumingInv
  <1>2. Cardinality(resuming) \in Nat
    BY <1>1, FS_CardinalityType
  <1>3. \A i \in Insts : i \notin resuming =>
          Cardinality(resuming \cup {i}) = Cardinality(resuming) + 1
    BY <1>1, FS_AddElement
  <1>4. \A i \in resuming : resuming \cup {i} = resuming
    OBVIOUS
  <1>5. \A i \in resuming : Cardinality(resuming \ {i}) = Cardinality(resuming) - 1
    BY <1>1, FS_RemoveElement
  <1> QED BY <1>1, <1>2, <1>3, <1>4, <1>5

\* Xen counts no pause but the administrator's and those that instances have noted.
Noted == pauses <= Cardinality(resuming) + (IF admin THEN 1 ELSE 0)

\* Whoever counts a pause up has noted it or is the administrator.
LEMMA PausesStep ==
  ASSUME Types, ResumingInv, Noted, [Next]_vars
  PROVE  Noted'
  <1> DEFINE undo == Cardinality(resuming)
  <1>0. /\ undo \in Nat
        /\ \A i \in Insts \ resuming : Cardinality(resuming \cup {i}) = undo + 1
        /\ \A i \in Insts : undo <= Cardinality(resuming \cup {i})
                            /\ Cardinality(resuming \cup {i}) \in Nat
        /\ \A i \in resuming : Cardinality(resuming \ {i}) = undo - 1
    <2>1. \A i \in Insts : Cardinality(resuming \cup {i}) \in Nat
      BY ResumingCount, FS_AddElement, FS_CardinalityType
    <2> QED BY <2>1, ResumingCount
  <1>1. /\ pauses \in Nat /\ admin \in BOOLEAN
        /\ pauses <= undo + (IF admin THEN 1 ELSE 0)
    BY DEF Types, Noted
  <1> HIDE DEF undo
  <1>2. CASE UNCHANGED <<resuming, pauses, admin>>
    BY <1>2 DEF Noted
  <1>3. ASSUME NEW i \in Insts, Step(i), ~UNCHANGED <<resuming, pauses, admin>>
        PROVE  Noted'
    <2>1. CASE Check(i)
      <3>1. /\ resuming' = resuming \cup {i} \/ resuming' = resuming
            /\ UNCHANGED <<pauses, admin>>
        BY <2>1 DEF Check, domain
      <3> QED BY <1>0, <1>1, <3>1 DEF Noted, undo
    <2>2. CASE Pause(i)
      <3>1. /\ resuming' = resuming \cup {i} /\ pauses' = pauses + 1 /\ admin' = admin
            /\ pc[i] = "pause"
        BY <1>3, <2>2 DEF Pause
      <3>2. i \notin resuming
        BY <3>1 DEF ResumingInv
      <3> QED BY <1>0, <1>1, <3>1, <3>2 DEF Noted
    <2>3. CASE LastListen(i)
      <3>1. /\ UNCHANGED <<resuming, admin>>
            /\ pauses' = pauses \/ (pauses > 0 /\ pauses' = pauses - 1)
        BY <2>3 DEF LastListen
      <3> QED BY <1>0, <1>1, <3>1 DEF Noted, undo
    <2>4. CASE Resume(i)
      <3>1. /\ resuming' = resuming \ {i} /\ admin' = admin /\ pc[i] = "resume"
            /\ pauses' = IF pauses > 0 THEN pauses - 1 ELSE 0
        BY <2>4 DEF Resume
      <3>2. i \in resuming
        BY <3>1 DEF ResumingInv
      <3>3. undo - 1 \in Nat
        <4>1. IsFiniteSet(resuming \ {i})
          BY ResumingCount, FS_RemoveElement
        <4> QED BY <1>0, <3>2, <4>1, FS_CardinalityType
      <3> QED BY <1>0, <1>1, <3>1, <3>2, <3>3 DEF Noted
    <2>5. CASE \/ DriverInit(i) \/ Lookup(i) \/ Probe(i) \/ MonitorEnable(i) \/ EvtchnOpen(i)
               \/ Bind(i) \/ Finish(i) \/ InitOs(i) \/ Info(i)
      BY <1>3, <2>5 DEF DriverInit, Lookup, Probe, MonitorEnable, EvtchnOpen, Bind, Finish, InitOs,
                        Info, Fail, domain
    <2>6. CASE Reset(i) \/ CloseEvents(i) \/ FreeInstance(i)
      BY <1>3, <2>6 DEF Reset, CloseEvents, FreeInstance, domain
    <2> QED BY <1>3, <2>1, <2>2, <2>3, <2>4, <2>5, <2>6 DEF Step
  <1>4. ASSUME NEW i \in Insts, User(i) PROVE UNCHANGED <<resuming, pauses, admin>>
    BY <1>4 DEF User, Start, Destroy, Fail, Register, Listen, instances, domain
  <1>5. CASE Trap
    BY <1>2, <1>5 DEF Trap, instances
  <1>6. CASE AdminPause
    BY <1>0, <1>1, <1>6 DEF AdminPause, Noted, instances, undo
  <1>7. CASE AdminResume
    BY <1>0, <1>1, <1>7 DEF AdminResume, Noted, instances, undo
  <1>8. CASE UNCHANGED vars
    BY <1>2, <1>8 DEF vars, instances, domain
  <1> QED BY <1>2, <1>3, <1>4, <1>5, <1>6, <1>7, <1>8 DEF Next

\* The pauses counted, throughout.
LEMMA NotedCorrect == Spec => []Noted
  <1>1. ASSUME Init PROVE ResumingInv /\ Noted
    <2>1. Cardinality({}) = 0
      BY FS_EmptySet
    <2> QED BY <1>1, <2>1 DEF Init, ResumingInv, Noted
  <1>2. ASSUME Types, ResumingInv /\ Noted, [Next]_vars
        PROVE  (ResumingInv /\ Noted)'
    BY <1>2, ResumingStep, PausesStep
  <1> QED BY <1>1, <1>2, TypesCorrect, PTL DEF Spec

\* The notes, throughout.
LEMMA ResumingCorrect == Spec => []ResumingInv
  <1>1. ASSUME Init PROVE ResumingInv
    BY <1>1 DEF Init, ResumingInv
  <1> QED BY <1>1, ResumingStep, TypesCorrect, PTL DEF Spec

(***************************************************************************)
(* The domain is not left paused (xen_events_destroy_48 and the pauses of  *)
(* others): besides its administrator's, Xen counts the pauses of          *)
(* teardowns that go on to undo them and those of programs that died, and  *)
(* a program dies only in a vmi_init that failed between the monitor ring  *)
(* and its port.  The latter pauses stay.                                  *)
(***************************************************************************)
THEOREM PausesUndone == Spec => []NotLeftPaused
  <1>1. ASSUME HeldInv, ResumingInv, Noted PROVE NotLeftPaused
    <2>1. Cardinality(resuming) = Cardinality(resuming \ Abandoned) + Cardinality(Abandoned)
      <3> DEFINE kept == resuming \ Abandoned
      <3>1. IsFiniteSet(resuming) /\ Abandoned \subseteq resuming
        BY <1>1, ResumingCount DEF Abandoned
      <3>2. IsFiniteSet(Abandoned) /\ IsFiniteSet(kept)
        BY <3>1, FS_Subset
      <3>3. kept \cap Abandoned = {} /\ kept \cup Abandoned = resuming
        BY <3>1
      <3> HIDE DEF kept
      <3>4. Cardinality(kept \cup Abandoned)
              = Cardinality(kept) + Cardinality(Abandoned) - Cardinality(kept \cap Abandoned)
        BY <3>2, FS_Union
      <3>5. Cardinality(resuming) = Cardinality(kept) + Cardinality(Abandoned) - Cardinality({})
        BY <3>3, <3>4
      <3>6. Cardinality({}) = 0
        BY FS_EmptySet
      <3>7. Cardinality(kept) \in Nat /\ Cardinality(Abandoned) \in Nat
        BY <3>2, FS_CardinalityType
      <3>8. Cardinality(resuming) = Cardinality(kept) + Cardinality(Abandoned)
        BY <3>5, <3>6, <3>7
      <3> QED BY <3>8 DEF kept
    <2>2. \A i \in Abandoned : "ring" \in held[i] /\ "port" \notin held[i]
      BY <1>1 DEF Abandoned, ResumingInv, HeldInv, Held
    <2> QED BY <1>1, <2>1, <2>2 DEF Noted, NotLeftPaused
  <1> QED BY <1>1, HeldCorrect, ResumingCorrect, NotedCorrect, PTL

-----------------------------------------------------------------------------
(* The monitor ring, and all of it together. *)

\* The ring has at most one owner, which will disable it.
LEMMA MonitorStep ==
  ASSUME Types, HeldInv, MonitorReturned, [Next]_vars
  PROVE  MonitorReturned'
  <1> USE DEF instances, domain, Types, MonitorReturned, Goto, Gain, Release
  <1>0. \A i \in Insts : Held(i)
    BY DEF HeldInv
  <1>1. ASSUME NEW i \in Insts, Fail(i), pc[i] \in Stages \cup {"ready"}
        PROVE  MonitorReturned'
    BY <1>1 DEF Fail, Destroying, Stages
  <1>2. ASSUME NEW i \in Insts, Step(i) PROVE MonitorReturned'
    <2>1. CASE DriverInit(i) \/ Lookup(i) \/ Probe(i)
      BY <1>1, <2>1, ZenonT(60) DEF DriverInit, Lookup, Probe, Stages
    <2>2. CASE MonitorEnable(i)
      <3>1. CASE owner' = i
        BY <2>2, <3>1, InstsAssumption DEF MonitorEnable
      <3>2. CASE owner' = owner
        <4>1. /\ pc[i] = "monitor" /\ pc'[i] # "none"
              /\ held' = [held EXCEPT ![i] = @ \cup {"xe"}]
                 \/ held' = [held EXCEPT ![i] = @ \cup {"xe", "ring"}]
              /\ \A j \in Insts \ {i} : pc'[j] = pc[j]
          BY <2>2 DEF MonitorEnable
        <4> QED BY <3>2, <4>1
      <3> QED BY <2>2, <3>1, <3>2 DEF MonitorEnable
    <2>3. CASE InitOs(i) \/ EvtchnOpen(i)
      BY <1>1, <2>3, ZenonT(60) DEF InitOs, EvtchnOpen, Stages
    <2>4. CASE Bind(i) \/ Finish(i)
      <3>1. CASE Fail(i) /\ pc[i] \in Stages
        BY <1>1, <3>1
      <3>2. CASE \E rs : Gain(i, rs) /\ pc[i] \in {"bind", "finish"} /\ owner' = owner
                        /\ \E s \in {"finish", "os", "ready"} : Goto(i, s)
        BY <3>2
      <3> QED BY <2>4, <3>1, <3>2 DEF Bind, Finish, Stages
    <2>5. CASE Info(i) \/ Check(i) \/ Pause(i)
      BY <2>5 DEF Info, Check, Pause
    <2>6. CASE Reset(i) \/ LastListen(i)
      BY <2>6 DEF Reset, LastListen
    <2>7. CASE CloseEvents(i) \/ Resume(i)
      BY <2>7, InstsAssumption DEF CloseEvents, Resume
    <2>8. CASE FreeInstance(i)
      BY <1>0, <2>8 DEF FreeInstance, Held, DriverResources
    <2> QED BY <1>2, <2>1, <2>2, <2>3, <2>5, <2>6, <2>7, <2>8, <2>4 DEF Step
  <1>3. ASSUME NEW i \in Insts, User(i) PROVE MonitorReturned'
    <2>1. ASSUME NEW fs \in FlagSets, NEW whole \in BOOLEAN, Start(i, fs, whole)
          PROVE  MonitorReturned'
      BY <2>1 DEF Start
    <2>2. CASE Destroy(i)
      BY <1>1, <2>2 DEF Destroy
    <2>3. CASE Register(i) \/ Listen(i)
      BY <2>3 DEF Register, Listen
    <2> QED BY <1>3, <2>1, <2>2, <2>3 DEF User
  <1>4. CASE Trap \/ AdminPause \/ AdminResume
    BY <1>4 DEF Trap, AdminPause, AdminResume
  <1>5. CASE UNCHANGED vars
    BY <1>5 DEF vars
  <1> QED BY <1>2, <1>3, <1>4, <1>5 DEF Next

(***************************************************************************)
(* After every stage of vmi_init and vmi_destroy, also one that failed,    *)
(* what was acquired is with an instance that can use it, or returned, but *)
(* for the copy of the domain's name, which nobody frees, and a handle of  *)
(* the user that was never taken over; an instance with events is ready to *)
(* listen; and the ring of the domain does not outlive its owner.  Nothing *)
(* is said of what crashed instances, and those that vmi_init_complete     *)
(* loses, keep.                                                            *)
(***************************************************************************)
THEOREM ResourcesReturned == Spec => []Returned
  <1>1. ASSUME Init PROVE MonitorReturned
    BY <1>1 DEF Init, MonitorReturned
  <1>2. Spec => []MonitorReturned
    BY <1>1, MonitorStep, TypesCorrect, HeldCorrect, PTL DEF Spec
  <1>3. ASSUME Types, HeldInv, ResumingInv, Noted, MonitorReturned PROVE Returned
    <2>1. NothingLeft /\ ReadyToListen
      BY <1>3 DEF HeldInv, Held, NothingLeft, ReadyToListen, DriverResources
    <2>2. pauses \in 0 .. (1 + Cardinality(Insts))
      <3>1. Cardinality(resuming) <= Cardinality(Insts) /\ Cardinality(resuming) \in Nat
        BY <1>3, ResumingCount
      <3>2. Cardinality(Insts) \in Nat
        BY InstsAssumption, FS_CardinalityType
      <3> QED BY <1>3, <3>1, <3>2 DEF Types, Noted
    <2>3. TypeOK
      BY <1>3, <2>2 DEF Types, ResumingInv, TypeOK
    <2> QED BY <1>3, <2>1, <2>3 DEF Returned
  <1> QED BY <1>2, <1>3, TypesCorrect, HeldCorrect, ResumingCorrect, NotedCorrect, PTL
=============================================================================
