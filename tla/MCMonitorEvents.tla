--------------------------- MODULE MCMonitorEvents ---------------------------
(***************************************************************************)
(* MSR_ALL stands for the kinds with a switch in the driver and for the    *)
(* registers in Msrs; an event for privileged calls, which cannot be       *)
(* cleared, turns the switch of debug exceptions, for which there is an    *)
(* event as well; a generic memory event is never found.                   *)
(***************************************************************************)
EXTENDS MonitorEvents

SomeKinds == {"MSR_ALL", "DEBUG_EXCEPTION", "PRIVILEGED_CALL", "RW"}
SomeGeneric == {"RW"}
SomeServes == [k \in SomeKinds |->
  CASE k = "MSR_ALL" -> Msrs
    [] k = "RW" -> {"page_w"}
    [] OTHER -> {k}]
SomeEvKind == [e \in Events |->
  CASE e = "msr" -> "MSR_ALL"
    [] e = "priv" -> "PRIVILEGED_CALL"
    [] e = "debug" -> "DEBUG_EXCEPTION"
    [] e = "rw" -> "RW"]
=============================================================================
