---------------------------- MODULE MCLifecycle ----------------------------
(* Two instances, every stage may fail. *)
EXTENDS Lifecycle

SomeFlags == {{"evtchn"}, {"events", "evtchn"}, {"events", "shm"}}
AnyStage == {"driver", "lookup", "probe", "monitor", "evtchn", "bind", "memsize", "os",
             "getinfo", "pause", "reset"}
=============================================================================
