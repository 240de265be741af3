----------------------------- MODULE TrapDelivery -----------------------------
(***************************************************************************)
(* What the listener promises to the guest and to its user, without rings, *)
(* tables, queues or single-step flags: a set of things is watched, a vCPU *)
(* that does one of them stops, it is answered while the thing it did is   *)
(* still watched, and only then goes on.  The watched set changes at the   *)
(* user's will, but never under a vCPU that waits for its answer.          *)
(***************************************************************************)
CONSTANTS VCpus, Watchable, Running, Answered

VARIABLES watched,   \* what Xen reports
          state      \* of each vCPU: Running, Answered, or what it waits for

vars == <<watched, state>>

Waiting == {v \in VCpus : state[v] \notin {Running, Answered}}

Init == watched = {} /\ state = [v \in VCpus |-> Running]

\* A vCPU does something watched and stops.
Trap(v, t) ==
  /\ state[v] = Running
  /\ t \in watched
  /\ state' = [state EXCEPT ![v] = t]
  /\ UNCHANGED watched

\* The handler of what v did has run.
Answer(v) ==
  /\ v \in Waiting
  /\ state[v] \in watched
  /\ state' = [state EXCEPT ![v] = Answered]
  /\ UNCHANGED watched

\* Every answered vCPU goes on.
Release ==
  /\ state' = [v \in VCpus |-> IF state[v] = Answered THEN Running ELSE state[v]]
  /\ UNCHANGED watched

Rewatch(new) ==
  /\ new \subseteq Watchable
  /\ \A v \in Waiting : state[v] \in new
  /\ watched' = new
  /\ UNCHANGED state

Next ==
  \/ \E v \in VCpus, t \in Watchable : Trap(v, t)
  \/ \E v \in VCpus : Answer(v)
  \/ Release
  \/ \E new \in SUBSET Watchable : Rewatch(new)

Spec == Init /\ [][Next]_vars

\* Every vCPU that stopped goes on.
Progress == \A v \in VCpus : state[v] # Running ~> state[v] = Running
=============================================================================
