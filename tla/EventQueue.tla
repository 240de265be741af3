----------------------------- MODULE EventQueue -----------------------------
(***************************************************************************)
(* What Xen and the listener expect of the ring page: two queues, of       *)
(* requests and of responses, neither of which loses, repeats or reorders  *)
(* a message.  A request is answered in its turn, or dropped unanswered if *)
(* it speaks another version of the interface.                             *)
(***************************************************************************)
EXTENDS Sequences

CONSTANTS VCpus, None

VARIABLES requests,   \* vCPUs whose request waits, oldest first
          current,    \* the vCPU whose request is being handled, or None
          responses   \* vCPUs whose response Xen has not consumed

Init == requests = <<>> /\ current = None /\ responses = <<>>

Put(v) == requests' = Append(requests, v) /\ UNCHANGED <<current, responses>>

Take == /\ requests # <<>> /\ current = None
        /\ current' = Head(requests) /\ requests' = Tail(requests)
        /\ UNCHANGED responses

Drop == /\ requests # <<>> /\ current = None
        /\ requests' = Tail(requests)
        /\ UNCHANGED <<current, responses>>

Answer == /\ current # None
          /\ responses' = Append(responses, current) /\ current' = None
          /\ UNCHANGED requests

Consume == responses' = <<>> /\ UNCHANGED <<requests, current>>

Next == (\E v \in VCpus : Put(v)) \/ Take \/ Drop \/ Answer \/ Consume

Spec == Init /\ [][Next]_<<requests, current, responses>>
=============================================================================
