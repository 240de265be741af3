----------------------------- MODULE EventRing -----------------------------
(***************************************************************************)
(* The ring page and the event channel between Xen and the listener of     *)
(* driver/xen/xen_events_48.c: requests and responses share the slots of   *)
(* one ring, indices count modulo 2^32, each side sees only some of them,  *)
(* and a poll with a timeout waits for the channel.  What a handler does   *)
(* is EventListener's matter: here it succeeds or fails, and may defer     *)
(* work, which makes the listener pause the domain and drain the ring once *)
(* more.  pc is the place in xen_events_listen_48:                         *)
(*   idle       between two calls                                          *)
(*   poll       in wait_for_event_or_timeout                               *)
(*   unmask     between xc_evtchn_pending and xc_evtchn_unmask             *)
(*   requests   at the head of process_requests' loop                      *)
(*   handle     one request is taken from the ring                         *)
(*   deferred   the domain is to be paused for a second pass               *)
(*   notify     about to signal the event channel                          *)
(***************************************************************************)
EXTENDS Integers, Sequences, FiniteSets

CONSTANTS
  VCpus,
  Size,         \* RING_SIZE, a power of two
  Width,        \* 2^32, the range of an index
  Versions,     \* interface versions of Xen: TRUE the expected one, FALSE another
  MayFail,      \* calls that may fail: "poll", "unmask", "notify"
  None

ASSUME SizeAssumption == /\ Size \in Nat \ {0} /\ Width \in Nat
                         /\ Width > Size /\ Width % Size = 0
ASSUME VersionAssumption == Versions \subseteq BOOLEAN
ASSUME NoneAssumption == None \notin VCpus \cup [rsp : BOOLEAN, vcpu : VCpus]
ASSUME FailAssumption == MayFail \subseteq {"poll", "unmask", "notify"}

VARIABLES
  ring,         \* the slots: requests, and over them responses
  req_prod, rsp_prod,   \* the shared indices (sring)
  req_cons,     \* the listener's (back_ring); its rsp_prod_pvt is always rsp_prod
  rsp_cons,     \* Xen's (front ring)
  version,      \* Xen's interface is the expected one
  waiting,      \* vCPUs that trapped while the ring was full, in Xen's wait queue
  blocked,      \* vCPUs with a request, until Xen consumes the response
  port, masked, \* the event channel: an event is pending; it is masked
  paused,       \* the domain
  pc, second,   \* where the listener is; in its second pass
  req,          \* the vCPU of the request being handled, or None
  deferred,     \* a callback left a clear or a swap to the listener
  vrc,          \* its result so far, and the one it returned
  served        \* vCPUs with a request on the ring when the call began

indices == <<req_prod, rsp_prod, req_cons, rsp_cons>>
channel == <<port, masked>>
xen     == <<version, waiting, blocked, paused>>
locals  == <<pc, second, req, deferred, vrc, served>>
vars    == <<ring, indices, xen, channel, locals>>

Request(v) == [rsp |-> FALSE, vcpu |-> v]
Response(v) == [rsp |-> TRUE, vcpu |-> v]

\* Unsigned arithmetic of RING_IDX, and the slot of an index.
Plus(i, n) == (i + n) % Width
Minus(i, j) == (i - j) % Width
Slot(i) == i % Size

Result(call) == IF call \in MayFail THEN BOOLEAN ELSE {TRUE}

Init ==
  /\ ring = [i \in 0 .. Size - 1 |-> None]
  /\ req_prod = 0 /\ rsp_prod = 0 /\ req_cons = 0 /\ rsp_cons = 0
  /\ version \in Versions
  /\ waiting = {} /\ blocked = {}
  /\ port = FALSE /\ masked = FALSE /\ paused = FALSE
  /\ pc = "idle" /\ second = FALSE /\ req = None /\ deferred = FALSE
  /\ vrc = TRUE /\ served = {}

-----------------------------------------------------------------------------
(* Xen. *)

FreeRequests == Size - Minus(req_prod, rsp_cons)

PutRequest(v) ==
  /\ FreeRequests > 0
  /\ ring' = [ring EXCEPT ![Slot(req_prod)] = Request(v)]
  /\ req_prod' = Plus(req_prod, 1)
  /\ blocked' = blocked \cup {v}
  /\ port' = TRUE
  /\ UNCHANGED <<rsp_prod, req_cons, rsp_cons, version, paused, masked, locals>>

\* A vCPU traps: its request goes on the ring, or it waits for a free slot.
Trap(v) ==
  /\ ~paused /\ v \notin blocked \cup waiting
  /\ IF FreeRequests > 0
       THEN PutRequest(v) /\ UNCHANGED waiting
       ELSE /\ waiting' = waiting \cup {v}
            /\ UNCHANGED <<ring, indices, version, blocked, paused, channel, locals>>

\* A slot has become free: a waiting vCPU goes on with its request.
Enqueue(v) ==
  /\ ~paused /\ v \in waiting
  /\ PutRequest(v)
  /\ waiting' = waiting \ {v}

-----------------------------------------------------------------------------
(* wait_for_event_or_timeout. *)

\* Vcpus of the n requests that follow index i.
VCpusFrom(i, n) == {ring[Slot(Plus(i, k))].vcpu : k \in 0 .. n - 1}

EventsListen(timeout) ==
  /\ pc = "idle"
  /\ pc' = IF timeout > 0 THEN "poll" ELSE "requests"
  /\ vrc' = TRUE
  /\ served' = VCpusFrom(req_cons, Minus(req_prod, req_cons))
  /\ UNCHANGED <<ring, indices, xen, channel, second, req, deferred>>

Readable == port /\ ~masked

PollTimeout ==
  /\ pc = "poll" /\ ~Readable
  /\ pc' = "requests"
  /\ UNCHANGED <<ring, indices, xen, channel, second, req, deferred, vrc, served>>

\* poll or xc_evtchn_pending reports an error.
PollFails ==
  /\ pc = "poll" /\ FALSE \in Result("poll")
  /\ pc' = "idle" /\ vrc' = FALSE
  /\ UNCHANGED <<ring, indices, xen, channel, second, req, deferred, served>>

\* xc_evtchn_pending takes the event and leaves the port masked.
PollReady ==
  /\ pc = "poll" /\ Readable
  /\ port' = FALSE /\ masked' = TRUE
  /\ pc' = "unmask"
  /\ UNCHANGED <<ring, indices, xen, second, req, deferred, vrc, served>>

Unmask ==
  /\ pc = "unmask"
  /\ \E ok \in Result("unmask") :
       /\ masked' = ~ok
       /\ pc' = IF ok THEN "requests" ELSE "idle"
       /\ vrc' = ok
  /\ UNCHANGED <<ring, indices, xen, port, second, req, deferred, served>>

-----------------------------------------------------------------------------
(* process_requests. *)

\* Mutant: indices are compared as if they never wrapped.
HasRequests_NoWrap == req_prod > req_cons

\* RING_HAS_UNCONSUMED_REQUESTS: as many as were put, and no more than there is room for
\* responses.
HasRequests == /\ Minus(req_prod, req_cons) > 0
               /\ Size - Minus(req_cons, rsp_prod) > 0

\* Where the pass leads: a second one if callbacks left work, the notification if not.
\* After the second one clears are gone, but swaps stay on their list.
EndOfPass ==
  /\ pc' = IF deferred /\ ~second THEN "deferred" ELSE "notify"
  /\ IF second THEN second' = FALSE /\ deferred' \in BOOLEAN /\ paused' = FALSE
               ELSE UNCHANGED <<second, deferred, paused>>

\* Mutant: the index is moved on once more.
GetRequest_Twice ==
  /\ pc = "requests" /\ HasRequests
  /\ version
  /\ req' = ring[Slot(req_cons)].vcpu
  /\ req_cons' = Plus(req_cons, 2)
  /\ pc' = "handle"
  /\ UNCHANGED <<ring, req_prod, rsp_prod, rsp_cons, xen, channel, second, deferred,
                 vrc, served>>

\* get_request.
GetRequest ==
  /\ pc = "requests" /\ HasRequests
  /\ version
  /\ req' = ring[Slot(req_cons)].vcpu
  /\ req_cons' = Plus(req_cons, 1)
  /\ pc' = "handle"
  /\ UNCHANGED <<ring, req_prod, rsp_prod, rsp_cons, xen, channel, second, deferred,
                 vrc, served>>

\* A request of another version is taken and not answered, and the pass ends there.
OtherVersion ==
  /\ pc = "requests" /\ HasRequests
  /\ ~version
  /\ req_cons' = Plus(req_cons, 1)
  /\ vrc' = FALSE
  /\ EndOfPass
  /\ UNCHANGED <<ring, req_prod, rsp_prod, rsp_cons, version, waiting, blocked, channel,
                 req, served>>

\* Mutant: the response goes where the next request is read.
PutResponse_AtRequest(v) ==
  /\ ring' = [ring EXCEPT ![Slot(req_cons)] = Response(v)]
  /\ rsp_prod' = Plus(rsp_prod, 1)

\* put_response.
PutResponse(v) ==
  /\ ring' = [ring EXCEPT ![Slot(rsp_prod)] = Response(v)]
  /\ rsp_prod' = Plus(rsp_prod, 1)

\* Mutant: one request is handled in each pass.
Handle_Once ==
  /\ pc = "handle"
  /\ PutResponse(req)
  /\ req' = None
  /\ vrc' \in BOOLEAN
  /\ EndOfPass
  /\ UNCHANGED <<req_prod, req_cons, rsp_cons, version, waiting, blocked, channel,
                 served>>

\* The handler's result is the result so far, whatever the ones before it were.
Handle ==
  /\ pc = "handle"
  /\ PutResponse(req)
  /\ req' = None
  /\ vrc' \in BOOLEAN
  /\ deferred' \in {deferred, TRUE}
  /\ pc' = "requests"
  /\ UNCHANGED <<req_prod, req_cons, rsp_cons, xen, channel, second, served>>

PassDone ==
  /\ pc = "requests" /\ ~HasRequests
  /\ EndOfPass
  /\ UNCHANGED <<ring, indices, version, waiting, blocked, channel, req, vrc, served>>

\* The domain is paused for the second pass, whose result replaces the first one's.
Defer ==
  /\ pc = "deferred"
  /\ paused' = TRUE /\ second' = TRUE
  /\ vrc' = TRUE
  /\ pc' = "requests"
  /\ UNCHANGED <<ring, indices, version, waiting, blocked, channel, req, deferred, served>>

-----------------------------------------------------------------------------
\* Xen consumes every response up to rsp_prod and lets those vCPUs go.
Consume ==
  /\ blocked' = blocked \ VCpusFrom(rsp_cons, Minus(rsp_prod, rsp_cons))
  /\ rsp_cons' = rsp_prod

\* Mutant: the result of the notification is ignored.
Notify_IgnoresResult ==
  /\ pc = "notify"
  /\ \E ok \in Result("notify") :
       IF ok THEN Consume ELSE UNCHANGED <<blocked, rsp_cons>>
  /\ pc' = "idle"
  /\ UNCHANGED <<ring, req_prod, rsp_prod, req_cons, version, waiting, paused, channel,
                 second, req, deferred, vrc, served>>

Notify ==
  /\ pc = "notify"
  /\ \E ok \in Result("notify") :
       IF ok THEN Consume /\ UNCHANGED vrc
             ELSE vrc' = FALSE /\ UNCHANGED <<blocked, rsp_cons>>
  /\ pc' = "idle"
  /\ UNCHANGED <<ring, req_prod, rsp_prod, req_cons, version, waiting, paused, channel,
                 second, req, deferred, served>>

Listener ==
  \/ \E timeout \in {0, 1} : EventsListen(timeout)
  \/ PollTimeout \/ PollFails \/ PollReady \/ Unmask
  \/ GetRequest \/ OtherVersion \/ Handle \/ PassDone \/ Defer
  \/ Notify

Next == Listener \/ \E v \in VCpus : Trap(v) \/ Enqueue(v)

Spec == Init /\ [][Next]_vars

(***************************************************************************)
(* The user goes on calling vmi_events_listen; a poll and a notification   *)
(* that may fail do not fail every time; Xen wakes the vCPUs that wait for *)
(* a slot in turn.                                                         *)
(***************************************************************************)
Fairness ==
  /\ WF_vars(Listener)
  /\ SF_vars(PollTimeout \/ PollReady)
  /\ SF_vars(Notify /\ rsp_cons' = rsp_prod)
  /\ \A v \in VCpus : SF_vars(Enqueue(v))

FairSpec == Spec /\ Fairness

-----------------------------------------------------------------------------
Index == 0 .. Width - 1

\* The variables have their types.
TypeOK ==
  /\ ring \in [0 .. Size - 1 -> [rsp : BOOLEAN, vcpu : VCpus] \cup {None}]
  /\ req_prod \in Index /\ rsp_prod \in Index /\ req_cons \in Index /\ rsp_cons \in Index
  /\ version \in Versions /\ waiting \subseteq VCpus /\ blocked \subseteq VCpus
  /\ port \in BOOLEAN /\ masked \in BOOLEAN /\ paused \in BOOLEAN
  /\ pc \in {"idle", "poll", "unmask", "requests", "handle", "deferred", "notify"}
  /\ second \in BOOLEAN /\ req \in VCpus \cup {None}
  /\ (req # None) = (pc = "handle")
  /\ deferred \in BOOLEAN /\ vrc \in BOOLEAN /\ served \subseteq VCpus

\* Around the circle the indices keep their order, Xen's first and Xen's last, and span
\* no more than the ring: no side overtakes the other, also where they wrap.
IndicesInOrder ==
  /\ Minus(rsp_prod, rsp_cons) + Minus(req_cons, rsp_prod) + Minus(req_prod, req_cons)
       = Minus(req_prod, rsp_cons)
  /\ Minus(req_prod, rsp_cons) <= Size

\* What the listener will read as a request is one, what Xen will read as a response is
\* one, although both lie in the same slots.
SlotsHoldTheirKind ==
  /\ \A k \in 0 .. Minus(req_prod, req_cons) - 1 :
       LET m == ring[Slot(Plus(req_cons, k))] IN m # None /\ ~m.rsp
  /\ \A k \in 0 .. Minus(rsp_prod, rsp_cons) - 1 :
       LET m == ring[Slot(Plus(rsp_cons, k))] IN m # None /\ m.rsp

\* Both sides see the same messages in the slots, whatever the indices have come to
\* (get_request, put_response and Xen's side of the ring).
InOrder == TypeOK /\ IndicesInOrder /\ SlotsHoldTheirKind

\* A request that lies on the ring while nobody works on it will wake the listener's
\* next poll, unless the port was left masked.
WakesUp ==
  version /\ pc \in {"idle", "poll"} /\ ~masked /\ req_prod # req_cons => port

\* A call that returns VMI_SUCCESS has answered every request that was on the ring when
\* it began, and Xen knows.
ServedOnSuccess ==
  [][pc # "idle" /\ pc' = "idle" /\ vrc' => served \cap blocked' = {}]_vars

\* A vCPU that found the ring full gets its request in, and every request is answered.
Answered ==
  version => \A v \in VCpus : /\ v \in waiting ~> v \in blocked
                              /\ v \in blocked ~> v \notin blocked

-----------------------------------------------------------------------------
(* The refinement mapping: the queues are the slots between two indices. *)

Between(i, j) == [k \in 1 .. Minus(j, i) |-> ring[Slot(Plus(i, k - 1))].vcpu]

Queue == INSTANCE EventQueue WITH
  requests <- Between(req_cons, req_prod), current <- req,
  responses <- Between(rsp_cons, rsp_prod)

\* The ring is two queues.
QueueSpec == Queue!Spec
=============================================================================
