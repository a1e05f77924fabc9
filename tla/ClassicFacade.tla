---------------------------- MODULE ClassicFacade ----------------------------
(***************************************************************************)
(* AclManagerFacadeService (gd/hci/facade/acl_manager_facade.cc).  The    *)
(* RPCs that name a handle (SendAclData, Disconnect,                      *)
(* AuthenticationRequested) run each on its own gRPC thread and take      *)
(* acl_connections_mutex_; SendAclData holds it while it waits, for at    *)
(* most 1000 ms, for its enqueue callback to run on the facade handler.   *)
(* The facade handler, a single thread, runs the connection callbacks the *)
(* classic sub-manager posts to it and the enqueue callbacks; its         *)
(* OnConnectSuccess takes the same mutex.                                 *)
(*                                                                         *)
(* The streaming RPCs CreateConnection and FetchIncomingConnection add an *)
(* event queue to per_connection_events_ when none is outstanding, and    *)
(* every connection answer goes to the queue at index                     *)
(* current_connection_request_, which each answer then increments.        *)
(* acl_connections_ is keyed by to_handle(request number), injective      *)
(* below its wrap, so its entries are kept as the request numbers.        *)
(***************************************************************************)
EXTENDS Naturals, Sequences, FiniteSets, TLC

CONSTANTS
  Rpcs,         \* gRPC threads running an RPC that names a handle
  None,
  MaxConnects,  \* bound on connection callbacks the sub-manager posts
  MaxStreams    \* bound on CreateConnection and FetchIncomingConnection RPCs

ASSUME None \notin Rpcs /\ {MaxConnects, MaxStreams} \subseteq Nat

VARIABLES
  mutex,            \* holder of acl_connections_mutex_ among the RPCs, or None
  rpc,              \* Rpcs -> "idle" | "waiting" | "ok" | "timed_out" | "invalid"
  ready,            \* RPCs whose promise enqueue_packet has set
  enq,              \* RPCs whose enqueue callback is registered
  hq,               \* callbacks posted to the facade handler, in order
  handler_blocked,  \* the handler is inside OnConnectSuccess, waiting for the mutex
  acl_connections,  \* request numbers whose Connection is in acl_connections_
  late_enqueue,     \* enqueue_packet ran for an RPC that had already returned
  n_connects,
  n_queues,         \* per_connection_events_.size()
  current,          \* current_connection_request_
  creating,         \* CreateConnection RPCs between CreateConnection and the check
  requested,        \* creates posted to the classic sub-manager, not yet answered
  serving,          \* streaming RPCs between the emplace and their RunLoop's index
  fault,            \* "none", or "oob": an answer indexed past per_connection_events_
  n_streams

vars == <<mutex, rpc, ready, enq, hq, handler_blocked, acl_connections,
          late_enqueue, n_connects, n_queues, current, creating, requested,
          serving, fault, n_streams>>

stream_vars == <<n_queues, current, creating, requested, serving, fault, n_streams>>

Returned(i) == rpc[i] \in {"ok", "timed_out", "invalid"}

-----------------------------------------------------------------------------
(* RPCs that name a handle, each on its RPC's thread.                      *)

\* SendAclData: take the mutex, look the handle up, and either answer
\* INVALID_ARGUMENT or register the enqueue callback; the mutex stays held
\* for the wait.
SendAclDataRegister(i) ==
  /\ fault = "none"
  /\ rpc[i] = "idle"
  /\ mutex = None
  /\ \/ /\ acl_connections # {}
        /\ rpc' = [rpc EXCEPT ![i] = "waiting"]
        /\ mutex' = i
        /\ enq' = enq \cup {i}
     \/ /\ rpc' = [rpc EXCEPT ![i] = "invalid"]
        /\ UNCHANGED <<mutex, enq>>
  /\ UNCHANGED <<ready, hq, handler_blocked, acl_connections, late_enqueue,
                 n_connects, stream_vars>>

\* The future is ready before the deadline: the mutex is released, OK.
SendAclDataReturn(i) ==
  /\ fault = "none"
  /\ rpc[i] = "waiting" /\ i \in ready
  /\ rpc' = [rpc EXCEPT ![i] = "ok"]
  /\ mutex' = None
  /\ UNCHANGED <<ready, enq, hq, handler_blocked, acl_connections,
                 late_enqueue, n_connects, stream_vars>>

\* wait_for(1000 ms) expires: the mutex is released, RESOURCE_EXHAUSTED;
\* the enqueue callback stays registered.
SendAclDataTimeout(i) ==
  /\ fault = "none"
  /\ rpc[i] = "waiting" /\ i \notin ready
  /\ rpc' = [rpc EXCEPT ![i] = "timed_out"]
  /\ mutex' = None
  /\ UNCHANGED <<ready, enq, hq, handler_blocked, acl_connections,
                 late_enqueue, n_connects, stream_vars>>

\* Mutant: the early INVALID_ARGUMENT return leaves the mutex locked.
LookupRpcInvalidKeepsLock(i) ==
  /\ fault = "none"
  /\ rpc[i] = "idle"
  /\ mutex = None
  /\ \/ /\ acl_connections # {} /\ rpc' = [rpc EXCEPT ![i] = "ok"]
        /\ UNCHANGED mutex
     \/ rpc' = [rpc EXCEPT ![i] = "invalid"] /\ mutex' = i
  /\ UNCHANGED <<ready, enq, hq, handler_blocked, acl_connections,
                 late_enqueue, n_connects, stream_vars>>

\* Disconnect and AuthenticationRequested: under the mutex, look the
\* handle up and either answer INVALID_ARGUMENT or call the connection,
\* which only posts to the manager's handler; the lock is released on
\* return.  Nothing in between blocks, so the RPC is one step.
LookupRpc(i) ==
  /\ fault = "none"
  /\ rpc[i] = "idle"
  /\ mutex = None
  /\ \/ acl_connections # {} /\ rpc' = [rpc EXCEPT ![i] = "ok"]
     \/ rpc' = [rpc EXCEPT ![i] = "invalid"]
  /\ UNCHANGED <<mutex, ready, enq, hq, handler_blocked, acl_connections,
                 late_enqueue, n_connects, stream_vars>>

Disconnect(i) == LookupRpc(i)
AuthenticationRequested(i) == LookupRpc(i)

-----------------------------------------------------------------------------
(* The streaming RPCs.                                                     *)

\* A new event queue only when none is outstanding, and the RPC goes on to
\* serve it; RESOURCE_EXHAUSTED otherwise.
AddEventQueue ==
  IF n_queues > current
  THEN UNCHANGED <<n_queues, serving>>
  ELSE n_queues' = n_queues + 1 /\ serving' = serving + 1

\* return per_connection_events_[current_connection_request_]->RunLoop():
\* the index is read again, and an answer that came in since the emplace
\* has moved it past the end of the vector.
RunLoop ==
  /\ fault = "none"
  /\ serving > 0
  /\ serving' = serving - 1
  /\ IF current < n_queues THEN UNCHANGED fault ELSE fault' = "oob"
  /\ UNCHANGED <<mutex, rpc, ready, enq, hq, handler_blocked, acl_connections,
                 late_enqueue, n_connects, n_queues, current, creating,
                 requested, n_streams>>

\* CreateConnection posts the create to the manager before the check.
CreateConnection ==
  /\ fault = "none"
  /\ n_streams < MaxStreams
  /\ n_streams' = n_streams + 1
  /\ creating' = creating + 1
  /\ requested' = requested + 1
  /\ UNCHANGED <<mutex, rpc, ready, enq, hq, handler_blocked, acl_connections,
                 late_enqueue, n_connects, n_queues, current, serving, fault>>

\* The rest of CreateConnection: the check and the emplace.
CreateConnectionCheck ==
  /\ fault = "none"
  /\ creating > 0
  /\ creating' = creating - 1
  /\ AddEventQueue
  /\ UNCHANGED <<mutex, rpc, ready, enq, hq, handler_blocked, acl_connections,
                 late_enqueue, n_connects, current, requested, fault, n_streams>>

FetchIncomingConnection ==
  /\ fault = "none"
  /\ n_streams < MaxStreams
  /\ n_streams' = n_streams + 1
  /\ AddEventQueue
  /\ UNCHANGED <<mutex, rpc, ready, enq, hq, handler_blocked, acl_connections,
                 late_enqueue, n_connects, current, creating, requested, fault>>

-----------------------------------------------------------------------------
(* The facade handler.                                                     *)

\* enqueue_packet, run by the connection's queue: reads the RPC's request,
\* unregisters the enqueue, sets the promise and returns the packet.
enqueue_packet(i) ==
  /\ fault = "none"
  /\ ~handler_blocked
  /\ i \in enq
  /\ enq' = enq \ {i}
  /\ ready' = ready \cup {i}
  /\ late_enqueue' = (late_enqueue \/ Returned(i))
  /\ UNCHANGED <<mutex, rpc, hq, handler_blocked, acl_connections, n_connects,
                 stream_vars>>

\* per_connection_events_[current_connection_request_]->OnIncomingEvent,
\* then current_connection_request_++; past the end of the vector the
\* process fails.
AnswerCurrentRequest ==
  IF current < n_queues
  THEN current' = current + 1 /\ UNCHANGED fault
  ELSE fault' = "oob" /\ UNCHANGED current

\* OnConnectSuccess with the mutex: emplace the Connection under
\* to_handle(current_connection_request_), register its dequeue and
\* callbacks, answer the current request.
OnConnectSuccess ==
  /\ acl_connections' = acl_connections \cup {current}
  /\ hq' = Tail(hq)
  /\ AnswerCurrentRequest

\* The next posted callback.  OnConnectSuccess locks the mutex first and
\* blocks the handler while an RPC holds it; OnConnectFail takes no lock.
OnConnectCallback ==
  /\ fault = "none"
  /\ ~handler_blocked
  /\ hq # <<>>
  /\ \/ /\ Head(hq) = "Success" /\ mutex = None
        /\ OnConnectSuccess
        /\ UNCHANGED handler_blocked
     \/ /\ Head(hq) = "Success" /\ mutex # None
        /\ handler_blocked' = TRUE
        /\ UNCHANGED <<acl_connections, hq, current, fault>>
     \/ /\ Head(hq) = "Fail"
        /\ hq' = Tail(hq)
        /\ AnswerCurrentRequest
        /\ UNCHANGED <<acl_connections, handler_blocked>>
  /\ UNCHANGED <<mutex, rpc, ready, enq, late_enqueue, n_connects, n_queues,
                 creating, requested, serving, n_streams>>

\* OnConnectSuccess gets the mutex and completes.
OnConnectSuccessResumes ==
  /\ fault = "none"
  /\ handler_blocked /\ mutex = None
  /\ handler_blocked' = FALSE
  /\ OnConnectSuccess
  /\ UNCHANGED <<mutex, rpc, ready, enq, late_enqueue, n_connects, n_queues,
                 creating, requested, serving, n_streams>>

-----------------------------------------------------------------------------------------------------------------------------------------------------
(* The classic sub-manager posts the outcome of a create it was asked for, *)
(* or the success of a connection a peer made to us.                      *)

ConnectionOutcome ==
  /\ fault = "none"
  /\ n_connects < MaxConnects
  /\ \/ /\ requested > 0
        /\ requested' = requested - 1
        /\ \E cb \in {"Success", "Fail"} : hq' = Append(hq, cb)
     \/ /\ hq' = Append(hq, "Success")
        /\ UNCHANGED requested
  /\ n_connects' = n_connects + 1
  /\ UNCHANGED <<mutex, rpc, ready, enq, handler_blocked, acl_connections,
                 late_enqueue, n_queues, current, creating, serving, fault, n_streams>>

-----------------------------------------------------------------------------
Init ==
  /\ mutex = None
  /\ rpc = [i \in Rpcs |-> "idle"]
  /\ ready = {} /\ enq = {}
  /\ hq = <<>>
  /\ handler_blocked = FALSE
  /\ acl_connections = {}
  /\ late_enqueue = FALSE
  /\ n_connects = 0
  /\ n_queues = 0 /\ current = 0 /\ creating = 0 /\ requested = 0 /\ serving = 0
  /\ fault = "none"
  /\ n_streams = 0

Next ==
  \/ \E i \in Rpcs : SendAclDataRegister(i)
  \/ \E i \in Rpcs : SendAclDataReturn(i)
  \/ \E i \in Rpcs : SendAclDataTimeout(i)
  \/ \E i \in Rpcs : Disconnect(i) \/ AuthenticationRequested(i)
  \/ CreateConnection
  \/ CreateConnectionCheck
  \/ FetchIncomingConnection
  \/ RunLoop
  \/ \E i \in Rpcs : enqueue_packet(i)
  \/ OnConnectCallback
  \/ OnConnectSuccessResumes
  \/ ConnectionOutcome

\* The RPC thread returns when its future is ready or the deadline passes,
\* and goes on from CreateConnection to its check; the handler runs what is
\* posted or registered whenever it can.
Fairness ==
  /\ \A i \in Rpcs : WF_vars(SendAclDataReturn(i)) /\ WF_vars(SendAclDataTimeout(i))
                      /\ WF_vars(enqueue_packet(i))
  /\ WF_vars(CreateConnectionCheck) /\ WF_vars(RunLoop)
  /\ WF_vars(OnConnectCallback) /\ WF_vars(OnConnectSuccessResumes)

Spec == Init /\ [][Next]_vars /\ Fairness

-----------------------------------------------------------------------------
(* Properties.                                                             *)

\* An OnConnectSuccess blocked on acl_connections_mutex_ eventually gets it
\* and completes, so the connection callbacks queued behind it on the
\* facade handler run: every RPC that holds the mutex gives it back, the
\* one waiting for a packet the blocked handler cannot enqueue included.
HandlerNeverStuck == handler_blocked ~> (~handler_blocked \/ fault # "none")

\* enqueue_packet never runs for an RPC that has returned: it would read the
\* freed request and send a packet the caller was told was not sent.
NoEnqueueAfterReturn == ~late_enqueue

=============================================================================
