------------------------------ MODULE LeFacade ------------------------------
(***************************************************************************)
(* LeAclManagerFacadeService (gd/hci/facade/le_acl_manager_facade.cc) as  *)
(* the LE client of LeAclManager.  Its RPCs run on gRPC threads; the      *)
(* callbacks le_impl posts (OnLeConnectSuccess, OnLeConnectFail and the   *)
(* per-connection OnDisconnection) and the enqueue callback of SendAclData *)
(* run on the facade handler.  The facade handler's step is LeAclManager's *)
(* ClientRunsCallback, conjoined with what the facade does for that       *)
(* callback.                                                               *)
(*                                                                         *)
(* per_connection_events_ is a vector of event queues, one per            *)
(* CreateConnection or FetchIncomingConnection that passed the            *)
(* outstanding-request check; every answer goes to the queue at index     *)
(* current_connection_request_, which each answer then increments.        *)
(***************************************************************************)
EXTENDS Naturals, Sequences, FiniteSets, Functions, TLC
LOCAL INSTANCE SequencesExt

CONSTANTS
  Peers, Rpas, Randoms, PublicAddr, InitiatorInputs, Handles, None,
  ClientPeers, IncomingPeers, SerialClient, MaxCalls, MaxRotations, MaxEvents,
  MaxRpcs   \* bound on Fetch, Disconnect and SendAclData RPCs

VARIABLES
  le_acl_connections, connecting_le, le_initiator_address,
  address_rotation_alarm, rotation_posted, le_client_registered,
  rr_registered, client_q, client, ctrl, alive,
  n_calls, n_rotations, n_events,
  per_connection_events,      \* Seq of [by, peer, got]: per_connection_events_
  current_connection_request, \* current_connection_request_
  acl_connections,            \* entry -> [le, live]: acl_connections_ (keyed by to_handle(entry))
  creating,                   \* CreateConnection RPCs between CreateLeConnection and the check
  sends,                      \* entries with a SendAclData enqueue registered
  fault,                      \* "none", "oob" (vector index) or "null" (reset connection_)
  n_rpcs

LE == INSTANCE LeAclManager

le_vars == <<le_acl_connections, connecting_le, le_initiator_address,
             address_rotation_alarm, rotation_posted, le_client_registered,
             rr_registered, client_q, client, ctrl, alive,
             n_calls, n_rotations, n_events>>
facade_vars == <<per_connection_events, current_connection_request,
                 acl_connections, creating, sends, fault, n_rpcs>>
vars == <<le_vars, facade_vars>>

-----------------------------------------------------------------------------
(* Helpers.                                                                *)

\* A new event queue is added only when none is outstanding: the vector is
\* not longer than the index of the next answer.
AddEventQueue(q) ==
  IF Len(per_connection_events) > current_connection_request
  THEN UNCHANGED per_connection_events              \* RESOURCE_EXHAUSTED
  ELSE per_connection_events' = Append(per_connection_events, q)

\* per_connection_events_[entry]->OnIncomingEvent(ev), entry counted from 0.
HasQueue(entry) == entry < Len(per_connection_events)
PostEvent(entry, ev) ==
  [per_connection_events EXCEPT ![entry + 1].got = @ \cup {ev}]

Live(e) == e \in DOMAIN acl_connections /\ acl_connections[e].live

-----------------------------------------------------------------------------
(* RPCs, on gRPC threads.                                                  *)

\* CreateConnection, up to CreateLeConnection: the create is posted to the
\* manager before the outstanding-request check.
CreateConnection(p) ==
  /\ fault = "none"
  /\ LE!create_le_connection(p)
  /\ creating' = creating \cup {p}
  /\ UNCHANGED <<per_connection_events, current_connection_request,
                 acl_connections, sends, fault, n_rpcs>>

\* The rest of CreateConnection: the check, then the queue RunLoop serves.
CreateConnectionCheck ==
  /\ fault = "none"
  /\ \E p \in creating :
       /\ creating' = creating \ {p}
       /\ AddEventQueue([by |-> "create", peer |-> p, got |-> {}])
  /\ UNCHANGED <<le_vars, current_connection_request, acl_connections, sends,
                 fault, n_rpcs>>

FetchIncomingConnection ==
  /\ fault = "none"
  /\ n_rpcs < MaxRpcs
  /\ n_rpcs' = n_rpcs + 1
  /\ AddEventQueue([by |-> "fetch", peer |-> None, got |-> {}])
  /\ UNCHANGED <<le_vars, current_connection_request, acl_connections,
                 creating, sends, fault>>

\* Disconnect finds the entry, which stays after OnDisconnection reset
\* its connection_, and calls Disconnect on it.
Disconnect ==
  /\ fault = "none"
  /\ n_rpcs < MaxRpcs
  /\ \E e \in DOMAIN acl_connections : fault' = IF Live(e) THEN "none" ELSE "null"
  /\ n_rpcs' = n_rpcs + 1
  /\ UNCHANGED <<le_vars, per_connection_events, current_connection_request,
                 acl_connections, creating, sends>>

\* SendAclData registers an enqueue callback on the connection's queue and
\* waits (without timeout) for it to run.
SendAclData ==
  /\ fault = "none"
  /\ n_rpcs < MaxRpcs
  /\ \E e \in DOMAIN acl_connections \ sends :
       IF Live(e) THEN /\ sends' = sends \cup {e}
                       /\ UNCHANGED fault
                  ELSE /\ fault' = "null"
                       /\ UNCHANGED sends
  /\ n_rpcs' = n_rpcs + 1
  /\ UNCHANGED <<le_vars, per_connection_events, current_connection_request,
                 acl_connections, creating>>

-----------------------------------------------------------------------------
(* The facade handler.                                                     *)

\* enqueue_packet: looks the entry up again, unregisters the enqueue through
\* connection_ and releases the waiting RPC.
enqueue_packet ==
  /\ fault = "none"
  /\ \E e \in sends :
       /\ sends' = sends \ {e}
       /\ fault' = IF Live(e) THEN "none" ELSE "null"
  /\ UNCHANGED <<le_vars, per_connection_events, current_connection_request,
                 acl_connections, creating, n_rpcs>>

Answer(c) == [kind |-> c.cb, addr |-> c.addr]

\* OnLeConnectSuccess: emplace the Connection (an existing key is kept),
\* register its callbacks, then post to the current request's queue.
OnLeConnectSuccess(c) ==
  /\ acl_connections' = acl_connections @@
       (current_connection_request :> [le |-> c.handle, live |-> TRUE])
  /\ IF HasQueue(current_connection_request)
     THEN /\ per_connection_events' = PostEvent(current_connection_request, Answer(c))
          /\ current_connection_request' = current_connection_request + 1
          /\ UNCHANGED fault
     ELSE /\ fault' = "oob"
          /\ UNCHANGED <<per_connection_events, current_connection_request>>

OnLeConnectFail(c) ==
  /\ IF HasQueue(current_connection_request)
     THEN /\ per_connection_events' = PostEvent(current_connection_request, Answer(c))
          /\ current_connection_request' = current_connection_request + 1
          /\ UNCHANGED fault
     ELSE /\ fault' = "oob"
          /\ UNCHANGED <<per_connection_events, current_connection_request>>
  /\ UNCHANGED acl_connections

\* Mutant: connection_ is not reset on disconnection.
OnDisconnectionNoReset(c) ==
  \E e \in DOMAIN acl_connections :
    /\ Live(e) /\ acl_connections[e].le = c.handle
    /\ per_connection_events' = PostEvent(e, Answer(c))
    /\ UNCHANGED <<acl_connections, current_connection_request, fault>>

\* Connection::OnDisconnection of the link's Connection: unregister the
\* dequeue, reset connection_ (the entry stays), post to the entry's queue.
OnDisconnection(c) ==
  \E e \in DOMAIN acl_connections :
    /\ Live(e) /\ acl_connections[e].le = c.handle
    /\ acl_connections' = [acl_connections EXCEPT ![e].live = FALSE]
    /\ per_connection_events' = PostEvent(e, Answer(c))
    /\ UNCHANGED <<current_connection_request, fault>>

FacadeRunsCallback ==
  /\ fault = "none"
  /\ LE!ClientRunsCallback
  /\ LET c == Head(client_q) IN
       CASE c.cb = "Success" -> OnLeConnectSuccess(c)
         [] c.cb = "Fail" -> OnLeConnectFail(c)
         [] c.cb = "Disconnection" -> OnDisconnection(c)
         [] c.cb = "Update" -> UNCHANGED <<per_connection_events,
                                 current_connection_request, acl_connections, fault>>
  /\ UNCHANGED <<creating, sends, n_rpcs>>

-----------------------------------------------------------------------------
(* The manager and the controller, as LeAclManager has them.               *)

RegisterLeCallbacks ==
  fault = "none" /\ LE!handle_register_le_callbacks /\ UNCHANGED facade_vars
InitiationCompletes ==
  fault = "none" /\ LE!InitiationCompletes /\ UNCHANGED facade_vars
IncomingConnection ==
  fault = "none" /\ LE!IncomingConnection /\ UNCHANGED facade_vars
Disconnection ==
  fault = "none" /\ LE!Disconnection /\ UNCHANGED facade_vars

-----------------------------------------------------------------------------
\* The constructor registers the facade as the LE client (posted).
Init ==
  /\ LE!Init
  /\ per_connection_events = <<>>
  /\ current_connection_request = 0
  /\ acl_connections = [e \in {} |-> None]
  /\ creating = {} /\ sends = {}
  /\ fault = "none"
  /\ n_rpcs = 0

Next ==
  \/ RegisterLeCallbacks
  \/ \E p \in ClientPeers : CreateConnection(p)
  \/ CreateConnectionCheck
  \/ FetchIncomingConnection
  \/ Disconnect
  \/ SendAclData
  \/ enqueue_packet
  \/ FacadeRunsCallback
  \/ InitiationCompletes
  \/ IncomingConnection
  \/ Disconnection

Spec == Init /\ [][Next]_vars

-----------------------------------------------------------------------------
(* Properties.  Each speaks of a process that has not failed.              *)

Ok == alive /\ fault = "none"

LiveEntries == {e \in DOMAIN acl_connections : acl_connections[e].live}
FacadeLinks == {acl_connections[e].le : e \in LiveEntries}

\* The links the facade will know of once the callbacks still queued for it
\* have run, in order.
AfterQueuedCallbacks ==
  LET apply(links, c) ==
        CASE c.cb = "Success" -> links \cup {c.handle}
          [] c.cb = "Disconnection" -> links \ {c.handle}
          [] OTHER -> links
  IN FoldLeft(apply, FacadeLinks, client_q)

\* The facade's live Connections, one per link, and the callbacks still
\* queued for it account exactly for the manager's links, although handles
\* are reused and the callbacks run late on the facade handler.
LinksMirrored ==
  Ok => /\ AfterQueuedCallbacks = DOMAIN le_acl_connections
        /\ Cardinality(LiveEntries) = Cardinality(FacadeLinks)

\* LeAclManager's link table and scheduler registrations still match the
\* controller's links when the facade is its client, with peers connecting
\* to us, handles reused and the facade's callbacks running late.
LinksConsistent == LE!LinksConsistent

\* An answer about a peer goes to the queue of a CreateConnection for that
\* peer, never to another RPC's stream.
AnswerToAsker ==
  \A i \in 1..Len(per_connection_events) :
    per_connection_events[i].by = "create" =>
      \A ev \in per_connection_events[i].got :
        ev.kind \in {"Success", "Fail"} => ev.addr = per_connection_events[i].peer

=============================================================================
