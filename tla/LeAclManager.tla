---------------------------- MODULE LeAclManager ----------------------------
(***************************************************************************)
(* The LE sub-manager of the ACL manager (gd/hci/acl_manager/le_impl.h)   *)
(* together with the LE controller it drives and the client that calls    *)
(* it.  Every le_impl method runs to completion on the manager's single   *)
(* handler, so each handler task is one atomic action.  The interleaving  *)
(* that matters is between tasks of different sources: controller events, *)
(* client calls, the RPA rotation alarm (whose expiry posts a task to the *)
(* handler) and the client handler that runs the callbacks le_impl posts. *)
(*                                                                         *)
(* The controller is modelled by what the Core specification makes it do *)
(* with the commands le_impl issues: one LE connection initiation at a    *)
(* time (a second LE Create Connection is refused with Command            *)
(* Disallowed), LE Set Random Address refused while initiating, and a     *)
(* fresh connection handle for every new link.                            *)
(***************************************************************************)
EXTENDS Naturals, Sequences, FiniteSets, Functions, TLC
LOCAL INSTANCE Rpa

CONSTANTS
  Peers,           \* identity AddressWithType of remote devices
  Rpas,            \* resolvable private addresses a peer may connect from
  Randoms,         \* prand bytes os::GenerateRandom<8> may return (the three read)
  PublicAddr,      \* a public device address a client may try to set
  InitiatorInputs, \* addresses the client passes to SetLeInitiatorAddress
  Handles,         \* connection handles the controller hands out
  None,            \* absent value (no initiation, no RPA, no handle)
  ClientPeers,     \* peers the client asks to connect to
  IncomingPeers,   \* peers that may connect to us while we advertise
  SerialClient,    \* TRUE: the client waits for an answer before creating again
  MaxCalls,        \* bound on client calls (create, set initiator address)
  MaxRotations,    \* bound on expiries of the address rotation alarm
  MaxEvents        \* bound on unsolicited controller events

ASSUME
  /\ Peers # {} /\ Handles # {}
  /\ Peers \cap Rpas = {}
  /\ Randoms # {} /\ \A r \in Randoms : DOMAIN r = 1..3 /\ \A i \in 1..3 : r[i] \in 0..255
  /\ None \notin Peers \cup Rpas \cup Handles /\ None \notin InitiatorInputs
  /\ ClientPeers \subseteq Peers /\ IncomingPeers \subseteq Peers /\ SerialClient \in BOOLEAN
  /\ {MaxCalls, MaxRotations, MaxEvents} \subseteq Nat

RemoteAddrs == Peers \cup Rpas

\* Octet16 irk = {}: RotateRandomAddress has no IRK yet (its TODO).
Irk == [i \in 0..15 |-> 0]

\* GenerateRpa(irk, random) for each draw os::GenerateRandom<8> can return.
RotationRpa == [r \in Randoms |-> GenerateRpa(Irk, r)]

\* The addresses RotateRandomAddress can produce, and every random address
\* le_impl can use.
RotationAddrs == {RotationRpa[r] : r \in Randoms}
LocalAddrs == RotationAddrs \cup (InitiatorInputs \ {PublicAddr})

VARIABLES
  le_acl_connections,     \* handle -> [remote, local] (le_impl.h:340)
  connecting_le,          \* peers with an LE create in flight (le_impl.h:341)
  le_initiator_address,   \* le_impl.h:342
  address_rotation_alarm, \* "none" (reset), "idle" or "armed" (le_impl.h:343)
  rotation_posted,        \* the alarm has fired and its task waits on the handler
  le_client_registered,   \* le_client_callbacks_/le_client_handler_ set
  rr_registered,          \* LE handles registered with the RoundRobinScheduler
  client_q,               \* callbacks posted to the client handler, in order
  client,                 \* the client: peers it awaits an answer about, peers it holds links to
  ctrl,                   \* the controller's LE link-layer state
  alive,                  \* FALSE once the process has aborted
  n_calls, n_rotations, n_events

vars == <<le_acl_connections, connecting_le, le_initiator_address,
          address_rotation_alarm, rotation_posted, le_client_registered,
          rr_registered, client_q, client, ctrl, alive,
          n_calls, n_rotations, n_events>>

-----------------------------------------------------------------------------
(* Controller side.                                                        *)

InitiatingPeer == IF ctrl.initiating = None THEN {} ELSE {ctrl.initiating.peer}

LinkedPeers == {ctrl.links[h].peer : h \in DOMAIN ctrl.links}

\* LE Create Connection / LE Extended Create Connection with own address
\* type random: refused (Command Disallowed) while an initiation runs, and
\* (Connection Already Exists) for a peer the controller is connected to.
CtrlCreate(p) ==
  IF ctrl.initiating = None /\ p \notin LinkedPeers
  THEN [ctrl EXCEPT !.initiating = [peer |-> p, own |-> ctrl.random]]
  ELSE ctrl

\* LE Set Random Address: refused with Command Disallowed while initiating.
CtrlSetRandom(a) ==
  IF ctrl.initiating = None THEN [ctrl EXCEPT !.random = a] ELSE ctrl

-----------------------------------------------------------------------------
(* Host side: le_impl.                                                     *)

Cb(kind, addr, h) == [cb |-> kind, addr |-> addr, handle |-> h]

\* Mutant: the IsEmpty check on the peer RPA dropped.
RemoteAddressNoEmptyCheck(peer, rpa) == rpa

\* The remote address of a (enhanced) connection complete: the peer RPA
\* replaces the identity address when it is not empty.
RemoteAddress(peer, rpa) == IF rpa = None THEN peer ELSE rpa

\* on_common_le_connection_complete: the completed address leaves
\* connecting_le_ (an address never asked for is only logged).
on_common_le_connection_complete(remote) == connecting_le \ {remote}

\* on_le_connection_complete / on_le_enhanced_connection_complete, from
\* on_common_le_connection_complete to the post of the client callback.
\* Posting to an unregistered client handler dereferences a null pointer;
\* a handle already in the table fails the ASSERT before the emplace.
on_le_connection_complete(remote, success, h) ==
  /\ connecting_le' = on_common_le_connection_complete(remote)
  /\ IF ~le_client_registered \/ (success /\ h \in DOMAIN le_acl_connections)
     THEN /\ alive' = FALSE
          /\ UNCHANGED <<le_acl_connections, rr_registered, client_q>>
     ELSE /\ UNCHANGED alive
          /\ IF success
             THEN /\ le_acl_connections' = le_acl_connections @@
                        (h :> [remote |-> remote, local |-> le_initiator_address])
                  /\ rr_registered' = rr_registered \cup {h}
                  /\ client_q' = Append(client_q, Cb("Success", remote, h))
             ELSE /\ client_q' = Append(client_q, Cb("Fail", remote, None))
                  /\ UNCHANGED <<le_acl_connections, rr_registered>>

\* Mutant: the link is erased but never unregistered from the scheduler.
on_le_disconnect_no_unregister(h) ==
  IF h \in DOMAIN le_acl_connections
  THEN /\ client_q' = Append(client_q,
                       Cb("Disconnection", le_acl_connections[h].remote, h))
       /\ le_acl_connections' = Restrict(le_acl_connections,
                                         DOMAIN le_acl_connections \ {h})
       /\ UNCHANGED rr_registered
  ELSE UNCHANGED <<rr_registered, client_q, le_acl_connections>>

\* on_le_disconnect: unregister from the scheduler, tell the connection's
\* management callbacks, erase; an unknown handle is ignored.
on_le_disconnect(h) ==
  IF h \in DOMAIN le_acl_connections
  THEN /\ rr_registered' = rr_registered \ {h}
       /\ client_q' = Append(client_q,
                       Cb("Disconnection", le_acl_connections[h].remote, h))
       /\ le_acl_connections' = Restrict(le_acl_connections,
                                         DOMAIN le_acl_connections \ {h})
  ELSE UNCHANGED <<rr_registered, client_q, le_acl_connections>>

-----------------------------------------------------------------------------
(* Initial state: le_impl's constructor, which calls RotateRandomAddress: *)
(* LE Set Random Address goes to an idle controller and the alarm is set. *)

Init ==
  \E a \in RotationAddrs :
    /\ le_acl_connections = [h \in {} |-> None]
    /\ connecting_le = {}
    /\ le_initiator_address = a
    /\ address_rotation_alarm = "armed"
    /\ rotation_posted = FALSE
    /\ le_client_registered = FALSE
    /\ rr_registered = {}
    /\ client_q = <<>>
    /\ client = [waiting |-> {}, links |-> {}]
    /\ ctrl = [initiating |-> None, random |-> a,
               links |-> [h \in {} |-> None]]
    /\ alive = TRUE
    /\ n_calls = 0 /\ n_rotations = 0 /\ n_events = 0

-----------------------------------------------------------------------------
(* Client calls, each posted to the handler by AclManager.                 *)

handle_register_le_callbacks ==
  /\ alive
  /\ ~le_client_registered
  /\ le_client_registered' = TRUE
  /\ UNCHANGED <<le_acl_connections, connecting_le, le_initiator_address,
                 address_rotation_alarm, rotation_posted, rr_registered,
                 client_q, client, ctrl, alive, n_calls, n_rotations, n_events>>

\* The client has registered first (its registration was posted earlier to
\* the same handler), so the ASSERT on le_client_callbacks_ holds.  Both
\* branches on the controller's feature bit issue a create that behaves
\* alike; its Command Status is only checked for validity and opcode.
create_le_connection(p) ==
  /\ alive
  /\ n_calls < MaxCalls
  /\ le_client_registered
  /\ SerialClient => client.waiting = {} /\ p \notin client.links
  /\ connecting_le' = connecting_le \cup {p}
  /\ ctrl' = CtrlCreate(p)
  /\ client' = [client EXCEPT !.waiting = @ \cup {p}]
  /\ n_calls' = n_calls + 1
  /\ UNCHANGED <<le_acl_connections, le_initiator_address,
                 address_rotation_alarm, rotation_posted, le_client_registered,
                 rr_registered, client_q, alive, n_rotations, n_events>>

\* Non-random addresses end in LOG_ALWAYS_FATAL.  Otherwise the alarm is
\* cancelled and reset; a rotation task the alarm already posted stays.
set_le_initiator_address(a) ==
  /\ alive
  /\ n_calls < MaxCalls
  /\ le_initiator_address' = a
  /\ n_calls' = n_calls + 1
  /\ \/ /\ a = PublicAddr
        /\ alive' = FALSE
        /\ UNCHANGED <<address_rotation_alarm, ctrl>>
     \/ /\ a # PublicAddr
        /\ address_rotation_alarm' = "none"
        /\ ctrl' = CtrlSetRandom(a)
        /\ UNCHANGED alive
  /\ UNCHANGED <<le_acl_connections, connecting_le, rotation_posted,
                 le_client_registered, rr_registered, client_q, client,
                 n_rotations, n_events>>

-----------------------------------------------------------------------------
(* The rotation alarm.                                                     *)

\* os::Alarm expiry: the scheduled task is posted to the handler.
AlarmFires ==
  /\ alive
  /\ address_rotation_alarm = "armed"
  /\ n_rotations < MaxRotations
  /\ address_rotation_alarm' = "idle"
  /\ rotation_posted' = TRUE
  /\ n_rotations' = n_rotations + 1
  /\ UNCHANGED <<le_acl_connections, connecting_le, le_initiator_address,
                 le_client_registered, rr_registered, client_q, client, ctrl,
                 alive, n_calls, n_events>>

\* The posted task: a new RPA is issued and adopted, then the alarm is
\* rescheduled, through a null pointer if set_le_initiator_address reset it.
RotateRandomAddress ==
  /\ alive
  /\ rotation_posted
  /\ rotation_posted' = FALSE
  /\ \E random \in Randoms :
       LET a == RotationRpa[random] IN
       /\ le_initiator_address' = a
       /\ ctrl' = CtrlSetRandom(a)
  /\ \/ /\ address_rotation_alarm # "none"
        /\ address_rotation_alarm' = "armed"
        /\ UNCHANGED alive
     \/ /\ address_rotation_alarm = "none"
        /\ alive' = FALSE
        /\ UNCHANGED address_rotation_alarm
  /\ UNCHANGED <<le_acl_connections, connecting_le, le_client_registered,
                 rr_registered, client_q, client, n_calls, n_rotations,
                 n_events>>

-----------------------------------------------------------------------------
(* Controller events, each handled by le_impl when it arrives.             *)

\* The initiation ends: a (enhanced) connection complete for the peer,
\* with a fresh handle on success.
InitiationCompletes ==
  /\ alive
  /\ ctrl.initiating # None
  /\ \E rpa \in Rpas \cup {None} :
       LET link == [peer |-> ctrl.initiating.peer, own |-> ctrl.initiating.own]
           remote == RemoteAddress(link.peer, rpa)
       IN \/ \E h \in Handles \ DOMAIN ctrl.links :
               /\ ctrl' = [ctrl EXCEPT !.initiating = None,
                                       !.links = @ @@ (h :> link)]
               /\ on_le_connection_complete(remote, TRUE, h)
          \/ /\ ctrl' = [ctrl EXCEPT !.initiating = None]
             /\ on_le_connection_complete(remote, FALSE, None)
  /\ UNCHANGED <<le_initiator_address, address_rotation_alarm, rotation_posted,
                 le_client_registered, client, n_calls, n_rotations, n_events>>

\* A peer connects to us (we advertise with the random address), one we
\* are neither connected to nor initiating to.
IncomingConnection ==
  /\ alive
  /\ n_events < MaxEvents
  /\ n_events' = n_events + 1
  /\ \E q \in IncomingPeers \ (InitiatingPeer \cup LinkedPeers), rpa \in Rpas \cup {None},
        h \in Handles \ DOMAIN ctrl.links :
       /\ ctrl' = [ctrl EXCEPT !.links = @ @@ (h :> [peer |-> q, own |-> ctrl.random])]
       /\ on_le_connection_complete(RemoteAddress(q, rpa), TRUE, h)
  /\ UNCHANGED <<le_initiator_address, address_rotation_alarm, rotation_posted,
                 le_client_registered, client, n_calls, n_rotations>>

\* Disconnection Complete for a live link, whoever asked for it.
Disconnection ==
  /\ alive
  /\ n_events < MaxEvents
  /\ n_events' = n_events + 1
  /\ \E h \in DOMAIN ctrl.links :
       /\ ctrl' = [ctrl EXCEPT !.links = Restrict(@, DOMAIN @ \ {h})]
       /\ on_le_disconnect(h)
  /\ UNCHANGED <<connecting_le, le_initiator_address, address_rotation_alarm,
                 rotation_posted, le_client_registered, client, alive,
                 n_calls, n_rotations>>

\* on_le_connection_update_complete: an error status or an unknown handle
\* is logged; otherwise the connection's callbacks get OnConnectionUpdate.
on_le_connection_update_complete ==
  /\ alive
  /\ n_events < MaxEvents
  /\ n_events' = n_events + 1
  /\ \E h \in DOMAIN ctrl.links, ok \in BOOLEAN :
       IF ok /\ h \in DOMAIN le_acl_connections
       THEN client_q' = Append(client_q, Cb("Update", None, h))
       ELSE UNCHANGED client_q
  /\ UNCHANGED <<le_acl_connections, connecting_le, le_initiator_address,
                 address_rotation_alarm, rotation_posted, le_client_registered,
                 rr_registered, client, ctrl, alive, n_calls, n_rotations>>

-----------------------------------------------------------------------------
(* The client handler runs the posted callbacks in order.                  *)

ClientRunsCallback ==
  /\ alive
  /\ client_q # <<>>
  /\ client_q' = Tail(client_q)
  /\ LET c == Head(client_q) IN
     client' = CASE c.cb = "Success" -> [waiting |-> client.waiting \ {c.addr},
                                         links |-> client.links \cup {c.addr}]
               [] c.cb = "Fail" -> [client EXCEPT !.waiting = @ \ {c.addr}]
               [] c.cb = "Disconnection" -> [client EXCEPT !.links = @ \ {c.addr}]
               [] c.cb = "Update" -> client
  /\ UNCHANGED <<le_acl_connections, connecting_le, le_initiator_address,
                 address_rotation_alarm, rotation_posted, le_client_registered,
                 rr_registered, ctrl, alive, n_calls, n_rotations, n_events>>

-----------------------------------------------------------------------------
Next ==
  \/ handle_register_le_callbacks
  \/ \E p \in ClientPeers : create_le_connection(p)
  \/ \E a \in InitiatorInputs : set_le_initiator_address(a)
  \/ AlarmFires
  \/ RotateRandomAddress
  \/ InitiationCompletes
  \/ IncomingConnection
  \/ Disconnection
  \/ on_le_connection_update_complete
  \/ ClientRunsCallback

\* The handler eventually runs what was posted to it, the client handler
\* likewise.  That the controller eventually ends an initiation it accepted
\* is an assumption about the peer (it advertises), not something le_impl
\* ensures: it has no create timeout and no cancel.  It is assumed so that
\* a create that stays unanswered (AttemptAnswered) is one le_impl leaves
\* unanswered, not one the peer never completes.
Fairness ==
  /\ WF_vars(InitiationCompletes)
  /\ WF_vars(RotateRandomAddress)
  /\ WF_vars(ClientRunsCallback)

Spec == Init /\ [][Next]_vars /\ Fairness

-----------------------------------------------------------------------------
(* Properties.  The safety properties speak of a live process: once it  *)
(* has aborted, the host keeps no state the controller must agree with.   *)

ClientCallback ==
  [cb : {"Success", "Fail", "Disconnection", "Update"},
   addr : RemoteAddrs \cup {None}, handle : Handles \cup {None}]

TypeOK ==
  /\ DOMAIN le_acl_connections \subseteq Handles
  /\ \A h \in DOMAIN le_acl_connections :
       le_acl_connections[h] \in [remote : RemoteAddrs, local : LocalAddrs \cup {PublicAddr}]
  /\ connecting_le \subseteq RemoteAddrs
  /\ le_initiator_address \in LocalAddrs \cup {PublicAddr}
  /\ address_rotation_alarm \in {"none", "idle", "armed"}
  /\ rotation_posted \in BOOLEAN /\ le_client_registered \in BOOLEAN
  /\ rr_registered \subseteq Handles
  /\ client_q \in Seq(ClientCallback)
  /\ client \in [waiting : SUBSET Peers, links : SUBSET RemoteAddrs]
  /\ ctrl.initiating \in {None} \cup [peer : Peers, own : LocalAddrs]
  /\ ctrl.random \in LocalAddrs
  /\ DOMAIN ctrl.links \subseteq Handles
  /\ alive \in BOOLEAN

\* The host's LE connection table and the scheduler's LE registrations are
\* exactly the controller's live links: on_le_disconnect unregisters and
\* erases every link the controller drops, so the ASSERT that a completed
\* handle is not yet in le_acl_connections_ holds when handles are reused.
LinksConsistent ==
  alive =>
    /\ DOMAIN le_acl_connections = DOMAIN ctrl.links
    /\ rr_registered = DOMAIN le_acl_connections

\* The local address le_impl reports for a connection is the address the
\* controller actually used for it.
LocalAddressAccurate ==
  \A h \in DOMAIN le_acl_connections :
    le_acl_connections[h].local = ctrl.links[h].own

\* While le_impl's own rotation owns the initiator address (no
\* set_le_initiator_address has reset the alarm), the address it connects
\* from and the controller's random address are resolvable private
\* addresses, whichever bytes os::GenerateRandom returned and whether or
\* not the controller refused the last LE Set Random Address.
RpaWhileRotating ==
  alive /\ address_rotation_alarm # "none" =>
    /\ IsResolvablePrivate(le_initiator_address)
    /\ IsResolvablePrivate(ctrl.random)

\* No rotation task is still pending once set_le_initiator_address has
\* reset the alarm (it would overwrite the address and use a null alarm).
NoStaleRotation ==
  rotation_posted => address_rotation_alarm # "none"

\* Every create_le_connection the client makes is eventually answered by
\* OnLeConnectSuccess or OnLeConnectFail for that peer, unless the process
\* has aborted.
AttemptAnswered ==
  \A p \in Peers : (p \in client.waiting) ~> (p \notin client.waiting \/ ~alive)

=============================================================================
