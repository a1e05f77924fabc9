----------------------------- MODULE AclManager -----------------------------
(***************************************************************************)
(* AclManager::impl (gd/hci/acl_manager.cc): Start and Stop, run by the   *)
(* module registry's thread, against the handler thread that runs the     *)
(* HCI event tasks of the two sub-managers and the inbound ACL dequeue    *)
(* callback dequeue_and_route_acl_packet_to_connection.  Each handler     *)
(* task is atomic; Start and Stop are split at every statement that       *)
(* creates, deletes or (un)registers something the handler reads.         *)
(*                                                                         *)
(* The controller shares one handle space between classic and LE links   *)
(* and reuses a handle once its link is gone.  It reports link events on  *)
(* the event stream and sends data on the ACL stream: each stream is      *)
(* FIFO, the handler serves the two in any interleaving.                  *)
(***************************************************************************)
EXTENDS Naturals, Sequences, FiniteSets, Functions, TLC

CONSTANTS
  Handles,      \* connection handles the controller hands out
  DebugHandle,  \* kQualcommDebugHandle (0xedc)
  None,
  MaxLinks,     \* bound on links the controller creates (each gets an id)
  MaxFrags,     \* bound on inbound ACL packets the controller sends
  MaxPosts,     \* bound on public API calls that post to the handler
  Writers,      \* client threads calling WriteDefaultLinkPolicySettings
  PolicyValues, \* default link policy settings they write
  NoPolicy      \* 0xffff: default_link_policy_settings_ never written

ASSUME DebugHandle \notin Handles /\ None \notin Nat
ASSUME MaxLinks \in Nat /\ MaxFrags \in Nat /\ MaxPosts \in Nat
ASSUME NoPolicy \notin PolicyValues /\ None \notin PolicyValues

LinkTypes == {"Classic", "LE"}
LinkIds == 1..MaxLinks

VARIABLES
  pc,             \* the registry thread's position in Start / Stop
  classic_conns,  \* classic_impl_->acl_connections_: handle -> link id
  le_conns,       \* le_impl_->le_acl_connections_: handle -> link id
  ctrl_links,     \* controller: handle -> [type, id]
  evq,            \* link events in flight to the handler
  acl_in,         \* inbound ACL packets in the HCI queue
  delivered,      \* [sent, to] link ids of packets handed to an assembler
  fault,          \* "none", or the kind of bad pointer the handler used
  tasks,          \* tasks posted to the handler, in order: [impl, op, val]
  le_alarm,       \* le_impl_'s address_rotation_alarm_: "none", "armed" or "idle"
  policy_cache,   \* default_link_policy_settings_, on the callers' threads
  policy_ctrl,    \* the default link policy classic_impl last wrote to the controller
  writer,         \* writer thread -> value stored and not yet posted, or None
  n_links, n_frags, n_posts

vars == <<pc, classic_conns, le_conns, ctrl_links, evq, acl_in, delivered,
          fault, tasks, le_alarm, policy_cache, policy_ctrl, writer,
          n_links, n_frags, n_posts>>

policy_vars == <<le_alarm, policy_cache, policy_ctrl, writer>>

\* A handler task: the sub-manager its pointer names, what it runs, an argument.
Task(impl, op, val) == [impl |-> impl, op |-> op, val |-> val]

-----------------------------------------------------------------------------
(* What the handler thread sees of the registry thread's progress.         *)

DequeueRegistered ==
  pc \in {"dequeue_registered", "classic_created", "running", "le_deleted",
          "classic_deleted"}

\* classic_impl_ and le_impl_: nullptr before Start creates them, dangling
\* once Stop has deleted them (Stop never resets them).
ClassicImpl ==
  CASE pc \in {"idle", "dequeue_registered"} -> "null"
    [] pc \in {"classic_created", "running", "le_deleted"} -> "live"
    [] OTHER -> "deleted"

LeImpl ==
  CASE pc \in {"idle", "dequeue_registered", "classic_created"} -> "null"
    [] pc = "running" -> "live"
    [] OTHER -> "deleted"

-----------------------------------------------------------------------------
(* dequeue_and_route_acl_packet_to_connection, as the outcome for one     *)
(* packet: dropped, handed to the assembler of a link, or a use of a bad  *)
(* sub-manager pointer.                                                    *)

Dropped == [fault |-> "none", to |-> None]
Deref(impl) == [fault |-> impl, to |-> None]
Assembler(id) == [fault |-> "none", to |-> id]

\* Mutant: the IsValid check dropped.
RouteNoValidCheck(pkt) ==
  CASE pkt.handle = DebugHandle -> Dropped
    [] ClassicImpl # "live" -> Deref(ClassicImpl)
    [] pkt.handle \in DOMAIN classic_conns -> Assembler(classic_conns[pkt.handle])
    [] LeImpl # "live" -> Deref(LeImpl)
    [] pkt.handle \in DOMAIN le_conns -> Assembler(le_conns[pkt.handle])
    [] OTHER -> Dropped

\* Mutant: the debug-handle check moved after the classic lookup.
RouteDebugLast(pkt) ==
  CASE ~pkt.valid -> Dropped
    [] ClassicImpl # "live" -> Deref(ClassicImpl)
    [] pkt.handle \in DOMAIN classic_conns -> Assembler(classic_conns[pkt.handle])
    [] pkt.handle = DebugHandle -> Dropped
    [] LeImpl # "live" -> Deref(LeImpl)
    [] pkt.handle \in DOMAIN le_conns -> Assembler(le_conns[pkt.handle])
    [] OTHER -> Dropped

Route(pkt) ==
  CASE ~pkt.valid -> Dropped
    [] pkt.handle = DebugHandle -> Dropped
    [] ClassicImpl # "live" -> Deref(ClassicImpl)
    [] pkt.handle \in DOMAIN classic_conns -> Assembler(classic_conns[pkt.handle])
    [] LeImpl # "live" -> Deref(LeImpl)
    [] pkt.handle \in DOMAIN le_conns -> Assembler(le_conns[pkt.handle])
    [] OTHER -> Dropped

dequeue_and_route_acl_packet_to_connection ==
  /\ fault = "none"
  /\ DequeueRegistered
  /\ acl_in # <<>>
  /\ LET r == Route(Head(acl_in)) IN
       /\ fault' = r.fault
       /\ delivered' = IF r.to = None THEN delivered
                       ELSE delivered \cup {[sent |-> Head(acl_in).id, to |-> r.to]}
  /\ acl_in' = Tail(acl_in)
  /\ UNCHANGED <<pc, classic_conns, le_conns, ctrl_links, evq, n_links, n_frags,
                 tasks, n_posts, policy_vars>>

-----------------------------------------------------------------------------
(* Link events, run on the handler by the sub-manager that subscribed.     *)

\* classic_impl: Disconnection Complete erases the record.
ClassicDisconnect(h) == Restrict(classic_conns, DOMAIN classic_conns \ {h})

\* Mutant: an LE disconnection that leaves the handle in the table.
LeDisconnectNoErase(h) == le_conns

\* le_impl::on_le_disconnect: only a handle in le_acl_connections_ is erased.
LeDisconnect(h) == Restrict(le_conns, DOMAIN le_conns \ {h})

\* A link event, run on the handler by the sub-managers that subscribed to
\* it: Connection Complete inserts the record in the table of the link's
\* type; Disconnection Complete goes to both, each erases its own.  ~le_impl
\* unregisters its LE subevents, so an LE Connection Complete no longer
\* reaches a deleted le_impl_, but not the disconnect handler it was given
\* with GetLeAclConnectionInterface, which then runs on the deleted object.
\* classic_impl, outside src/, is taken to unregister its own handlers.
HandleLinkEvent ==
  /\ fault = "none"
  /\ evq # <<>>
  /\ LET e == Head(evq)
         classic_up == ClassicImpl = "live"
         le_up == LeImpl = "live"
     IN IF e.kind = "Connected"
        THEN /\ classic_conns' = IF e.type = "Classic" /\ classic_up
                                 THEN classic_conns @@ (e.handle :> e.id)
                                 ELSE classic_conns
             /\ le_conns' = IF e.type = "LE" /\ le_up
                            THEN le_conns @@ (e.handle :> e.id)
                            ELSE le_conns
             /\ UNCHANGED fault
        ELSE /\ classic_conns' = IF classic_up THEN ClassicDisconnect(e.handle)
                                 ELSE classic_conns
             /\ IF le_up THEN le_conns' = LeDisconnect(e.handle) /\ UNCHANGED fault
                ELSE fault' = LeImpl /\ UNCHANGED le_conns
  /\ evq' = Tail(evq)
  /\ UNCHANGED <<pc, ctrl_links, acl_in, delivered, n_links, n_frags,
                 tasks, n_posts, policy_vars>>

-----------------------------------------------------------------------------
(* The registry thread: Start then Stop.                                   *)

Step(from, to) == pc = from /\ pc' = to

\* Start: the scheduler is made and the dequeue callback registered
\* before either sub-manager exists.
StartRegisterDequeue == Step("idle", "dequeue_registered") /\ UNCHANGED le_alarm
StartClassic == Step("dequeue_registered", "classic_created") /\ UNCHANGED le_alarm

\* le_impl's constructor: its initiator address is random, so it makes the
\* rotation alarm and RotateRandomAddress schedules it.
ScheduleRotation == le_alarm' = "armed"

\* ~le_impl cancels and resets the alarm; a rotation task the alarm has
\* already posted stays on the handler.  (Its table and event handlers go
\* with the object.)
CancelRotation == le_alarm' = "none"

StartLe == Step("classic_created", "running") /\ ScheduleRotation

\* Stop: both sub-managers are deleted before the dequeue is unregistered.
StopDeleteLe == Step("running", "le_deleted") /\ CancelRotation
StopDeleteClassic == Step("le_deleted", "classic_deleted") /\ UNCHANGED le_alarm
StopUnregisterDequeue == Step("classic_deleted", "stopped") /\ UNCHANGED le_alarm

RegistryStep ==
  /\ fault = "none"
  /\ \/ StartRegisterDequeue \/ StartClassic \/ StartLe
     \/ StopDeleteLe \/ StopDeleteClassic \/ StopUnregisterDequeue
  /\ UNCHANGED <<classic_conns, le_conns, ctrl_links, evq, acl_in, delivered,
                 fault, n_links, n_frags, tasks, n_posts,
                 policy_cache, policy_ctrl, writer>>

-----------------------------------------------------------------------------
(* The public API, called on the clients' threads while the manager is    *)
(* started (the module registry starts its dependents after it and stops  *)
(* them before it).  Each call posts a task bound to the sub-manager      *)
(* pointer as the caller reads it (common::Unretained).                   *)

\* RegisterCallbacks, CreateConnection, CancelConnect, MasterLinkKey,
\* SwitchRole and SetSecurityModule post to classic_impl_;
\* RegisterLeCallbacks, CreateLeConnection and SetLeInitiatorAddress to
\* le_impl_.
ClientPosts ==
  /\ fault = "none"
  /\ pc = "running"
  /\ n_posts < MaxPosts
  /\ \E target \in {"classic", "le"} : tasks' = Append(tasks, Task(target, "api", None))
  /\ n_posts' = n_posts + 1
  /\ UNCHANGED <<pc, classic_conns, le_conns, ctrl_links, evq, acl_in, delivered,
                 fault, n_links, n_frags, policy_vars>>

\* WriteDefaultLinkPolicySettings, on the caller's thread: the store into
\* pimpl_, unsynchronised ...
WriteDefaultLinkPolicySettings(w, v) ==
  /\ fault = "none" /\ pc = "running"
  /\ n_posts < MaxPosts /\ writer[w] = None
  /\ policy_cache' = v
  /\ writer' = [writer EXCEPT ![w] = v]
  /\ n_posts' = n_posts + 1
  /\ UNCHANGED <<pc, classic_conns, le_conns, ctrl_links, evq, acl_in, delivered,
                 fault, tasks, le_alarm, policy_ctrl, n_links, n_frags>>

\* ... then the post of classic_impl::write_default_link_policy_settings.
PostDefaultLinkPolicySettings(w) ==
  /\ fault = "none" /\ pc = "running"
  /\ writer[w] # None
  /\ tasks' = Append(tasks, Task("classic", "policy", writer[w]))
  /\ writer' = [writer EXCEPT ![w] = None]
  /\ UNCHANGED <<pc, classic_conns, le_conns, ctrl_links, evq, acl_in, delivered,
                 fault, le_alarm, policy_cache, policy_ctrl, n_links, n_frags, n_posts>>

\* ReadDefaultLinkPolicySettings: ASSERT_LOG that a value was written; the
\* read itself changes nothing.
ReadDefaultLinkPolicySettings ==
  /\ fault = "none" /\ pc = "running"
  /\ policy_cache = NoPolicy
  /\ fault' = "assert"
  /\ UNCHANGED <<pc, classic_conns, le_conns, ctrl_links, evq, acl_in, delivered,
                 tasks, policy_vars, n_links, n_frags, n_posts>>

\* le_impl's rotation alarm expires: os::Alarm posts the scheduled
\* RotateRandomAddress, bound to Unretained(this), to the handler.
AlarmFires ==
  /\ fault = "none"
  /\ le_alarm = "armed"
  /\ le_alarm' = "idle"
  /\ tasks' = Append(tasks, Task("le", "rotate", None))
  /\ UNCHANGED <<pc, classic_conns, le_conns, ctrl_links, evq, acl_in, delivered,
                 fault, policy_cache, policy_ctrl, writer, n_links, n_frags, n_posts>>

\* The handler runs the oldest task on the object its pointer names, which
\* Stop may have deleted since the post.  A policy write reaches the
\* controller; a rotation schedules the alarm again.
RunPostedTask ==
  /\ fault = "none"
  /\ tasks # <<>>
  /\ LET t == Head(tasks)
         impl == IF t.impl = "classic" THEN ClassicImpl ELSE LeImpl
     IN IF impl = "live"
        THEN /\ policy_ctrl' = IF t.op = "policy" THEN t.val ELSE policy_ctrl
             /\ IF t.op = "rotate" THEN ScheduleRotation ELSE UNCHANGED le_alarm
             /\ UNCHANGED fault
        ELSE /\ fault' = impl
             /\ UNCHANGED <<policy_ctrl, le_alarm>>
  /\ tasks' = Tail(tasks)
  /\ UNCHANGED <<pc, classic_conns, le_conns, ctrl_links, evq, acl_in, delivered,
                 policy_cache, writer, n_links, n_frags, n_posts>>

-----------------------------------------------------------------------------
(* The controller.                                                         *)

\* A link comes up (the host is connectable or initiating while running).
CtrlConnect ==
  /\ fault = "none"
  /\ pc = "running"
  /\ n_links < MaxLinks
  /\ \E h \in Handles \ DOMAIN ctrl_links, t \in LinkTypes :
       /\ ctrl_links' = ctrl_links @@ (h :> [type |-> t, id |-> n_links + 1])
       /\ evq' = Append(evq, [kind |-> "Connected", type |-> t, handle |-> h,
                              id |-> n_links + 1])
  /\ n_links' = n_links + 1
  /\ UNCHANGED <<pc, classic_conns, le_conns, acl_in, delivered, fault, n_frags,
                 tasks, n_posts, policy_vars>>

CtrlDisconnect ==
  /\ fault = "none"
  /\ \E h \in DOMAIN ctrl_links :
       /\ ctrl_links' = Restrict(ctrl_links, DOMAIN ctrl_links \ {h})
       /\ evq' = Append(evq, [kind |-> "Disconnected", type |-> ctrl_links[h].type,
                              handle |-> h, id |-> ctrl_links[h].id])
  /\ UNCHANGED <<pc, classic_conns, le_conns, acl_in, delivered, fault,
                 n_links, n_frags,
                 tasks, n_posts, policy_vars>>

\* A data packet on a live link, a vendor debug packet, or a malformed one.
CtrlSendAcl ==
  /\ fault = "none"
  /\ n_frags < MaxFrags
  /\ \/ \E h \in DOMAIN ctrl_links :
          acl_in' = Append(acl_in, [handle |-> h, id |-> ctrl_links[h].id, valid |-> TRUE])
     \/ acl_in' = Append(acl_in, [handle |-> DebugHandle, id |-> None, valid |-> TRUE])
     \/ \E h \in Handles :
          acl_in' = Append(acl_in, [handle |-> h, id |-> None, valid |-> FALSE])
  /\ n_frags' = n_frags + 1
  /\ UNCHANGED <<pc, classic_conns, le_conns, ctrl_links, evq, delivered, fault,
                 n_links, tasks, n_posts, policy_vars>>

-----------------------------------------------------------------------------
Init ==
  /\ pc = "idle"
  /\ classic_conns = [h \in {} |-> None]
  /\ le_conns = [h \in {} |-> None]
  /\ ctrl_links = [h \in {} |-> None]
  /\ evq = <<>> /\ acl_in = <<>>
  /\ delivered = {}
  /\ fault = "none"
  /\ tasks = <<>>
  /\ le_alarm = "none"
  /\ policy_cache = NoPolicy /\ policy_ctrl = NoPolicy
  /\ writer = [w \in Writers |-> None]
  /\ n_links = 0 /\ n_frags = 0 /\ n_posts = 0

Next ==
  \/ RegistryStep
  \/ dequeue_and_route_acl_packet_to_connection
  \/ HandleLinkEvent
  \/ CtrlConnect
  \/ CtrlDisconnect
  \/ CtrlSendAcl
  \/ ClientPosts
  \/ \E w \in Writers :
       \/ \E v \in PolicyValues : WriteDefaultLinkPolicySettings(w, v)
       \/ PostDefaultLinkPolicySettings(w)
  \/ ReadDefaultLinkPolicySettings
  \/ AlarmFires
  \/ RunPostedTask

Spec == Init /\ [][Next]_vars

-----------------------------------------------------------------------------
(* Properties.                                                             *)

Packet == [handle : Handles \cup {DebugHandle}, id : LinkIds \cup {None},
           valid : BOOLEAN]

TypeOK ==
  /\ pc \in {"idle", "dequeue_registered", "classic_created", "running",
             "le_deleted", "classic_deleted", "stopped"}
  /\ DOMAIN classic_conns \subseteq Handles /\ DOMAIN le_conns \subseteq Handles
  /\ \A h \in DOMAIN ctrl_links : ctrl_links[h] \in [type : LinkTypes, id : LinkIds]
  /\ acl_in \in Seq(Packet)
  \* only packets sent on a link (valid, not the debug handle) reach an assembler
  /\ delivered \subseteq [sent : LinkIds, to : LinkIds]
  /\ fault \in {"none", "null", "deleted", "assert"}
  /\ le_alarm \in {"none", "armed", "idle"}
  /\ {policy_cache, policy_ctrl} \subseteq PolicyValues \cup {NoPolicy}
  /\ writer \in [Writers -> PolicyValues \cup {None}]

\* A handle is in at most one sub-manager's table (spec: handle uniqueness),
\* although the controller reuses it across link types.
HandleInOneTable ==
  DOMAIN classic_conns \cap DOMAIN le_conns = {}

\* The dequeue callback, which runs from the moment Start registers it, never
\* dereferences a sub-manager Start has not created yet.
NoNullSubManager == fault # "null"

\* The dequeue callback never dereferences a sub-manager Stop has deleted.
NoDeletedSubManager == fault # "deleted"

\* Every packet handed to an assembler was sent on that assembler's link.
InboundToOwnLink == \A d \in delivered : d.sent = d.to

=============================================================================
