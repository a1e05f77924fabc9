# TLA+ models of the GD ACL connection manager

This directory holds TLA+ models of the ACL connection manager in
`src/system/bt/gd/hci` (the LE sub-manager `le_impl.h`, the manager
`acl_manager.cc` and the two gRPC test facades), and of the LRU cache's
unit test `src/system/bt/common/lru_unittest.cc`. It also holds the TLC
configurations that check them. `PROJECT.json` lists the components, the
runs, the mutants that show each property can fail, and the map from every
model definition to the source lines it translates.

## 1. Inventory

### Components and their state

| Component | Source | State it keeps | Operations |
|---|---|---|---|
| LE sub-manager `le_impl` | `gd/hci/acl_manager/le_impl.h` | `le_acl_connections_` (handle → assembler and management callbacks), `connecting_le_` (set of AddressWithType), `le_initiator_address_`, `address_rotation_alarm_`, `le_client_callbacks_`/`le_client_handler_` | constructor (first RPA rotation), destructor, `on_le_event` dispatching `on_le_connection_complete`, `on_le_enhanced_connection_complete`, `on_le_connection_update_complete`; `on_le_disconnect`; `create_le_connection`; `set_le_initiator_address`; `RotateRandomAddress` (alarm task); `GenerateRpa` (pure); `handle_register_le_callbacks` |
| AclManager | `gd/hci/acl_manager.cc` | pointers to `classic_impl_`, `le_impl_`, the scheduler and the HCI ACL queue end; `default_link_policy_settings_` | `Start`, `Stop`, `dequeue_and_route_acl_packet_to_connection`; the public methods, which each post one task to the handler |
| Classic sub-manager `classic_impl` | not under `src/` (spec §4.2) | `acl_connections_`, outstanding connects, callbacks | create/cancel connection, connection and disconnection events |
| Round-robin scheduler | not under `src/` (spec §4.4) | registered links, credits per link type, cursor | `Register`, `Unregister`, send next, credit return |
| Assembler | not under `src/` (spec §4.5) | partial PDU per link | incoming fragment |
| LE gRPC facade | `gd/hci/facade/le_acl_manager_facade.cc` | `acl_connections_` (facade handle → Connection), `per_connection_events_`, `current_connection_request_` | CreateConnection, Disconnect, FetchIncomingConnection, SendAclData/enqueue_packet, SetInitiatorAddress, OnLeConnectSuccess/Fail, Connection::OnDisconnection |
| Classic gRPC facade | `gd/hci/facade/acl_manager_facade.cc` | the same for classic links, guarded by `acl_connections_mutex_` | CreateConnection, Disconnect, AuthenticationRequested, SendAclData, OnConnectSuccess/Fail |
| LRU cache | only its unit test `common/lru_unittest.cc` | capacity-bounded map in recency order | Put, Get, HasKey, Remove, Clear, Size |
| Security facade configuration API | `gd/security/facade_configuration_api.h` | two pointers | declarations only |
| HCI layer and controller | external | command queue, event streams, inbound and outbound ACL queues; in the controller: initiation, random address, links | environment |

### How they interact

All mutable state of the manager belongs to one `os::Handler`. Every public
method posts a task to it. HCI events are delivered to it too. The inbound
ACL queue's dequeue callback runs on the same handler. Each task runs to
completion, so one task is one atomic step of a model.

The concurrency is between the sources of tasks:
- controller events, in arrival order;
- client calls, from the facade's gRPC threads;
- the RPA rotation `os::Alarm`, which posts `RotateRandomAddress` when it expires;
- the inbound ACL queue, which is a different stream from the events.

Client callbacks (`OnLeConnectSuccess`, `OnLeConnectFail`, the management
callbacks) are posted to the client's handler. So the client sees them later
than the manager's state changed, and in posting order.

### What is hard

- A command's answer is ignored. The Command Status of an LE create is never
  examined, so a refused create is silently lost.
- Cancelling the alarm races its expiry. `os::Alarm::Cancel` does not take
  back a task that was already posted.
- Commands race controller state. LE Set Random Address is refused while the
  controller is initiating.
- The controller reuses handles. The host's tables must have forgotten a
  handle before the controller hands it out again.
- Events and data travel in two streams. The inbound ACL data is not ordered
  with the events.
- Callbacks arrive late. A client acts on stale knowledge while callbacks
  are still queued.
- Start and Stop race posted tasks that hold `Unretained` pointers.
- In the facades: indexes into `per_connection_events_`, a connection object
  reset but left in the map, and a mutex held across a wait for the handler
  that needs it.

### Properties that make each component correct

- **le_impl**
  - The host's LE table and the scheduler's registrations equal the
    controller's live links.
  - A peer is in `connecting_le_` only while the controller is initiating
    to it (le_impl does not have this property: see `LeAclManager`).
  - Every create is eventually answered.
  - The reported local address is the one the controller used.
  - A fixed initiator address stays fixed.
- **AclManager**
  - An inbound fragment reaches the assembler of the link it was sent on,
    or is dropped.
  - The 0xEDC handle is always dropped.
  - No task runs on a deleted sub-manager.
- **Scheduler** (not modelled: its code is not under `src/`)
  - The credits in use never exceed the controller's credits.
  - Credits are conserved by completed-packets events.
  - Fragments of one PDU go out contiguously.
  - Every backlogged link is served (fairness).
- **Assembler**
  - Emits exactly the PDUs sent, in order.
- **Facades**
  - Every callback finds its event queue.
  - No RPC dereferences a reset connection.
  - An RPC's answer goes to that RPC.
- **LRU**
  - The resident keys are the C most recently touched keys.
  - Each evicted key is reported exactly once.
  - Putting a key that is already present never evicts.

## 2. Modules

### `LeAclManager` (le_impl.h, with the LE controller and a client)

**State** (variables → code):
- `le_acl_connections`: the handle → `[remote, local]` map, standing for
  `le_acl_connections_` and the addresses given to each `LeAclConnection`.
- `connecting_le`: `connecting_le_`.
- `le_initiator_address`: `le_initiator_address_`.
- `address_rotation_alarm`: `address_rotation_alarm_`. It is `"none"` after
  the reset, `"idle"` once it has fired, and `"armed"` while scheduled.
- `rotation_posted`: the alarm task waiting on the handler.
- `le_client_registered`: the client callbacks and handler are set.
- `rr_registered`: the LE handles registered with the scheduler.
- `client_q`: the callbacks posted to the client handler.
- `client`: what the client is waiting for and which peers it holds links to.
  The client asks for `ClientPeers`; `IncomingPeers` connect to us.
- `ctrl`: the controller: the initiation, its random address and its links.
- `alive`: FALSE once the process has aborted (an ASSERT, a
  `LOG_ALWAYS_FATAL` or a null dereference).

**Actions.** One per handler task:
- `create_le_connection`
- `set_le_initiator_address`
- `handle_register_le_callbacks`
- `RotateRandomAddress`
- `InitiationCompletes` and `IncomingConnection`: these reach
  `on_le_connection_complete` and `on_le_enhanced_connection_complete`,
  including `on_common_le_connection_complete`.
- `Disconnection`: reaches `on_le_disconnect`.
- `on_le_connection_update_complete`

Two actions are environment steps:
- `AlarmFires`: the alarm expiry, which posts the task.
- `ClientRunsCallback`: the client handler runs the next callback.

**What is abstracted.**
- `RotateRandomAddress` draws its three random bytes from `Randoms` and
  builds the address with `GenerateRpa` (module `Rpa`): `prand[2]` is
  masked with `~0xc0` and or-ed with `0x40` (Bitwise), bytes 3..5 are the
  corrected prand and bytes 0..2 are the AES-128 hash. AES is not computed:
  a hash byte is a record naming the key, the masked prand and the byte, so
  two RPAs agree exactly when key and masked prand agree. The key is the
  all-zero `Octet16 irk = {}` of the code. `RotationRpa` tabulates
  `GenerateRpa` over `Randoms` once, because the draw is the only input.
- A static random address the client may set is a model value (`s1`).
- The legacy and extended create commands are one action, because their
  effect on state is the same.
- Reasons and connection parameters are dropped.

**The controller** follows the Core specification on the points le_impl
depends on:
- A second LE create while one is pending is refused (Command Disallowed).
- An LE create to a peer already linked is refused (Connection Already
  Exists).
- LE Set Random Address is refused while initiating.
- Every new link gets a handle not in use.

Commands take effect when they are issued: the HCI command queue is FIFO.

**Fairness.**
- The controller eventually ends an initiation it accepted: the peer
  connects, or the attempt fails. le_impl does not ensure this: it has no
  create timeout and no cancel, and a peer that never advertises leaves the
  create pending forever. It is an assumption about the peer, made only so
  that the unanswered create `le_refused_create` shows is one le_impl
  leaves unanswered, not one the peer never completes. No passing run
  relies on it: `le_lifecycle` checks safety only.
- The handler eventually runs a posted rotation.
- The client handler eventually runs posted callbacks.

No fairness is assumed for client calls or for unsolicited controller
events.

**Bounds.**
- 2 peers the client asks for, 2 handles (so handles are reused).
  `Randoms` has two draws, one with bits 7..6 of `prand[2]` set to 11 and
  one with 00, so each needs the correction; `le_lifecycle` takes only the
  first, and the static address `s1` still lets the initiator address
  change. In `le_lifecycle` a third peer connects to us, and a peer may
  complete under the RPA `r1`.
- `MaxCalls` ≤ 3 client calls (2 in `le_lifecycle`, where the client does
  not wait for answers, so two creates overlap and the second is refused),
  `MaxRotations` ≤ 2 alarm expiries and `MaxEvents` ≤ 3 unsolicited events.

These bounds reach every interesting case: handle reuse after a disconnect,
a rotation during an initiation, a second create while one is pending, and
an override racing a posted rotation, and an incoming link taking the
handle a created link has just freed.

**Runs.**

| Run | Expect | What it shows |
|---|---|---|
| `le_lifecycle` | pass | The LE table and scheduler registrations equal the controller's links (`LinksConsistent`), with incoming links, handle reuse, refused creates and peers completing under an RPA: `on_le_disconnect` unregisters and erases before the controller can reuse the handle, so the ASSERT at le_impl.h:128 cannot fire. The mutant skips the unregister. `RpaWhileRotating`: while the rotation alarm is in use, the address le_impl initiates from and the controller's random address are resolvable private addresses (bits 7..6 of the top byte are 01, the reference definition of the Core specification), whether or not the controller refused the last LE Set Random Address; the mutant drops the mask in `GenerateRpa`. |
| `le_refused_create` | violation | A refused create is never answered, because its Command Status is not examined. |

The client of `le_refused_create` may create while a create is pending.
A client that waits for each answer meets the same bug when it asks for a
peer that is connecting to us (`ClientPeers = IncomingPeers = {p2}`): the
controller refuses the create (Connection Already Exists), and the peer
stays in `connecting_le_` with no answer.
| `le_stale_rotation` | violation | A posted rotation survives `set_le_initiator_address`: it overwrites the fixed address and dereferences the reset alarm. |
| `le_local_address` | violation | A rotation during an initiation is refused by the controller, yet the host reports the new address as the connection's local address. |

**No refinement is claimed.** The service spec §4.3 promises le_impl's
client (every create answered, a peer in `connecting_le_` only while it is
being initiated) is not what le_impl implements, so no passing run states
it:
- a refused create is never answered (`le_refused_create`);
- with a peer RPA, the enhanced connection complete replaces the remote by
  the RPA (le_impl.h:154-156) before `on_common_le_connection_complete`,
  so the RPA is erased and the identity address the client passed stays in
  `connecting_le_`. le_impl never reads `connecting_le_` to decide
  anything, so the stale entry changes no behaviour; `le_lifecycle`
  reaches it and its properties hold.

The safety properties are conditioned on `alive`, because an aborted
process keeps no state the controller must agree with. Aborts stay
reachable in the runs: an incoming connection before registration, a
public initiator address, and the stale rotation.

### `AclManager` (acl_manager.cc, with both link tables and the controller)

Two threads touch `AclManager::impl`. The module registry's thread runs
`Start` and `Stop`. The handler thread runs the sub-managers' event tasks and
the inbound ACL dequeue callback `dequeue_and_route_acl_packet_to_connection`.
These share one reactor, so each of them is one atomic step. `Start` and `Stop`
are split at each statement that creates, deletes, registers or unregisters
something the handler reads.

**State** (variables → code):
- `pc`: the registry thread's position in `Start` (lines 61, 63, 64) and
  `Stop` (lines 68, 69, 70). It decides whether the dequeue callback is
  registered (`DequeueRegistered`). It also decides whether `classic_impl_`
  and `le_impl_` are null, live or deleted (`ClassicImpl`, `LeImpl`). `Stop`
  never resets them.
- `classic_conns`: `classic_impl_->acl_connections_`, handle → link id.
- `le_conns`: `le_impl_->le_acl_connections_`, handle → link id.
- `ctrl_links`: the controller's links. One handle space is shared by both
  link types.
- `evq`: link events in flight to the handler.
- `acl_in`: inbound ACL packets, a separate FIFO stream from the events.
- `delivered`: for each packet handed to an assembler, the link it was sent
  on and the link that received it.
- `fault`: a dereference of a null or deleted sub-manager, or the failed
  ASSERT of `ReadDefaultLinkPolicySettings`. The process stops there.
- `le_alarm`: `le_impl_->address_rotation_alarm_`. The constructor arms it
  (`ScheduleRotation`) and `~le_impl` cancels it (`CancelRotation`).
- `policy_cache`: `default_link_policy_settings_` (line 115). It starts at
  0xffff (`NoPolicy`).
- `policy_ctrl`: the default link policy classic_impl last sent to the
  controller.
- `writer`: for each client thread in `Writers`, the value it has stored
  and not yet posted.

**Actions.**
- `RegistryStep`: the six Start and Stop steps.
- `ClientPosts`: a public method (lines 120-174) posts a task bound with
  `Unretained` to `classic_impl_` or `le_impl_` as it is when posted.
  `tasks` is the handler's queue of these tasks.
- `WriteDefaultLinkPolicySettings(w, v)` then
  `PostDefaultLinkPolicySettings(w)`: the caller's store into `pimpl_`
  (line 166), then its post of the classic write (lines 167-168). They are
  two steps, because nothing orders one caller's store and post against
  another caller's.
- `ReadDefaultLinkPolicySettings`: the ASSERT fails if no value was ever
  stored. The read itself changes nothing.
- `AlarmFires`: le_impl's rotation alarm posts `RotateRandomAddress`, bound
  to `Unretained(this)` (le_impl.h:248).
- `RunPostedTask`: the handler runs the oldest task. It dereferences its
  sub-manager, which may be null or already deleted by then.
  - A policy write sets `policy_ctrl`.
  - A rotation schedules the alarm again.
  - What the other LE tasks then do is modelled by `LeAclManager`.
- `dequeue_and_route_acl_packet_to_connection`: does the whole callback
  through `Route`, in the code's order: invalid packets and 0xedc are
  dropped, then the classic table is searched, then the LE table, and
  unknown handles are dropped.
- `HandleLinkEvent`: Connection Complete inserts into the table of the
  link's type. Disconnection Complete erases the handle from both tables.
  The classic half is spec-modelled, because `classic_impl` is not under
  `src/`; it is taken to unregister its handlers when deleted. Events keep
  arriving during `Stop`. `~le_impl` (le_impl.h:63-66) unregisters the LE
  subevents, so an LE Connection Complete no longer reaches it. It does not
  give back the disconnect handler it got from `GetLeAclConnectionInterface`
  (line 52-53), so a Disconnection Complete after `delete le_impl_` runs
  `on_le_disconnect` on the deleted object. That the HCI layer, outside
  `src/`, keeps calling that handler is an assumption.
- `CtrlConnect`, `CtrlDisconnect`, `CtrlSendAcl`: the controller.
  - It creates links only while the manager is running.
  - It reuses a handle once its link is gone.
  - It sends data only on live links.
  - It can send 0xedc debug packets and malformed packets at any time.

**Bounds.**
- One handle, so every second link reuses it, possibly for the other link
  type.
- `AclStartStop`: 3 links and 2 packets, enough for a classic → LE → classic
  handle reuse with data in flight.
  - There are 2 posts, shared by API tasks and policy writes.
  - There is one writer thread, writing one of two policy values: its
    store and post fire, and the unwritten-read ASSERT is reachable. No
    property is stated about the cache: with one writer it agrees with the
    controller by the order of two statements, and with two it does not
    (the hazard at line 166).
  - The alarm may fire any number of times. With at most one rotation
    outstanding, the state stays finite.
- The violation runs use the smallest bounds that show their traces.

No fairness is needed: every property here is a safety property.

**Runs.**

| Run | Expect | What it shows |
|---|---|---|
| `acl_start_stop` | pass | A handle is in at most one table (`HandleInOneTable`), although the controller reuses it across link types: `on_le_disconnect` erases it (le_impl.h:97); the mutant keeps it. The dequeue callback, registered before either sub-manager exists, never dereferences a null one (`NoNullSubManager`). This holds only because invalid and 0xedc packets return before the lookup; the mutant moves the 0xedc check after the classic lookup. Only packets sent on a link reach an assembler (`TypeOK`); the mutant drops the validity check. |
| `acl_misroute` | violation | A data packet of a closed link is dequeued after the events of its disconnection and of a new link on the same handle. It reaches the new link's assembler. |
| `acl_stop_race` | violation | A packet dequeued between `delete le_impl_` and `UnregisterDequeue` is looked up in the deleted LE table. An API task posted before `Stop` runs on the deleted sub-manager just as well (the trace TLC reports). So do a rotation the alarm posted before `~le_impl` cancelled the alarm, and a Disconnection Complete reaching `on_le_disconnect`. Spec §5 orders `UnregisterDequeue` first and drains the handler. |

### `LeFacade` (le_acl_manager_facade.cc, composed with `LeAclManager`)

`LE == INSTANCE LeAclManager` shares every variable of the LE module. The
facade is the LE module's client:
- `CreateConnection(p)` is `LE!create_le_connection(p)`, together with the
  RPC's first half.
- `FacadeRunsCallback` is `LE!ClientRunsCallback`, together with the facade
  callback the dequeued item reaches: `OnLeConnectSuccess`,
  `OnLeConnectFail` or `Connection::OnDisconnection`.

The controller steps are the LE module's own.

**State.**
- `per_connection_events`: one record per queue. Each names the RPC that
  created it and the answers posted to it.
- `current_connection_request`.
- `acl_connections`: entry → LE handle of the `LeAclConnection` it holds,
  and whether `connection_` is still set. Entries are keyed by request
  number; `to_handle` is injective below its wrap.
- `creating`: Create RPCs between `CreateLeConnection` and the
  outstanding check.
- `sends`: SendAclData calls whose enqueue is registered.
- `fault`: `"oob"` for a vector index past the end, `"null"` for a call
  through a reset `connection_`.

**Actions.**
- CreateConnection is split at the outstanding check (lines 67 and 68).
  Two concurrent RPCs can both issue the create.
- `FetchIncomingConnection`, `Disconnect`, `SendAclData`: RPCs on gRPC
  threads.
- `enqueue_packet`: the facade handler.

**Bounds.** 2 peers and 2 handles. 2 creates, 3 controller events and 2
other RPCs. An incoming connection is possible from one peer, under its
identity address or an RPA. No symmetry reduction: only `p1` connects in,
so the two peers are not interchangeable, and the run must see a create
to `p2` completing around `p1`'s incoming connection in every order.

**Ordering assumption.** `on_le_disconnect` (le_impl.h:96) calls the
connection's management callbacks directly; `LeAclConnection`, outside
`src/`, posts `OnDisconnection` to the facade handler. The model posts it
on the same client queue as the connect callbacks, in le_impl's order, and
matches it to its Connection by LE handle. `LinksMirrored` relies on that
order.

| Run | Expect | What it shows |
|---|---|---|
| `facade_links` | pass | `LinksMirrored`: the facade's live Connections, one per link, together with the callbacks still queued for the facade, account exactly for le_impl's links, under concurrent RPCs, incoming connections from a peer using an RPA, disconnections and handle reuse. The mutant's `OnDisconnection` does not reset `connection_`. |
| `facade_answer_to` | violation | Two concurrent CreateConnection RPCs both issue `CreateLeConnection`. The answer about one peer is written to the stream of the RPC for the other. |

The model also reaches two other faults. No run is spent on them, because
a short unit test reaches each:
- An incoming connection with no FetchIncomingConnection outstanding
  indexes `per_connection_events_` past its end.
- A Disconnect RPC after the disconnection dereferences the reset
  `connection_`.

### `ClassicFacade` (acl_manager_facade.cc)

Each SendAclData RPC is a thread. The facade handler is one more thread.
`acl_connections_mutex_` is `mutex`.

**SendAclData** has three steps:
- `SendAclDataRegister`: lock, find, register the enqueue.
- `SendAclDataReturn`: the future is ready, so unlock and answer OK.
- `SendAclDataTimeout`: `wait_for(1000 ms)` expires, so unlock and answer
  RESOURCE_EXHAUSTED. The enqueue callback stays registered.

**The handler** runs:
- `enqueue_packet`;
- the posted `OnConnectSuccess` / `OnConnectFail` (`OnConnectCallback`).
  `OnConnectSuccess` first locks the mutex. While an RPC holds it, the
  handler is blocked (`handler_blocked`) until `OnConnectSuccessResumes`.

**The streaming RPCs** share `per_connection_events_` (counted by
`n_queues`) and `current_connection_request_` (`current`):
- `CreateConnection` posts the create to the manager first (`requested`),
  then `CreateConnectionCheck` does the outstanding-request check and the
  emplace (`AddEventQueue`). `FetchIncomingConnection` is the check and
  emplace alone. `MaxStreams` bounds the two together.
- `RunLoop` is the second read of the index, in
  `per_connection_events_[current_connection_request_]->RunLoop`. If an
  answer came in since the emplace, it points one past the end, and the
  model records `fault = "oob"`.
- `AnswerCurrentRequest` is the index and increment at the end of
  `OnConnectSuccess` / `OnConnectFail`. With no queue at that index, it
  too ends in `fault = "oob"`.

**Disconnect and AuthenticationRequested** (`LookupRpc`) lock the mutex,
look the handle up and unlock, answering OK or INVALID_ARGUMENT.

**The classic sub-manager**, which is outside `src/`, posts connection
outcomes (`ConnectionOutcome`). It answers a posted create with Success or
Fail, or announces an incoming connection.

Every step is guarded by `fault = "none"`: an out-of-bounds index ends the
process. Each property speaks only of behaviours up to a fault.

**Fairness.**
- The RPC's timed wait returns when the future is ready or the deadline
  passes (WF on both).
- The handler runs what is posted or registered whenever it is not
  blocked (WF on its steps).
- An RPC thread that has passed the check goes on to the emplace and to
  `RunLoop` (WF on both).

**Bounds.** Two RPC threads (`Rpcs`) each make a SendAclData or lookup call.
`MaxStreams = 2` in `classic_send`, so a second stream meets an outstanding
one, and `MaxConnects = 3` callbacks. `classic_late_enqueue` has
`MaxStreams = 1`: it needs only one answered create.

| Run | Expect | What it shows |
|---|---|---|
| `classic_send` | pass | `HandlerNeverStuck`: a handler blocked in `OnConnectSuccess` on the mutex a waiting SendAclData holds always gets it back; every RPC path releases it, the INVALID_ARGUMENT returns included. The mutant where an invalid-handle lookup returns without unlocking blocks it forever. That the waiting RPC itself returns is not stated: the 1000 ms deadline guarantees it whatever else happens. |
| `classic_late_enqueue` | violation | After a timeout, `enqueue_packet` still runs for the returned RPC. It reads the freed request and sends a packet reported as not sent (the TODO at line 119). |

### `LruCache` and `LruUnittest` (common/lru_unittest.cc)

`common/lru.h` is not in this repository. `LruCache` states its contract
(spec §5) as operators on a cache value `[capacity, order, val]`, `order`
listing the resident keys least recently used first:
- `Put` updates a resident key in place and makes it the most recently
  used, evicting nothing. A new key is appended and, past the capacity,
  the head of `order` is evicted and returned for the eviction callback.
- `Get` touches a resident key. `HasKey` does not. `RemoveKey` drops the
  key without the callback. `Clear` empties the cache.

`LruUnittest` translates every test of `lru_unittest.cc`. One behaviour is
one test, chosen in `Init`:
- The five sequential tests are scripts of statements (`P`, `G`, `NG`, `H`,
  `R`, `S`, `D`, `Clr`); `RunStatement` runs one per step and records every
  EXPECT that does not hold. `OnEvict` is the test's eviction callback
  writing the `dummy` int (set to 1, incremented, or none).
- The multi-thread test runs `NumWorkers` threads, each `WorkerPut`,
  `WorkerHasKey`, `WorkerRemove` on its own key, in every interleaving,
  then `JoinAndCheckSize`. Each cache call is atomic under the cache's
  mutex.

**Bounds.** The pressure test uses 4 keys instead of 0xFFFFF, enough to
fill, refresh and drain a full cache; its timing EXPECT is left out. The
multi-thread test uses 3 threads instead of 100 with a cache of the same
size, which keeps the test's point: a cache smaller than the number of
threads fails `EXPECT_TRUE(HasKey(key))` in some interleaving.

| Run | Expect | What it shows |
|---|---|---|
| `lru_tests` | pass | `ExpectationsHold`: every EXPECT of the sequential tests holds for the contract, including eviction order after Get and no eviction when Put updates a key. `WorkersSeeOwnKey`: in every interleaving each thread finds and removes its own key and the cache is empty after the join. The mutants lose the eviction callback, or make the cache one entry smaller than the threads. |

## 3. Plan

Ordered by importance. Items 1, 2, 5, 6, 7 and 8 are done.

1. **LeAclManager** (done): the LE connection lifecycle, the RPA rotation
   and the controller environment.
2. **AclManager** (done): Start/Stop against the dequeue callback, both
   link tables under handle reuse, inbound routing, and API tasks still
   queued when Stop deletes a sub-manager, the default link policy cache
   and the rotation alarm posting to le_impl.
3. **RoundRobinScheduler** (not done; see Not modelled).
4. **Assembler** (not done; see Not modelled).
5. **LeFacade** (done): composes LeAclManager with the facade's event
   queues and connection map. Still open: the data race on
   `per_connection_events_` inside a step, and the `to_handle` wrap.
6. **ClassicFacade** (done): the mutex held across the 1 s wait in
   SendAclData against the facade handler, and every RPC and answer
   on the streaming queues. The two out-of-bounds paths are modelled as
   faults. They have no run of their own.
7. **Lru** (done): the contract as operators, and every test of
   lru_unittest.cc run against it, the multi-thread one in every
   interleaving.
8. **Rpa** (done, without the interval): `GenerateRpa`'s bit manipulation as an operator over bytes
   (Bitwise). It is checked against its reference: bits 7..6 of the top
   byte are 01. The rotation interval (`GetNextPrivateAddrressIntervalMs`)
   is not modelled: no state depends on time.

## 4. Not modelled

- HCI packet formats and the gRPC serialisation (`builder_to_string`): pure
  formatting.
- AES-128 in `GenerateRpa`: a symbolic term of the IRK and the masked prand;
  no property depends on the cipher text.
- The security facade configuration API: declarations only.
- The per-connection assembler (§4.5). It is not under `src/`, and no code
  under `src/` inspects inbound fragments: `on_incoming_classic_acl` and
  `on_incoming_acl` forward whole packets to the gRPC stream. A model
  would check §4.5 against itself.
- The facades' inbound data path (`on_incoming_*_acl`, `FetchAclData`):
  it moves packets from one queue to a stream, and no facade state
  depends on it.
- `AclManagerFacadeService::on_disconnect`: no code binds it.
- The round-robin scheduler (§4.4). Its code is not under `src/`. A model
  written from §4.4 alone checks the spec against itself: credits are
  conserved and fragments stay contiguous because such a model is written
  that way. The one open point, that §4.4 charges a PDU's whole fragment
  count after checking only that credits are not zero, cannot be compared
  with code. Its registration by le_impl is modelled (`rr_registered`).
- The refinement of `LeAclManager` to the §4.3 service: le_impl does not
  implement it (see `LeAclManager`).
- Logging.
