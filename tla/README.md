# A TLA+ verification of IoT_Edge_Gateway

The gateway connects hubs (MQTT, on the site) with a central server (gRPC).
It is a single Rust process of asynchronous tasks that talk over bounded
channels. This directory holds TLA+ modules translated from its code, the TLC
configurations that model-check them and theorems about them with proofs that
TLAPS checks. Line numbers refer to `src/src/`, and a comment at a property says
which lines it is about.

Contents: [1 the system](#1-the-system), [2 modules](#2-the-modules),
[3 what is checked](#3-what-the-runs-check), [4 disagreements](#4-where-code-and-documentation-disagree),
[5 fairness](#5-fairness), [6 proofs](#6-what-is-proved),
[7 what is left out](#7-what-is-left-out), [8 plan](#8-plan).

---

## 1. The system

Ten services surround `Core`, which routes every message between them. Each
service is linked to `Core` by one bounded `mpsc` channel in each direction,
and consists of a `run` loop (one `tokio::select!`) in front of the tasks that
do the work, again behind bounded channels (capacity 50, `channels/domain.rs`).
Everything runs concurrently; a `send` waits while the channel is full. Two
things are shared otherwise: the cache `NetworkManager` behind an `RwLock`,
which some tasks hold while they send, and the SQLite database behind
`Repository`. If any service ends, `main`
cancels the others and the process ends (systemd starts it again); a panic
aborts it.

| component | state | operations | what makes it correct | where |
|---|---|---|---|---|
| **HeartbeatService** (`heartbeat/`) | `FsmHeartbeat` (four states and a believed status), timer, channels | a heartbeat arrives, a timer ends; the pure machine turns events into action vectors, the orchestrator carries them out | believed connected ⇒ silence will be noticed; *up* and *down* come in turn, each for its cause; outage and return are both reported | `Heartbeat` |
| **FsmService** (`fsm/`), balancing runtime | three-level `FsmState`, `UpdateSession` of the coordinator (votes, reports, attempts), timer | epoch answer, handshake votes, phase reports, timeouts; entry actions | never left in a state nothing leads out of; stages in order; both tasks agree on the phase; silent hubs cannot hold it up | `EdgeFsm` |
| FsmService, `heartbeat_generator` | which beat is due, timer | a mode from the coordinator, a timeout | once asked for, beats never cease | `HeartbeatGenerator` |
| FsmService, life of the runtime | the runtime or none, its channels | create and delete it as hubs come and networks go, ask for the epoch, announce and store it | a runtime exactly when there is something to balance; an epoch is answered and never given twice without a cause | `EdgeRuntime` |
| FsmService, `edge_state` reporter | the last mode | every ten seconds hubs and server are told of it | the mode told is that of the machine | `EdgeRuntime` |
| **FirmwareService** (`firmware/`) | process vector, index, timer, optional runtime | `Update`, answer of a hub, timeout, create/delete runtime | every hub gets its turn; one outcome per session; session ends | `FirmwareUpdate` |
| **GrpcService** (`grpc_service/`) | client loop Init/Work/Error, stream | connect, receive, upload, fail, pause | reconnects; an outage is believed; what its notices and the heartbeat service agree on is what the gateway believes | `GrpcLink` |
| **MessageService** (`message/`) | the believed status, once in each of two tasks | telemetry live or to the database; batches up; status notices | nothing sent twice; order kept; loss only for a named cause | `StoreForward`, `Backbone` |
| **DataService**, telemetry (`database/`) | row buffers, tables, status | gather, write, take out in batches | the buffer is written; an outage is drained | `StoreForward` |
| **DataService**, topology (`database/`) | tables `network` and `hub` | insert/upsert, update, delete, read at start | the database agrees with the cache; the reply is true | `Topology` |
| **NetworkService**, `NetworkManager` (`network/`) | the cache of networks and hubs | `network_admin` decides and updates the cache, `network_dba` asks for the statements | the same; the hubs hear the newest change last | `Topology`, `Backbone` |
| balance epoch table | one row | read and written at the start of a balance | the epoch grows across crashes | `EdgeRuntime` |
| **Core** (`core/`) | none of its own | one `select!` over all services, one `send` per message | the star does not lock itself up; what it passes on stays in order | `Backbone`, and hops of other modules |
| **MqttService** (`mqtt/`) | client (Waiting, Init, Work, Error), queue of requests, subscribed topics | connect, subscribe as the topology changes, publish, give up and start again | subscriptions follow the topology; the client never waits for room only it can make; it comes back | `Mqtt` |
| MetricsService, system set-up, context, quorum settings | – | I/O and constants | – | not modelled |
| **main** | – | supervision | a restart reaches a good state | restarts of `StoreForward`, `Topology`, `EdgeRuntime` |

How they interact: the heartbeat service and the gRPC service each tell `Core`
whether the server is there. `Core` passes the notices of both to
`MessageService`, which keeps one status and routes telemetry by it, and those of the
heartbeat service to `DataService` as well, which drains the stored rows by them: the two
halves of *store and forward* follow different words about the same server. Topology changes come from the
server through `Core` to `network_admin`; from there a cache update is immediate
and the database statement follows through `network_dba`, `DataService` and one
of two database tasks; the reply to the server carries the result of the
statement. `FsmService` asks `DataService` for the epoch, then talks to the
hubs through `Core`. What the database tasks say of hubs and networks makes `Core`
create and delete the balancing runtime. `network_admin` also tells the MQTT client,
through other services and `Core`, that the cache has changed; the client reads the
cache itself.

### What is hard here

1. **Two tasks per machine.** A pure state machine task sends action vectors to
   an orchestrator that executes them later. Between the two the orchestrator's
   own copy of the state is old, and both may wait for room towards each other.
2. **The timer.** One `watchdog_timer` pattern is copied four times. A timeout
   may be in a channel when it is cancelled, and `Some(StopTimer) = recv()`
   in a `select!` consumes any other command and then disables the branch.
3. **Circular waits.** Almost every pair of tasks has bounded channels both ways
   and waits for room without reading.
4. **Two monitors** for one server, with independent notices.
5. **Cache and database** change at different times, along queues that do
   not wait for each other; statements fail; the process restarts.
6. **A lock across awaits.** tokio's lock is fair: a reader waits behind a writer
   that waits, so a guard held over a `send` can stop tasks that hold nothing.
7. **News that outlive their reader.** Answers and notices reach a client or a runtime
   that was given up and created again since they were asked for.

`PROJECT.json` lists these hazards one by one, each at its line.

---

## 2. The modules

| module | stands for | abstract specification |
|---|---|---|
| `Watchdog` | the timer task; used by four modules through `INSTANCE` | – |
| `Heartbeat` | service, orchestrator, `run_fsm_heartbeat` | `LinkMonitor` |
| `EdgeFsm` | `general_fsm`, `run_fsm`, timer | `BalanceProtocol` |
| `HeartbeatGenerator` | `heartbeat_generator`, its timer | – |
| `FirmwareUpdate` | `update_firmware_task`, timer, service loop | – |
| `GrpcLink` | client, `GrpcService::run`, arms of `Core` | – |
| `StoreForward` | `msg_from_hub`, `msg_to_server`, `dba_insert_task`, `dba_get_task` | – |
| `Topology` | `network_admin`, `network_dba`, `DataService`, the two tasks for statements, start | – |
| `Mqtt` | the client `mqtt`, the loop of `MqttService`, the cache as the source of its news | – |
| `EdgeRuntime` | `FsmService::run`, `fsm` and `run_fsm` up to the epoch, `edge_state`, the three database tasks, the epoch table | – |
| `Backbone` | `Core`, the loops and tasks of `MessageService`, `NetworkService` and `FirmwareService`, the lock of the cache | – |
| `HeartbeatProofs`, `EdgeFsmProofs`, `FirmwareUpdateProofs`, `EdgeRuntimeProofs`, `MqttProofs`, `StoreForwardProofs`, `TopologyProofs` | theorems about the module of that name (section 6) | – |
| `BackboneProofs` | theorems about `Backbone` and about `GrpcLink`, which have no name in common | – |

### Conventions

* **A step is the code between two awaits.** A task that is sending several
  things keeps what is left in a variable (`todo`, `fsmOut`, `relay`, ...); it
  does nothing else until the channel has room, and other tasks run in between.
* **Channels** are sequences of at most `Cap` messages. Where messages cannot be
  told apart the channel is a number.
* **Durations** are abstracted: a sleep may end at any moment. Properties hold
  for all settings of `protocol.toml` and `system.toml`.
* **Percentages** are the code's own comparisons over the counts of the hubs.
* **The environment** (server, hubs, database errors, restarts) does as it likes
  within bounds that are constants (`Burst`, `MaxUpdates`, `MaxRows`, ...). Bounds
  stand only in the guards of the environment's actions.
* A definition marked *Variant* is a plausible slip in the definition below it.
  Each property is violated once some variant replaces its original, which shows
  that the property can fail.

### Watchdog

States `idle`, `running`, `deaf`, `firing`. `deaf` is a sleep that has swallowed an
`InitTimer` and cannot be cancelled any more. `firing` is a sleep that
ended and waits for room for its `Timeout`.

### Heartbeat

The service passes heartbeats in and notices out (`ServiceTakesMessage`,
`ServiceSendsMessage`, `ServiceForwardsNotice`); the orchestrator sends events on
(`HeartbeatTakesMessage`, `HeartbeatSendsEvent`) and carries out the actions of a
vector one by one (`DoOnEntry`, `DoSendStatus`, `DoStopTimer`); `step_inner` is the
machine's step, one disjunct per state and event, and gives the vector of
*SendStatusConditional, StopTimer, OnEntry* that `FsmSendsActions` sends.
`LinkMonitor` says what is promised about it: *up* only through a heartbeat, with
no silent period since the one before; *down* after two silent periods in a row.

### EdgeFsm

`general_fsm` is a task with a list of sends (`todo`) per message, translated
handler by handler: handshakes, quorum, phases, safe mode. `run_fsm` is a table of
transitions over the record `[global, balance, quorum, phase]` with the entry
actions computed, as in the code, from the difference of old and new
state. `BalanceProtocol` has a stage and the last stage announced to the hubs:
stages come in order, giving up is possible only in handshakes, the hubs are never
told of a stage ahead of the gateway, and `LiveSpec` says it comes to its end.
The coordinator's sends to `Core`, `heartbeat_generator` and `edge_state` are
taken never to wait; the set of hubs is constant during a balance; an empty-queue
report with `queue_empty = false` changes nothing and is left out.

### HeartbeatGenerator

The coordinator's modes arrive in the order in which `EdgeFsm` sends them
(`Successors`). `beat` keeps its value on *Stop*, as in the code.

### FirmwareUpdate

The updater's select over messages and timeouts, the fetch of the version (an
outcome chosen freely), the session (`process_vector`, `index` from 0), and
the creation and deletion of the runtime by `FirmwareService`. Answers may come
late, twice, out of turn, or from a hub of an earlier session.

### GrpcLink

The client takes uploads only in `Work`. `Core` and the service pass uploads one
way and notices the other. Uploads are anonymous; the hop through
`MessageService` is collapsed into `told`, the status it believes. Two write it: the
notices of the client, and those of the heartbeat service, which come to `Core` on a
channel of their own (`monitor`, `CoreTakesHeartbeatNotice`) whenever that service changes
its mind, for reasons that are in `Heartbeat`. A connection fails only if the server is
down. `Circle` is the state the code does not prevent: client and service, or service and
`Core`, wait for room in each other's full channel and read nothing meanwhile. The
properties name it as a way out, and the run has states in which it is the case.

### StoreForward

Rows have an identity and a table. Hops that keep the order are collapsed.
Statuses of the heartbeat service and of the gRPC service are independent of each
other, which is more than the services can do together, and sound for safety.
The write `repo.insert(&tdv)` goes table by table, and a database error or a
restart may come between two tables; `pop_batch` is likewise step by step.
Backpressure is left out here (`GrpcLink` and `Backbone` are about it); all networks
are active.
Uploads end at `GrpcService`.

### Topology

The cache (`networks`, `hubs`) and the tables (`table`, `hubTable`), the queues
between `network_admin`, `network_dba`, `DataService` and the tasks for inserts and
removals. Execution of a statement and the sending of its result are separate
steps. At the start the tables are read one after the other and come to the cache
as batches; a read that fails is only logged, as in the code, and what it would have read
is not in the cache. The server changes networks at any pace, before the start is over
and before the last change was answered. Hops that only pass on are collapsed, those of
`Core` included.
Settings, topics, device names and hub orders are left out; the notices *NoNetworks*
and *ThereAreNetworks* are in `EdgeRuntime`.
Four history variables name what the code does not promise; they stand in no guard.
`astray`: networks whose row the start did not read, or that were changed before the start
was over, up to the next change. `crossed`: networks with a deletion and another change
under way at once, in the queues of two tasks that do not wait for each other. `unread`:
stored hubs that the start did not read. `dismissed`: hubs removed by `DeleteHub`. Such a
hub is removed from the cache only: `tables/hub.rs:100` names a column
the table does not have, and `network/logic.rs:101` passes the id of the
network. The model does what the code does.

### Mqtt

The client's states are those of the code, with the points where it waits for room as
states of their own; `Stuck` is the wait for room among its own requests, which
nothing ends. `requests` is the queue of `rumqttc`'s event loop: it is emptied
only by `poll`, which only this task calls. The broker, the connection and what the
broker grants are external and follow from how the code uses the library: sessions
are clean (`CLEAN_SESSION`), and a client that is given up takes its queue
with it, unsent messages included. A network stands for its eleven topics, and the
topic of linkage requests is an element of its own. `create_local_mqtt` may fail.
The way of the news through the database and `Core` is the multiset `news`; the
poll that another arm of the `select!` cancels loses nothing (external). `told`, the
status `MessageService` believes, starts as connected, as in the code.

### EdgeRuntime

Each database task has a queue and an agenda, one statement per step, so tasks
overlap as they do in the process; `notices` is the way from them through `Core` to
`FsmService`. The runtime is a record with its channels, created by `Spawned` and
thrown away whole by *DeleteRuntime*, with everything under way in it. Its machine
has the four states that tell the epoch apart; the balance between
`BalanceEpochOk` and its end is `EdgeFsm`, here `BalanceEnds`. The ticks of `edge_state`
and its channel are collapsed into `state`, the mode it tells at its next tick.
History variables: `served` (a hub was stored, or found at the start, since the last
network went), `crossed`, `used`, `unsaved`, `reused`; they stand in no guard.

### Backbone

Routing and blocking, without data. A message is a pair of a variant, which decides
on its route, and a content; what a task does for a message is a *turn*, a list of
sends and locks that it works through before it takes the next message. `Turns` are
sets where the outcome depends on what is not modelled here (the believed status, the
list of hubs). The lock is tokio's: given in the order it was asked for, held by
a writer alone. `UnderLock` is what a task does between getting the lock and its next
wait, `Free` marks where a guard ends, which in Rust is the end of its scope:
sends inside it happen under the lock. The cache is one network's mode.
`Weight` is what a message may still become, and `Units` gives every such part an
element of its own, so that `UnderWay`, the load, is the size of two sets. `Loading` says
that the networks read at the start are still somewhere on their way to the cache: until
they are there the server sends no change. `Way` is the way of a notice from the cache
to the hubs, tasks and channels in turn.

`FsmService` and `MetricsService` use the routes `ToHub` and `ToServer` and are not
sources of their own; messages of `Core` that end there (`HelloWorld`,
`FromServer` variants without an arm), firmware answers and settings take the route of
a message that is in the model. `Others`, the services without tasks in this module, are
one `select!` loop each: a loop that has something for `Core` waits for room in the channel
to it and takes nothing from `Core` meanwhile, and `Core` waits for room towards it, so the
circles of `Core` with each of them are in the model. What they do with a message inside is
not: for gRPC it is in `GrpcLink`, for MQTT in `Mqtt`, for the heartbeat service in
`Heartbeat`, and `DataService` is taken always to get rid of what it took. The `fsm` task
reads the lock and drops it before it sends; the client of `Mqtt` holds it over its queue of
requests, which is `NoEndlessWait` there.

---

## 3. What the runs check

The ten runs expected to pass explore their whole state space.
The other two are in section 4.

| run | configuration | states | invariants and properties |
|---|---|---|---|
| `heartbeat` | `Cap` 2, `Burst` 3 | 17,086 | `TypeOK`, `ArmedWhileConnected`, `NoCircularWait`, `KeepsLinkPromise`, `SilenceIsReported`, `Reconnects` |
| `edge_fsm` | 2 hubs, 1 attempt, `Cap` 2, `Burst` 2 | 37,305 | `TypeOK`, `Hierarchy`, `NeverStuck`, `SessionAgrees`, `NoCircularWait`, `KeepsLiveProtocol`, `EveryoneEndsNormal` |
| `heartbeat_generator` | `Cap` 2 | 329 | `BeatsGoOn` |
| `firmware` | 2 hubs, 2 updates, `Cap` 2 | 35,980 | `SilentHubIsTimed`, `OutcomeCoversEveryHub`, `WorkEnds` |
| `grpc` | `LinkCap` 2, `Burst` 3 | 136,377 | `AgreedIsBelieved`, `OutageIsBelieved`, `OnlyCirclesKeepItAway` |
| `store_forward` | 2 tables, batch 2, limit 1, 2 rows, 2 notices, 1 mishap | 61,924 | `AtMostOnce`, `EachWayKeepsOrder`, `LossHasCause`, `BufferIsFlushed`, `OutageIsDrained` |
| `topology` | 1 network, 1 hub, 3 changes, 1 request, 1 mishap | 788,904 | `NetworksAgree`, `RepliesTellTheTable`, `StoredHubsAreCounted`, `ChangesSettle` |
| `mqtt` | 2 networks, `Cap` 2, queue of 8, `Burst` 2, 2 changes | 425,475 | `NoEndlessWait`, `SubscriptionsFollow`, `HearsTheHubs` |
| `edge_runtime` | 1 network, 3 changes, 1 mishap, last epoch 2 | 438,076 | `ReuseHasCause`, `RuntimeFollows`, `ModeIsTold`, `EpochsNeverFall`, `EpochIsAnswered` |
| `backbone` | `Cap` 1, `Load` 3, 4 tables, 7 kinds of content | 2,933,166 | `TypeOK`, `NoCircularWait`, `NewestNoticeIsCurrent` |

`TypeOK` is kept where it bounds something: the channels, in `Heartbeat` and
`EdgeFsm`, and the lock and the load of `Backbone`.

**What they show.**

* `heartbeat`: however stale timeouts, cancelled sleeps and swallowed commands fall
  together, a gateway that believes in the server has a watchdog armed. Notices
  to `Core` come in turn, which the machine of `dba_get_task` relies on.
* `edge_fsm`: no state of the balance is left without a timer, a verdict or an
  event to come, though the coordinator stops the timer on its own besides the
  machine's actions. When no action is under way, machine and coordinator agree on
  the phase. Every step is a step of the protocol, and every round of it ends in
  *Normal*, even when both hubs are silent for ever.
* `heartbeat_generator`: a stale `Timeout` re-arms the timer after *Stop*, but no
  order of events makes the beats cease once they are wanted.
* `firmware`: the hub whose turn it is always has a timer, no outcome leaves out
  a hub, sessions end – also with a second `Update` in the middle of one.
* `grpc`: what the client and the heartbeat service agree on is what the gateway
  believes, in whatever order their notices came; an outage is believed in the end, though
  the heartbeat service said last that the server is there; and with the server reachable
  and heard for good the client works again and the gateway knows it. The last two but for
  a circle of full channels, which the run reaches and which stays for good (section 4):
  nothing else keeps the gateway from its server.
* `store_forward`: no row goes twice, though the database takes rows out before they
  are sent; the order is kept on each of the two ways; and a row is lost only because
  `msg_to_server` drops it while it believes the server disconnected, or because the
  database or the process failed.
* `topology`: with changes that follow each other at any pace, cache and database agree
  once none is under way, or the server has been told of an error; the last code it got is
  true, whatever is queued behind it; every hub that the start has read, or that asked
  since, is counted in the quorums while it is stored; every change is answered. Left out
  are, by name, what the code does not promise: `crossed`, `astray`, `unread`, `dismissed`.
* `mqtt`: a change whose news arrives while the client pauses, after it was
  created again from a newer cache, or twice, leaves the subscriptions of the networks
  as the cache has them; the queue of requests never holds up its only reader
  within the bound stated below; and with networks at the start the client always comes
  back and is believed connected.
* `edge_runtime`: the stored epoch never falls. It is given to two balances only
  when the process or the runtime went while the number was on its way to the table
  (a runtime that is deleted drops it, `fsm/domain.rs:186`), when its statement
  failed, or when it was read again before it was stored. An epoch asked for is answered,
  by an error if need be, or the runtime is gone; the mode told is that of the
  machine.
* `backbone`: up to the stated load no set of tasks waits in a circle for
  room or for the lock, with guards held over sends in three services and with all the
  loops around `Core` able to hold it up; and the
  hubs never hear the older of two changes of their network last.

**Why the bounds are enough.**

* `Cap` 2 is the least capacity at which a channel can hold two different
  messages and be neither empty nor full; 1 and 3 differ from it only in when
  circles close. The circular waits are counted out: in `Heartbeat` and
  `EdgeFsm` the circle between machine and orchestrator needs a load of
  `2·Cap + 2` undigested messages (102 in the code), the outer one of
  `Heartbeat` `Cap + 2`. These runs stay below, and `NoCircularWait` there shows that no
  step multiplies a message, so that the load does not grow by itself; it does not show
  that the load stays small, which the code does not see to. `GrpcLink`'s
  circles need `LinkCap + 1` uploads, and its run has them: `Burst` is 3. In `Backbone` the first circle is
  between `Core` and `MessageService`, and closes at `2·Cap + 2` (102 with
  `buffer_size = 50` in `system.toml`): `Load` 3 with `Cap` 1 is tight, and with
  `Load` 4 TLC finds the circle. A message counts there as all that it may still
  become, a batch for one upload per table.
* `Mqtt`'s queue of requests must hold what can be under way: 11 requests per network
  and one for the linkage beside the messages not yet sent, at most 1000
  (`BUFFER_SIZE`) in the code. The run has 8 for two networks, each one request,
  and a load of two. `Dropped_KeepsQueue` shows what happens when it does not hold.
* Two hubs make the difference between one, some and all votes. One attempt gives
  both a repeated and an exhausted handshake. No symmetry set is used, since it
  would not be sound for liveness. `edge_fsm` was also checked with `Burst` 3 for its
  invariants (676,306 states, no error).
* Two updates put one in the middle of another; two tables and two rows with
  `BatchSize` 2 and `Limit` 1 give a write that stops half-way, a full and a partial
  batch, and a drain of several rounds. No action of `topology` relates two networks but the
  counts at the start and before a hub is stored; three changes of one make an insertion,
  an update and a deletion in any order. Its invariants were also checked with two
  requests of hubs (2,992,343 states) and with two networks and two changes (3,523,207
  states), without an error.
* `edge_runtime` has one network, the smallest case of *the last network goes*;
  three changes make a hub, a deletion and a hub again; one mishap is a restart
  or a failed statement at any point. The seven kinds of `backbone` are one for each
  route that takes the lock, sends twice or goes to a service of its own.
* Deadlock is checked where the system may not stop (`Heartbeat`, `EdgeFsm`, `GrpcLink`,
  `Mqtt`, `Backbone`).
  It is switched off where the environment's bounded inputs run out
  (`HeartbeatGenerator`, `FirmwareUpdate`, `StoreForward`, `Topology`,
  `EdgeRuntime`) and the
  system then rightly rests.

---

## 4. Where code and documentation disagree

Two are runs that end in a violation; `PROJECT.json` quotes the sentences they
contradict.

* `firmware_panic`: a `Timeout` that was in its channel when the last hub answered
  indexes one past the vector (`firmware/logic.rs:189`); the process aborts.
* `mqtt_join`: `update_subscriptions` marks every topic inactive and brings back those of
  networks only (`mqtt/logic.rs:302-319`). The topic of linkage requests is
  unsubscribed with the first change of the networks, and hubs that are not linked are
  not heard until the client is created again.

The following were met while modelling. TLC showed the first six on
configurations of these modules that are given here; the others are read off the code.

* A `QuorumPhase` is sent again for every further report, and a `Timeout` may be queued
  beside one: the second event ends the *next* phase before a report for it was
  counted (`fsm/logic.rs:535-543`; `EdgeFsm`, two hubs).
* The link to the server can stay away for good. In an outage the client takes no uploads
  and tells each attempt that fails; the service takes the uploads that still come – the
  `EdgeState` of every ten seconds, acknowledgements, what was on its way – until
  `rx_outbound` is full and it waits with one more in hand (`grpc_service/domain.rs:91`),
  reading no notices. Once they fill their channel too, the client waits for room
  (`domain.rs:205`, `268`) and neither ever reads again. With channels of 50 that takes 51
  uploads and 51 attempts at five seconds' pause and more: an outage of some ten
  minutes. The client is then no longer "able to recover from network failures by
  reconnecting automatically" (`grpc_service/domain.rs:4-5`). TLC finds both circles in the
  state space of the run `grpc` (`GrpcLink` with `Burst > LinkCap`; `~Circle` as an
  invariant), and with `LinkCap` 1 and `Burst` 2 the property `OnlyCirclesKeepItAway`
  without its last disjunct is violated. `CirclesNeedUploadsAndStay` proves that a circle
  never opens again.
* `Core` and `MessageService` wait for each other once `2·Cap + 2` messages are on their
  ways (`Backbone` with `Load` 4: `NoCircularWait` is violated).
* A deletion overtakes the insertion or update of the same network between the two database
  tasks when the server does not wait for the reply; the network stays in the database
  (`database/domain.rs:146`; `Topology`: `NetworksAgree` for all networks that are not
  `astray` is violated).
* A read of the start that fails is only logged (`database/logic.rs:347`, `361`, `368`,
  `375`): the gateway runs with an empty cache although networks and hubs are stored, and
  nobody is told; the server's next setting of the network is taken for an insertion, which
  the table refuses, and its deletion is ignored (`Topology`: `NetworksAgree` for all
  networks that are not `crossed` is violated in four steps).
* Of a network that is inserted and changed again during the start, the row read in between
  arrives last: the cache goes back to it, the table keeps the change
  (`network/logic.rs:138`; the same property, with no fault allowed).
* A fresh installation has no networks at the start, so `NetworksReady` never comes: the
  MQTT client stays in *Waiting* until the gateway is restarted, does not see a
  shutdown, and messages for hubs fill its channel (`mqtt/logic.rs:128-141`).
* A runtime created after one was deleted can get the answer about the epoch that the
  deleted one had asked for, and then its own: `fsm` takes the second in any state
  (`fsm/logic.rs:122-133`), which moves the epoch in the middle of a balance and makes
  `edge_state` tell of a balance until the mode changes next – never, once it is *Normal*. `ModeIsTold` names this exception.
* A hub or network stored while another command deletes the last network: the count and
  the notices of the two tasks may cross, and the runtime is deleted although there is
  a hub, or kept although there is none (`database/logic.rs:149-160`, `227-247`).
  `RuntimeFollows` leaves this case out.
* The hubs are never told that their network was deleted: `network_admin` takes it out of
  the cache before it sends `DeleteHub`, and `get_topic_to_send_msg_to_hub`
  (`network/domain.rs:340-347`) then finds no topic, contrary to
  `network/logic.rs:201-203`. A retained `ActiveHub` message stays on the broker, and the
  creation of the network anew publishes none. `ActiveHub` is also dropped while
  the broker is believed away.
* A sleeping watchdog throws an `InitTimer` away; a `Timeout` behind a heartbeat
  counts as one of two failures; a handshake is attempted once more than its maximum.
* `msg_to_server` drops live messages and batches while it believes the server away,
  though the repository's README.md:39 says that what cannot be sent is retried, and what is stored
  waits for the next outage the heartbeat service declares.
* `HandshakeFromHub.flag` and `EmptyQueue.phase` are not read; its README.md:89 gives five
  minutes for the OTA timeout, the settings 120 s; a request of linkage for an unknown
  network is acknowledged; `reqwest::get` has no timeout.

---

## 5. Fairness

* **Weak fairness for every step of a task**: tokio polls every task that is ready,
  so a step that stays possible is taken.
* **Strong fairness for an arm of a `select!` that can be ready and not ready in
  turn**: `tokio::select!` starts at a random branch (no use of `biased;`), so a
  branch that is ready again and again is taken with probability one. In
  `StoreForward` and `Topology` weak fairness is enough for the arms too.
* **Strong fairness for the sends of the coordinator and the timer of `EdgeFsm`**: the
  channel they send on has two senders and may be full and free in turn; tokio's
  channels serve the senders that wait in the order in which they came.
* **Timers**: the watchdog's steps are fair as a whole, so a sleep that is not
  cancelled ends.
* **`Mqtt`**: strong fairness for the arms of the client and the service, as above, and
  for `CreatesClient`: the certificates can be read sooner or later, else there is
  nothing to come back to. `EdgeRuntime` needs weak fairness only: its tasks take
  from one queue each. `Backbone` has no liveness property: strong fairness of the
  sends of eleven tasks over thirty channels is out of TLC's reach.
* **None for the environment.** Servers, hubs, faults and restarts need never act.
  Where a property needs one to behave, it is the premise of the property:
  in `GrpcLink` `<>[](server = "up" /\ monitor = "ServerConnected")`, as the heartbeat
  service can take the status back at any time, `<>[](broker = "up")` in `Mqtt`, `<>[](server = "down")` in
  `SilenceIsReported`, and in `OutageIsDrained` that from some time on the
  heartbeat service says connected and there was no mishap.
* `Heartbeat!Reconnects` in addition has the premise that finally no sleep ends: heartbeats
  come faster than the timer, which the model without durations cannot tell.

---

## 6. What is proved

Every invariant and every action property of the runs is proved, those about waiting with
the load as their condition. Seven modules have a
module of proofs of their own, and `BackboneProofs` is about two, `Backbone` and
`GrpcLink`, the uplink at its edge, whose names are kept apart (`LinkSpec`, `LinkCap`,
...). The theorems hold for all values of the constants, under the named assumptions of
the modules: capacities, bounds and numbers of tables are natural numbers, a channel has
room for one message at least, sets of hubs and networks are finite, the mark of a hub
without network is no network's name (the `ASSUME`s named `...Assumption` at the head of
each module). Where a theorem needs more, the table says so.

| theorem | says |
|---|---|
| `HeartbeatProofs!TypeCorrect` | `Spec => []TypeOK`, with every channel within its capacity |
| `HeartbeatProofs!ConnectedIsArmed` | `Spec => []ArmedWhileConnected` |
| `HeartbeatProofs!LinkRefinement` | `Spec => KeepsLinkPromise`: the implementation of `LinkMonitor` |
| `HeartbeatProofs!NoCircularWaitHolds` | `Spec => [](Load <= Burst /\ (NoCircularWait \/ Load > Cap + 1))` |
| `EdgeFsmProofs!TypeCorrect` | `Spec => []TypeOK` |
| `EdgeFsmProofs!HierarchyHolds` | `Spec => []Hierarchy` |
| `EdgeFsmProofs!SessionAgreesHolds` | `Spec => []SessionAgrees` |
| `EdgeFsmProofs!NeverStuckHolds` | `Spec => []NeverStuck` |
| `EdgeFsmProofs!ProtocolRefinement` | `Spec => Protocol!Spec`: the implementation of `BalanceProtocol`, the safety part of `KeepsLiveProtocol` |
| `EdgeFsmProofs!NoCircularWaitHolds` | `Spec => []NoCircularWait`, if `Burst <= 2 * Cap + 1` |
| `BackboneProofs!TypeCorrect` | `Spec => []TypeOK`: the capacities, the lock and the load |
| `BackboneProofs!NoCircularWaitHolds` | `Spec => []NoCircularWait`, if `Load <= 2 * Cap + 1` |
| `BackboneProofs!NewestNoticeIsCurrentHolds` | `Spec => []NewestNoticeIsCurrent` |
| `BackboneProofs!CirclesNeedUploadsAndStay` | of `GrpcLink`: a circle only with more than `LinkCap` uploads under way, and no step ends it |
| `BackboneProofs!AgreedIsBelievedHolds` | `LinkSpec => []AgreedIsBelieved` |
| `FirmwareUpdateProofs!TypeCorrect` | `Spec => []TypeOK`, `index` within the vector |
| `FirmwareUpdateProofs!SilentHubIsTimedHolds` | `Spec => []SilentHubIsTimed` |
| `FirmwareUpdateProofs!OutcomeCoversEveryHubHolds` | `Spec => OutcomeCoversEveryHub` (an action property) |
| `FirmwareUpdateProofs!CrashIsAfterTheSession` | while a session is on, the unchecked index is in bounds |
| `EdgeRuntimeProofs!TypeCorrect` | `Spec => []TypeOK` |
| `EdgeRuntimeProofs!ModeIsToldHolds` | `Spec => []ModeIsTold` |
| `EdgeRuntimeProofs!RuntimeFollowsHolds` | `Spec => []RuntimeFollows` |
| `EdgeRuntimeProofs!EpochsNeverFallHolds` | `Spec => EpochsNeverFall` (an action property) |
| `EdgeRuntimeProofs!ReuseHasCauseHolds` | `Spec => []ReuseHasCause` |
| `MqttProofs!TypeCorrect` | `Spec => []TypeOK` |
| `MqttProofs!SubscriptionsFollowHolds` | `Spec => []SubscriptionsFollow` |
| `MqttProofs!NoEndlessWaitHolds` | `Spec => [](client # "Stuck" /\ (NoEndlessWait \/ Load > Cap))`, if `Fits`: the queue has room for the topics, the changes and the messages |
| `StoreForwardProofs!TypeCorrect` | `Spec => []TypeOK` |
| `StoreForwardProofs!AtMostOnceHolds` | `Spec => []AtMostOnce` |
| `StoreForwardProofs!EachWayKeepsOrderHolds` | `Spec => []EachWayKeepsOrder` |
| `StoreForwardProofs!LossHasCauseHolds` | `Spec => LossHasCause` (an action property) |
| `TopologyProofs!TypeCorrect` | every variable keeps its type, every channel carries only the messages its reader knows |
| `TopologyProofs!StoredHubsAreCountedHolds` | `Spec => []StoredHubsAreCounted` |
| `TopologyProofs!NetworksAgreeHolds` | `Spec => []NetworksAgree` |
| `TopologyProofs!RepliesTellTheTableHolds` | `Spec => []RepliesTellTheTable` |

**ConnectedIsArmed.** `ArmedWhileConnected` is not inductive: a `StopTimer` taken
by a sleeping watchdog disarms it, and only what follows that command tells that
it will be armed again. `ArmedInv` adds `StopsArePaired` (in every action vector, wherever
it is under way, a `StopTimer` has the entry of a waiting state right behind it,
and a `StopTimer` in the timer's channel is followed there by `InitTimer`, or the
orchestrator is about to send one) and `DeadIsDisconnected` (the one state without
a timer does not believe the server connected). The three are inductive under
`TypeOK`; the proof has one step per action and one per conjunct it can disturb.

**LinkRefinement.** `Init` maps to `LinkMonitor!Init`; only `run_fsm_heartbeat`
changes the mapped variables, and `StepRefines` goes through its transitions.

**NoCircularWait of Heartbeat.** Either circle needs its channels full and a task in
hand at each end: 2·`Cap` + 2 messages for machine and orchestrator, `Cap` + 2 for
service and orchestrator. `LoadInv` says that what is under way stays within `Burst`: no
step makes two out of one. Only an entry starts a sleep, and `EntriesLast` (an entry is
the last action of its vector) lets the sleep take the place of the vector. The theorem
needs no bound on the load: it says how many heartbeats a circle takes.

**HierarchyHolds.** `Hierarchy` is inductive by itself: `OnlyStepsMoveFsm` leaves only the
step of `run_fsm`, `LeafShape` says what the current leaf tells of the record, and
`StepKeepsHierarchy` covers the table of transitions.

**SessionAgrees.** The session follows the machine with a delay, so the invariant is
about what is under way: `AgreesInv` says that once `fsmOut`, `actions` and `todo` are
done, in this order, the session is in the state that the machine's calls for (`Due`).
`StepVectors` goes through the transitions once and leaves two kinds of steps: the
machine takes an event and its state calls for the same session as before, with a vector
that sets none; or the vector ends in the entry action that sets the new one. The rest
of the proof, and the next one, rest on these kinds.

**NeverStuck.** Not inductive: a `StopTimer` that is under way will disarm the watchdog,
and there are two who send it. The machine has the start of the next state behind each
of its stops in the same vector (`MadeGood`). The coordinator, which stops on its own
when a quorum of reports is reached, has sent the report before the stop. `StopsInv`
says so of every stop in `todo` and `cmds` while the machine's state needs the timer:
behind the stop comes a start, or a report that ends this state is on its way to the
machine. A report may have been counted for a state that the machine has left; then, by
`AgreesInv`, the entry of the state it is in is still to come, and brings the start.
`LiveInv` is `NeverStuck` in the terms of `StopsInv`; both are inductive with
`AgreesInv`. Most steps of the coordinator only take the first operation of `todo` away
or put its sends in its place (`Consumes`), which `ConsumesKeeps` and `ConsumesStops`
treat for all of them.

**ProtocolRefinement.** The stages follow from the table of transitions (`StageMoves`: a
step of the machine moves `Stage` as `Start`, `Advance`, `GiveUp` or `Recover` of the
abstract module, or not at all). What the hubs are told is the other half: the
announcement of a phase is sent when the entry action has gone through `fsmOut`,
`actions` and `todo`, and the machine may be phases ahead by then. `TellInv` puts all
announcements under way in one line, from `announced` through `todo`, `actions` and
`fsmOut` to `Stage`, and says that their heights on the path never fall along it. So
each send tells of a stage that is no lower than the last one told and no higher than
the machine's: a `Tell` of the abstract module, or, when a handshake is repeated, a
stutter.

**NoCircularWait of EdgeFsm.** The circle needs both channels full, a vector in `fsmOut`
and an event in the coordinator's hand: `2·Cap + 2` things under way. `LoadInv` bounds
them by `Burst`, but not by the `Load` of the model, of which a handler that sends an
event and then is still at work would be counted twice: `Weight` counts the handler only
as long as an operation that leads to an event or a sleep is left in it (`Bears`).
`Sparse` says that no vector and no handler has two of them, so each step turns one into
one. The start is a case of its own: the question for the epoch leaves the program and
comes back, and `Asking` says that nothing else is under way meanwhile. The hypothesis
is tight: with one more, both channels can be full.

**TypeCorrect of Backbone.** `Inv` is the type in full: which messages each of the
thirty-odd channels carries (`Msgs`), which steps each task takes (`StepsOf`), that a task
asks for the lock with nothing else left to do and holds it, while it sends, only over
sends to tasks that never ask for it (`Shape`, `Calm`), who queues for the lock, and that
a writer is alone. `GoodTurn` and `GoodHold` say what a turn may be that begins with a
message, or with the lock: at most as heavy as what it began with. They are shown once
for each task and each kind of message; after that a step is a change of one channel and
one agenda, and the lemmas on `Units` say how such a change moves the load. `Safe` is
`Inv` with the bound on the load, and is inductive. The claim that no task multiplies
what it was given is thereby a fact about the code's arms, not about the instance.

**NoCircularWait of Backbone.** In a circle somebody waits for room and is served by a
task that does the same (`CircleSends`): if all wait for room, any two neighbours do;
otherwise somebody waits for the lock, and the lock's queue ends at a task that holds it
or that may take it, the holder waits for room (`HolderSends`), and what serves it never
asks for the lock, so waits for room too. The two channels they wait for are full, and
each of the two has its own message in hand: `2·Cap + 2` units, by `TwoOf`, one more
than the hypothesis allows. The bound is the one that TLC finds to be tight, and like it
a property *under that load*. The lock alone therefore makes no circle: every circle has
two full channels in it.

**NewestNoticeIsCurrent.** The property itself is inductive once it is written by stages
(`WayOf`: nine places, odd ones tasks, even ones channels), given `Safe` and
`StartIsFirst`. `Safe` says where a notice can be: `NoticesGo` and `NoticesCome` find
for each task that sends one its place on the way. A step then takes a notice from one
stage to the end of the one behind it and leaves the order as it was; `handle_action`
puts the notice of the new mode into the first stage, and `msg_to_hub` ends the way.
`StartIsFirst`: while the networks of the start are on their way to the cache no change
is, so the load at the start, which sets the cache and tells nobody, finds no notice
that it would make untrue. The proof needed `Loading` to look at all positions of
channels and agendas: at the first ones alone, a start behind another message would go
unseen and a change be let in before it was over. Channels of one, which TLC checks, do
not tell the two apart; the proof for every capacity does.

**CirclesNeedUploadsAndStay.** A circle has one upload in the hand of `Core` or of the
service and `LinkCap` in the channel before it, by the types alone. Neither of the two that
wait has a step, nothing else reads the channels they wait for, and only they send into
them, so both stay full: one case for each action. Together with the run, which reaches
circles as soon as `Burst` allows `LinkCap + 1` uploads, this is what section 4 says of the
link; the theorem is no promise that circles stay away.

**AgreedIsBelieved.** The status under way is what the invariant must speak
about: `NewestStatus(s)` is true if the last status in the queues between client and `Core`
is `s`, or, when there is none, if `told` is `s` or what the heartbeat service said last.
`BeliefInv` says that the newest status is the one the client's state calls for. Each hop
keeps it; only the client's own sends change it, and the heartbeat service replaces `told` by
its own word. With no notice under way and both sources of one mind, this is the property.

**SilentHubIsTimed.** As for the heartbeat, the invariant is about stops under way:
`TimedInv` says that behind every `StopTimer`, planned in `todo` or sent, there is an
`InitTimer`. Here a stop and its start are not next to each other, as the request to the hub
stands between them and its sending may wait.

**OutcomeCoversEveryHub, CrashIsAfterTheSession.** `TurnInv`: every hub before `index`
was asked, the hub at `index` was asked or will be, `index` is in bounds while `Working`
and at the end when not, and the report is sent in `Sleeping` only. So the index that
`firmware/logic.rs` does not check is out of bounds only for a timeout that outlives its
session; that this does happen is what the run `firmware_panic` shows.

**ModeIsTold.** `ModeInv` speaks of the last action under way to `edge_state`: it
is the mode of the machine, until a second answer comes.

**RuntimeFollows.** `FollowsInv`: as long as no hub and network crossed, what a database
task has counted is still so when it speaks, and the notices under way (`WillExist`)
lead to a runtime exactly if a hub was served.

**EpochsNeverFall, ReuseHasCause.** Both rest on `EpochInv`, which follows an epoch round
the whole loop (table, answer, `FsmService`, machine, `NewEpoch`, table): answers
under way rise, each is the stored epoch or the one before it; epochs on their way to
the table rise, by one at most; and an epoch that was given is stored, on its way, or
known to be unsaved.

**SubscriptionsFollow.** `TopicInv`: what the broker will send once it has taken the
requests in the queue (`Will`) is what the client counts as subscribed. `NewsInv`:
unless news is under way, this is the cache's set.

**NoEndlessWait.** Two more conjuncts under `TopicInv` and `NewsInv`. `LoadInv`: the load stays
within `Burst`, and the start's batch is the one message above it. `RoomInv`: what
is queued about topics, and what would be queued if news came now, is at most
the number of networks, two, and the changes. With `Fits` the queue never fills. The circle
of client and service has one message or news in the service's hand and `Cap` in the channel
before it: the theorem gives this load, which the code does not exclude (50 messages for
hubs while 50 of theirs wait).

**The three theorems of StoreForward.** `WayInv` describes the two ways as chains of
stages (live: uploaded, `live`, `fromHub`; stored: uploaded in a batch, `commands`,
`popped`, `db`, what is not yet written of `buf`, `inserts`, `fromHub`). In each table
the rows of a stage are older than those of the stages behind it, every queue is
ordered, and the two ways are apart. `StepKinds` shows that each step moves the *oldest*
rows of one stage to the next, lets one new row in, or loses rows for a named cause; the
rest of the argument is about such steps and no longer about the code. `AtMostOnce`
needs the chains because the rows of a batch are taken out of the table one after the
other while a restart may come at any time.

**NetworksAgree, RepliesTellTheTable.** Changes of a network queue up behind each other
without a bound, so the invariant is about the order of what is under way. `Apart`: unless
the network is `crossed`, its changes are with the insert task or with the remove task and
not with both, so the queue they are in keeps the order in which the server made them.
`NewestFits`: the *newest* of them agrees with the cache; once its statement was run, the
outcome stands for it, and then the table agrees with the cache or the code is an error.
`Told`: what a task is about to say of a network, and the last code when nothing is about to
be said, is true of the table; the next statement of the same task comes after the saying,
and `Apart` keeps the other task away. `Start` is about a network that is not `astray`:
until its row is in the cache nothing of it is under way, and the rows that were read are
those of the table. `OrderInv`, `StartInv` and `CacheInv` are the three for all networks that
are not excepted. None of them bounds the changes, the failures or the restarts, and the
server need not wait for anything.

**StoredHubsAreCounted.** `HubInv` follows a hub the other way round, from the table
back to the cache: a hub whose insert is under way was `Entered` in the cache by
`network_admin`, and a hub in the table is in the cache or in rows on their way to it
(`BringsHub`), unless it was dismissed, or the start did not read it (`unread`: a read
failed, or hubs were found but no network). It needs `NamesAssumption`, as a hub without
network must not seem to be in one.

TLC finds the invariants true on the instances of the runs before they are
proved: `ArmedInv` and `LoadInv` in 17,086 states, `AgreesInv`, `StopsInv`, `LiveInv`, `TellInv`
and `LoadInv` of `EdgeFsm` in 37,305, `TimedInv` and `TurnInv` in 35,980, `ModeInv`,
`FollowsInv` and `EpochInv` in 438,076, `TopicInv`, `NewsInv`, `LoadInv` and `RoomInv` in
425,475, `WayInv` in 61,924, `NetInv` (the three conjuncts of the networks) and `HubInv` in
788,904, `BeliefInv` in 136,377, `Inv` and `StartIsFirst` of `Backbone` in 2,933,166.

Only model-checked, on the instances of section 3, are the thirteen liveness properties
(`SilenceIsReported`, `Reconnects`, `OutageIsBelieved`, `OnlyCirclesKeepItAway`, `EveryoneEndsNormal`, `BeatsGoOn`,
`WorkEnds`, `BufferIsFlushed`, `OutageIsDrained`, `ChangesSettle`, `HearsTheHubs`,
`EpochIsAnswered`, and the liveness half of `KeepsLiveProtocol`) and the deadlock checks:
liveness under fairness and `ENABLED` are out of reach of the prover. So is what a
recursive definition computes for every input; no module here declares a `RECURSIVE`
operator.

---

## 7. What is left out

* **The star at full size**: `Core` with *all* arms at once (`Backbone` has the routes, a
  source for each kind of route); the tasks inside gRPC, MQTT, heartbeat and data services,
  which have modules of their own, within the star; the liveness of the star.
* **EdgeFsm and EdgeRuntime together**: hubs that are stored or deleted, and a runtime that
  is deleted, in the middle of a balance. Votes are counted against the number of hubs at
  that moment (`network/domain.rs:304`).
* **Metrics, system set-up, context, constants**: I/O or no behaviour.
* **The order in which `main` starts things**, the wording of modes, topics, device names.
* **Data**: payloads, encodings (MessagePack, protobuf), TLS, columns, topics.
* **Real time**: no property speaks of how long something takes.
* Shutdown by cancellation: `main` ends the process when a service ends, which
  the modules with something on disk model as a restart.

---

## 8. Plan

Done: the two machines and their timer (`Watchdog`, `Heartbeat` with `LinkMonitor`,
`EdgeFsm` with `BalanceProtocol`, `HeartbeatGenerator`); the ways of data and control
(`FirmwareUpdate`, `GrpcLink`, `StoreForward`, `Topology`); the downlink and its
subscriptions (`Mqtt`), the life of the runtime and its epoch (`EdgeRuntime`), the star
and the lock (`Backbone`); proofs of all invariants and action properties.
Next, in this order:

1. `EdgeFsm` with hubs registered and deleted while a balance runs.
2. The arms of `FsmService` and `MetricsService` as sources of `Backbone`, with a bound on
   the load of each.
