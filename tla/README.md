# Verification of rdws_us

TLA+ modules, TLC configurations and TLAPS proofs about the program in this
repository: a service broker (`src/src/service_broker`), the micro-services that
connect to it (`src/src/services`), and the code they share (`src/src/shared`).
Paths below are relative to the repository root.

## 1. The system

| Component | State it keeps | Operations | Hard behaviour |
|---|---|---|---|
| `ServiceGateway` | `activeConnections`, `pendingRequests`, `responseWaiters_`, a registry, router, bus, configuration and metrics | accept, IDENTIFY, PING, RESPONSE, INVOKE, `sendRequest`, `waitForResponse`, `closeConnection`, cleaner, health check, start/stop | one thread per connection and per HTTP call, a cleaner, a bus worker; three mutexes taken one after the other and sometimes nested; descriptors reused by the OS |
| `ServiceRegistry`, `ServiceIdentity` | `identities`, capability/machine/environment indexes, round-robin counters, load, response times | register, unregister, update, select (4 strategies), remove unhealthy | non-recursive lock re-taken; selection over several critical sections; stale load |
| `ServiceClient` | socket, `connected`, `registered`, `stopRequested`, pending INVOKEs, worker threads | connect, register, run, stop, ping, REQUEST, INVOKE | reconnect loop against stop; two loops and worker threads on one socket; invoke time-out |
| `EventBus` | queue, subscriptions, `running_` | subscribe, unsubscribe, publish, stop, worker | publish against stop, callbacks under a shared lock |
| `EventRouter` | sorted rules, optional file | resolve by name or path, CRUD, load/save | priority order, conditions, fallback |
| `GatewayConfig` | defaults, per-capability overrides, features | get, set, merge, save | partial updates, save outside the lock |
| `HttpGateway`, `AuthMiddleware` | none of its own; keys and secrets | `/invoke`, REST catch-all, admin endpoints, authentication | maps broker outcomes to HTTP statuses |
| `MetricsTracker` | ring buffers per capability | record, snapshot | wrap-around of the buffer |
| `ingestion_service` | caches of credentials and sensor owners, AMQP producer | CoAP/DTLS requests, refresh, publish | stale caches; all-or-nothing answer to a device over a batch that may be half published |
| `reading_writer_service` | AMQP consumer, pending retry | consume, insert, ack, dead-letter, wait for database | crash between insert and ack, redelivery, poison messages |
| `amqp_client` | connection, channel | publish with confirm, consume, reconnect | lost confirmation |
| `device_service` with `DeviceCredentialService` | table `device_credentials` | create, rotate, revoke, list active | one active credential per device, rotation in several statements |
| `device_config_service` | versioned device configuration | get/put desired, report applied | concurrent versions |
| `sensor_simulator_service` | simulated devices | trigger, send, retry | re-sending what was stored |
| `persistence_service` | table of requests and metrics | save | fed by the bus, may feed itself |
| `farm_service`, `field_service` | tables `farms`, `fields` | CRUD; a field is checked against its farm through the gateway | the farm goes between check and insert; a gateway failure is not a missing farm |
| `sensor_service` | table `sensors` | CRUD, owners | sensors change under a configuration that names them |
| auth, sensor_reading, example services | none | one request, one answer | little |
| repositories, PostgreSQL | one connection per service, `currentTransaction` | statements, transactions, reconnect | a service's threads share the connection and its transaction |
| SenML, validation, crypto, CoAP client, logging | none | conversions, one exchange each | units that convert two ways |

Interaction: an HTTP thread calls `sendRequest`, which selects a service in the
registry, inserts a pending request, looks up the service's descriptor and sends;
the reader thread of that descriptor later handles RESPONSE, correlates by request
id and notifies the HTTP thread blocked in `waitForResponse`. A service may send
INVOKE, whose answer is forwarded to it. The event bus worker turns
`request.completed` and `metrics.snapshot` into requests to the persistence
service. When a socket closes, its reader thread unregisters the service and fails
its open requests. Devices send readings through ingestion, RabbitMQ and the
writer to the database; that path shares no state with the broker.

What makes each part correct: the gateway answers every call once, truthfully and
in bounded time, and keeps no entry for ever; the registry offers exactly the
services that can be reached; the client ends when it is stopped and reconnects
when it is not; the bus delivers what it accepted, in order; the router picks the
first matching rule of the highest priority; a configuration that was saved is the
one that is loaded; a reading a device was told is accepted ends in the database
exactly once or in the dead-letter queue.

## 2. Modules

| Module | Models | Status |
|---|---|---|
| `Gateway` | connections, IDENTIFY, registry membership, locks, the request table and the three kinds of requesting thread | done |
| `RequestCall` | abstract specification: what a caller of `POST /invoke` is promised | done |
| `MCGateway` | constants of the TLC runs of `Gateway` | done |
| `GatewayProofs` | theorems about `Gateway`: types, orphans, registry | proved |
| `GatewayCallProofs` (extends it) | theorems about calls, and the refinement of `RequestCall` | proved |
| `ServiceClient` | the client: run/stop/reconnect, both loops, request workers, invoke, destruction | done |
| `MCServiceClient` | constants of its TLC runs | done |
| `ServiceClientProofs` | theorems about `ServiceClient` | proved |
| `EventBus` | publishers, worker, subscribers and the owner that starts and stops the bus | done |
| `EventChannel` | abstract specification: one queue, each event given once to all its subscribers | done |
| `MCEventBus` | constants of its TLC run | done |
| `EventBusProofs` | theorems about `EventBus`: invariants and the refinement of `EventChannel` | proved |
| `Readings`, `Broker` | what the parts of the pipeline share; the two durable queues | done |
| `Station` | a station: files, packs, CoAP exchanges, crashes (the simulator) | done |
| `Ingestion` | packs, owner cache, publishing with confirms | done |
| `ReadingWriter` | consumers, writes, outages, dead letters | done |
| `Pipeline` | the three composed | done |
| `ReadingStore` | abstract specification: what becomes of a reading | done |
| `MCPipeline` | constants of its TLC run | done |
| `PipelineProofs` | theorems about `Pipeline`, and the safety of `ReadingStore` | proved |
| `SenmlUnits`, `UnitConversion` | unit rules; one value on its way there and back | done |
| `ServiceRegistry` | identities, index, load, `selectBestService` | done |
| `EventRouter` | rule table, `/routes`, its file | done |
| `GatewayConfig` | overrides and features, `/config`, its file | done |
| `Catalog` | farms and fields | done |
| `Devices` (extends `Catalog`) | devices and credentials on one shared connection | done |
| `DeviceConfigs` | configuration documents and the sensors they name | done |
| `MCControl` | the last seven, one per behaviour | done |
| `DevicesProofs` | theorems about `Devices` and `Catalog` | proved |
| `ConfigProofs` | theorems about `DeviceConfigs` and `GatewayConfig` | proved |
| `ControlProofs` | theorems about `ServiceRegistry`, `EventRouter`, `UnitConversion`, and about the composition `MCControl` | proved |

Every safety property that a passing run checks is proved; what is left to the runs
alone is liveness (section 4). No module declares a RECURSIVE operator, so all can be
proved about: the sort of the router's table is written by what a rule's place in it is
(`Rank`, of the order `Before`), not as a recursion.

### Gateway and the code

One action is one critical section of `ServiceGateway.cpp`, or one call between
two of them. Threads are program counters: `pc[r]` for the thread that issues
request `r`, `reader[fd]` for the reader thread of a descriptor, `closing[s]` for
readers that have closed a connection of `s` and not yet run the fail loop.

| State | Code |
|---|---|
| `active`, `ident` | `activeConnections` and the `serviceId` bound by IDENTIFY |
| `peer`, `up` | the service process at the other end, and whether it is still there |
| `registered` | keys of `ServiceRegistry::identities` |
| `state`, `code` | `pendingRequests`: `"absent"` is "no entry" |
| `waiters`, `notified` | `responseWaiters_` and their condition variables |
| `origin`, `calling` | `originatorFd`, and whether that connection still belongs to the caller |
| `stuck` | mutexes whose holder waits for a mutex it can never get |
| `work` | requests a service has received and not yet answered |
| `via`, `answer` | history: the connection a request was delivered on, the answer correlated with it |

A connection: `handleNewConnection` (the OS may reuse any free descriptor),
`IdentifyBind` and `IdentifyRegister` (the two critical sections of
`handleIdentifyMessage`), `closeConnection` (up to `::close`), `FailInFlight` (its
last section). A request: `HttpSelect`/`BridgeSelect`/`InvokeSelect` (the caller and
`selectBestService`), `InsertPending`, `LookupFd`, `SendDelivers`/`SendLost`,
`EraseUnsent`/`MarkInFlight`, then for HTTP `WaitStart`, `Wake`, `WaitTimeout`.
Answers are `handleResponseMessage`; `cleanupExpiredRequests` and
`performHealthCheck` are the checker thread.

Locks: a critical section is one atomic action, so a mutex appears only where the
code can keep it for ever. `registryMutex` is a plain `std::mutex`, and two paths
lock it twice (`registerService` calls `updateService`; `removeUnhealthyServices`
calls `unregisterService`). The model records it in `stuck`; every action that
needs the mutex is guarded by `Free`, and the three actions `...Blocks` are the
threads that then block while holding another mutex. (Locking a plain mutex twice
is undefined behaviour; blocking is what the platform's implementation does.)

Data that is abstracted: payloads, capabilities and load are dropped;
`selectBestService` may return any registered service or none. Answers are `"ok"`
or `"error"`; an error has status 500. Time is abstracted: a time-out may strike at
any moment at which the code is waiting, and the cleaner may pick any set of open
entries, but the 5 minute retention cannot pass while a thread is between two
steps of its own (`Retained`). Each request is issued once. A service process
answers a request it received at most once, on the connection it has at that time,
also after a reconnect.

`PromptEof = TRUE` says that a gateway notices a closed connection before the
client has reconnected (its backoff) and before 60 s without ping are over.
`PromptEof = FALSE` lets a peer vanish silently. That wakes the registry's double
locking on both its paths: the service registers again while it still is registered
(`IdentifyRegister`), or nobody pings for it and the health check removes it.

### ServiceClient and the code

`ServiceClient.cpp`, in one process of a service. Five long-lived threads have a
program counter `pc[t]`: `run` (the thread in `run()`), `msg` and `ping` (the loops
it starts and joins), `stop` (the owner, in `stop()`) and `dtor` (the owner, in the
destructor, which calls `stop()` again; it begins when `stop()` and `run()` have
returned). `worker[w]` is the thread of request `w`, `call[v]` the thread in the
`v`-th `invoke()`.

| State | Code |
|---|---|
| `stopRequested`, `connected`, `registered` | the atomics of that name |
| `sock` | `socketFd`, `NoFd` is -1 |
| `own`, `up` | what a descriptor number is in the process (free, this client's connection, somebody else's), and whether the connection carries data |
| `fdOf[t]` | the descriptor thread `t` loaded from `socketFd` |
| `sender`, `sendFd` | who is inside `sendMessage()` holding `sendMutex_`, and the descriptor it loaded |
| `load` | `identity.currentLoad` |
| `handling` | the message the message loop is in; several may come with one `recv()` |
| `pendingInvokes`, `written`, `done`, `result` | the map, and what is filled in of a `PendingInvoke` |
| `identified`, `inbox`, `reached` | the gateway's side of the newest connection |

`disconnect()` is four steps, because two threads run it at once: the test of
`connected` (`DisconnectBegin`), the stores (`MarkDisconnected`), `shutdown()`
without a lock (`Shutdown`), and `close()` under `sendMutex_` (`Close`). Both may
pass the test and close the same number; the second `close()` may hit a descriptor
that another part of the process was given in between. The model has this
behaviour. Nothing in the repository speaks about it, so it is listed as a hazard
and is not the subject of a run; what is checked is that it never touches a newer
connection of the client or a message being sent.

The other steps are the calls between two accesses to shared state. `requestThreadsMutex_`
is held while `joinRequestThreads()` joins, which blocks `handleRequest`.
`invokeMutex` protects single steps only. Registration, framing, JSON, and the
length of the backoff are abstracted; the gateway may send, answer, drop the
connection or refuse it at any time.

`recv()` has no mutex. The message loop loads the number and then reads whatever
connection has it by then (`ServiceClient.cpp:389`). After `stop()` has closed the
number, another part of the process may have been given it; the loop then blocks on
that part's connection or takes bytes of it, and sees no end of its own
(`ReadsForeign`, `MsgReadsForeign`).

### EventBus and the code

`EventBus.cpp`. `worker` is the program counter of the worker thread: before its
wait (`lock`), between a false predicate and the sleep (`blocking`), `asleep`, in
the drain loop holding `queueMutex_` (`drain`), with an event and no lock (`popped`),
in `dispatch()` holding `subsMutex_` shared (`dispatch`), after it (`relock`), and
`ended`. `pub[t]` is the place of thread `t` in `publish()`: `running_` tested,
event queued, notified; the worker itself is one of these threads, because handlers
publish. `owner` is the thread that starts and stops the bus (the gateway's own).
`Woken` is `notify_one`/`notify_all`: it does nothing to a worker that is not
asleep, so a notification can be lost. `accepted` and `log` are history: the events
queued while the bus was running, and what each handler was given.

`EventChannel` is what the header promises. An event leaves the channel's queue
when `dispatch()` takes the subscription lock, not when the worker pops it, and all
its deliveries count from then on: `channelQueue` puts the popped event back in
front and `channelLog` adds the deliveries still to come.

The order of handlers within one dispatch is left open. Identifiers, payloads and
the read-only statistics are left out. Each event is published once (a bound). A
handler that subscribes or unsubscribes would lock `subsMutex_` again; no handler of
the repository does, and the model has none.

### The pipeline and the code

A reading is taken by a station (`AppSensorSimulatorService.cpp`), appended to a
file, sent in a pack over CoAP, published to RabbitMQ by `AppIngestionService.cpp`
and written to PostgreSQL by `AppReadingWriterService.cpp`.

| State | Code |
|---|---|
| `sensors` | the rows of the table `sensors`, of one device: unit and type, which the conversion of units depends on |
| `file` | the `.data` files of the sensors |
| `own` | `sensors_`, the table as the station read it when its process started |
| `tx`, `left`, `recCfg` | where `transmitNow()` is (it holds `deviceFileMutex_`), what it has not delivered, the `rec_cfg` it declares |
| `inbox`, `reply` | CoAP requests not answered yet, each with "is somebody still waiting", and the answer on its way |
| `owners`, `ownersLoaded` | `sensorOwners_`, with the unit ingestion converts by |
| `answers` | what a refresh under way may have read from the table |
| `phase`, `second`, `accepted`, `up` | the batch `onRequest()` is publishing, its attempt, the producers' connections |
| `readingQ`, `telemetryQ` | copies of each message in a queue, those held by the consumer included |
| `reading`, `span`, `outcome` | the message in the writer's handler and what the handler returns |
| `rows`, `spans` | `sensor_readings`, `device_config_spans` |
| `dead`, `deadSpans` | the dead-letter queues of readings and of spans |
| `taken`, `deleted`, `dropped`, `told`, `wiped`, `known` | history |

One CoAP exchange is one request and one answer: the retransmissions below it are
`libcoap`'s. A request whose station has given up stays in the inbox and is still
published, but its answer reaches nobody. `Unconfirmed` is every way a batch can fail
(nack, time-out, lost connection): any part of it is in the queue. `WriteFails` may
hide a commit. `Fault` counts these; every step that is not one leaves the count
alone. `CrashInWrite` is `writeJsonArray`: the file is truncated, then written.

The table changes at any time: `SensorRegistered`, `SensorUpdated` (`sensor.update` may
give another unit or type) and `SensorDeleted`, which takes the sensor's rows of
`sensor_readings` along (`ON DELETE CASCADE`). The station knows of a change when its
process starts again (`StationRestart`, `LoadSensors`). Ingestion knows of it from a later
refresh; the answer of one may have been read from the table before the change and come
to the cache after it (`RefreshOwners` takes any of `answers`). The two may therefore
convert by different units, and a value that the one converted and the other cannot convert
back is stripped from its pack (`Accepts`). A pack stripped of a deleted or unknown sensor
is answered 2.04 all the same.

The writer dead-letters what the database rejects with SQLSTATE class 22 or 23: readings
(`Poison`, or the foreign key of a sensor that is no longer there) and configuration spans
(`SpanRejected`), each message on its own, so that a reading may be stored while its span is
dead-lettered, and the reverse.

`ReadingStore` says of each reading that it goes from taken to held to stored,
dead-lettered or discarded with a reason, or lost with its own truncated file, or is
deleted with its sensor, never back and never nowhere, and that it does not stay held for ever (again and again none is
held, which for finitely many readings, none held twice, says that each leaves). `StateOf` is the
refinement mapping: deleted if its sensor is, stored if there is a row, else held if a
file, a request or a queue has it. It is the place to see why copies do no harm: a row once there is
not changed by another copy.

### Control-plane components and the code

`Devices`: `device_service` has one `PostgreSQLDatabase`, and with it one
`currentTransaction`, for all its request threads. `row` is what that connection
sees, `base` what is committed. A handler is one step per statement; `Exec` runs it
in whatever transaction is open, which may be another thread's. `tx = "failed"` is a
transaction in which a statement failed: until its rollback, every statement fails.
Two threads inside `libpq` at once are a data race; the model has of its outcomes
the statement that is refused and the death of the process. `Catalog` gives the
fields, which `field_service` may delete at any time with everything below them
(`Cascade` waits for row locks), and has its own check of a farm, which may fail
in every way `FarmServiceClient::exists` tells apart; other statuses of the farm service
pass through to the caller, and a call that never got one becomes 502.

`DeviceConfigs`: an update is a read and merge, a check against the sensors,
and a write of the whole document, without a transaction. Another update, or a
sensor's deletion, may come between any two. The check looks at every sensor entry of the
document, the disabled ones too. The model is about stations of type `weather_station`
that are not simulated, for which the check runs.

`EventRouter`, `GatewayConfig`: a handler changes the table under its lock and
then saves without it. The router empties the file and then copies the table; the
configuration is copied first and then the file is emptied. Two saves that overlap
may leave the older text or a mixture of both, which the code does nothing against:
`RoutesSaved` and `ConfigSaved` therefore speak about saves that did not overlap
(`saveLost`, `configLost` record the others, until a save of its own is made), and
show for these that the order of copying, emptying and changing loses nothing, in
every interleaving with the changes of other handlers. `sortRules` is `std::stable_sort`
by falling priority: a rule comes after those of a higher priority and those of its own
that stood before it (`Before`), and its place is one more than their number (`Rank`).
`FindRule` is the `std::find_if` of `updateRule` and `removeRule`.

`ServiceRegistry`: identities, the capability index (those by machine and
environment are kept by the same code), load and response times. `SelectBegins` and
`SelectEnds` are the two times `selectBestService` takes the lock. `held` is the
double locking, after which nothing moves: `Gateway` shows what that does to a call.

`UnitConversion`: a value with its unit and type, `fromSensorUnit` on the
station, `toSensorUnit` in ingestion.

## 3. Runs

The gateway's runs use module `MCGateway`, the client's `MCServiceClient`, the
bus's `MCEventBus`, the pipeline's `MCPipeline`, the rest `MCControl`.

| Run | Instance | Checks |
|---|---|---|
| `gateway_safe` | services a, b; descriptors 1, 2; one HTTP call; `PromptEof` false | types, no orphaned request, registry agrees with connections, truthful status, nothing left behind |
| `gateway_live` | one HTTP call, one INVOKE, fair threads and timers | no orphan, every call returns, the table drains |
| `gateway_calls` | one HTTP call, one bridge request, fair threads, no timer | refinement of `RequestCall`; answers and disconnects wake the waiter; bridge slot reclaimed |
| `gateway_fastanswer` | one HTTP call | **violated**: an answered call returns 404 |
| `gateway_stuck` | one service, two descriptors, `PromptEof` false, fair threads | **violated**: the health check locks the registry for good, and a call never returns |
| `client_run` | one request, descriptors 3 and 4, fair threads, gateway reachable | types, sends only on the own connection, no leaked connection, quiet after destruction, reconnects, `stop()` ends running loops unless the message loop is left reading a number that was given away |
| `client_invoke` | one `invoke()`, the gateway does what it likes | sends only on the own connection, complete results, `invoke()` returns |
| `client_stop` | no request | **violated**: `stop()` during `connect()` leaves `run()` running |
| `client_load` | one request | **violated**: the load that is reported stays 0 |
| `pipeline` | two sensors with a reading each, that of the first one poison; the second sensor is there from the start or registered later, given another unit, deleted; one configuration version; two faults of any kind or changes of rows | types, refinement of `ReadingStore` with its liveness, spans cover what was erased, known sensors are accepted |
| `control` | one component per behaviour, two threads in each | types and index, true 404, device and credential together, revocation final, valid configurations, saved routes and configuration, live selection, conversions invert |
| `bus` | one publisher and the handlers, 3 events on 2 topics, a subscriber of one topic and one of `*` | types, quiet after `unsubscribe()`, `stop()` drains and returns, no accepted event is stranded, refinement of `EventChannel` |

Bounds. Two descriptors are what reuse needs: one is closed and reopened while
another is looked up. Two services are what misrouting to a reused descriptor
needs. One request is enough for every property about one entry, because entries
interact only through connections and locks; the runs with two requests check the
rest (a bridge next to a call, an INVOKE next to a call). `MaxClosing` bounds how
many closed connections of one service have their fail loop still to run: 2 in
`gateway_safe`, 1 elsewhere. Reconnects are not bounded. Deadlock is not
checked: the system may legitimately stop when all requests are done and no
service comes back.

Client: two descriptors let the number of a closed connection be given to
somebody else or to the next connection. One request and one call are enough,
since workers and calls meet only in `sendMessage()`; the number of reconnects, of
messages and of re-issued requests is not bounded. Bus: three events are needed for
one being dispatched, one queued and one published by a handler at the same time;
starts and stops are not bounded. In the bus run deadlock is checked; a stopped
client may be at rest.

Pipeline: two faults are needed for a failure of the recovery from a failure (an
unconfirmed batch whose second attempt fails, a lost ack after a hidden commit).
Two readings let one be poison or unknown while the other is not; `PackSize` is 1
so that a cycle has two packs, one of which may be delivered and the other not.
Spans merge because the two readings go in packs of their own. `Changes` are the changes
of rows that administrators may make, all of the second sensor: what concerns a change is
one sensor, and the first is there to be undisturbed by it. `AtStart` are the tables a
behaviour may begin with, without the second sensor and with it. A change counts as one of
the `MaxFaults`, as does a rejected span, so that what is checked is two faults, a change
and a fault that meets it, or two changes (a unit changed and the sensor deleted).

Control: `part` is chosen in the initial state and says which component a
behaviour is about. They share no state, so that checking them in one run
loses nothing and their state spaces add up. Two request threads are what every
race here needs (two creations, a rotation and a revocation, two saves, two
patches); `field_service` and the registry have one, against changes made by
others at any step. Two devices let one's statements fall into the transaction of
the other's creation. `MaxVersion` 4 lets a document get a sensor, a trigger and one
more patch: with 3 the overlap of two patches that `StoredIsValid` is about
cannot happen. Entries of a document are enabled, disabled or not there. Two rules of two priorities, with one input, tell apart every order
that matters to a first match. Deadlock is not checked because the registry really
stops (`held`), and a value that has arrived stays.

Fairness of the pipeline (`PipeFairness`): the station's, ingestion's and the
writer's loops go on, and the refresh comes round until the first one has filled the map
(what is refreshed later decides which readings are accepted, and no liveness rests on it);
a fault, a restart or a change of the table is never fair. A behaviour has finitely many
faults.

Fairness of the gateway (`FairSpec`). Weakly fair: the next step of every sending thread, entering
`waitForResponse`, the fail loop of a closed connection, the timer of a waiting
thread and the cleaner for every entry it may treat. These are threads the
scheduler runs and timers that expire. Nothing is assumed about services, sockets,
answers or IDENTIFY. Sending is one step that ends: the gateway's sockets block, and a
thread that sends with `requestsMutex` held (`ServiceGateway.cpp:603`, to the originator of
an INVOKE) would stop every call for as long as that peer does not read.
`EveryHttpCallReturns` and `TableDrains` rest on `send()` returning. `NotifyFairSpec` drops the timer and the cleaner and lets only
notified waiters run, which is what shows that the notification itself is not lost.

Fairness of the client (`FairSpec`): its threads run, `send()` returns (it has the
kernel's buffer, or `shutdown()` unblocks it), handlers end, sleeps and the
time-out of `invoke()` are over some time, and a thread that wants `sendMutex_`
again and again gets it (strong fairness of the steps that take it). A `recv()` on
somebody else's descriptor need not return, and `StopEndsLoops` exempts behaviours in which
the message loop is caught in one again and again or for ever (`[]<>ReadsForeign`); that
it can be caught there is listed among the hazards of `PROJECT.json`. Nothing is
assumed about the gateway or the network, except in `client_run`, where a client
that tries for ever connects and identifies itself in the end (`ReachableSpec`):
without that no client could be expected to reconnect.

Fairness of the bus: its threads run, handlers end, `queueMutex_` is got by a
publisher that waits for it. The owner need not call `stop()`, nor anybody
publish.

### Findings

* `gateway_fastanswer`: `handleResponseMessage` erases an entry without a waiter
  because "nothing will ever call waitForResponse() for this requestId"; an HTTP
  thread registers its waiter only after `sendRequest` has returned, so an answer
  that comes before that is lost and the caller gets 404.
* `gateway_stuck`: the connection of a service goes silently while a call to it is in
  flight. The health check finds no pings and calls `removeUnhealthyServices`, which holds
  `registryMutex` and calls `unregisterService`, which locks it again. The service
  reconnects and sends the answer before it identifies itself; `handleResponseMessage`
  blocks in `recordResponseTime` holding `requestsMutex`, and the caller, whose time-out
  needs that mutex, never returns. (`registerService` locks the mutex twice as well. In
  this run, with one service and two descriptors, that path leaves no reader that could
  take an answer, so it is not what the counterexample shows.)
* `client_stop`: `run()` "keeps retrying until stop() is called"
  (`ServiceClient.h:109`), but a `stop()` that comes between its test of
  `stopRequested` and the end of `connect()` finds nothing to disconnect, and
  `run()` then serves a healthy connection without looking at the flag again.
* `client_load`: `currentLoad` is documented as "Current active requests"
  (`ServiceIdentity.h:33`), but the only code of a client that changes it counts
  down, from 0. The default strategy LEAST_LOADED therefore compares zeros and takes
  the first service of a capability, and no service is ever overloaded.

## 4. Theorems

Each theorem is about a specification without fairness, for every value of the constants
that satisfies the named assumptions. An invariant that is not inductive alone is proved
from one that is; that one is named here with what it adds and why it is needed.

### Gateway

`GatewayProofs` and `GatewayCallProofs`, for every set of services, descriptors and
requests, both values of `PromptEof` and every `MaxClosing` (`ConstantsAssumption`:
kinds of request are disjoint, descriptors are naturals, `NoService` is no service).

* `TypeCorrect`: `Spec => []TypeOK`.
* `NoRequestIsOrphaned`: `Spec => []NoOrphanRequest`. Not inductive alone: between
  the moment an entry is inserted and the moment its thread has looked up a
  descriptor, an entry is legitimately without a connection. `EntryInv` says that
  an entry is absent until it is inserted; the step lemmas then follow the care a
  request is in: the lookup finds an identified connection, only `closeConnection`
  takes one away and raises `closing`, and only `FailInFlight` lowers it, which
  makes the target's entries terminal in the same step.
* `RegistryAgrees`, `RegistryOffersConnected`: `RegisteredIsConnected` and
  `IdentifiedIsRegistered`. Inductive together with `ReaderInv`, which says that the
  reader of the connection an INVOKE came from stays busy until its handler returns, so
  that no request thread ever disturbs a reader that is registering.
* `CallsAreHonest` (`AnswerReported`), `FinishedCallsAreGone`
  (`FinishedCallLeavesNothing`), `SlotsAreReclaimed` (`AnsweredSlotReclaimed`), from
  `CallInv`. It adds `DeliveryInv` (a request is with one process at most, after it was
  sent and until it is answered, so that no answer comes twice) and `EntryAgrees` (what an
  entry's state and code say of the answer correlated with it): the status of a call is
  read from the entry, which may be long after the answer came.
* `CallsImplemented`: `Spec => ImplementsCalls`. A step of the gateway opens one call,
  answers one, or returns from one as `RequestCall` lets it, or is a stutter.

### ServiceClient

`ServiceClientProofs`, for every set of descriptors, requests and calls
(`ClientAssumption`: descriptors are naturals, names do not coincide).

* `ClientTypeCorrect` (`TypeOK`) and `LinksAreKept` (`NoLeakedLink`), from `SocketInv`:
  `SessionInv` says who can be where together (the loops live only while `run()`
  joins them; `run()` does not connect while `stop()` is closing), and `LinkInv` that an
  open connection is the one in `socketFd`, and that a thread about to close has a
  descriptor that is shut down and no newer one is in `socketFd`. Neither is inductive
  without the other: two threads run `disconnect()` at once, and only the session says
  that nobody connects meanwhile.
* `SendsAreOnOwnLink` (`SendsOnOwnLink`), with it: `close()` takes the sender's mutex.
* `DestructionIsQuiet` (`DestroyedIsQuiet`), with `JoinedInv`.
* `InvokeResultsAreComplete` (`InvokeResultComplete`), with `InvokeInv`: the loop fills in
  an answer before it says done, and a call that has not begun is not pending.

### EventBus

`EventBusProofs`, for every set of publishers, events, topics and subscriptions
(`BusAssumption`: the topic tables have their types, and the worker is not one of the
publishers).

* `TypeCorrect`, `StopLeavesNothing` (`StopDrains`) and `Unsubscribed`
  (`UnsubscribedIsQuiet`), from one inductive invariant `BusInv`. It adds to the
  types: `Lifecycle` (the worker exists exactly from `start()` to the end of `stop()`, and
  ends only when the bus is not running), `OwnEvent` (an event is in the hands of one publisher
  until it is queued, so that what a late publisher queues is not an accepted
  event), `Drained` (a worker that has ended left no accepted event) and
  `Subscribed` (handlers that run, or will in this dispatch, are subscribed).
* `BusIsChannel`: `Spec => ImplementsChannel`. Queuing is `Publish`, taking the
  subscription lock is `Dispatch`; popping an event and calling a handler stutter,
  by the lemmas on sequences `ConsHeadTail`, `ConsAppend` and `HeadTailCons`.

### Pipeline

`PipelineProofs`, for every number of readings, sensors, versions and faults, every size
of a pack and every set of poison (`ReadingsAssumption`: readings are 1..n, each of a
sensor, versions are positive, a pack holds one reading at least, `NoRow` is no row; `AtStartAssumption`: the
tables a behaviour may begin with are tables), for every set of rows and of changes to
them. The inductive invariant `PipeInv` has a part for each process, and each process has a lemma
that says what its steps may do to the readings as the others see them: `StationGoesOn`
with `StationMoves`, `IngestionGoesOn` with `IngestionMoves` (it publishes only what a
request has), `WriterGoesOn` with `WriterKeeps` (what leaves a queue is in a table). That the
composition keeps the invariant follows from these three. Its parts:

* `LinkInv`: the only request the station still waits for is the one it would send
  again, and an answer under way is an answer to it. Without it the answer to an older
  pack could erase another one.
* `DeliveredInv`, `ReplyInv`: a reading the station has taken off its list, or that an
  answer accepts, is `Safe` (recorded, or in the queue), and its span is `Covered`.
* `JobInv`: while the span is being published, the readings are safe already. That there is
  a span to publish for every pack (`ThereIsASpan`) rests on its having a least and a
  greatest timestamp; that a merged row covers both spans is `MergedCovers`.
* `TakenInv`, `FreshInv`: a reading that was taken is in a file or safe; one that was not
  is in no file, request or queue.
* `OwnInv`: the sensors a station has, and those of readings that were taken, are in the
  table or were deleted from it. `QueuedInv` is what the writer needs of that.
* `WriterInv`: a reading that is rejected is poison or its sensor was deleted; poison is
  never stored; what is about to be acknowledged is in a table, a dead-letter queue, or
  gone with its sensor, and a span is merged into its row or dead-lettered.
* `CacheInv`: a sensor whose row, as it stands, some refresh has seen stands so in a cache
  that is loaded, and in everything that a refresh under way may have read from the table.
  Without the second half an old answer could replace a newer one.

From it follow `PipeTypeCorrect` (`PipeTypeOK`), `SpansCover` (`SpanCovers`),
`KnownSensorsAccepted` (`KnownIsAccepted`; with `ValuesArrive`, that a rule that converts a
unit one way converts it back), and `StoreIsSafe`: `PipeSpec => Store!StoreSafety`, by
which each reading moves in every step as `ReadingStore` allows, a deletion of its sensor
included. `StoreSafety` is `ImplementsStore` without its last conjunct, which is liveness.

`SpansCover` speaks of what the station erased: its span is stored, queued or dead-lettered.
It does not say that a rejected span is stored. `KnownSensorsAccepted` speaks of sensors
that are registered as some refresh has seen them and that the station converts by the
same unit. A sensor that was deleted, or given another unit since, may be stripped, and so
may one whose new unit the station has not loaded.

### Control-plane components

Each has a specification of its own (`DevSpec`, `ConfigSpec`, `GatewayConfigSpec`,
`RouterSpec`, `RegistrySpec`, `UnitSpec`), about which its theorems are. `MCControl`'s
`Spec` implies each of them (lemma `Components`: a step of one is a stutter of the
others), which gives `ControlTypeCorrect` (`ControlTypeOK`) and `ControlIsSafe`: all the
safety properties of the run `control` hold of its specification.

* `DevicesHaveCredentials` (`DeviceHasCredential`) and `RevocationIsFinal`
  (`RevokedIsFinal`), from `DeviceInv`: one creation at a time, with a transaction
  (`CreationInv`), and `RowInv`: only that creation sees a device without credential, which
  is not committed, and what is revoked in the tables is revoked in the transaction too.
  That is what another thread's statement, caught in the transaction, can rely on.
* `NotFoundIsHonest` (`NotFoundIsTrue`): with `CheckInv`, that only a check that saw no
  farm comes back 404.
* `StoredFits` (`StoredIsValid`): with `UpdateInv`, that the document a thread is about to
  write is one that passed the check, whatever was written since. `MaxVersion` is a
  positive bound (`DeviceConfigsAssumption`).
* `SettingsAreSaved` (`ConfigSaved`) and `RoutesSurviveRestart` (`RoutesSaved`): neither is
  inductive. `FileInv` and `SavedInv` add, unless saves overlapped, that one handler at
  most is past the start of its save, that the file is empty when its text is about to be
  written, and that its copy is the table unless a change is still to be saved. For the
  router also that the table is sorted: what is loaded is sorted again, and equals what was
  saved because a stable sort of a sorted table changes nothing (`RankIsOnto`, `SortSorts`,
  `SortIsIdempotent`).
* `SelectionIsLive` (`SelectsLive`), of one step, with `RegistryInv` (the index is what the
  identities say, and a thread that chooses has a strategy).
* `ConversionIsUndone` (`ConvertedBack`): by cases of the rules. `UnitConversionAssumption`
  (a value is a multiple of 1000 of its small unit) is what makes the division exact.
* `RegistryTypeCorrect`, `RouterTypeCorrect`, `SettingsTypeCorrect`, `DocumentTypeCorrect`,
  `DevicesTypeCorrect`, `CatalogTypeCorrect`, `UnitTypeCorrect`: the types of each.

### Only model-checked

Liveness, and with it fairness and ENABLED, is out of the prover's reach:
`EveryHttpCallReturns`, `TableDrains` and `OutcomeWakesWaiter` of the gateway,
`AcceptedIsDispatched` and `StopReturns` of the bus, `Reconnects`, `StopEndsLoops` and
`InvokeEnds` of the client, and of `ImplementsStore` that no reading is held for ever. A
property that a run refutes (section 3, Findings) is not a theorem.

## 5. Not modelled

* Gateway start/stop (the program starts it once), listeners, status documents,
  message framing and parsing.
* `AuthMiddleware`, `auth_service`: cryptography and decisions on one request that
  keep no state.
* `MetricsTracker`, `ServiceMonitor`, `persistence_service`, `sensor_reading_service`:
  what is displayed, stored for display, or read; nothing else decides by it.
* Of ingestion the DTLS handshake with its credential cache (a refused session is
  a failed exchange or a 4.01 here) and `GET /config`; of a pack's readings the
  ones that are malformed or of another device.
* Of the writer the queue of device telemetry, apart from the configuration spans; of the
  pipeline the deletion of a whole device with its spans, and the device's credential.
* Of the simulator the handlers that configure the simulation and show it.
* Key material, encryption, JSON schemas, identifiers' randomness, logging,
  formatting, migrations and infrastructure.

Seen while modelling and not the subject of a run: `PATCH
/config/capabilities/{c}` without `timeoutMs` takes an earlier override of it away,
though the handler says that it applies partial updates (`GatewayConfig!Patched`);
a statement that was answered with success may be undone by the rollback of another
request's creation (`Devices!Rollback`); a configuration stays as it is when a
sensor it names is deleted (`DeviceConfigs!SensorDelete`).
