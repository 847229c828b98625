# TLA+ models of the hardware channel abstraction

This directory holds the models, model-checking configurations and machine-checked
proofs kept beside the Go code of *hardware-channel-abstraction*: a connectivity core
that runs capabilities (`device.flash`, `device.reboot`, `device.log` ...) on
devices through channels (ADB, UART, JTAG, TCP, MCP, Modbus), with locking, policy,
recovery and evidence, and heads above it (SDK, CLI, batch, farm, MCP, gRPC).

Paths below are relative to `src/`. `PROJECT.json` lists the components, runs,
mutants, theorems and hazards, and maps every definition to the lines it models.

## 1. The system

### Components, state, operations

| Component | State | Operations | What makes it correct |
|---|---|---|---|
| Lock Manager `core/resource/lock_manager.go` | `leases` per resource, `byLease` by ID, one mutex, one condition variable | `Acquire` (blocking, with a watcher goroutine for its ctx), `TryAcquire`, `AcquireAll` (with rollback), `Release`, `ReleaseAll`, `Renew`; pruning of expired leases | exclusion, both tables agree, nothing leaks, only the owner's lease is freed, waiters are served |
| Operation Engine `core/operation/engine.go`, `domain/operation.go` | operations, idempotency keys; per operation state, result, cancel flag under `op.mu` | `Create`, `Start`, `Execute`, `Wait`, `Cancel`, `runWithRecovery`, `succeed`, `fail` | one-way lifecycle, result before terminal state, cancellation and retries bounded, gates before the device, every operation ends |
| Reconciler `core/recovery/reconcile.go` | none | `Reconcile` | a success is never made up |
| Recovery Manager `core/recovery/recovery.go`, `levels.go` | budget counters per channel | `Recover` (L2 reconnect, L3 re-resolve, L4 rediscover, L5 device recovery, L6 manual), `Observe` | bounded by the budget, gives up |
| Channel Resolver `core/resolver/resolver.go` | none (reads the registry) | `ResolveChannel` | READY channels only, deterministic ranking |
| Runtime Registry `core/registry/registry.go` | devices, serial index, endpoints, channels | lookups and upserts, each under one RWMutex | the index names the right device; no duplicates |
| Discovery `core/discovery/service.go` | `lastSeen` locators | `Discover`, `Refresh`, `Watch`, identity correlation, quarantine | no hotplug event lost, one endpoint per locator, boards that can be told apart are not merged |
| Plugins `plugin/adb`, `uart`, `jtag`, `tcp`, `mcp`, `modbus` | the link of each channel | `Probe`, `Open`, `Invoke`, `Observe`, `Recover`, `ResourceRequirements` | answers are true, leases protect what is shared |
| Fake devices `fake/` | board: online, fault injection, partitions, core; Modbus server: registers; TCP device | the calls of the plugins | the devices the plugins are tested with |
| Console transport `transport/console`, `serial`, `tcp` | shared buffer, streams (buffer 256) | pump, `Execute`, `OpenStream`, `Read`, `Close` | answers belong to their command, streams are faithful |
| Event Bus `core/event/bus.go` | sequence, store, subscriptions (buffer 64) | `Publish`, `Subscribe`, `Events`, `EventsAfter`, `Close` | a cursor loses nothing, order per operation |
| Artifact Service `core/artifact/service.go` | metadata, objects | `Ingest` (`Create`, `Upload`, `Finalize`, `Get`), `Delete` | what is named was verified |
| Farm Scheduler `farm/farm.go` | tasks, order, pool, `ready` (capacity 1), `stop` | `Submit`, `Cancel`, `Start`, workers, `Stop` | each task once, none forgotten while a worker is idle, pool shows what runs |
| Batch Executor `batch/executor.go` | results, semaphore | `Run` | one result per device, concurrency bound |
| gRPC `transport/grpc`, `api/convert`, `api/gen` | the server's listener | ten handlers and client methods, the conversion tables, `Serve` with graceful stop | what the wire changes of an answer is known, a retried key does not act twice |
| CLI `cmd/elc`, bootstrap `runtime/bootstrap.go` | the runtime | `elc serve`, `exec`, `batch`, `caps`, `submit`, `task`, `pool` ... ; `Close` | the runtime is closed after the work |
| Session Manager, policy, approval, authentication, secrets, audit, SDK, MCP head | sessions, grants, approvals, tokens | single look-ups under one mutex, delegation | deny by default, approval gate |

### Interactions

`Execute` runs, in the goroutine of its caller: policy and approval, then
`AcquireAll` on the lock manager, `ResolveChannel`, the loop of `runWithRecovery`
(plugin `Open`, `Invoke`, `Observe`, then `Reconcile` and `Recover`), `verify`, and
`succeed` or `fail`; the leases are released by a deferred call. `Recover` calls the
plugin, the resolver and `Discover`. `Cancel` and `Wait` run in other goroutines and
share the operation under `op.mu`. Discovery writes channels and devices that the
engine and the recovery manager read and write without a lock of their own. All
layers publish to the event bus. The farm scheduler runs batches, which run `Execute`
once per device. The gRPC server calls the SDK and the scheduler in a goroutine per
request; `elc serve` stops it, then the scheduler, then the runtime.

### Where it is hard

Condition variables with a broadcast outside the mutex; leases that expire while
their holder works; an idempotency key that leads two goroutines into one
operation; a cancel flag that is polled; results that are lost after the device
acted; retry after recovery; budget counters shared by pointer without a lock;
hotplug passes that overlap; events delivered after the unlock; coalesced worker
signals; a console buffer that is shared; responses without a number; connections
that break under an operation; a shutdown with goroutines of three kinds at work.
`PROJECT.json` lists each with its line, under "hazards".

## 2. Modules

| Module | Models | Run |
|---|---|---|
| `LeaseService` | abstract: what the lock manager promises | as `LeasesServed` |
| `LockManager` | `lock_manager.go` | `lock_manager`, `lock_cancel` |
| `OperationLifecycle` | abstract: what a client sees of one operation | as `LifecycleKept` |
| `OperationEngine` | `engine.go`, `domain/operation.go`, `reconcile.go`; composed with `LeaseService` | `engine`, `engine_dup` |
| `RecoveryLadder` | `recovery.go`, `resolver.go`, what it sees of discovery | `recovery` |
| `Discovery` | `discovery/service.go`, `registry.go`, the scanner of the farm | `discovery` |
| `TaskQueue` | abstract: what a client sees of the farm's queue | as `QueueKept` |
| `FarmScheduler` | `farm.go` with `batch/executor.go` | `farm` |
| `Console` | `transport/console`, the uart and tcp plugins' commands, `fake/tcpdevice.go` | `console` |
| `EventFeed` | abstract: a log and what readers with a cursor have seen | as `FeedKept` |
| `OperationEvents` | `event/bus.go`, audit, `artifact/service.go`, the end of `Execute` | `events` |
| `BoardChannels` | adb, uart, jtag and mcp on one board of `fake/device.go`, with leases, resolver, recovery | `board` |
| `ModbusChannel` | `plugin/modbus`, `fake/modbus.go`, the engine's answer to their errors | `modbus` |
| `ApiConversion` | `api/convert/convert.go` and the enumerations of `api/gen` | extended by `RemoteApi` |
| `RemoteApi` | `transport/grpc`, the commands of `cmd/elc` over it, `elc serve` | `remote` |

`MC...` modules hold instances for TLC, `...Proofs` modules the theorems: one for each
component, except that `LeaseProofs` is about `LockManager` and about the operations of
`BoardChannels` that rely on leases, and `WireProofs` about `ModbusChannel` and
`Console`, the two protocols whose answers carry no number. So that one
module can extend two, these two name after themselves what every module has
(`BoardNext`, `ConsoleTypeOK`).

Each module also holds a few operators that no action uses, marked by a comment and
named for the mistake they stand for (`TransitionFirst`, `CheckOneMore`,
`SubmitQuietly` ...): replacing the right definition by them breaks the property that
`PROJECT.json` pairs them with, under the run's own configuration.

### LockManager

A *thread* is one call of `AcquireAll` (or `TryAcquire`) and the work done under its
leases. The actions are the critical sections of `m.mu`. One section is split: the
watcher of `Acquire` calls `Broadcast` without the mutex, so the check of the context
(`EnterAcquire`, `Wake`) and the attempt with the registration in `cond.Wait`
(`Obtain`, `Wait`) are two steps with the mutex held (`pc = "checked"`, `MuFree`).
`leases` and `byLease` are the maps of the code; `lapsed` is the set of leases whose
`ExpiresAt` has passed, which any lease in the table may enter at any time.
`ReleaseAll` unlocks before it broadcasts, hence `BroadcastAfterRelease`. Renew of a
lease in time only postpones its lapse and is no step; Renew of an expired lease is
`Renew`. Calls that `Acquire` one resource are lists of length one.

### OperationEngine

A *client* is one call of `Execute` or `Start`; the operation it creates bears its
name. `Create` honours the idempotency key, so that two clients may execute one
operation. The steps are the sections of `op.mu` and of the lease table and the calls
into the plugin: `SetResult` and `LastTransition` are the two halves of `succeed` and
`fail`, `CancelCheck` and `CancelFlag` those of `Cancel`, `WaitLook` and `WaitTake`
those of `Wait`. Leases are taken one by one with `LeaseService!Grant` and may expire
(`LeaseExpires`); `LockManager` is shown to implement that service. `Gate` is the
outcome of validation and policy, `Needs` the resources in the global order, both
constant while operations run. Plugin and device are external, as the interface in
`plugin/sdk/plugin.go` allows: `Invoke` acts on the device or not, then returns an
error of some category or not; `Observe` fails, finds the device offline or reads it;
`Recover` succeeds or not, for categories some level accepts. `flashed` is the version
on the one device, `Installed` at first: `Reconcile` and `verify` compare version strings
and nothing else, so that operations may ask for equal versions, or for the one that is
there, and be told SUCCEEDED without having acted (`Satisfied`). `TIMEOUT` is left out
of the terminal states: no code assigns it.

`invoked`, `quota`, `applied` and `expired` are history variables: no guard reads
them.

### RecoveryLadder

A *caller* is an operation inside `Recover` for a channel it runs on (`Used`). The
counters (`attemptState`) are objects (`Cell`) that the table `m.attempts` and the
callers point to; the mutex protects the table only. So `Enter` (`stateFor`) and
`Reset` are atomic, while `st.attempts++` is a read (`StartLevel`) and a write
(`Count`), and the check and increment of `deviceResets` are `StartDeviceRecovery`
and `Arm`. A counter nobody points to any more is zero, which only serves to keep the
state space small. A channel is READY or not; channels are numbered in the resolver's
ranking. The plugin, the scan of L4 and what happens to channels meanwhile (`Lose`,
`Reopen`) are external.

### Discovery

A *pass* is one call of `Discover` or `Refresh`, started by anybody. `pc` follows its
code: the scan (`Scan`, or `ScanFails` when scanners return errors), `Record` or
`Compare` under `s.mu`, and then per scanned locator the steps of `discoverEndpoint`:
`Probe` with the decision of `correlate`, `Upsert` of a new device, `Link` of a known
endpoint or `AddEndpoint`, `FindChannel` and `Open`. Each step makes at most one access
to a table of the registry that others could notice; between steps boards come and go
(`SwitchOn`, `SwitchOff`, `Rewire`), and the recovery manager degrades and reconnects
channels. IDs are positions in the order of creation, since objects are never removed;
`bySerial` is the index. A pass takes its locators in any order, as scanners and
plugins are configured. `EndpointByLocator` searches a map, so where there are several
matches any of them may come. `probed` remembers which board answered at an endpoint
and `swallowed` which removals no `Refresh` will see, because a `Discover` has
overwritten `lastSeen`; both are read by properties only.

Left out: events, the lists returned, attributes, and `Device.Endpoints`, which only
the API conversion reads. One plugin answers for a locator: its type selects it.

### FarmScheduler

The actions are the critical sections of `s.mu` and the `select` of an idle worker;
a worker at "wait" has unlocked and is about to select or asleep in it, which a
buffered channel does not distinguish. `ready` is the channel of capacity one.
`MarkBusy` and `RunBatch` are the two looks at the devices (`resolveDevicesLocked`
and the executor's `resolveDevices`), between which the registry may grow (`Find`).
Each device of a batch has a goroutine (`exec`): queued behind the semaphore, admitted
(`Admit`), at work under the lease of its device (`Work`), over. A batch always
succeeds as a task: `Run` returns no error once its request names a capability.

### Console

The text is abstracted to pieces, an answer or a prompt, each with the command it is
for; the pump reads any number at once and appends them to `c.buf` and to the streams.
`mu` is held over several steps only by `Write`. `Resets` are commands that
`PowerCycle` issues without the question `IsOnline`. A stream's channel drops a chunk
when full. `Die` is the end of the connection, by EOF or by a reset. Deadlines may
pass at any time. Assumed: the device prints only answers.

### OperationEvents

`Publish` is the section of `b.mu` (sequence, store, the snapshot of matching
subscriptions); `rest` is the snapshot that remains to be served after the unlock
(`Deliver`), so publishers overtake each other. `Receive` is a subscriber, `Poll` a
page of `EventsAfter`. `Execute` is the audit record, `OperationStarted`, then
`succeed` (the artifact; result; transition; event) or `fail`.

`Ingest` is its four critical sections `Create`, `Upload`, `Finalize` and `Get`, and
`Delete` of `artifact/service.go` may come between any two of them, because `List` shows
an artifact from `Create` on. A section that does not find the artifact returns an error,
which `succeed` swallows (`engine.go:432`): it goes on without the artifact (`Section`).
When only `Get` does not find it, `Ingest` returns nil and no error, and `succeed`
dereferences that (`engine.go:435`): nothing recovers the panic, and the model stops
(`Alive`). In the repository only tests call `Delete`; it is exported to embedding
programs, and `Deletable` says which artifacts they delete. `verified` remembers whose
artifact has been finalized. `Produces` are the executions whose plugin returns an
artifact.

### BoardChannels

One board and the operations on it. Each plugin is a row of constants read from its
source: what a capability requires, the cost of its channel, whether `Open` asks the
board, whether `Recover` power-cycles it, whether `Invoke` asks `IsOnline` first, and
which category its errors get. The device's `guard` (a look under a read lock) and the
method behind it (under the lock) are two steps, `Guard` and `Act`. `Disturb`,
`SetOnline` and `SetFailNext` are the fault injection of `fake/device.go`, `Lose` and
`Rediscover` are hotplug. Recovery tries its levels in any order here; `RecoveryLadder`
has the order and the budget. `reResolve` degrades the channel in use first and resolves
then, so a dearer channel is tried next (`ReResolve`). `part` is who changed a part of the
board last; of a partition the code sees the version only (`VersionOn`).

### ModbusChannel

A *connection* is a `Client`; `bound` is the one the plugin's table has, `using` the
one an operation has looked up, which may be an older one. `Lock`, `Send`, `Read` are
`do`, with the mutex held between them; `Serve` is the server's turn, `Break` the end
of a connection with what was under way on it, `Listen` a server that comes or goes.
`CountOf` is the one-byte count: `2 * quantity % 256 / 2` registers come back. Reads
and writes fail when the connection is gone, and the mutex is given back. Recovery is L3
only (category PROTOCOL), for which there is no other channel.

### RemoteApi and ApiConversion

`ApiConversion` has the tables of `convert.go` in both directions, as functions from
names to the numbers of the generated enumerations and back, and the messages' fields
that they fill. `DeviceToProto` has no place for `Device.HardwareID`, and
`DeviceFromProto` leaves it empty. An answer is a list of values and at most one error;
an error of Go that is no `domain.Error` (`Plain`: a refused transition, a task that
cannot be cancelled) becomes INTERNAL in `errToProto` (`Unified`). `RemoteApi` has the
programs that use them. A caller is `elc exec` (or `elc batch` for one device):
`ListDevices`, `Discover` when there was none or an error, `CreateSession`, `Execute`;
or an operator: `elc caps`, `elc submit`, then `task`, `pool` or a cancellation. Its
connection may break at any time (`Break`); the client then returns the error and the
handler goes on, or, where it waits for a lease, gives up (`Expire`). `local` is what
the SDK or the scheduler has returned to the handler, `told` what the client's method
returns. `phase` is the life of `elc serve`: serving, draining (`GracefulStop`),
stopping (`Scheduler.Stop`), closed (`rt.Close`). Engine and farm are reduced to one
device, one lease, which may expire, and an outcome out of `Outcome`.

## 3. Runs

| Run | Distinct states | Instance and question |
|---|---|---|
| `lock_manager` | 140 thousand | Three calls (two need debug and device, one the device only, or tries it SHARED), one cancellable, one that uses `Release`. No orphan lease, exclusion between operations that work within their TTL, refinement of `LeaseService`; without cancellation, no deadlock, and every call gets its leases |
| `lock_cancel` | violation | the watcher's only broadcast is lost between the context check and `cond.Wait`; `lock_manager.go:40-41` promises prompt cancellation |
| `engine` | 2.4 million | two flashes of one device, one behind approval, one that may be cancelled, to the installed version and another: gates, cancellation, results, refinement of `OperationLifecycle` |
| `engine_dup` | 360 thousand | two executions of one operation: what a poller sees; every operation ends |
| `recovery` | 1.1 million | two operations that recover the channels of one device: the budget, lost updates, and giving up |
| `discovery` | 610 thousand | a board with two connections and a rival with its serial: identity, idempotence, noticed removals, hotplug settles |
| `farm` | 460 thousand | three tasks (all devices one at a time; urgent; inventory), two workers, two devices, `Cancel` and `Stop`: the queue, wake-ups, the pool, every task ends |
| `console` | 700 thousand | a command and the reset of a recovery on one console, a stream of one chunk, and a connection that ends |
| `events` | 330 thousand | a memory dump with an artifact that may be deleted and a reboot, a subscriber with room for one event, a poller |
| `board` | 4.9 million | two flashes, halt, resume and execute over ADB, UART and JTAG on one board that is disturbed at any time |
| `modbus` | 95 thousand | a write, a read of 127 registers, one of 130, and two connections: answers, effects, and every call returns |
| `remote` | 860 thousand | an operation, its retry with the same key, an operator whose task competes for the device, and `elc serve` that is interrupted |

### Properties worth a note

* `UncancelledCallsSucceed` holds although rollback and expiry wake nobody, because
  the engine's calls end with `ReleaseAll`, which always broadcasts. It needs two
  premises: no context is cancelled, and callers of `Release` do not let their leases
  expire, because `Release` of a pruned lease returns an error before its broadcast.
* `NoDeadlock` is what the order of the resources contributes to
  `UncancelledCallsSucceed`, without fairness. It speaks of behaviours in which the same
  two premises hold throughout (`Patient`): after a rollback, or after the `Release` of a
  pruned lease, a call may sleep while what it waits for is free. It depends on
  `resolveResourceIDs`: with an unsorted list two calls wait for each other.
* `WorkExclusion` is about the holders, not the table: the late release or expiry of
  one operation never takes away the protection of another.
* `CancelStopsAttempts` compares the calls of `Invoke` with a quota fixed when
  `Cancel` sets its flag. The flag is read at the head of an attempt, so one more
  call is possible for an operation in RUNNING and none before.
* `FlashResultIsReal` ties a state to the device. It does not say that a flash that
  SUCCEEDED was applied: a failed flash on a board that runs the wanted version already is
  SUCCEEDED, since versions are all that `Reconcile` compares. It says that the version
  is on the board from that decision until the leases are given back, that somebody put
  it there, and that a mismatch at verification can only come from an expired lease.
* `RecoveryGivesUp` is not obvious from the code: a stale `attempts++` can set the
  counter back. It holds because every write makes its writer's value larger than
  one it has read, so each value can be written only finitely often. `SpentStaysSpent`
  states the step behind this: the least value of a counter, in it or in the hand of a
  call about to write, never becomes less while the counter is in use.
* `IdentityKept` is the promise of `service.go:229-231` for endpoints. `Idempotent`,
  `OneDevicePerSerial` and the two properties of hotplug are stated for passes that do
  not overlap: overlapping ones do duplicate endpoints, channels and devices, because
  looking up and adding are separate critical sections.
* `RemovalWillBeNoticed` and `HotplugSettles` exclude what `Discover` swallows: its
  overwritten `lastSeen` hides a removal from `Refresh` until the locator is seen
  again. `HotplugSettles` starts from a moment after which nothing disturbs, whatever
  half-done passes, failed scans and degraded channels came before.
* `NoLostWakeup` is about the one token that stands for many signals: a worker may use
  it up for a task that another has taken meanwhile. `BusyOnlyWhileRunning` relates
  two look-ups of the device list with a registry that grows in between.
* `AnswerIsOwn` exempts calls that overlapped with another, and those that came after
  such a call or after one that timed out (`shared`): for these the code does mix
  answers, since all share a buffer and a late prompt ends somebody else's wait.
  `StreamFaithful` compares what a stream has delivered, has pending and has buffered
  with the buffer of the console.
* `OwnOrder` holds although publishers overtake each other, because the events of one
  operation have one goroutine. `FeedKept` shows the store to be an `EventFeed`.
* `LeaseKeepsBoard` depends on what the plugins declare, each for itself; the guard of
  the device does not provide it. `AnswersAreTrue` depends on the error categories of
  the plugins: a method that has taken effect returns no error that is retried, through
  the same channel or a dearer one. A flash may succeed without effect where its version
  was there before; everything else that succeeds has acted exactly once.
* `ConclusionIsReal` does not say that a success has its artifact, because `succeed`
  swallows the errors of `Ingest`. It says that an artifact that is named was finalized
  before, and that one is missing only where it was deleted before that.
* `OwnReply` holds without transaction numbers, because the mutex of the client is kept
  until the response is read, and a caller that gives up without one does so because the
  connection is gone. `WritesOnce` holds
  because PROTOCOL errors are never reconnected: the mutant, which treats them as
  CONNECTION errors, repeats a write.
* `EveryCallReturns` although a client has no deadlines: every error path gives the mutex
  back. A server that stays silent is excluded by fairness.
* `KeyDecidesOnce` speaks of two things. That two executions of a key never both reach
  the device holds for overlapping ones, too: a retry that overtakes the execution the
  server still has under way waits for the lease, and finds a terminal operation when it
  gets it. A lease that expires meanwhile lets it through, which is exempted for
  overlapping executions. What callers hear is claimed only for keys whose executions did
  not overlap.
* `AnswerIsTranslated`: that a consumer is "indifferent to whether the implementation is
  in-process or remote" (`transport/grpc/client.go:16-18`) does not hold, since a device
  loses its hardware ID on the way. What holds is that through the tables of both sides
  nothing changes but the hardware IDs and the errors without a category (`AsRemote`).

Several hazards of `PROJECT.json` are caught in part only, because the code does go wrong
in the rest and no document says what it should do: work that goes on after its lease has
expired, calls that overlap on a console or in a recovery, what `Discover` swallows, and
what overlapping executions of a key tell their callers. Their notes say which part.

### Bounds

Lock manager: three calls are the least with a holder, a waiter and a third party
that wakes or overtakes; two resources are the least with an order and a rollback.
Engine: two operations are the least that contend, or that share a key, and two versions,
one of them installed, the least that `Reconcile` can tell apart or confuse; `MaxRetries =
1` gives a first and a last attempt, and the rest of the loop is the same for each.
The default of the code is 2. No counter of the engine is cut off: `invoked` is bounded
by the retries. Recovery: two callers are the least that race; two channels the least
with an alternative; `MaxAttempts = 2` allows a second call within budget, and the
four levels overshoot it. `cycles` stops counting one above its limit. Three failure
categories open all levels, L3 alone and L4 alone.

Discovery: two locators and two boards with one serial number and different hardware
are the least for a conflict, a replaced board and a board with two connections. Two
devices allow a conflict or a duplicate; a third would be the next quarantined or
renewed device of the same conflict. Each locator has one endpoint and one channel as
long as passes do not overlap, so these bounds cut nothing off.

Farm: three tasks and two workers are the least with a coalesced token, a busy worker
and an idle one; two devices the least with a semaphore that holds one back. Console:
two commands and one stream whose channel holds one chunk, so that chunks are dropped.
Events: two publishers are the least that overtake each other; the channel of one
event overflows. Board: five operations, so
that each part of the board has two users, one capability is offered by two plugins, and
one of the two flashes asks for the version that is installed. Modbus:
`MaxDials = 2` connections, so that an operation can hold an older client; the quantities
127 and 130 lie on the two sides of the byte count. Remote: two requests with one key
and one competitor for the device; a device with a hardware ID, a device state and a risk
level whose entries differ from their neighbours, and four endings with three error
categories; the proof covers all others.

### Fairness

`FairSpec` of the lock manager: a goroutine that can run does run (`ManagerStep`,
`WatcherStep`), and an operation ends its work (`EndOfWork`), since the engine defers
`ReleaseAll` and its plugin calls return. `LongWorkSpec` drops the latter. Weak
fairness is enough: `sync.Mutex` hands over to starving goroutines after 1 ms, and a
step that waits for the mutex is enabled again at every unlock. Calls, contexts, the
clock and `Renew` have no fairness.

`FairSpec` of the engine: the goroutine of a client runs and its plugin calls return;
pollers poll. Nobody is obliged to create, cancel or approve, and no lease has to
expire. The wait for leases is enabled when they are free; that such a call succeeds
in the code is `UncancelledCallsSucceed`.

`FairSpec` of discovery: a pass that has begun goes on (plugin calls return), and
`Watch` starts a `Refresh` at each tick. Nothing makes scanners succeed, boards stay or
`Discover` be called; these are the premise of `HotplugSettles`.

Farm: workers and the goroutines of their batches run; nobody has to submit, cancel,
stop or discover. Console: the pump runs and deadlines pass; the device need not answer.
Events: operations are executed and pollers come back; subscribers need not receive.
Modbus: operations run and the server answers what it has received or the connection
breaks, because the client has no deadline. Remote: server, handlers and workers run
and operations end; callers owe nothing, not even to read an answer.

`RecoveryGivesUp` needs no fairness: it says that something cannot happen for ever.

## 4. Proofs

Each theorem holds for every value of the constants that satisfies the module's named
assumption (`CallsAssumption`, `EngineAssumption` ...).

Three theorems have a hypothesis more, and a reader should know which: `DistinctKeys`,
`FlashesContend` and `[]NoOverlap`, explained below. The run of the module checks the
same property on an instance or under a definition that satisfies it.

`LeaseProofs`, locks: `LockInvariant` is inductive, with `TypeCorrect`,
`ExclusionHolds`, `TablesHold`, `NoOrphans` and `WorkExclusionHolds` as consequences.
Exclusion alone is not inductive: a grant looks at one table, so the invariant adds
that both tables agree, that every lease in a table is still held by its owner, and
that what a holder holds and has not lapsed is in the table. `Refinement`: with that
invariant every step maps to a step of `LeaseService` or leaves `byLease \ lapsed`
alone.

`OrderKept`, `WaitersAreTold` and `DeadlockFree` are about sleeping calls. Their
assumption is `OrderAssumption`: there is a numbering of the resources that grows along
the list of every call, which `resolveResourceIDs` (`engine.go:521-530`) provides by
sorting the types of one device. `OrderInv` carries this on through acquisition: what a
call has still to take comes after all it has. `Told`, every sleeper has somebody who
will broadcast, is kept by the steps of behaviours with `[]Patient` only. For
`DeadlockFree` take the sleeper whose resource is last in the order: who holds it is not
asleep, for it would sleep for a later one.

`LeaseProofs`, the board: `BoardInvariant`, with `BoardIsKept` and `CallersAreTold`.
Whoever changes a part of the board needs the device: this is a lemma about what the
four plugins declare (`ChangerNeedsDevice`), and with leases that are apart
(`LeasesApart`) it protects what an operation has changed. `CallersAreTold` needs that
an operation that may still try again has not worked (`RunKept`), which rests on
another lemma about the plugins, the categories of their errors, and that a version on
the board was installed or flashed (`BoardExplained`).

`OperationEngineProofs`: `EngineInvariant` (types; an attempt is only left for another
one while retries remain; whoever concludes an operation has set a result before; a
terminal operation has a result) gives `EngineTypeCorrect` and `WaitAnswered`, and the
action property `TerminalStable`. On top of it `GatesHold`: what an executor has
passed and taken is known at each place of its program (`GateInv`), so the device is
reached with permission and with unexpired leases. `CancelHolds`: the calls of
`Invoke` still possible are counted from the place of the executor (`CancelInv`). It
assumes that every operation has one executor (`DistinctKeys`); with two each may make
its attempt. `FlashResult`: a version stays on the device from `Invoke`, or from the
observation that found it, to the deferred `ReleaseAll` because its executor has a lease
that every other flash needs, too (`ResultInv`). That any two flashes need a common resource is `FlashesContend`: the
plugin that flashes (`plugin/adb`) requires the device and its flash for every one.
`LifecycleImplemented`: every step maps to a step of `OperationLifecycle` or a stutter,
for `DistinctKeys` again: a second execution of a key starts over with a finished
operation, which the lifecycle does not allow and the code does (section 5). The
invariant behind it, `LifeInv`, ties the state of an operation to the place of its only
executor.

`RecoveryLadderProofs`: `RecoveryInvariant`, with `RecoveryTypeCorrect` and
`BudgetHolds`. The budget alone is not inductive: the counters are reached through
pointers, so the invariant adds that no two channels share an object and that an object
nobody can see counts as new (`CellsInv`); that, while calls do not overlap, a caller
holds the object of the table (`Alone`, `Owns`) and the value it read is still there;
and how many attempts the level it has climbed to accounts for (`ClimbedBy`,
`CoveredAt`). `SpentBudgetStays` is an action property of all behaviours, overlapping
calls included.

`DiscoveryProofs`: `DiscoveryInvariant`, with `DiscoveryTypeCorrect` and
`IdentityHolds`, for overlapping passes. The identity of an endpoint is decided in one
step, recorded in another and used in a third, so the invariant says what a pass knows
meanwhile (`JobOk`) and that the index leads to the serial looked up (`IndexOk`).
Devices are never removed and keep serial and hardware ID (`Grows`), so that what
others do in between cannot spoil what a pass knows (`OthersKeep`).
For behaviours in which passes do not overlap (`Spec /\ []NoOverlap`, which a single
`Watch` loop gives; a `Discover` beside it does not) `TidyInvariant` adds what a pass
has looked up and nobody else can have changed: the locator it works on is in
`lastSeen`, no endpoint is there when it is about to add one, no channel when it is
about to open one, and the device it has chosen is still the one of the serial. Hence
`RediscoveryIdempotent`, `SerialHasOneDevice` and `RemovalNoticed`.

`FarmSchedulerProofs`: `FarmInvariant`, with `FarmTypeCorrect`, `WakeupsKept`,
`BusyIsRunning` and `StoppedFarmIsQuiet`. The invariant says that every RUNNING task has
its one worker (`JobKept`), that a mark in the pool is one that a worker at a later
place will clear, and whose the leases are. `QueueImplemented`: the farm implements
`TaskQueue`. The order of submission grows only at its end and has no task twice
(`QueueInv`), so that the best task of the loop in `dequeue`, which keeps the first of
equals, is the one `TaskQueue` starts.

`OperationEventsProofs`: `EventsInvariant`, with `EventsTypeCorrect`. `FeedInv`, an
event's number is its position and a poller has read what is up to its cursor, gives
`FeedImplemented`, the refinement of `EventFeed`. `OwnOrder` is not inductive, since
delivery is after the unlock: `OrderInv` adds that what a publisher has still to send is
the latest event of its operation and the subscriber has only older ones of it
(`OperationsInOrder`). `OutcomeInv` follows an operation and its artifact through
`Ingest`, `succeed` and `fail`, whenever the artifact is deleted (`ConclusionsAreReal`).

`RemoteApiProofs`: each pair of tables is a round trip on the values the other side
can send, and so `ResultRoundTrip`. `ServerInvariant`, with
`RemoteTypeCorrect`, `ClosedAfterWorkHolds`, and with the round trips
`AnswersAreTranslated`: a response under way is one that the client will read as what the
method has returned, but for the two losses (`WireIsLocal`). `KeyDecides` needs two more
invariants, one for each half. While executions of a key do not overlap, at most one is at
work, and once the operation is terminal every answer under way carries its state
(`KeyInv`). Until a lease expires, an execution that has reached the device has the lease
or its operation is terminal, and so no second one of its key gets there, overlapping or
not (`OnceInv`).

`WireProofs`, Modbus: `ModbusInvariant`, with `ModbusTypeCorrect`, `OwnReplyHolds`,
`WritesOnceHold` and `NobodyIsStuck`. On a connection that is up, a request or response
is that of the operation that holds the mutex of the client and reads; a write is in one
place: to be sent, under way, or done. Only these three together are inductive, for a
connection that breaks leaves requests behind that are still served. `NobodyIsStuck`
(`NobodyWaitsInVain`): a response is read only while one is to come or the connection is
down, and who waits for a mutex waits for somebody who works with the client.

`WireProofs`, console: `ConsoleInvariant`, with `AnswersAreOwn`. No mutex keeps the
commands of a console apart, so the invariant has two regimes. As long as no two calls
have overlapped and none has timed out, what is in the command's way, on the wire, in
the pump's hand and in the buffer since its start is one of a few cases (`OnItsWay`),
and nothing is under way when no call is in `Execute`. From then on every call in
`Execute` is in `shared`. The attempt to prove it with an earlier, smaller `shared`
failed, and TLC then showed three calls that break the property (section 5).

`WireProofs`, streams: `StreamInvariant`, with `StreamsAreFaithful`. A stream holds
output in four places (delivered lines, the line being put together, the channel, and
the chunk on its way between them), so `StreamInv` speaks of their concatenation: it is
the part of the output after the stream was opened that was not dropped, in order. That
needs to know that no piece is printed twice (`PrintedOnce`), hence what is still to be
printed (`BeforeWrite`), and what the concatenation of all chunks, `FlattenSeq`, becomes
when a chunk is added at the end or taken from the front. The last is an induction over
the length of a sequence. The induction theorems of the library take an operator as a
parameter, which the provers cannot instantiate; `InductionOnNat` is the same for a set
of numbers, proved from the well-foundedness of `<`, and each use names the set of
lengths for which its claim holds. `GreatestOf` in `LeaseProofs` has the same root.

Every inductive invariant was first checked by TLC as an invariant of the module's
run. Only model-checked: all liveness, that is `UncancelledCallsSucceed`,
`EveryOperationEnds`, `HotplugSettles`, `EveryTaskEnds`, `ExecuteReturns`,
`OutcomesAreSeen`, `EveryCallReturns`, `ServeEnds` and `RecoveryGivesUp`. Liveness
under fairness and `ENABLED` are out of the prover's reach; the safety that these
properties rest on is proved where it is not obvious (`WaitersAreTold`, `DeadlockFree`,
`WakeupsKept`, `RemovalNoticed`, `NobodyIsStuck`, `SpentBudgetStays`). `RECURSIVE`
operators would be, too (none is used). `CancellationObserved` is violated, and
`lock_cancel` shows it.

Proved and in no run are the type invariants, `Exclusion` and `TablesAgree`, parts of
the inductive invariants, and `WaitersWillBeTold` and `NobodyWaitsInVain`: the faults in
the code that would break these two break `UncancelledCallsSucceed` and
`EveryCallReturns`, which are in the runs.

## 5. Observations

What the models contain, or what was met while reading, and no property states:

* Locks: the rollback of `AcquireAll` (`lock_manager.go:78`) and expiry broadcast
  nothing, so a waiter may sleep on a resource that nobody holds until the next
  release.
* Engine: a second execution of a key replaces the result of a terminal operation
  (`engine.go:461`; `domain/operation.go:122-123` says "called once"). After an offline
  observation a recovery is followed by another `Invoke` of a flash that may have taken
  effect (`engine.go:369`, `reconcile.go:46-47`), with a plugin that reports CONNECTION
  or DEVICE_STATE. When the observation itself fails the outcome is RUN_FAILED though
  the effect is unknown (`engine.go:340`, `domain/operation.go:9-10`). TIMEOUT is never
  produced.
* Recovery: two callers pass the check of `deviceResets` at once (`recovery.go:162`);
  `MaxPowerCycles` and `MaxDuration` are read nowhere. A failed L3 or L4 leaves its
  channel DEGRADED, and nothing makes it READY before the next discovery.
* Discovery: `Refresh` sets the device of a lost endpoint OFFLINE whatever its state
  was, and no code sets it ONLINE again; while two boards claim one serial, each pass
  enters two new devices; a channel keeps its `DeviceID` when another board takes its
  locator.
* Farm: a task is SUCCEEDED even if all its devices failed; `Submit` after `Stop` is
  accepted and never run; a coalesced token loses parallelism; `Status` and the gRPC
  conversion read a live task without the lock; sessions of a batch are never closed.
* Console: two calls that overlap may both end at the first prompt; the answer of the
  second then stays on its way, and a later call, alone on the console, is given it
  (`console.go:119`, `130`). An answer cut off by the deadline is returned without an
  error; an EOF ends the pump but `IsOnline` stays true; any other error makes the pump
  spin; `Stream.Close` does not wake a reader; on a link without a buffer `Write` under
  `c.mu` and the pump wait for each other.
* Artifacts: a success may come without its artifact when an error of `Ingest` is
  swallowed (`engine.go:432`). An artifact that is deleted between `Finalize` and `Get`
  makes `Ingest` return nil without an error, and `final.ID` (`engine.go:435`) panics; no
  code recovers. `Finalize` does not look at the lifecycle.
* Flash: SUCCEEDED without effect where the board ran the wanted version before
  (`reconcile.go:39`); the image itself is compared nowhere.
* Events: `bus.go:2-4` speaks of at-least-once delivery, while a full subscriber loses
  events; a cursor taken from live deliveries may skip some, the store does not.
* Plugins: `plugin/registry` says that re-registering replaces but returns an error,
  and lists in map order where it says registration order. `docs/PLUGIN-SPEC.md:176`
  calls `ConnectionError` recoverable, while `plugin/sdk/errors.go:26-28` sets a detail
  only. The `Idempotent` flag of a capability is consulted nowhere.
* Modbus: addresses are documented as decimal but parsed as hexadecimal; quantities are
  truncated to 16 bits, above 127 the answer is silently short; a silent server keeps the
  mutex for ever; an older client is never closed; a write that took effect may end
  RUN_FAILED.
* gRPC: `HardwareID` does not cross the wire (`convert.go:176-183`), and an error of Go
  without a category arrives as INTERNAL (`server.go:242`). A transport error comes with a nil result, which `cmd/elc/main.go:423`,
  `batch/executor.go:99` and `mcphead/server.go:142` dereference. A retry of a key that
  SUCCEEDED gets that state with an INTERNAL error. A client that leaves while its
  operation waits for a lease makes the key RESOURCE_FAILED for good. `Submit` has no
  key, so a retry makes a second task. A session TTL below a millisecond becomes 0, and
  `Execute` does not transmit the deadline. An error of `Serve` ends in `os.Exit`
  without the deferred `Stop` and `Close`.

## 6. Not modelled, and why

* MCP head: translates one tool call at a time into SDK calls, without state of its own.
* Plugin Registry: a map that is filled at start-up and read afterwards.
* Sessions (`Close`, `Revoke`, `Renew`, `BindChannel`), `Close` and `Health` of plugins: no caller outside tests.
* Authentication and secrets: single look-ups under one mutex. Policy is the constant
  `Gate`; grants do not change while operations run.
* `ListTasks`, `ListCapabilities` and conversions no handler uses; getters and
  descriptors of the generated code; flag parsing, printing and demo farms of the CLI;
  serial and TCP dialling; the examples.
* Restarts: nothing is persisted, so a restarted runtime begins at `Init`.

## 7. What is left

1. Runs that show what overlapping passes of discovery duplicate, and that a channel
   keeps the device of the board that used to be at its locator.
2. A console whose device prints unasked, and one without a buffer.
3. Refinements that relate modules: the leases and the attempts of `BoardChannels` to
   `LeaseService` and `OperationLifecycle`.
