# TLA+ models of the rapi_core actor runtime

These modules model `src/rapi_core`, the actor runtime under the SOME/IP ↔ Cyclone DDS
gateway. They are checked with TLC. Every definition is translated from the C++ source.
`PROJECT.json` maps each definition to the lines it models.

## The system

| Part | Source | State | Operations |
|---|---|---|---|
| Priority (worker pool) | `src/priority.cpp`, `core/priority.hpp` | `state_` (START/RUNNING/STOPPING/STOPPED), `actorQueue_`, `sleepingCount_`, `startCount_`, dispatcher threads | `start`, `waitForIdle`, `stop`, `schedule`, `dispatcherLoop`, `~Priority` |
| Environment | `core/environment.hpp` | `priority_`, `network_` | destruction: `network_` before `priority_` |
| Actor | `src/actor.cpp`, `core/actor.hpp` | `state_` (INIT/CTOR_FINISHED/STARTED/STOPPED), `scheduled_`, `callBackQueue_`, `children_`, `lifeCycleHelper_` (`childrenCnfCount_`, public StartCnf/StopCnf callback lists, delayed listens) | `ctorFinished`, `schedule`, `consume`, `publish`, `listen`, `newChild` |
| Port | `src/port.cpp`, `core/port.hpp` | `commandsQueue_` (listen/unlisten), `eventQueue_`, `callbacks_`, `scheduled_` | `listen`, `schedule` (an event arrives), `consume`, `scheduleOnOwner` |
| Network | `core/network.hpp` | `callbacks_`: message type → subscribed ports | `listen`, `publish` (synchronous, under `callbacksMutex_`) |
| ActorLifeCycle | `core/impl/actor_life_cycle.hpp` | — | constructor ordering, StartReq/StopReq handlers |
| Core | `src/core.cpp`, `core/core.hpp` | `running_` | `init` (root, Stop and PrivStopCnf listens), `run`, `~Core` (`root_` before `env_`; each actor's `waitForReadyToDtor`) |
| YamlWrapper (config) | `src/common/cxx/config_cxx` | `root_`, the tree of `YamlNode`s | constructor (file, then built-in fallback), `parse`, `getValueImpl`, `getValue<std::string>` |
| YamlWrapper integer getters | `config_cxx/yaml_wrapper.hpp` | — | `getValue<T>` for signed and unsigned integral `T` (`strtoll`/`strtoull` with base 0, then narrowing) |
| Logger configuration | `src/common/cxx/adstlog_cxx/src/adstlog.cpp` | — | `Logger::Logger` reading `logging/name` |
| SmlActor | `src/sml_actor/include/sml_actor/sml_actor.hpp` | `smlSm_`, a boost::sml machine | constructor (`forwardToSml` per event of the transition table), the callbacks that call `process_event` |

How the parts interact:

- `Network::publish` calls `Port::schedule` on every subscribed port.
- `Port::schedule` queues the event. If the port is not scheduled, it calls `Actor::schedule`.
- `Actor::schedule` queues the port's `consume`. If the actor is not scheduled, it puts the actor's `consume` on the pool.
- A dispatcher thread runs `Actor::consume`, which runs `Port::consume`. That processes every pending listen command before each event, then runs the event's callbacks. Callbacks publish further messages.
- A listen is only a command: the port subscribes to the network when it processes the command.

The lifecycle works like this:

- Every actor is built inside `ActorLifeCycle<T>`. `newChild` builds the child first, then registers the parent's listeners for the child's `PrivStartCnf`/`PrivStopCnf`.
- `Core::run` starts the pool, waits for idle and publishes `StartReq<Root>`.
- Each actor forwards `StartReq` to its children. A leaf goes STARTED and publishes `StartCnf` and `PrivStartCnf`. A parent counts its children's `PrivStartCnf` and does the same when the count reaches `children_.size()`.
- `Stop` makes Core publish `StopReq<Root>`, and the same protocol runs for stopping.
- The root's `PrivStopCnf` clears `running_`, and `Core::run` stops the pool.
- `~Core` destroys `root_` first. Each actor's `~ActorLifeCycle` waits in `waitForReadyToDtor` until its `scheduled_` is false. Then `~Environment` destroys the network and the pool. `~Priority` starts a pool that was never started, stops a running one, and joins the dispatchers.

The behaviours that make the runtime hard to test:

- Dispatcher threads interleave with the main thread: `start` and `stop` wait on condition variables, with spurious wake-ups.
- Two flags, the port's and the actor's `scheduled_`, must neither lose a wake-up nor let two dispatchers run one actor.
- The network drops a message nobody has subscribed to yet. Subscriptions lag behind `listen` calls.
- One counter serves both the start and the stop phase.
- Messages are keyed by C++ type, not by instance.
- One event's callbacks run in `unordered_map` order. An SmlActor's own StartReq/StopReq callback and the lifecycle's handler for the same message can run in either order.

## Modules

- **`Priority`** is the pool as a component.
  - Variables mirror the members: `pstate`, `actorQueue`, `sleepingCount`, `startCount`, `wpc` (where each dispatcher is), `wrun` (the closure it runs), `caller` (where the thread calling start/waitForIdle/stop is blocked) and `err` (the code passed to `onErrorCallBack_`; the callbacks exit).
  - There is one action per critical section: `StartBegin`/`StartEnd`, `WaitForIdle`/`IdleWake`, `StopBegin`/`StopWake`, `Schedule`, and the dispatcher's `WorkerStart`, `WorkerLoop`, `WorkerWake` and `WorkerFinish`.
  - A condition-variable wait has two steps: blocked, then woken and re-testing the predicate. `WorkerSpurious` and `CallerSpurious` are the spurious wake-ups.
  - The destructor is three caller steps: `DtorSwitch` (START: `start`; RUNNING: `stop`; STOPPING: error 3; STOPPED: nothing), `DtorStopIfRunning` (the START case's `stop` after `start` returned) and `DtorJoin` (enabled only once every dispatcher has left its loop).
  - Closure bodies are left to the instantiating module.
- **`MCPriority`** drives the pool alone.
  - A caller runs one program of `MainPrograms`, chosen in `Init`. `PoolLives` has three: Core::run's order (schedule, start, waitForIdle, schedule, stop) followed by the destructor; a closure scheduled and the pool destroyed unstarted (an Environment whose Core never ran); start, schedule, then destroyed while running (`PriorityDelayedStart`).
  - Each closure may schedule a follow-up, as a consume that publishes does, up to `MaxFollowUps`.
  - Optional `Clients` schedule from outside the pool.
- **`RapiCore`** composes the actors, ports, network, lifecycle and `Core::run` with the pool (`P == INSTANCE Priority`). The pool's closures are the actors' `consume`.
  - A message is `<<kind, actor type>>`.
  - A callback is `<<what it does, actor>>`.
  - Per actor: `cmdq` (commands) and `evq` (events) for the port; `reg` (`callbacks_`); `portSched`, `actorSched` and `cbq` for the two scheduling flags and `callBackQueue_`; `astate` and `cnfCount` for the lifecycle.
  - `net` is the network's subscriptions.
  - Actions:
    - `ActorLoop`: one iteration of `Actor::consume`.
    - `PortLoop`: a command, or take an event, or leave the loop.
    - `PortEnd`: the final critical section of `Port::consume`.
    - `Dispatch`: one callback of the event; `unordered_map` order is nondeterministic.
    - `Emit`: one `Actor::publish` of what the callback published, with the STARTED guard, then `NetworkPublish`.
    - `CoreStart`, `CoreWaitForIdle`, `CoreSendStartReq` and `CoreStopPool` for `Core::run`.
    - `CoreDtorActors`, `CoreDtorPool` and `CoreJoin` for `~Core`. No closure runs after STOPPED, so the actors' `waitForReadyToDtor` waits are one step. `CoreDtorPool` clears the network (`NetworkClear`) before `~Priority`.
  - `Init` is the state after `Core::init`. Every actor is CTOR_FINISHED with its construction listens queued in the order the constructors issue them, and the actors' `consume` is on the not-yet-started pool, children first.
  - The application is given by constants:
    - the tree (`Parent`) and each actor's C++ type (`ActorType`);
    - `StopOnStart`: actors that publish `Stop` from their own StartCnf callback, like `StartStopRoot`;
    - `EarlyObs`: observers that listen for another actor's StartCnf in their constructor;
    - `LateObs`: observers that listen from their StartReq handler, like `StartStopRoot`'s listen for `StartCnf<LeafNode<5>>`.
    - `DynKids`: children that the parent creates from its own StartCnf callback, after construction. `CreatedPub` is the subset of them whose constructor publishes `Created` to the parent, the pattern the `newChild` comment prescribes (`actor.hpp:139-148`).
  - `ListenRoute` is the routing of `Actor::listen`. A StartCnf/StopCnf listen made while the actor is INIT is delayed; when replayed, one for the actor's own type joins `publicStartCallbackList_` (`PubStartCbs`) and any other listen becomes a port command. The constructor's commands (`CtorCommands`) and the public StartCnf callbacks (`StartConfirm`) are derived from it.
  - `SmlTable` makes actors SmlActors. It maps an actor to its transition table, rows `[from, ev, to, pub]`, where the first row's source is the initial state.
    - `SmlListens` is the constructor's `forwardToSml` per event. The StartReq/StopReq listens are port commands. The StartCnf/StopCnf listens are delayed while INIT and replayed into the public callback lists (`PubCbsFor`).
    - `process_event` takes the first row leaving the current state on the event, or ignores the event (`SmlRows`, `SmlNext`). A row may publish `Stop` (`SmlPub`).
    - `Dispatch` updates `smState`. The event comes from the StartReq/StopReq callback, or from the public callback that runs when the actor confirms. The history variable `smDropped` records an event that arrived in a state with no row for it.
    - `StopConfirm` now runs the public stop callbacks too.
  - `newChild` from a callback takes two steps of the parent's thread. `EmitNewChild` runs the child's constructors: its listens are queued. A child in `CreatedPub` publishes `Created` there while its `state_` is still INIT; `Actor::publish` (`Guarded`: every message but StartReq, StopReq, PrivStartCnf, PrivStopCnf and StopCnf) rejects it with error 5, which ends the behaviour. `EmitCtorFinished` is `ctorFinished`, which schedules the child's consume; the child then joins `children_` and the parent queues its PrivStartCnf/PrivStopCnf listens.
- **`MCRapiCore`** gives the actor trees: a root `r` and leaves `c1` and `c2`, or a root that creates `c1` dynamically.
- **`WorkQueue`** is what the pool promises, with no threads: closures are accepted until the pool closes, started in FIFO order only while it is open, all of them complete, and it closes only when drained. `MCPriority` maps `Priority` onto it (`WQ == INSTANCE WorkQueue WITH ...`: `pstate` to idle/open/closed, `actorQueue` to `queue`, the closures the dispatchers run to `active`) and checks `WorkQueueRefined == WQ!WQSpec`, fairness included.
- **`Lifecycle`** is what the actor lifecycle promises: every actor starts, a parent after all its children; once a stop is requested every actor stops, a parent after all its children; no state goes back. `RapiCore` maps onto it with `astate` and a history variable `stopRequested` (set when Core dispatches `Stop`), and checks `LifecycleRefined`.
- **`YamlWrapper`** models the configuration reader as operators. libyaml is the external collaborator, so its event stream is the input.
  - `parse` is a fold of the event handler over the events (`ParseStep`, `ScalarEvent`, `BlockStart`, `BlockEnd`). It carries the parser's state: the tree, the current node, `prevWasKey`, `keyName`, and an error flag.
  - `getValueImpl` is `Pieces` (the `std::getline` split) followed by `Find`, which takes the first child with a matching key and never backtracks.
  - `Construct` is the constructor's choice between the file and `DEFAULT_CONFIG`. `parse` calls `onErrorCallBack_` with error 1 on a libyaml error (`yaml_wrapper.cpp:89`), so a file that fails part-way ends the construction in error 1 (`ParseFrom` records it as `raised`); the fallback is parsed only when the file could not be opened.
  - `LoggerName` is the logger's lookup of its name (`LoggerNameLookup`).
  - The integer getters are `GetValueSigned`/`GetValueUnsigned`. `StrToNum` is `strtoll`/`strtoull` with base 0: leading white space, a sign, then `0x` hex, `0` octal or decimal digits, folded by `Horner`. `ToSigned`/`ToUnsigned` narrow to `T`'s width modulo 2^w. The getter reports found only when the whole text was consumed.
- **`MCYamlWrapper`** checks these operators against a reference. For the integers the reference runs the other way: it renders every number in decimal, octal and hex, with zero padding, signs and leading spaces, by repeated division, and says which texts are C integer literals and their values. A document is a nested value; `Stream` emits libyaml's events for it, and `RefLookup` says what a path addresses. Each state is one input: a document, a path, and the point at which the file's parse fails.

Each module defines a few fault variants, named `...NoGuard`, `...Early`, `...NoReschedule` and so on. Each is a plausible slip in the code it sits next to, and each is used to show that a property can fail.

## Runs

| Run | Config | Expect | Shows |
|---|---|---|---|
| priority_pool | `MCPriority.cfg` | pass | With 3 dispatchers and 3 follow-ups, over the three `PoolLives`: `stop` drains every closure (`StopDrains`), `waitForIdle` returns only when idle (`WaitForIdleReturnsIdle`), every program ends with the destructor's joins returned (`Termination`), and the pool implements `WorkQueue` (`WorkQueueRefined`). About 17k states. |
| priority_client_waitforidle | `MCPriority_client.cfg` | violation | A client thread schedules while all dispatchers sleep, and `waitForIdle` returns with a queued closure. |
| core_lifecycle | `MCRapiCore.cfg` | pass | On 3 dispatchers, root + 2 leaves of distinct types, the root is an SmlActor whose machine walks idle → starting → running → stopping → done and publishes Stop on its StartCnf transition, and `c1` observes `c2`'s StartCnf from its constructor. Checked: `SerialMailbox`, `ConfirmOnce`, `NoFatalError`, `CleanShutdown`, `EarlyObserverSeesStart`, `Termination` (`Core::run` returns and `~Core` neither blocks in `waitForReadyToDtor` nor in the joins) and `LifecycleRefined` (the runtime implements `Lifecycle`). About 155k states. |
| core_same_type_siblings | `MCRapiCore_same_type.cfg` | violation | Two leaves of one type: each receives both StartReqs, and a leaf confirms its start twice. |
| core_leaf_stop | `MCRapiCore_leaf_stop.cfg` | violation | A leaf publishes Stop when started, and the root goes STOPPED before its other child started. |
| core_late_listen | `MCRapiCore_late_listen.cfg` | violation | The root's StartCnf listen, issued from its StartReq handler, misses the leaf's StartCnf. This is the pattern of `start_stop.cpp`, whose test expects `startCnfLeaf5_count == 1`. |
| core_dynamic_child | `MCRapiCore_dyn.cfg` | pass | The root creates `c1` from its StartCnf callback and then publishes Stop, on 2 dispatchers. Each actor still runs on one dispatcher at a time (`SerialMailbox`), and the root goes STOPPED only after the dynamic child (`StopAfterChildren`). About 2k states. |
| core_dynamic_child_pattern | `MCRapiCore_dyn_child.cfg` | violation | The dynamic child publishes `Created` from its constructor, as the `newChild` comment prescribes, and `publish` raises error 5 because its `state_` is INIT (`NoFatalError`). |
| core_sml_leaf | `MCRapiCore_sml_leaf.cfg` | violation | A leaf SmlActor (`SmlTable <- LeafSml`): its lifecycle handler can run before its StartReq callback, so the machine gets `SmlStartCnf` before `SmlStartReq`, drops it and never reaches its started state (`SmlFollowsLifecycle`: the machine gets its lifecycle events in order and none is dropped). |
| priority_client_stop_hang | `MCPriority_client_stop.cfg` | violation | A client thread schedules during STOPPING after the last dispatcher has left its loop. The closure never runs and `stop` never returns, so `WorkQueueRefined` fails. |
| yaml_lookup | `MCYamlWrapper.cfg` | pass | For every alias-free document (a mapping or sequence of up to two entries, nested two deep) and every path of up to five tokens, `parse` + `getValueImpl` answer as the document says (`LookupMatchesDocument`). For every `Pool` text of up to four characters over `0 1 8 a x - space`, the 32-bit signed and 8-bit signed/unsigned getters read exactly the C integer literals, with wrap-around (`IntConversionMatchesC`). Config's document (`config.yml`, else `DEFAULT_CONFIG`) answers every access path as `config.yml` says, or its construction ends in error 1; a file that fails part-way never leaves a partial tree behind (`ConfigNeverPartial`). About 294k inputs. |
| logger_name_path | `MCYamlWrapper_logger.cfg` | violation | `Logger::Logger` looks up `logging/name` with no leading separator, so a configured logger name is never found (`LoggerNameConfigurable`). |

Findings (details in `PROJECT.json`):

1. `waitForIdle` waits on `sleepingCount_` alone (`priority.cpp:75`), so it can return with a closure still queued. Core::run is not affected.
2. Same-type siblings each receive both StartReqs, and each confirms its start twice (`actor.hpp:402-409`).
3. A `Stop` from a started non-root actor mixes the start and stop counts of its parent (`actor.hpp:407,423`).
4. A StartCnf listen made from a callback can miss the confirmation it waits for (`actor.hpp:473`). The test `start_stop` relies on winning that race.
5. `schedule` accepts closures during STOPPING (`priority.cpp:157`). One pushed from outside the pool after the last dispatcher has left is never run, and `stop` hangs.
6. The logger's name lookup misses its leading separator (`adstlog.cpp:45`).
7. The pattern the `newChild` comment prescribes for children created after construction (`actor.hpp:142-148`) cannot be written: the child's constructor runs while its `state_` is INIT (`actor.hpp:381`), and `publish` rejects its `Created` with error 5 (`actor.hpp:100`). Its subscriptions also lag behind its construction. The same lag loses a `StopReq` forwarded to the child, and then `Core::run` never returns: TLC finds `Termination` violated under `MCRapiCore_dyn.cfg`, which is why that run checks only safety.
8. A leaf SmlActor's machine can get `SmlStartCnf` before `SmlStartReq` and drop it (`sml_actor.hpp:207`).

Bounds, and why they are enough:

- Three dispatchers are the fewest for which a constructor-time observer can still be busy with its commands while two other actors (the root and the observed leaf) each hold a dispatcher. With two dispatchers, the fault variant without `waitForIdle` is masked.
- Three actors give a parent with two children, the smallest tree where sibling interleavings and the shared counter matter.
- The dynamic-child runs use one parent and one dynamic child on two dispatchers. That is enough for the child's first consume to run either before or after the parent forwards it a StopReq. With four actors on three dispatchers, the state space grows past the run time limit.
- The pool run uses 3 dispatchers and 3 follow-ups. The follow-ups put work on the queue during STOPPING. With 3 dispatchers, `stop()`'s wake-all reaches two sleepers while a third dispatcher is still running a closure, and `waitForIdle` needs all three asleep. Symmetry over the dispatchers is not used, because the run checks liveness.
- Integer texts: the alphabet holds a non-octal digit (`8`), a hex-only digit (`a`), the `x` of the prefix, a sign and a space. Four characters reach `0x1a`, `-010`, `  -1`, `08` and `0x`. The 8-bit width makes 255 and -1 wrap. TLC's integers are 32-bit, so 64-bit `T` is not checked.
- YAML documents: keys `a`/`0` and values `x`/`0` make a key equal to a sequence index and a key equal to a value, which are the cases where pairing errors show. Two entries per block and two levels of nesting give repeated keys, siblings and the walk down a subtree. Paths of five tokens reach two levels, with and without leading or trailing separators.

Fairness: dispatchers, the main thread and each actor's consume are weakly fair. They are OS threads that run while they can. `Core::run` waits on a predicate, so only its real wake-ups are fair. Spurious wake-ups and client threads are never assumed.

`CHECK_DEADLOCK FALSE`: the program really ends, because all dispatchers leave their loops and `run` returns. Spurious wake-ups keep steps enabled in blocked states. Hangs are found by `Termination` instead.

## Not modelled

- `Environment`: a plain container.
- Logging: pure I/O, except the logger name lookup.
- `getValue<bool>` and `getValue<float>`, 64-bit narrowing, and libyaml itself (its event stream is the input).
- In `RapiCore` the dispatcher count is the `Workers` constant. `numberOfDispatchers_` is a constant in `config.hpp:34`, never read from the configuration.
- YAML aliases. `LookupMatchesDocument` fails on documents with an alias used as a mapping value: the ignored alias event leaves `prevWasKey` set, and every later key/value pair is shifted. The checked documents have no aliases.
- The gateway app: a childless root that never stops, so it runs until killed.
- A `Core` destroyed after `init` without `run`. Its root's first consume is queued on a pool that never starts, because `~Priority` runs after the actors' destructors. So `waitForReadyToDtor` blocks forever. This is listed as a hazard; no run checks it.
- `unlisten`/`unlistenAll`, `Port::notify` and `consume(max)`. No code under `src/` calls them outside the tests, so no application instantiates them. Two hazards of `unlisten` are listed: a StartCnf callback that unlistens itself erases from the map being iterated, and the port is never unsubscribed from the network.
- `SmlActor`'s user message events (the generic `listen<MessageT>` branch), guards, defer queues and its logger. A StopCnf row that publishes is excluded by an ASSUME: a leaf runs the public stop callbacks before `SetState(STOPPED)` and a parent after it, and the model does not separate the two.

## Plan for later sittings

1. A three-level tree (root, middle, leaves), as in `start_stop.cpp`, with symmetry over leaves of one subtree.
2. The `consume(max)` fairness question between actors.
