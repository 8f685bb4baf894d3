# A TLA+ model of APCOS

APCOS is a personal cognitive operating system: a Rust supervisor (`src/os`)
that owns authority decisions, energy policy and an event bus, and a Python
runtime (`src/core`, `src/voice`, `src/services`, `src/interface`) that parses
intents, keeps tasks in sqlite and talks to the user. The two halves exchange
JSON lines over the pipes of a child process.

This directory models the parts of it where threads, processes, failures and
long histories meet. TLC checks the models on small instances; TLAPS proves
their safety properties for every value of the constants.

## Contents

1. [The system](#the-system) - inventory of parts, state, operations, hazards
2. [Modules](#modules) - how state and actions correspond to the code
3. [Runs](#runs) - what each checks, its bounds, the fairness it assumes
4. [Proofs](#proofs) - what is proved, from what, along which argument
5. [Disagreements](#disagreements) - where code and documentation part
6. [Not modelled](#not-modelled)

## The system

| Part | Source | State | Operations | What is hard about it | What makes it correct |
|---|---|---|---|---|---|
| Event bus | `os/src/event_bus.rs` | active flag, bounded channel, subscriber lists, trace log, id counter | publish, continue_trace, subscribe, unsubscribe, shutdown, drop; dispatch thread | every lock is taken separately; handlers run on the thread that empties the channel; `u8` hops | ordered delivery without loss, graceful and terminating shutdown, recursion protection |
| Energy manager | `os/src/energy_manager.rs` | recovery flag and counter, forced-sleep flag | evaluate, evaluate_and_publish | hysteresis over many samples; publishing that fails half way | hysteresis of the right length, sleep announced exactly |
| Authorities | `os/src/identity`, `runtime/lifecycle.rs`, `runtime/memory_authority.rs`, `secure_storage.rs` | none | one decision each | decided in Rust, obeyed in Python | used by bridge and store below |
| IPC bridge | `os/src/ipc.rs`, `services/ipc/rust_bridge.py` | two pipes, bounded correlation tracker, Python's set of seen ids, a waiting caller | send, read and dispatch, process_line, five kinds of request, shutdown | repeated, malformed, late and crossing lines; a killed child | deduplication of a known length, fail-closed grants |
| Connectors | `core/connectors/mobile_connector.py`, `services/sync_daemon.py` | none of their own | receive_event, receive_sync | names translated in Python and looked up again in Rust | an accepted payload that Rust can parse reaches the bus |
| Vector memory | `core/memory/vector_memory.py` | record cache | upsert, delete | three requests to two authorities between call and change | no change without every grant |
| Task store | `core/memory/task_store.py`, `lifecycle_manager.py` | tasks table, its committed copy, transition log | create, update, transition | one connection for all threads and no lock; bridge requests between read and write; sqlite errors; crashes | archived is terminal, log and table agree, finished calls are durable |
| Command router | `core/cognition/command_router.py`, `challenge_logic.py` | audit trail, challenged and rejected keys | route, record_response | one return path per error class, two threads between challenge and handler | one audit event per route, one challenge per key, a rejection changes nothing |
| Voice pipeline | `voice/*.py`, `services/hardware/sleep_manager.py` | audio buffer, two closable queues, worker and wake-word threads, thread slots | run_once, start, stop, enter_sleep, wake | joins and waits that time out, late transcripts, closed queues, a worker that outlives its stop | transcripts in order and once, bounded lag, one worker per slot, stopped threads end |
| Resource governor | `core/behavior/resource_governor.py` with its monitors, `services/hardware/device_state_manager.py`, `voice/model_manager.py` | power mode, loaded and target model, active transcriptions, time limit | evaluate on loop threads and the main thread, device signals, model load and unload | stale samples acted upon, a mode another thread stored, several writers of one time limit, a loop that outlives its stop | a model in use is kept, pressure sheds load, calm restores it |
| Proactive controller | `core/cognition/proactive_controller.py`, `core/behavior/pattern_detector.py`, `suggestion_scorer.py`, `acceptance_tracker.py`, `calibration_engine.py` | counts per day, window, last step per key, threshold | evaluate, record outcome, recalibrate | four limits over long histories and changing days | each limit holds over every history |
| Interface and identity | `interface/*.py`, `core/identity/*.py`, `core/cognition/reasoning_engine.py` | authenticated tier, speaker, strategy mode | read, log in, command, strategy, post action | one exit per error; identity that outlives or loses its cycle | tiers stay apart, every input answered, the answer true |
| Service registry | `os/src/runtime/service_registry.rs` | services, dependencies, states | register, start (recursive), stop, restart, start_all, stop_all | cycles, services that fail or die inside a call | dependencies first, `Ok` means up |
| Scheduler | `os/src/scheduler.rs` | task list, running flag, loop handle | register_task, start, stop; loop thread | start/stop overlaps; actions run under the list's lock; panics | one loop, calls return, due tasks run |

How they interact: the session parses an input, checks the identity and calls
the router; the router calls the store, the store and the vector memory ask the
storage and memory authorities through the bridge, the bridge decides with the
Rust authorities and forwards known events to the bus, and the energy manager
publishes to the bus. The voice runtime feeds the session, the governor
protects the voice runtime, and the sleep manager stops and restarts it.
`PROJECT.json` lists every part, and under `hazards` each place where one of
these hard behaviours bites, with the properties that watch over it.

## Modules

| Module | Models |
|---|---|
| `EventBus` | `event_bus.rs`: handles, channel, dispatch thread, handlers |
| `BusContract` | what the bus promises: a log, delivered in order, closed gracefully |
| `EnergyManager` | `energy_manager.rs`: evaluation, hysteresis, publishing |
| `Authorities` | the decisions of the Rust authorities as operators |
| `IpcBridge` | both ends of the JSON-lines protocol; uses `Authorities` |
| `Connectors` | the mobile connector and the sync daemon, composed with `IpcBridge` (EXTENDS) |
| `VectorMemory` | the vector cache as a caller of the bridge, composed with both (EXTENDS `Connectors`); `MemorySpec` is the composed specification |
| `TaskStore` | `task_store.py` with `lifecycle_manager.py` and its bridge requests; uses `Authorities` |
| `CommandRouter` | `command_router.py` with `challenge_logic.py`, composed with `TaskStore` (EXTENDS: its actions take store steps) |
| `VoicePipeline` | the voice runtime with its threads, queues, stream and slots, and sleep and wake |
| `ResourceGovernor` | governor, monitors, device state manager, model manager and the recogniser's time limit |
| `ProactiveController` | suggestions: detection, ranking, guard rails, outcomes, calibration |
| `Interaction` | one user session, composed with `ProactiveController` (EXTENDS) |
| `ServiceRegistry`, `Scheduler` | the two supervisor components of those names |
| `EventBusProofs`, `IpcBridgeProofs`, `TaskStoreProofs`, `CommandRouterProofs` | theorems and proofs about the module they are named after and what it is composed with |
| `VoicePipelineProofs`, `VoiceOrderProofs` | theorems about `VoicePipeline`: threads and slots; utterances and transcripts (EXTENDS the first) |
| `RuntimeProofs` | theorems about `ServiceRegistry`, `Scheduler` and `EnergyManager` |
| `ControlProofs` | theorems about `ProactiveController`, `Interaction` and `ResourceGovernor` |
| `MC...` | constants for TLC; `MCSupervisor` runs registry and scheduler, which share no state |

A definition named `Something__variant` is a deliberately wrong form of
`Something` that no specification uses; it records a bug that the property named
beside it in `PROJECT.json` would catch.

Several components have more kinds of input than one instance can combine. Their
constant `Loads` is a set of loads (who calls, how often, with which
arguments and wiring) from which each behaviour picks one in its initial state;
the governor's `Setups` serve the same purpose.

### EventBus

Each client thread has a program counter (`pc`) and a record of its current
call; the dispatch thread has its own (`dpc`, `cur`, `todo`, `out`). Every lock
or channel operation of the code is one action, because between two of them
other threads run: `publish` is `Publish` (trace id), `PublishAdmitted` or
`PublishRefused` (the active check), and `PublishSend` or `PublishDisconnected`;
`subscribe` is `Subscribe` and `SubscribePush`; `shutdown` is `Shutdown`,
`ShutdownSend` and `ShutdownJoin`. The dispatch loop is `Receive`,
`MatchingHandlers` (the snapshot of the handlers), one step per handler, and
`HandlersDone`. A handler observes or relays (calls `continue_trace`, on the
dispatch thread itself: `ContinueTrace`, `ContinueSend`, `ContinueRefused`).
`accepted`, `received` and `closing` are histories. Hop counts are `u8` and
saturate; all three constructor arguments are raised to at least one. Only the
uniqueness of ids is observable, so the two `fetch_add` of a call join the
neighbouring step.

### EnergyManager

`Evaluate(s)` is the whole of `evaluate`, which runs under `&mut self`; the
events it returns are published one at a time (`Publish`), or dropped at the
first error (`PublishFails`). Percentages and temperatures are kept in tenths,
since the code truncates its `f32` battery value to a whole percent for the mode
but compares the untruncated one with the thresholds.

### IpcBridge, Connectors, VectorMemory

Two sequences are the pipes. Rust's tracker is a set and a queue with eviction;
Python's is a set that only grows. `DispatchDropped`, `DispatchIgnored`,
`DispatchEvent` and `DispatchRequest` are the branches of `dispatch_incoming`,
with the marking of the id that each does (`MarkSeen`). The transport that
Python callers use is passed in from outside the repository; `TransportReturns`
gives the caller the next line whatever it is, a late answer to an earlier
request included, and `TransportFails` gives up. `marks`, `handled` and
`granted` are histories: the ids as Rust marked them, the events Python
handled, the requests whose callable ran.

`Connectors` adds the senders of events: `ReceiveEvent` and `ReceiveSync`
validate a payload, translate its kind through `ACTION_EVENT_MAP` or
`SYNC_EVENT_MAP` and write one line (`Envelope`); `ReceiveRaises` is a refused
payload. Python accepts payloads whose line Rust then refuses to parse (over
64 KiB, a correlation id over 128 bytes, a negative timestamp, a value that is
not JSON): an `"unfit"` body makes a MALFORMED line.
`EventNames` are the names Rust knows. `VectorMemory` adds a caller: `upsert`
or `delete` asks storage, then memory with storage's answer, then storage again
under a new id (`AskAuthority`, `AnswerArrives`, `AnswerFails`), and only then
changes `records`.

### TaskStore

A call is a sequence of steps: read the row (`UpdateTask`, `TransitionTask`),
ask storage (`RequestStoragePermission`) and memory (`MemoryValidate`) or consult
the lifecycle matrix (`AssertTransition`), ask storage about the write
(`StorageDenies` or `Execute`), `Commit`, and read back (`Reply`). Between any
two another thread may run, sqlite may raise (`SqliteRaises`, when `Faults`), the
transport may raise (`TransportRaises`), and the process may restart on the
committed table (`Restart`), which forgets the in-memory log. `rows` is what the
connection sees and `disk` what was committed. `Arguments` are the constructor
arguments the store may have been given; `Construct` applies
`memory_bridge or storage_bridge`. An answer of the bridge is the authority's
own decision, or an invalid one that the code treats as a denial. A blank title
raises before any state is touched and is left out.

### CommandRouter

`route` is `Route` (validation passed), `RouteRejected` or `RouteRaises` (an
intent that is no mapping, a number that overflows), then `EvaluateChallenge`,
`IssueChallenge` or `EvaluateRaises` (a null score, or sqlite raising while the
gate reads the task), then the handler:
`HandleCreate`, or `HandleRead`, `HandleUnresolved` and `HandleCall`, then the
store's own steps (`StoreWork`) and `HandleResult`, which emits the audit event.
A disabled challenge gate (`enable_challenge_gate`) behaves like the score
`"high"`. `DirectActivate` is other code that moves a task to ACTIVE, which no
intent does.

### VoicePipeline

The main thread runs `RealVoiceSession.run_once` and `stop`, the power thread
`SleepManager.enter_sleep` and `wake`; both reach the same start and stop code
of the engines, so those steps (`StartWake`, `StartWorker`, `StopWake`,
`JoinWake`, `StopWorker`, `JoinWorker`, `ReleaseSlot` and so on) take the caller
as a parameter. Wake-word listeners and transcription workers are threads with
an identity each, since a stopped one may outlive its timed join while its
successor runs. An utterance is a number in the order the microphone delivered
it, and its transcript is the same number. A transcription gives a text,
nothing, or an exception that ends the worker (`WorkerDies`). `clean` holds
while no join has timed out and the two callers never overlapped in the engines'
start and stop, which hold no lock in common. `leaked` counts the slots whose
worker died and was started again: `start` asks the limiter for a new slot and
overwrites `_slot_acquired` with its answer (`transcription_worker.py:44`).

### ResourceGovernor

`evaluate` is `Usage`, `SampleCpu`, `SampleMemory`, `StoreMode`, `ReadMode`,
`Gate`, `Act`, `UnloadIdle`, `Limit` and `SetTimeout`, taken by each loop thread
and by the main thread side by side, so that one acts on a reading the other has
overtaken, or on the mode another has just stored. `Decision` is the pressure
action; `setup.downgrade` is `runtime.model_downgrade_enabled`, on by default.
`StopGovernor` and `SessionStopped` are `session.stop`, whose join may give up;
`StartGovernor` then starts a second loop, and the first goes on beside it if it
has not seen the stop event before `start` clears it. The device check of
`run_once` is `SampleLow` and `SampleDevice` and then one step per signal it
sends. Transcriptions load the model (`GetModel`) and use it between `MarkStart`
and `MarkEnd`. The sensors are a reading that changes at any time
(`EnvChanges`). Time limits are in hundredths of a second. `own` and `near` are
histories: which pressures were off at some time since an evaluation's first
reading, and since that of any evaluation that had not stored its mode by then.

### ProactiveController and Interaction

`evaluate()` is `EvaluateQuiet` (an early return) or `Evaluate`, then one
`Evict` per old entry of the window and one `Skip`, `Suggest` or `Stop` per
ranked candidate; an exception leaves it at any of these (`EvaluateFails`).
`Detect`, `Score` and `Rank` are the pattern detector and the
scorer as operators; `UpdateThreshold` is the calibration. Confidences are in
hundredths. A date is any date the caller's clock gives.

`Interaction` reads an input (`ReadLine` typed, `Hear` spoken), and answers it
by `Blank`, `Login`, `BadClock`, `AskStrategy` or `Command`; a command goes to
the router, which here is the contract that `CommandRouter` establishes: one
result and one audit event (`RouteReturns`), or an exception out of the challenge
hook (`RouteRaises`). `Registered` and `Handled` are the router's table of
actions and the state each handler leaves the task in; `effect` is what became
of the task. An executed command is followed by the post action, a proactive
cycle (`PostEvaluate`, `PostRecalibrate`), whose exception replaces the answer
by an internal error (`EvaluationRaises`).

### ServiceRegistry and Scheduler

`start_recursive`'s activation records are the sequence `stack`: `StartNext`,
`Enter`, `Descend` and `Leave` walk it, `ServiceStarts` and `StartFails` are the
innermost service's own `start`, and `ServiceDies` may happen inside a call.
Calls take `&mut self` and do not overlap.

The scheduler's `start` is `Start`, `Spawn`, `Store`; its `stop` is `Stop`,
`Take`, `Join`, holding the handle's mutex while it joins; the loop is `Check`,
`Lock`, then one `Scan` per due task or `Panic`. `Tick` is time. `raced`
records that start and stop overlapped.

## Runs

Deadlock is checked in the voice and governor runs, whose main threads never
finish for good. It is off in the others: callers may stop calling, and the
bounds on calls run out.

| Run | Properties | Bounds |
|---|---|---|
| `EventBus_safety` | `LossIsBounded`: at most one late event per client is accepted and lost; `RelayChainEnds`: hops count along a trace and stop at the limit; `ImplementsContract` (refinement of `BusContract`) | two clients, two publishes, one subscription, capacity 2, two hops |
| `EventBus_live` | `AcceptedIsDispatched`, `ShutdownReturns` | observing handlers, capacity 0 (raised to 1), three publishes |
| `EventBus_relay` | violation of `ShutdownReturns` | a relaying handler, capacity 1 |
| `TaskStore_calls` | `LogMatchesRows`, `CommittedIsDurable`, `WritesGrantedTarget`, `ArchivedIsStamped`, `ArchivedIsFinal` | one caller, two tasks, five calls, eleven wirings (no bridge, storage bridge, memory bridge alone, with and without authorizer and enforcement); or two callers, one task, four calls, three wirings; sqlite errors and restarts |
| `CommandRouter_routes` | `ChallengeOnce`, `AuditMatchesLog`, `OneAuditPerRoute`, `RejectedLeavesRows` | one thread, two tasks, three routes; or two threads, one task, two routes with null scores; with and without storage bridge |
| `EnergyManager_safety` | `DowngradeIsHeld`, `SubscribersKnowSleep` | default thresholds, values on both sides of each; sequences of any length |
| `IpcBridge_safety` | `DuplicatesDropped`, `GrantsAreDecisions`, `IngressReachesBus`, `VectorChangesGranted` | three ids, tracker of two, four lines; loads: a granted and a denied request per authority, pairs of connector payloads of every kind, fit and unfit, a connector beside a caller, vector calls under eight wirings |
| `VoicePipeline_runtime` | `HandledInOrder`, `LagBounded`, `OneWorkerPerSlot`, `StoppedThreadsEnd`, `MainReturns` | one slot, queues of one, buffer of two, three workers and listeners; four chunks and one stop, or two and two |
| `VoicePipeline_wake` | violation of `WakeResumes` | one chunk, one stop |
| `ResourceGovernor_runtime` | `UnloadRespectsActive`, `NoUpgradeUnderPressure`, `PressureSheds`, `CalmRestores`, `DeviceSignalsArrive` | five setups: one loop beside the main thread under seven readings and one change; the same with a transcription; downgrading disabled; two loops and one stop, while the pressure falls or with a transcription |
| `Interaction_session` | `GuardRails`, `IdentityEnforced`, `ToldWhatHappened`, `InputAnswered` | limit 3 a day, 2 in a window of 3, cooldown 1, threshold 65 to 75; two days, two contexts; two inputs and an evaluation, one input and two evaluations with an outcome, or three, or no input and five with an outcome |
| `Supervisor_services` | registry: `UnstartableNeverRuns`, `OkMeansUp`, `StartsAfterDependencies`; scheduler: `OneLoop`, `SchedulerReturns`, `DueTaskRuns` | three services, five dependency lists, two calls; two controllers, two loops, two tasks, three calls, two ticks |

Why the bounds are enough. *Bus:* two clients are enough for a publisher to be
caught between its check and its send by a shutdown of the other; two hops and
one relay reach the hop limit, and with two publishes the trace log of two
overflows and the queue of two is full. *Store:* five calls carry a task through
its whole life and then try to change it once more; two callers and four calls
give every overlap of two calls on a row that two earlier calls created and
moved on. *Router:* create, be challenged and try again takes three
routes. *Bridge:* three ids overflow a tracker of two and bring an evicted id
back; each authority has one request it allows and one it denies; four lines
carry a vector call's three requests and one foreign line between them.
*Energy:* the state space is finite without any bound, because the counter is.
*Voice:* three workers let a successor start while a predecessor outlives its
stop, twice; four chunks overrun the buffer and both queues. *Governor:* an
evaluation of each thread may have sampled before the one change of readings and
act after it, or between its own two readings, which are the stale cases; two
loops and one stop bring a loop back that its stop did not wait out; after the
last change the liveness properties speak about every path. *Interaction:* five evaluations move a full
window of three past its first entries, and two days in any order reset the
count and return to it. *Supervisor:* three services have every shape of
graph that the recursion distinguishes (chain, diamond's sides, cycle of one to
three, missing dependency); three calls make a start overlap a stop and the next
start.

Scope of the conditional properties. `ArchivedIsFinal`, `LogMatchesRows`,
`ChallengeOnce`, `AuditMatchesLog` and `RejectedLeavesRows` speak about one
caller; with two the code does not keep them (see Disagreements).
`LogMatchesRows` and `AuditMatchesLog` speak about a store without memory
bridge, as the container wires it; `LogMatchesRows` and `CommittedIsDurable` hold
until sqlite raises, and the router's run has no sqlite errors (`Faults` is
FALSE), as a commit that fails leaves its statement to be seen by the next
route. `ArchivedIsFinal` and `ArchivedIsStamped` speak about stores where
somebody guards ARCHIVED (`ArchivedGuarded`): not with an external authorizer,
which the documentation excepts, nor with a memory bridge alone (see
Disagreements); the run includes both. `ArchivedIsFinal` protects the columns
other than the state only where the storage authority is asked.
`OneAuditPerRoute` counts a `route` that raises as one without an audit event.
`IngressReachesBus` excepts lines that Rust cannot parse. `ToldWhatHappened`
leaves open what "internal error" means. `OneLoop` and `SchedulerReturns` hold until a start
and a stop overlap, `DueTaskRuns` until an action panics; `OneWorkerPerSlot`
and `WakeResumes` while `clean`; `CalmRestores` on a good battery. The first
half of `PressureSheds` presumes `model_downgrade_enabled`; without it
`NoUpgradeUnderPressure` bounds the readings by `near`, not `own`.

Fairness. A thread that has begun a call, and every loop thread, keeps being
scheduled by the operating system: weak fairness of `ClientStep(c)` and
`Dispatch` (bus), of the listeners', workers', main and power thread's steps
(voice), of `MainStep`, `GovernorStep` and the transcriptions (governor), of
`Call(c)` and `LoopStep(l)` (scheduler) and of `SessionStep`, which leaves out
the exceptions of an evaluation. Strong fairness is assumed in three places. `CheckDevice` and the scheduler loop's `Lock` wait for
a mutex that others keep taking and releasing (the sleep manager's lock, the
task list); it promises a waiter no turn, but is free for far longer than it is
held. `SampleCpu` of a governor loop reads five figures that another evaluator may
change under it, which raises and is retried a second later; it is not
interrupted every single time. Nothing is
assumed about anyone starting a call, and a publisher blocked on a full
channel gets in because publishes are finitely many. The remaining runs check
safety only and assume nothing.

## Proofs

`EventBusProofs` proves for any clients and events, any capacities, hop
limit and bounds (`EventBusAssumption`, and for `LossIsBounded` that there are
finitely many clients, `ClientsAssumption`):

- `TypeCorrect`: `Spec => []TypeOK`. Channel and trace log respect their
  capacities.
- `ShutdownIsGraceful` and `DeliveryIsOrdered`: `GracefulShutdown` and
  `ReceivedInOrder` are invariants. Neither is inductive: that the channel holds
  exactly the accepted and unreceived events, in order, is what makes the next
  receive right. With a `Stop` in the channel the positions shift, and
  everything accepted before the request must be ahead of it. The inductive
  invariant `IInv` therefore says, besides types, that (`ShutdownInv`) one
  client at most is shutting down and only when the flag is down; (`PrefixInv`)
  received is a prefix of accepted; and (`QueueInv`) the channel is the rest of
  accepted, either as it stands (`NoStop`) or with `Stop` at one position that
  is past the mark (`StopQueued`). The step lemmas treat the six ways a step can
  touch this state: accept, close, queue Stop, receive, finish, and none.
- `BusImplementsContract`: `Spec => ImplementsContract`, from `IInv` and the
  refinement mapping in `EventBus`.
- `LossIsBoundedHolds`: `LossIsBounded`. `LossInv` adds to the late events those
  that can still come: one for each client that passed the active check and has
  not sent, and one for a handler that is relaying. The sum never grows, and the
  caller of shutdown, who is not sending, makes room for the handler.
- `RelayChainEndsHolds`: `RelayChainEnds`, for `MaxHops < 255` (see
  Disagreements for 255). `HopInv` says that the handler works on the envelope
  received last and sends one a hop further. For a bus with one subscription
  `SubsInv` says that there is one handler at most to run, and `TraceInv` that a
  publisher's trace id is its own, that no two envelopes of a trace have the same
  hop, and that the envelope in hand has no continuation yet. A trace then has at
  most as many envelopes as there are hops.

`IpcBridgeProofs` proves about `MemorySpec`, the composition of bridge,
connectors and vector memory, for any ids, tracker size, traffic, requests and
wirings (from `IpcAssumption` and `LoadsAssumption`):

- `GrantsHold`: `GrantsAreDecisions`. What makes it inductive (`RequestInv`) is
  that every answer in the pipe to Python is the decision on the request of that
  id (`PipesOK`), and that the waiting caller's request is the one its id stands
  for (`CallerOK`), so that an answer which passes the caller's checks is its
  own.
- `VectorChangesHold`: `VectorChangesGranted`. `VectorInv` adds `CallOK`: a call
  that has come as far as it has holds the grants of every authority before.
- `DuplicatesDroppedHolds`: `DuplicatesDropped`. The property speaks about the
  whole history of marks, the code keeps a set and a queue. `TrackerInv` says
  that the queue is the tail of that history, of full length once the history is
  longer than the limit, and the set its elements; a repetition within the window
  would then be in the set. `InsertKeeps` treats marking with and without
  eviction. `HandledInv` is Python's half.
- `IngressReachesBusHolds`: `IngressReachesBus`. A connector's line that Rust can
  parse can only be lost to the tracker, so `IngressInv` accounts for every id in it and in both
  pipes: it is of a forwarded event or somebody else's. That the names of
  `ACTION_EVENT_MAP` and `SYNC_EVENT_MAP` are names Rust knows
  (`NamesAreKnown`) is the rest.

`ControlProofs` proves for every limit, window, cooldown and
threshold range, and every set of dates and contexts:

- `GuardRailsHold`: `ProactiveSpec => []GuardRails`. Each guard rail works on a
  summary of the past (a count per date, the steps in the window, the last step
  of each key); `ProactiveInv` says what each summary stands for (`CountOK`,
  `WindowOK`, `LastOK`).
- `SessionKeepsGuardRails`: the same for `Interaction`'s `Spec`; a session step
  is a controller step or leaves the controller alone.
- `IdentityHolds`: `IdentityEnforced`, from `IdentityInv`.
- `ToldWhatHappenedHolds`: `ToldWhatHappened`, of the composed session. `ToldInv`
  says what the response at hand claims while the post action runs;
  `TablesAgree` that registry, handlers and templates fit together for every
  command and every result of the router.

and about the governor, for any setups, readings and finite sets of loop threads
and transcriptions (`GovernorAssumption`):

- `UnloadRespectsActiveHolds`: `UnloadRespectsActive`.
- `NoUpgradeUnderPressureHolds`: `NoUpgradeUnderPressure`, with downgrading
  enabled or not and however many evaluations overlap. The decision rests on
  figures that may be out of date and a mode that somebody else may have stored,
  so `ReadingsInv` says of every evaluation under way that each figure it found
  low was low at a time in `own`, and that a NORMAL mode it finds or holds was
  computed from figures that were low at times in `near` (`Explained`).
- `MarksProtectModel`: the count that the code tests is the number of marked
  transcriptions, so it never reaches zero while one runs, and
  `UnloadRespectsActive` protects exactly those.

`TaskStoreProofs` proves for any finite sets of callers, any rows, columns,
values and constructor arguments, with and without sqlite errors
(`TaskStoreAssumption`). All invariants are shown for `StoreNext`, the steps the
store can take whoever calls it, so that they serve the router as well.
`StoreType` says that a call that has begun has a statement to run on a row that
exists, and asks the memory authority exactly when there is a bridge to it.

- `CommittedIsDurableHolds` and `WritesGrantedTargetHolds`: both properties are
  inductive with `StoreType`.
- `LogMatchesRowsHolds`: `LogMatchesRows`. The record is written before the
  row, so `LogInv` says what the last record is while a call is in between
  (`Pending`): the state which that call will write.
- `ArchivedIsStampedHolds` and `ArchivedIsFinalHolds`: `ArchivedIsStamped` and
  `ArchivedIsFinal`, for every wiring. A call writes the stamp it read back, so
  `StampInv` speaks, where ARCHIVED is guarded, about the table, the disk and
  what every call has read, and says that a call let through to a state other
  than ARCHIVED did not read ARCHIVED. `SoloInv` adds, for one caller, that the
  row is still the one the call read, and that the open transaction undoes
  nothing that is archived on disk.

`CommandRouterProofs` proves about `RouterSpec`, router and store composed
(`RouterAssumption` besides the store's):

- `RoutesKeepStore`: all five properties of the store's run hold below the
  router, because each of its steps is a store step or leaves the store alone (`RouterIsStoreNext`).
- `OneAuditPerRouteHolds`: `OneAuditPerRoute`, for any number of threads. The
  property says that the threads inside `route` are exactly as many as the
  routes not accounted for by an audit event or an exception, by a bijection with the numbers of those routes;
  the lemmas on `Fills` say what becomes of it when a thread enters or leaves.
- `ChallengeOnceHolds`: `ChallengeOnce`. `OnceInv` adds that every issued key is
  in the gate's memory and one about to be issued is not.
- `RejectedLeavesRowsHolds`: `RejectedLeavesRows`, without sqlite errors.
  `RouteOk` follows a route: until its statement is run the table is the one it
  found, and a call that was run ends in an executed result.
- `AuditMatchesLogHolds`: `AuditMatchesLog`, without sqlite errors. The
  changes in the audit trail and those in the log are matched by a bijection
  that keeps their order; `MatchInv` says that there is one, but for the last
  record of the log while the call that wrote it has not been audited (`Open`).

`VoicePipelineProofs` and `VoiceOrderProofs` prove for any sizes of queues and
buffer, numbers of slots and threads, and loads (`VoiceAssumption`, which names
threads by positive numbers):

- `OneWorkerPerSlotHolds`: `OneWorkerPerSlot`. While `clean`, `CleanInv` says
  where a live thread can be (registered, or being joined), that one caller at
  most is inside start and stop, and what the limiter counts at each step of
  them. The run has one slot, with which a start after a dead worker finds none;
  the theorem includes the slots that are lost when there are more.
- `HandledInOrderHolds`: `HandledInOrder`. It needs no `clean`, although several
  workers may then be live. Up to the first stop there is one worker and
  everything is in order (`OpenInv`); after it the queues stay closed, nothing
  more is submitted to them, and only one worker can have passed the test for a
  closed queue before (`TextInv`), with a text newer than all before.
- `LagBoundedHolds`: `LagBounded`. `LagInv` counts: every submission was waited
  for, and the wait timed out or handled a transcript, so the i-th transcript
  handled is of the i-th or a later submission; it is of one that was submitted
  (`SourceInv`), and submissions are in order (`StreamInv`).

`RuntimeProofs` proves about the registry, for any services, dependency lists
and numbers of calls (`RegistryAssumption`):

- `UnstartableNeverRunsHolds`, `OkMeansUpHolds`, `StartsAfterDependenciesHolds`:
  the registry's three properties. `RegistryInv` says what the recursion has
  achieved: each dependency of a frame's service is still to be visited, is the
  service of the next frame, or was started with all it needs (`FrameInv`). What
  a service needs is a least fixed point, and the lemmas on `Needs` reason with
  closed sets where recursion would need induction. A cycle never gets a
  service up, since its first member would need itself.

about the scheduler, for any controllers and loops (`SchedulerAssumption`):

- `OneLoopHolds`: `OneLoop`. `LoopInv` says, until a start and a stop overlap,
  which controller holds the handle of the only loop.

and about the energy manager, for any thresholds with
`thermal_high_celsius <= thermal_critical_celsius`, any `u8` number of recovery
cycles and any set of samples:

- `HysteresisIsExact`: `DowngradeIsHeld`. `RecoveryInv` ties the code's flag and
  counter to the number of cool samples since the last hot one.
- `SleepIsAnnounced`: `SubscribersKnowSleep`. `SleepInv` says that what
  subscribers believe is right, or an event that will correct it is still to be
  published and none that will mislead them is.
- `ForcedSleepIsQuiet`: `SleepIsQuiet`.

The inductive invariants were checked by TLC on the runs' instances, and on
larger ones for the voice runtime (two slots, queues of two), before they were
proved. Most leaves are left to Zenon (`USE Zenon` at the head of each module),
whose cost does not grow with the length of a module; the leaves with arithmetic
or sequences name `SMT`.

Every invariant and action property of the runs has its theorem. Only
model-checked are the liveness properties (`AcceptedIsDispatched`,
`ShutdownReturns`, `StoppedThreadsEnd`, `MainReturns`,
`WakeResumes`, `PressureSheds`, `CalmRestores`, `DeviceSignalsArrive`,
`InputAnswered`, `SchedulerReturns`, `DueTaskRuns`): the prover does not reason
about fairness and ENABLED. Statements about recursively defined data would need
induction and stay with TLC as well.

## Disagreements

Checked by runs whose expected result is a violation:

- `EventBus_relay`: a relaying handler blocks on the full channel that only its
  own thread empties; shutdown never returns.
- `VoicePipeline_wake`: `enter_sleep` closes the transcription worker's queues
  and `wake` does not open them again; the threads run and every utterance is
  refused.

Observed while modelling, and visible by changing constants or dropping the
condition named. About tasks and commands:

- Of two overlapping transitions, the one that read first overwrites the
  ARCHIVED state of the other (`task_store.py:191`), though
  `docs/memory_model.md:14` says "Archived states are terminal unless explicitly
  authorized by policy."; `update_task` loses updates the same way
  (`task_store.py:175`). Drop the one-caller condition of `ArchivedIsFinal`.
- With a memory bridge and no storage bridge one caller moves an ARCHIVED task
  to COMPLETED, since DEMOTE_TO_DORMANT is granted from any state
  (`memory_authority.rs:106`) and storage permission is taken as given. The row
  keeps its `archived_at`. Drop `ArchivedGuarded` from `ArchivedIsFinal` or
  `ArchivedIsStamped`.
- With a bridge, a transition that storage denies stays in the transition log
  (`task_store.py:437`).
- `route` raises, with no result and no audit event, on an intent that is no
  mapping (the rejection reads its fields), on a number that overflows (an
  `OverflowError` is no `ValueError`), and from the challenge hook, which no
  handler surrounds: on an `alignment_score` of null, or when sqlite raises while
  the task is read. `OneAuditPerRoute` counts these as `escaped`.
- The audit trail and the transition log differ where storage denies what is
  already logged, and where two threads interleave between a handler's reads.
  Drop `Solo` or the memory condition of `AuditMatchesLog`.
- With two threads one key can be challenged twice (`challenge_logic.py:44`).

About the session:

- An unrecognised command of an authenticated owner is answered with
  "Access denied", because access is checked before the router would reject it.
- A spoken login never outlasts its cycle: the next utterance resolves the
  speaker afresh.
- The post action runs outside the `try` of the command; when it raises, the
  user reads "internal error" though the command has taken effect
  (`EvaluationRaises`).
- The shipped wiring evaluates suggestions on a constant context
  (`PostContext`) that matches no pattern, and recalibrates after every executed
  command from the same totals, so that one reported outcome moves the threshold
  again with each command until it meets the end of its range.
- `README.md:39` gives guests "strategy/advisory-only paths by policy";
  `is_allowed` denies a guest everything (`tier_policy.rs:43`).

About the supervisor and the bridge:

- The last handle's drop finds a strong count of two, because the dispatch
  thread owns a clone, and does not stop the thread, though `event_bus.rs:253`
  says "Only the final owner should drive shutdown."
- With `MaxHops = 255` the saturating hop count never exceeds the limit, and
  `RelayChainEnds` fails (`event_bus.rs:195`).
- An event that the bus refuses is reported to Python as forwarded; a mobile
  event without a correlation id gets a fresh one and passes deduplication on
  every retry.
- The connectors log an event as forwarded once its line is written
  (`mobile_connector.py:71`, `sync_daemon.py:76`) and check neither its size, nor
  the length of an id, nor the sign of a timestamp; a line that Rust refuses for
  one of these is dropped (`ipc.rs:315`, `ipc.rs:583`).
- `stop_all` says "Order is reverse registration to reduce dependency churn."
  (`service_registry.rs:97`) and walks a `HashMap`, in any order.
- A panicking action ends the scheduler's loop and poisons its mutex while
  `is_running()` stays true, so that `start()` does nothing; an overlap of
  `start` and `stop` can leave two loops or a `stop` that waits for ever; an
  action that calls `register_task` or `stop` waits for its own thread.

About the voice runtime:

- A worker that died keeps its slot: `start` takes another one and forgets the
  first (`transcription_worker.py:44`), so with few slots and enough deaths no
  worker can start. `OneWorkerPerSlot` counts these slots (`leaked`).
- The wake-word thread reads from the same buffer as `run_once` and, once the
  wake event is consumed, may take the chunk meant as the utterance.
- On a low battery the device check asks for the small model at every turn and a
  calm evaluation for the normal one, so the size flips; `CalmRestores` speaks
  about a good battery.
- With `model_downgrade_enabled` off, an evaluation that sees one pressure goes
  by the stored mode alone and may grow the model on a NORMAL that another thread
  stored from older readings (`resource_governor.py:162`).
- A `stop` of the governor that gives up joining forgets its thread; the next
  `start` clears the event the thread was to see, and two loops run
  (`resource_governor.py:205`).

## Not modelled

- Text: patterns of the intent parser, prompts, templates, explanations,
  reasons, log formatting. No property is about it.
- `main.rs`, `logging.rs`, bootstrap and configuration: wiring and I/O without a
  state of their own. Each module's constants stand for what they configure.
- `voice_auth.rs`, the archival policy and the capability detector: pure or
  stubs, and no modelled code calls them. Encryption of row contents: data that
  no property tells apart.
- Sensors, audio devices, model back ends and speech output: a sensor is a
  reading that changes at any time, a recogniser one of its outcomes.
- The text-level wake word, recogniser and audio stand-ins beyond what a session
  reads from them; the pull source of the audio stream and the transcription
  callback, which the container never sets.
- Bus handlers that call `shutdown` or panic: no handler of the repository does.
- Two Python callers waiting on the bridge at once: the code keeps no state they
  share, and an answer meant for another request is in the model already.
