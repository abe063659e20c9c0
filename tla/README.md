# Idle Game Engine: a verification development

TLA+ modules, TLC configurations and TLAPS proofs for the core of the Idle Game
Engine (`packages/core`): the deterministic simulation loop, the command queue
that feeds it, the save format that carries both, the server that puts commands
of remote clients into the queue, the event bus that the loop dispatches, and the
desktop shell's controller that runs the loop in a worker; and of what stands around
that core: the event stream to a client, the client's prediction, the resources with
their publish transport, and the automations, transforms and entities of a game.

Source paths below are relative to `packages/core/src/` unless they name
another package. `PROJECT.json` lists, for every definition that models code,
the lines it stands for; every property, the run that checks it; and every
theorem.

## 1. Inventory

### The parts and how they interact

The engine is one JavaScript thread per simulation. The host (a browser loop,
the desktop shell's worker) calls into the **runtime loop** with elapsed
milliseconds. The loop banks the time, takes whole steps out of it and runs
each: it captures the due commands from the **command queue**, hands them to
the **command dispatcher**, dispatches the **event bus**, ticks the registered
**systems** (production, automation, transforms, entities, progression) and
dispatches the bus after each of them. Handlers, subscribers and systems call back
into the runtime while it runs: they enqueue commands, credit time, publish and
subscribe. The **game facade** puts player commands into the queue, runs the
loop from an interval, and saves and loads the whole. The **command transport
server** stands before the queue when commands come over a network; the
**event frame exporter** and **broadcast** stand behind the bus when events go
over one; **client prediction** runs a second copy of the loop on the client
and corrects it by the server's snapshots. The **desktop shell** runs the loop
in a worker thread, driven by messages from the main process, which serves
the renderer and MCP tools.

| Component | State | Operations | Hard behaviour | What makes it correct | Module |
|---|---|---|---|---|---|
| Command queue (`command-queue.ts`, `command-authorization.ts`) | three lanes, sequence counter, size counter | enqueue, dequeueUpToStep, clear, exportForSave, restoreFromSave | overflow eviction, late timestamps, restore entry by entry | counter = contents ≤ maxSize; eviction by importance; deterministic order kept by a save | `QueueOperations`, `CommandQueue`, `CommandLanes` |
| Runtime loop and dispatcher (`internals.browser.ts`, `command-dispatcher.ts`) | two time banks, two step counters, outcomes, failures | tick, creditTime, drainCreditedBacklog, fastForward, drain of outcomes and failures | re-entrant handlers, promises, throwing subscribers, jumps | time conserved; budget kept; no command left behind, executed or answered twice; calls return | `IdleRuntime` |
| Game facade and save (`game.ts`, `game-runtime-wiring.ts`, `game-state-save.ts`) | interval handle, the runtime's state | enqueuePlayerCommand, start, stop, tick, serialize, hydrate, createGame | loading into an instance that has already run, or whose tick threw | saved time and saved commands survive | `GameSave` |
| Command transport server (`command-transport-server.ts`, `idempotency-registry.ts`) | registry of responses, pending request ids | handleEnvelope, purgeExpired, drainOutcomeResponses | retries, duplicates, expiry, two clients with one request id, late outcomes | at most one execution per ttl, own answers only | `CommandTransport` |
| Event bus (`events/event-bus.ts`) | per channel two buffers and a subscriber list; dispatch counter | beginTick, publish, dispatch, on, unsubscribe | nested publishing, subscribing during dispatch, overflow, throws | publish order, everyone hears everything once | `EventBus`, `EventQueue` |
| Event frames and broadcast (`events/runtime-event-frame.ts`, `events/event-broadcast.ts`) | pending frames and their start time, deduper ring | frame export, ingest, flush, apply, deduplication | several steps in a frame, coalescing, priority flushes, replayed and half-applied batches, a bounded ring | nothing lost, nothing heard twice, in order, in time | `EventBroadcast` |
| Simulation worker controller (`packages/shell-desktop/src/main.ts`, `sim-worker.ts`, `sim/sim-runtime.ts`) | ready/paused/failed flags, freeze depth, step waiters, pending requests; the worker's runtime | tick timer, step, pause, resume, save, load, dispose, worker messages | two processes, stale step counters, failure and disposal at any moment | every step call settles and is paid for, freezes restore what they found | `SimWorkerController` |
| Client prediction (`state-sync/prediction-manager.ts`) | checksum ring, pending commands, confirmed step | recordLocalCommand, recordPredictedStep, applyServerState | late, lost and reordered snapshots, overflow, a history that is too short | the client agrees with what was confirmed; prediction and its record agree | `ClientPrediction` |
| Automations (`automation-system.ts`, `automation-command-handlers.ts`) | enable flag, last fired step, cooldown, threshold memory, pending event triggers | tick, toggle, restore | cost paid before an enqueue that may fail, crossings during cooldowns, rebased restores | one firing per crossing and cooldown | `AutomationSystem` in `GameSystems` |
| Resources (`resource-state.ts`) | live fields, dirty list with positions and flags, two publish buffers | add, spend, rates, flags, tolerances, finalizeTick, publish, reset | every setter keeps the list by hand, against buffers that take turns | the dirty list misses nothing | `ResourceState` in `ResourcePublish` |
| Resource publish transport and pool (`resource-publish-transport.ts`, `transport-buffer-pool.ts`) | pool entries, leases, transports | build, lease, release, replace | leases returned late and in any order | no buffer has two holders, the reader has what was published | `ResourcePublish` |
| Production (`production-system.ts`) | fractional accumulators | tick | consumption scaled by what is there | nothing produced from nothing | planned |
| Transforms and missions (`transform-system.ts`, `transform-command-handlers.ts`) | batch queue, numbering, cooldowns, run counters, pending event triggers | run, trigger, deliver, stages, checkpoints, decisions, restore | decisions by player or timeout, failures between spend and queue, rescheduling during delivery | every mission is settled once, nothing due is late, a paused mission can be answered | `TransformSystem` in `GameSystems` |
| Entities (`entity-system.ts`, `entity-command-handlers.ts`) | instances, assignments, available count | create, destroy, assign, return, tick, restore | two systems release the same instance | an instance is away exactly while a mission holds it | `EntitySystem` in `GameSystems` |
| Progression and prestige (`progression/*`, `progression-coordinator.ts`, `prestige-reset.ts`) | levels, purchases, confirmation tokens | purchase, apply prestige | reset across managers, repeated tokens | a token is used once | planned in part |
| Offline progress (`offline-progress*.ts`) | none | limits, totals, catch-up | rounding, limits | totals bounded, remainder handled | time part in `IdleRuntime`; limits planned |
| State sync capture/compare/restore, recorder and replay, RNG, snapshots | copies of the whole state | | whole-state equality | | not modelled: structural copies, out of a model's reach |
| Diagnostics, telemetry | timelines, counters | | | observation only | not modelled |
| Content schema and compiler, controls, renderers, sample content, tools | | | sequential validation, file and GPU work | | not modelled |

The properties each modelled component must have were chosen from the list of
hazards in `PROJECT.json` ("hazards"), which names for each the source line where
it bites; those without a property are work for the planned modules.

## 2. Modules

`QueueOperations` is shared by three specifications, so that the loop, the save
and the server act on the same queue. The three systems of a game are modules of
their own, composed by `GameSystems`, which has the order of a step.

```
QueueOperations            EventQueue (abstract)
  |-- CommandQueue  <=refines=  CommandLanes        ^ refines
  |-- IdleRuntime                              EventBus
  |     `-- GameSave
  `-- CommandTransport

EntitySystem                               ResourceState
  |-- AutomationSystem  --.                   `-- ResourcePublish
  `-- TransformSystem  ---`-- GameSystems

Selections
  |-- EventBus, EventBroadcast, ClientPrediction (each on its own)

SimWorkerController (on its own)
```

The proofs about a module stand in a module beside it, named with `_proofs`
(section 4). Specifications that need the same lemmas share one:
`CommandTransport_proofs` has the proofs about `CommandQueue` too (both rest on
`QueueOperations_proofs`), `EventsAndSync_proofs` those about `EventBus`,
`EventBroadcast` and `ClientPrediction` (all three on what `Select` keeps).

### Selections

`Select`, the filter of an array by a set: the loop as a recursive function of the
number of elements read. The bus compacts its subscribers with it, the broadcast drops
event types, the client drops confirmed commands.

### QueueOperations

The queue as three variables: `entries`, a set of records stamped with
priority, timestamp, sequence and step; `nextSequence`; and `totalSize`, the
counter the code adjusts by hand. `Before` is the order within a lane (timestamp, then sequence),
`Precedes` the order in which entries are handed out (priority first).
`Enqueue` has the three outcomes of the code: refused by authorization, room,
or full; a full queue evicts `IsVictim`, the earliest entry of the lowest
non-empty lane that is not more important than the newcomer, or refuses.
`DequeueUpToStep` has the code's early return on the counter.

### CommandQueue

The queue with its callers, and saving. `exportForSave` keeps
the serializable entries; `restoreFromSave` is broken into `RestoreBegin`,
`RestoreNext` (each saved entry goes through `Enqueue` with its step rebased and
clamped at 0) and `RestoreEnd`, so that the properties also
hold in the middle of the loop. The ghost-like variables `saved`, `restoring`,
`rebase` and `inRestore` are the loop's locals and the host's save.

Properties: `SizeInv`, the counter is the number of entries and never above
`maxSize`; `EvictionRespectsPriority`, no step drops an entry more important
than one it keeps or admits; `RestoreKeepsOrder`, the restored commands keep
the saved order among each other.

### CommandLanes

The same operations as the code performs them: arrays per priority, the binary
search (`InsertionIndex`), splice, shift, and the compaction loop of
dequeueUpToStep with its write index (`Compacted`). The loops are recursive
functions of the turn: the range of the search after each turn, the array and the write index
after each read, what has been pushed so far (`Selected`). `LanesInOrder` is
its own invariant (lanes sorted, hence drains and saves in order); `ImplementsCommandQueue` states that
the contents of the lanes (`Queued`) behave as the entries of `CommandQueue`.

### IdleRuntime

The fixed-step loop. One JavaScript call is broken at every point where foreign
code runs. `pc` says where the call is:

```
idle --Tick, DrainCreditedBacklog--> drain --BeginBatch--> capture
drain --Return--> idle
capture --CaptureCommands--> commands --Execute.../Skip...--> commands
commands --DispatchAfterCommands--> systems --TickSystem--> systems
systems --CompleteStep--> capture (next step of the batch) or drain
commands or systems --DispatchThrows--> idle
```

The banks are `hostMs` and `creditedMs` in whole milliseconds. `Consume` takes
a batch's time before its steps run, host time first; `source` says whether the
call may use the host's bank. Commands may be enqueued at any point
(`EnqueueStamped`), with any step from the next executable one on; handlers may
credit time; a handler may succeed, fail, be missing or return a promise that
settles at any later moment, between calls. `DispatchThrows` is a subscriber that
throws: diagnostics rethrow, tick() throws, the rest of the batch is
given up (`lostSteps` counts it) and the next tick runs the step again.
`supplied`, `answered`, `stepLimit`, `lostSteps` and `jumpSequence` are ghosts.

Properties: `TimeConserved`, `NoStaleCommand`, `InOnePlace`,
`CallRunsItsBudget`, `CallsReturn` (liveness), each stated in the module.

### GameSave

`IdleRuntime` with the facade: `EnqueuePlayerCommand` stamps the next
executable step, `Serialize` puts step, banks and queue into a slot, `Hydrate`
follows the code's order (fast-forward to the saved step, restore the queue,
restore the banks), `HydrateThrows` is a load that fails once the jump is made,
`CreateGame` replaces the instance while the slot survives.
The ghosts travel with the save, so that "all the time the saved game was ever
handed" keeps its meaning in the game that loads it.

`SavedCommandsStillRun` and `SavedTimeSurvives` hold unless the jump of a
hydrate went past the saved step, which it may (section 3), or past the commands of
a game the hydrate then failed to replace (`overshot`). `StampNeverBehind` relates the
two step counters between calls.

### CommandTransport

The server, its registry and its pending table over `QueueOperations`, with the
runtime reduced to `RunStep`: all due commands run, some of their handlers
return promises. There is no channel: every envelope may arrive at every
moment, which covers loss, duplication, reordering, timeouts and every client
retry. A clock lets records expire. `admitted`, `dropped` and `overdue` are
ghosts. Properties: `AtMostOncePerTtl`; `OwnAnswerUnlessOverdue`;
`HolderCanBeAnswered`, a request id is in use exactly while its holder's response
is on record, and the command of an accepted holder is still on its way to an
outcome.

### EventBus and EventQueue

`EventBus` has the two buffers of each channel, the merge by `dispatchOrder`
(`IsNext`), the iteration over a subscriber list that may change under it, the
two kinds of overflow and the reset rules of a batch. A dispatch is broken at every
subscriber. `EventQueue` is the promise of the documentation, a single queue;
the refinement maps the merged undelivered events to it. `HeardExactlyOnce`
is about single subscribers.

### SimWorkerController

The main process and the worker of the desktop shell, with a message queue each
way (`inbox` to the worker, `outbox` from it). An action is one task of an event
loop with the microtasks that follow from it: the answer to a request, the
`finally` of the freezes around it and the tool's continuation are one step,
while the read and the write of the save file are steps of their own.

```
tool:  none --Save--> serializing --OnSerialized--> writing --SaveWritten--> none
       none --Load--> reading --SaveRead--> hydrating --OnHydrated--> none
       reading --ReadFails--> none;  serializing, hydrating --OnRequestError--> none
```

`freezes` holds what each `runWhileCommandIngressFrozen` under way found in
`isPaused`; its length is the depth counter. The worker's loop is reduced to its next
step and the time it has banked below a step; `Extra` are the whole steps that
credited offline time adds to a tick. Control and input events are stamped with the
step main takes for the next (`SendEvent`); callers of `enqueueCommands` choose steps
from there on, as the `sim.enqueue` tool lets them (`Ahead`, `mcp/sim-tools.ts:121`).
The worker may refuse a request, throw in a tick or die at any moment; after a failure
nobody listens to it, so `alive` also ends. `asked` is a ghost.

Properties: `PauseAsAsked` (with the timer), `NoStepDuringLoad`,
`TargetsPaidFor`, `HeldAsAsked` (a command waits in the worker for no more steps
than its sender looked ahead), and the liveness property `CallsSettle` of
step calls, saves and loads, each stated in the module.

### EventBroadcast

The path of an event from the server's outbound buffers to a client's handlers.
`ServerFrame` is one `runTickBatch` of up to `RunsPerFrame` steps, the frame
built of it (`RuntimeFrame`, channel by channel; `ByDispatchOrder`, the sort that
puts it back) and `ingestFrame` with its four outcomes: nothing left after the
filter, priority flush, flush by size, pending. `Coalesced` is the compaction of a
batch with its three modes. On the client, `Offer` is the deduper's test and
record and the publication of one event; `Deliver` applies a batch,
`DeliverThrows` gives it up at any event or handler, `DeliverDamaged` fails a
checksum in the middle. The connection keeps order and may repeat: a batch not
fully applied is the next to be delivered again. The 32-bit checksum is taken to
tell event lists apart.

Properties: `NothingLost`, `HeardOnce`, `HeardInOrder`, `DelayKept`. `NothingLost` says
that the client's deduper has recorded each event or one that stands for it; a handler
has been given it (`handed`) only where no application threw, for the deduper
keeps out of the retry what the bus had not dispatched. `HeardInOrder` compares
events of one step, and events of different frames; events that one frame holds of
several steps do change places, which `HeardAsPublished` shows (section 3). They name an event
by step, dispatch order and type, as the deduper does; two steps of one batch
may publish events with the same name, and then only one of them is heard
(section 3).

### ClientPrediction

Two runtimes that execute commands, reduced to which command ran at which steps
and what is queued, and the manager in between: the ring of checksums with its
pruning, pending commands, the overflow flag, the confirmed step. The server
receives commands in any order, stamps them with its own step, and takes snapshots;
each snapshot may reach the client at any later time, again, or never.
`applyServerState` is six actions, one per outcome: `Ignore` (stale),
`ResyncDisabled`, `ResyncOverflow`, `ResyncUnrecorded`, `Confirm`, `RollBack`;
the last four replay what is pending in a restored runtime (`Reconcile`).

Properties: `AgreesWithConfirmed`, `HistoryIsOurs`, `NothingUntracked`.

### ResourceState and ResourcePublish

`ResourceState` has one record of fields per resource, the dirty list as the
code keeps it (`scratch`, the places in it, the flags) and the two publish
buffers. A setter writes a field and then puts the index on the list or
takes it off by comparing with the buffer readers see (`Write`, `markDirty`,
`unmarkIfClean`), one call after the other as in the code. `PublishedBuffer` is
the standby buffer catching up with the publish before and taking the live values of
what is still dirty. Numbers are integers in a unit coarser than the default
tolerance; a resource may have a tolerance of its own of whole units.

`ResourcePublish` adds the buffer pool (`acquire` of the smallest entry that is
large enough, `release` with or without a replacement), transports built from
the leased arrays, and a reader that applies them in order but as late as it likes,
from the shared arrays, and returns them in any order. `PublishUnsent` is a
publish that clears the dirty list with no transport to carry it: five parts of
the engine publish for themselves (`progression/prestige-manager.ts:472`,
`production-system.ts:1409`, `progression.ts:506`,
`progression/resource-manager.ts:89`, `state-sync/restore.ts:170`), and the pool throws
on a dirty list longer than `maxDirtyCount` only after it was cleared. What such a
publish took is in the ghost `missed`.

Properties: `DirtyListMissesNothing`, `ReaderIsCurrent`, `OneHolder`. The
invariant `NoStaleDelta` does not hold (section 3).

### EntitySystem, AutomationSystem, TransformSystem, GameSystems

`EntitySystem` has tracked instances (at home, away with an assignment,
destroyed), the available count the code adjusts beside them, and the four
paths on which an instance comes home. `AutomationSystem` is the tick of one
automation: disabled, in cooldown, not triggered, unable to pay, or firing, each
with what it does to the memory of a threshold; interval, threshold, empty-queue and
event triggers. `TransformSystem` has the queue of outstanding batches with its
insertion by step and sequence number; instant, batch and mission transforms,
started by command, by condition or by an automation; and the resolution of
mission stages: checkpoints, next stages, decisions by the player
(`makeMissionDecision`) or by timeout (`DecidesByTimeout`), and failures.

`GameSystems` composes them in the order the game wires them, with the step's phases:

```
idle --a command--> commands;  idle, commands --RunQueued--> automation
automation --the last one--> deliver --nothing due--> trigger
trigger --the last one--> deliver again --EntityTick--> idle
```

Each automation, transform and due batch is one action at its turn. `Reload` saves
between steps and loads the save into a new instance, at step 0 or fast-forwarded
to the saved step, with every step of the state rebased. `settled`, `started`,
`byHand`, `dipped` and `reloaded` are ghosts.

Properties: `CrewsHeld` (an instance is away exactly while one outstanding batch
has it, unless an entity command took it out of that order), `SettledOnce`,
`DueIsDelivered`, `FiresAreEarned`, and `PausedAnsweredUnlessReloaded`.

The abstractions: one resource; everything is unlocked; formulas, stats,
experience, pseudo-random compensation and critical amounts are one unit or a
choice (a mission's success, a plan that turns out not finite); option conditions
are an amount the option needs; the target command of an automation collects
one unit, and the queue may refuse it (`QueueCapacity`); instance ids are not
used again. Stages form no cycle (`StagesAcyclic`): the content schema refuses others.

## 3. Runs

All bounds are constants of the modules. Deadlock checking is off in every run
but `game_systems`, whose games can always be saved and loaded: elsewhere the clock,
the step and the sequence numbers are bounded, so the models stop.

| Run | Question | Instance and why it is enough |
|---|---|---|
| `command_queue` | counter, eviction, order of a restored save | 2 places, 4 sequence numbers, 2 timestamps, 2 steps, an open and a restricted command type, a payload that does not serialize: a queue can be filled, overflow into each lane, be drained in part, saved, refilled and restored |
| `command_lanes` | arrays implement the set | 3 places, 4 sequence numbers, 2 timestamps, 2 steps: binary searches over 0 to 3 elements with ties, compaction that keeps a middle element |
| `idle_runtime` | time, budget, commands, termination | 2 ms steps, 2 steps per frame, deltas of 3 and 4 ms up to 8 ms: odd remainders in both banks, batches of 1 and 2 steps, time credited during a call, a throw in either step of a batch |
| `game_save` | what a save carries | 1 step per frame and 3 ms deltas: a tick leaves a whole step behind; 3 steps, so that a save can be older, equal and newer than the instance |
| `transport` | executions, holds, answers | two clients with the same request id, ttl 2, clock to 5: two expiries; a queue of one, so that the second command is refused or evicts; 4 commands |
| `event_bus` | order, completeness, uniqueness of delivery | 2 channels of capacity 2, 3 events per tick, 3 subscriptions, 2 steps in one or two batches |
| `sim_worker` | do freezes, step calls, saves and loads survive every interleaving and failure | 2 ms steps, batches of 2, timer ticks of 1 and 3 ms, step calls of 1 and 3 steps (one batch and two, the last not full), 2 messages under way, ticks up to step 2: a step call behind a timer tick, two step calls at once, saves older and newer than the simulation, a load back to an earlier step with commands after it, stamped for the next step or 2 later |
| `event_broadcast` | is every event heard once, in order, in time | 3 frames of 1 or 2 steps, 2 events each and 4 in all, of 2 types; a deduper of 3 keys, so that it forgets; batches of 3 frames or 4 events; delay 2; the three coalesce modes, a filter, a priority type; one batch replayed, one application that throws or is damaged, or one deduper reset |
| `client_prediction` | does the client stay with the server | 2 commands, pending buffer of 1, so that it overflows; 3 steps and a history of 2, so that a snapshot falls out of it; every subset of snapshots, in any order, repeated |
| `resource_publish` | dirty list, buffers, reader | 2 resources, one with a tolerance of one unit, 3 calls, 2 publishes: an index can be put on the list, taken off, and put on again across the change of buffers, and a reader can hold the first transport while the second is built |
| `resource_stale_delta` | "clean state never exposes a stale delta" | the same with 2 calls and 3 publishes, which it takes for a buffer to come round again; violated |
| `game_systems` | missions, crews, automations | 2 steps, 2 instances (interchangeable), a staged expedition with zero-length stages, a checkpoint in two stages, and a decision with three options (home, a stage of one step that leads on, a stage of none) and a timeout of one step; an errand on an automation with a threshold and a cooldown; a batch on an automation with an event; an instant transform on a condition; 2 missions in all; saves loaded at step 0 or at the saved step. With 3 steps, and with 3 missions, TLC finds no error either (5 million states each) |

Not exercised by the `game_systems` instance though modelled: threshold comparators other than
"at least" (with "below" TLC finds no error either), a manual transform that
is not a mission, a triggered staged mission whose plan fails, interval and empty-queue
triggers of automations.

Every property of a passing run has a mutant in `PROJECT.json`: a plausible bug
in one definition (they stand beside the definition, marked "Wrong on
purpose") under which TLC finds it violated.

### Fairness

`IdleRuntime` assumes weak fairness of `Run` only: what a call under way does
by itself. The code has no scheduler of its own: a JavaScript call runs to its
end unless a handler or a system loops forever, which the engine does not
guard against. Nothing is assumed of callers, promises or the host.

`SimWorkerController` assumes weak fairness of the two event loops (`Work`: the
worker takes its next message; `Hear`: the main process does) and of the file
system (a write ends, a read ends one way or the other). Both are plain event
loops that go on while their process lives. A worker that dies is not scheduled,
but Node reports its exit, which `Hear` delivers. Nothing is assumed of the timer,
the tools, or of the order of their calls. No other specification has liveness
properties: what they would state depends on a network, a reader or a player
that comes back, of which the code assumes nothing.

### Findings

- `NoStaleDelta`, shown by `resource_stale_delta` (`resource-state.ts:1103`): the
  tick delta of a published resource is zeroed only where one of two lists has it, in
  the buffer of the publish before last; a resource that gains 1 and is then left
  alone shows a tick delta of 1, 0 and 1 again in three publishes.

### Other differences between documents and code

Met while modelling; the models have what the code does, and the properties are
stated accordingly. For those marked \* TLC finds a behaviour of these modules as soon
as the documented statement is put as an invariant.

- \* `hydrate` may land past the saved step (`game.ts:244`): `fastForward` also jumps the
  backlog the instance already holds. Restored commands are then skipped as step
  mismatches, and the jumped time is missing from the restored banks (`game_save`,
  after a load the next step is the saved one). When the save then turns out not to fit the
  content (`:247`), the jump is not undone (`HydrateThrows`).
- \* `handleEnvelope` answers "accepted" for a command the queue refused
  (`command-transport-server.ts:214`), and an outcome that arrives after its ttl may be
  credited to another client (`:249`); the transport design
  (`docs/runtime-command-transport-design-issue-545.md:110-111`) has the server
  stamp timestamps and clamp priorities, the code copies them (`:207`); its line 124 reserves
  REQUEST_ID_IN_USE for pending requests, while a rejected request keeps its id
  until its ttl ends (`:541`).
- \* The steps of one batch share the capacity of the outbound buffers
  (`events/event-bus.ts:602`): the same game overflows in catch-up and not frame by frame.
  The event design (`docs/runtime-event-pubsub-design.md`) says at line 102 that
  subscriptions change at tick boundaries, while `on` may be called at any time and
  takes effect at once, and at lines 112 and 278 that an overflow rewinds the tick,
  while the tick is completed with publishing blocked.
- \* `sim.step` (`packages/shell-desktop/src/main.ts:1197`) counts its steps from the
  last frame it has heard; with a timer tick under way it completes early, and the
  simulation moves past the step it reports.
- \* A frame that holds several steps of a batch is sorted by `dispatchOrder`
  (`events/event-broadcast.ts:66`), which starts at 0 in each of them: a client hears the
  first event of the second step before the second event of the first, where
  `docs/runtime-event-broadcast-design-issue-547.md:23` asks to "preserve existing event
  ordering semantics" and `docs/runtime-event-bus-decisions.md:176` speaks of "strict
  FIFO ordering". `HeardAsPublished` of `EventBroadcast` is violated in three states, by
  one frame of two steps; hence `HeardInOrder`.
- \* The deduper's key (`events/event-broadcast.ts:375`) is not unique to an event when a
  frame holds several steps, each with dispatch orders from 0: an event that was
  never heard can be skipped as a replay, where `:353` speaks of replayed events (in
  `event_broadcast`, every skipped event is in the log).
- \* `applyServerState` drops the commands of the confirmed step
  (`state-sync/prediction-manager.ts:350`), though a runtime that has reached a step has not
  executed the commands of it yet; `getPendingCommands` (`:39`) speaks of
  commands "still awaiting confirmation" (in `client_prediction`, a command issued is
  pending until a snapshot has it, unless overflown).
- \* A restore keeps the ids of batches and restarts their numbering at the number
  of batches (`transform-system.ts:499`), so a later mission can get the id of a restored
  one, and a decision for one finds the other. `PausedCanBeAnswered` of `GameSystems` is
  violated with three missions (`MaxStarted` 3); hence
  `PausedAnsweredUnlessReloaded`.
- The plan of a staged mission is built after its inputs are spent
  (`transform-system.ts:3225`); when it fails they are gone, where
  `docs/content-dsl-usage-guidelines.md:1372` has inputs validated "before any spend to
  preserve atomicity" (`FailsToStart`).
- Pending event triggers of transforms and automations are not saved, where
  `docs/content-dsl-usage-guidelines.md:1330-1332` has a pending activation "retained until
  the transform succeeds" (`RestoreTransforms`).
- An instance that a command has recalled and sent on a second mission is sent home
  by the end of the first (`transform-system.ts:1462` looks at the instance only).
- `docs/automation-authoring-guide.md:1128` says that a resource already above a threshold
  gives no crossing; a new automation's memory of the threshold is empty, so its
  first evaluation fires (`ThresholdCrossing`).
- The second release of a lease frees the buffer of whoever has leased it since
  (`transport-buffer-pool.ts:181`); the reader of `ResourcePublish` releases each
  transport once.
- `resetPerTickAccumulators` zeroes the net rate, which
  `docs/resource-state-storage-design.md:194` has it keep.

## 4. Proofs

| Theorem | Says, for every value of the constants |
|---|---|
| `CommandTransport_proofs!TypeCorrect` | the queue's variables keep their types, save and restore included |
| `CommandTransport_proofs!SizeCorrect` | the size counter is the number of entries, at most `maxSize` |
| `CommandTransport_proofs!EvictionCorrect` | an overflow drops what is least important |
| `CommandTransport_proofs!RestoreCorrect` | a restore under way has lost nothing it may queue and keeps the saved order |
| `CommandLanes_proofs!LanesCorrect` | the arrays keep the order their binary search relies on; drains and saves are in execution order |
| `CommandLanes_proofs!RefinementCorrect` | the arrays implement `CommandQueue` |
| `GameSave_proofs!TypeCorrect` | no bank is overdrawn, no budget negative |
| `GameSave_proofs!TimeCorrect` | time is conserved |
| `GameSave_proofs!FreshCorrect` | no queued command is left behind the step counter, unless jumped over |
| `GameSave_proofs!OnePlaceCorrect` | no command is executed or answered twice |
| `GameSave_proofs!BudgetCorrect` | a call keeps to its budget and returns early only when the bank is below a step |
| `GameSave_proofs!SavedCommandsCorrect` | the commands of a loaded save are still to run, unless the jump went past the saved step, or past them in a failed load |
| `GameSave_proofs!SavedTimeCorrect` | a loaded game has all the time the saved one was handed, unless so |
| `GameSave_proofs!StampCorrect` | player commands are never stamped with a step that is over |
| `GameSave_proofs!LoadedOnePlaceCorrect` | no command is executed or answered twice, loads and new instances included |
| `CommandTransport_proofs!OncePerTtlCorrect` | two commands of one request enter the queue a ttl apart |
| `CommandTransport_proofs!OwnAnswerCorrect` | nobody gets the outcome of another's command, unless an outcome took a ttl |
| `CommandTransport_proofs!HolderCorrect` | a request id in use has its response on record, and an outcome to come |
| `SimWorkerController_proofs!PauseCorrect` | pause flag and timer are as the tools asked, through every freeze |
| `SimWorkerController_proofs!LoadInterruptsSteps` | no step call waits for a simulation that a load replaces |
| `SimWorkerController_proofs!HeldAsAskedCorrect` | the worker holds no command back longer than its sender looked ahead |
| `SimWorkerController_proofs!TargetsCorrect` | the steps a step call waits for are run or paid for in whole |
| `ResourcePublish_proofs!DirtyListCorrect` | the dirty list agrees with its map and flags, and misses no change beyond the tolerance |
| `ResourcePublish_proofs!HolderCorrect` | a pool entry is held by one transport, or lies once on its list |
| `ResourcePublish_proofs!ReaderCorrect` | a reader that has taken every transport is up to date, but for what was published without one |
| `GameSystems_proofs!EarnedCorrect` | automations fire once per cooldown and per crossing |
| `GameSystems_proofs!DueCorrect` | no batch is delivered late |
| `GameSystems_proofs!SettledCorrect` | a mission is under way in one batch or was completed once |
| `GameSystems_proofs!CrewsCorrect` | an instance is away exactly while one batch has it |
| `GameSystems_proofs!AnsweredCorrect` | a decision finds its mission, unless the game was loaded |
| `EventsAndSync_proofs!HeardExactlyOnceCorrect` | a completed step has handed each event to each subscriber, and none twice |
| `EventsAndSync_proofs!EventQueueCorrect` | the buffers of all channels implement `EventQueue` |
| `EventsAndSync_proofs!NothingLostCorrect` | a client that has applied every batch has recorded every event, or one that stands for it, and where nothing threw has handed it on |
| `EventsAndSync_proofs!HeardOnceCorrect` | an event is heard again only when the deduper has forgotten it |
| `EventsAndSync_proofs!HeardInOrderCorrect` | events of one step, or of different frames, are first heard in the order of publication |
| `EventsAndSync_proofs!DelayCorrect` | no frame outstays the delay in the batcher |
| `EventsAndSync_proofs!AgreesCorrect` | the client's runtime agrees with the snapshot it reconciled with last |
| `EventsAndSync_proofs!HistoryCorrect` | no checksum of a timeline given up stays in the history |
| `EventsAndSync_proofs!TrackedCorrect` | what is pending is predicted, and what is predicted is accounted for |

The assumptions are the named `ASSUME`s of the modules (`QueueAssumption`,
`LanesAssumption`, `RuntimeAssumption`, `TransportAssumption`, `ControllerAssumption`,
`ResourceAssumption`, `PublishAssumption`, `BusAssumption`, `BroadcastAssumption`,
`PredictionAssumption`, those of the three game systems and of
`GameSystems`): constants have their types, the step size is positive, the queue has at
least one place, automations and transforms are what the content schema accepts, steps
stay below `MAX_SAFE_INTEGER`. TLC evaluates them in the runs.

### Why the invariants need more

None of them is inductive alone.

**The queue.** `SizeInv` needs that sequence numbers lie below the counter (else an
insertion might not add an element). `QueueOperations_proofs` has what single
operations do: each of `Enqueue`, `DequeueUpToStep` and `Clear` preserves
`WellFormed`, an `Enqueue` that removes something removes the victim, and `Precedes` is a total
order once sequence numbers are unique. `RestoreKeepsOrder` needs `RestoreInv`: what is
queued and what is still to come fit in the queue together, so that no restored command
evicts another; a payload names one command; and every requeued entry has the rank of the saved
entry it was made of, before everything still to come.

**The arrays.** `LanesInv` has each lane in order, with its own priority and numbers
below the counter, and everything drained, saved or unread in execution order. What a
loop computes is proved by induction on its turns (`SetInduction`; the library's
induction theorems take an operator and cannot be used, this one takes the set of the
numbers a claim holds for). `SearchFinds`: the range the search halves has only earlier entries
in front of it and none behind. `CompactedPicks`: behind the write index
stands what was picked of the elements read, from the read index on the array is as it was.
`Picked` says how an array is a part of another in the same order, and gives both the contents
and the order of it. Then each operation of the arrays is one of the
specification (`EnqueueMaps`, `DequeueMaps`, `ClearMaps`, `ExportMaps`, `HeadIsNext`); a
`dequeueUpToStep` that returns early is a stuttering step.

**The loop.** `LoopInv` adds to the types: `Phase`, which ties the program counter to the
steps paid for, the batch and the two step counters; `Budgeted`, that steps run, paid for
and still allowed add up to the limit of the call; and `OnePlace`, with the uniqueness of
sequence numbers among live commands. `IInv` is `LoopInv` with `TimeConserved` and `Fresh`
(`NoStaleCommand` sharpened to "after the capture not even the current step is left in the
queue", without which a completed step would leave a command behind). They are
separate because a load may break the last two and never the first.

**The save.** `GameInv` is `LoopInv`, the accounts of an instance whose jump has not
overshot (`History`), and a slot that holds a sound save (`SoundSave`): finite, numbered
uniquely, no larger than the queue, its accounts balanced. The restored entries are as many as
the saved ones because their new numbers are their ranks, each used once.

**The transport.** `TransportInv` numbers the commands (`Numbered`): one admission for each
command queued, running or among the outcomes. While that admission is younger than
a ttl, its key is on record (`Remembered`) and its request id is held by it
(`HeldWhileYoung`). A second command of the same request therefore waits for a purge,
and a purge for the ttl.

**The controller.** `IInv` ties the flags to the outermost freeze (`Flags`), the one request
or answer under way to the tool that waits for it (`Requests`), and the steps in both
channels to the worker's own (`Stamps`): a hydrate that goes back is behind every command in
the inbox, and its answer is still to come for whoever believes in a later step. `Paid` bounds every target
by the step the worker reaches with what it has been sent; it needs that batches carry
the steps of a call in full (`BatchesSum`), that sums over a channel split where messages are
put and taken (`TickMsConcat`, `TickMsTail`), and that a bank keeps the remainder of a division
(`DivisionSplits`).

**The resources.** `ResourceInv` adds to the property that the standby buffer is behind the
readers' one only where the last publish listed something (`Buffers`): a publish brings it up to
date from that list alone. A call writes several fields and reconciles each, so the state
is carried through them as a value, and each write is shown to restore the list, the map
and the flags, whether it marks the index (`Listed`), takes it off by moving the last one into its
place (`Unlisted`) or leaves it; while fields are being written the index itself is exempt
(`SoundBut`). `finalizeTick` and the filter of a publish are loops, by `SetInduction`.

**The publish transport.** `PublishInv` adds to `ResourceInv` three parts. `TransportsKept` is
`OneHolder` with the pool it needs: the lists hold entries of their kind that nobody
holds, each once (`PoolSound`), which `acquire` and `release` preserve whatever the capacities
(`AcquireSound`, `ReleaseSound`), and so do the loops over the arrays of a transport.
`Buffered`: the arrays of a pending transport still agree on its delta, for a buffer is only
written by who leases it. `News`: what was last published of a resource has reached the
reader, or is in the last pending transport that carries the resource.

**The game.** `GameInv` has the clocks of each automation (`Clocked`), the order of the
batches and what an entry may be (`BatchesKept`), that no two outstanding entries share a
mission, a crew member or, before a load, an id (`NoClash`), what became of each mission
(`Accounted`), where each instance is (`CrewsOut`), the count (`Counted`), and that nothing is
late between ticks (`NothingLate`). All but the clocks speak of the entries of all
transforms, whose places change with every insertion and removal. So each step is
first shown to carry the entries over, with one added, one moved or one dropped
(`AddStep`, `MoveStep`, `DropStep`), and each conjunct is then shown for that form.

**Select.** Its loop, and every other loop written as a recursive function, exists
and has the values its definition says by `Recursion`, proved from `SetInduction`. `SelectOrder`:
what is selected are elements of the array that belong to the set, all of them, in the
order of the array. `SelectSkips`: appended elements that do not belong make no
difference.

**The bus.** `BusInv` says where the cursors may stand (`CursorsFit`), that buffers are
numbered in order, no two channels share a number, and what was handed out last is before
all that waits (`BuffersInOrder`). The property speaks of a completed step only.
`HeardSoFar` extends it to every moment of the step: an event of this tick waits in its
buffer or has been heard by all, and the one being handed out has been heard by
those before the position. For "none twice", `DeliveredOnce` puts whoever has heard the
current event before the position, and `SubscriptionsNamed` keeps positions
and names in the same order. That needs unsubscribing to leave the record in its place
until the next beginTick: spliced out at once, it would move the position past a
subscriber that has not been called.

**The bus as a queue.** `Merged` is a choice, so it has to be shown that there is
something to choose (`ListExists`, by induction on the bound of the set) and only one
(`ListsOne`): two increasing lists of the same set are equal. Then a publish appends
(`MergedAppend`: the new number is above all that wait, by `BuffersInOrder`) and
`findNextDispatchCandidate`, which looks at the heads of the channels only, takes the
head of the merged list (`UndeliveredTaken`, `MergedHead`). A dispatch begins and
ends as the queue's does, a subscriber that throws abandons it, a new tick resets it,
and everything else leaves the queue alone.

**The broadcast.** `BroadcastInv` has a part for each side. The server's (`ServerInv`):
frames are sent in the order of their steps, those pending behind them; each event
published and not filtered out is, or one that stands for it, in a batch sent or a frame
pending (`AllCovered`), through each of the flushes and the three coalesce modes; no
pending frame is older than the batcher thinks (`PendingNew`). The client's (`ClientInv`):
only the first event of a key is ever heard, and only of batches received or next
(`HeardLeads`); of no batch a later event and not an earlier one (`HeardFromStart`), which
carries the order over batches given up in the middle and applied again; the received ones in full
(`HeardBatches`); and the ring holds the keys of the last entries of the log
(`RingIsLast`), which turns its capacity into a distance in the log.
`HandedInv`, proved beside them, has every entry of the log handed on until a batch is given up.
The client's part is about a log, a ring and a number of batches as values, so that it can
be carried through the loop over a batch, event by event.

**The prediction.** `PredictionInv` adds to the three properties that a runtime has
executed commands before its present step only and a history entry holds the
runtime of its step (both in `PredictionTypes`), that the client has reached every step it
has recorded or seen confirmed (`Reached`), that all commands known anywhere were issued,
pending ones at their step (`OnlyIssued`), and that since each recorded checksum every command of
the client's is still pending, confirmed or in it (`HistoryTracks`): a snapshot
that matches an old checksum confirms, and what the client has predicted since must not be
lost to it. A replay is a loop of ticks over a runtime and a history; `Replays` says
what holds after each turn.

### Model-checked only

Liveness: `CallsReturn` and `CallsSettle` (out of the prover's reach). Every other
property of a passing run is stated by a theorem.

## 5. What the models leave out

- Milliseconds are integers: the epsilon with which the accumulator rounds
  fractions is not modelled.
- A tick called from inside a handler or a subscriber: the code does not guard
  against it and no caller does it.
- A host clock that runs backwards. The transport server takes its time from
  `Date.now`; the model's clock only advances.
- Formatting, telemetry, diagnostics, deep freezing and cloning.
- Envelopes whose identifiers do not validate: they are answered without
  touching any state but the purge.
- Restart of the transport server, whose registry is in memory.
- Resources: record mode, save hydration, infinite capacities, and the clears only
  tests call; of the transport, transfer mode (the arrays change their owner).
- Missions that do not come back (`returnOnComplete` false), continuous transforms
  (which the code refuses), and event triggers other than those of automations.
- Event payloads, and what a handler of the client does with them.
- A replay on the client that runs out of time and is cut off, and a prediction manager
  configured without replay (`state-sync/prediction-manager.ts:498-517`), which resets
  or clears its history and leaves the runtimes to the application.
- In the desktop shell: the runtime's own queue in the worker (what becomes of a command
  once the worker has taken it is `IdleRuntime`'s), a second window (a controller after the first was
  disposed of), a save whose worker answers with a state that cannot be written, and
  the clamp of a tick to 50 steps, which timer deltas of at most 250 ms and
  batches of 50 steps never reach (`ControllerAssumption`).

Some properties exempt what the code is known to do, each by a ghost of that name or a
hypothesis, and so say nothing of it: `overshot` (a load whose jump went too far),
`dropped` (a command refused or evicted after its envelope was accepted), `missed`
(changes that a publish without a transport took), `byHand` (instances that a command
recalled or sent), `reloaded` (batch ids after a restore), `OneBatch` (the order of the
steps in one frame). Section 3 lists what happens in these cases.

Not modelled at all: production, progression and prestige, the limits and totals of
offline progress (planned, below); capture, restore, comparison and checksums of
whole states, the recorder and replay (equality of whole structures); random
numbers, diagnostics, content schema and compiler, controls, renderers, tools
(sequential transformations, I/O or drawing). `PROJECT.json` gives the reason for each.

## 6. Plan

Done: the queue (abstract and detailed), the loop, the save, the transport server, the
bus, the desktop shell's controller, event broadcast, client prediction, resources
with their publish transport, automations, transforms and entities; proofs of every
safety property and of both refinements.

Next, modelling:

1. Production over `ResourceState`: accumulators in integer units, consumption
   scaled by what is there.
2. Prestige: confirmation tokens, the reset across managers, what is retained.
3. Offline limits and resource totals as operators.
4. A restart of the transport server composed with `GameSave`.

Theorems to come belong to those modules: nothing is produced from nothing, a prestige token is
used once, and a restarted server still executes a command once per ttl where the
save has it.
