# causal-rs, modelled and checked in TLA+

causal-rs is an event-sourcing runtime. Facts are appended to a totally ordered
log; consumers (reactors, projectors, multi-projectors) read the log from a
durable cursor; a reactor's body turns a trigger into further facts, which the
runner appends to the same log. Delivery is at least once; the core promise is
that the *effect on the log* is exactly once. This directory holds the models of
that machinery, what TLC checks about them, and what TLAPS proves.

Paths below are relative to `src/modules/`; `RR` is
`causal/src/reactor_runner.rs`, `ENG` is `causal/src/engine.rs`, `AGG` is
`causal/src/aggregator.rs`.

## 1. Inventory

| Part | Source | State | Operations | Correct when |
|---|---|---|---|---|
| One delivery of a trigger | RR 888-2026 | the retry loop (volatile), the attempt counter | dequeue, replay gate, cancel fence, attempt, body, seal, append, diverge and reseal, park, complete | one decision per trigger; its rows and no others, in order; a dead letter only for a sealed park |
| Dispatcher | RR 660-930, 2026-2117; ENG `supervise_one` | `pending`, `wf_pending`, `ingest_pos`, `floor`, `persisted_floor`, partitions (volatile); the checkpoint (durable) | step, enqueue, worker_loop, reap, advance_floor, drained | the durable floor passes completed triggers only; a partition keeps its order; no trigger is stranded |
| Decision store | `causal/src/decision_store.rs` | one record per (consumer, trigger) | get, seal, remove, remove_reclaimable | the first write wins; a record outlives every delivery that needs it |
| Effect memos | `causal/src/effect_store.rs`, `contexts.rs` | one result per (trigger, label) | remember, delete at the floor | a performed effect is not performed again by a redelivery |
| Checkpoints | `causal/src/checkpoint_store.rs`, `memory_store.rs` | one cursor per consumer, attempt counters | advance, set, clamp_ahead_of, record and clear attempts | never behind what was promised, never ahead of the log |
| Engine builder | ENG 1600-2050 | cursors, cancel fence, supervisor tasks | clamp, seed, fence rebuild, orphan detection, spawn | a restart redelivers everything not retired, nothing before the seed |
| Cancel | ENG 2100-2150 | marker in the log, `cancelled_workflows` per process | cancel_workflow | no new decision after the fence; sealed decisions complete |
| Append and emit | ENG 2200-2560 | none | optimistic loop, runs of same-stream facts | a fact commits under the revision it was decided on |
| Settle | ENG 130-480, 2735-2990 | `SettleTracker`, pins, `ConsumerHealth`, `worker_stall` | emit, bump, settle, settle_tree, forget | returns only when the chain has drained; always returns |
| Shutdown and drain | ENG 3000-3060 | stop flag, task handles | shutdown, drain | nothing durable is lost |
| Event log | `causal/src/event_log.rs`, `memory_store.rs` | the log, revisions, id index | append_to_stream, read_all, read_stream | ids unique; gapless; a redelivery is recognised |
| Projection runners | `causal/src/projection_runner.rs`, `multi_projector.rs`, `projection_failure.rs` | a cursor per projector, park counters | step, dependency fence, park, fan-out | a projector never passes what it depends on; a poison fact is parked before it is passed |
| Aggregators, snapshots | `causal/src/aggregator.rs`, `snapshot_store.rs` | folded states and watermarks | fold, gap repair, restore | each fact folded exactly once, in stream order |
| Consumer lease | `causal/src/consumer_lease.rs`, `causal_replay/src/consumer_lease.rs` | an advisory lock | acquire, release | liveness only: it carries no fencing token |
| Event id registry | `causal/src/event_id_registry.rs`, `causal_replay/src/event_id_registry.rs` | ids to positions | register, lookup | deep redeliveries are recognised |
| Postgres, Kurrent backends | `causal_replay/src/` | tables, streams | the contracts above | as above, over a network |
| Replay pointer, stream, tail | `causal_replay/src/{pointer,stream,tail,mirroring}.rs` | active and staged position | stage, promote, poll | a reader never sees an unpromoted position |
| Inspector | `causal_inspector/src/` | a read model and its cache | queries | read-only |
| Batcher | `causal_utils/src/batcher.rs` | groups, timers, waiters | submit, flush | every waiter is answered once |
| Macros, CLI, UI, conformance, examples | `causal_core_macros`, `src/dev`, `causal-inspector-ui` | | | no runtime state |

How they interact. A supervisor task loops over `step` for its consumer. `step`
holds the dispatch lock over a batch, reads the log, puts matching events into a
window and into the channel of their partition, and spawns a worker per cold
partition. Workers run detached from the supervisor; each takes a trigger
through the decision store and the log and sends a completion over a shared
channel. Whoever reaps that channel - the supervisor or any `settle` call's
`drained` probe - moves the floor and writes the checkpoint. `cancel_workflow`
appends a marker and sets an in-process fence that other processes learn by
reading the log. `settle` observes all of this from outside.

What is hard in it: two executions of one consumer (replicas without a lease, or a
lease holder that outlives its session); a crash between any two of seal, append,
ack and checkpoint; a write that lands although its reply is lost; the fence, the
floor and the marks, each read at one point and used at a later one; the window,
the permit pool and the table of marks at their limits; and the promise that
everything is eventually retired. `hazards` in `PROJECT.json` lists them by line.

## 2. Modules

| Module | Models | Lines |
|---|---|---|
| `ReactorDecision` | what happens to a trigger between its delivery and its ack, in overlapping executions | RR 888-2026, the decision store, the sweep, cancel |
| `DecideOnce` | the abstract promise: one outcome per trigger, shown in order, retired when shown | |
| `Dispatcher` | scanning, window, partitions, workers, completions, the floor and its durable write | RR 660-941, 2026-2117, `supervise_one` |
| `AtLeastOnce` | the abstract promise: work completes, the cursor moves forward over completed work only | |
| `Settle` | marks, pins, failure counts and callers that wait | ENG 130-480, 2735-2880 |
| `EventLog` | the in-memory log as operators, and the contract every backend promises as a specification | `event_log.rs`, `memory_store.rs` |
| `Commands` | `Engine::append`, `emit`, `state_of`, with the aggregate registry and snapshots they feed | ENG 2180-2560, AGG |
| `Consumers` | an engine's boot, its projectors and their failure policy, the reactors' scan for cancel markers, over cursors that outlive it | ENG 1600-2050, `projection_*.rs` |
| `KurrentLog` | the Kurrent backend's append: registry, window scan, compare-and-append | `kurrent_event_log.rs`, `event_id_registry.rs`, `reconcile.rs` |
| `PgLog` | the Postgres backend's transactions, sequence and advisory lock | `causal_replay/src/event_log.rs` |
| `Replay` | extends `PgLog` by live and replay streams, the pointer and the tail | `stream.rs`, `pointer.rs`, `tail.rs` |
| `ReactorDecisionProofs` | the theorems about `ReactorDecision`: the decision itself; the cursor, the dead-letter hook, the sweep and the refinement | |
| `DispatcherProofs`, `ConsumersProofs`, `CommandsProofs` | the theorems about `Dispatcher`, `Consumers` and `Commands` | |
| `SettleProofs` | the theorems about `Settle` | |
| `EventLogProofs`, `KurrentProofs`, `ReplayProofs` | the theorems about `EventLog`, `KurrentLog`, and `PgLog` with `Replay` | |
| `MC_*` | constants of the small instances | |

How they compose. `EventLog` is used three ways: its operators are the log that
`Commands` writes to (`Log == INSTANCE EventLog`), and its specification is what
`Commands` and `PgLog` are shown to implement (`ImplementsEventLog`,
`PgImplementsEventLog`). `Replay` runs over `PgLog`'s transactions. `Consumers`
takes from `ReactorDecision` and `Dispatcher` only that a reactor scans ahead of the
cursor it persists.

### ReactorDecision

One consumer, triggers `1..NTriggers`, and a set `Runner` of executions of that
consumer that may overlap. A singleton `Runner` stands for a deployment whose
lease holds; two runners for replicas, or for a stale holder beside its
successor.

| Variable | Code |
|---|---|
| `logged[t]` | rows in the log caused by trigger `t` |
| `sealed[t]` | the `DecisionStore` row |
| `attempts[t]` | `record_reactor_attempt` / `clear_reactor_attempts` |
| `checkpoint` | the consumer's `CheckpointStore` cursor |
| `cancelled`, `fence[r]` | the marker in the log; the process's `cancelled_workflows` |
| `job[r][t]` | the frame of `process_trigger` / `attempt_trigger` / `append_decision`: its point (`pc`), the fence sample taken at dequeue, whether it parks, whether it won the seal, the record in hand, the index of the next output |
| `dlq[t]` | calls of `reactor_terminal_failure` |
| `decided[t]`, `preCancel` | history: the first record ever sealed; which of those came before the cancel |

Each of the code's steps between two awaits on a store is one action, in the
code's order: `Dequeue`, `Replay` / `FenceAck` / `LookupMiss` (the gate: the decision
looked up, and the fence), `BeginAttempt` (the attempt counted, which is awaited too),
`Body*` (every outcome of the body and of the checks after it), `Seal`,
`AppendRow` / `Diverge` / `Reseal`, `Complete` / `CompletePark`. The `*ReplyLost`
actions are writes that land although the caller sees an error; `IoError` those
that do not; both return to the head of the loop. `Start`, `Persist`, `Crash`,
`LearnCancel`, `Sweep`, `Cancel` and `Rewind` are the process around it.
Another execution may seal between the look-up and the body: a body can start for a
trigger that is decided by then. `GateSeesDecision` says what the gate does promise,
and `AppendsOnlySealed` that nothing such a late body returns is ever appended.

Abstractions, each of them deliberate:
- A row's bytes are the identity of the execution that decided it. Two executions
  of a nondeterministic body, or two parks of one trigger, differ at least in
  their `created_at`, and equality of bytes is all that `append_to_stream` and
  the `won` test look at. The exception is the empty batch, which has no bytes.
- `MaxWaits` transient retries stand for the six-hour `TRANSIENT_CEILING`.
- The attempt counter saturates at `MaxAttempts`, the only value it is compared
  with. A crash may lose it: the in-memory backends keep it in the process.
- `Aged(t)`: the retention window is longer than any execution that can still
  deliver `t` lives, so that no running execution's record is swept. This is what the doc of `remove_reclaimable` asks the
  window to guarantee (`decision_store.rs` 229-244); the sweep's other
  conditions (floor, not parked) are the code's.
- `Rewind` is the operator restoring an old checkpoint, the situation in which
  the reconciliation code of `append_decision` is reached at all.

### Dispatcher

One reactor consumer from the log to the durable cursor. `started`, `ingest`,
`floor`, `persisted`, `pending`, `wfPending`, `handle` are `DispatchState`;
`queue` and `worker` are the partition channels and their tasks, a generation
being named by the trigger its worker was spawned for; `comps` is the completion
channel; `task` holds the program points of the supervisor and of the settle
probes. `reap` and `advance_floor` are split where the code releases the lock:
`DrainComps`, `ApplyAcks`, `MoveFloor`, `Persist` (or `PersistFails`), `Note`,
`CollectMemos`; so two tasks may interleave anywhere between. `step` is `Step`,
`Noted`, `ReadBatch`, `Ingest*`, `EndBatch`; `drained` is `Probe` and `Answer`
around a reap. `TryRecv` and `Deregister` are the two halves of the idle exit of a
worker, `Die` is a worker task killed out-of-band, `Halt` is `shutdown` or
`drain`. What a worker does with a trigger is `ReactorDecision`'s subject: here it
may memoize an effect and then completes or, when stopped, abandons it.

### Settle

Callers emit and may wait; reactors are seen through what `drained` and the wedge
probes observe of them. A reaction is three steps - output in the log, mark
raised, acked - because the code awaits between them. `failing[k]` is
`ConsumerHealth` for a projector and `worker_stall` for a reactor. `settle` is
`Pin`, `ReadMark`, then per consumer `Next1` or `NotYet` and `Probe`, then
`Recheck`, `Forget`, `Unpin`; each is one lock acquisition of the code. `DrainFails` is
the error of `drained` itself, which ends the wait. `Open(r)` is what `wf_pending` counts;
`Held(r)` is `pending`, whose length the window bounds: acked triggers stay in it behind
one that is not. The
opt-in liveness ceiling, `settle_tree` and the empty emit are left out, and each
trigger has a worker of its own.

### EventLog

`Verdict` is the in-memory `append_to_stream` in the order the code looks: an empty
or self-duplicating batch, the tail's id as the sign of a redelivery, every row of
it present and identical, a partial overlap, and only then the expected stream
state. `AppendTo` is the log after the call. The second half of the module is the
contract: `Next` appends one batch of one stream, with new ids and the stream's next
revisions. Bodies are compared, never read.

### Commands

Commanders call `Engine::append` (`Load`, `Commit`), emitters `emit` (`Emit`,
`AppendRun` once per run of same-stream facts), readers `state_of`; each then folds
what it wrote (`FoldNext`, `FoldSkips`, `FoldGap` for the three answers of
`apply_event`), restores a vacant entry (`RestoreRead`, `RestoreInstall`) or repairs
a gap (`RepairRead`, `RepairRow`), and saves a snapshot (`SaveVersion`, `SaveState`,
`SaveStore`). An append may fail, or land without a reply; the process may crash,
and may come back unable to read its own snapshot.

Abstractions: one stream-aligned, restorable aggregate is followed, and its folded
state is the sequence of revisions that went into it, so that a fact folded twice,
skipped or out of order shows. A caller repeats what failed; the decider is pure and
recognises its own facts. `MaxOcc` stands for the sixteen tries. Another caller may
step between `FoldNext` and `SaveVersion`, which on one thread cannot happen: more
interleavings are checked than the code has. The two registry reads of a save have
no await between them; with `Threads = FALSE` they are one step.

### Consumers

`BootTip`, `BootClamp`, `BootSeed`, `BootFence` are `build` in the code's order.
`Lease` is the wait of a consumer's task before its first read of the cursor. A
projector's `step` is `BeginStep` (dependency fence, hydration, batch) and per row
`PassRow`, `Project`, `Poison`, `Refuse` or `Transient`, with `ParkAppend` and
`AdvanceCursor` after it; every write may fail. A reactor is `Scan` and
`PersistFloor`. `Restore` puts the event store back to an earlier point while nothing
runs, and new events take the positions of the lost ones; the identity of an event
is therefore its number `n` and not its position. Positions count rows. The six-hour
ceiling of a transient failure is a choice in `Transient`. What an error says goes into the
payload of the park, which the log compares when the park is repeated: each attempt picks
its text from `Texts[p]`. Attempts are counted up to `CountCap`, above every count a
first park can carry, so that counts compare as they do in the code.

### KurrentLog

One stream. `Lookup`, `Scan`, `CasAny`, `Register` are the round trips of an append
whose expectation is `Any`; `CasExact` and `ReadWindow` those of one that expects a
revision. `ReplyLost` lands without an answer, `Fails` is any other error or the
death of the caller, `Foreign` is a writer outside causal. Window and tries are
constants, 3 and 2 in the run for `max(4 * batch, 64)` and 16 in the code.

### PgLog and Replay

`Begin` takes the advisory lock, `Insert` reads the head and draws positions from the
sequence, `Commit` makes the rows visible, `Abort` and a refused `INSERT` leave gaps
in the positions for ever. `InOrder(table)` is what a reader sees, and the refinement
of `EventLog` is stated on it. A stream is `Open`, `Read`, `Apply` row by row and, in
live mode, `Save` and `Wake`; in replay mode it stages its progress and ends in
`Finish` and `Promote`, whose gate may refuse.

## 3. What the runs check

`CHECK_DEADLOCK FALSE` is in every configuration: a consumer that has caught up
idles, callers stop calling, and a bounded log ends.

| Run | Instance | Question and result |
|---|---|---|
| `decision_race` | 2 runners, 1 trigger, 3 batches (empty, both rows, the second row), 1 fault, 2 crashes, a cancel | Do overlapping, crashing, retrying executions of one trigger ever decide twice? No: `NoChimera`, `AppendsOnlySealed`, `CheckpointImpliesWhole`, `DeadLetterIsParked`, `DlqAtMostOnce`, `GateSeesDecision`, `SweptIsRetired`, and the refinement of `DecideOnce` |
| `decision_lease` | 1 runner, 2 triggers (one a no-op), refused batches, elided empty decisions, 1 fault, 1 crash, fair | With a lease: whatever was sealed becomes whole, and every trigger is retired |
| `decision_reconcile` | 2 runners, 2 crashes, 1 rewind, canonical rows available | After a checkpoint restore: reconciliation leaves no record that contradicts the log |
| `dispatcher_reap` | 3 triggers, 2 partitions, window 2, 1 crash, 1 failing write, fair | the floor, the partition order, no stranded trigger, memos outlive redelivery, and the durable cursor reaches the end of the log |
| `dispatcher_gate` | no decision store, a cancel between two triggers, 1 settle probe, 1 worker death | the probe's answer; the gate and interleaved checkpoint writes refine `AtLeastOnce` |
| `settle_drains` | 2 reactors in a chain asked back to front, a projector, 2 workflows, 1 transient failure | when `settle` returns, the whole chain has been observed; the mark covers what was acked |
| `settle_wedge` | 3 workflows, of which one is settled and one only ever fails, table of 1 mark, window 2, a broken projector, fair | evictions spare a workflow being settled; every `settle` returns, also when the stuck trigger and one acked behind it fill the window before the settled workflow's trigger is ingested |
| `commands` | a command, an emit over two streams, a redelivered emit with its own id, a reader; 1 fault, a snapshot at every revision | a command sits on the revision it was decided on and once only; an emit lands run by run; registry and snapshots are folds of a prefix; one restore or one repair closes a gap; the log keeps its contract |
| `consumers_life` | 1 engine with 2 projectors that depend on each other, or 2 reactors; 2 events of every kind, errors of one projector that vary in their text, 1 fault, 1 crash, 1 restore, fair | the rebuilt fence covers what is read past, no cursor passes an event its consumer never handled, a registry has no hole, everyone catches up unless a repeated park is refused for ever |
| `kurrent_retry` | 2 callers, 4 batches (same, divergent, overlapping, expecting a revision), 3 calls, 2 faults, window 3, 7 rows | what was answered Ok is never appended again, twins lie more than a window apart, answers are true |
| `replay_tail` | 2 writers, a live stream and a replay, 3 positions, 1 abort, 1 stop, fair | no row appears behind a reader or the pointer, the table keeps the log's contract, the live stream reads everything |
| `standby_fence` | 2 engines and a lease, 2 events, 1 crash | violation, finding 1 |

Why the bounds are enough. The hazards of one delivery need two executions of one
trigger and at most one crash of each: a third execution meets the same store and
the same log rows, which are all it can see of the others; and the proofs of
section 4 remove the bound altogether. Two rows per batch give the half-appended
state, three batches the disjoint, overlapping and empty ones. `decision_lease`
adds the second trigger, which the contiguous floor needs. The dispatcher's races
need two partitions, two triggers in one of them, and a window smaller than the
log; a channel's idle exit needs one send. `settle`'s races need a chain of two
reactors, the later one asked first, and a second workflow; a window filled by another
workflow needs a stuck trigger, one acked behind it, and the one that is waited for. In `commands` a
conflict, a gap and a repair each need one other writer of the stream, and a torn
emit two runs of which one has two facts. In `consumers_life` a park needs one event
and a cursor that is ahead of a restored log two; a dependency cycle needs two
projectors, and as nothing passes between projectors and reactors there, an engine
has either. `kurrent_retry`'s seven rows are two of a batch, a window over them, and
the batch again. In `replay_tail` three positions give a row that commits after a
higher one was drawn, which the advisory lock must forbid.

Fairness. `Fairness` in `ReactorDecision`, `Dispatcher` and `Consumers` is weak
fairness of the supervisor's steps and of each worker: `supervise_one` loops for
ever and catches panics, and a spawned task is polled. In `Consumers` an engine that
is down is started again and a free lease is taken. In `Settle` the callers are
polled too. In `Replay` the live loop is run and, when it has ended, restarted by
its orchestrator, and its wait ends at the poll interval; a replay has no fairness.
Arrivals, cancels, faults, crashes and worker deaths are never fair. The liveness
runs bound faults and crashes: with unboundedly many, nothing is promised.

## 4. What is proved

For every value of the constants - runners, triggers, callers, writers, streams,
batches, windows - and every bound on faults and crashes:

| Theorem | Statement | Property |
|---|---|---|
| `TypeCorrect` | `Spec => []TypeOK` | `TypeOK` |
| `OneDecision` | `MaxRewinds = 0 => (Spec => []NoChimera)` | `NoChimera` |
| `OneBatch` | `MaxRewinds = 0 => (Spec => []AppendsOnlySealed)` | `AppendsOnlySealed` |
| `CursorPassesWhole` | `MaxRewinds = 0 /\ SealEmpty => (Spec => []CheckpointImpliesWhole)` | `CheckpointImpliesWhole` |
| `SweepTakesRetired` | `MaxRewinds = 0 /\ SealEmpty => (Spec => SweptIsRetired)` | `SweptIsRetired` |
| `NoGateMissesADecision` | `MaxRewinds = 0 => (Spec => GateSeesDecision)` | `GateSeesDecision` |
| `DeadLettersAreParked` | `MaxRewinds = 0 => (Spec => []DeadLetterIsParked)` | `DeadLetterIsParked` |
| `HookFiresOnce` | `MaxRewinds = 0 => (Spec => [](\A t \in Trigger \ Silent : dlq[t] <= 1))` | |
| `DeadLettersOnce` | `MaxRewinds = 0 /\ Silent = {} => (Spec => []DlqAtMostOnce)` | `DlqAtMostOnce` |
| `RecordsTellTheTruth` | `Canonical => (Spec => []NoLyingRecord)` | `NoLyingRecord` |
| `Refines` | `MaxRewinds = 0 /\ SealEmpty => (Spec => ImplementsDecideOnce)` | `ImplementsDecideOnce` |
| `FloorIsSafe` | `Spec => []FloorSafe` (`Dispatcher`) | `FloorSafe` |
| `PersistedIsInTheStore` | `Spec => []PersistedIsDurable` (`Dispatcher`) | `PersistedIsDurable` |
| `DrainIsSound` | `Spec => []DrainedSound` (`Dispatcher`) | `DrainedSound` |
| `MemosOutliveRedelivery` | `Spec => MemoOutlivesRedelivery` (`Dispatcher`) | `MemoOutlivesRedelivery` |
| `DispatcherDelivers` | `Spec => ImplementsAtLeastOnce` (`Dispatcher`) | `ImplementsAtLeastOnce` |
| `PartitionsAreOrdered` | `Spec => [](deaths = 0 => PartitionOrder)` (`Dispatcher`) | `PartitionOrder` |
| `NothingIsStranded` | `Spec => [](deaths = 0 => NothingStranded)` (`Dispatcher`) | `NothingStranded` |
| `NothingIsSkipped` | `Spec => []NothingSkipped` (`Consumers`) | `NothingSkipped` |
| `RegistriesHaveNoHole` | `Spec => []StateIsPrefix` (`Consumers`) | `StateIsPrefix` |
| `FenceCoversTheCursor` | `OneEngine` gives `Spec => []FenceCoversCursor` (`Consumers`) | `FenceCoversCursor` |
| `CommandsLandOnTheirTail` | `Spec => []DecidedOnTail` (`Commands`) | `DecidedOnTail` |
| `CommandsTakeEffectOnce` | `Spec => []CommandOnce` (`Commands`) | `CommandOnce` |
| `EmitsLandByRuns` | `Spec => []LandsByRuns` (`Commands`) | `LandsByRuns` |
| `WritesKeepTheContract` | `Spec => ImplementsEventLog` (`Commands`) | `ImplementsEventLog` |
| `WritesKeepIdsAndRevisions` | `Spec => [](UniqueIds /\ DenseRevisions)` of the log written to (`Commands`) | |
| `OneRepairClosesTheGap` | `Spec => []RepairConverges` (`Commands`) | `RepairConverges` |
| `OnlyTornSavesBreakFolds` | `Spec /\ [][Undisturbed]_vars => []FoldsArePrefixes` (`Commands`) | `FoldsArePrefixes` |
| `NoSnapshotsNoTornFold` | `SnapEvery = 0` gives `Spec => []FoldsArePrefixes` (`Commands`) | `FoldsArePrefixes` |
| `SettledIsDrained` | `OneEach /\ Roomy => (Spec => []SettledMeansDrained)` (`Settle`) | `SettledMeansDrained` |
| `MarksCoverAcks` | `OneEach /\ Roomy => (Spec => []MarkCoversAcked)` (`Settle`) | `MarkCoversAcked` |
| `SettlingIsSpared` | `OneEach => (Spec => EvictionSparesSettling)` (`Settle`) | `EvictionSparesSettling` |
| `NothingPassedHolds` | `Spec => []NothingPassed` (`Replay`) | `NothingPassed` |
| `PgKeepsTheContract` | `Spec => PgImplementsEventLog` (`Replay`) | `PgImplementsEventLog` |
| `PgIdsAndRevisions` | `Spec => [](UniqueIds /\ DenseRevisions)` of the Postgres log (`Replay`) | |
| `AnsweredNeverRepeatedHolds` | `HasRegistry => (Spec => []AnsweredNeverRepeated)` (`KurrentLog`) | `AnsweredNeverRepeated` |
| `DuplicatesAreFarHolds` | `Spec => []DuplicatesAreFar` (`KurrentLog`) | `DuplicatesAreFar` |
| `AnswersAreTrueHolds` | `Spec => AnswersAreTrue` (`KurrentLog`) | `AnswersAreTrue` |
| `AppendIsContract` | an append of the in-memory log is a step of the contract, or none | |
| `ContractHolds` | `Spec => [](UniqueIds /\ DenseRevisions)` (`EventLog`) | |

Assumptions: the named `ASSUME`s of `ReactorDecision` (bounds are naturals, a
batch has no two outputs of one identity - `build_output_events` numbers them -
and the park's identity is no body output's), of `KurrentLog` and `PgLog` (a batch is
not empty and mints an id once; a batch that expects a revision is only ever sent
with that expectation), of `Replay` (`OneReplay`: at most one replay stream) and of
`Dispatcher`, `Consumers` and `Commands` (kinds of callers and consumers differ, bounds
are naturals, a command writes to its own stream, `None` is no entry or snapshot), and
of `Settle` (bounds are naturals, there is a consumer to wait for).
`OneEach` says that no two callers write to one workflow, `Roomy` that the table of
marks holds all workflows, `Canonical` that a divergence has the log's row at hand,
and `Silent = {}` that every park writes a fact of its own; section 5 shows what
happens where they fail. `MaxRewinds = 0` says that the checkpoint is not restored from a backup; after one,
records may have been swept, and the properties are then false (section 5).

The argument for `ReactorDecision`. `NoChimera` is not inductive. `OnceInv` adds what keeps it:
- `TypeInv`: types, and a job about to write holds a record;
- `DistinctInv`: no two rows of a decided batch share an identity, so a row in the
  log identifies its index in the batch;
- `StoreInv`: the store holds the first decision or nothing, and *if it holds
  nothing although a decision was made, the cursor is past the trigger and nobody
  can deliver it any more*. This is the heart: it is what the replay gate, the
  sweep's two conditions and the boot from the checkpoint maintain together, and
  it is why a trigger is not decided again;
- `AppendInv`: an appending job's finished outputs are in the log, and no job is
  resealing;
- `NoChimera` and `AppendsOnlySealed` themselves.

Divergence is then unreachable (`NoDivergence`), which removes the reconciliation
branch from every later case.

`CursorInv` adds, for the cursor: a fence is set only after the marker exists
(`FenceInv`); a promised trigger has a decision (`PromiseInv`); and a trigger
*somebody is past* - the checkpoint, or any runner's job - is either undecided
because its workflow is cancelled, or whole if it was promised (`PastInv`).
Quantifying over the jobs and not only over the checkpoint is what makes it
inductive: the checkpoint follows acks. `SealEmpty` is needed here because an
elided empty decision leaves no trace: a runner may ack one while another parks the
same trigger, and the cursor then passes a decision that is not whole yet.

`HookInv` follows the hook from the seal to the call. A job that takes itself for the
winner holds the one decision, its own park, and the hook has not fired for it; a job that
has not sealed yet cannot hold the decision. The row of a park names who parked, which
is why a loser knows that it lost; a silent park has no row, and two of them are
equal (section 5). `TruthInv` does not rest on `OnceInv` and holds through restores of the
checkpoint: the finished outputs of an appending job are in the log as its record has them.
It is inductive because a divergence that finds the log's row amends the record and
starts over at the first output.

`Refines` maps `decided`, `logged`, `checkpoint`, `cancelled`, `preCancel` to the
variables of `DecideOnce`: a seal is `Decide` or a stutter (`SealRefines`), an
append is `Show` or a stutter (`AppendRefines`), a checkpoint write is `Retire`
(`PersistRefines`, from `PastInv`), a cancel is `Withdraw`, and everything else
stutters.

For `Dispatcher`, *through* is a trigger that was completed or dropped by the cancel
gate. The invariant `IInv` says:
- `CursorsOrdered`: the floor is at most the ingest position, and that at most the log's
  end; the floor a process takes for durable is at most the one in the store;
- `WindowSound`: what was scanned is in the window or through; the window lies between
  the floor and the ingest position; what it marks as completed is completed;
- `WritesSound`: a floor on its way to the store covers only what is through, and the
  memos to be dropped lie under it - in every task that is between computing a
  floor and having written it, so that a lagging write is harmless whatever the store held;
- `CompletionsSound`, `HandsSound`: a completion, and a trigger in the hands of a live
  worker, is a waiting trigger of the window; no trigger is in two of these places, and
  a worker holds its triggers in log order;
- `CountSound`: the counts per workflow are those of the window;
- `FloorSafe` and `DrainedSound` themselves.

`DispatcherDelivers` maps completed work and the durable cursor to the variables of
`AtLeastOnce`: an ingest delivers, `Persist` moves, an append to the log grows it.
`PartitionOrder` and `NothingStranded` need `HoldersSound` too: a waiting trigger is
completed or in the hands of a live worker, and a worker that has looked into its
channel and found it empty, or is busy, holds everything that waits in its partition.
The hypothesis `deaths = 0` is needed: a killed task leaves its channel behind
(section 5), and the worker after it does not hold what lay there.

For `Consumers`, `IInv` says that a booting engine's view of the log and, once it
has clamped them, all cursors are within the log (`BootSound`); that only the holder of
a lease keeps a frame and a registry (`LeasesSound`); that the rows of a step
follow each other, with everything before them passed (`RowsSound`); that every event
below a cursor or a scan was handled by the consumer or seeded past (`PassedSound`);
and that a registry has everything foldable below the cursor and no hole after it
(`RegistrySound`). A restore of the event store reuses positions, so that these are said
of events and not of positions. `FenceCoversTheCursor` adds `FenceSound` and needs
`OneEngine`: with a second one finding 1 is reachable.

For `Commands` there are three invariants, each resting on the one before.
`WriteInv` is about the log and the calls: every row is a fact of its caller's plan at its
place and, if a command's, at the revision it was decided on (`LogOK`); a caller that
holds a decision has no row of that call yet, and one between two runs has exactly the
runs before (`CallsOK`); `CommandOnce`; and runs are whole and side by side (`RunsOK`).
That a decided basis is still the tail when it lands is what `Verdict` compares; that a
second decision is never made once the first has landed follows from the load, whose
rows include every row of the caller.

`VersionsOK` is about how far the fold has come, on any runtime. The entry and the
snapshot are never ahead of the stream; every revision still to be folded is one of the
aggregate's own; a frame in `fold` is in its first round, or in its second with the
entry already past the revision it waits for. That needs `FrameOK` for each
point in between: an entry about to be installed reaches past the fold's revision,
because the append that brought the fold came before the read; and the rows left to a
repair are a stretch of the stream that starts at or below the entry's version. The
watermark never goes back while the process lives, so that no other caller can
reopen the gap.

`StatesOK` is about what was folded: entry, snapshot, and the copies of both in the
frames are `FoldOf` the version they carry. It rests on lemmas about `Ascending`, the
only ordering in the module: appending a greater element, and joining two sets of which
one lies below the other (`AscendingAppend`, `AscendingJoin`), are proved by
the least element at which they could fail, since induction over data is not
available. Nothing is assumed of the runtime. `Undisturbed` is needed for one step, the
second registry read of a save: no other step may have moved the entry's version since the
first. On several threads the code does not keep it, and the property is then false
(section 5); the theorem says that nothing else breaks it. Without snapshots there is no
save to disturb (`NoSnapshotsNoTornFold`).

For the logs. `EventLogProofs` shows first that `Verdict` says "append" only for a
batch of new, distinct ids, so that an append of the in-memory log is `NextBatch`; the
contract then preserves `UniqueIds` and `DenseRevisions`, the second because the
revision of a fresh row is a count of the rows below it. With `WritesKeepTheContract` and
`PgKeepsTheContract` both hold of what those modules do (`WritesKeepIdsAndRevisions`,
`PgIdsAndRevisions`).

`KurrentProofs`: nothing about the answers is inductive by itself. The invariant says
that the ids of an acknowledged batch are registered or in the stream above an
expectation that can no longer match; that what a call in `cas` scanned held none of
its ids in the window, the head it saw not being above the stream's end; and that two
rows of one id lie more than a window apart. The answers need `TruthInv`: a registered
id is in the stream; a call about to register has its batch there; a batch that
expects a revision lies right behind it if anywhere, so that the window between the
expectation and the head of the refusal shows all of it or nothing. Neither this nor
`DuplicatesAreFar` depends on the registry.

`SettleProofs`: a settle is sound because of what its last read of the mark sees. `IInv`
says that every row belongs to the chain of one caller, and is that caller's fact or the
output of a trigger below it (`RowsOK`, `JobsOK`); that the mark of a workflow is at or above
its caller's fact and every output whose mark was raised, until the caller forgets it
(`MarksOK`); and that a consumer found drained stays so for what it was asked, and asked
in order (`CallOK`). When the re-read finds the mark unchanged, suppose a row of the chain
lay above it: the least such row is the output of a trigger at or below the mark, which
is done, so that the mark was raised over its output. Hence all of the chain is at or
below the mark, and every consumer has passed it. Pins alone give
`EvictionSparesSettling`, whatever the cap (`PinInv`).

`ReplayProofs`: the invariant is that the sequence is at or above every row, that only
the holder of the advisory lock has rows inserted and that they lie above every
committed one, and that each stream's batch is exactly the stretch of the table between its
position and the batch's end; then everything at or below a position was handed to
`apply`. `OneReplay` is needed in the steps of `Promote`, which promotes whatever is
staged and not what this replay staged.

`PgKeepsTheContract` maps the table to its rows in position order. That every row has a
place there is counting: the number of rows below a row is its own, so that these
numbers are all of `0..n-1` (`InOrderIsAll`). Rows that commit above all others take the
places after them (`OrderGrows`), so that a commit is one append, and everything else
leaves the log alone. `WritesInv` says that the rows waiting to commit carry the stream's
next revisions as of *now*: under the advisory lock nothing commits between the look at
the head and the commit. `Begun` says that a stream with a row has its revision 0; a
batch that expects no stream is not compared with the head and starts at 0, and it is
the unique index that refuses it. `b.stream \in Stream` is assumed of batches.

Only model-checked: the liveness properties (liveness under fairness and ENABLED
are out of the prover's reach): `EventuallyRetired`, `SealedBecomesWhole`,
`EventuallyCaughtUp`, `SettleReturns` and `EventuallyRead`; and the properties of the
configurations that section 5 describes as failing. Every safety invariant, action
property and refinement a passing run checks has a theorem.

## 5. Findings

1. `standby_fence`: the cancel fence is read from the marker stream once, in `build`
   (ENG 1721-1768). An engine that stands by for a lease reads the cursor only when it
   gets the lease (RR 835-847); a marker written after its build and passed by the
   holder before it lies below that cursor and is never learnt, so that triggers of the
   cancelled workflow run again. ENG 1711-1716 says that the rebuild is there so
   that no cancelled workflow whose marker sits below a cursor is resurrected.

Further disagreements of code and text. Each but the last group is seen by changing
the named constants of a configuration, and TLC then finds the named property
violated:
- `Silent` not empty in `decision_race`, `DlqAtMostOnce`: two executions that park one
  trigger silently (the H7 guard, or a mapper that returns `None`) seal equal empty
  rows, each takes itself for the winner (RR 1983), and the dead-letter hook fires
  twice; RR 1851-1853 promises at most once.
- `Canonical = FALSE`, `MaxRewinds = 1` and `MCBatchesOverlapping` in
  `decision_reconcile`, `FallbackNeverChimera`: a divergence without the log's row at
  hand removes the record and stops, but outputs appended before the diverging one
  stay beside the earlier decision's (RR 1650); RR 1649 promises "never a chimera".
- `Plan <- SameWorkflowLater` in `settle_drains`, `SettledMeansDrained`: an existing
  mark is taken as it is, even when it is older than the fact just emitted
  (ENG 2791); ENG 2742-2745 says the mark is floored at the emit position.
- `SameWorkflowTwice` in `settle_wedge`, with three callers, six rows, one reactor
  (`Alone`, `JustA`, `AtoB`) and nothing stuck or broken, `EvictionSparesSettling`: pins are a set, not a
  count (ENG 458); the first of two settles of one workflow unpins it for both;
  ENG 400-403 forbids that.
- `Threads = TRUE` in `commands`, `FoldsArePrefixes`: a snapshot's revision and state
  are two reads of the registry (AGG 1216, 1228); on a multi-thread runtime a fold in
  between gives a snapshot ahead of its revision, and a restore then folds that fact
  again. This needs two facts of the aggregate written by two tasks at once.
- `ReparkDedupes` in `consumers_life` as it is: a park fact's id is the same on a second
  try, but its payload holds the error's text, the class and the number of attempts
  (`projection_failure.rs` 220-229; 147-150 says a replay re-parks to the same id and is
  deduplicated). When the cursor write after a park fails, or the process dies
  before it, and the error reads otherwise the next time, the second park is refused
  as divergent; the cursor stays where it is for as long as that goes on. With one text
  only (`Texts` of one value) it still fails when the first park's reply is lost
  (`MaxLost = 1`: the attempts differ) and when "hard" is in `Flaky` (the class
  differs). `EventuallyCaughtUp` therefore has it as its premise: nothing but a park refused again
  and again keeps a consumer from the end of the log.
- `HasRegistry = FALSE` in `kurrent_retry`, `AnsweredNeverRepeated`: without the registry a
  redelivery deeper than the window is appended again, as its doc says.
- Two replay streams, without `OneReplay`, in `replay_tail`, `NothingPassed`: nothing keeps two replays apart, and one
  promotes what the other staged (item 21 of `docs/audits/2026-07-02-correctness-reliability-audit.md`).

Seen in the code, with no property of their own:
- `worker_stall` counts per reactor, so a reaction that keeps failing on one
  workflow can fail the settle of another that merely lags (ENG 2824; the doc at
  ENG 2766-2769 describes workflows as isolated). `settle_wedge` covers only that
  every settle returns.
- `drain` returns clean when the supervisors have ended, while detached workers may
  still run reactions (ENG 3039; doc ENG 3012-3013).
- Triggers in the channel of a killed worker stay pending until the next restart
  (RR 867 recovers the one of the failed send). Neither the floor nor a probe
  passes them, which `dispatcher_gate` checks.
- At the cap, a mark can be evicted between the emit and the pin; `settle` then
  falls back to its emit position. `SettledMeansDrained` is therefore checked with
  a table that has room (`Cap = 2`), which the documented cap of 65,536 stands for.
- ENG 2626-2636 allows that repairs do not converge within their rounds; for one
  aggregate `RepairConverges` shows one restore or one repair to be enough, and
  `OneRepairClosesTheGap` proves it.
- `DEPENDS_ON` (`projector.rs` 55-56) is compared once per step: the rows of the batch
  after the first are applied without asking again.
- The build clamps cursors after a restore but not snapshots (AGG 1113): a snapshot
  ahead of the restored log stays ahead of it.
- A registry hit is answered Ok without comparing the content, ids are registered
  with the coordinates of their batch's last row, and twins outside the window can
  duplicate even without a fault when the registry is attached late.
- A promotion may move the active position backward, when the live stream has gone
  past what the replay staged; rows are then applied again.

## 6. Not modelled

Left for an extension of the present modules:
- `Consumers`: `StartPosition::Specific`, the retry of the marker read, orphan
  detection (a warning), the per-subject routing of the multi-projector and its
  observers.
- `Commands`: several aggregates on one stream, the fan-in gate by position, strict
  repair, the `:prev` slot of a snapshot, `fold_bounded`.
- `Settle`: `settle_tree` and the wall-clock ceiling of the liveness check.
- `Dispatcher`: what `remember()` does inside (single flight, failures not kept), the
  task handles and timeouts of `shutdown`.
- `Replay`: the batch callbacks, the mirroring backend, the Postgres mirror projector.
- `KurrentLog`: `read_all` with its filter, more than one stream.
- The non-atomic default of `CheckpointStore::advance`, which both stores override.
- `causal_utils/src/batcher.rs`: groups, timer, flush and waiters; nothing in the
  runtime depends on it.

Left out for good: SQL of the Postgres decision, checkpoint, effect and snapshot
stores (database I/O behind the contracts assumed atomic here), the inspector and its
UI, macros, CLI, conformance suites and examples (no runtime state), observers
(nothing flows back), identifiers and domain traits (type-level).
