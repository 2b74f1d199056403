# workflow-spec: a TLA+ verification project

This directory holds TLA+ specifications of workflow-spec: of its parts that run
concurrently or survive failures, and of the pure stages whose agreement they rest
on. With them come the TLC instances that model-check them, and TLAPS proofs. Each specification is translated from the source;
`PROJECT.json` maps every definition to the lines it stands for.

- [The system](#the-system) - the inventory
- [Modules](#modules) - what models what
- [Runs](#runs) - instances, bounds, what they show
- [Proofs](#proofs)
- [Where the code and its comments part](#where-the-code-and-its-comments-part)
- [What is abstracted](#what-is-abstracted)
- [Plan](#plan)

## The system

A client submits a workflow, a graph of steps. Workers claim the steps whose
dependencies are done out of a PostgreSQL table, have an agent beside the
service's container run each as a command, and record the outputs. There is no
broker and no coordinator: everything that must not go wrong between two workers
rests on PostgreSQL's transactions and row locks, and everything between a worker
and an agent on an HTTP call that may be lost.

| Component | State | Operations | Talks to |
|---|---|---|---|
| Worker loop (`src/apps/worker/worker-loop.ts`) | one open transaction | `runOnce`, `failRun`, `runWorkerLoop` | interpreter, dispatch, core |
| Interpreter (`src/engine/interpreter.ts`, `bindings.ts`, `dependency-graph.ts`) | none of its own | `submitRun`, `resolveStepReads`, `completeStep`, `promoteReadyNodes`, `getRunResult` | core |
| Durable primitives (`src/engine/claim-complete.ts`, `wait.ts`) | none of its own | `claimExecution`, `completeExecution`, `waitFor`, `signalWait` | core |
| Core (`src/core`: `schema.sql`, repositories) | `executions`, `checkpoints`, `waits`, `workflow_runs`, `run_node_outputs`, `session_log`, `session_pointer`, placement tables | `claim_execution()`, `signal_wait()`, one statement per repository method | PostgreSQL |
| Session log (`src/session/session-log.ts`) | `session_log`, `session_pointer` | `appendEntry`, `rewindSession`, `replaySession` | core |
| Dispatch and agent client (`src/apps/worker/dispatch.ts`, `agent-client.ts`) | none | `dispatchStep`, `invoke` | the agent, over HTTP |
| Exec agent (`agent/`) | the deduplication store, running subprocesses | `POST /invoke`, `POST /evict`, the sweeper | the service's command |
| Placement (`src/scheduler`) | `placement`, `placement_access`, `placement_config` | `recordAccess`, `evaluatePromotion`, `promote`, `demote`, `evictLRUIfOverCapacity` | core |
| Registry (`src/registry`) | `service_images`, `function_capabilities` | `registerImage`, `recordTrustTier`, `getEntry`, `getPlacementFacts` | its own PostgreSQL schema |
| DSL compiler (`src/dsl-compiler`, `src/workflow-spec`) | none | `compile`, `validate` | registry (reads) |
| Wake listener (`src/core/database/wake-listener.ts`) | a LISTEN connection | callback per notification | PostgreSQL |
| Archived IR interpreter (`archive/spikes/1.5-ir-interpreter`) and map fan-out (`1.8-map-foreach`) | `executions`, `map_nodes`, `branch_nodes`, `run_node_outputs` of their own schemas | `submitRun`, `processOne`; `fanOut`, `processStep`, `join` | PostgreSQL |

What makes each hard, and what makes it correct:

- **Worker loop and interpreter.** Workers complete and fail steps of one run
  concurrently, each inside one transaction that spans the HTTP call. Correct
  means: no promotion or completion is missed, no step is dispatched before its
  inputs exist, a failed run has nothing left to claim, a crash undoes a claim
  entirely, and a submitted run settles once.
- **Durable primitives.** A client may be slower than its lease; a timer, a
  signal and a reclaim race for one execution. Correct means: no sleeper is left
  without something to wake it, no wakeup is delivered twice, nobody is given an execution
  that another client still has under its lease, an output is final as long as clients
  keep to their leases, a broadcast reaches every wait it found, nothing deadlocks
  between `claim_execution()` and `signal_wait()`.
- **Session log.** Appends and rewinds of one session race, and a rewind leaves
  rows that a later append must get rid of. Correct means: replay is a list that
  appends extend and rewinds cut, one at a time.
- **Exec agent.** Retries of one call reach the agent while the first still
  runs; a sweeper gives up on leaders it takes for dead; a leader given up may
  still finish. Correct means: one command at a time per step, followers get
  their leader's outcome and always get an answer, no channel is closed twice.
- **Placement.** Decisions are read in one transaction and acted on in another;
  the access log is pruned by whoever writes. Correct means: the pinned set
  returns under its budget, least recently used first, windows see every access
  they count, and a hash just hot is not at once idle.
- **Dispatch.** The request, the answer, the worker or the agent is lost at any
  point of a call, and the claim that is rolled back is retried with the same key.
  Correct means: a command runs once, and once more per loss of the agent or of a
  result it no longer keeps; a step
  gets the outcome of its own command; nothing is left running when it is settled;
  every call ends.
- **Registry.** Registrations of one image race each other, a verdict of the
  conformance probe, and readers of one or two statements. Correct means: an entry
  is one registration's, and a tier is the last verdict's.
- **Compiler, registry validation, dispatch and runner as a pipeline.** Each stage
  repeats or relies on what another checked. Correct means: what is accepted can be
  carried out - references resolve, services exist, promotion reaches every step
  unless steps wait in a circle, and each bound input reaches its place in the
  command.
- **Archived interpreter.** Branches and maps fan out into rows that any worker
  takes, without a lock on the run. Correct means: the last child re-queues its
  node, joins follow the source's order, inputs are there when needed.

The full list of hazards, each at its line with the properties that watch it, is
in `PROJECT.json`.

## Modules

| Module | Lines it models | Role |
|---|---|---|
| `RunLifecycle` | - | abstract: what a run promises the client that submitted it |
| `WorkerLoop` | worker-loop.ts, interpreter.ts, their queries | the workers' transactions |
| `WorkerLoopProofs` | - | theorems about `WorkerLoop` |
| `DurableExecution` | claim-complete.ts, wait.ts, `claim_execution()`, `signal_wait()` | clients with leases, timers, signals |
| `DurableHistory` | - | `DurableExecution` with a history: whom a client took after its lease |
| `DurableExecutionProofs` | - | theorems about `DurableExecution` and `DurableHistory` |
| `SessionHistory` | - | abstract: a session is a list |
| `SessionLog` | session-log.ts and its queries | the statements of the mutations |
| `SessionLogProofs` | - | theorems about `SessionLog` |
| `AgentDedup` | dedup.go, invoke.go | the agent's deduplication |
| `AgentDedupProofs` | - | theorems about `AgentDedup` |
| `StepDispatch` | agent-client.ts, dispatchStep, runOnce's outcomes | the worker's calls over `AgentDedup` |
| `DispatchHistory` | - | `StepDispatch` with a history: results the agent dropped for their age |
| `StepDispatchProofs` | - | theorems about `StepDispatch` and `DispatchHistory` |
| `Invocation` | registry/validate.ts, dispatch.ts, execrunner.go | a call's inputs from descriptor to command line (operators) |
| `WorkflowDocument` | node-walk.ts, binding-refs.ts, semantic-validation.ts, dependency-graph.ts | documents and the passes over them (operators) |
| `Registry` | admin.ts, conformance.ts, get-placement-facts.ts, their queries | registrations and verdicts |
| `Catalog` | compile.ts, registry-validation.ts, get-entry.ts | `Registry` with `compile()` and a dispatch that read it |
| `CatalogProofs` | - | theorems about `Registry` and `Catalog` |
| `MapForEach` | spike 1.8 worker.js | what a durable map promises, at the grain of commits |
| `IrInterpreter` | spike 1.5 interpreter.js, bindings.js, schema.sql | branches and maps under concurrent workers |
| `IrInterpreterProofs` | - | theorems about `IrInterpreter` |
| `Placement` | scheduler/placement.ts and its queries | which content hashes stay resident |
| `PlacementProofs` | - | theorems about `Placement` |
| `MC*` | - | symmetry sets, graphs and workloads of the instances, for TLC |

`RunLifecycle` and `SessionHistory` translate no code: they say what the code is
for, and the detailed modules are shown to implement them. `MapForEach` plays the
same part for `IrInterpreter`, and translates the spike it came from.
`StepDispatch` INSTANCEs `AgentDedup` with the steps as keys; `Catalog` EXTENDS
`Registry` (which EXTENDS `Invocation`) and `WorkflowDocument`.

### WorkerLoop

`runOnce()` is one transaction, so the committed rows (`runStatus`, `status`,
`recorded`) are kept apart from what a worker's open transaction holds (`mine`,
`seen`, `todo`, `rows`), and its writes reach the committed rows in one action,
its commit. That is exactly what other transactions can see: a claimed row reads
`queued` until then, and a rollback is `EndTransaction` alone. Locks are not a
variable; they follow from where a transaction is (`HeldByOther`, `HoldsRun`).

| Action | Code |
|---|---|
| `SubmitRun` | `submitRun`, one transaction |
| `Claim` | `claim_execution()`: lowest id, `FOR UPDATE SKIP LOCKED` |
| `RejectLoose` | `run_id IS NULL`: `RetryableError`, rollback |
| `ResolveReads`, `ResolveThrows` | `resolveStepReads`, or a binding kind it refuses |
| `AgentSucceeds`, `AgentFails`, `AgentUnavailable` | `dispatchStep`: output; failed response or fatal error; `RetryableError` |
| `LockRun`, `RecordOutput`, `CommitCompletion` | `completeStep`, then COMMIT |
| `MarkRunFailed`, `SweepRow`, `CommitFailure` | `failRun`: `failRemainingForRun` waits for rows one by one and re-checks each |
| `DeadlockVictim`, `Crash` | PostgreSQL aborts one of a lock cycle; the worker or its connection is lost |

`recorded` stands for a step's `checkpoints` and `run_node_outputs` rows, which
`completeStep` writes together. `executions.status = 'waiting'` does not occur
here: no step of a run calls `waitFor`.

### DurableExecution

The same tables, used as the engine's exported primitives allow: a client claims
and commits, works outside any transaction, then completes or sleeps in a second
one. `status`, `lease`, `checkpoint` and `waits` are committed rows; `pc`, `mine`
and `left` a client; `found`, `visited`, `woken` and `cur` an open `signal_wait()`
call, which visits the rows of an unlocked scan in any order. Time is relative:
`Tick` brings every lease and timer one step nearer to its end. `checkpoint` is a set:
which executions have an output, not which output.

`DurableHistory` adds `late`, the executions whose row a client has taken after its own
lease had ended. The code lets it (no statement looks at `lease_until` or `worker_id`),
so what a lease is worth, `AloneUnlessLate`, is said of the others.

### SessionLog

One action per statement of `appendEntry` and `rewindSession`. `read` is the
`current_sequence` the lock statement returned; everything after goes by it. A
pointer of 0 also stands for a session without a pointer row (a rewind may create
one and change nothing). `Crash` at any statement rolls back.

### AgentDedup

Every call of `Store` under its mutex is one action, and a sweep happens in
`Attach` as well as by itself. Entries have an identity of their own (`Entries`):
a follower holds the entry it found, which the sweeper may have dropped from the
map meanwhile. `Overrun` is how much longer than `timeoutMs` an invocation may
take counted from its `Attach`: the deadline is set when the command is started,
and killing, reaping it and draining its pipes come after it (`cmd.Run` is used
without a `WaitDelay`). A request is made once, so a retry is another request
with the same key.

### StepDispatch

`WorkerLoop` treats a call to the agent as one step with three outcomes; here it
is opened up. A step's row is queued, done or failed; a call made for it is unused,
open or closed (`call`), and at the agent it is a request of `AgentDedup` with all
of that module's steps. A request is on the `wire` until it is delivered or lost; it
may arrive after its worker has hung up. `clock` runs while a call is open, and
`Patience` is `AbortSignal.timeout`: `invokeTimeoutMs` and the margin.

| Action | Code |
|---|---|
| `Dispatch` | `runOnce`'s claim, `buildInvokeRequest`, `postJson` |
| `ReceiveOutput`, `ReceiveFailure` | a 2xx answer: `completeStep`, `failRun` |
| `ReceiveError`, `Refused`, `GiveUp`, `CallBroken` | 5xx, connection refused, timeout, a break before the headers or a dead worker: rollback, retried by any worker |
| `BodyCut` | a break, or the timeout, after the headers |
| `Deliver`, `Vanish` | `POST /invoke` reaches `Attach`, or never does |
| `CommandEnds` | `execrunner.Run`, and how the command ended |
| `AgentStep`, `AgentSweep`, `AgentDropsFollower`, `AgentLosesLeader`, `AgentRestart` | `AgentDedup` |

`DispatchHistory` adds `lapses`, how often the agent has dropped a result of a step for
its age alone, so that its properties need no bound on the number of calls and hold of
any TTL: a command runs again only for a loss or a lapse, both counted. What they do
need is that a subprocess ends before the agent gives its leader up (`LeaseSuffices`:
by default 30 s and the time to kill it, against 5 min).

### Registry, Invocation, WorkflowDocument, Catalog

`registerImage` is three steps of a transaction: the upsert takes the image's row,
the DELETE reads the function rows it will remove, the commit leaves the rest and its
own. `getEntry` is two statements outside any transaction (`ReadImage`,
`ListFunctions`), cached per digest for one `compile()`; `getPlacementFacts` is one
JOIN. A row stands for the registration that wrote it, so that mixtures show.

`WorkflowDocument` keeps a document as the list of its nodes in the order
`walkNodes` visits them, each with the list it is in; `ScopeOf` is the path of
names the code compares, `EnclosingLists` in the reference definition the tree.
`Invocation` keeps of a value which checks it passes (`Kinds`) and whose it is, so
that "delivered" means that very value. An absolute path is `path` or `missing`: whether
`os.Open` succeeds only the agent can tell (`StdinOpens`).

`Catalog` is one state machine over all of them: a workload says which
registrations, verdicts, document and call an instance has. Between any two
statements of `compile()` or of a dispatch, registrations may commit. `runOnce`
passes no capability yet (worker-loop.ts:92), so `Dispatch` may use the default
`NO_HEAVY_BINDINGS_CAPABILITY` or, as dispatch.ts is written to, what
`getPlacementFacts` returned.

### MapForEach, IrInterpreter

In the spikes a claim is part of the transaction that does the work, so a lost
worker is a rollback. `IrInterpreter` separates the statements that lock or read
what others write (`Claim`, `CountChild`, `LockBlocked`, `Promote`, `CheckOutputs`)
from the commits that publish the rest (`CommitChild`, `CommitNode`, `FanOut`).
Branches fan out into the one step of the case they select, by the same rows as
maps, so both are nodes with children. Spike 1.8 has no node that waits for others,
so a blocked node is a queued one of `MapForEach` that nobody has claimed yet.

### Placement

Each operation of `scheduler/` is a transaction of its caller (`pc`, `began`,
`held`). `now()` in PostgreSQL is the time the transaction began, so `began` is
what `recordAccess` writes and what its pruning and the windowed count subtract
from. Committed rows are `placement` and `accesses`; `pruned` is a history
variable, the rows `pruneOlderThan` deleted. The upsert's row lock keeps other
accesses of the hash out until commit, so one action, `CommitAccess`, applies the
upsert, the logged row and the pruning.

| Action | Code |
|---|---|
| `UpsertAccess`, `CommitAccess` | `recordAccess` up to the row's lock; the rest |
| `PromotionRefused`, `ReadForPromotion`, `CountAccesses` | `evaluatePromotion`: early returns; first statement; second statement and answer |
| `EvaluateDemotion` | `evaluateDemotion`, one read |
| `SetPinned` | `promote`, `demote`: acts on `decision`, the answer of an earlier transaction |
| `WithinCapacity`, `ListPinned`, `PassOver`, `Unpin`, `CommitEviction` | `evictLRUIfOverCapacity`: the list, then row by row against what it read (`seen`, `left`) |
| `Rollback` | an error, a lost connection, or PostgreSQL breaking a lock cycle |

Nothing in `src/` calls `scheduler/` yet, so who calls what when is open: any
caller may do any operation, and `promote`/`demote` follow the protocol of the
module's header (decide, then act).

## Runs

| Run | Instance | Properties |
|---|---|---|
| `WorkerLoop` | 3 workers, fair; run 1: two steps, their join and a lone step, run 2: no steps; one loose execution; 1 crash | the safety properties, refinement of `RunLifecycle`, `RunSettlesUnlessCyclesRecur` |
| `WorkerLoopLockCycle` | 2 workers, run 1 | violates `FailRunNeverConflicts` |
| `DurableSafety` | 2 workers, 2 signallers, 2 executions, 2 waits on one key, 1 crash | no lost or doubled wakeup, lock order, what a lease is worth |
| `DurableLiveness` | 1 worker, 2 signallers, 2 executions, 2 waits, 1 crash, fair | `NoExecutionLost`, `DueTimerWakes` |
| `SessionLog` | 3 clients, 2 sessions, 2 inputs, 3 entries | no gap, no collision, refinement of `SessionHistory` |
| `Dedup` | 3 requests for one key, timeouts of 1 and 2 ticks, overrun 1, lease 2, 1 loss, fair | `OneSubprocessPerKey`, `FollowersShareLeader` while the lease has margin; `ResolvedOnce`, `FollowersAnswered` always |
| `StepDispatch` | a chain of 2 steps, 3 calls, 1 fault, 1 loss of the agent or a leader, fair | runs per loss or lapse, own outcome, nothing left at work, calls end |
| `StepDispatchCutAnswer` | the same | violates `TransportFailureIsRetried` |
| `Catalog` | the workloads below, 3 registrations, 2 verdicts | 8 properties of registry, compiler and dispatch |
| `IrInterpreter` | 3 workers, 1 lost; a branch, a map of 0 to 3 items, a step it reads, a step that reads both; fair | inputs, refinement of `MapForEach`, completion |
| `PlacementWindows` | 2 callers, 1 hash, 5 instants, 3 accesses, transactions of up to a tick | `WindowCountsExact`, `HotIsNeverIdle`, `PinnedEarnedIt` |
| `PlacementEviction` | 2 callers, 2 hashes of 0, 2 or 4 bytes, budget 3, 2 instants | `EvictionReachesBudget`, `EvictionSparesRecentlyUsed` |

Why the bounds suffice for the cases of interest:

- Three workers are one more than any race here needs: two complete or fail
  sibling steps and a third claims what the first promotes. The join is the
  smallest graph with a promotion race, and its two steps may both fail; beside
  it, the lone step may be the run's last at once with the join, so that completion
  is a race too. Run 2 has no steps and is done when submitted. No race is between the
  steps of two runs, which share no row; that any number of runs behaves like one is
  proved. The loose execution has the highest id so that it is reached but hides nothing.
  `MaxCrashes` = 1 loses any one transaction at
  any statement.
- In `DurableExecution` a lease of one tick expires before or after any step; a
  timer is due at once, after a tick, or absent; two waits can be of one
  execution or of two, so that a broadcast has two rows, one of them contended,
  and two broadcasts can meet in opposite orders.
- Three entries are the fewest with a tail of two behind a rewound pointer;
  three clients let two queue on a session while another works on the second.
- Three requests are a leader, a follower and a newcomer after a sweep. A lease of
  2 outlasts an invocation of timeout 1 with its overrun of 1 and not one of
  timeout 2, so one run has both sides of `LeaseHasMargin`.
- In `StepDispatch` the second step waits for the first, so that a call of one may
  overlap a stray request of the other; three calls allow a retry of either, or two of
  one. A fault, a loss of the agent, vanishing messages and late deliveries combine
  freely. One tick stands for the 30 s of a timeout and of the TTL, which is thus shorter
  than the two ticks of a worker's patience, as by default: a result can be dropped while its
  step is retried, and more than once. Without `lapses` in them
  TLC refutes both `CommandRunsOncePerLoss` and `SettledStepIsQuiet`. The lease of 2 is
  the shortest that suffices for a timeout and an overrun of 1.
- `Catalog`'s workloads: every descriptor of up to two entries out of all styles, flags,
  positions and the malformed ones, and some of three, each against inputs of every
  kind; every tree of three nodes of every kind with every way to repeat an id and every
  single reference; every way three steps can wait for one another; and three
  registrations of one image with different functions, two verdicts, a document that
  uses both functions, and a call, all interleaved; the same with one of the
  registrations for a second image, which the document calls too.
- In `IrInterpreter` three items are the fewest whose order of completion can differ
  from the source's in more than a swap; three workers finish two nodes or children at
  once while one is lost. `RunCompletesUnlessSourceEmpty` also lets a behaviour end with
  every worker gone: a worker that leaves a started run must not leave it stuck for
  those that remain.
- In `Placement` five instants let a row leave the window (1), then the horizon
  (2), with a transaction one tick old on either side; three accesses are one
  more than the promotion threshold. For evictions, two hashes of 2 bytes exceed
  the budget of 3 together, one of 4 alone, and one of 0 is passed over; two
  accesses of each change the order after a list was read.

`MaxCrashes`, `MaxWaits`, `MaxLength`, `MaxLosses`, `MaxFaults`, `MaxLost`,
`MaxSize`, `MaxTime`, `MaxAccesses`, `probes` and the number of requests and
registrations are the bounds that stand for no limit of the code; `Horizon`,
`Lease`, `MaxLease`, `Ttl`, `MaxTimeout`, `Margin`, `Overrun` and the thresholds of a
`Configs` record are its configuration in ticks. `MaxDelay` and `MaxPause` are
assumptions on the network and on the supply of workers. `MaxTxn`, the longest a transaction stays open, is an assumption: the code
sets no such limit, but a worker's transaction is as long as its call to the agent.

**Deadlock checking.** The runs of `WorkerLoop`, `Catalog` and `IrInterpreter` turn
it off: once every run has settled, everything asked has been answered, or every
worker has left, nothing is left to do. The other specifications always have a step
(a tick, an append, a rewind, a rollback).

**Fairness.** `WorkerLoop`: `runWorkerLoop` calls `runOnce` again and again and
`runOnce` has no wait of its own without end (`AbortSignal.timeout` bounds the
call to the agent), hence weak fairness of each worker's steps and of
PostgreSQL's deadlock detector; an agent that is dispatched to for ever answers
at last, hence strong fairness of its answer. Nothing is assumed of who gets a
freed row lock. Even so runs need not settle: a worker aborted in a cycle with
`failRun` may claim the same step and rebuild the same cycle, time after time,
which is why `RunSettlesUnlessCyclesRecur` has its first disjunct; with fairness
alone TLC finds that livelock. `DurableExecution`: workers and open signal calls
go on, and time passes; nobody has to signal. Two signallers that deadlock again
and again hold the rows of a sleeper each time a claim looks, and `SKIP LOCKED`
passes them over: hence the exception `SignalsDeadlockForEver`. `AgentDedup`:
handlers run, the sweeper's ticker fires, time passes; nobody has to call.
`StepDispatch`: as `AgentDedup`, and workers poll, their timers fire and a message
does not stay on its way for ever; that it arrives is not assumed.
`IrInterpreter`: a worker that has not left goes on polling and with its
transaction.

## Proofs

The theorems hold for any sets of workers, runs, executions, clients, sessions,
requests, registrations and nodes, finite or not, and for any number of steps. What
they assume of the constants is each module's `ConstantsAssumption` (or
`RegistryAssumption`, `WorkloadsAssumption`, `DispatchAssumption`, `IrAssumption`),
which TLC evaluates in the runs: types, that the values standing for "none" are none of
the values they stand beside, dependencies within one run, and
- in `StepDispatch`, finitely many `Requests`: a step's commands are counted;
- in `Placement`, finitely many `Hashes`, for `EvictionsReachBudget` alone: their sizes
  are added up;
- in `Catalog`, that every digest a submission, a call or a document names is one of
  `Digests`, that a descriptor is a list, and that a document is listed as `walkNodes`
  visits it (`IsWalk`): each node after the node of the list it is in, of the binding
  kinds there are.

Each proofs module has one inductive invariant, a lemma per action (or group of them)
that it is kept, and under it a step per conjunct the action can disturb. The
invariant stands at the end of the module it is about.

**`WorkerLoopProofs`** proves `Spec => []InductiveInvariant` and from it every safety
property of the run `WorkerLoop` (`RowsAgree` is one of its conjuncts), type
correctness, that a failed run has only done and failed steps, and
`ImplementsRunLifecycle`. None of the
properties is inductive by itself. `NoMissedPromotion` needs that what
`completeStep` read (`seen`) is still all that is recorded when it commits; that
needs that nobody else holds the run's row (`RunsExclusive`); and that a step
just promoted was not failed meanwhile needs that a failing transaction either
holds every sibling row still claimable or has it on its list (`ReadsHold`),
which needs that no row is held twice (`RowsExclusive`) and that a claimed row
still reads `queued` (`ClaimsHold`). For the refinement, a commit of
`completeStep` is `Finish`, a commit of `failRun` is `GiveUp` (the failing step
itself is the ready one), `SubmitRun` is `Submit` and all other steps stutter.

**`DurableExecutionProofs`** proves the four safety properties of `DurableSafety`. No
wakeup is lost because whoever satisfies a wait holds the row of its execution: the
locks of two transactions are disjoint (`LocksExclusive`), a call of `signal_wait()`
holds every row it has visited, and what it decided there stays true (`VisitedJudged`).
`SleeperCanWake` is inductive next to these. `ClaimNeverBlocked` follows from the order
in which both functions take their locks, the execution's row before the waits row.
`BroadcastDeliversOnce` is proved of every step. `AloneUnlessLate` is proved of
`DurableHistory`, next to `LeaseCoversWork`: an execution that nobody has taken late is
`running` under a lease at least as long as that of the client at work on it, so that
`claim_execution()` finds it only once that client's time is up; and whoever claims
finds it neither done nor at work, which stays so under the row's lock.

**`SessionLogProofs`** proves `InductiveInvariant`, that replay is gapless and that
no INSERT meets its sequence number, and the refinement of `SessionHistory`. The
invariant's core is `MutationsSerialized`: one open transaction per session,
whose `read` is the committed pointer.

**`AgentDedupProofs`** proves `ResolvedOnce` for any lease, and under `LeaseHasMargin`
that there is one command at a time per key and that followers get their leader's
outcome. Both rest on `LeaderHoldsEntry`: with margin an entry is as old as its
leader's command and so never older than the lease, hence never swept before it is
resolved, hence still the key's. Without margin neither it nor the two properties hold
(see below); that a new leader has to be accounted for only from its `Attach` on is
because budgets only grow (`MarginWasThere`).

**`StepDispatchProofs`** proves `ImplementsAgentDedup`: every step of the composition is
one of the agent or leaves it alone, so that `AgentDedup`'s invariant and theorems, taken
from `AgentDedupProofs` by INSTANCE, hold of the composition. On top of it,
`OutcomeOfOwnCommand` follows from `ResultsOfKey`: results, the entries that hold them and
the followers that wait for them are all of one key, whatever request is late. The two
properties of `DispatchHistory` hold of any TTL, timing and number of calls, under
`LeaseSuffices` alone. `RunsAccounted` counts: of a step's commands there are at most as
many as losses and lapses while its key has neither a leader nor a result, and one more
while it has. A new leader is only made when there is none of either; a leader becomes a
result or a loss (it is not swept, for by `LeaseSuffices` the lease has `AgentDedup`'s
margin), and a result goes by a lapse or a loss. `QuietUnlessLapsed` says that a step
settled, or about to be, whose result never lapsed has no leader, and that a request
still on its way would find the result.

**`CatalogProofs`** proves of `Registry` that an entry is one registration's and a tier
the last verdict's, and of `compile()` that what it accepts was declared by one
registration per image. For the first two, a writing transaction holds the row of its
image alone (`WritersHoldTheLock`), so that what the upsert kept and the DELETE saw is
what is committed when it commits (`DraftsCurrent`); an upsert that takes no lock
(mutant `UpsertDoesNothing`) mixes entries. For the third, each digest's functions are read once,
in one statement, hence are those of one committed registration, which stays committed
(`EntriesOfOneRegistration`), and every step looked at is in them (`JudgedKnown`).

The three properties of a call's inputs follow from `DispatchInvariant`: the capability
that a request is built by is the default or has been through `validateCapability`, whose
descriptors have distinct parameters and positions and one stdin at most. So the places of
the positional entries, ranked by their position, are numbered without a gap (`Ranks`), the
n-th argument is the value of the n-th of them (`ArgumentsRanked`), and what
`assertHeavyBindingIsPath` lets through `assertSafeArgvValue` does too.

The two properties of documents are proved of documents of any size. `VerdictInvariant`
says that the stage tells what `ReferencesValid` has found; the rest is about operators:
- `VisibleWhereEnclosing`: a list's scope path is that of the list its node is in and the
  node's own segments (`ScopesBuilt`), no two lists have the same path while ids are unique
  (`PathsDiffer`), and none has a path that ends between a branch and its case, so that one
  path begins another exactly if the one list encloses the other. Without unique ids this
  is false, and `validateStepReferences` reports visibility along with duplicates.
- `VerdictRight`: hence `ReferencesValid` is `Resolvable`.
- `CyclesStay` and `RoundsSuffice`: what waits in a circle is in no round of promotion; a
  round that adds nothing leaves behind only nodes that wait for one another, so without a
  circle each round completes another node, and as many rounds as nodes complete all.

The scopes, the enclosing lists and the rounds are recursive functions. The prover cannot
use the library's induction theorems, so `Recursion` shows that a function with such
equations exists, and statements about all of its values are proved by a least
counterexample (`Least`, from the library's well-foundedness of finite sets).

**`IrInterpreterProofs`** proves `InputsReady` and the refinement of `MapForEach`, for any
workflow and any number of workers. A worker has to itself the row it claimed, the
blocked rows it locked and the counter it reads (`Current`), so that a counter is at all
times the number of children done (`Counted`); hence only the child that makes it
equal to the total re-queues the node, and the join finds the outputs of all. A node is
promoted by a transaction that holds its row and finds all it reads in the outputs,
which are never deleted (`RowsHaveInputs`). For the refinement, `FanOut` is `FanOut`, the
commit of a child `ProcessStep`, the commit of a rejoined node `Join`, and the rest
stutters: a blocked node promoted is queued before and after.

**`PlacementProofs`** proves its `InductiveInvariant` without any assumption on the
configurations, hence `PinnedEarnedIt`: the answer `promote()` acts on may be
stale, but what made it true (declared interactive, accessed often enough) cannot
be undone. `WindowCountsExact` and `HotIsNeverIdle` are proved under `Margin`:
every window plus `MaxTxn` fits in every idle threshold. The defaults (7 and 20
minutes) leave 13 minutes for the longest transaction, more than any invocation
with the agent's default limit of 5. The argument: `last_accessed_at` can go back,
but by no more than a transaction is long (`LastAccessedIsRecent`), and a row is
pruned only when older than the recorder's horizon at a time that has come
(`PrunedIsOld`).

The two properties of evictions are proved of every step. An eviction goes through the
rows it read in the order of their use (`EvictionInOrder`), under a lock on each it has
unpinned, and a row differs from what was read only once it was accessed, which its count
shows (`ReadsStandUntilAccess`). So when it commits undisturbed, what is pinned is among
the rows it read and kept, at no more than the size it read, and it ended because those
fit the budget, or because none with a size was left (`EvictionEnds`, `TotalSizeMonotonic`).

Model-checked only: liveness (`RunSettlesUnlessCyclesRecur`, `NoExecutionLost`,
`DueTimerWakes`, `FollowersAnswered`, `CallsEnd`, `RunCompletesUnlessSourceEmpty`):
fairness and ENABLED are beyond the prover. Every other property of a passing run is
stated by a theorem.

## Where the code and its comments part

- **failRun and lock cycles** (`WorkerLoopLockCycle`). The comment on
  `SQL_FAIL_REMAINING_EXECUTIONS_FOR_RUN` says rows other workers are
  mid-dispatch on are left alone because they are `running`. In a worker's single
  transaction they are not seen as `running` but as `queued`, so the sweep waits
  for them while it holds the run's row, which their holder will ask for.
  Safety does not suffer (a row it waits for is re-checked); a command may be run
  again, and see the livelock above.
- **Cut answers** (`StepDispatchCutAnswer`). The comment in agent-client.ts says
  (lines 59-61) transport failures and a client-side timeout are safe to retry; those that happen
  after the response's headers are not retried, they fail the run.

Also seen, and no run:

- **Retention.** The agent keeps a result for 30 s by default (`-dedup-ttl`,
  config.go:71), the worker waits 30 s and a margin of 5 for an answer. The answer of a
  quick command that is lost without a trace is noticed after its result has been
  dropped: the retry runs the command again. `lapses` counts these cases, and the run
  `StepDispatch` has the same proportions. ADR-0008 accepts repetition in this window;
  runOnce has no checkpoint of its own to look at.
- **The deduplication lease.** With the default flags the lease is as long as the
  longest timeout (dedup.go:28, config.go:72), so the sweeper can give up on a live
  leader, and dedup.go:106-109 (no second invocation while the leader's work is in
  flight) holds only under `LeaseHasMargin`. The entry it gives up on is deleted in the
  same sweep, so the case `Resolve` describes as "already force-expired by the
  sweeper" is only met when a successor's entry has been resolved; otherwise a late
  `Resolve` makes a new entry or resolves the successor's with its own result.
- **waitFor from any status.** Its comment (wait.ts:13) says `running` -> `waiting`;
  the UPDATE (executions.queries.ts:31) has no condition, so a worker that outlived its
  lease puts an execution another worker completed back to sleep.
- `SQL_MARK_WORKFLOW_RUN_DONE`'s guard `status <> 'failed'` never excludes
  anything while workers complete in one transaction, because a failed run has no
  step left that could complete.
- The comment in `recordAccess` (placement.ts:98-107) says that pruning by the
  wider of its own config's windows removes the gap whatever config another caller
  passes; a caller of `evaluatePromotion` with a wider window than both still
  misses rows. `Margin` is what the configs in use must satisfy instead.
- `last_accessed_at` does not always advance: `now()` is the begin of the
  transaction, and transactions commit in another order.
- Comments describe a demoted or evicted row as one without a replica, hence cold;
  nothing ever clears `replica_id`, and `resolvePlacement` answers `warm-replica`.
- `compile()` accepts cycles, also of a step that reads a node it is nested in; the
  run of such a document never settles. `getEntry` may return parts of two
  registrations, which get-entry.ts:6-9 accepts; `AcceptedByOneRegistration` shows that
  what `compile()` concludes from it is sound all the same.
- A descriptor with gaps in its positions, or an input that leaves out an optional
  positional parameter, moves the later ones forward; two entries may share a flag.
  Number inputs below zero are refused as if they were flags. A stdin
  path that is relative or cannot be opened passes the worker and is refused by the
  agent (execrunner.go:210-223), after the claim.
- In spike 1.5 a map over an empty source waits for children for ever; two last
  nodes can each miss the other's output and leave the run running; a run is done
  once its outputs are there, whatever still runs.

## What is abstracted

- Inputs, outputs and bindings carry no values: an output is recorded or not.
  `resolveStepReads` fails only for binding kinds it refuses.
- Uncommitted writes are not a state of their own; a transaction's commit
  applies them. READ COMMITTED is represented where it shows: `SweepRow`,
  `SignalSatisfy` and `ClaimCommit` read committed rows when their locks are
  granted. The scan of `claim_execution()` and its row lock are one step, so the
  re-evaluation of its `EXISTS` against an older snapshot is not represented.
- A client's INSERT with a foreign key and the UPDATE that follows take two
  modes of one row lock; `LockOwnRow` takes the stronger at once.
- `attempts`, `worker_id` and the timestamps no decision depends on are left
  out, and so is NOTIFY: a poll always follows.
- A caller's transaction in `Placement` does one operation; operations of one
  transaction on several hashes can deadlock, which ends as `Rollback` does. The
  `at` option, which the source exposes for tests, is never given; the database's
  and the callers' clocks agree. `session_id`, `pinned_at` and `replica_id` (bound by
  an access, never cleared, read only by `resolvePlacement`) are left out.
- A leader lost in `AgentDedup` is lost after its subprocess ended, or with the
  whole agent. In `StepDispatch` a failed step fails no other: that is `WorkerLoop`'s.
  A 4xx answer (a body the agent cannot decode, a wrong token) is left out.
- A capability's fields that no rule relates to another are one Boolean, `typed`, and so
  is the schema of a submission; YAML and JSON-schema validation are an attribute of the
  document (`form`). A registration's transaction never meets a constraint: its
  functions' names are distinct keys.
- `MapForEach` gives maps of one body step, and `IrInterpreter` one step per case and
  body, as both spikes' code has it.
- Not modelled at all: the components listed as such in `PROJECT.json`, with the
  reason there.

## Plan

1. *Done.* `RunLifecycle`, `WorkerLoop`, its proofs; `DurableExecution`;
   `SessionHistory`, `SessionLog`, its proofs; `AgentDedup`; `Placement`, its proofs.
2. *Done.* `StepDispatch`; `Registry`, `Invocation`, `WorkflowDocument` and their
   composition `Catalog`; `MapForEach` and `IrInterpreter`.
3. A finer `DurableExecution`: `claim_execution()`'s scan and lock as two steps, with the
   re-evaluation of `EXISTS` that READ COMMITTED does in between.
4. *Done.* Proofs of `AgentDedup`, `DurableExecution`, `StepDispatch`, `Registry` and
   `Catalog`, `IrInterpreter`.
5. *Done.* Proofs of a call's inputs, of documents of any size and of evictions.
