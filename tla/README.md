# TLA+ verification of the QhapaqXian task runtime

QhapaqXian is a PostgreSQL 17 fork that runs agent tasks inside the server. A
task is a row of `pg_qx_task`. Client sessions create and resume tasks, a
scheduler of background workers supervises, repairs and retries them, and a
recovery scan leaves evidence for what was interrupted. All of them change the
same catalog rows, each in its own transaction and mostly from rows it read
earlier. Around them, a launcher keeps the workers alive, tool calls charge
budgets and register instances in shared memory, and replays and statistics mix
transactional rows with shared memory that no transaction rolls back. This
directory models these parts, checks them with TLC and proves their main
properties with TLAPS.

Source paths below are relative to `src/src/backend/qx/` unless they start with
`docs/`.

## The system

| part | code | state | changed by |
|---|---|---|---|
| task and attempt lifecycle | `runtime/qx_runtime.c`, `catalog/qx_catalog.c` | `pg_qx_task`, `pg_qx_attempt`, `pg_qx_checkpoint` | RUN TASK, RESUME TASK, reclaim, retry, dead letter, `pg_qx_test_start_*` |
| scheduler ledgers | `scheduler/qx_scheduler.c` | append-only queue, lease and heartbeat rows; the largest oid of an attempt is its latest row | all of the above, scans, renewals |
| database workers | `QxRuntimeSchedulerDatabaseWorkerMain` | none of their own | a supervision transaction, then a retry transaction, every second |
| recovery | `recovery/qx_recovery.c` | `qx_runtime_recovery_snapshot` in each backend | first submit or resume of a backend, `pg_qx_test_run_startup_recovery`, failover rebuild |
| launcher and slots | `QxRuntimeSchedulerLauncherMain` | list of workers in its memory; the shared slots of `postmaster/bgworker.c` | every 3 s, from the connectable databases and the slot count; the postmaster |
| backend lease registry | `observe/qx_stat.c`, `runtime/qx_backend_supervisor.c` | a fixed table in shared memory | tool calls, reclaims |
| statistics | `observe/qx_stat.c` | a table of 512 slots in shared memory | every part |
| budget | `QxCatalogChargeTaskBudget` | consumed tokens and cost in `pg_qx_task` | tool calls |
| tool execution | `qx_execute_tool_contract`, backends, tool runner | external processes | submit, resume, retry |
| semantic log | `replication/qx_semantic_log.c` | log records, replay traces | checkpoints, replay |
| planner, executor, security, memory, commands, views | other directories | policy catalogs | DDL |

What makes this hard to test: the operations run in separate transactions and
write rows by oid without looking at their state again; a commit can therefore
overwrite what was committed after its read. What prevents this is spread out:
the unique index on `(taskid, seqno)` of the attempts, the partition of tasks
into worker slots, and the state checks at the start of each operation. A crash
or an error between any two steps drops what was not committed, but not what a
backend remembers in memory.

## Modules

| module | models |
|---|---|
| `QxSchedulerPolicy` | priorities, queue kinds, lease and backoff times, the order of retry candidates: pure operators |
| `QxRuntime` | the catalogs and ledgers, the session operations, the scan, the workers, crashes |
| `QxTaskLifecycle` | the abstract promise: every committed change of a task row is one of a few moves from the row as it then was |
| `QxRetrySelect` | the loop of one retry cycle over a list in arbitrary order |
| `QxRuntimeInv` | the inductive invariant of `QxRuntime` |
| `QxLauncher` | the launcher's cycle, the background worker slots and the postmaster's list |
| `QxToolCall` | a transaction around a tool call: row lock, budget charges, backend lease table |
| `QxLeaseSet` | the abstract promise of the lease table: a bounded set of (task, instance) pairs |
| `QxStat` | the statistics table and its readers |
| `QxReplay` | semantic replay of checkpoints, on top of `QxStat` |
| `MCQxRuntime`, `MCQxRetrySelect`, `MCQxToolCall`, `MCQxReplay` | instances for TLC |
| `QxRuntimeRowProofs`, `QxRuntimeProofs` | proof of the inductive invariant: rows, frames and session steps; worker steps, aborts and crashes |
| `QxRuntimeSteps` | properties, step properties and the refinement, from the invariant |
| `QxRetrySelectProofs` | the selection order, the selection loop, the bounds and the growth of the backoff |
| `QxLauncherProofs`, `QxToolCallProofs`, `QxReplayProofs` | the invariants of these modules |
| `QxToolCallSafety` | `QxToolCall` continued: no charge is lost; the lease table, its invariants and the refinement of `QxLeaseSet` |

### QxRuntime

State: `task` (state, last attempt as a seqno, checkpoint as the seqno of the
attempt that wrote it), `att`, `ckpt` and the latest `queue` and `lease` row of
every attempt; `txn` is the open transaction of a session, `scanned` the flag
of its backend, `wk` the transaction of a worker.

Every operation is one transaction in two steps. *Begin* checks the conditions
of the code on the committed rows and remembers what was read. *Commit* writes
everything the operation writes, from what it remembers. Between them any other
step may happen. An operation's early returns are the guards of its Begin; a
tool failure, an exceeded budget, a lost row lock and a cancelled statement are
`Abort`. `Broken` is the set of tasks whose tool fails every time.

| code | actions |
|---|---|
| `QxRuntimeSubmitTask` | `BeginSubmit`, `CommitSubmit` |
| `QxRuntimeResumeTask` | `BeginResume`, `CommitResume` |
| `pg_qx_test_start_recovery_attempt` | `BeginStartRecovery` (CHECKPOINTED task), `BeginStartRecoveryAgain` (RUNNING task), `CommitStartRecovery` |
| `qx_runtime_test_start_uncheckpointed_task` | `BeginStartUncheckpointed`, `CommitStartUncheckpointed` |
| `qx_runtime_test_start_exhausted_retry_task` | `BeginStartExhausted`, `CommitStartExhausted` |
| `qx_runtime_ensure_startup_recovery_scan` | part of the Begin and Commit of the operations that call it; `BeginScan`, `CommitScan` |
| `QxRecoveryRunFailoverRebuild` | `BeginRebuild`, `CommitScan` |
| `pg_qx_test_run_scheduler_worker_tick` | `BeginTick`, `CommitTick` |
| `qx_runtime_run_scheduler_cycle`, `qx_runtime_reclaim_running_attempt` | `BeginSupervise`, `CommitSupervise`, `AbortSupervise` |
| `qx_runtime_run_scheduler_retry_cycle`, dead letter, dispatch | `BeginRetry`, `CommitRetry`, `AbortRetry` |
| end of a backend; server crash; passage of time | `Reconnect`; `Crash`; `LeaseExpires`, `BackoffElapses` |

Today RUN TASK, RESUME TASK and a retry write RUNNING and leave it again within
one transaction, so a committed RUNNING task comes from the `pg_qx_test_start_*`
hooks, which exist to produce the state a killed dispatch would leave. They are
modelled as operations like the others because supervision and recovery are
written for that state.

Abstractions, and why they are sound for the properties:

- The ledgers are append-only and the code reads only the latest row of an
  attempt. A row gets its oid when it is inserted, not when it commits, so two
  concurrent transactions may commit in one order and be ordered the other way.
  The parameter `late` of a commit chooses: if another row was committed since
  the transaction read, its own row is the latest only if `late`.
- The reads of one transaction are one step. The code reads its rows one after
  the other, so it may also see a later version of a row it reads late; every
  such read can be explained by a later Begin for the row it decides on.
- Time is two flags per row, expired and backoff over, that may become true at
  any moment. The arithmetic is in `QxSchedulerPolicy`.
- `renewals` is 0 or 1: the code only asks whether it is positive. `retry` is
  kept for RETRY rows only, no other row's count is read.
- One role owns all tasks. Steps, events, traces and heartbeats are evidence
  that no decision reads. The reclaim's call to the shared backend lease table
  belongs to the registry, which no decision of this module reads either.

### QxLauncher

Three views of a worker change in separate steps: the launcher's list
(`handles`), the shared slot array (`slot`: in use, generation, pid, terminate
flag) and the postmaster's list (`known`, `rwterm` in the same record). A
(database, slot index) pair is a key.

| code | actions |
|---|---|
| `QxRuntimeSchedulerLauncherMain`, one iteration | `Cycle`, then `ForgetStopped`, `StopUnwanted` or `KeepAlive` for every handle, then `AlreadyThere`, `Launch` or `LaunchFails` for every wanted key |
| `BackgroundWorkerStateChange` | `NoticeNew`, `NoticeTerminate` |
| `maybe_start_bgworkers` | `StartWorker`, `ForgetWorker` |
| `CleanupBackgroundWorker`, `ReportBackgroundWorkerExit` | `WorkerStops` (after SIGTERM), `WorkerFails` (exit code 1) |
| restart of the launcher; crash restart | `LauncherFails`; `ServerCrash` with `Rebuilt` |
| CREATE or DROP DATABASE, `datallowconn` | `TargetsChange` |

The slot count is a constant: it is read from the postmaster's environment,
which does not change while it runs. Handles and keys are taken in any order.
Other users of background worker slots are left out: `NumSlots` is what remains
for these workers.

### QxToolCall and QxLeaseSet

A transaction (`txn[s]`) inserts or fetches the task row, gets it (`Lock`),
makes the charges of its `Script`, calls the tool, registers the instance,
validates the reply, releases it and charges what the reply says. A reclaim
updates the row and fences. `row` is the committed row; `lease` is the shared
table.

| code | actions |
|---|---|
| `QxRuntimeSubmitTask` | `Submit`, then the charges |
| `QxCatalogUpdateTaskRuntime` of resume, retry, reclaim | `Fetch` (the read), `Lock` (the update) |
| `QxCatalogChargeTaskBudget` | `Charge`, in `FixedCharge` and `ChargeExternal` |
| `qx_execute_tool_contract` | `CallTool`, `Register`, `Validate`, `Finish` |
| `qx_runtime_reclaim_running_attempt` | `ReclaimFence` |
| `QxStatBackendLeaseRegister`, `...Release`, `...Fence` | `LeaseRegister`, `LeaseRelease`, `LeaseFence` |
| `pg_qx_test_*_backend_lease*` | `Hook` |
| any error; crash restart | `Abort`; `Crash` |

An update of a row that another transaction has updated waits for it and fails
if that one commits: `Lock` waits, and a `stale` transaction can only abort.
Integers wrap around as in the build (`-fwrapv`); an int32 of the run has four
bits. A reply without an identifier is registered under a buffer that is out of
scope; `DanglingIds` is what it may read as. The state checks of the lifecycle
are those of `QxRuntime`; here any kind of transaction may be tried on a
committed row, so more interleavings are covered than the code allows.

A reply may name a container, a microVM, both or none, whatever backend ran. The
code registers the identifier of the backend (`RegisterAs`) and releases the
container's before the microVM's (`ReleaseId`); when the two differ, a successful
call leaves its entry behind. The test functions take any oid, that of a task
with a running call included, and lock no row. So an entry can outlive its call
in three ways, and `left` is the history of the entries that did: the call
failed, its reply named another instance to release, or a test function put the
entry there. `mine` is the entry a running call accounts for; a test function
that removes it ends that. `billed` is the history of the committed charges.
After `Finish` only the charge is kept of a reply, as nothing else of it is read.

### QxStat and QxReplay

`QxStat` has the slots, each with its entity and one counter in place of all;
`Report` is `qx_stat_with_entry`, `Lookup` and `Read` are the two halves of a
`pg_qx_stat_get_*` function, before and after the unlock. `QxReplay` adds the
calls of `pg_qx_test_run_semantic_replay` and of the replay part of
`pg_qx_test_run_failover_rebuild`: `List`, one `Look` per checkpoint
(`QxCatalogCheckpointHasSemanticReplay`, a new snapshot each time), one `Replay`
per checkpoint found without a trace, `Finish` with the report to the
statistics, then another call, `Commit` or `Abort`. Every checkpoint row is
written DURABLE and with an LSN, so `QxRecoveryCheckpointNeedsReplay` is true for
all. The logical message is transactional and goes with the trace. Statistics
are tracked (`qhapaqxian_track_stats` is on by default). A checkpoint written in
the same transaction as a replay, and the history table of
`pg_qx_stat_snapshot`, are left out. `total`, `covered`, `owed`, `before` and
`listed` are history.

## Runs

| run | instance | shows |
|---|---|---|
| `core` | 1 task, 2 sessions, 1 worker, 3 attempts; all operations but rebuild and recovery of RUNNING tasks | `TypeOK`, `RowsAgree`, `CheckpointedIsResumable`, `LastIsNewest`, `FinalStatesStay`, `CheckpointKept`, `ImplementsLifecycle`: 561,302 states |
| `slots` | 2 tasks, 1 session, 2 workers on 2 slots, 2 attempts; with rebuild | `RowsAgree`, `LastIsNewest`, `ImplementsLifecycle`: 306,840 states |
| `again` | 1 task, 2 sessions, 1 worker, 4 attempts; recovery attempts on RUNNING tasks | `IInv`, `FinalStatesStay`, `CheckpointKept`: 48,372 states |
| `live` | 2 tasks, 1 session, 1 worker, 2 attempts, fairness; scans (with the first operation of a backend), recovery attempts, ticks | `HeldLeaseSettles`, `RetrySettles`: 65,938 states |
| `select` | every list of 8 rows that differ in one rank each | `SelectsBest`, `BackoffGrows`: 19,683 states |
| `launcher` | 2 databases, 1 slot index, 3 worker slots, 2 faults of any kind, 2 changes of targets, fairness | `TypeOK`, `HandlesNameWorkers`, `DuplicatesBounded`, `ServedUnlessFull`, `UnwantedReaped`: 416,099 states |
| `toolcall` | 1 task, 2 sessions, 3 transactions, a lease table of 2; test functions on the task and on another oid | `TypeOK`, `NoLostCharge`, `BilledWithinCeiling`, `NoDuplicateLease`, `InFlightListed`, `ListedExplained`, `IsLeaseSet`: 155,544 states up to symmetry |
| `replay` | 2 backends, 2 checkpoints, 3 calls; 3 entities on 2 statistics slots, 1 reader, 1 reset or crash | `TypeOK`, `OneSlotPerEntity`, `ShownWasReported`, `OncePerBackend`, `OnlyOverlapping`, `ListedIsReplayed`, `CommittedIsCounted`: 949,185 states up to symmetry |
| `fenced` | 1 task, 1 session, 1 worker, fairness | `CheckpointBackedRepaired` is violated |
| `broken` | 2 tasks, one with a failing tool, fairness | `RetrySettles` is violated |
| `scanrace` | 1 task, 1 session, 1 worker | `QueuedHasRetryRow` is violated |
| `launchdup` | 1 database, 2 slot indices, 4 worker slots, 1 failing worker | `BoundedSlotSet` is violated |

Bounds. A race needs two transactions on one task: two sessions and a worker
give all pairs and one triple. Three attempts (`MaxAttempts`) are enough for
submit, a recovery attempt, its repair and a resume; the fourth in `again` lets
a recovery attempt be opened on a RUNNING one, be overtaken by a reclaim and be
followed by another. Two tasks with different weights are enough for selection
and head-of-line effects. The bound on attempts restricts only the operations
that create one.

In `launcher`, three worker slots for two keys leave room for one duplicate and
let the array fill up with two faults, so that `LaunchFails` and the reuse of a
slot under a new generation happen. In `toolcall`, a table of two is filled by
one task and one foreign entry; three transactions are a submit and two that
overlap on the row or follow each other; the tokens have a ceiling that charges
reach exactly and exceed, the cost has none and wraps around in both directions.
Its symmetry permutes the sessions, and all it checks is safety.
In `replay`, two slots for three entities make the table full, two backends
overlap and the third call repeats a replay in the same or in a new transaction.
Its symmetry permutes checkpoints, backends and the two providers, which the
module treats alike; it checks no liveness.

The proofs below remove these bounds for all safety properties. Deadlock is
checked in every run.

Fairness (`Fairness`). Time passes. A worker is restarted a second after it
ends (`bgw_restart_time = 1`) and loops with a nap of one second, so its steps
get strong fairness: errors and crashes may interrupt it any number of times but
not every time. A tick renews every held lease, as a live owner would, and may be
called for ever; `HeldLeaseSettles` therefore lets another tick put the end off,
so that a lease is settled once ticks stop. `RetrySettles` is about finitely many
tasks: heavier ones that arrive without end would keep a light one waiting.
`CommitRetry` of a failing tool is never enabled, which fairness
does not change; the error path of the retry transaction is weakly fair because
an error always ends it. Sessions promise nothing. In `QxLauncher` the launcher,
which naps three seconds at most, and the postmaster on each slot are weakly
fair; a worker that got SIGTERM ends because it checks for interrupts in its
loop. Faults and changes of the databases are not fair and end by their bounds.

### What the four violations say

- `fenced`: `docs/stage-26/README.md:43-45` says that stale checkpoint-backed
  attempts are repaired in place before startup or failover hooks see them. A
  startup scan fences any RUNNING attempt, whether its lease ran out or not, and
  changes only the lease. The supervisor then skips the attempt because its
  lease is not HELD (`runtime/qx_runtime.c:4256`): the task stays RUNNING.
- `broken`: `docs/stage-27/README.md:23-25` says that a stale task without a
  checkpoint is retried or dead-lettered. A failing dispatch rolls back the whole
  retry transaction (`runtime/qx_runtime.c:5680`), so its retry count never
  grows, and the worker selects the same task in the next cycle.
- `scanrace`: `docs/stage-32/README.md:46-49` says that scans are idempotent once
  the supervisor wrote its evidence. A scan that read before the supervisor's
  commit appends a RECOVERY row behind the RETRY row, and the retry cycle reads
  the latest row only.
- `launchdup`: `docs/stage-26/README.md:30-32` says that the launcher spawns a
  bounded slot set of workers per connectable database. A worker that ended with
  an error has pid 0 until the postmaster restarts it a second later, and
  `GetBackgroundWorkerPid` calls that stopped. The launcher forgets it
  (`runtime/qx_runtime.c:5511`) and registers another; then both run with the
  same slot index. `DuplicatesBounded` is what does hold.

## Proofs

All theorems hold for any number of tasks, sessions, workers and attempts.

The properties are not inductive: whether a commit is harmless depends on what
its transaction read and on what happened since. `IInv` adds

- `RowFacts`: attempts are numbered without gaps from below, every checkpoint
  belongs to an attempt, a task that may need its checkpoint has a resumable one;
- `SessionFacts`: a new task is still absent and created by one session only; a
  transaction that continues a task can insert its attempt only as long as
  nobody else continued it. This is where the unique index does its work;
- `WorkerFacts`: the tasks a worker is about to change are its own, RUNNING with
  the checkpoint it read (supervision) or exactly the QUEUED row it read (retry).

`Consistency` proves `IInv` under `OneWorkerPerTask`, that no two workers own a
task: a session step is harmless because of the index, a worker step because
sessions do not touch RUNNING (without the recovery hook) or QUEUED tasks and
other workers do not own them. `RuntimeTypes`, `RowsStayConsistent`,
`CheckpointedStaysResumable`, `FinalStates` and `CheckpointsKept` follow. When no recovery attempt is opened on a RUNNING task,
`ExactFacts` is invariant too: what a worker read is exactly the current row.
From it come `LastNewest` and `Refinement`, that `QxRuntime` implements
`QxTaskLifecycle`: stale reads notwithstanding, every commit is a move from the
current row. With such recovery attempts both are false, since a late reclaim
moves the last attempt back; the run `again` checks what remains.

`BetterIsTotalOrder` and `SelectionIsBest` show that the retry cycle's choice
does not depend on the order of the heap scan. `BackoffBounded` bounds the delay
and shows that its products fit into 32 bits. `WaitsGrow` compares the delays of
two retries in a row. A delay is the base of the
priority (`BaseOfPriority`: 2.25 s to 72 s), doubled with every retry and capped
at a minute; its jitter is less than an eighth of it (`JitterBounds`), so a wait
with jitter is shorter than the doubled delay. The scheduler gives up after
`MaxRetries`; for larger counts, where the factor stays 8, only the bounds hold.

`QxLauncherProofs`. `HandlesNameWorkers` is inductive with three more facts:
the postmaster knows only slots in use (`KnownInUse`); while nothing has failed,
every registered worker that nobody asked to end is on the launcher's list
(`QuietRemembers`); and the workers of a key that may live again after a crash
are paid for by faults and changes (`OwedBounded`), which is needed because a
crash forgets the terminate flags the postmaster has not noticed. From them
follow `LauncherTypes`, `HandlesSound` and `DuplicatesStayBounded`.

`QxToolCallProofs`. The ceiling needs that at most one transaction holds a row
(`Exclusive`), that a transaction that is not stale has read the current row,
and that what it adds is what it will bill (`LedgerOK`); `CeilingKept` follows.
Where charges wrap around this equality is lost. `NoChargeLost` in
`QxToolCallSafety` rests on a weaker one, `WrappedOK`: the bill and the row, and
the row with the open bill and the count of a transaction that is not stale,
differ by a multiple of 2^32 (`Same`), which addition and `Wrap` keep. It needs
no ceiling and no bound on the charges. What a step does to the count
(`StepCounts`, `CommitCounts`) is proved once for both arguments.

For the lease table `TableInv` joins the three table properties to `CInv`:
a session that validates a reply holds the row, so by `Exclusive` no reclaim and
no other call of the task can remove its entry (`ReleaseEffect`: a release clears
at most one slot, of its own task). The test functions are not kept away by a
lock; `HookMoves` says that they change no more of a transaction than the
entry it accounts for. `LeftMove` says that what is left stays so while it is
listed. `OwnEntry` says what becomes of a call's own entry when
the call ends. `LeasesDistinct`, `InFlightStaysListed`, `EntriesExplained` and
the refinement `TableIsLeaseSet` rest on it. The refinement needs that a table
with a free slot has fewer entries than slots.

`QxReplayProofs`. `StatInv` adds to the slot properties that a slot never counts
more than was reported for its entity and that a reader's pointer is to a slot
of its entity unless everything was reset (`SlotsReported`, `PointersGood`).
`RInv` adds, for every backend, what its transaction has written, planned and
skipped relative to the committed traces: what it plans has no trace of its own,
what it skipped has a committed trace or its own, and what it began with it does
not plan. `SlotsStayDistinct`, `ShownStaysReported`, `ReplayTypes`,
`ReplayedOnce`, `OverlapNeeded` and `ListedStaysReplayed` follow.
`CommittedIsCounted` compares a counter with calls of all backends, some
committed and some only reported. Their sum would need induction over the
backends; `CountInv` says instead that every such call can be given a number of
its own (`Numbered`) and that the counter is at least the largest one. A report
takes the next number, a commit keeps it, an abort leaves a gap, a reset or a
crash takes all numbers back. `CommittedStaysCounted` follows.

Assumptions: those on the constants (`RuntimeAssumption`, `EntriesAssumption`,
`LauncherAssumption`, `ToolCallAssumption`, `StatAssumption`,
`ReplayAssumption`) and `OneWorkerPerTask`
where a theorem names it. `DuplicatesStayBounded` says when the last one can be
relied upon: as long as no worker, launcher or server has failed, a slot has one
registered worker. After a failure it may have two (`launchdup`), and the
theorems of `QxRuntime` that assume it say nothing.

Only model-checked: liveness (`HeldLeaseSettles`, `RetrySettles`,
`ServedUnlessFull`, `UnwantedReaped`), which needs fairness and ENABLED, both out
of the prover's reach. Every invariant, step property and refinement of a passing
run is also a theorem; the four violations are TLC's counterexamples.

## Not modelled

The repository is a whole PostgreSQL server of 1.6 million lines, nearly all of
it upstream code; the models cover about a quarter of the 18,000 lines the fork
adds under `src/backend/qx` and the parts of the postmaster that the launcher
stands on. Upstream behaviour appears only as the rules the fork relies on: row
locks, snapshots, commit, abort, crash restart.

- Texts. Receipt validation (`qx_validate_external_result`), the planner's choice
  of a tool by matching words, the parsing of policy options, the command lines
  and profiles of the container and microVM backends, the JSON of the semantic
  log and its decoding compare or build strings and keep no state. A model would
  repeat them or choose their result freely, which is what `Validate` does.
- The tool runner and the launcher program are processes with one pass of I/O.
- Views and SQL functions that only read; DDL on single policy rows; agent memory,
  which is single inserts and scans: PostgreSQL's transactions are all there is.
- Owners. All modules have one role. A member of the owner's role that resumes a
  task leaves rows with another owner; what a scan should make of them is not
  stated anywhere.
- Promises nobody makes. A charge that wraps around passes the ceiling
  (`BilledWithinCeiling` is about charges that cannot); a reader that a reset of
  all statistics has overtaken may show the counters of another entity; a backend
  whose first scan fails does not scan again. The models have these steps, the
  properties leave them out.
- Wraparound of oids, by which "latest row" is decided, and the WARNING raised
  under the spinlock of the statistics table: both are listed as hazards without
  a property because nothing states what should hold.
- The history rows of `pg_qx_stat_snapshot` and their pruning, heartbeats, steps
  and events: evidence that no decision reads.
