# TLA+ models of blackbase

blackbase runs optimisation Cases under a *Project L0* runtime: a parent process
hands out resource leases, shared budget units and tasks to Cases and workers
that live in other threads, processes or machines, through stores in memory, in
SQLite or in Redis, and collects what the Cases publish. This directory holds
TLA+ models of the parts where those actors meet, TLC configurations that check
them on small instances, and TLAPS proofs of every safety property that the passing
runs check.

Paths below are relative to `src/src/blackbase/` unless they start with `src/`.

## 1. The system

| Part | State it keeps | Operations | Talks to |
|---|---|---|---|
| Lease authority (`resources/lease_store.py`, allocator in `resources/model.py`) | lease rows (status, expiry, fencing token, demand, devices), the fencing counter | acquire, renew, release, is_current, get/list, recover_expired | everything that must prove it still owns its resources |
| Shared budget (`resources/budget.py`) | budget rows (limit, committed), reservations bound to a lease and its fence | configure, status, reserve, consume, complete, cancel, reclamation of stale reservations | reads the lease table in the same transaction |
| Budget accounts and settlement (`resources/budget_account.py`, `budget_settlement.py`, `project/invocation.py`) | claims of one account and what they spent, the settlement journal | reserve, consume, complete, cancel, cancel_all; delegation to a child, its settlement, the sweep of what a dead parent left | shared budget |
| Task transport (`resources/transport.py`) | task records, queue, index of leased ids, claims held by workers | submit, claim, heartbeat_task, complete, fail, cancel, recovery of expired claims | workers and Project L0 |
| Local compute pool (`resources/pool.py`) | free threads, executor views, futures | submit, as_executor, the view's submit and shutdown, scheduler shutdown, done callbacks | Case stages, parallel slots |
| Grant pool (`resources/grant_pool.py`) | what is left of one grant, free device tokens | acquire of a slice with a deadline and its return | nested Cases |
| Cancellation control (`resources/control.py`) | control rows with parent, TTL, retirement | create, read (walks ancestors), request, touch, retire | every running Case polls it |
| Project L0 runtime (`project/runtime.py`) | lease guards, issued cancellation references | start_lease_guard, assert_current, new_cancellation_ref, close | lease authority, control |
| Artifact ledger (`resources/artifacts.py`) | reservations, provisional bytes, commit records, tombstones, as files | reserve, attach_provisional, commit, verify, abort, scavenge_stale_reservations | lease fences, the file system |
| Case executor (`project/invocation.py`) | the artifact transaction of one Case, its threads, its verdict | publish, prepare, close, seal, notify observers | ledger, pool, control |
| Project runner and DAG (`project/project_runner.py`, `dag.py`, `run_manifest.py`) | results, the artifact registry, running Cases, the run manifest | serial, parallel, external and DAG stages, resume | leases, transport, ledger |
| Case stages (`project/case_stages.py`) | the calls of a stage, their results, merged artifacts | serial and parallel stages, fail_fast, join | pool, control |
| External worker, supervision (`project/external_worker.py`, `supervision.py`) | the task in hand; the Case process | claim–run–report; deliver, terminate, kill | transport, Case executor |
| Evaluation evidence journal (`evaluation/journal.py`) | one evidence record per event, with a revision | reserve, mark_event_durable, prepare_disposition, settle, abandon, get | solver kernel and recoverers |
| Evaluation registry (`evaluation/registry.py`) | providers, certifications, slots of states | register, replace, choose and bind, transition, materialize, release | adapters |
| Snapshot stores (`context/snapshot_store.py`) | revisions with expiry and pins, in memory, Redis or files | write, compare-and-set, read, pin, unpin, delete | solver kernel, journal |
| Solver kernel and plugins (`kernel/orchestrator.py`, `plugin/`) | branches of a slot, the run fence; plugins and their lifecycle | run a parallel slot; register, start, walk hooks, finish | pool, context |

What is hard here: calls read the clock, *then* wait for a lock that may take
long; holders die, stall and report late; expiry is noticed lazily, by whoever
calls next; Redis and the file system keep several things in step that SQLite
keeps in one row; the pool runs callbacks under its locks; a parent must settle
what a child did after either of them died; results are collected in the order
they happen to end. What would make the parts correct:

- leases: admitted demand fits the policy, a device has one authority, a fence
  only grows, an ended lease stays ended;
- budgets: units are never promised twice, spending is fenced, a child's
  spending is backed by its parent's reservation and charged once;
- transport: a result comes from the latest attempt, indexes agree with records,
  every task ends;
- pool, grant pool, stages, slots: capacity is exact and comes back, nothing
  outlives what started it, reports are true and do not depend on timing;
- cancellation and the runtime: a request is heard by all descendants, controls
  are retired, only results of current leases count;
- publication: a receipt is backed by bytes, a name is sealed once, a success is
  complete, a Case runs on backed inputs, a finished run can be resumed;
- journal, snapshots, registry, plugins: nothing acknowledged is taken back, pins
  hold, choices do not depend on history, each start has its finish.

`PROJECT.json` lists the components, the hazards with their lines, and the map
from definitions to source lines.

## 2. Modules

| Module | Models | Composes |
|---|---|---|
| `LeaseStore` | `SQLiteLeaseStore`, `RedisLeaseStore`, `InMemoryLeaseStore` behind a strict `ResourceAllocator` | instantiates `LeaseFence` as its abstract specification |
| `LeaseFence` | what everyone else knows of the lease authority: a table of fences that are issued, renewed, released and expire | – |
| `LeaseStoreProofs` | TLAPS proofs about leases of resources and of tasks | extends `LeaseStore`, `TaskTransport` |
| `BudgetAuthority` | `SQLiteBudgetAuthority`, `RedisBudgetAuthority` | extends `LeaseFence`: budget operations interleave with lease operations |
| `BudgetAccount` | `BudgetAccount` | an authority's rows, reduced |
| `BudgetDelegation` | budgets in `CaseInvoker.invoke`, `BudgetSettlementJournal` | journal and authority rows, parents that die |
| `TaskTransport` | `InMemoryTaskTransport`, `SQLiteTaskTransport`, `RedisTaskTransport` and their workers | – |
| `PoolExecutor` | `PoolScheduler`: direct tasks, executor views, threads and shutdown | – |
| `GrantPool` | `ResourceGrantPool` | – |
| `ParallelSlot` | `PipelineOrchestrator._run_parallel` and its fenced handles | – |
| `CaseStages` | `CaseStageRunner` | the futures of a pool view, reduced |
| `CancellationControl` | `SQLiteCancellationStore`, `RedisCancellationStore`, tokens and heartbeats of a tree of executions | – |
| `L0Runtime` | `ProjectL0Runtime`, `ResourceLeaseGuard` | lease and control rows, reduced |
| `ProjectRun` | `execute_project`, `_execute_parallel_stage`, `_execute_dag_stage`, run manifest, external worker | leases, broker tasks and manifests that survive a crash |
| `ArtifactLedger` | `FilesystemArtifactPublicationLedger`, `ArtifactPublisher` | the number of the current lease |
| `CaseFinalization` | `CaseExecutor.execute`, `ArtifactPublicationTransaction`, `CaseRuntimeContext`, the supervisor | the ledger's names and receipts, reduced |
| `EvidenceJournal` | `EvaluationEvidenceJournal` on its in-memory, SQLite and Redis backends | – |
| `SnapshotStore`, `FileSnapshotStore` | the in-memory and Redis, and the file snapshot stores | – |
| `PluginLifecycle` | `PluginManager`: registration, start, hooks, finish | – |
| `EvaluationRegistry` | `EvaluationProviderRegistry`, `EvaluationGateway`, conformance of transitions | – |
| `SumTheorems` | lemmas about sums over finite sets, and about ranks in them | – |
| `BudgetProofs` | TLAPS proofs about the shared authority, accounts and delegations | extends `BudgetAuthority`, `BudgetAccount`, `BudgetDelegation` |
| `ProjectProofs` | TLAPS proofs about the coordinator, its registry and its manifests | extends `ProjectRun` |
| `PoolProofs` | TLAPS proofs about the threads of one process | extends `PoolExecutor`, `GrantPool`, `ParallelSlot`, `CaseStages`, `PluginLifecycle` |
| `RuntimeProofs` | TLAPS proofs about leases and controls of a runtime | extends `L0Runtime`, `CancellationControl` |
| `PublicationProofs` | TLAPS proofs about the ledger and the end of a Case run | extends `ArtifactLedger`, `CaseFinalization` |
| `StoreProofs` | TLAPS proofs about journal, snapshots and the states of providers | extends `EvidenceJournal`, `SnapshotStore`, `FileSnapshotStore`, `EvaluationRegistry` |
| `MC*` | instances for TLC; each extends several modules and a variable `part`, chosen initially, says which of them moves | – |

**LeaseStore.** `rows` is the lease table, `nextToken` the fencing counter,
`calls` the call each client has in progress, `clock` the store's time. A call
is two steps: a `Call*` action reads the clock as the code does on entry, and
the transaction (`Acquire`, `Renew`, `Release`, `IsCurrent`, `Scan`) runs when
the lock is granted, at most `MaxWait` later, with that old `now`. The operator
`FreshOps` lists the methods of each backend that read the clock under the lock
instead. `ActiveLeases` keeps the difference between SQLite, which selects on
the status column, and Redis and memory, which filter on
`ResourceLease.active`, a property that reads the wall clock again. Demand is a
function of `Resource`, so workers, threads, GPUs and memory are one formula.
`Abandon` is a client that dies or whose lock wait times out.

**LeaseFence.** The interface other components rely on: an ended fence never
comes back, and an active one can be renewed only at a time, at most `MaxWait`
old, at which it had not expired. `ImplementsFences` is the
refinement, with `FencesOf(rows)` as the mapping; it is checked by TLC and proved.

**BudgetAuthority.** One budget, its reservations, and the fence table. Each
operation is one transaction on both tables; `NowChoices` is the old clock of
SQLite or the fresh one of Redis. A refused Redis `reserve` keeps its
reclamation, a refused SQLite one rolls it back.

**TaskTransport.** Records, the Redis queue list and leased set, and the claims
that workers hold in memory after the store may have given the task to somebody
else. Time is relative to each lease, so the state space is finite without a
bound on the clock. Workers crash (lose their claims), stall (keep them) and
report late. Redis recovery may stop half way. `Without`, which is LREM, keeps the order
of what remains by giving every entry its rank, so that it needs no recursion.

**BudgetAccount.** Every method of an account is one action, because it holds the
account's lock. Two accounts are opened on one handle and meet only in the
authority's rows; a reservation id may be used again.

**BudgetDelegation.** One action is one transaction of the settlement journal or
of the authority, which are two databases, so the parent may die or the authority
fail between any two. An invocation first sweeps the whole journal, then for each
budget writes the intent, reserves and marks it, runs the child, charges what the
child used, completes and archives; a failure on the way rolls back in the code's order.

**PoolExecutor.** Steps are the sections under the view's lock and the pool's
lock, with the callbacks that run inside them. `direct` holds the tasks of
`PoolScheduler.submit`: their caller, PoolTask, future and reservation; attaching
the done callback is a step of its own, because the future may have been
cancelled by then. Two things are merged into one
step: a view's test-and-clear of `_reserved` with the return of its capacity
(the flag is cleared under the view's lock, so one thread does it), and the body
of the view's `submit`. Futures distinguish *cancelled* from *cancelled and notified*,
because `concurrent.futures.wait` does.

**CancellationControl.** `rows` holds the controls with the time left until they
expire, `phase` what the execution that owns each control is doing, `poll` its
last read. A SQLite read is one transaction that purges, walks to the root and
extends every row it passes; a Redis read is one step per key, so requests and
expiries fall between them. A request is two transactions, create and mark, and
the requester may come late. `running` is an owner whose heartbeat is never
later than `heartbeat_seconds`; `stalled` is one whose thread runs late, and
nothing is promised of its row. The path to the root, with the loop's stop at a
missing row or parent, is the least set closed under the walk's step (`Walk`, `Path`).

**EvidenceJournal.** `records` holds one record per Event, `calls` the Redis
transactions between GET and EXEC, `seen` the last record each client got back.
For every operation one operator says when its updater accepts the current
record (`...Ok`) and one what it returns (`...New`); `Call` is `_atomic_update`,
one step in memory and in SQLite. In Redis `Call` is WATCH, GET and the updater,
`Execute` the SET, which fails, and is retried at most `MaxWatch` times, when
anybody wrote the key in between, even the same record. (A write between WATCH
and GET only costs a retry, so they are one step.) A reply may be lost after the
write. The digest of a disposition is the disposition itself: no collisions.
Initial records include decisions of the older schema, which have no receipt.

**GrantPool.** One condition variable: a step is a section under it. A waiter
asks for units and devices; tokens of devices are taken and returned with them.

**ParallelSlot.** The collector of a slot and its branches. A batch of branches
is submitted, collected, timed out or cancelled; a branch's write to a store is
two steps, the fence check and the call, as in `_CancellationFencedHandle`.

**CaseStages.** A plan of stages with their calls. Serial calls run one after the
other; a parallel stage has a queue, running calls and futures, and the runner that
waits, cancels, joins and merges, one call after the other in the order of the plan
(`MergeCall`), where a collision of artifacts may raise. Of the executor view it
keeps when a cancelled future is notified and when it never is.

**L0Runtime.** For each Case the runner's path (acquire, guard, run, check,
release) and the guard's thread, with authority calls that raise; for each
control the thread that asked for it, against `close()`.

**ProjectRun.** The plan of a group, results, registry and running Cases of the
process, which a crash erases, and manifests, leases and broker tasks, which it does
not. Waves of a parallel or DAG stage are prepared, launched, collected and retained
as in the code; an external Case is reconciled with the task of the run resumed from
before it is submitted. A Case stands for its recovery key, stage and name: a stage
has each Case once, and no two stages share one. What the process has prepared is a
set, from which the declared order, or the order of the launches, takes the first;
the registry after several registrations (`RegisterAll`, `Rebuilt`) is written in
closed form: a bare name is given by the first Case in the order that publishes it.

**ArtifactLedger.** One action is one file operation; attempts at a Case run
publish, seal, abort, scavenge and die.

**CaseFinalization.** Threads of a Case publish into a shared transaction (look,
create, second look, reserve, write, stage) while the executor goes from the run
to serialization, close, join, heartbeat check, seal and observers; the
supervisor delivers the answer or kills the process.

**SnapshotStore, FileSnapshotStore.** One key. A Redis call is one step per
command, a file call one step per file; clients and processes die between steps.
Times are reduced to *none*, *later* and *past*.

**PluginLifecycle.** The list of plugins with their priorities; a hook may
register, remove and re-sort while the list is walked; a start may fail, strictly
or softly.

**EvaluationRegistry.** Candidates are filtered, scored and bound in a grant; a
transition is done by the owner of the state, certified the first time, and may
be materialized elsewhere and released. `ProviderAssumption` says what a provider
declares: a number as its id, a priority, finitely many
capabilities and a sequence of preferred devices.

## 3. Runs

| Run | Result | What it shows |
|---|---|---|
| `lease` | pass | With lock waits that cross an expiry SQLite, and without waits Redis, never oversubscribes (`CapacityRespected`), an overtaken lease is dead (`OvertakenIsDead`), `is_current` says yes to one lease per device (`YesIsExclusive`), and the store implements `LeaseFence` (`ImplementsFences`) |
| `budget` | pass | No unit is promised twice and spending is fenced on both authorities (`NeverOversold`, `SpendsAreFenced`); accounts agree with the authority (`AccountBooksAgree`); what a child spends is backed by its parent and charged to it, though the parent dies anywhere (`ChildSpendBacked`, `SettledIsCharged`) |
| `transport` | pass | Results come from the latest attempt (`ResultIsLatest`), record, queue and leased set agree (`IndexesAgree`), every task ends on the durable transports (`EventuallyFinal`) |
| `publication` | pass | Cases run on backed inputs and finished runs can be resumed across crashes (`CasesRunOnBackedInputs`, `FinishedResumable`); receipts are backed by bytes and a name is sealed once (`SealedIsBacked`, `OneSealPerName`); a reported success has all its receipts (`SuccessIsComplete`) |
| `waiting` | pass | Slices of a grant are disjoint and waiters are served (`SlicesExclusive`, `WaitersServed`); pool capacity comes back (`CapacityReturns`); a parallel slot returns with a true report (`SlotReturns`, `ReportIsTrue`); merged artifacts do not depend on timing and no call outlives its stage (`MergeIgnoresTiming`, `StageJoins`) |
| `heartbeat` | pass | A poll does not miss an earlier request on its path (`CancelHeard`), requests and retirement are not undone (`RowsOnlyAdvance`), rows of dead executions run out (`RowsReclaimed`), issued controls are retired by `close()` (`ControlsRetired`), only results of current leases count (`ResultsAreFenced`), leases end (`SlotsComeBack`) |
| `process` | pass | `CapacityExact` (pool), `SeenStays`, `DecisionsAreVerified` (journal), `SnapshotPinned`, `CasIsExact`, `FilePinHolds`, `CommittedIsReadable` (snapshots), `LifecyclePaired` (plugins), `ChoiceIgnoresHistory`, `CallerCanGoBack` (registry) |
| `lease_redis_wait` | violation of `CapacityRespected` | A lock wait breaks Redis: an expired, unmarked lease is left out of the aggregate and a waiting renewal then revives it |
| `pool_shutdown` | violation of `ShutdownReturns` | `PoolScheduler.shutdown` may never return (two causes, below) |
| `project_resume` | violation of `ResumeAccepted` | A resumed run that dies before it has recorded its resumed Cases leaves a manifest (registry seeded, no records) that every later resume refuses |
| `late_write` | violation of `NoLateWrite` | A branch writes after its slot has returned |
| `stage_returns` | violation of `StageReturns` | A fail_fast stage waits for ever for a queued sibling it cancelled |

The violations are recorded under `findings` with the lines they come from. The
causes of `pool_shutdown` and `stage_returns` were also observed with `pool.py`
itself: a worker thread that asks for `PoolScheduler._lock` while it holds it (a
future is failed under the lock and its callback releases the view), and waits on
futures that were cancelled while pending, which nobody ever notifies.

**Restrictions of the passing runs.** Some properties hold only of part of what
the code allows. The restriction is a constant, or a variable, of the module;
without it TLC refutes the property, and the hazard at that line says so:

- `Overlap = FALSE` (`BudgetDelegation`): invocations of one Project do not
  overlap; otherwise a sweep cancels the intent of a live one;
- `Overtake = FALSE` (`ArtifactLedger`): the lease does not end between the
  check and the file operation it guards;
- `Joined = TRUE` (`CaseFinalization`): the Case waits for the threads it started;
- `Overtaking = FALSE` (`EvaluationRegistry`): providers are not replaced during a transition;
- `Overlapping = FALSE` (`FileSnapshotStore`) and `overlap` in `SnapshotPinned`:
  calls on one key do not overlap (`CasIsExact` is checked with overlap);
- `ArtifactOf <- Distinct` (`ProjectRun`): no two Cases publish under one name.
  Otherwise the bare name stays with the Case that is recorded first, in the order
  of completion (`run_manifest.py`, line 317), and a resume, which rebuilds the
  registry in the order of the plan (`project_runner.py`, lines 2006–2018), refuses
  a run that finished in good order: one parallel stage suffices;
- `RedisWait = 0`, `Skew = 0` (leases): see `lease_redis_wait` and section 4.

**Bounds.** Leases: two clients, two leases, one capped resource with limit 2, one
device, TTL 2, waits of at most 1, four ticks: enough for a lease to be admitted, to
expire while a second call waits, and to be overtaken. Budget: two leases, two
reservations, limit up to 2; two invocations of two budgets and one fault, so that
one sweeps what the other left half done; two accounts, two claims. Transport: two
tasks, two workers (one cannot run one of the tasks), one retry, leases of 2 with
clock readings up to 1 old. Publication: plans of one or two stages of every policy
with up to three Cases, one of them a serial fail_fast stage in front of a parallel
one, so that a failure leaves a stage that is never reached; two runs, two workers;
three attempts under two leases with one contested name; two threads, two artifacts,
two transactions. Waiting: two tasks in a view of one thread, so that one waits
while the other runs; three children on two units; three branches on one thread in
batches of two; stages of up to three calls on two workers, one of which runs until
it is cancelled. Heartbeat: a chain of three controls, so that a walk has a middle;
the stage stalls and dies and the child polls; TTL 2, heartbeat 1 (the largest the
code accepts for that TTL), retention 1; one Case with two raising calls and two
controls. Process: a view and a direct task compete for one thread, which exposes a
double return that the clamp to `total_threads` hides (two views and a direct task,
1.6 million states, pass as well but take too long to be kept); one Event, two
clients, two identities, a commit and a rejection that compete, a disposition of
another identity, two WATCH attempts; two clients of a snapshot; three plugins with
two changes; three providers, two of which share an id, two callers. Clients,
leases, reservations, threads and artifacts are declared symmetric in the runs
without liveness.

**Deadlock.** TLC's deadlock check is on for leases, budgets and the transport.
The other parts come to an end (a run that finished, a closed pool, all calls
made), and the check is off there.

**Fairness.** Transport: workers that hold or can get a task go on, some caller
of `wait_result` or `claim` recovers expired claims, time passes; crashes and
stalls are not constrained. Pool: its threads do not stop while they can take a
step and callables end; nobody has to enter, submit, cancel or shut down. Grant
pool: waiters wake up every 0.05 s and holders return their slices. Slot: the
collector goes on and the deadline passes; operators may hang. Stages: the runner
and the pool's threads are scheduled, a child that may end does. Cancellation:
time passes, heartbeat threads of live processes run, and a request that was begun
is finished; no execution has to return, retire or poll. Runtime: runner and
heartbeat threads go on (strongly fair for the runner, as between two renewals the
lease lock is free for a whole interval), and a lease nobody renews runs out.

## 4. Proofs

Every theorem holds for all values of the constants that satisfy the named
assumptions of the modules (sets of clients, tasks, reservations and the like are
finite where they are counted or summed over). Each inductive invariant was
checked by TLC on the instance of its run before it was proved. An assumption
beyond those of the module is written in the theorem, and without it TLC refutes
the property.

| Module | Proved | Beyond the constants' assumptions |
|---|---|---|
| `LeaseStoreProofs` | `LeaseTypes`, `FencesIncrease`, `EndedStaysEnded`, `ImplementsFences` | none |
| | `OvertakenIsDead`, `YesIsExclusive`, `CapacityRespected` | `ClocksAgree` |
| | `ResultIsLatest`, `IndexesAgree`, `TransportTypes` | none |
| `BudgetProofs` | `BudgetTypes`, `NeverOversold`, `SpendsAreFenced`, `AccountBooksAgree` | none |
| | `ChildSpendBacked`, `SettledIsCharged` | `~Overlap` |
| `PoolProofs` | `CapacityExact` (and `PoolTypeOK`), `SlicesExclusive`, `ReportIsTrue`, `StageJoins`, `MergeIgnoresTiming`, `LifecyclePaired` | none |
| `RuntimeProofs` | `ControlsRetired`, `ResultsAreFenced`, `RowsOnlyAdvance`, `CancelHeard`, `ControlTypes` | none |
| `ProjectProofs` | `RunInv`, `CasesRunOnBackedInputs`, `Accounted`, `ProjectTypes` | none |
| | `FinishedResumable` | `DistinctNames` |
| `PublicationProofs` | `SealedIsBacked`, `OneSealPerName` | `~Overtake` |
| | `SuccessIsComplete` | `Joined` |
| `StoreProofs` | `RecordsWellFormed`, `SeenStays`, `RecordsAdvance`, `DecisionsAreVerified` | none |
| | `SnapshotPinned`, `CasIsExact` | none (the first says `overlap \/ ...`) |
| | `FilePinHolds`, `CommittedIsReadable` | `~Overlapping` |
| | `ChoiceIgnoresHistory` | none |
| | `CallerCanGoBack` | `~Overtaking` |

**Leases.** `ClocksAgree` holds for SQLite and the in-memory store, and for Redis
only with `MaxWait = 0` and `Skew = 0`; `lease_redis_wait` shows that it is needed.
The inductive invariant is `LeaseInv`: the types, `CallsSane` (a call read the clock
in the past), `FencesUsed` (a row carries a fence below the counter, or does not
exist) and `InsertsFresh` (a pending acquire inserts a new row). Types alone do not
exclude an acquire that overwrites a live row, and then no fence property is
inductive. `NextShapes` reduces a step to five shapes and `TransactionEffect` says
what a transaction can do to the rows. `OvertakenReleased` adds that an overtaken
lease no longer counts as holding its device, where an unmarked SQLite row counts
even past its expiry, because that is what admission looks at; `AdmissionKeepsOrder`
is the one step that needs the admission test and `ClocksAgree`. `CapacityRespected`
is about sums over the leases that hold: `SumTheorems` gives the few facts needed (a
sum over a set with one member more or less, sums that are bounded pointwise), from
the definition of the community modules' fold over sets, with an order of its stages
found by well-founded induction over subsets. `ImplementsFencesThm` makes what is
checked or proved of `BudgetAuthority` on the fence table hold on top of each store.
For tasks, `TransportInv` says that every record is a `LatestRecord`: its result, if
it is one of a worker, is that of its attempt. `Agreeing` is `IndexesAgree` with
what it takes to be inductive: the queue lists every task that belongs there exactly
once (in Redis the queued ones, elsewhere all that were submitted), and the leased
set of Redis is exactly the leased records. As `Without` is given by ranks, no step
has to count what is in the queue.

**Budgets.** `BudgetInv` adds `RowsSane` to `NeverOversold`: no reservation has
completed more than its amount, one that does not exist has completed nothing, and
an account without a limit has none. The
proof goes by what a transaction does to the sums: reclamation lowers the reserved
one, `consume` moves units from one to the other.
`AccountInv` adds `ClaimsCovered`: a claim or row that does not exist has
consumed nothing, and on a shared budget a claim has not consumed more than its
row. `DelegationInv` follows an invocation
through its steps (`Progress`), what a sweep has already looked at (`SweepsOver`),
and says of each delegation which combinations of journal record and reservation
exist (`Covered`). `~Overlap` (one live invocation of a Project at a time) is the
code's own usage: an invoker is called by the Case that owns the parent lease.

**One process.** `CapacityInv` books the pool: what is free, the shares of the views
that hold one and the permits of the direct tasks add up to `Total`; what a view has
in flight is what the thread pool has of its tasks, and a view without its share has
none (`ViewBook`); a direct task that may still run holds its permits
(`DirectSane`). `BookedMoves` is the arithmetic of one share taken or put back, from
which it follows that the clamp of `_release_capacity` never acts, and
`LaunchAndSettleKeepsBooks` the section that most operations end with. TLC finds it
true in all 526 543 states of a pool with a view, two tasks and a direct one, and in
the first three million of one with two views. `GrantInv` is `SlicesExclusive` with
the free tokens apart from all slices. `SlotInv` accounts for every branch of a slot
wherever it is (queue, pool, reported), and the count in `ReportIsTrue` follows by a
bijection from branches to reports. `StageInv` says in which steps of a stage calls
may be in flight. `TableInv` is what `MergeIgnoresTiming` needs in the middle of a
merge: after each merged call the table of artifacts is a function of the plan and
of which calls succeeded, whatever the order they ended in, unless the run raises.
`PluginInv` books, for each plugin, the places it still has in the part of the
receipt that is not closed yet; it says nothing of the list of plugins, which is why
hooks may do anything to it.

**Runtime.** `RefInv` orders the four steps of `new_cancellation_ref` against
`close()`: a control that is not in the list of `close()` is retired by whoever
created it (`NotForgotten`, `TakenOver`). `ResultsAreFenced` and `RowsOnlyAdvance`
follow from the guards and the state of one row. `HearingInv` is about time: the row
of an owner that heartbeats on time is alive (`HeldInv`), and a read in progress
still owes, on what is left of its walk, every request that was made on the path
before it began (`PollInv`); expiry can only cut a path that nobody holds.

**Project.** `RunInv` says what the coordinator's results, the manifest and the
working registry say of each other: a success and only a success has an artifact of
its Case (`CreditsRight`), a recorded success is a result (`RecordsHeld`), stages ahead
have no results (`StagesAhead`), what is prepared or running is of the stage and has
none either (`WorkRight`), and a Case of a wave of a DAG has its dependencies in the
manifest (`WavesRight`), which a wave cannot have of itself. Every step of the
coordinator `Retains`: results, records and registry only gain entries, and that
preserves what is said of the earlier ones. A DAG with Cases left has one that is
ready, the one on the least layer, so that an accepted group is never left half
done. `ResumeInv` is about what a run leaves: all results are recorded but
for those of a wave that is not over (`RecordsComplete`), a resumed Case keeps its
artifact (`ResumedKept`), the stages behind have all their results and a fail_fast
stage behind only successes (`StagesBehind`, `StageHeld`), a failure shows in the exit
code (`FailureShown`). The difficult part is a run that resumes another and is stopped
by fail_fast: it must not lose a success of the run it resumes. `ReachedNow` and
`ReachedBefore` say why it does not: what stands after a fail_fast stage, or later in
a serial one, was reached past successes only, in every manifest, and these are taken
over before anything new is run. `NamesRight` says which artifact has a bare
name, under the hypothesis that no two Cases publish under one (`DistinctNames`);
section 3 says what happens to `FinishedResumable` without it.
TLC found both invariants true in all 710 198 states of the project part.

**Publication.** `LedgerInv` says who may still seal or erase what: an attempt acts
under the current lease (`UnderLease`), erases only what it wrote or what a
tombstone names, and a transaction that may still be sealed has its files.
`~Overtake` means that a lease does not end between its check and the file
operation that follows. `FinalizationInv` has the stages of `CaseExecutor.execute`
and, while nothing was spoiled by an abort, a single transaction that all threads
share. `Joined` means that the Case waits for its stage threads, which
`CaseStageRunner` does (`StageJoins`).

**Stores.** `UpdateStep` is about a single record: whatever operation accepts it
returns a well-formed record that keeps what the old one said. `JournalInv` adds
`CleanCalls`: a transaction whose key was not written still holds the update *of the
record that is stored now*. Without it `EXEC` may write anything, and none of the
four is inductive. `SnapshotInv` and `FileInv` say that what a call in progress has
read of the pins still holds when the call uses it; overlapping calls break this,
hence the condition. `RegistryInv` says that a slot has one caller, that the
provider of an unfinished transition is the registered owner, and that only
providers that keep their predecessors are certified.

`ChoiceIgnoresHistory` rests on two facts: the registered
providers have different ids (`IdsDiffer`), and of the candidates, which are a set,
one at most is outranked by no other (`ChoiceIsOne`), as ids decide where scores agree.

**Model-checked only.** Liveness (`EventuallyFinal`, `CapacityReturns`,
`WaitersServed`, `SlotReturns`, `RowsReclaimed`, `SlotsComeBack`), because fairness
and ENABLED are out of the prover's reach. Every other property of a passing run is
a theorem; of those in the violating runs, `CapacityRespected` is one with
`ClocksAgree`. The modules were written so that this is possible: what the code
computes with a loop over a list is a fact about sets or a closed form wherever a
proof needs it, because induction over data is out of reach; that these forms are
the loops of the code is read from the source, not proved.

## 5. Not modelled

`create()`/`update()` of the lease stores (no caller in the package), Redis locks
that outlive their timeout, worker registration rows, several budgets at one
authority, use of the pool from its own tasks (refused by the code), the in-memory
cancellation store (process-local, without expiry), deadlines and lineage digests
of controls, the listings, metadata and timestamps of the evidence journal, partly
written ledger records (a crash inside `_write_json_create`), the context store's
own operations, codecs and projections, serial and routed slots, triggers,
configuration, discovery and import of Cases. Data classes, validation,
scaffolding, the CLI and the machine probe keep no state that outlives a call.

## 6. Plan

1. The context stores: a reader's `snapshot` against `apply_patch` on Redis.
2. The recovery loop over `list_unresolved` on `EvidenceJournal`; partly written
   ledger records.
3. `ProjectRun` on top of `TaskTransport` and `LeaseFence` themselves instead of
   their reductions.
