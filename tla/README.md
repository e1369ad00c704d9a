# SchemaRouter: TLA+ models and proofs

SchemaRouter keeps a catalog of tool contracts, plans calls against it and executes them under
policy. Its documentation promises that what is executed is what was reviewed: contracts are pinned
by fingerprint, bindings go stale when a contract moves, writes are not repeated, budgets are not
exceeded, runs leave a replayable trace, a provider that changes is noticed. Those promises are kept
by many small pieces of state (catalog, file, bindings, indexes, cooldowns, probes, budgets, worker
slots, reviews) that threads, tasks and other processes change between any two steps of an operation. These modules model that state and those steps; TLC explores the
interleavings on small instances and TLAPS proves the central facts for every value of the
constants.

Contents: [1 Inventory](#1-inventory), [2 Modules](#2-modules), [3 Runs](#3-runs),
[4 Proofs](#4-proofs), [5 Where code and documentation disagree](#5-where-code-and-documentation-disagree),
[6 What is not modelled](#6-what-is-not-modelled), [7 Plan](#7-plan), [8 Running it](#8-running-it).

Paths are relative to `src/schemarouter/`, unless they start with `docs/`.

## 1 Inventory

`PROJECT.json` lists every component with its status. The ones that hold state:

| component | state | operations | must hold |
|---|---|---|---|
| **Registry** `registry.py` | tools, version, bounded mutation journal | register, compare-and-swap replace/unregister, batch update/removal/restore, receipts | a receipt omits no changed key; refuses only expired cursors |
| **SQLite storage** `storage.py`, `registry.py`, `traces.py` | one file shared by processes: format rows, tool and journal tables, run summaries and events, backup file | open, create, stamp, migrate; each registry write and each trace append, prune, delete as a transaction; receipts and reads outside one | the registry in it implements Registry; what is committed can be replayed; a file of another format is refused |
| **Posting index** `native_semantic_index.py` | one published immutable index | build, journal refresh, hinted refresh | a published index equals a full build of one version |
| **Executor bindings** `executor.py` | invoker, fingerprint, generation per tool; one generation counter | bind, unbind, publish, restamp, conditional removal/restore | a tool is executable only for a contract some bind or validated amendment accepted for it |
| **Tool lifecycle** `runtime.py`, `rebinding.py` | registry + bindings + probes + cooldowns together | add, batch registration, amend, remove, rebinding after a restart | failing half way leaves nothing behind and undoes nobody else's write |
| **Call execution** `executor.py` | policy, cooldowns, per-call locals | execute_call, fallback chain, approval, hooks, retry | approval governs invocation; mutations at most once |
| **Budgets** `executor.py`, `policy.py` | call and attempt counters, deadline | before_call, before_attempt, remaining_seconds | invocations never exceed reservations |
| **Worker pool** `_sync_offload.py` | slots, open flag, jobs | submit, run, shutdown | no hidden queue; a shielded write is never reported as not done |
| **Health monitor** `health.py` | probe records, active tasks, quiesce count | register, run_once, transition, lifecycle_guard | verdict fits its contract; removals drain |
| **Schema watch** `schema_watch.py`, `runtime.py`, `ingestion.py` | a record per watched tool with its pending review, cached HTTP validators, run lock | register, unregister, check, accept, reject, refresh | only due writes; drift that stays is applied, reported or pending |
| **Native schema lifecycle** `native_schema_lifecycle.py` | refresh bindings, pending candidates | refresh, sweep, accept, forget | the same |
| **Capability publication** `capability_publication.py` | current generation and predecessors | publish, roll back | generations form a chain |
| **Graph index, routing session** `native_graph_index.py`, `capability_graph.py`, `field_routing_session.py` | published posting index and graph with the approved host roots | build, revision of roots, two refreshes, lookup | as the posting index; an answer is right for the moment it is given |
| **Plan runs** `runtime.py`, `executor.py` | event queue, workers, open starts, trace | stream of events, result streams, parallel read-only scheduler | one terminal event, in order; every start closed; the stream ends |
| **Audit, proposals** | append-only stores | record, review | nothing recorded twice or lost on failure |
| **Planner and retrieval** | none that lasts (caches) | plan | a plan pins the fingerprints it saw |

How they interact. The registry is the only authority on contracts; every other component caches
something derived from it and compares fingerprints or versions when it uses it. The registry locks
each method, the executor has a lock of its own for bindings, the health monitor an asyncio
condition and a thread lock, the watcher an asyncio lock, the file SQLite's one writer lock; no lock covers two components, so each operation that touches two of
them is a sequence of locked steps with a compare-and-swap, a verification and a rollback. Calls
run on an event loop, synchronous invokers and probes on a bounded pool of threads. Callbacks
(approval, hooks, probes) are code of the host program and may call back into the router.

What makes this hard: interleavings between locked steps of several components; state read before
an await and used after it; conditional undo ("only if it is still mine"); an ABA problem wherever
a counter or fingerprint stands for a state; cancellation and deadlines while a thread that cannot be
stopped carries out a write; late answers of timed-out workers; two kinds of lock around one record;
processes that die between two statements of a file they share; a bounded queue between workers that
are cancelled and a consumer that walks away.
`PROJECT.json` lists the hazards line by line with the properties that cover them.

## 2 Modules

**Registry** models `InMemoryRegistry`. Every public method holds the lock throughout, so each is
one action; all writes end in `CommitChangedToolKeys`, as in the code. A contract stands for a whole
`ToolSpec`; `FpOf` maps it to its fingerprint and is not injective, because metadata is not
fingerprinted. `history`, the catalog at each version, is a history variable.

**PostingIndex** EXTENDS Registry. Each registry call of a build or refresh is a step, and `AnyWrite`
may run between any two. A tool stands for all its endpoints, its semantics for the identifiers it is
posted under.

**GraphIndex** EXTENDS PostingIndex with the dependency graph over it and the routing session that
holds both: `build`, `revise_host_roots`, `refresh` from hints, `refresh_from_*_journal` (a receipt of
its own, then a refresh of the posting index, which takes another, then the changed tools again:
`GraphJournalStart`, `PostingStep`, `GraphJournalPosted`, `DeltaRead`, `DeltaPublish`) and the one-hop
lookup with its two passes and the final look at source and policy (`Look`, `Recheck`, `Answers`). Edges
are updated as `update_capability_dependency_graph` does (`UpdatedEdges`). Policy, availability and
registry move between any two steps. A tool is one read-only route; what the graph makes of it is `Shape`.

**StorageFile** models one SQLite file and its connections, each in a process of its own: judging the
format by SELECTs outside a transaction, creating a component, stamping a legacy one, the migration
command with backup, `BEGIN IMMEDIATE` (lock and private copy), COMMIT, ROLLBACK, crash.
**SQLiteRegistry** EXTENDS it with every write of `SQLiteRegistry`, its arguments checked inside the
transaction, `_bump_version` with the journal row or barrier, and receipts read in two SELECTs.
**TraceStore** EXTENDS it with append, retention at run end, prune, delete and the two SELECTs of
`trace()`. **SQLiteStorage** composes the two. The abstract specification is Registry: `Abs == INSTANCE
Registry WITH` the committed tables, and `ImplementsRegistry` says that each commit is one of its writes.
Left out: the order of tools, which runs of a trace store are old (any choice), a second look at
the table names inside one opening, the last inspection of the migration command; `inspect_sqlite_storage`
reads as `trace()` does.

**BindingLifecycle** EXTENDS Registry with the executor's bindings and a program counter per thread.
`publish_bound_tool`, `_register_bound_batch`, `bind`, `unbind`, `amend_capability`
with `restamp_binding`, `add_tool(replace=True)`, `aremove_tool`, `rehydrate_bindings` and `bind_existing`
are sequences of steps, one per lock acquisition. `ForeignWrite` is another process sharing the registry,
or a holder of the registry object. A read may raise (`PublishReadFault`, `BatchReadFault`), which sends an
operation into its rollback. `Restart` kills the process anywhere: the registry stays (it is a file), bindings
and threads go, and the successor binds what is persisted. The n-th operation supplies invoker n.

**SchemaRefresh** EXTENDS Registry with what keeps one contract in step with its provider:
`SchemaWatchManager` (registration, checks under the run lock, accept, reject, the loop) over
`arefresh_schema` (read, fetch with ETag, compare, amend, guard, compare-and-swap, remember validators), and
`NativeSchemaLifecycleManager` (refresh, sweep, accept, forget). Steps are the stretches between awaits and
registry calls. How a change is classified is the input `Verdict`, an amendment the input `Amended`; an
ETag stands for its document; intervals are left out (a check is always due); other tools appear
as changes of the version; `add_tool(replace=True)` is `OtherWrites`. `Outcome` is the decision of
`arefresh_schema` as it stands, a change hidden by an amendment included, which is applied whatever it is;
`Commit` is the compare-and-swap only: the binding after it, and the rollback if that fails, are those of
`publish_bound_tool` in BindingLifecycle.

**HealthMonitor** models probe tasks of overlapping cycles, transitions and removals. On one event
loop, code between two awaits is one step; split are a commit, and the look at the contract (`Prepare`) from the start
of the callback (`Start`), because another thread may write in between (`Free` keeps the loop's own steps out). Where
`asyncio.wait_for` runs the callback in a task of its own (Python before 3.12) the callback starts a turn of the loop later, so
there the loop's steps come in between as well (`StartsLater`). `worker` is the call in the
thread pool, which may outlive the task that submitted it.

**Execution** models one plan's concurrent calls from planning to the answer: fallback chain, approval,
budget, hooks, attempts with retry, worker pool. An action is a stretch between two awaits, so contract,
binding, policy, authorization, deadline and cooldowns move wherever the code awaits, and nowhere
else. Values are left out: a provider answers, fails in one of the ways the executor tells
apart, or does not answer.

**PlanRun** models carrying out a plan: worker tasks go down the fallback chain of each call and put items into
a bounded queue, the stream turns items into events, persists each and yields it, `aclose`, cancellation,
drain, indeterminate ends and the final cleanup. `agenda` is what the stream does before it looks at
the queue again, one entry per await. A call is reached or not and ends in one of the ways
`execute_call` can (Execution); `trace` obeys the rules of TraceStore. `world.env` says what may happen: a store that
fails, a consumer that closes, a swallowed cancellation, a pool that drops a job, a tool that is removed.

**RegistryProofs** holds theorems about Registry, **ExecutionProofs** those about Execution, **StorageProofs**
those about SQLiteStorage and the modules it composes, **GraphIndexProofs** those about GraphIndex and PostingIndex;
**BindingLifecycleProofs**, **HealthMonitorProofs**, **PlanRunProofs** and **SchemaRefreshProofs** those about the module in their
name (section 4).

*Scenarios.* The modules with several actors have a variable `scenario` or `world`, chosen by `Init` from the constant
set `Scenarios` or `Worlds` and never changed: what the host program configures (callbacks, chains, Python version)
and does (which operations, which other writers), with the bounds of that scenario. One run checks one
list of properties in several small worlds, and a theorem is about every scenario.

*Mutants.* Definitions introduced by "Mutant:" belong to no behaviour of a model: each is a
plausible mistake in the definition that follows it, and replacing that definition by it makes a run fail.
`PROJECT.json` pairs each property of a passing run with one, so that no property holds vacuously.

## 3 Runs

| run | question | bounds and why they suffice |
|---|---|---|
| `catalog` | Are receipts complete, published indexes snapshots and answers current, whatever is written meanwhile? | 2 tools, 2 of 5 contracts per world, 3 writes (2 where roots are revised or lookups run), journal of 2: one eviction more than the journal holds, a refresh over one and two keys, and a write left for the middle of a refresh. Worlds: the posting index alone; the graph with hints, with the journal, with root revisions; lookups with policies that permit or show less, and with health |
| `binding_safety` | Do publications, batches and amendments keep their promises against each other, foreign writers and read errors? | 2 threads, 3 writes, 2 operations and 1 fault (publications, batches over 2 tools) or 3 operations (amendments; a publication with a fault beside amendments; rebinding beside another thread; a restart and rebinding): enough for write, interfering write and rollback |
| `health_safety` | Do verdicts fit the contract, do removals drain, is a callback let through only for a read-only contract? | 2 probe tasks, 1 remover, 1 tool, up to 2 registrations or 2 transitions; scenarios: removals (with cancelled and re-entrant ones), synchronous callbacks, a contract that turns mutating (asynchronous or synchronous callbacks, either Python version; writers on the loop or on other threads) |
| `health_drain` | Does a draining removal end? | 2 probe tasks, 1 registration; no symmetry, as it would be unsound for liveness |
| `execution_safety` | Budget, approval, at most once, definiteness, fallback and cooldown promises | 1 call with every callback, or 2 calls; 2 attempts; 1 worker; chains of 2; 1 policy change (a policy is compared by identity, so a second change shows nothing new) |
| `execution_deadline` | Does every call end under a deadline? | 2 offloaded calls on 1 worker |
| `storage` | Is the file the abstract registry, are traces replayable, is only what may be opened open, through crashes and migrations? | 2 connections in 2 processes; 2 tools with 2 contracts of one fingerprint, 2 writes, journal of 1 row and 1 key (so that trimming and barriers happen), 2 runs of up to 3 events; files: new, traces only, current, without journal, legacy, unfit in five ways; one of the processes may be the migration command or a newer release |
| `plan_run` | Is the trace gapless, true and closed, does the stream end? | 2 workers, 2 calls, one with a fallback (a sibling fails while the other is anywhere in its chain), or 1 worker with a queue of 4 that it can fill, or a sequential plan, or 3 calls of a result stream. Worlds in which a worker ends without a last item are left to `MCPlanRun_stuck.cfg` (section 5), since there a stream may hang |
| `refresh` | Does a refresh write only what is due, and is drift noticed in the end? | 2 tasks, of which the loop may be one; 8 contracts (a document, a compatible successor, a breaking one that conflicts with the amendment, a breaking one that the amendment hides, all but the conflicting one also amended, a twin from another source), with and without ETags, 2 moves of the provider (away and back), 1 fault, 1 foreign write, 1 new watch |
| `binding_stale`, `health_cancel`, `execution_applied_late` | counterexamples, section 5 | smallest scenario that shows each |

What the properties say is stated above each definition. In short:

* `ReceiptComplete`, `IndexesAreSnapshots` (with PostingIndex's `IndexIsSnapshot`): derived state is never silently
  stale. `LookupIsCurrent`: an answer that was collected piece by piece holds for the instant it is given.
* `ImplementsRegistry`, `CommitsPerformTheirCall`: a commit is one write of the in-memory registry, and the one
  its caller asked for. `ReceiptExact`, `TracesReplayAndGrow`, `OpenMeansCurrent`, `BackupIsWhatWasMigrated`.
* `TraceIsAppendable`, `StartsAreClosed`, `TraceIsTrue`, `StreamEnds`.
* `OnlyDueWrites`: no write over a contract nobody compared or for a watch given up; what takes effect is proven compatible
  or was accepted (a change of the provider that an amendment hides is applied as the code does, see `BreakingIsReviewed` in
  section 5). `DriftIsSeen`: drift is not buried, except by validators that others beside the watcher left
  ahead of the contract (`DriftIsNeverMasked`). `WatchTypeOK`: a review is against the contract that is watched.
* `GenerationPinsBinding`: the generation comparison all conditional undo relies on has no ABA problem.
  `RollbackIsExact`, `FailedBindingsWithdrawn`, `NoLostUpdate`: compare-and-swap, undo and withdrawal.
  `ReadyContractWasValidated`: a tool is executable only for a contract some bind, publication or validated amendment
  of this process accepted for it, not one that only a foreign writer put there. That the binding's own invoker
  was the one accepted for it is more, and fails (`ReadyInvokerWasVouched`, section 5).
* `VerdictFitsContract` (for writers on the loop; with other threads section 5 applies), `RemovalDrains`, `RemovalEnds`.
  `NoProbeOfMutatingPath`: a callback starts only where it was let through for a read-only contract, which is then the
  registered one unless somebody could write between the look and the start (`OnlyReadOnlyProbed`, section 5).
* `ApprovalGovernsInvocation`, `BudgetCoversInvocations`, `MutationAtMostOnce`, `DefiniteMeansSettled`,
  `FallbackNeverMutates`, `CallEnds`. `CooldownMeansOutage`: a path in cooldown is one whose own provider was called and
  was unavailable, so a full pool is not taken for an outage even of a tool that shares its contract with one that was tried.

*Fairness.* `HealthMonitor`: the loop serves ready tasks in order and timers fire whatever the callback
does, so a started probe ends by its timeout at the latest (strong fairness, because a competing commit may
disable the step for a moment), a commit is carried through, and a removal whose wait is over
resumes. Nothing is assumed about callbacks, new cycles, other threads or cancellations.
`Execution`: weak fairness of each call's own step and of the deadline. A worker thread has none, so
`CallEnds` holds although `WorkerEnds` may never happen. Without a deadline a call may last as long as its
provider, and the property is not claimed.
`PlanRun`: weak fairness of the stream and of each worker: the loop runs tasks that are ready, and `StreamEnds`
is claimed for providers that answer and a consumer that goes on asking or closes (both are
steps of those two). `SchemaRefresh`: weak fairness of each operation under way, and strong fairness of the
background loop's start, because the run lock is an `asyncio.Lock`, which is first in, first out; the
provider must stop changing, which the bound on its moves provides.

*Deadlock* is not checked: behaviours end when the operation or version bound is used up or when every
call has its answer, when a file is refused or a stream is over, which are not deadlocks of the program. The progress questions that matter are the
liveness properties.

## 4 Proofs

`RegistryProofs` proves, from `RegistryAssumption` alone (finitely many keys, a journal of at least one
version; any contracts, any fingerprint function, any number of writes):

* `RegistryTypes`: `RegistrySpec => []RegistryTypeOK`. The journal's domain is exactly the window of
  the last `JournalVersions` versions. The lemma `EvictKeepsWindow` is the heart of it: the code drops one entry when
  the journal is one too long, and because the journal is an interval that is the oldest one.
* `ReceiptsAreComplete`: `RegistrySpec => []ReceiptComplete`. Not inductive without the window: a write
  must know that a version absent from the journal after eviction was reported as expired. The
  inductive invariant is `RegistryInv == RegistryTypeOK /\ ReceiptComplete`. Every action is brought to one
  shape, `WriteOf(keys, newTools)` ("these keys, nothing else, committed"), and `WriteType`,
  `WriteReceipts` are proved for it once; a client module that composes the registry can cite them.
* `RecentCursorsAreServed`: `ReceiptWithinWindow` follows from the types (no run checks it, the proof says more).

`ExecutionProofs` proves, from `ExecutionAssumption` and for any calls, tools, contracts, scenarios and
number of policy changes:

* `ExecutionInvariant`: `Spec => []ExecutionInv`, the inductive invariant the other theorems are read off
  from. None of the properties is inductive: that a mutation is invoked once depends on how
  invocations relate to attempts, this on the limit of the current candidate, this on
  which candidate a late worker belongs to. `CallInv` says it per call in four parts: `Candidate` (a
  chain executes only candidates whose planned contract is read-only), `Attempted` (attempts stay within
  the candidate's limit, with one to spare where another may follow), `Counted` (the invocations of a call
  with one candidate are covered by its attempts, a queued job has one in hand; a call with more invokes
  no mutation) and `Jobbed` (a job in the pool belongs to the candidate the call waits for, or stopped waiting for
  without another attempt). One lemma per action shows that it keeps `CallInv` of its call; the fifteen
  actions that only move a call on share one (`QuietMoves`, `Move`). `ActsOwn` shows that an action of one
  call leaves every other call alone, whence `Frame`.
* `ExecutionTypes`, `MutationsHappenOnce`, `DefiniteIsSettled`, `FallbacksOnlyRead`, `CooldownsAreOutages`: the
  invariants of `execution_safety` of those names' properties, from `ExecutionInv`. The last needs that a call
  which waits for its provider, or had an answer from it, has its own path in `reached` (`Provided`).
* `ApprovalIsForTheInvocation`: `Spec => ApprovalGovernsInvocation`, an action property, from `asked = snap` in
  `CallInv` and from `Jobbed` for the worker.
* `BudgetsCover`: `Spec => []BudgetCoversInvocations`. A sum over all calls, and not bounded call by call: an attempt is
  reserved when a job is submitted and invoked when a thread picks it up, possibly never. The inductive invariant `Ledger` says that
  invocations and queued jobs together are covered by the reservations. Invocations are a set of numbered ones
  (`Invocations`), so that the sum is a cardinality and needs no recursive definition.

`StorageProofs` proves, from `FileAssumption`, `SQLiteAssumption` and `TraceAssumption`, for any processes and
connections, keys, contracts, runs and initial files:

* `StorageInvariant`: `Spec => []StorageInv` (a lemma; TLC checked `StorageInv` first, on the instance of
  `storage`). What is true of the file alone is not inductive, because what a commit makes of the file depends on the
  private copy of the transaction that commits. `CopyOK` says what that copy is: the committed file with at most one
  call applied (`Effect` for a registry write, `Grown` for an event, `Upgraded` for a journal that is added), which
  holds for as long as the transaction does since nobody else can commit. `OpenerOK`, `MigratorOK` and `ReceiptOK`
  relate what a connection has read before to the file as it is now: what it saw complete or current still is
  (`Keeps`), what it saw of the registry is a prefix of it. `Frame` is what a step of one connection leaves of the
  others; every step is brought to it once, and one lemma per kind of step shows that it keeps its own part.
* `OneTransactionAtATime`, `OpenStoresAreCurrent`, `ReceiptsAreExact`: `FileTypeOK`, `OpenMeansCurrent` and
  `ReceiptExact`, from `StorageInv`.
* `FileImplementsRegistry`: `Spec => ImplementsRegistry`, the refinement. A step changes the committed registry only by
  committing a copy (`WhatCommits`), a copy differs by one `Effect`, an `Effect` is the abstract action of its call
  (`EffectPerforms`), and dropping rows by age leaves the window the abstract journal keeps (`EvictsToWindow`).
* `CommitsPerform`, `TracesReplay`, `BackupsAreExact`: the action properties `CommitsPerformTheirCall`,
  `TracesReplayAndGrow` and `BackupIsWhatWasMigrated`.

`PlanRunProofs` proves, from `PlanRunAssumption` and for any workers, plans, parallelism and environments:

* `RunInvariant`: `Spec => []RunInv`. The promises about the trace are not inductive: whether a `tool.end` that is
  written belongs to a `tool.start` depends on an item taken from the queue long before, and that on what a worker put
  there before it went on. What a call puts on its way passes three places in order (the worker's `items`, the queue,
  the event that is due or on the trace), and `PipeInv` says of each place what may come after all that is ahead of
  it (`Fits`): a start of a candidate nobody opened, an end of one that is open, nothing of a call that was won.
  `Opened`, `Settled` and `Won` count what is ahead of a place. A step that takes an item off the queue moves it from one
  place to the next (`Shifted`), so one lemma (`PipeShift`) serves `Get` and `Drain`; a step that leaves all places
  alone needs `PipeFrame`; the steps of a worker are one lemma each. Around it: `TypesInv` (no two workers at one
  call), `AgendaInv` (the agendas there are), `LedgerInv` (`started`, `closed` and `sequence` are those of the trace but for
  the event being yielded), `TraceInv`, `CountInv` (`ended` counts the calls that were won, until one fails),
  `QuietInv` (nobody is at work before the start, during a drain and after the last event, which is why an abort can close every
  start). TLC checked `RunInv` first, over 2.1 million states of small plans of both streams and both modes.
* `RunTypes`, `EveryEventIsAppended`, `EveryStartIsClosed`, `EveryTraceIsTrue`: the four invariants of
  the run of PlanRun, from `RunInv`. That `run.end` stands for a result of every call is a count: the calls that
  were won are as many as the plan has, so they are all of them (`FS_Subset`).

`BindingLifecycleProofs` proves, from `RegistryAssumption` and `BindingAssumption` and for any threads, keys, contracts,
invokers, scenarios and numbers of operations, writes and faults:

* `LifecycleInvariant`: `Spec => []LifecycleInv` (a lemma; TLC checked `LifecycleInv` first, over 1.4 million states).
  No property is inductive: each speaks of what a thread read or stored some steps ago and relies on now. `ThreadOK(p, l)`
  says for a thread at place `p` with locals `l` what it may rely on there, and as long as what: `ReadOK` the tool it read,
  while the version is the one it started from; `CommittedOK` the catalog it wrote, while the version is the next one;
  `SnapOK` and `StoredOK` the bindings it found and stored, while their generations are the current ones; `WithdrawnOK`
  that a failure has no binding of its own left; `AmendedOK` that the restamp in hand is of an amendment it registered.
  `BindingsOK` says that a live binding has a generation no other has and serves a validated contract, `CountersOK`
  the bounds of the scenario. A step writes the registry (`RegistryStep`) or moves one binding under a fresh
  generation (`BindingStep`); `PassiveThread` shows once that what the other threads rely on survives either,
  and one lemma per action that it is such a step and that the acting thread may rely on what its next place needs
  (`GoodStep`). What a write does to the registry is cited from RegistryProofs (`WriteType`, `WriteKeepsHistory`).
* `LifecycleTypes`, `GenerationsPinBindings`, `FailuresUnbindTheirOwn`, `ReadyMeansValidated`: the four invariants of
  `binding_safety`, from `LifecycleInv`. `ReadyMeansValidated` says that somebody accepted the contract for the tool, in
  this process; it does not say that the invoker now bound was accepted for it, which `binding_stale` refutes.
* `NoUpdateIsLost`, `RollbacksAreExact`: its two action properties. The compare-and-swap of a batch or a rollback
  names the version alone, and "same version, same catalog" (`history`) makes that enough; that of a
  publication names fingerprint and version, because a fingerprint does not see metadata.

An earlier form of `FailedBindingsWithdrawn` said that after a failed publication its invoker is not executable. It
has no inductive strengthening: with one more operation beside it TLC found it violated. It is now
`FailedPublicationWithdrawn`, one of the claims of section 5; what does hold, and is proved, is that a
failed operation leaves no binding under a generation it stored itself.

`HealthMonitorProofs` proves, from `HealthAssumption` and for any tools, contracts, monitor tasks, removers and
scenarios, those in which other threads write beside the loop included:

* `HealthInvariant`: `Spec => []HealthInv` (a lemma; TLC checked `HealthInv` first, over 2.4 million states, in
  every scenario of the runs and of section 5). A verdict fits its contract because the generation in hand is still the current one,
  and that is about what a probe read before its await. `RecordOK`: a valid registration is read-only, and the
  generation of a worker never passes its record's, the same generation meaning the same contract. `TaskOK`: a probe
  that was started carries such a generation, and without other threads neither registration nor contract moves between
  its mark and its commit, nor between the look at its contract and the start of its callback if that follows in the same step of the loop. `LoopOK`: without other threads a commit and an amendment are never both under way, since
  neither awaits. `DrainOK`: the removals that drain a tool are finitely many and counted by its `quiesce`. A step
  belongs to the setup, to a probe or to a remover (`SetupStep`, `ProbeStep`, `RemoverStep`), one lemma each;
  `Standing` is what tasks that stand still rely on and survives them all.
* `HealthTypes`, `VerdictsFit`: the invariants of those subjects in the runs of HealthMonitor, from `HealthInv`.
* `MutatingPathsAreNotProbed`: the action property `NoProbeOfMutatingPath`. A registration has been carried through any
  transitions by the time it is looked at, and any by the time its callback starts: that it is read-only when let
  through is `RecordOK`, that nothing moved since, where nobody could write in between, is the last part of `TaskOK`.
* `RemovalsDrain`: the action property `RemovalDrains`, a tool is removed only when no callback of it is in flight. Its
  exception is part of the statement: callbacks that issue removals themselves, where the Python version runs a shielded
  removal in the callback's own task.

`GraphIndexProofs` proves, from `RegistryAssumption`, `PostingIndexAssumption` and `GraphIndexAssumption` and for any
tools, contracts, identifiers, numbers of writes and worlds:

* `SessionInvariant`: `SessionSpec => []SessionInv` (a lemma; TLC checked `SessionInv` first, over 2.0 million states of
  more worlds than the run has). That an index is a snapshot is not inductive: it is put together from a receipt and tools
  that were read one by one from a registry that may have moved. `PostingInv`, `GraphInv` and `QueryInv` say what the pieces
  in hand are worth: as long as the version is still the target, the tools read so far are the registered ones and the
  receipt covers every key whose fingerprint differs (`JobCurrent`, `WorkCurrent`, `ReceiptCurrent`); the version check
  before publishing does the rest. Receipts are cited from RegistryProofs (`RegistryInv`, in `ReceiptCovers`). Two lemmas
  about operators carry the result: `DeltaIsBuild`, postings moved for a set of keys are the postings of a build if
  the set covers all that changed, and `UpdateIsBuild`, the same of the edges of the graph (`UpdatedEdges`). The second needs
  that equal fingerprints mean equal shapes but for the host review (`GraphIndexAssumption`, `CapOfFingerprint`).
* `IndexTypes`, `IndexesAreBuilt`: `GraphTypeOK` and `IndexesAreSnapshots`, from `SessionInv`.
* `LookupsAreCurrent`: `SessionSpec /\ ~Does("restores") => LookupIsCurrent`. The hypothesis is needed: a policy that is
  replaced and put back passes the last look (`MCGraphIndex_restores.cfg`, section 5). The invariant orders policies only
  where nobody puts one back.

`SchemaRefreshProofs` proves, from `RegistryAssumption` and `RefreshAssumption` and for any tools, documents, tasks and
worlds, without fairness:

* `RefreshInvariant`: `Spec => []RefreshInv` (a lemma; TLC checked `RefreshInv` first, over all worlds of the run and of
  `MCSchemaRefresh_claims.cfg`). A refresh answers to a record that may have been replaced while the provider was awaited.
  `JobOK` says what an operation relies on at its place: the tool it holds is the registered one for as long as the
  version is its base, and a write that is under way is due (`Due`). `ControlInv` is about the actors together: whoever decides
  about the watch holds the run lock (`LockInv`), a generation is given to one watch only, also by a registration still
  on its way (`GenInv`), so an operation whose generation is still the record's pinned that very record (`PinInv`).
  `RecordInv` says when a review is shown. Four lemmas (`ControlStands`, `ControlMoves`, `ControlPins`, `ControlConcludes`)
  cover what steps do to the watch; one lemma per action brings it to one of them.
* `WatchTypes`: `WatchTypeOK`, from `RefreshInv`.
* `WritesAreDue`: `Spec => OnlyDueWrites`, an action property, with the exception for what an amendment hides as the code has it. Without the comparison of versions the write could go over a
  contract nobody compared; without the look at the generation, over that of another watch: either omission breaks the proof
  at this theorem, the invariant itself holds without them.

Only model-checked: liveness (`RemovalEnds`, `CallEnds`, `StreamEnds`, `DriftIsSeen`), since ENABLED and fairness are
outside the prover's reach, and the violations of section 5, which are counterexamples.

## 5 Where code and documentation disagree

Three runs keep a counterexample each; `PROJECT.json` quotes the documentation:

* `binding_stale`: a tool is bound for `c2`. A second publication replaces `c2` by `c1` and has won its compare-and-swap, but not
  bound yet, so the binding is stale. An amendment on another thread reads `c1`, registers the amended `c1`, and
  `restamp_binding` re-points the binding it finds (`executor.py:867-879`): the invoker accepted only for `c2` is executable for the amended `c1`.
* `health_cancel`: a removal cancelled while it waits for probes leaves `_quiesce_requests` counted up,
  and no probe ever starts again.
* `execution_applied_late`: a call waits for its mutation, the worker returns in time, the deadline passes before the call
  runs again, and the check after the await (`executor.py:949`) reports a plain budget failure of a write that was carried out.

The modules state further documented promises that the code does not keep; the named configuration lets
TLC print the interleaving:

| property | configuration | what happens |
|---|---|---|
| `DriftedPublicationWithdrawn` | `MCBindingLifecycle_drift.cfg` | a publication raises BindingDriftError while a restamp that ran in between keeps its invoker executable (`executor.py:691`, "fail-closed outcome") |
| `FailedPublicationWithdrawn` | the same | a publication fails and undoes its registry write; before it drops its binding an amendment of another thread registers the next contract and restamps that binding, whose generation is then no longer the one the publication looks for: the invoker of a publication that raised stays executable (`executor.py:691`, `:812`) |
| `NoOrphanBinding` | `MCBindingLifecycle_orphan.cfg` | `bind` reads the contract, a removal runs, `bind` stores: a binding without a tool (`runtime.py:1537`, "Atomically remove one capability and all router-owned runtime state") |
| `OnlyExpectedUnbound` | `MCBindingLifecycle_rehydrate.cfg` | `bind_existing` looks at the binding, another thread binds, `bind_existing` drops that binding (`runtime.py:2514`; `docs/getting-started/startup-rebinding.md:57`) |
| `ReadyIsBoundToCurrent` | the same | between the check of the contract and the bind a foreign write moves the tool: what is bound is reported for the older contract (`startup-rebinding.md:56`, `:74`) |
| `AmendDriftMeansRegistryMoved` | `MCBindingLifecycle_drift.cfg` | a rebind during an amendment is reported as drift of the registry (`runtime.py:2417`) |
| `NeverWaitsForItself` | `MCHealthMonitor_claims.cfg` | before Python 3.12 `asyncio.wait_for` runs the callback in a task of its own; a removal issued by a probe then waits for that probe until its timeout (`health.py:257`) |
| `ReentrantRemovalDrainsOthers` | the same, second scenario | a removal issued by a probe does not wait for other probes either (`health.py:255`) |
| `StatusOfOwnGeneration` | the same, third scenario | a transition on another thread between the check and the end of a commit is overwritten by the old verdict (`health.py:253`) |
| `OnlyReadOnlyProbed` | the same, third and fifth scenario | the contract turns mutating between the look at it (`health.py:328`) and the start of the callback (`:354`): by another thread, or before Python 3.12 by a step of the loop (`docs/architecture.md:81`) |
| `BusyMeansAbandoned` | the same, fourth scenario | an overlapping cycle takes a worker that is still awaited for an abandoned one (`health.py:403`) |
| `BudgetFailureLeavesNoWorker` | `MCExecution_worker_late.cfg` | the deadline passes between submitting the job and looking at the deadline: plain budget failure, worker runs (`executor.py:928`) |
| `CooldownLasts` | `MCExecution_cooldown.cfg` | a late failure against the previous contract drops the cooldown of the current one (`docs/guides/runtime.md:168`) |
| `ValidStorageOpens` | `MCStorage_open.cfg`, two worlds | an opener's SELECTs straddle another process' migration or creation, and a sound file is refused (`storage.py:353`; `docs/getting-started/storage-migrations.md:62`) |
| `SoundTraceReads` | `MCStorage_read.cfg` | an append between the two SELECTs of `trace()` makes a sound trace look damaged (`traces.py:735`) |
| `FutureUntouched` | `MCStorage_newer.cfg` | a newer release upgrades the file between a judgement and the stamp, which then overwrites its format row (`registry.py:826`) |
| `LockReturned` | `MCStorage_interrupt.cfg` | a KeyboardInterrupt inside a write, or a COMMIT that fails, rolls nothing back: the writer lock stays taken until the connection is closed |
| `StreamEnds` | `MCPlanRun_stuck.cfg`, two worlds | a worker whose call is cancelled from inside (a job dropped by the pool's shutdown), or an invoker that swallows the cancellation, leaves the stream waiting for an item that never comes (`docs/guides/runtime.md:133`) |
| `FailureIsConcluded` | `MCPlanRun_removals.cfg` | the tools a fallback names are removed from the registry meanwhile: the run ends with an exception and no `run.error` |
| `DriftIsNeverMasked` | `MCSchemaRefresh_claims.cfg` | validators are kept by source identity; newer than the registered contract (a late 304, a foreign write), they turn drift into "not modified" (`ingestion.py:1314`; `docs/guides/schema-drift.md:236`) |
| `UnchangedMeansSame` | `MCSchemaRefresh_projection.cfg` | a change that only the fingerprint sees is reported as `unchanged` (`schema_diff.py:329`; `schema-drift.md:21`) |
| `BreakingIsReviewed` | `MCSchemaRefresh_claims.cfg` | a change of the provider that an amendment hides is applied without review even if it is breaking or a security matter, and then reported as compatible (`runtime.py:3580`, `:3721`, `:3764`; `docs/guides/schema-drift.md:122`, `:195`) |
| `AcceptedAsReviewed` | the same | `accept_pending` names the candidate, not the contract it was reviewed against |
| `NewerCandidateKept`, `ForgottenHasNoCandidate` | the same | accepting a native candidate drops a newer one (`native_schema_lifecycle.py:194`); a refresh that ends after `forget` stores a candidate of a removed tool (`:156`) |
| `CountsAsBuilt` | `MCGraphIndex_counts.cfg` | a refreshed graph does not count kept host roots without typed outputs, a built or revised one does (`native_graph_index.py:718`; `tests/test_sqlite_native_g5_graph_journal_e0.py:92`) |
| `RootsAreReviewed` | `MCGraphIndex_reviews.cfg` | a refresh from hints compares fingerprints only, and keeps an approved route whose review, which is metadata, was withdrawn (`native_graph_index.py:303`) |
| `LookupIsCurrent` | `MCGraphIndex_restores.cfg` | a policy object replaced and put back during a lookup passes the witness, while the data scope of some paths was judged under the other one (`runtime.py:4091`) |

## 6 What is not modelled

* Data: schemas, arguments, values, text, scoring. Fingerprints are compared for equality
  and assumed collision-free.
* In modelled components: offload flags of bindings; unit normalisation and projection of outputs; the
  background loop and `status_epoch` of the health monitor; two-hop, fork and deep-path lookups of the graph (the
  same passes over longer paths), ranking, and the answer when there are too many paths; compiling and executing
  a typed plan; a refresh over a bound MCP transport, the binding that follows the write of any refresh and its rollback
  (`publish_bound_tool`, in BindingLifecycle), and start and stop of the watch loops; follow-up calls, aggregation and redaction of runs; the in-memory trace store.
* Capability publication: a store of its own, with the compare-and-swap discipline of Registry; nothing
  modelled here reads it.
* Adapters, ingestion, command line, dashboard, integrations, analyzers, the paper-reproduction modules:
  parsing, input/output or arithmetic over text.

## 7 Plan

Order: what executes or writes first, then what derives, then what observes.

1. Registry, RegistryProofs, PostingIndex (done)
2. BindingLifecycle, with rebinding and restarts, BindingLifecycleProofs (done)
3. HealthMonitor, HealthMonitorProofs (done)
4. Execution, ExecutionProofs (done)
5. PlanRun, PlanRunProofs (done)
6. StorageFile, SQLiteRegistry, TraceStore, SQLiteStorage and the refinement of Registry (done)
7. SchemaRefresh, remote and native, SchemaRefreshProofs (done)
8. GraphIndex with one-hop lookups, GraphIndexProofs (done); fork and deep paths
9. LoopAffinity and audit delivery; CapabilityPublication: validation outside the lock, predecessor check, rollback
10. Algorithms: classification of schema changes, authorization decision, ordering of fallback chains
    and projection against reference definitions

Every invariant and action property of the passing runs is a theorem for every value of the constants
(`LookupIsCurrent` where nobody puts a policy back, as in the run); liveness is what TLC alone shows. Properties of the modules still to come will need theorems of theirs.

## 8 Running it

    tlc -workers 2 -config MCExecution_safety.cfg MCExecution
    tlapm RegistryProofs.tla

Each MC module has one or more `.cfg` files of the same name; each `run` of `PROJECT.json` names its pair.
The largest run visits about 2.4 million states.
