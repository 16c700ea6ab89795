# TLA+ models of ETLantic

Formal models of the core of ETLantic: what the planner decides and what the executors do with it;
what a local run does between `arun_pipeline` and its report, under concurrency, retries, callbacks,
timeouts and cancellation; what runs that share one `PipelineRuntime` do to each other; how a run in
an external orchestrator is compiled and polled; what four engines make of one portable transformation;
what a class statement declares, and what its contract artifacts load into; which installed plugins a process
trusts, loads and runs; and what becomes of reports and observations on disk. Paths below are relative to the repository; `core/` stands for `src/etlantic/`.

- [The system](#the-system): components, their state and interactions, what is hard about them
- [The models](#the-models): which module models what, and how
- [The runs](#the-runs): what TLC checks, on which instances, and what that shows
- [The proofs](#the-proofs): what TLAPS proves for every instance, and how
- [Where the code and its documentation disagree](#where-the-code-and-its-documentation-disagree)
- [What is not modelled](#what-is-not-modelled) and [the plan](#the-plan)

To repeat everything: `tlc -config LocalOrchestrator.cfg MCLocalOrchestrator` (and so on for each
line of the table of runs), and `tlapm` on `LocalOrchestratorProofs.tla`, `DebugSessionProofs.tla`,
`SqlPublicationProofs.tla`, `SourceReadProofs.tla`, `FileStoreProofs.tla`, `DataflowProofs.tla`,
`SharedRuntimeProofs.tla` and `ExternalRunProofs.tla`.

## The system

ETLantic is a declarative pipeline framework. A pipeline class declares sources, steps and sinks; the
planner resolves it under a profile to a frozen plan; the local orchestrator executes the plan with
the storages, plugins, secrets, resources and callbacks a `PipelineRuntime` holds, and stores a
report. Everything at run time happens in one event loop (anyio): a step runs until its next `await`,
and only there can another task, a timeout or a cancellation come between. Which calls
suspend therefore decides which interleavings exist. `maybe_await` (`core/runtime/context.py`)
awaits coroutines and moves plain callables to worker threads; built-in storages, the SQL plugin and
the Spark session provider are plain synchronous calls in the event loop, atomic for everyone else.

### Components and their state

| Component | State | Operations | Hard behaviour | Correct when |
|---|---|---|---|---|
| Local orchestrator, `core/runtime/orchestrator.py` | `pending`, `completed`, `failed`; a `_NodeState` per node (status, attempts, soft failure); run status; events | `execute`, the wave loop `run_body`, `_execute_node` (attempt, cleanup, callback, retry, backoff), `_run_node_once` | tasks of a wave write each other's statuses (abandonment) while suspended; interruption at any `await`; several policies decide about one retry | steps run after their producers, are abandoned only for an upstream reason, are never attempted more often than permitted; the report says what happened; the run ends |
| Resource injection, `core/lifecycle/resources.py` | cache by scope key and name, one lock | `get`, `cleanup_scope`, `override` | the lock is held over the provider's `await`; entries are popped before they are closed; cleanup in a cancelled scope; cleanups that raise | each resource is closed once, and not while in use; what an attempt opened is closed when it ends; nobody waits for ever |
| SQL plugin, `packages/etlantic-sql` | the list of staging tables; the database | `materialize_temp`, `execute_write` (insert, replace by swap), `cleanup_staging` | outcomes of transactions that are not known; a write of several transactions; a list shared by all runs | rows are published at most once; the verdict is what happened; the target is never lost; staging lives as long as its run |
| Source reads: `_read_source`, `_resolve_secret`, `_observe_schema`, `core/secrets/cache.py`, `core/schema_policy.py`, `core/schema_drift.py` | secret cache (bounded, expiring), schema history | `get`, `put`, `revoke`, `evaluate_drift`, `decide` | readers that miss together; expiry while a secret is in use; a judgement relative to an observation that a failed attempt made | cache bounded, secrets fresh, production fails closed on breaking drift |
| Request and debug session, `core/runtime/execute.py`, `core/runtime/request.py`, `core/plan/slicing.py`, `core/runtime/artifacts.py`, `core/storage/memory.py` | artifacts and memory bindings that outlive a run | selections (`only`, `from_`, `until`, `between`, `downstream_of`, ...), invalidation modes, `run_one`, `run_until`, `rerun` | a partial run reads what earlier runs left; a run that fails half way after an invalidation; three worklist loops over the graph | a selection has the producers it needs; artifacts of different runs are not mixed; unselected artifacts are left alone |
| Declaration and interchange, `core/pipeline.py`, `core/transformation.py`, `core/interchange/`, the structural and semantic phases of `core/validation/` | members and graph of a class; the contract bundle | class statement, subclass, `build_graph`, `validate_pipeline`, `generate_contracts`, `load_bundle` | references are written before names exist and resolved when the class is closed; names shared, reassigned, inherited; a bundle tells objects apart by fewer things than the program does | an accepted pipeline can run; inputs come from what the author passed; what was written loads into the same |
| Planner and validation, `core/plan/planner.py`, `core/validation/` | none (pure) | `validate_pipeline`, `plan_pipeline`: implementations, engines of sources and sinks, boundaries, output strategies | validation, planner and executors each decide about engines by rules of their own | what is accepted can run; a plan's slice is closed under producers |
| Dataframe, SQL and Spark execution, `core/runtime/dataframe_exec.py`, `sql_exec.py`, `spark_exec.py`, the branches of `_run_node_body` | the artifact store | gather inputs, fetch across SQL, run, collect, copy, store, write | every executor meets the forms all others produce; shared objects; a fetch that fails | data arrives in a form that fits; nothing is written under `no_write`; no rows get lost |
| Runtime container, `core/lifecycle/runtime.py` | plugins, configured profile, `_entered` | `ensure_plugins_for_profile`, `session` | overlapping sessions; two profiles on one runtime | a run keeps its plugins; what a run gets wrong it gets from one it overlaps |
| Report and schema stores, `core/reports/`, `core/schema_history.py`, `core/io_policy.py` | memory and files, lock files | `put`, `list`, `write_text_safe`, `cleanup_retention` | crash between memory and file, stale locks, retention that races a writer | a stored report survives a restart; one writer at a time |
| Spark sessions, `core/runtime/spark_exec.py`, `packages/etlantic-pyspark` | the session `getOrCreate` returns, the handles a provider owns, the session the plugin is bound to | acquire, bind, release | handles of overlapping runs share a session | nobody's session is stopped under it by a run it never met; sessions are released |
| External orchestration, `core/orchestration/`, `packages/etlantic-airflow` | the compiled artifact; the report | `compile_plan`, `correlate_poll_to_report`; submission, polling and cancellation happen outside | polls lost, repeated, late or out of order; retry settings from three places | the DAG keeps the plan's order and retry promises; the report says what happened; a terminal status stays |
| Prefect scheduler, `packages/etlantic-prefect` | `_task_correlation` | waves as Prefect tasks | two runs on one scheduler | a run reports its own tasks |
| Portable transformations, `core/transform/`, the lowering of the Polars, pandas, Spark and SQL plugins | the actions of a `FrameExpr` with its `schema_fields`; the frame an action works on | authoring, `analyze`, `execute` | four libraries with their own rules for nulls, equal rows, keys, the order of columns, offsets, casts and division; analysis sees actions, not rows | engines that accept a definition make the same of it |
| Plugin discovery and trust, `core/plugin_discovery.py`, `core/plugin_manifest.py`, `core/plugin_trust.py`, `core/plugin_lifecycle/`, `core/registry.py` | the tables and the registry of a runtime, the configured profile; what the process has imported | `ensure_plugins_for_profile`, discovery in `validate` and `plan`, `register_*_plugin`, `resolve_*_plugin`, the compatibility report | four places discover, each with another idea of what is asked for; names come from a distribution, an entry point, a manifest and the plugin itself | a production run executes only what its allowlist admits; code is imported only after that; a plan that is accepted finds its plugins |
| SparkForge adapter, `packages/etlantic-sparkforge` | none (pure) | `adapt_pipeline`, `enrich_plan`, `adapt_profile`, `adapt_run_result` | steps come in any order and by names that also name sinks; two vocabularies for modes and statuses | a sound document becomes the pipeline it describes; a report loses nothing but what is known in the translation back |
| DataFusion (raises from every method), CLI | none | I/O | - | - |

Interactions: `arun_pipeline` plans the request, invalidates artifacts and bindings on the sliced
graph, and calls `LocalOrchestrator.execute`. Each node task of a wave calls `_run_node_once`
through the step middleware; that reads sources (secret cache, storage, schema history), asks the
`ResourceManager` for injected resources, calls SQL and dataframe plugins, and puts outputs into the
artifact store. Callbacks and middleware are user code that may return, answer or raise anything.
The `ResourceManager`, the SQL plugin, the secret cache, the memory storage and (in a debug session)
the artifact store belong to the runtime, so that runs meet in them. The complete list of parts,
with their files, and the list of hazards with their source lines are in `PROJECT.json`.

## The models

```
RunContract  <-- implemented by --  LocalOrchestrator  -- proved in --  LocalOrchestratorProofs
ClosureWalk  <-- extended by --     DebugSession       -- proved in --  DebugSessionProofs
Planning     <-- extended by --     Dataflow           -- proved in --  DataflowProofs
             <-- extended by --     ExternalRun        -- proved in --  ExternalRunProofs
SharedRuntime, ResourceManager                         -- proved in --  SharedRuntimeProofs
SqlPublication, PluginDiscovery                        -- proved in --  SqlPublicationProofs
SourceRead, Declaration                                -- proved in --  SourceReadProofs
FileStore                                              -- proved in --  FileStoreProofs
PortableExpressions  <-- extended by -- PortableTransforms
Declaration          <-- extended by -- SparkForge (with an instance of Planning)
```

`SharedRuntimeProofs`, `SqlPublicationProofs` and `SourceReadProofs` extend both modules of their line, whose parts of
a specification have names of their own for that (`ManagerInit`, `DiscoverySpec`, ...).

`MC*` modules hold the constants of the instances for TLC. One action is what a task does between two
suspensions. Definitions whose comment begins with "Mutant" are deliberate bugs: every property of
every run is shown to fail when the definition the mutant belongs to is replaced by it, so that no
property holds for want of the behaviour it is about.

### `LocalOrchestrator`: one run of `execute`

| Variable | In the code |
|---|---|
| `plan`, `request` | the `PipelinePlan` and the `RunRequest`, never written |
| `phase`, `cause` | where `execute` stands: before `run_body`, in its loop, waiting for a wave, unwinding an exception or cancellation, behind it, in the `finally` clause, in the run callbacks, over |
| `pending`, `completed`, `failed` | the sets of `run_body` |
| `wave`, `pc` | the task group of the current wave, and where each task is: queued at the limiter, in `_run_node_once`, in the cleanup of the `finally`, in the callbacks, in backoff |
| `status`, `attempts`, `soft` | `_NodeState` (`soft` is `continue_after_failure`) |
| `err` | the exception of the current attempt, by what the code tells apart: `timeout`, `unknown` (PMEXEC434), any other |
| `report`, `event`, `outcome` | stored report, terminal event, and whether `execute` returned or raised |

`FormWave`, `AbandonUnmet`, `StopAfterFailure` and `WaveDone` are the turns of `run_body`. `Acquire`,
`AttemptEnds`, `Succeed`, `RaiseToCallbacks`, `Retry`, `EndBackoff`, `Fail`, `Skip` and `Continue` are
the parts of `_execute_node`; the walk over descendants is in `AbandonDescendants` and belongs to the
action of the task that fails, because it has no `await`. `CallbackRaises`, `Interrupt`,
`MiddlewareRaises`, `Unwind` and `EndUnwinding` are the ways out through exceptions. A run middleware may also
return without `call_next` (`MiddlewareSkips`) or catch what it raised (`MiddlewareSwallows`); that it calls it at most
once is assumed. `LeaveLifespan` cleans up the run's resources inside the `try`; what the `finally` clause awaits is outside,
and a cancellation there (`CleaningCancelled`) ends the run with neither report nor event. A task whose awaited
call had already completed when the run was interrupted runs on once (`Resumes`): the model lets it
succeed, fail or skip while the run unwinds, as anyio does.

`RunContract` is the promise to the caller, without waves, attempts or callbacks: nodes are worked on in
dependency order, a bad end rules out only nodes that depend on it, the verdict is given once, from the
fates; that nothing is still worked on then, and that success leaves nothing waiting, is promised if the run middleware
hands the run on (`handedOn`), since one that skips or swallows makes it untrue. The refinement mapping takes `fate` from `status` and `soft`, `verdict` from `report`.

### `Declaration`: class bodies, graphs, contract bundles

| Variable | In the code |
|---|---|
| `made` | the `Extract`, `Step`, `Load` and `SubpipelineInstance` objects; an object's place is its `producer_key` |
| `own`, `base` | the namespaces of the class and its base: names in order, what they are bound to, their annotations |
| `graph` | the `LogicalGraph` of `build_graph` |
| `verdict` | whether the report of `validate_pipeline` has errors |
| `doc`, `exported` | the bundle `write_contracts` has written, and the graph it was made of |
| `twists` | a bound: how often the author did something rare |

`Declare` and `Alias` are statements of a class body (`_PipelineNamespace.__setitem__`), whose arguments are
objects, outputs of objects, references written with the name of a node, something that is no output, or
nothing. `Close` collects the members (`MemberOrder`, `Owner`, `ContractOf`), resolves every binding
(`Resolve`: through the first name of an object, or through the only extract of the same asset and contract)
and builds the graph; `Subclass` begins a class that inherits. `Validate` is the structural and the semantic
phase, with `_detect_cycles` as the search it is: `Search` takes one step of the recursion after the other (`Begin`,
`End`), with the stack of the visits under way. `WriteContracts` and `LoadBundle` are `generate_contracts`
with `write_contracts`, and `load_bundle`: the objects it makes go through `Close` again. A document without a flow
into one of its outputs is refused (`PMGEN213`).

### `SparkForge`: documents and run results of another project

It extends `Declaration` by two actions. `AdaptPipeline` is `adapt_pipeline`: the steps of a document are parsed
(`ParsedSteps`), checked (`ValidateSpec`, with the walk to each step's root, and `DeltaErrors`), put into an order
(`TopoOrder`) and folded into a class body (`AdaptStep`), which `Close` and `Validate` then treat as any other;
`adapted` keeps the `AdaptationResult`. `ReportRun` is `adapt_run_result`; `report` is the `PipelineRunReport`.
`WriteIntentAt` is what `enrich_plan` finds for a sink; `PlannedStep` is the error, if any, of planning a passthrough under
the profile of `adapt_profile` (`AdaptedProfile`, with the capabilities it requires): of the selection in `Planning`, or of the
assertions that a Spark plugin is registered (PMPLAN414) and has what is required (PMPLAN415). `Explain` is
`report_to_sparkforge_explain`. Of a report the model has the statuses, intent, steps, record counts, validations, artifacts and
diagnostics; the ids of run and plan, times, the name of the profile and free metadata of the whole report are left out.

### `ResourceManager`: injected resources

`get` is `Hit` or `Miss` then `Provide` (the lock is held in between), `cleanup_scope` is `PopScope`
and then one `CleanUp` per resource after the lock is free. A step's task goes through its attempts;
`LeaveMiddleware` is every way an attempt leaves `step_middleware.run` for the `finally`. The cache key
is step, attempt and name, as `_invoke_transform` builds it; resources also carry who opened them, so
that sharing can be seen. A cancelled task reaches the `await` of the lock in a cancelled scope, which
raises first (`Unwind`).

### `SqlPublication`: materialize, publish, clean up

One SQL transformation with a sink behind it, in runs that share a plugin. A transaction has two
results: whether it was applied, and what `_classify_failure` makes of its exception (committed, rolled
back, unknown). `Materialize`, `InsertSelect`, `Replace` and `EndRun` are `materialize_temp`, the two
shapes of `execute_write`, and `cleanup_staging`; `Replace` has the two transactions of `publish_replace`
and, where DDL commits by itself (`transactionalDdl = FALSE`, as with SQLite), stops behind any
of the four statements of the swap. `TableGone` is what becomes of a write whose tables were dropped by
somebody else.

### `SourceRead`: secrets and schema drift

Readers of concurrent runs share the `SecretCache`, each with its run's schema history. `Put` evicts as
`put` does, before it looks whether the reference is there already. The provider's answer (`Answer`)
and the moment the coroutine puts it into the cache (`Resolved`) are two steps, between which time
passes, others read, and the secret may be revoked. `Read` observes, records and judges in one step,
because `_observe_schema` does not suspend. Time is an integer; `Tick` does not let an attempt outlive
`step_seconds`.

### `ClosureWalk`, `DebugSession`: requests on one runtime

`ClosureWalk` is the worklist loop shared by `dependency_closure`, `downstream_of` and
`invalidation_targets` (and `minimum_safe_repair`), marking nodes on pop or on push. Its
specification of correctness is `Closure`, the intersection of all closed sets around the targets.
`DebugSession` runs request after request: selection walks, the planner's closing walk, one
invalidation walk per selected node on the *sliced* graph, the drop of artifacts and memory bindings,
and the run. Memory is kept by key, as `MemoryStorage` does: rows are read and written under the location of a
binding, or its name if it has none, and dropped by the name (`BindingsOf`); several nodes may have one binding. A run is one action there, which completes any downward-closed part of its nodes; its inside
is `LocalOrchestrator`. An artifact is the run that put it with the runs of the inputs it was made from,
which is what the properties tell apart.

### `FileStore`: reports and schema history on disk

Processes that share a directory, through `FileReportStore` (a file per report) or
`FileSchemaHistoryProvider` (a file per subject, written anew with everything in memory). One action is
what one system call does to the directory.

| Variable | In the code |
|---|---|
| `mode` | what is stored and the `SafeIoPolicy`; `readLimit` is `max_read_bytes` counted in items |
| `pc`, `item` | where a process stands in `write_text_safe`, and with what |
| `memory` | `_memory` of its store, lost when it stops |
| `files`, `temps`, `locks` | the directory; it survives crashes |
| `begun`, `acknowledged` | history: what was put, and what `put` or `record` returned for |

`Put` writes memory first and looks whether the file is there; `Acquire` is `open` with `O_CREAT | O_EXCL`,
`AcquireFails` and `TimeOut` are its errors (the first may leave a lock file, because no `finally` has been
entered yet); `Reject` is the second look under the lock; `Stage`, `Write` and `Replace` are `mkstemp`,
the write with its `fsync`, and `os.replace`; `WriteFails` and `Release` are the `except` and `finally`, whose unlinking may fail silently.
`Stop` is an exit between calls or a kill inside one, `Open` what a new process loads, and `Retain` is
`cleanup_retention`, which takes files of any name. Stale locks are not broken by anything else in the code.

### `Planning` and `Dataflow`: from a declaration to the targets

`Planning` is the planner as operators over a declared project: `SelectImplementation` and what it
falls back to (`_select_implementations`, with its `NativeOr` helpers), `ResolvedEngine` for
sources and sinks, `CrossEngine`, `FanOut`, `SinkPublication` and `CollectionPoints` for the boundaries,
`Strategy` for the outputs; and the two validation phases that look at the profile (`Valid`), which take
the engine of a step from another place than the planner does.

`Dataflow` validates, plans and runs a project. A value is its form (rows, lazy or collected frame, SQL
query or relation, Spark dataset or frame), the engine that made it, the node whose objects it consists of
(two values with one `cell` share memory), and whether rows are missing. `Gather` and the executors
(`RunLocalStep`, `RunDataframeStep`, `RunSqlStep`, `RunSparkStep`, `NoImplementation`, and the three sinks)
are two steps, because the code awaits between them. What a callable computes is left open; what an
executor accepts, collects, copies and stores is not. The runtime takes an engine's family from its name
(`RuntimeFamily`), the planner from its capabilities (`Family`).

### `SharedRuntime`: runs on one runtime

Runs of one pipeline (producer, consumer, sink) begin, suspend and end in any order. `Begin` is
`arun_pipeline` up to the session, with `ensure_plugins_for_profile`; `Enter` and `Leave` are the lifespan of
`session()`; `EnsureSession` and `ReleaseSession` the Spark session with the plugin it is bound to: a provider or plugin
that is registered, by hand or by the discovery of some run, is one object for all, any other is made anew at each
look-up. A producer that a callback lets the run continue after (`soft`, `passed`) has stored nothing. `Fresh`,
`Host`, `Submit` and `Report` the correlation map of the Prefect scheduler. `met` is a history variable: the
runs that were under way together with a run.

### `ExternalRun`: compiled, run elsewhere, polled

`CompilePlan` is `compile_plan` with the Airflow compiler's checks and `resolve_task_retry`, on a plan that
`Planning` makes. Submission, tasks, retries, the cancelled run and the network are not in the repository;
they are modelled from what the generated DAG and `correlate_poll_to_report` use of them. `Poll` takes a
snapshot, or none is had (status `unknown`); an answer is correlated never, once or again, in any order.

### `PortableTransforms` and `PortableExpressions`: one definition, four engines

| Variable | In the code |
|---|---|
| `inputs`, `dialect` | the frames of the two input ports; the database the SQL plugin is connected to |
| `definition`, `schema` | the actions of the last `FrameExpr`, and its `schema_fields`, which become the output schema of the exported definition |
| `phase`, `accepted` | authoring or running; the engines whose `analyze` reported nothing |
| `next`, `frame` | the loop of `execute`: the next action, and what each engine has so far, or that it raised |
| `departed` | history: the engines that met a case of `Departs` |

`Author` is a method of `FrameExpr` with `_extend`; an author names only columns that are there (`Known`).
`Analyze` matches what the actions need (`Requirements`, `Modes`) with what a compiler claims. `Lower` executes one action in every
engine that accepted the definition, each by its `apply_action`: `Filter`, `Project`, `WithFields`, ... , `Limit` have the engine
as a parameter where the four differ. What the libraries do with a call (whether null keys match, which
side a joined key comes from, what the sum of nothing is) is part of these definitions, because it is
what the lowering relies on. `Departs` lists, engine by engine, the cases in which one does something of its
own; none of its disjuncts can be left out without a counterexample to `PortableResults`, but for `Ties`:
Polars need not order tied rows of a window as the others do, where the model does.

`PortableExpressions` is `lower_expr` of the four compilers, as far as the rows show it: `Value` is what an
engine makes of an expression on a row, or `Failure`. A value is a number, a truth value, a text (a sequence
of characters) or a list of texts; the alphabet has a pair of letters outside ASCII, a blank that is no
space, digits, "." and "$", which are the characters an engine treats as special. What is searched for in
`replace` and `split` is one character, a pattern of `regex_extract` a text of letters. `Peculiar` looks for
a subexpression where an engine is on its own (`Odd`); its last parameter says that nobody can tell null
from FALSE there, as in a filter. `Nullable` is where pandas has nulls that compare as nulls, in the columns
text functions make within one expression. `Windowed` evaluates ranks, row numbers, `lag` and the first and
last value over partitions and orders, as each compiler spells them.

### `PluginDiscovery`: installed, trusted, loaded, run

| Variable | In the code |
|---|---|
| `site` | the installed distributions: entry points in the order `importlib.metadata` lists them, each with its manifest and the object its code makes; and objects a program brings along |
| `runtime` | the tables (`dataframe_plugins`, ..., `scheduler_plugins`), the `PluginRegistry`, and the key of the configured profile |
| `imported` | the entry points whose `load()` was called in this process |
| `byHand`, `used` | history: what the program registered itself, and the profiles it asked for |
| `planned`, `outcome`, `calls` | what `plan` without a runtime said of each profile; the verdict and the plugins of the last run; a count |

`Lifecycle` is `discover_evaluate_authorize_load` for one group: `Discover` reads entry points and manifests
(`Examine`), `Evaluated` drops what production does not accept, `Authorize` compares with the allowlist,
`Probe` looks the entry point up once more, `Load` imports it and gives it a key. `Ensure` does so for every
group and merges the tables; `Plan` and `Run` do it again with the registry they have (`Context`), and `Run` a
third time for an engine the tables lack (`Resolved`). A Spark run looks for its session provider when it acquires the
session and for the one named `local` when it releases it (`Provider`, `Session`), each time with no profile, so that no
allowlist filters what is imported (`SessionTried`); without a provider it fails (PMEXEC441). `Register1` stands for the five methods a program
registers its own objects with, `RegisterProvider` for a session provider it puts into the runtime's table, of which the registry
is not told.

## The runs

No run ends in a violation: where the code and a document disagree, the property a run checks says what
holds, with the exception as a premise, and the disagreement is listed
[below](#where-the-code-and-its-documentation-disagree).

**`orchestrator`** (`LocalOrchestrator.cfg`, 172,771 distinct states). Four nodes; a fork (a sibling
branch to spare), a diamond with an edge across two waves, and a slice without the upstream of a node;
four requests: cancellation, timeouts and cleanups that raise, with backoff, concurrency 1; every callback answer with
`retry_on = {timeout}`, concurrency 2; callbacks without retry and a run middleware that raises or skips; and one that
skips or swallows, with timeouts. Two
attempts are enough for every retry rule (first, last, forbidden second by `safe = FALSE` and by
`limit = 1`); four nodes are enough for a wave of two with something below and beside each.

- `GraphRespected`: no attempt starts before all producers completed, and none is un-completed after
  (`DependencyOrder`); a node is abandoned only for a reason upstream, so that a SKIP or a failure never
  touches a sibling branch (`AbandonedHasCause`).
- `ReportIsTrue`: only an interrupted run may report a step as running (`NothingLeftRunning`); SUCCEEDED
  hides no node that failed, was abandoned or never started, unless a middleware skipped the body, and then all are
  pending (`SuccessIsComplete`); neither is said of a middleware that swallows. Who gets a report has seen its terminal
  event, and a run leaves none only if a middleware raised in its place or a cancellation met the `finally` clause
  (`EventMatchesReport`).
- `AttemptsPermitted`: `max_attempts` and the retry-safety declaration hold against any callback answer.
- `UnknownNotRetried`: a write of unknown outcome is tried again only if a callback can ask for it.
- `RunEnds`: every run is over in the end (liveness).
- `KeepsContract`: the orchestrator implements `RunContract` (refinement).

**`resources`** (`ResourceManager.cfg`, 92,853). Two runs of one pipeline, two steps, two names, two
attempts; four circumstances: runs that take turns, runs side by side, and each with cancellation and
cleanups that raise. Two runs and two attempts are what keys can be confused between; a third name
or run repeats the same conflicts.

- `CacheIsSound`: in all circumstances nothing is closed twice and the cache never offers something closed,
  though cleanup happens after the lock is released; runs that take turns never lose a resource they
  hold; two tasks that miss the same key never fill it one over the other.
- `UndisturbedScopes`: a resource is fresh for its attempt, and closed when that is over, in runs that take
  turns and that nothing disturbs. Both restrictions are needed: see the observations below.
- `EveryTaskEnds`: a task that fails or is cancelled inside a provider leaves the lock to the others.

**`sql_publication`** (`SqlPublication.cfg`, 168,302). Two runs, two attempts, both intents, both kinds of
DDL, in turn or concurrent, up to four transactions that do not simply commit (`MaxFaults`: a run makes at
most two attempts at its materialization and two at its write, so one run may see all of them fail).

- `PublishedAsReported`: what is retried was not applied, and the verdict says what happened, except where
  DDL is not transactional and a swap stops half way: the property says so.
- `TargetStays`: with transactional DDL a target that existed is never missing after a call.
- `StagingLivesAsItsRun`: without faults no table is left over, whatever is cancelled or interleaved; and
  between materialization and publication the staging table is there, if runs take turns.

**`debug_session`** (`DebugSession.cfg`, 201,322). A pipeline with a side branch, the same with soft
failures, a join, one with a redefined member, and one with two branches whose sources and sink share bindings and locations
(`Apart`; the sources of the join have one binding too); every selection and invalidation mode, two runs.
Two runs are one to leave artifacts and one to meet them. A session may stop after any run, hence
no deadlock check.

- `SelectionIsClosed`: every walk ends with the closure, no more and no less (`WalkIsExact`); a planned
  selection is not empty and has all its producers, but for the prefix of an `until` on a pipeline whose
  members are not in order (`OnlyUntilMayStarve`).
- `OneRunPerArtifact`: without soft failures artifacts are never computed from two runs' inputs.
- `InvalidationIsExact`: what an invalidating request selects is never older than it, also when its run
  fails half way, neither the artifacts nor the rows under its bindings; and a request leaves artifacts alone that it
  does not select, and drops rows only under a binding one of its nodes has. That binding may be one of an unselected node
  as well, whose rows then go too.

**`source_read`** (`SourceRead.cfg`, 579,897). Two readers of one secret and one of another, caches of 0, 1
and 2 entries, time to live 1, attempts of at most 1, clock up to 2 (a secret answered at 0 and put at 1
expires at 2), a source that has drifted or has no rows, on production and other profiles. Readers may
all be finished, hence no deadlock check.

- `CacheIsBoundedAndFresh`: readers that miss together never push the cache over its bound or duplicate a
  key; nobody begins with a secret older than the time to live plus one attempt (that the second term is
  needed shows the entry's age is counted from the put, not from the answer).
- `DriftNeedsRetry`: on a fail-closed profile drifted data is stored only by a retry.

**`file_store`** (`FileStore.cfg`, 846,544). Two processes, three items, twenty-one combinations of kind and
policy, two kills or failing calls. Two processes are enough for an exclusion; three items are one that was
in the file before, one written now, and one after it, and one more than the smaller `readLimit` of 2; two
faults are one that leaves a lock or a temporary file and one for the process that meets it.

- `LocksAreSound`: two processes never write one file at a time under locking, unless retention unlinks
  the lock of one that stood still for the retention period; and without a kill or a failing call no lock
  or temporary file outlives its write.
- `AcknowledgedIsDurable`: what `put` or `record` has returned for is in the file whichever process fails
  or is killed before and after, if the writer knows all that is in the file. That condition (`Informed`)
  is a limit of the code: two processes that record one subject side by side lose each other's
  observations, and a history larger than `max_read_bytes` is read as empty and then overwritten.
- `NothingOverwritten`: under that condition files only grow; and with `overwrite = "reject"` and locking a
  file never changes, whoever writes, because the look at it is repeated under the lock.

**`dataflow`** (`Dataflow.cfg`, 636,940). Four nodes (a source, two steps, a sink) as a chain, a fork and two
steps beside each other; steps with callables everywhere, on one engine, in the registry only, or with a
portable definition; profiles for each engine, policy and override; sources and sinks on every kind of provider
(`csv` is one that gives a Spark node rows instead of a dataset);
two attempts, and callables that write in place. One engine is of another package and known by its
capabilities only. Two steps with a source and a sink bring every executor next to every other; three
steps on pandas and Polars are a writer with others before and beside it.

- `StrictPlansRun`: what a strict policy lets through never fails for want of an implementation or a
  compiler, although validation and planner look for the engine in different places. Its premises name the
  limits: overrides in the request, profiles with a Spark or SQL engine, compilers without an executor, and
  callables that only the registry has.
- `FormsFit`: a lazy frame reaches only its own library, an SQL handle only SQL nodes, a Spark handle only
  Spark nodes; and between steps data is converted only where the plan has a boundary.
- `NoWriteLeavesTargets`: no executor writes under `no_write`.
- `RowsLostOnlyAtFetch`: rows go missing only in the fetch whose outcome is ignored, and stay missing.
- `WritesStayNear`: a callable that writes in place writes into objects of a node it consumes, and of no node
  further up, unless what it consumes was passed on: by a local step, or by one not on pandas with one consumer.
- `EveryPlanEnds`: a pipeline is rejected or every node ends (liveness).

**`shared_runtime`** (`SharedRuntime.cfg`, 4,854,279, runs symmetric). Three runs on each combination of three
settings: Prefect with the shared store and a soft producer, Spark through the provider `local`, Spark through a named provider
with a store of its own and a soft producer, under profiles that discover the Spark plugin and its provider, the plugin
alone, or neither. Nothing is registered by hand, so that each is registered by an earlier run or not at all. Two runs are a
disturbance, the third is one that must not be reached by it.

- `DisturbedOnlyByOverlap`: another run's tasks, stopped session or lifespan reaches a run only from one
  it overlapped, and so does its data, unless the run's own producer was passed over: then the consumer reads what
  any earlier run left. If the caller gave a store, it reads no other run's data at all.
- `SessionsReleased`: when nobody runs, a session is open only if it is of a provider with another name, or of a run
  that began while the runtime had none named `local`.
- `PluginsStay`: repeating the discovery never takes a plugin from a run under way.

**`external_run`** (`ExternalRun.cfg`, 800,701). A chain, a fork, joins and a slice; retries from the intent, the
plan and declarations; two polls and three correlations, so that an answer can be late, repeated, and late
after being repeated.

- `DagKeepsPlan`: no task starts before what it reads, and none is repeated against a declaration.
- `ReportedAsHappened`: a status the report calls final is the backend's, whatever states the backend has
  that ETLantic has no name for.
- `OnlyLateAnswersRegress`: only an answer older than one already correlated takes the report back.

**`portable_transforms`** (`PortableTransforms.cfg`, 343,418). Every definition of one or two of 148 actions: all
actions, with the parameters that tell engines apart, some of them unsupported; windows with an order up,
down, in both directions and none; and 63 filters and computed columns over every modelled function. They
work on five pairs of frames with null keys, equal rows, the same columns in another order, or no column in
common, on three frames of numbers and texts with nulls, a zero, blanks, digits and letters outside ASCII,
and on both SQL dialects. Two actions are one whose result the next meets: columns in an engine's own order, nulls of an
outer join, duplicates, no rows at all, a computed truth value in a filter. A definition that ran is done,
hence no deadlock check.

- `PortableResults`: two engines that accepted a definition raise at the same action or make the same rows of
  it, as long as neither meets a case of `Departs`.
- `DeclaredSchema`: the output schema that authoring keeps, without running anything, names the columns
  every engine delivers, unless an action brought columns from elsewhere.

**`declaration`** (`Declaration.cfg`, 1,763,138). Four names, up to four objects (two extracts, two steps, a
sink, an embedded pipeline), one twist: a shared or reassigned name, a subclass, a reference written by hand,
an argument that is none. Two steps make a cycle, two extracts an ambiguity, one twist each way of losing or
replacing an object; contracts with one published identity, transformations with one id and outputs for
invalid rows are among the constants. With two twists on three objects (880,059 states) nothing else happens.
A class that was refused is done, hence no deadlock check.

- `AcceptedCanRun`: a pipeline that validates has an order in which each node follows what it reads, exactly
  one existing producer for every input, and declared contracts that agree along every edge, unless a subclass
  assigned a name again without its annotation.
- `WiredAsSpecified`: an edge comes from the object the author passed, while that is a member; afterwards only
  an extract of the same asset stands in for it (`WiredAsWritten`). A SparkForge document is adapted exactly when
  it is sound, in whatever order its steps are written, and into the nodes and edges it names, each table with
  the mode of its own step; but for steps named like the sink of another. It can be planned unless its engine is an SQL
  one, on Spark only with a Spark plugin, and only with one that has `spark_delta` if the engine is Delta, or Delta operations were
  asked for and not strictly checked (`AdaptedAsSpecified`).
- `LoadsAndReportsAsWritten`: what is written loads into a valid pipeline with the same nodes and edges, but for
  transformations that share an id; and two extracts of one asset and contract, one of them read, are exactly
  the case in which the loaded pipeline is invalid (`LoadsAsWritten`). A run report explained to SparkForge and
  adapted again has the same status, intent, validations, artifacts and diagnostics, and the same steps by name, status, attempts
  and records; it has lost the steps' ids, errors and metadata, and the record counts of the run, and nothing else of what is
  modelled (`DualReporting`).

The same run begins with a SparkForge document instead of a class body: a bronze step, one that reads it and a
third one in every order, where the third brings what makes a document unsound (a cycle, a step read that is
not there, names taken twice or after a sink, unknown kinds, shared tables, write modes without a
counterpart), the engines with Delta features, strict or not, and run results in the words SparkForge has for status and mode.

**`plugin_discovery`** (`PluginDiscovery.cfg`, 100,659). One distribution of the project (a dataframe plugin and a
compiler) and one entry point of a third party before or after it, in every group and with names that collide
with the first or do not, or an object the program brings, a dataframe plugin, a scheduler or a session provider; or a Spark plugin
with a session provider, with and without a manifest; at most one of them at fault, of sixteen
faults; twelve profiles, one of which asks for another scheduler than the local one, three for Spark; two calls. One other entry point is enough for a collision of names at each of the four places a name is used; two
calls are one that leaves plugins in a runtime and one that meets them. A program may stop, hence no deadlock check.

- `ProductionUsesAllowed`: the plugins a production run executes are vouched for by a manifest and admitted,
  with their version, by the allowlist of that profile, whatever the runtime was used for before; the
  exceptions are objects the program registered by hand. `Overlooked` says which of them: those whose own name
  and version the allowlist admits; those of which neither the name nor the engine is one the profile asks for,
  because trust looks at no others; session providers, of which the registry is not told; and those that share their name with another plugin, which can have taken
  their place in the registry, where trust looks, but not in the tables a run uses.
- `LoadedIsAuthorized`: code is imported only when a profile in use admits it; but an object registered under
  another name than its own engine opens its group, because planning then discovers with no profile; and outside
  production a Spark run may import every session provider that is installed.
- `ForecastsHold`: what planning accepts, a fresh runtime runs, if the groups planning does not ask for are
  empty, no two engines share a compiler's name and version, and a Spark run finds a session provider, which planning
  does not look for (`PlanPredictsRun`); the compatibility report
  and a production run differ only in the faults it does not look for (`ReportAgrees`).

### Fairness

`LocalOrchestrator` assumes `WF_vars(System)`: the event loop keeps running something that can run, and
user code returns or raises (a transformation that never returns stops the run in the code too, unless
`run_seconds` is set). Timeouts, cancellation and what a middleware does instead of handing on are not owed. `ResourceManager`
assumes weak fairness of each task: the event loop is fair to ready tasks, and anyio's lock hands itself
to its waiters in order; again cancellation and timeouts are not owed. Weak fairness per task is
enough for a waiter because each task takes the lock finitely often (attempts and names are bounded).
`Dataflow` assumes `WF_vars(Next)`: a run that can go on does; every
action of it is a call that returns or raises, and attempts are bounded. The other modules state
safety only and assume no fairness.

### Bounds

`MaxRuns` (requests in a session), `MaxFaults` (in `SqlPublication` and `FileStore`), `MaxAttempts` (`RetryPolicy.max_attempts`), `MaxClock`
with `TTL` and `StepSeconds`, `MaxPolls` and `MaxDeliveries` (answers of an external orchestrator),
`MaxActions` (actions of a portable definition), `MaxCalls` (calls of a process with plugins), `MaxObjects`, `MaxMade` and `MaxTwists` (objects of a class body
and what is rare in it). `LocalOrchestrator` has no bound of its own: attempts are limited by
the request.

## The proofs

TLAPS proves, for every value of the constants:

| Theorem | Says |
|---|---|
| `TypeCorrect` | `LocalOrchestrator`'s types |
| `GraphRespectedHolds` (from `DependencyOrderHolds`, `AbandonedHasCauseHolds`), `AttemptsPermittedHolds`, `NothingLeftRunningHolds` | the invariants above, for every finite graph (acyclic or not), selection, retry declaration and request |
| `ReportIsTrueHolds` | report, terminal event and step statuses agree, and success hides no node, for every plan and request, as far as the run middleware hands the run on; what one that skips, swallows or raises, or a cancellation in the `finally` clause, can still change is part of the statement |
| `TerminalIsFinalHolds` | a terminal step status never changes, though the walk edits other tasks' statuses |
| `UnknownNotRetriedHolds` | after a write of unknown outcome an attempt follows only if a callback may ask for it |
| `KeepsContractHolds` | the orchestrator implements `RunContract`: initial states map to initial states, every step to a step or a stutter, whatever the run middleware does |
| `WalkIsExactHolds` | every worklist loop computes the closure, on every graph and with either marking |
| `SelectionIsClosedHolds` (from `SessionWalksAreExact`, `OnlyUntilMayStarveHolds`) | the same of the walks of a session, and that only `until` can starve a selection, for every pipeline |
| `OneRunPerArtifactHolds`, `InvalidationIsExactHolds` | artifacts of a session come from one run each, and a request replaces those of its selection and no others, and drops rows under the bindings of its selection and no others, for every pipeline, sharing of bindings, selection, mode and number of runs |
| `PublishedAsReportedHolds`, `StagingLivesAsItsRunHolds`, `TargetStaysHolds` | all of `SqlPublication`, for any number of runs, attempts and faults, every write mode and dialect |
| `CacheIsBoundedAndFreshHolds`, `DriftNeedsRetryHolds` | all of `SourceRead`, for any number of readers, references and entries, every schema, policy and time to live |
| `LocksAreSoundHolds` (from `MutualExclusionHolds`, `LeftoversHaveCauseHolds`) | the lock file of `write_text_safe` excludes, and nothing is left over without a fault, for any number of processes, items and faults |
| `AcknowledgedIsDurableHolds`, `NothingOverwrittenHolds` | what a call returned for is in its file, whatever crashed before and after, and a file only grows, or is left alone where overwriting is rejected |
| `StrictPlansRunHolds`, `FormsFitHolds`, `NoWriteLeavesTargetsHolds`, `RowsLostOnlyAtFetchHolds`, `WritesStayNearHolds` | all safety properties of `Dataflow`, for every graph, profile, set of implementations, engine, provider and number of attempts |
| `CacheIsSoundHolds`, `UndisturbedScopesHolds` | all safety of `ResourceManager`, for any number of runs, steps, names and attempts |
| `ProductionUsesAllowedHolds`, `LoadedIsAuthorizedHolds` | what a production run executes, its session provider included, and what a process imports, for any installations, manifests, profiles, hand-made plugins and calls |
| `AcceptedCanRunHolds` | what `AcceptedCanRun` says of pipelines that validate, for any transformations and contracts and whatever statements, subclasses and bundles they come from; in it, that the search finds every cycle (`SearchOrders`) |
| `WiredAsWrittenHolds` | the part of `WiredAsSpecified` about class bodies: where the edges come from, for any transformations, contracts and bounds, whatever names are shared, assigned again or overridden |
| `RuntimeTypes`, `DisturbedOnlyByOverlapHolds`, `SessionsReleasedHolds`, `PluginsStayHolds` | all of `SharedRuntime`, for any number of runs, profiles, plugins registered or not, and settings |
| `ExternalTypes`, `DagKeepsPlanHolds`, `ReportedAsHappenedHolds`, `OnlyLateAnswersRegressHolds` | all of `ExternalRun`, for every plan and declaration and any number of polls and answers |

**Assumptions.** `ConstantsAssumption`: the nodes are finite, plans and requests have their types, and a
request has a possible callback answer. `SessionAssumption`: the order of a declaration names no node
twice and contains all nodes with producers and all producers, and the graph is acyclic (what
`validate_pipeline` has established). `SqlAssumption`: runs are finite, there is an attempt, and write modes
are such. `ReadAssumption`: a schema names a field once, and each reader has an attempt.
`StoreAssumption`: items are finite and differ from the file of the subject and from the absent value; the order of
reports by name has all of them.
`PlanningAssumption`: engines have a family; those the library knows by name, `local`, `sql` and `pyspark`
among them, have the one it gives them.
`DataflowAssumption`: graphs have their types, a sink has a producer and a source has none.
`SharedRuntimeAssumption`: settings have their types and names are distinct. `ExternalAssumption`: a
slice has the producers of its nodes, retries and limits are numbers. `ResourceAssumption`: there is an attempt, modes
have their type, and the absent value is neither a resource nor a task nor a name. `PluginDiscoveryAssumption`: a
site is finite, its places and those of the entries of a manifest are numbers, a group is one of the seven; a
profile is of one of the two modes, and neither it nor its key is the absent value. `DeclarationAssumption`: bounds are
numbers, names differ, a transformation has an output and the absent value is no published identity; no proof uses it.
TLC evaluates them on every run that uses the module.

**The orchestrator.** None of the safety properties is inductive: `AbandonedHasCause` needs to know that
a node in `pending` has not begun, `DependencyOrder` that `completed` and the statuses agree. The
inductive invariant `SafetyInv` has four parts besides `AbandonedHasCause`: `TaskInv` (a node's task,
status and attempts agree), `LoopInv` (the sets of `run_body` agree with the statuses, and a
node that was ever in a wave has completed producers), `PhaseInv` (outside a wave no task is half done)
and `RetryInv` (an attempt in backoff is permitted already). The delicate step is the abandonment walk:
`BelowIsIdle` shows that what lies below a node whose task is under way is idle or unselected, so that the walk
touches no task of the wave, and `WalkHasPredecessor` gives every abandoned node a producer that is
abandoned too or is the failed node itself. `AttemptSafety` and `WalkSafety` collect the actions that share a
shape; `NextSafety` puts them together. The refinement (`NextKeepsContract`) maps attempts, backoff,
waves and callbacks to stuttering, a settled task to `Complete` or `Drop`, and `EndUnwinding` to
`GiveUp`. `ReportInv` ties report and event to the phase; its delicate step is the verdict, where
`NothingForgotten` shows from `LoopInv` that a loop that ended by itself with nothing failed has settled every
selected node, and below a skipped one nothing was selected.

**The walks.** `WalkInv` says that nothing outside the closure was seen or stacked, and that what seen nodes
lead to is seen or still on the stack; for marking on push, that the stack is seen as well and only
unstacked nodes have been followed. With an empty stack the seen set is closed, hence contains the least closed
set. `SelectionInv` adds which relation the walk of each phase follows; a walk over the producers then
gives a selection that feeds itself, and `PrefixFeedsItself` gives it for prefixes of a declaration in
order. On these stand the two theorems on the store: `DroppedInv` says that the walks of an invalidation do not
leave the selection (`WithinInv`) and have begun at each of its nodes by the time they end (`WalkedInv`), so
that nothing older is left (`ClearedInv`); `StoreInv` that an artifact is of a run that has begun, and its parts
from the same one. A run that finds an artifact of an earlier run where it expected its own would break it; unless
failures are passed over it does not, because what a node may read has been put by the run itself or is not there at
all (`PutFromItsRun`).

**Publication.** A sink's verdict is a claim on earlier transactions, so that `PublishedAsReported` needs to know what
attempts that are still to be repeated have left: nothing, if the write can be taken back (`NothingYet`). Staging
tables are dropped from the plugin's list, so that `RemembersItsRuns` ties that list to the tables there are: all
of them without a fault. `OneAtATime` gives the rest for runs in turn: what the list has belongs to
the run that ends. `Retried` and `Concluded` collect what ends an attempt, with one lemma per action above them.

**Source reads.** `CacheInv` has the dictionary within its bound with one entry per reference, each expiring at
most a time to live and an attempt's length after it was answered (`ShortLived`); what `get` and `put` do to
the order of entries are lemmas on sequences (`Forget`). `FreshInv` follows a secret from there into a reader's
hands. Drift is an argument about schemas: breaking is transitive (`BreakingIsTransitive`), so that data that
breaks the contract and not its baseline has a baseline that broke the contract, and in a production run that fails
closed a baseline that is not the contract is an earlier observation of the run (`ReadStoresUnbroken`).

**The lock file.** `MutualExclusion` alone says nothing of the lock file. `StoreInv` adds that a process in
its critical section has made the lock file that is there (`LockInv`), so that the next `Acquire` finds it; a
`Release` unlinks by name and removes nobody else's lock, because by the same invariant there is nobody
else. `Shape` is the part of the type invariant these steps need, `StoreStep` has one case per action.
On the contents: an item is in one process's hands at a time (`ItemInv`), so that nobody writes two things to one
report (`ReportsInv`); a history that one process keeps is in its memory as far as it is in the file, and
longer by what it tried since (`HistoryInv`), also after a crash between the two and a restart that reads the
file; and under locks a file that `Stage` found absent stays absent until it is replaced (`FreshInv`).

**The plan and the executors.** `DataInv` says what a node that is done was given (what its producer
stored, or a fetch made of it: `InputInv`) and what it may have stored (`Makes`: a dataframe step leaves a
lazy frame only if nothing asked it to collect, an SQL step only handles, a Spark step rows only if some
consumer is not on Spark). `NodeEffect` shows that every action of a node gathers, finishes or stops it and leaves
the others alone; done is absorbing, so that the invariant of one node survives the steps of all others
(`NodeStep`). `FormsFit` then follows from `BuildPlan` alone: two nodes on different engines have an edge in
`plan.crossing` (`CrossesEngines`), which makes the producer collect. `StrictSelection` walks through the
branches of the planner under a policy that validation has accepted. `WritesStayNear` needs to know whose objects a
stored value consists of: the node's own, unless it passes inputs on (`CellInv`).

**Runs on a runtime.** `MetInv` says that runs under way together have met; the other parts say, for each
shared object, that what stands in it belongs to the run itself, or to one it has met, from the moment the
run puts it there to the moment it is read (`DataInv`, `FlowInv`, `SparkInv`); of the data only while the run's own producer was not passed
over. A session that is open belongs to a run whose handle the registered provider still knows, or to one the two exceptions of
`SessionsReleased` name.

**Resources.** Of the parts of `CacheIsSound` none is inductive: that a resource is not cleaned up twice needs
that what a task popped is no longer cached and on nobody else's list (`DoomInv`), that nothing is set up twice
that an attempt holds what it has set up (`OnceInv`), and all of it that what stands under a key is of the step and
attempt of the key (`ScopeInv`), though not of its run. `LockInv` ties the lock to the one task that awaits a provider and
says that what it awaits is still missing from the cache when the answer comes. `UndisturbedScopes` is about executions in which nobody is cancelled and no cleanup raises: there a cached resource is of an
attempt whose scope is still to be popped (`AliveInv`), so that what was set up is cached, listed or cleaned up
(`KeptInv`); and if runs take turns (`TurnsInv`), a task holds only what it set up itself (`OwnInv`), so that nobody
cleans up what another still holds. `PopScopeKeeps` is the delicate step: it turns cached entries into a list.

**Plugins.** What a production run executes comes from tables that earlier calls filled, under other profiles and
by hand, so that nothing about the last call alone is inductive. `DiscoveryInv` says of every table that a plugin in
it is of its group, and loadable, or registered by hand (`TablesOk`); of the registry that what stands under a name is a plugin
of that name (`PluginsOk`) and that the names of what was registered by hand stay taken (`NamesOk`); that an engine the registry knows and no table has can only come from an
object registered under another engine (`EnginesOk`), which is the case in which planning and a run discover with no
profile; and that a runtime configured for a profile has loaded what this profile loads (`KnownOk`). Then the argument
goes through the errors: `NothingDropped` shows that a production profile whose discovery ends without an error has
tried every installed plugin of every group, and `TriedAllowed` that what it tried is vouched for and listed, so
that whatever stands in a table and is installed is both, whoever put it there. `SameKey` shows that profiles of one
key, which the runtime takes for one another, load the same. The least and the greatest of a set of places exist by
the argument of the least counterexample (`GreatestExists`, `LeastExists`), as the induction theorems have an operator
as a parameter.

**Declarations.** `AcceptedCanRun` is a claim of the validator about the graph. `DeclarationInv` adds that the graph is that
of the members with one edge at most per port (`GraphInv`), that each object has a value for what it needs
(`Complete`) and that a body annotates no name it does not bind (`MembersInv`), so that the contract in the graph is the
declared one (`ContractsAreDeclared`). That an order exists is the correctness of the search (`WalkInv`): the grey nodes are the
stack; and as long as no cycle was met, black nodes lead to black ones only, and can be put in order. A visit that
ends adds a node that no black node leads to (`VisitEnds`). Every step takes a node one color further
(`Progress`), so that after two for each node all are black, whatever node the search begins with. What a recursive function
computes is reached by induction over the set of the numbers up to which the claim holds (`Counting`), and that it exists by
the same (`Iterating`). `WiredAsWritten` is decided when a class is closed: a reference resolves to the first member that
is the object passed, or to the only extract of its asset (`ResolvesAsWritten`), where a member that is the object passed is one of
those that look alike, so that the two never disagree. No later statement touches an edge.

**Polls.** Answers are snapshots of a backend in which ends are final. `SnapInv` says that an answer tells
the truth about ends, `OrderInv` that a later answer agrees with every end in an earlier one, and with the
report unless a newer one was correlated: only older answers can disagree.

**Only model-checked.** Liveness (`RunEnds`, `EveryTaskEnds`, `EveryPlanEnds`): the prover has no reasoning about
`ENABLED` and fairness. `ForecastsHold`: its comparison of the report with a run is about installations whose
manifests declare an entry point once and have one fault at most, which is what the instance has; of manifests that declare it
twice, or where the fault is in another entry of the same manifest, it is not true. All of
`PortableTransforms`, whose properties compare what four engines compute for the rows of an instance:
for all frames they would be inductions over rows and over the actions of a definition, whose recursive operators
the prover does not reach. Of `Declaration`, `LoadsAsWritten`; and all of `SparkForge`, whose adapter folds the steps of a
document into a class body: both theorems about `Declaration` are about the classes of `DeclarationSpec`, and those that an adapter made
are left to the run.

## Where the code and its documentation disagree

Disagreements met while modelling; where a property has a premise because of one, it is named:

- `docs/06_EXECUTION/PANDAS.md:18` has "Copy-on-write / deep-copy ownership rules isolate branches and retries".
  A callable is given `copy(deep=False)` of the stored frame (`etlantic_pandas/__init__.py:122`); with the
  pandas the package asks for (2.2, below 3) the columns are shared, and a retry or a second consumer works on
  what another callable has written (`WritesStayNear` is what holds).
- An allowlist as in `docs/06_EXECUTION/PRODUCTION_PROFILES.md:38` and `PILOT_WALKTHROUGH.md:79`, with the
  distribution only, is rejected by validation (`validation/phases/plugin_trust.py`, PMPLUG402): the built-in
  plugin `local` is judged as well. `profiles/prod.example.json` lists it.
- `docs/06_EXECUTION/DEPLOYMENT.md:20` says "discovery fails closed when a selected plugin is absent from the
  allowlist"; a run is refused for the error of any installed plugin, selected or not, and of any group, while
  planning asks only for the groups it needs (`Quiet` in `PlanPredictsRun`).
- A distribution without a manifest is an error (PMPLUG413) in development too, so that the run is refused
  that would load it.
- `docs/10_REFERENCE/CLI.md:225` says that `plugin list` exits non-zero for trust errors; its list of
  diagnostics stays empty (`cli/commands.py:108`). `docs/02_FOUNDATIONS/SECURITY.md:256` says discovery loads
  factories before the allowlist applies; it no longer does (`LoadedIsAuthorized`).

- Before a Spark run acquires or releases its session, `load_spark_provider` is called without a profile
  (`runtime/spark_exec.py:84`), so that outside production the provider entry points are imported whatever the allowlist
  says; `docs/10_REFERENCE/API_PLAN_RUNTIME.md:10` has "evaluated **before** plugin import", and
  `docs/01_GETTING_STARTED/WHATS_NEW_0_20.md:41` "Allowlist / pin / provenance / digest checks before `ep.load()`" (the last
  exception of `LoadedIsAuthorized`). Planning asks whether there is a Spark plugin, never whether there is a session
  provider: a plan is accepted that every run fails (PMEXEC441; `Served` in `PlanPredictsRun`). A session provider
  registered by hand is not shown to trust (`Overlooked`).

- A run middleware "must not" "hide mandatory failures" (`docs/06_EXECUTION/LIFECYCLE_EXTENSIONS.md:169`) and "may reject an
  operation through a structured policy result" (line 174). One that returns without `call_next` makes the report SUCCEEDED over
  pending steps, one that catches what `call_next` raised over running ones (`orchestrator.py:517`; `SuccessIsComplete`,
  `NothingLeftRunning`): the code has nothing to tell them from one that handed on. A cancellation while the
  `finally` clause awaits leaves no report (`orchestrator.py:514`), and one of a run whose resources do not clean up is reported
  as FAILED (`EventMatchesReport`).
- Of the rows in memory, those under the binding of an invalidated node are dropped (`execute.py:158`), also if an unselected
  node has the same binding; `docs/11_DEVELOPMENT/SPARKFORGE_ADOPTION.md:294` has "unrelated branches remain reusable". Rows of
  a binding with a location are kept under the location, and not dropped at all (`OthersKept`, `NothingOldAfterInvalidation`).
- The consumer of a producer that was continued after its failure reads, in a store that runs share, what an earlier run put under
  the same name (`orchestrator.py:818`, `orchestrator.py:1720`; `passed` in `DisturbedOnlyByOverlap`).
- Without a registered provider named `local` a run acquires its Spark session from a new provider object and hands it back to
  another one, which does not know it (`spark_exec.py:84`, `provider.py:144`): nobody stops it (`SessionsReleased`). Without a
  registered Spark plugin the session is bound to none, and a Spark sink fails.

- An observation is recorded before it is judged, and preferred to the contract as a baseline
  (`orchestrator.py:2190`), so that a retry compares drifted data with itself and stores it. `CHANGELOG.md:108` has
  "Production fail-closed trust/drift", and `docs/11_DEVELOPMENT/SCHEMA_DRIFT_PLAN.md:319` says that accepting a
  baseline "records that the team has reviewed the source state". `DriftNeedsRetry` is what holds.
- Two extracts of one asset and contract, one of them read, are written and load into a pipeline that does not
  validate (`pipeline.py:967`), though `docs/05_PIPELINES/CONTRACT_LOADING.md:223` has "A generated contract should
  load into an equivalent internal model." (`Indistinct` in `LoadsAsWritten`); of two transformation classes with one
  published id the bundle keeps the last (`interchange/bundle.py:70`; `SharedFile`); output roles are not
  written, and sources, steps and sinks come back in that order (`Portable`).
- A SparkForge step named like the sink of another (`x_out`) silently takes its place in the namespace, so that
  the table is never written, or makes `adapt_pipeline` raise an `AttributeError` where it promises an `AdapterError`
  (`adapt.py:341`; the premise of `AdaptedAsSpecified`). Two bronze steps on one table, one of them read, are
  adapted into a pipeline that does not validate (`Ambiguous`). An SQL engine is accepted by `adapt_profile`, but
  the passthroughs have no implementation for it and planning refuses them (`PlannedStep`). Strict checking looks at the `capabilities` argument alone, and then the adapted
  profile requires nothing of the plugin unless the engine is Delta (`adapt.py:392`).
- `report_to_sparkforge_explain` writes the record counts of a run under `summary` (`reports.py:340`), and
  `adapt_run_result` reads them from the top level of the payload (`reports.py:269`); ids, errors and metadata of the steps are not
  written (`reports.py:327`). What comes back from two conversions is what `Retold` says (`DualReporting`).
- The table of run statuses knows "complete", "abort" and "timedout", that of step statuses does not
  (`reports.py:21`, `reports.py:43`): a "complete" step is reported as failed in a run that succeeded, and a
  result without a status as succeeded. Steps without a name are an error of `SparkForgePipelineSpec.parse` and
  are dropped by `from_dict`.
- `Transformation.step` promises an error "If a binding name is unknown or required ports are missing"
  (`transformation.py:322`) and looks for unknown names only; missing ports are found by validation.

- A callback's RETRY replaces `_should_retry` (`orchestrator.py:786`), so that `retry_on` is bypassed and a write
  of unknown outcome can be repeated; `docs/04_TRANSFORMATIONS/CALLBACKS.md:47` has "Retry the step according to
  run/profile retry settings" (`UnknownNotRetried`).
- The cleanup of a cancelled attempt awaits a lock in a cancelled scope and raises before it pops anything
  (`orchestrator.py:744`), against `docs/06_EXECUTION/LIFECYCLE_EXTENSIONS.md:231`, "including failure and
  cancellation paths"; the scope key has no run in it (`orchestrator.py:1909`), so that of two runs one gets the
  other's resource, against line 244, "Caching occurs only within the declared scope." (`UndisturbedScopes`).
- `cleanup_staging` (`etlantic_sql/executor.py:334`) drops the staging tables of every run the plugin serves;
  `orchestrator.py:495` says "Drop run-scoped SQL staging tables when present." (`StagingLivesAsItsRun`).
- `rerun` pops the memory bindings of upstream sources too (`execute.py:160`), and reads no rows;
  `docs/11_DEVELOPMENT/SPARKFORGE_ADOPTION.md:292` has "rerunning a step replaces only its output artifacts".
- `until` is a prefix of the declaration (`slicing.py:58`); a subclass that redefines a member leaves it where
  the base declared it, before producers the subclass adds (`OnlyUntilMayStarve`).
- The loops of `ensure_plugins_for_profile` assign to `key` (`lifecycle/runtime.py:115`), so that the profile never counts
  as configured if discovery found something; the docstring says "Idempotent per profile key." The tables
  are merged with `setdefault`, and nothing is lost (`PluginsStay`).
- The lifespan is entered and left once per outermost run, and the first to leave shuts it down under the
  others (`lifecycle/runtime.py:239`; `DisturbedOnlyByOverlap` says under whom).
- A portable step planned for the SQL compiler has no executor (`orchestrator.py:1292`) and fails with
  PMXFORM302 in every run; `docs/06_EXECUTION/SQL.md:96` has "Unsupported requirements fail at validation or
  planning (fail closed)." (`CompilersHaveExecutors` in `StrictPlansRun`).
- `request.implementation_overrides` bypasses planning; what planning did not look at fails in the run
  (`AsPlanned` in `StrictPlansRun` and `FormsFit`).
- The runtime knows engines by name: an engine of another package is planned by its capabilities and run as
  local. Callables that only the registry has fail with PMEXEC321 though the planner chose them.
- Rows from a local step for an SQL step, and polars frames for a local step, are planned without a
  diagnostic and fail closed in the run; an SQL sink given a frame or a dataset reports an unsupported
  write intent.
- The fetch across SQL reads `fetched.records or []` (`orchestrator.py:1739`): a failed fetch is an empty input
  (`RowsLostOnlyAtFetch`).
- The planner never writes retry safety or write intents into `plan.intents`, which the external compiler
  reads: local and external runs of one pipeline see different declarations. `append` counts as safe to
  repeat there, and `execution.retries` applies to external runs only.
- Lazy outputs are accepted for transport between external tasks (`mapping.py:119`), though
  `docs/11_DEVELOPMENT/MIGRATION_0_7_TO_0_8.md:51` has "Task boundaries carry durable `ArtifactRef` payloads
  only"; outputs of a fan-out are refused always (PMORCH340).
- `correlate_poll_to_report` appends the backend reference again for every answer and leaves
  `report.summary` as it was.
- The cases of `Departs`, where an engine accepts a definition and does not do what the others do, though
  `docs/specifications/PORTABLE_TRANSFORM_IR_SPEC.md:343` has "A plugin MUST reject an operation it approximates
  differently." Nulls: `merge` of pandas matches null keys (line 292, "Null join keys do not match under
  ordinary equality"), its `!=` keeps them; Polars sums nothing to 0, counts null as a distinct value and
  gives it no rank; the SQL compiler takes the key of a right or full join from the left side. Rows: a semi
  join of pandas drops equal rows; `deduplicate` by keys is compiled to `DISTINCT` over all columns.
  Columns: a null-safe join of Spark has the key twice; a union by position goes by the engine's own order; an
  SQL union that allows missing columns drops those of the other side; Spark renames one column after the
  other, so that a swap fails; Polars and SQL make all assignments at once
  (`docs/04_TRANSFORMATIONS/PORTABLE_TRANSFORMATIONS.md:97`, "multiple ordered assignments").
- The cases of `Odd` and `WindowDeparts`, which are the same for expressions. Nulls (line 225, "Equality with null
  produces null"): pandas compares a null to FALSE, or TRUE for `!=`, and finds nothing in it, unless a text function
  made it; `concat_ws` skips nulls on Spark and PostgreSQL and is null elsewhere; SQLite's null-safe equality
  is null for one null; the size of a null list is -1 on Spark. Numbers: division by zero is infinite in
  Polars and pandas, null on Spark and SQLite and an error on PostgreSQL, and SQL divides integers (line
  245, "Division by zero MUST produce a declared"). Casts (line 259, "Plugins MUST NOT substitute tolerant
  behavior for strict behavior."): a strict cast of Spark gives null, and takes spaces off first. Texts (line
  265, "portable substring APIs use zero-based indexing"; line 268, "Case conversion uses Unicode default case
  conversion"): Spark and SQL add one to negative offsets too; `lower` and `upper` of SQLite know ASCII
  only, and its `ends_with` of an empty text is wrong; Spark's `trim` leaves tabs, its `split` and `replace` take regular
  expressions ("." matches all, "$" raises) and its `regex_extract` is empty where the others are null; a negative
  `element_at` is off by one. SQLite has no `least` or `greatest` at all, though the compiler claims
  both. Windows: `last_value` of Spark is the row's own; Polars puts nulls first, takes the order of
  rows where the window has none, and refuses orders in two directions.
- What an engine cannot do it often finds out when it runs, against line 326 of the same specification,
  "Plugins MUST NOT defer discoverable unsupported-operation errors until execution": sorts of pandas with
  mixed null placement, windows of Polars with several order keys, unions on SQLite, null-safe full joins on
  PostgreSQL, and in all four joins without a key and aggregates without a name.
- `schema_fields` stays what it was after a join, an aggregate and a union that allows missing columns
  (`transform/dataframe.py:313`), and is exported as the output schema all the same
  (`dtcs_builder.py:112`; `Widens` in `DeclaredSchema`).
- Without a property of their own: the staging table of a replace whose second transaction fails is remembered
  by nobody (`etlantic_sql/plugin.py:185`); events emitted by an attempt stay on record when it fails
  (`orchestrator.py:1635`); a secret revoked while a reader awaits it is cached afterwards
  (`orchestrator.py:2045`); `cleanup_retention` unlinks locks that are held (`io_policy.py:492`).

## What is not modelled

Of the modelled parts: outbound emits, the text of events and reports, durable artifacts, the freshness and
completeness arithmetic, `load_records` and `fetch_records` of the SQL plugin, resource scopes other than
"attempt" (the orchestrator passes no other), path resolution and symlinks of `io_policy`, `acknowledge` and
several subjects of the schema history, listing and diffing of reports, strict validation and the reference phase, pipelines embedded in embedded ones,
parameters and metadata of declarations, the fields of data contracts, file names of a bundle that collide, documents of other authors, the selection `matching` (the
closure of `only` for the tagged nodes), asset resolution and fingerprints of the planner, several ports per
node, portable expressions that round, on dates, structs, patterns with metacharacters and substrings of a given
length, statistics, windows in a `select` (whose specification `project` does not keep), the types pandas keeps
from one action to the next, joins on other conditions than columns of the same name, actions on the second frame of a join, the fields of external schedules, the source text of generated DAGs and their operator (a stub in the
repository that returns references). Of plugins: ranges of versions, the vocabulary of capabilities, the pins of Python and of the core, the records
of who trusted what, and snapshots. Of the SparkForge adapter: debug requests, selections and retries, redaction and the texts of errors. Left out altogether: configuration, the CLI and rendering, which keep
no state between calls, and the engines behind the plugins, which are other projects' code.

## The plan

Written so far, in this order: `LocalOrchestrator` with `RunContract`, `ResourceManager`, `SqlPublication`,
`ClosureWalk`, `DebugSession`, `SourceRead`, `FileStore`, `Planning`, `Dataflow`, `SharedRuntime`,
`ExternalRun`, `PortableTransforms` with `PortableExpressions`, `Declaration`, `PluginDiscovery`, `SparkForge`, and the proofs of all safety properties of
ten of them and of what accepted declarations promise. Next:

1. Composition: attempts of `LocalOrchestrator` with the scopes of `ResourceManager`, so that cleanup
   under cancellation is checked in one run.
2. Theorems: that `FileStore` implements an abstract store that a restart keeps.
