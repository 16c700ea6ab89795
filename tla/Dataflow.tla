------------------------------- MODULE Dataflow -------------------------------
(***************************************************************************)
(* A pipeline is validated, planned and run, and data goes through it: what*)
(* the artifact store holds for every node, in which form, who shares it,  *)
(* and what each executor (local, dataframe, SQL, Spark) does with the form*)
(* it is given.  Waves, timeouts and cancellation are the matter of        *)
(* LocalOrchestrator: here a node runs once its producers have, next to    *)
(* other nodes, and an attempt that fails may be made again.               *)
(*                                                                         *)
(* Gathering the inputs and running on them are two steps: the code awaits *)
(* between them.  The runtime classifies an engine by its name alone; the  *)
(* planner asks its capabilities.  Every node has one port, every port a   *)
(* contract, and the run no workspace.                                     *)
(***************************************************************************)
EXTENDS Planning

CONSTANTS
  Projects,      \* what may be declared: see Planning, and p.request
  MaxAttempts,
  InPlace,       \* may callables write into what they are given?
  FetchFaults    \* may the transaction of a fetch fail?

\* p.request: engines overridden for this run only, and whether it may write.  A sink
\* has something to write; a source reads from outside.
ASSUME DataflowAssumption ==
  /\ MaxAttempts \in Nat \ {0} /\ InPlace \in BOOLEAN /\ FetchFaults \in BOOLEAN
  /\ \A p \in Projects :
       /\ p.kind \in [Nodes -> {"source", "step", "sink", None}]
       /\ p.producers \in [Nodes -> SUBSET Nodes]
       /\ \A n \in OfKind(p, "sink") : p.producers[n] # {}
       /\ \A n \in OfKind(p, "source") : p.producers[n] = {}

Form == {"records", "lazy", "frame", "query", "relation", "dataset", "spark_frame"}
SqlHandle == {"query", "relation"}
SparkHandle == {"dataset", "spark_frame"}

\* A value: its form, the engine whose library made it, the node whose objects it
\* consists of, and whether rows were lost on the way.
Value(form, engine, cell, lost) ==
  [form |-> form, engine |-> engine, cell |-> cell, lost |-> lost]
Nothing == Value(None, None, None, FALSE)

VARIABLES
  project,     \* chosen once, never written
  plan, phase, \* declared, validated, planned or rejected
  status, attempt, failure,
  inputs,      \* what a running node has gathered, per producer
  artifact,    \* the artifact store, per node
  written,     \* who wrote into the objects a node made
  published    \* what a sink wrote to its target

vars == <<project, plan, phase, status, attempt, failure, inputs, artifact, written,
          published>>
runVars == <<status, attempt, failure, inputs, artifact, written, published>>

NoPlan == [implementation |-> [n \in Nodes |-> Refused(None)],
           engine |-> [n \in Nodes |-> None], crossing |-> {}, collected |-> {},
           strategy |-> [n \in Nodes |-> None]]

Init ==
  /\ project \in Projects
  /\ plan = NoPlan /\ phase = "declared"
  /\ status = [n \in Nodes |-> IF n \in Present(project) THEN "waiting" ELSE "absent"]
  /\ attempt = [n \in Nodes |-> 0] /\ failure = [n \in Nodes |-> None]
  /\ inputs = [n \in Nodes |-> [m \in {} |-> Nothing]]
  /\ artifact = [n \in Nodes |-> Nothing] /\ written = [n \in Nodes |-> {}]
  /\ published = [n \in Nodes |-> Nothing]

ValidatePipeline ==
  /\ phase = "declared"
  /\ phase' = IF Valid(project) THEN "validated" ELSE "rejected"
  /\ UNCHANGED <<project, plan, runVars>>

PlanPipeline ==
  LET chosen == Selection(project)
  IN  /\ phase = "validated"
      /\ IF /\ \A n \in Steps(project) : chosen[n].error = None
            /\ EnginesAvailable(project, chosen)
         THEN phase' = "planned" /\ plan' = BuildPlan(project)
         ELSE phase' = "rejected" /\ UNCHANGED plan
      /\ UNCHANGED <<project, runVars>>

(***************************************************************************)
(* Running a node                                                          *)
(***************************************************************************)
\* is_*_engine without the engines: a name the library does not know is local.
RuntimeFamily(engine) == IF engine \in Named THEN Family[engine] ELSE "local"
NodeFamily(n) == RuntimeFamily(plan.engine[n])

\* _resolve_implementation: the request may name another engine than the plan, for
\* a native step.
RunEngine(n) ==
  IF /\ project.request.overrides[n] # None
     /\ plan.implementation[n].kind = "native"
  THEN project.request.overrides[n] ELSE plan.implementation[n].engine

\* Mutant of FetchedFor: a handle is fetched for every consumer.
FetchedForAll(n, m) ==
  IF artifact[m].form \in SqlHandle
  THEN {Value("records", "sql", n, artifact[m].lost \/ failed) :
          failed \in {FALSE} \cup {FetchFaults}}
  ELSE {artifact[m]}

\* A handle is fetched for a consumer outside SQL; how the fetch ended is not looked at.
FetchedFor(n, m) ==
  IF artifact[m].form \in SqlHandle /\ NodeFamily(n) # "sql"
  THEN {Value("records", "sql", n, artifact[m].lost \/ failed) :
          failed \in {FALSE} \cup {FetchFaults}}
  ELSE {artifact[m]}

Gather(n) ==
  /\ phase = "planned" /\ status[n] = "waiting" /\ project.kind[n] \in {"step", "sink"}
  /\ \A m \in project.producers[n] : status[m] = "done"
  /\ \E got \in [project.producers[n] -> UNION {FetchedFor(n, m) : m \in project.producers[n]}] :
       /\ \A m \in project.producers[n] : got[m] \in FetchedFor(n, m)
       /\ inputs' = [inputs EXCEPT ![n] = got]
       \* rows that were fetched are new objects
       /\ written' = IF \E m \in project.producers[n] : got[m].cell = n
                     THEN [written EXCEPT ![n] = {}] ELSE written
  /\ status' = [status EXCEPT ![n] = "running"]
  /\ attempt' = [attempt EXCEPT ![n] = @ + 1]
  /\ UNCHANGED <<project, plan, phase, failure, artifact, published>>

Given(n) == {inputs[n][m] : m \in DOMAIN inputs[n]}
Lost(n) == \E v \in Given(n) : v.lost

Fail(n, code) ==
  /\ status' = [status EXCEPT ![n] = "failed"]
  /\ failure' = [failure EXCEPT ![n] = code]
  /\ UNCHANGED artifact

\* cell: n itself for an object made by this attempt, or the input passed on.
Store(n, value) ==
  /\ status' = [status EXCEPT ![n] = "done"]
  /\ artifact' = [artifact EXCEPT ![n] = value]
  /\ UNCHANGED failure

\* The callable writes into some of the objects it shares with the store.
WritesInto(n, shared) ==
  \E touched \in SUBSET {v.cell : v \in shared} :
    /\ InPlace \/ touched = {}
    /\ written' = [c \in Nodes |-> IF c \in touched THEN written[c] \cup {n} ELSE written[c]]

Running(n, kind) == status[n] = "running" /\ project.kind[n] = kind

\* The sources: a lazy reference to a table or dataset, or the rows of a storage
\* provider, which a Spark node is given too if the provider has no dataset to refer to.
RowProvider == {"memory", "local", "python", "json", "csv", "callable", None}
ReadSource(n) ==
  /\ phase = "planned" /\ status[n] = "waiting" /\ project.kind[n] = "source"
  /\ attempt' = [attempt EXCEPT ![n] = @ + 1]
  /\ LET form == CASE NodeFamily(n) = "sql" -> "relation"
                   [] NodeFamily(n) = "spark" /\ project.provider[n] \notin RowProvider -> "dataset"
                   [] OTHER -> "records"
     IN  \/ Store(n, Value(form, plan.engine[n], n, FALSE))
         \/ form = "records" /\ Fail(n, "PMEXEC430")
  /\ UNCHANGED <<project, plan, phase, inputs, written, published>>

RunVarsOf(n) == UNCHANGED <<project, plan, phase, attempt, inputs, published>>

\* No implementation for the engine, or a compiled step with no executor for it.
NoImplementation(n) ==
  /\ Running(n, "step")
  /\ \/ /\ plan.implementation[n].kind = "portable_compiled"
        /\ RuntimeFamily(plan.implementation[n].engine) \notin {"dataframe", "spark"}
        /\ Fail(n, "PMXFORM302")
     \/ /\ plan.implementation[n].kind = "native"
        /\ RunEngine(n) \notin project.step[n].native
        /\ Fail(n, "PMEXEC321")
  /\ UNCHANGED written /\ RunVarsOf(n)

Runnable(n, family) ==
  /\ Running(n, "step")
  /\ RuntimeFamily(RunEngine(n)) = family
  /\ plan.implementation[n].kind = "portable_compiled" => family \in {"dataframe", "spark"}
  /\ plan.implementation[n].kind = "native" => RunEngine(n) \in project.step[n].native

\* A local callable gets rows and nothing else: a frame or a handle does not
\* validate against the contract of its port.  It returns new rows or those it was
\* given.
RunLocalStep(n) ==
  /\ Runnable(n, "local")
  /\ IF \A v \in Given(n) : v.form = "records"
     THEN /\ WritesInto(n, Given(n))
          /\ \/ \E cell \in {n} \cup {v.cell : v \in Given(n)} :
                  Store(n, Value("records", "local", cell, Lost(n)))
             \/ Fail(n, "PMEXEC330")
     ELSE Fail(n, "PMEXEC330") /\ UNCHANGED written
  /\ RunVarsOf(n)

\* materialize_input takes frames of its own library as they are and makes new ones
\* from rows and from the frames of another; handles it cannot read.
Readable == {"records", "frame", "lazy"}
\* Mutant of OutputOf: without ensure_ownership.
OutputAsIs(n, form, cell) ==
  Value(IF ShouldCollect(project, plan, n) THEN "frame" ELSE form, RunEngine(n), cell, Lost(n))
\* An output is collected at a boundary, and copied if it has several consumers, by
\* pandas always.
OutputOf(n, form, cell) ==
  Value(IF ShouldCollect(project, plan, n) THEN "frame" ELSE form, RunEngine(n),
        IF n \in FanOut(project) \/ RunEngine(n) = "pandas" THEN n ELSE cell, Lost(n))
\* What the orchestrator stores of it: rows, if the plan wants them durable.
Stored(n, output) ==
  IF plan.strategy[n] = "durable" THEN Value("records", RunEngine(n), n, output.lost) ELSE output

RunDataframeStep(n) ==
  LET own == {v \in Given(n) : v.form \in {"frame", "lazy"} /\ v.engine = RunEngine(n)}
      native == {v \in own : plan.implementation[n].kind = "native"}
  IN  /\ Runnable(n, "dataframe")
      /\ IF \A v \in Given(n) : v.form \in Readable
         THEN /\ WritesInto(n, {v \in native : v.form = "frame"})
              /\ \/ \E form \in {"frame", "lazy"}, cell \in {n} \cup {v.cell : v \in native} :
                      /\ form = "lazy" => RunEngine(n) = "polars"
                      /\ Store(n, Stored(n, OutputOf(n, form, cell)))
                 \/ Fail(n, "PMEXEC422")
         ELSE Fail(n, "PMEXEC421") /\ UNCHANGED written
      /\ RunVarsOf(n)

\* A SQL callable composes handles; given anything else it has no relation to
\* select from, and what it returns is refused unless it is a handle.
Composes(n) == \A v \in Given(n) : v.form \in SqlHandle
\* Its query becomes a staging table if all consumers are SQL.
RunSqlStep(n) ==
  LET staged == \A c \in Consumers(project, n) : NodeFamily(c) = "sql"
  IN  /\ Runnable(n, "sql")
      /\ IF Composes(n)
         THEN \/ Store(n, Value(IF staged THEN "relation" ELSE "query", "sql", n, Lost(n)))
              \/ Fail(n, "PMEXEC431")
              \/ staged /\ Fail(n, "PMEXEC433")
         ELSE Fail(n, "PMEXEC431")
      /\ UNCHANGED written /\ RunVarsOf(n)

\* The result of a Spark step is collected to rows as soon as one consumer is not
\* on Spark.
SparkOutput(n) ==
  Value(IF \A c \in Consumers(project, n) : NodeFamily(c) = "spark" THEN "spark_frame" ELSE "records",
        "pyspark", n, Lost(n))
\* It reads handles, rows and frames, whether the callable or the compiler does.
SparkStep(n) ==
  /\ Runnable(n, "spark")
  /\ \/ (\A v \in Given(n) : v.form \notin SqlHandle) /\ Store(n, SparkOutput(n))
     \/ Fail(n, "PMSPARK000")
  /\ UNCHANGED written /\ RunVarsOf(n)
RunPortableSparkStep(n) == plan.implementation[n].kind = "portable_compiled" /\ SparkStep(n)
RunSparkStep(n) == plan.implementation[n].kind = "native" /\ SparkStep(n)

\* Mutant of Publish: it does not ask for no_write.
PublishAnyway(n) ==
  /\ Store(n, Nothing)
  /\ published' = [published EXCEPT ![n] = CHOOSE v \in Given(n) : TRUE]

\* The sinks.  Nothing is written under no_write; what the target gets, if anything.
Publish(n) ==
  /\ Store(n, Nothing)
  /\ published' = IF project.request.no_write THEN published
                  ELSE [published EXCEPT ![n] = CHOOSE v \in Given(n) : TRUE]

FailSink(n, code) == Fail(n, code) /\ UNCHANGED published

RunSparkSink(n) ==
  /\ Running(n, "sink") /\ NodeFamily(n) = "spark"
  /\ \/ Publish(n)
     \/ ~project.request.no_write /\ FailSink(n, "PMSPARK000")

RunSqlSink(n) ==
  LET foreign == project.provider[n] # "sql" /\ \E v \in Given(n) : v.form = "records"
      unreadable == \E v \in Given(n) : v.form \notin SqlHandle \cup {"records"}
  IN  /\ Running(n, "sink") /\ NodeFamily(n) = "sql"
      /\ \/ foreign /\ FailSink(n, "PMEXEC437")
         \/ ~foreign /\ project.request.no_write /\ Publish(n)
         \/ ~foreign /\ ~project.request.no_write /\ unreadable /\ FailSink(n, "PMEXEC330")
         \/ /\ ~foreign /\ ~project.request.no_write /\ ~unreadable
            /\ Publish(n) \/ FailSink(n, "PMEXEC436")

RunStorageSink(n) ==
  LET handle == \E v \in Given(n) : v.form \in SqlHandle
      unreadable == \E v \in Given(n) : v.form \in SparkHandle
  IN  /\ Running(n, "sink") /\ NodeFamily(n) \in {"local", "dataframe"}
      /\ \/ handle /\ FailSink(n, "PMEXEC437")
         \/ ~handle /\ unreadable /\ FailSink(n, "PMEXEC330")
         \/ ~handle /\ ~unreadable /\ (Publish(n) \/ FailSink(n, "PMEXEC330"))

RunSink(n) ==
  /\ RunSparkSink(n) \/ RunSqlSink(n) \/ RunStorageSink(n)
  /\ UNCHANGED <<project, plan, phase, attempt, inputs, written>>

RunStep(n) ==
  \/ NoImplementation(n) \/ RunLocalStep(n) \/ RunDataframeStep(n)
  \/ RunSqlStep(n) \/ RunPortableSparkStep(n) \/ RunSparkStep(n)

\* The retry policy makes another attempt; the inputs are gathered again.
Retry(n) ==
  /\ status[n] = "failed" /\ attempt[n] < MaxAttempts
  /\ status' = [status EXCEPT ![n] = "waiting"]
  /\ failure' = [failure EXCEPT ![n] = None]
  /\ UNCHANGED <<project, plan, phase, attempt, inputs, artifact, written,
                 published>>

\* Mutant of Skip: only the consumers of a node that failed.
SkipConsumers(n) ==
  /\ phase = "planned" /\ status[n] = "waiting"
  /\ \E m \in project.producers[n] : status[m] = "failed" /\ attempt[m] = MaxAttempts
  /\ status' = [status EXCEPT ![n] = "skipped"]
  /\ UNCHANGED <<project, plan, phase, attempt, failure, inputs, artifact, written,
                 published>>

\* A node whose producer has failed for good is never run.
Skip(n) ==
  /\ phase = "planned" /\ status[n] = "waiting"
  /\ \E m \in project.producers[n] :
       status[m] = "skipped" \/ (status[m] = "failed" /\ attempt[m] = MaxAttempts)
  /\ status' = [status EXCEPT ![n] = "skipped"]
  /\ UNCHANGED <<project, plan, phase, attempt, failure, inputs, artifact, written,
                 published>>

NodeNext(n) ==
  Gather(n) \/ ReadSource(n) \/ RunStep(n) \/ RunSink(n) \/ Retry(n) \/ Skip(n)

Next == ValidatePipeline \/ PlanPipeline \/ \E n \in Nodes : NodeNext(n)

Spec == Init /\ [][Next]_vars /\ WF_vars(Next)

(***************************************************************************)
(* Properties                                                              *)
(***************************************************************************)
Done == {n \in Nodes : status[n] = "done"}
AsPlanned == \A n \in Nodes : project.request.overrides[n] = None

\* A pipeline that a strict policy let through does not fail for want of an
\* implementation or a compiler, if the engine validation looked at (the dataframe
\* engine, or local) is the one that planning uses.  Two limits of the code remain:
\* compilers for engines without an executor, and callables that only the registry
\* has, which validation does not look for.
CompilersHaveExecutors ==
  \A e \in project.profile.compilers : RuntimeFamily(e) \in {"dataframe", "spark"}
OnlyInRegistry(n) ==
  RequestedEngine(project, n) \in project.step[n].registry \ project.step[n].native
StrictPlansRun ==
  /\ project.profile.strict /\ AsPlanned /\ CompilersHaveExecutors
  /\ project.profile.spark = None /\ project.profile.sql = None
  => \A n \in Nodes :
       failure[n] \in {"PMEXEC321", "PMXFORM302"} => project.step[n].portable /\ OnlyInRegistry(n)

\* A lazy frame is used by its own library only, an SQL handle by SQL nodes, a
\* Spark handle by Spark nodes: everybody else gets rows or a collected frame, or
\* fails.  (A sink that must not write does not look at what it is given.)
Looks(n) == ~(project.kind[n] = "sink" /\ project.request.no_write)
HandlesStayHome ==
  AsPlanned => \A n \in Done : Looks(n) => \A m \in project.producers[n] :
    LET v == inputs[n][m] IN
    /\ v.form = "lazy" => plan.engine[n] = v.engine
    /\ v.form \in SqlHandle => NodeFamily(n) = "sql"
    /\ v.form \in SparkHandle => NodeFamily(n) = "spark"

\* Between steps, data changes its form only where the plan has a boundary on the
\* producer's port: for a consumer on another engine, or for a sink.
Converted(n, m) ==
  LET v == inputs[n][m] IN
  CASE NodeFamily(n) \in {"dataframe", "spark"} -> v.form = "records"
    [] OTHER -> v.form = "records" /\ artifact[m].form # "records"
ConversionsAtBoundaries ==
  AsPlanned => \A n \in Done \cap Steps(project) :
    \A m \in project.producers[n] \cap Steps(project) :
      Converted(n, m) => \/ \E edge \in plan.crossing : edge[1] = m
                         \/ m \in SinkPublication(project)

\* Every executor is given data in a form it can use, and gets it converted only
\* where the plan says so.
FormsFit == HandlesStayHome /\ ConversionsAtBoundaries

\* A run that must not write leaves every target as it was, whichever of the
\* executors the sinks are on.
NoWriteLeavesTargets ==
  project.request.no_write => \A n \in Nodes : published[n] = Nothing

\* Rows are lost only where what an SQL node made is fetched for a consumer outside
\* SQL, and are missing from then on: a pipeline without such an edge publishes all.
LosesRows(n) == \E m \in DOMAIN inputs[n] : inputs[n][m].lost
MadeBySql(n) == "sql" \in {NodeFamily(n), RuntimeFamily(RunEngine(n))}
RowsLostOnlyAtFetch ==
  \A n \in Done :
    /\ artifact[n].lost \/ published[n].lost => LosesRows(n)
    /\ \A m \in DOMAIN inputs[n] :
         inputs[n][m].lost => \/ MadeBySql(m) /\ NodeFamily(n) # "sql"
                              \/ artifact[m].lost

\* A pipeline is rejected, or every node of its plan ends.
Ended == phase = "planned" /\ \A n \in Present(project) :
           \/ status[n] \in {"done", "skipped"}
           \/ status[n] = "failed" /\ attempt[n] = MaxAttempts
EveryPlanEnds == <>[](phase = "rejected" \/ Ended)

\* What a callable writes in place, it writes into objects of a node it consumes: a
\* step on pandas, and one with several consumers, has a copy of its own to offer
\* (ensure_ownership).  Local steps, and others with one consumer, pass inputs on.
PassesOn(m) ==
  /\ project.kind[m] = "step"
  /\ \/ RuntimeFamily(RunEngine(m)) = "local"
     \/ RunEngine(m) # "pandas" /\ m \notin FanOut(project)
WritesStayNear ==
  \A c \in Nodes : \A w \in written[c] \ {c} :
    c \in project.producers[w] \/ \E m \in project.producers[w] : PassesOn(m)
=============================================================================
