---------------------------- MODULE DataflowProofs ----------------------------
(***************************************************************************)
(* What planning promises the executors, for every project: a strict plan  *)
(* has its implementations, data arrives in a form that fits, no_write     *)
(* leaves the targets, rows are lost only where they are fetched, and       *)
(* writes in place stay with the producers.                                 *)
(***************************************************************************)
EXTENDS Dataflow, FiniteSetTheorems, TLAPS

(***************************************************************************)
(* Planning                                                                *)
(***************************************************************************)
LEMMA SoleIsMember ==
  ASSUME NEW S, Cardinality(S) = 1
  PROVE  Sole(S) \in S
<1>1. S # {}
  BY FS_EmptySet
<1> QED
  BY <1>1 DEF Sole

\* What a strict policy has let through is compiled by one of the profile's compilers,
\* or has a callable, unless the registry alone has it.
LEMMA StrictSelection ==
  ASSUME NEW p, Valid(p), p.profile.strict, p.profile.spark = None, p.profile.sql = None,
         NEW n \in Steps(p), SelectImplementation(p, n).error = None
  PROVE  LET chosen == SelectImplementation(p, n)
             only == p.step[n].portable
                     /\ RequestedEngine(p, n) \in p.step[n].registry \ p.step[n].native
         IN  /\ chosen.kind = "portable_compiled" => chosen.engine \in p.profile.compilers
             /\ chosen.kind = "native" => chosen.engine \in p.step[n].native \/ only
<1> DEFINE engine == RequestedEngine(p, n)
           native == p.step[n].native
           portable == p.profile.policy # "native" /\ p.step[n].portable
           compiled == engine \in p.profile.compilers
<1>1. HasImplementation(p, n)
  BY DEF Valid
<1>2. ValidatedEngine(p, n) = engine
  BY DEF ValidatedEngine, RequestedEngine, PrimaryEngine
<1>3. engine \in native \/ (portable /\ compiled)
  BY <1>1, <1>2 DEF HasImplementation
<1>4. CASE FromRegistry(p, n)
  <2>1. engine \in native
    BY <1>3, <1>4 DEF FromRegistry
  <2>2. SelectImplementation(p, n) = Chosen(engine, "native")
    BY <1>4 DEF SelectImplementation
  <2> QED
    BY <2>1, <2>2 DEF Chosen
<1>5. CASE ~FromRegistry(p, n) /\ portable /\ compiled /\ engine \in p.step[n].accepts
  <2>1. SelectImplementation(p, n) = Chosen(engine, "portable_compiled")
    BY <1>5 DEF SelectImplementation
  <2> QED
    BY <1>5, <2>1 DEF Chosen
<1>6. CASE ~FromRegistry(p, n) /\ portable /\ compiled /\ engine \notin p.step[n].accepts
  <2>1. SelectImplementation(p, n) \in {NativeFallback(p, n), Refused("PMXFORM301")}
    BY <1>6 DEF SelectImplementation
  <2>2. SelectImplementation(p, n) = NativeFallback(p, n)
    BY <2>1 DEF Refused, None
  <2>3. \/ engine \in native \cup p.step[n].registry /\ NativeFallback(p, n) = Chosen(engine, "native")
        \/ Cardinality(native) = 1 /\ NativeFallback(p, n) = Chosen(Sole(native), "native")
        \/ NativeFallback(p, n) \in {Refused("PMPLAN302"), Refused("PMXFORM301")}
    BY DEF NativeFallback, NativeOr
  <2> QED
    BY <1>6, <2>2, <2>3, SoleIsMember DEF Chosen, Refused, None
<1>7. CASE ~FromRegistry(p, n) /\ ~(portable /\ compiled)
  <2>1. engine \in native
    BY <1>3, <1>7
  <2>2. SelectImplementation(p, n) \in {NativeOrAutopick(p, n), Refused("PMXFORM302")}
    BY <1>7 DEF SelectImplementation
  <2>3. SelectImplementation(p, n) = NativeOrAutopick(p, n)
    BY <2>2 DEF Refused, None
  <2>4. NativeOrAutopick(p, n) = Chosen(engine, "native")
    BY <2>1 DEF NativeOrAutopick, NativeOr
  <2> QED
    BY <2>1, <2>3, <2>4 DEF Chosen
<1> QED
  BY <1>4, <1>5, <1>6, <1>7

\* A step that is durable feeds a sink.
LEMMA DurableSteps ==
  ASSUME NEW p, NEW implementation, NEW e, NEW n \in Steps(p),
         Strategy(p, implementation, e, n) = "durable"
  PROVE  n \in SinkPublication(p)
  BY DEF Strategy, Steps, OfKind

(***************************************************************************)
(* The invariant                                                           *)
(***************************************************************************)
Places == {"absent", "waiting", "running", "done", "failed", "skipped"}
Shape ==
  /\ project \in Projects /\ status \in [Nodes -> Places]
  /\ \A n \in Nodes : project.kind[n] = None => status[n] = "absent"
  /\ DOMAIN failure = Nodes /\ DOMAIN inputs = Nodes
  /\ DOMAIN artifact = Nodes /\ DOMAIN published = Nodes

\* PlanInv: nodes run on the plan of a valid project.
PlanInv ==
  /\ phase \in {"validated", "planned"} => Valid(project)
  /\ phase = "planned" =>
       /\ plan = BuildPlan(project)
       /\ \A n \in Steps(project) : Selection(project)[n].error = None
  /\ phase # "planned" => \A n \in Nodes : status[n] \in {"absent", "waiting"}

\* InputInv: a node has gathered from producers that are done, as they left it.
InputInv ==
  \A n \in Nodes :
    /\ project.kind[n] = "source" => DOMAIN inputs[n] = {}
    /\ status[n] \in {"running", "done"} /\ project.kind[n] \in {"step", "sink"} =>
         /\ DOMAIN inputs[n] = project.producers[n]
         /\ \A m \in project.producers[n] :
              status[m] = "done" /\ inputs[n][m] \in FetchedFor(n, m)

\* Makes: what a node may leave in the store when it is done.
StepFamily(n) == RuntimeFamily(RunEngine(n))
StepMakes(n, v) ==
  CASE StepFamily(n) = "dataframe" ->
         \/ v.form = "records" /\ plan.strategy[n] = "durable"
         \/ v.form = "frame"
         \/ v.form = "lazy" /\ v.engine = RunEngine(n) /\ ~ShouldCollect(project, plan, n)
    [] StepFamily(n) = "sql" -> v.form \in SqlHandle
    [] StepFamily(n) = "spark" ->
         \/ v.form = "spark_frame"
         \/ v.form = "records" /\ \E c \in Consumers(project, n) : NodeFamily(c) # "spark"
    [] OTHER -> v.form = "records"
SparkAtHome(n) ==
  AsPlanned /\ Looks(n) =>
    \A v \in Given(n) : v.form \in SparkHandle => NodeFamily(n) = "spark"
Makes(n, v) ==
  /\ project.kind[n] = "step" => StepMakes(n, v)
  /\ project.kind[n] # "step" => v.form # "lazy"
  /\ v.form \in SqlHandle => MadeBySql(n)
  /\ v.lost => Lost(n)
  /\ SparkAtHome(n)

ArtifactInv == \A n \in Nodes : status[n] = "done" => Makes(n, artifact[n])

\* PublishedInv: a sink publishes when it is done, and not under no_write.
PublishedInv ==
  \A n \in Nodes : published[n] # Nothing =>
    status[n] = "done" /\ ~project.request.no_write /\ (published[n].lost => Lost(n))

DataInv ==
  Shape /\ PlanInv /\ InputInv /\ ArtifactInv /\ PublishedInv /\ StrictPlansRun

LEMMA DataInit == Init => DataInv
<1> SUFFICES ASSUME Init PROVE DataInv
  OBVIOUS
<1>1. Shape /\ PlanInv
  BY DataflowAssumption DEF Init, Shape, PlanInv, Places, Present
<1>2. InputInv /\ ArtifactInv /\ PublishedInv
  BY DEF Init, InputInv, ArtifactInv, PublishedInv
<1>3. StrictPlansRun
  BY DEF Init, StrictPlansRun, None
<1> QED
  BY <1>1, <1>2, <1>3 DEF DataInv

(***************************************************************************)
(* Steps                                                                   *)
(***************************************************************************)
\* What no step of a node changes.
Others(n) ==
  \A m \in Nodes : m # n =>
    /\ status'[m] = status[m] /\ failure'[m] = failure[m] /\ inputs'[m] = inputs[m]
    /\ artifact'[m] = artifact[m] /\ published'[m] = published[m]
Frame(n) ==
  /\ UNCHANGED <<project, plan, phase>> /\ phase = "planned"
  /\ project.kind[n] # None /\ status[n] # "done"
  /\ Shape' /\ Others(n)

\* The three kinds of steps a node takes.
Gathers(n) ==
  /\ status'[n] = "running" /\ UNCHANGED <<failure, artifact, published>>
  /\ project.kind[n] \in {"step", "sink"}
  /\ DOMAIN inputs'[n] = project.producers[n]
  /\ \A m \in project.producers[n] : status[m] = "done" /\ inputs'[n][m] \in FetchedFor(n, m)
Finishes(n) ==
  /\ status'[n] = "done" /\ UNCHANGED <<failure, inputs>>
  /\ project.kind[n] \in {"step", "sink"} => status[n] = "running"
  /\ Makes(n, artifact'[n])
  /\ published' = published \/ (~project.request.no_write /\ published'[n] \in Given(n))
Stops(n) ==
  /\ status'[n] \in {"failed", "waiting", "skipped"}
  /\ UNCHANGED <<inputs, artifact, published>>
  /\ \/ failure' = failure
     \/ failure'[n] \notin {"PMEXEC321", "PMXFORM302"}
     \/ project.kind[n] = "step" /\ NoImplementation(n)

LEMMA Kinds ==
  ASSUME Shape, NEW n \in Nodes
  PROVE  project.kind[n] \in {"source", "step", "sink", None}
  BY DataflowAssumption DEF Shape

\* An execution ends by storing something the node may make, or by failing.
LEMMA Executed ==
  ASSUME DataInv, NEW n \in Nodes, project.kind[n] \in {"step", "sink"}, status[n] = "running",
         UNCHANGED <<project, plan, phase, inputs>>,
         \/ /\ \E v : Store(n, v) /\ Makes(n, v)
            /\ \/ published' = published
               \/ \E u \in Given(n) : /\ ~project.request.no_write
                                       /\ published' = [published EXCEPT ![n] = u]
         \/ /\ published' = published
            /\ \E code : Fail(n, code) /\ code \notin {"PMEXEC321", "PMXFORM302"}
         \/ /\ published' = published /\ project.kind[n] = "step" /\ NoImplementation(n)
            /\ \E code : Fail(n, code)
  PROVE  Frame(n) /\ (Gathers(n) \/ Finishes(n) \/ Stops(n))
<1>1. phase = "planned" /\ project.kind[n] # None
  BY DEF DataInv, PlanInv, None
<1>2. CASE /\ \E v : Store(n, v) /\ Makes(n, v)
           /\ \/ published' = published
              \/ \E u \in Given(n) : /\ ~project.request.no_write
                                      /\ published' = [published EXCEPT ![n] = u]
  <2>1. PICK v : Store(n, v) /\ Makes(n, v)
    BY <1>2
  <2>2. /\ DOMAIN published' = Nodes /\ \A m \in Nodes : m # n => published'[m] = published[m]
        /\ published' = published \/ (~project.request.no_write /\ published'[n] \in Given(n))
    BY <1>2 DEF DataInv, Shape
  <2>3. Shape' /\ Others(n) /\ status'[n] = "done" /\ artifact'[n] = v /\ failure' = failure
    BY <1>1, <2>1, <2>2 DEF Store, DataInv, Shape, Others, Places
  <2> QED
    BY <1>1, <2>1, <2>2, <2>3 DEF Frame, Finishes
<1>3. ASSUME NEW code, Fail(n, code), published' = published,
             \/ code \notin {"PMEXEC321", "PMXFORM302"}
             \/ project.kind[n] = "step" /\ NoImplementation(n)
      PROVE  Frame(n) /\ Stops(n)
  <2>1. Shape' /\ Others(n) /\ status'[n] = "failed" /\ artifact' = artifact /\ failure'[n] = code
    BY <1>1, <1>3 DEF Fail, DataInv, Shape, Others, Places
  <2> QED
    BY <1>1, <1>3, <2>1 DEF Frame, Stops
<1>4. CASE /\ published' = published
           /\ \E code : Fail(n, code) /\ code \notin {"PMEXEC321", "PMXFORM302"}
  BY <1>3, <1>4
<1>5. CASE /\ published' = published /\ project.kind[n] = "step" /\ NoImplementation(n)
           /\ \E code : Fail(n, code)
  BY <1>3, <1>5
<1> QED
  BY <1>2, <1>4, <1>5

LEMMA RunsAsPlanned ==
  ASSUME DataInv, AsPlanned, phase = "planned", NEW n \in Steps(project)
  PROVE  /\ RunEngine(n) = plan.engine[n]
         /\ RunEngine(n) = plan.implementation[n].engine
<1>1. n \in Nodes /\ plan = BuildPlan(project)
  BY DEF DataInv, PlanInv, Steps, OfKind
<1>2. plan.engine[n] = plan.implementation[n].engine
  BY <1>1 DEF BuildPlan, FormRegions, ResolvedEngine
<1> QED
  BY <1>1, <1>2 DEF AsPlanned, RunEngine

\* What Executed asks for, when the code that failed is another one.
LEMMA Attempted ==
  ASSUME DataInv, NEW n \in Nodes, project.kind[n] \in {"step", "sink"}, status[n] = "running",
         UNCHANGED <<project, plan, phase, inputs, published>>,
         \/ \E v : Store(n, v) /\ Makes(n, v)
         \/ \E code : Fail(n, code) /\ code \notin {"PMEXEC321", "PMXFORM302"}
  PROVE  Frame(n) /\ (Gathers(n) \/ Finishes(n) \/ Stops(n))
<1>1. CASE \E v : Store(n, v) /\ Makes(n, v)
  BY <1>1, Executed
<1>2. CASE \E code : Fail(n, code) /\ code \notin {"PMEXEC321", "PMXFORM302"}
  BY <1>2, Executed
<1> QED
  BY <1>1, <1>2

LEMMA NoImplementationEffect ==
  ASSUME DataInv, NEW n \in Nodes, NoImplementation(n)
  PROVE  Frame(n) /\ (Gathers(n) \/ Finishes(n) \/ Stops(n))
<1>1. project.kind[n] = "step" /\ status[n] = "running"
  BY DEF NoImplementation, Running
<1>2. \E code : Fail(n, code)
  BY DEF NoImplementation
<1>3. UNCHANGED <<project, plan, phase, inputs, published>>
  BY DEF NoImplementation, RunVarsOf
<1> QED
  BY <1>1, <1>2, <1>3, Executed

LEMMA LocalEffect ==
  ASSUME DataInv, NEW n \in Nodes, RunLocalStep(n)
  PROVE  Frame(n) /\ (Gathers(n) \/ Finishes(n) \/ Stops(n))
<1>1. project.kind[n] = "step" /\ status[n] = "running" /\ StepFamily(n) = "local"
  BY DEF RunLocalStep, Runnable, Running, StepFamily
<1>2. UNCHANGED <<project, plan, phase, inputs, published>>
  BY DEF RunLocalStep, RunVarsOf
<1>3. ASSUME \A v \in Given(n) : v.form = "records", NEW cell
      PROVE  Makes(n, Value("records", "local", cell, Lost(n)))
  BY <1>1, <1>3 DEF Makes, StepMakes, SparkAtHome, SparkHandle, SqlHandle, Value
<1>4. \/ \E v : Store(n, v) /\ Makes(n, v)
      \/ \E code : Fail(n, code) /\ code \notin {"PMEXEC321", "PMXFORM302"}
  <2>1. CASE \A v \in Given(n) : v.form = "records"
    BY <1>3, <2>1 DEF RunLocalStep
  <2>2. CASE ~\A v \in Given(n) : v.form = "records"
    BY <2>2 DEF RunLocalStep
  <2> QED
    BY <2>1, <2>2
<1> QED
  BY <1>1, <1>2, <1>4, Attempted

LEMMA DataframeEffect ==
  ASSUME DataInv, NEW n \in Nodes, RunDataframeStep(n)
  PROVE  Frame(n) /\ (Gathers(n) \/ Finishes(n) \/ Stops(n))
<1>1. project.kind[n] = "step" /\ status[n] = "running" /\ StepFamily(n) = "dataframe"
  BY DEF RunDataframeStep, Runnable, Running, StepFamily
<1>2. UNCHANGED <<project, plan, phase, inputs, published>>
  BY DEF RunDataframeStep, RunVarsOf
<1>3. ASSUME \A v \in Given(n) : v.form \in Readable, NEW form \in {"frame", "lazy"}, NEW cell
      PROVE  Makes(n, Stored(n, OutputOf(n, form, cell)))
  <2>1. SparkAtHome(n)
    BY <1>3 DEF SparkAtHome, Readable, SparkHandle
  <2>2. LET v == Stored(n, OutputOf(n, form, cell)) IN
        /\ v.engine = RunEngine(n) /\ v.lost = Lost(n)
        /\ \/ v.form = "records" /\ plan.strategy[n] = "durable"
           \/ v.form = "frame"
           \/ v.form = "lazy" /\ ~ShouldCollect(project, plan, n)
    BY DEF OutputOf, Stored, Value
  <2> QED
    BY <1>1, <2>1, <2>2 DEF Makes, StepMakes, SqlHandle
<1>4. \/ \E v : Store(n, v) /\ Makes(n, v)
      \/ \E code : Fail(n, code) /\ code \notin {"PMEXEC321", "PMXFORM302"}
  <2>1. CASE \A v \in Given(n) : v.form \in Readable
    BY <1>3, <2>1 DEF RunDataframeStep
  <2>2. CASE ~\A v \in Given(n) : v.form \in Readable
    BY <2>2 DEF RunDataframeStep
  <2> QED
    BY <2>1, <2>2
<1> QED
  BY <1>1, <1>2, <1>4, Attempted

LEMMA SqlEffect ==
  ASSUME DataInv, NEW n \in Nodes, RunSqlStep(n)
  PROVE  Frame(n) /\ (Gathers(n) \/ Finishes(n) \/ Stops(n))
<1>1. project.kind[n] = "step" /\ status[n] = "running" /\ StepFamily(n) = "sql"
  BY DEF RunSqlStep, Runnable, Running, StepFamily
<1>2. UNCHANGED <<project, plan, phase, inputs, published>>
  BY DEF RunSqlStep, RunVarsOf
<1>3. ASSUME \A v \in Given(n) : v.form \in SqlHandle, NEW form \in SqlHandle
      PROVE  Makes(n, Value(form, "sql", n, Lost(n)))
  <2>1. SparkAtHome(n)
    BY <1>3 DEF SparkAtHome, SqlHandle, SparkHandle
  <2> QED
    BY <1>1, <2>1 DEF Makes, StepMakes, MadeBySql, StepFamily, Value
<1>4. \/ \E v : Store(n, v) /\ Makes(n, v)
      \/ \E code : Fail(n, code) /\ code \notin {"PMEXEC321", "PMXFORM302"}
  <2>1. CASE Composes(n)
    BY <1>3, <2>1 DEF RunSqlStep, Composes, SqlHandle
  <2>2. CASE ~Composes(n)
    BY <2>2 DEF RunSqlStep
  <2> QED
    BY <2>1, <2>2
<1> QED
  BY <1>1, <1>2, <1>4, Attempted

LEMMA SparkEffect ==
  ASSUME DataInv, NEW n \in Nodes, SparkStep(n)
  PROVE  Frame(n) /\ (Gathers(n) \/ Finishes(n) \/ Stops(n))
<1>1. project.kind[n] = "step" /\ status[n] = "running" /\ StepFamily(n) = "spark"
  BY DEF SparkStep, Runnable, Running, StepFamily
<1>2. UNCHANGED <<project, plan, phase, inputs, published>>
  BY DEF SparkStep, RunVarsOf
<1>3. SparkAtHome(n)
  <2>1. phase = "planned" /\ n \in Steps(project)
    BY <1>1 DEF DataInv, PlanInv, Steps, OfKind
  <2>2. AsPlanned => NodeFamily(n) = StepFamily(n)
    BY <2>1, RunsAsPlanned DEF NodeFamily, StepFamily
  <2> QED
    BY <1>1, <2>2 DEF SparkAtHome
<1>4. Makes(n, SparkOutput(n))
  BY <1>1, <1>3 DEF SparkOutput, Makes, StepMakes, SqlHandle, Value
<1>5. \/ \E v : Store(n, v) /\ Makes(n, v)
      \/ \E code : Fail(n, code) /\ code \notin {"PMEXEC321", "PMXFORM302"}
  BY <1>4 DEF SparkStep
<1> QED
  BY <1>1, <1>2, <1>5, Attempted

LEMMA SinkEffect ==
  ASSUME DataInv, NEW n \in Nodes, RunSink(n)
  PROVE  Frame(n) /\ (Gathers(n) \/ Finishes(n) \/ Stops(n))
<1>1. project.kind[n] = "sink" /\ status[n] = "running"
  BY DEF RunSink, RunSparkSink, RunSqlSink, RunStorageSink, Running
<1>2. UNCHANGED <<project, plan, phase, inputs>>
  BY DEF RunSink
<1>3. PICK u : u \in Given(n) /\ u = (CHOOSE v \in Given(n) : TRUE)
  <2>1. project.producers[n] # {} /\ DOMAIN inputs[n] = project.producers[n]
    BY <1>1, DataflowAssumption DEF DataInv, InputInv, Shape, OfKind
  <2>2. Given(n) # {}
    BY <2>1 DEF Given
  <2> QED
    BY <2>2
<1>4. ASSUME Publish(n), SparkAtHome(n)
      PROVE  /\ Store(n, Nothing) /\ Makes(n, Nothing)
             /\ \/ published' = published
                \/ /\ ~project.request.no_write
                   /\ published' = [published EXCEPT ![n] = u]
  BY <1>1, <1>3, <1>4 DEF Publish, Makes, Nothing, Value, None, SqlHandle
<1>5. Publish(n) => SparkAtHome(n)
  <2>1. CASE RunSparkSink(n)
    BY <2>1 DEF RunSparkSink, SparkAtHome
  <2>2. CASE RunSqlSink(n) /\ Publish(n)
    <3>1. ~FailSink(n, "PMEXEC437") /\ ~FailSink(n, "PMEXEC330") /\ ~FailSink(n, "PMEXEC436")
      BY <2>2 DEF Publish, Store, FailSink, Fail, DataInv, Shape
    <3>2. project.request.no_write \/ \A v \in Given(n) : v.form \in SqlHandle \cup {"records"}
      BY <2>2, <3>1 DEF RunSqlSink
    <3> QED
      BY <1>1, <3>2 DEF SparkAtHome, Looks, SqlHandle, SparkHandle
  <2>3. CASE RunStorageSink(n) /\ Publish(n)
    <3>1. ~FailSink(n, "PMEXEC437") /\ ~FailSink(n, "PMEXEC330")
      BY <2>3 DEF Publish, Store, FailSink, Fail, DataInv, Shape
    <3>2. \A v \in Given(n) : v.form \notin SparkHandle
      BY <2>3, <3>1 DEF RunStorageSink
    <3> QED
      BY <3>2 DEF SparkAtHome
  <2> QED
    BY <2>1, <2>2, <2>3 DEF RunSink
<1>6. \/ Publish(n)
      \/ /\ published' = published
         /\ \E code : Fail(n, code) /\ code \notin {"PMEXEC321", "PMXFORM302"}
  <2>1. RunSparkSink(n) => Publish(n) \/ FailSink(n, "PMSPARK000")
    BY DEF RunSparkSink
  <2>2. RunSqlSink(n) => \/ Publish(n) \/ FailSink(n, "PMEXEC437") \/ FailSink(n, "PMEXEC330")
                         \/ FailSink(n, "PMEXEC436")
    BY DEF RunSqlSink
  <2>3. RunStorageSink(n) => \/ Publish(n) \/ FailSink(n, "PMEXEC437")
                             \/ FailSink(n, "PMEXEC330")
    BY DEF RunStorageSink
  <2> QED
    BY <2>1, <2>2, <2>3 DEF RunSink, FailSink
<1> QED
  BY <1>1, <1>2, <1>3, <1>4, <1>5, <1>6, Executed

LEMMA NodeEffect ==
  ASSUME DataInv, NEW n \in Nodes, NodeNext(n)
  PROVE  Frame(n) /\ (Gathers(n) \/ Finishes(n) \/ Stops(n))
<1>1. CASE Gather(n)
  <2>1. phase = "planned" /\ project.kind[n] \in {"step", "sink"} /\ status[n] = "waiting"
    BY <1>1 DEF Gather
  <2>2. PICK got \in [project.producers[n] -> UNION {FetchedFor(n, m) : m \in project.producers[n]}] :
          /\ \A m \in project.producers[n] : got[m] \in FetchedFor(n, m)
          /\ inputs' = [inputs EXCEPT ![n] = got]
    BY <1>1 DEF Gather
  <2>3. inputs'[n] = got /\ status'[n] = "running"
    BY <1>1, <2>2 DEF Gather, DataInv, Shape
  <2>4. Shape' /\ Others(n)
    BY <1>1, <2>1, <2>2 DEF Gather, DataInv, Shape, Others, Places, None
  <2>5. Gathers(n)
    BY <1>1, <2>1, <2>2, <2>3 DEF Gather, Gathers
  <2> QED
    BY <1>1, <2>1, <2>4, <2>5 DEF Gather, Frame, None
<1>2. CASE ReadSource(n)
  <2>1. phase = "planned" /\ project.kind[n] = "source" /\ status[n] = "waiting"
    BY <1>2 DEF ReadSource
  <2>2. PICK form : /\ form = CASE NodeFamily(n) = "sql" -> "relation"
                                [] NodeFamily(n) = "spark" /\ project.provider[n] \notin RowProvider -> "dataset"
                                [] OTHER -> "records"
                    /\ \/ Store(n, Value(form, plan.engine[n], n, FALSE))
                       \/ Fail(n, "PMEXEC430")
    BY <1>2 DEF ReadSource
  <2>3. Given(n) = {}
    BY <2>1 DEF DataInv, InputInv, Given
  <2>4. Makes(n, Value(form, plan.engine[n], n, FALSE))
    BY <2>1, <2>2, <2>3 DEF Makes, SparkAtHome, MadeBySql, Value, SqlHandle
  <2>5. CASE Store(n, Value(form, plan.engine[n], n, FALSE))
    <3>1. Shape' /\ Others(n) /\ Finishes(n)
      BY <1>2, <2>1, <2>4, <2>5
      DEF ReadSource, Store, DataInv, Shape, Others, Places, Finishes, None
    <3> QED
      BY <1>2, <2>1, <3>1 DEF ReadSource, Frame, None
  <2>6. CASE Fail(n, "PMEXEC430")
    <3>1. Shape' /\ Others(n) /\ Stops(n)
      BY <1>2, <2>1, <2>6
      DEF ReadSource, Fail, DataInv, Shape, Others, Places, Stops, None
    <3> QED
      BY <1>2, <2>1, <3>1 DEF ReadSource, Frame, None
  <2> QED
    BY <2>2, <2>5, <2>6
<1>3. CASE RunStep(n)
  BY <1>3, NoImplementationEffect, LocalEffect, DataframeEffect, SqlEffect, SparkEffect
  DEF RunStep, RunPortableSparkStep, RunSparkStep
<1>4. CASE RunSink(n)
  BY <1>4, SinkEffect
<1>5. CASE Retry(n)
  <2>1. phase = "planned" /\ project.kind[n] # None /\ status[n] = "failed"
    BY <1>5 DEF Retry, DataInv, PlanInv, Shape, None
  <2>2. Shape' /\ Others(n) /\ Stops(n)
    BY <1>5, <2>1 DEF Retry, DataInv, Shape, Others, Places, Stops, None
  <2> QED
    BY <1>5, <2>1, <2>2 DEF Retry, Frame
<1>6. CASE Skip(n)
  <2>1. phase = "planned" /\ project.kind[n] # None /\ status[n] = "waiting"
    BY <1>6 DEF Skip, DataInv, Shape, None
  <2>2. Shape' /\ Others(n) /\ Stops(n)
    BY <1>6, <2>1 DEF Skip, DataInv, Shape, Others, Places, Stops
  <2> QED
    BY <1>6, <2>1, <2>2 DEF Skip, Frame
<1> QED
  BY <1>1, <1>2, <1>3, <1>4, <1>5, <1>6 DEF NodeNext

\* What a done node was given, and may make, is settled.
LEMMA Settled ==
  ASSUME NEW n \in Nodes, UNCHANGED <<project, plan>>, inputs'[n] = inputs[n],
         NEW v, v = artifact'[n], Makes(n, v)
  PROVE  Makes(n, artifact[n])'
<1>1. Given(n)' = Given(n) /\ Lost(n)' = Lost(n)
  BY DEF Given, Lost
<1>2. RunEngine(n)' = RunEngine(n) /\ \A c : NodeFamily(c)' = NodeFamily(c)
  BY DEF RunEngine, NodeFamily
<1>3. SparkAtHome(n)' = SparkAtHome(n)
  BY <1>1, <1>2 DEF SparkAtHome, AsPlanned, Looks
<1>4. MadeBySql(n)' = MadeBySql(n) /\ StepFamily(n)' = StepFamily(n)
  BY <1>2 DEF MadeBySql, StepFamily
<1>5. StepMakes(n, v) => StepMakes(n, artifact[n])'
  BY <1>2, <1>4 DEF StepMakes, ShouldCollect
<1> QED
  BY <1>1, <1>3, <1>4, <1>5 DEF Makes

\* A fetch depends on what its producer, which is done, has stored.
LEMMA FetchedAsBefore ==
  ASSUME NEW k \in Nodes, NEW m \in Nodes, UNCHANGED plan, artifact'[m] = artifact[m]
  PROVE  FetchedFor(k, m)' = FetchedFor(k, m)
  BY DEF FetchedFor, NodeFamily

LEMMA NodeStep ==
  ASSUME DataInv, NEW n \in Nodes, NodeNext(n)
  PROVE  DataInv'
<1>1. Frame(n) /\ (Gathers(n) \/ Finishes(n) \/ Stops(n))
  BY NodeEffect
<1>2. UNCHANGED <<project, plan, phase>> /\ Shape' /\ Others(n) /\ status[n] # "done"
      /\ phase = "planned"
  BY <1>1 DEF Frame
<1>3. PlanInv'
  BY <1>2 DEF DataInv, PlanInv
<1>4. InputInv'
  <2> SUFFICES ASSUME NEW k \in Nodes
               PROVE  /\ project.kind[k] = "source" => DOMAIN inputs'[k] = {}
                      /\ status'[k] \in {"running", "done"} /\ project.kind[k] \in {"step", "sink"} =>
                           /\ DOMAIN inputs'[k] = project.producers[k]
                           /\ \A m \in project.producers[k] :
                                status'[m] = "done" /\ inputs'[k][m] \in FetchedFor(k, m)'
    BY <1>2 DEF InputInv
  <2>1. project.producers[k] \subseteq Nodes
    BY DataflowAssumption DEF DataInv, Shape
  <2>2. ASSUME NEW m \in project.producers[k], status[m] = "done"
        PROVE  status'[m] = "done" /\ FetchedFor(k, m)' = FetchedFor(k, m)
    BY <1>2, <2>1, <2>2, FetchedAsBefore DEF Others
  <2>3. CASE k # n
    BY <1>2, <2>2, <2>3 DEF Others, DataInv, InputInv
  <2>4. CASE k = n /\ Gathers(n)
    BY <2>2, <2>4 DEF Gathers
  <2>5. CASE k = n /\ Finishes(n)
    BY <2>2, <2>5 DEF Finishes, DataInv, InputInv
  <2>6. CASE k = n /\ Stops(n)
    BY <2>6 DEF Stops, DataInv, InputInv
  <2> QED
    BY <1>1, <2>3, <2>4, <2>5, <2>6
<1>5. ArtifactInv'
  <2> SUFFICES ASSUME NEW k \in Nodes, status'[k] = "done"
               PROVE  Makes(k, artifact[k])'
    BY DEF ArtifactInv
  <2>1. CASE k # n
    <3>1. status[k] = "done" /\ artifact'[k] = artifact[k] /\ inputs'[k] = inputs[k]
      BY <1>2, <2>1 DEF Others
    <3>2. Makes(k, artifact[k])
      BY <3>1 DEF DataInv, ArtifactInv
    <3> QED
      BY <1>2, <3>1, <3>2, Settled
  <2>2. CASE k = n
    <3>1. Makes(k, artifact'[k]) /\ inputs'[k] = inputs[k]
      BY <1>1, <2>2 DEF Gathers, Stops, Finishes
    <3> QED
      BY <1>2, <3>1, Settled
  <2> QED
    BY <2>1, <2>2
<1>6. PublishedInv'
  <2> SUFFICES ASSUME NEW k \in Nodes, published'[k] # Nothing
               PROVE  /\ status'[k] = "done" /\ ~project.request.no_write
                      /\ published'[k].lost => Lost(k)'
    BY <1>2 DEF PublishedInv
  <2>1. CASE published'[k] = published[k]
    <3>1. status[k] = "done" /\ ~project.request.no_write /\ (published[k].lost => Lost(k))
      BY <2>1 DEF DataInv, PublishedInv
    <3>2. k # n /\ status'[k] = "done" /\ inputs'[k] = inputs[k]
      BY <1>2, <3>1 DEF Others
    <3> QED
      BY <2>1, <3>1, <3>2 DEF Lost, Given
  <2>2. CASE published'[k] # published[k]
    <3>1. k = n /\ Finishes(n)
      BY <1>1, <1>2, <2>2 DEF Others, Gathers, Stops
    <3>2. ~project.request.no_write /\ published'[k] \in Given(k) /\ status'[k] = "done"
          /\ inputs' = inputs
      BY <2>2, <3>1 DEF Finishes
    <3> QED
      BY <3>2 DEF Lost, Given
  <2> QED
    BY <2>1, <2>2
<1>7. StrictPlansRun'
  <2> SUFFICES ASSUME project.profile.strict, AsPlanned, CompilersHaveExecutors,
                      project.profile.spark = None, project.profile.sql = None,
                      NEW k \in Nodes, failure'[k] \in {"PMEXEC321", "PMXFORM302"}
               PROVE  project.step[k].portable /\ OnlyInRegistry(k)
    BY <1>2 DEF StrictPlansRun, AsPlanned, CompilersHaveExecutors, OnlyInRegistry
  <2>1. CASE failure'[k] = failure[k]
    BY <2>1 DEF DataInv, StrictPlansRun
  <2>2. CASE failure'[k] # failure[k]
    <3>1. k = n /\ Stops(n) /\ project.kind[n] = "step" /\ NoImplementation(n)
      BY <1>1, <1>2, <2>2 DEF Others, Gathers, Finishes, Stops
    <3>2. n \in Steps(project) /\ plan = BuildPlan(project) /\ Valid(project)
      BY <1>2, <3>1 DEF DataInv, PlanInv, Steps, OfKind
    <3>3. plan.implementation[n] = SelectImplementation(project, n)
      BY <3>2 DEF BuildPlan, Selection
    <3>4. SelectImplementation(project, n).error = None
      BY <1>2, <3>2 DEF DataInv, PlanInv, Selection
    <3>5. RunEngine(n) = plan.implementation[n].engine
      BY <1>2, <3>2, RunsAsPlanned
    <3> DEFINE chosen == SelectImplementation(project, n)
    <3>6. /\ chosen.kind = "portable_compiled" => chosen.engine \in project.profile.compilers
          /\ chosen.kind = "native" =>
               chosen.engine \in project.step[n].native
               \/ (project.step[n].portable /\ OnlyInRegistry(n))
      BY <3>2, <3>4, StrictSelection DEF OnlyInRegistry
    <3>7. chosen.kind = "native" /\ chosen.engine \notin project.step[n].native
      BY <3>1, <3>3, <3>5, <3>6 DEF NoImplementation, CompilersHaveExecutors
    <3> QED
      BY <3>1, <3>6, <3>7
  <2> QED
    BY <2>1, <2>2
<1> QED
  BY <1>2, <1>3, <1>4, <1>5, <1>6, <1>7 DEF DataInv

LEMMA PlannerStep ==
  ASSUME DataInv, ValidatePipeline \/ PlanPipeline
  PROVE  DataInv'
<1>1. UNCHANGED <<project, runVars>> /\ phase # "planned"
  BY DEF ValidatePipeline, PlanPipeline
<1>2. Shape'
  BY <1>1 DEF DataInv, Shape, runVars
<1>3. \A n \in Nodes : status[n] \in {"absent", "waiting"} /\ status'[n] = status[n]
  BY <1>1 DEF DataInv, PlanInv, runVars
<1>4. PlanInv'
  <2>1. CASE ValidatePipeline
    BY <1>1, <1>3, <2>1 DEF ValidatePipeline, PlanInv
  <2>2. CASE PlanPipeline
    <3>1. Valid(project)
      BY <2>2 DEF DataInv, PlanInv, PlanPipeline
    <3>2. CASE phase' = "rejected"
      BY <1>1, <1>3, <3>2 DEF PlanInv
    <3>3. CASE phase' # "rejected"
      <4>1. /\ phase' = "planned" /\ plan' = BuildPlan(project)
            /\ \A n \in Steps(project) : Selection(project)[n].error = None
        BY <2>2, <3>3 DEF PlanPipeline
      <4> QED
        BY <1>1, <3>1, <4>1 DEF PlanInv
    <3> QED
      BY <3>2, <3>3
  <2> QED
    BY <2>1, <2>2
<1>5. InputInv' /\ ArtifactInv' /\ PublishedInv'
  BY <1>1, <1>3 DEF DataInv, InputInv, ArtifactInv, PublishedInv, runVars
<1>6. StrictPlansRun'
  BY <1>1 DEF DataInv, StrictPlansRun, AsPlanned, CompilersHaveExecutors, OnlyInRegistry, runVars
<1> QED
  BY <1>2, <1>4, <1>5, <1>6 DEF DataInv

LEMMA DataInvariant == Spec => []DataInv
<1>1. DataInv /\ [Next]_vars => DataInv'
  <2> SUFFICES ASSUME DataInv, [Next]_vars PROVE DataInv'
    OBVIOUS
  <2>1. CASE ValidatePipeline \/ PlanPipeline
    BY <2>1, PlannerStep
  <2>2. CASE \E n \in Nodes : NodeNext(n)
    BY <2>2, NodeStep
  <2>3. CASE UNCHANGED vars
    <3>1. Shape' /\ PlanInv' /\ PublishedInv'
      BY <2>3 DEF vars, DataInv, Shape, PlanInv, PublishedInv, Lost, Given
    <3>2. InputInv'
      <4>1. \A k \in Nodes : project.producers[k] \subseteq Nodes
        BY DataflowAssumption DEF DataInv, Shape
      <4>2. \A k \in Nodes : \A m \in project.producers[k] : FetchedFor(k, m)' = FetchedFor(k, m)
        BY <2>3, <4>1, FetchedAsBefore DEF vars
      <4> QED
        BY <2>3, <4>2 DEF vars, DataInv, InputInv
    <3>3. ArtifactInv'
      <4> SUFFICES ASSUME NEW k \in Nodes, status[k] = "done"
                   PROVE  Makes(k, artifact[k])'
        BY <2>3 DEF vars, ArtifactInv
      <4>1. Makes(k, artifact[k])
        BY DEF DataInv, ArtifactInv
      <4> QED
        BY <2>3, <4>1, Settled DEF vars
    <3>4. StrictPlansRun'
      BY <2>3 DEF vars, DataInv, StrictPlansRun, AsPlanned, CompilersHaveExecutors, OnlyInRegistry
    <3> QED
      BY <3>1, <3>2, <3>3, <3>4 DEF DataInv
  <2> QED
    BY <2>1, <2>2, <2>3 DEF Next
<1> QED
  BY <1>1, DataInit, PTL DEF Spec

(***************************************************************************)
(* What follows                                                            *)
(***************************************************************************)
\* validate_pipeline against the planner and the executors: whatever the profile, the
\* registry and the steps, what a strict policy let through has its implementations,
\* apart from the limits StrictPlansRun names.
THEOREM StrictPlansRunHolds == Spec => []StrictPlansRun
<1>1. DataInv => StrictPlansRun
  BY DEF DataInv
<1> QED
  BY <1>1, DataInvariant, PTL

\* no_write in the three sink executors: none of them writes to a target, in any order
\* of nodes, attempts and failures.
THEOREM NoWriteLeavesTargetsHolds == Spec => []NoWriteLeavesTargets
<1>1. DataInv => NoWriteLeavesTargets
  BY DEF DataInv, PublishedInv, NoWriteLeavesTargets
<1> QED
  BY <1>1, DataInvariant, PTL

\* What a node that is done was given by a producer: what the producer stored, or, for
\* the handle of an SQL node and a consumer outside SQL, what a fetch made of it.
LEMMA GivenByProducer ==
  ASSUME DataInv, NEW n \in Nodes, status[n] = "done", project.kind[n] \in {"step", "sink"},
         NEW m \in project.producers[n]
  PROVE  /\ m \in Nodes /\ status[m] = "done" /\ Makes(m, artifact[m])
         /\ \/ /\ inputs[n][m] = artifact[m]
               /\ artifact[m].form \in SqlHandle => NodeFamily(n) = "sql"
            \/ /\ inputs[n][m].form = "records" /\ artifact[m].form \in SqlHandle
               /\ MadeBySql(m) /\ NodeFamily(n) # "sql"
<1>1. m \in Nodes
  BY DataflowAssumption DEF DataInv, Shape
<1>2. status[m] = "done" /\ inputs[n][m] \in FetchedFor(n, m)
  BY DEF DataInv, InputInv
<1>3. Makes(m, artifact[m])
  BY <1>1, <1>2 DEF DataInv, ArtifactInv
<1>4. artifact[m].form \in SqlHandle => MadeBySql(m)
  BY <1>3 DEF Makes
<1> QED
  BY <1>1, <1>2, <1>3, <1>4 DEF FetchedFor, Value

\* The fetch in the orchestrator that ignores its outcome is the one place where rows
\* go missing, for every graph and every placement of its nodes on engines.
THEOREM RowsLostOnlyAtFetchHolds == Spec => []RowsLostOnlyAtFetch
<1>1. DataInv => RowsLostOnlyAtFetch
  <2> SUFFICES ASSUME DataInv, NEW n \in Nodes, status[n] = "done"
               PROVE  /\ artifact[n].lost \/ published[n].lost => LosesRows(n)
                      /\ \A m \in DOMAIN inputs[n] :
                           inputs[n][m].lost => \/ MadeBySql(m) /\ NodeFamily(n) # "sql"
                                                \/ artifact[m].lost
    BY DEF RowsLostOnlyAtFetch, Done
  <2>1. Lost(n) => LosesRows(n)
    BY DEF Lost, Given, LosesRows
  <2>2. artifact[n].lost => Lost(n)
    BY DEF DataInv, ArtifactInv, Makes
  <2>3. published[n].lost => Lost(n)
    BY DEF DataInv, PublishedInv, Nothing, Value
  <2>4. project.kind[n] \in {"source", "step", "sink"}
    BY Kinds DEF DataInv, Shape, None
  <2>5. ASSUME NEW m \in DOMAIN inputs[n]
        PROVE  inputs[n][m] = artifact[m] \/ (MadeBySql(m) /\ NodeFamily(n) # "sql")
    <3>1. project.kind[n] \in {"step", "sink"} /\ m \in project.producers[n]
      BY <2>4 DEF DataInv, InputInv
    <3> QED
      BY <3>1, GivenByProducer
  <2> QED
    BY <2>1, <2>2, <2>3, <2>5
<1> QED
  BY <1>1, DataInvariant, PTL

\* Two nodes on engines of different families are on different engines, and the plan
\* knows the edge between them.
LEMMA CrossesEngines ==
  ASSUME DataInv, phase = "planned", NEW n \in Nodes, NEW m \in project.producers[n], m \in Nodes
  PROVE  plan.engine[n] # plan.engine[m] => <<m, n>> \in plan.crossing
<1>1. plan.crossing = CrossEngine(project, plan.engine)
  BY DEF DataInv, PlanInv, BuildPlan
<1>2. <<m, n>> \in Edges(project)
  BY DEF Edges
<1> QED
  BY <1>1, <1>2 DEF CrossEngine

\* Lazy frames and handles reach only those who can use them, and data between steps
\* is converted only at a boundary of the plan.
LEMMA FormsFitInvariant == DataInv => FormsFit
<1> SUFFICES ASSUME DataInv, AsPlanned
             PROVE  HandlesStayHome /\ ConversionsAtBoundaries
  BY DEF FormsFit, HandlesStayHome, ConversionsAtBoundaries
<1>1. \A k \in Nodes : status[k] = "done" => phase = "planned"
  BY DEF DataInv, PlanInv
<1>2. \A k \in Steps(project) :
        phase = "planned" => NodeFamily(k) = StepFamily(k) /\ RunEngine(k) = plan.engine[k]
  BY RunsAsPlanned DEF NodeFamily, StepFamily
<1>3. HandlesStayHome
  <2> SUFFICES ASSUME NEW n \in Nodes, status[n] = "done", Looks(n), NEW m \in project.producers[n]
               PROVE  LET v == inputs[n][m] IN
                      /\ v.form = "lazy" => plan.engine[n] = v.engine
                      /\ v.form \in SqlHandle => NodeFamily(n) = "sql"
                      /\ v.form \in SparkHandle => NodeFamily(n) = "spark"
    BY DEF HandlesStayHome, Done
  <2>1. project.kind[n] \in {"step", "sink"}
    BY Kinds, DataflowAssumption DEF DataInv, Shape, OfKind, None
  <2>2. m \in Nodes /\ Makes(m, artifact[m])
    BY <2>1, GivenByProducer
  <2>3. SparkAtHome(n) /\ inputs[n][m] \in Given(n)
    BY <2>1 DEF DataInv, ArtifactInv, InputInv, Makes, Given
  <2>4. inputs[n][m].form = "lazy" => plan.engine[n] = inputs[n][m].engine
    <3>1. SUFFICES ASSUME inputs[n][m].form = "lazy"
                   PROVE  plan.engine[n] = inputs[n][m].engine
      OBVIOUS
    <3>2. inputs[n][m] = artifact[m]
      BY <2>1, <3>1, GivenByProducer
    <3>3. project.kind[m] = "step" /\ StepMakes(m, artifact[m])
      BY <2>2, <3>1, <3>2 DEF Makes
    <3>4. artifact[m].engine = RunEngine(m) /\ ~ShouldCollect(project, plan, m)
      BY <3>1, <3>2, <3>3 DEF StepMakes, SqlHandle
    <3>5. <<m, n>> \notin plan.crossing
      BY <3>4 DEF ShouldCollect
    <3>6. phase = "planned" /\ RunEngine(m) = plan.engine[m]
      BY <1>1, <1>2, <2>2, <3>3 DEF Steps, OfKind
    <3> QED
      BY <2>2, <3>2, <3>4, <3>5, <3>6, CrossesEngines
  <2>5. inputs[n][m].form \in SqlHandle => NodeFamily(n) = "sql"
    BY <2>1, GivenByProducer DEF SqlHandle
  <2>6. inputs[n][m].form \in SparkHandle => NodeFamily(n) = "spark"
    BY <2>3 DEF SparkAtHome
  <2> QED
    BY <2>4, <2>5, <2>6
<1>4. ConversionsAtBoundaries
  <2> SUFFICES ASSUME NEW n \in Steps(project), status[n] = "done",
                      NEW m \in Steps(project), m \in project.producers[n], Converted(n, m)
               PROVE  (\E edge \in plan.crossing : edge[1] = m) \/ m \in SinkPublication(project)
    BY DEF ConversionsAtBoundaries, Done
  <2>1. n \in Nodes /\ m \in Nodes /\ project.kind[n] = "step" /\ project.kind[m] = "step"
    BY DEF Steps, OfKind
  <2>2. phase = "planned" /\ NodeFamily(m) = StepFamily(m)
    BY <1>1, <1>2, <2>1
  <2>3. NodeFamily(n) # NodeFamily(m) => <<m, n>> \in plan.crossing
    BY <2>1, <2>2, CrossesEngines DEF NodeFamily
  <2>4. CASE inputs[n][m] # artifact[m]
    <3>1. MadeBySql(m) /\ NodeFamily(n) # "sql"
      BY <2>1, <2>4, GivenByProducer
    <3> QED
      BY <2>2, <2>3, <3>1 DEF MadeBySql, StepFamily
  <2>5. CASE inputs[n][m] = artifact[m]
    <3>1. artifact[m].form = "records" /\ NodeFamily(n) \in {"dataframe", "spark"}
      BY <2>5 DEF Converted
    <3>2. StepMakes(m, artifact[m])
      BY <2>1, GivenByProducer DEF Makes
    <3>3. CASE StepFamily(m) = "dataframe"
      <4>1. plan.strategy[m] = "durable"
        BY <3>1, <3>2, <3>3 DEF StepMakes
      <4>2. \E implementation, e : plan.strategy[m] = Strategy(project, implementation, e, m)
        BY <2>1, <2>2 DEF DataInv, PlanInv, BuildPlan
      <4> QED
        BY <4>1, <4>2, DurableSteps
    <3>4. CASE StepFamily(m) = "spark"
      <4>1. PICK c \in Consumers(project, m) : NodeFamily(c) # "spark"
        BY <3>1, <3>2, <3>4 DEF StepMakes
      <4>2. c \in Nodes /\ m \in project.producers[c]
        BY DEF Consumers
      <4>3. <<m, c>> \in plan.crossing
        BY <2>1, <2>2, <3>4, <4>1, <4>2, CrossesEngines DEF NodeFamily
      <4> QED
        BY <4>3
    <3>5. CASE StepFamily(m) \notin {"dataframe", "spark"}
      BY <2>2, <2>3, <3>1, <3>5
    <3> QED
      BY <3>3, <3>4, <3>5
  <2> QED
    BY <2>4, <2>5
<1> QED
  BY <1>3, <1>4

\* The planner's boundaries against the executors: for every graph, profile and set of
\* engines each executor gets forms it can use.
THEOREM FormsFitHolds == Spec => []FormsFit
  BY FormsFitInvariant, DataInvariant, PTL

(***************************************************************************)
(* Whose objects are written into                                          *)
(***************************************************************************)
\* CellInv: rows and frames in the store are the objects of the node that has put
\* them, unless it passes inputs on.
Writable == {"records", "frame"}
OwnCell(n, v) == v.form \in Writable => v.cell = n \/ PassesOn(n)
CellInv ==
  /\ DOMAIN written = Nodes
  /\ phase # "planned" => \A n \in Nodes : written[n] = {}
  /\ \A n \in Nodes : status[n] = "done" => OwnCell(n, artifact[n])
  /\ WritesStayNear

\* What a running node was given: objects of its own (rows fetched for it) or of a
\* producer, unless a producer passes on what it was given itself.
LEMMA GivenCells ==
  ASSUME DataInv, CellInv, NEW n \in Nodes, status[n] = "running", project.kind[n] = "step",
         NEW v \in Given(n), v.form \in Writable
  PROVE  \/ v.cell = n \/ v.cell \in project.producers[n]
         \/ \E m \in project.producers[n] : PassesOn(m)
<1>1. PICK m \in project.producers[n] :
        v = inputs[n][m] /\ status[m] = "done" /\ inputs[n][m] \in FetchedFor(n, m)
  BY DEF Given, DataInv, InputInv
<1>2. m \in Nodes
  BY DataflowAssumption DEF DataInv, Shape
<1>3. v = artifact[m] \/ v.cell = n
  BY <1>1 DEF FetchedFor, Value
<1> QED
  BY <1>1, <1>2, <1>3 DEF CellInv, OwnCell

\* A step of a node stores its own objects or passes its inputs on, and writes into
\* what it was given.
NearTo(n, c) == c = n \/ c \in project.producers[n] \/ \E m \in project.producers[n] : PassesOn(m)
TouchesNear(n) ==
  /\ DOMAIN written' = Nodes
  /\ \A c \in Nodes : \A w \in written'[c] : w \in written[c] \/ (w = n /\ NearTo(n, c))

LEMMA WritesNear ==
  ASSUME DataInv, CellInv, NEW n \in Nodes, status[n] = "running", project.kind[n] = "step",
         NEW shared \in SUBSET Given(n), \A v \in shared : v.form \in Writable,
         WritesInto(n, shared)
  PROVE  TouchesNear(n)
<1>1. PICK touched \in SUBSET {v.cell : v \in shared} :
        written' = [c \in Nodes |-> IF c \in touched THEN written[c] \cup {n} ELSE written[c]]
  BY DEF WritesInto
<1>2. \A c \in touched : NearTo(n, c)
  BY GivenCells DEF NearTo
<1> QED
  BY <1>1, <1>2 DEF TouchesNear

LEMMA WrittenStays ==
  ASSUME CellInv, NEW n, written' = written
  PROVE  TouchesNear(n)
  BY DEF CellInv, TouchesNear

LEMMA StoresOwn ==
  ASSUME DataInv, NEW n \in Nodes, NEW v, OwnCell(n, v),
         Store(n, v) \/ \E code : Fail(n, code)
  PROVE  status'[n] = "done" => OwnCell(n, artifact'[n])
  BY DEF Store, Fail, DataInv, Shape

\* Whatever a node does next, it keeps to that.
LEMMA CellEffect ==
  ASSUME DataInv, CellInv, NEW n \in Nodes, NodeNext(n)
  PROVE  /\ status'[n] = "done" => OwnCell(n, artifact'[n])
         /\ TouchesNear(n)
<1>0. DOMAIN status = Nodes /\ DOMAIN artifact = Nodes
  BY DEF DataInv, Shape
<1>1. CASE Gather(n)
  <2>1. status'[n] = "running" /\ written' \in {written, [written EXCEPT ![n] = {}]}
    BY <1>0, <1>1 DEF Gather
  <2> QED
    BY <2>1 DEF CellInv, TouchesNear
<1>2. CASE ReadSource(n)
  <2>1. written' = written
    BY <1>2 DEF ReadSource
  <2>2. \A form : OwnCell(n, Value(form, plan.engine[n], n, FALSE))
    BY DEF OwnCell, Value
  <2>3. \E form : Store(n, Value(form, plan.engine[n], n, FALSE)) \/ Fail(n, "PMEXEC430")
    BY <1>2 DEF ReadSource
  <2> QED
    BY <2>1, <2>2, <2>3, StoresOwn, WrittenStays
<1>3. CASE NoImplementation(n)
  <2>1. written' = written /\ \E code : Fail(n, code)
    BY <1>3 DEF NoImplementation
  <2> QED
    BY <1>0, <2>1, WrittenStays DEF Fail
<1>4. CASE RunLocalStep(n)
  <2>1. status[n] = "running" /\ project.kind[n] = "step" /\ RuntimeFamily(RunEngine(n)) = "local"
    BY <1>4 DEF RunLocalStep, Runnable, Running
  <2>2. \A v : OwnCell(n, v)
    BY <2>1 DEF OwnCell, PassesOn
  <2>3. TouchesNear(n)
    <3>1. CASE \A v \in Given(n) : v.form = "records"
      <4>1. WritesInto(n, Given(n)) /\ \A v \in Given(n) : v.form \in Writable
        BY <1>4, <3>1 DEF RunLocalStep, Writable
      <4> QED
        BY <2>1, <4>1, WritesNear
    <3>2. CASE ~\A v \in Given(n) : v.form = "records"
      BY <1>4, <3>2, WrittenStays DEF RunLocalStep
    <3> QED
      BY <3>1, <3>2
  <2> QED
    BY <2>2, <2>3
<1>5. CASE RunDataframeStep(n)
  <2> DEFINE own == {v \in Given(n) : v.form \in {"frame", "lazy"} /\ v.engine = RunEngine(n)}
             native == {v \in own : plan.implementation[n].kind = "native"}
             frames == {v \in native : v.form = "frame"}
  <2>1. status[n] = "running" /\ project.kind[n] = "step"
    BY <1>5 DEF RunDataframeStep, Runnable, Running
  <2>2. TouchesNear(n)
    <3>1. CASE \A v \in Given(n) : v.form \in Readable
      <4>1. WritesInto(n, frames) /\ frames \in SUBSET Given(n) /\ \A v \in frames : v.form \in Writable
        BY <1>5, <3>1 DEF RunDataframeStep, Writable
      <4> QED
        BY <2>1, <4>1, WritesNear
    <3>2. CASE ~\A v \in Given(n) : v.form \in Readable
      BY <1>5, <3>2, WrittenStays DEF RunDataframeStep
    <3> QED
      BY <3>1, <3>2
  <2>3. \A form, cell : OwnCell(n, Stored(n, OutputOf(n, form, cell)))
    BY <2>1 DEF OwnCell, OutputOf, Stored, Value, PassesOn
  <2>4. (\E form, cell : Store(n, Stored(n, OutputOf(n, form, cell)))) \/ \E code : Fail(n, code)
    BY <1>5 DEF RunDataframeStep
  <2> QED
    BY <2>2, <2>3, <2>4, <1>0, StoresOwn DEF Fail
<1>6. CASE RunSqlStep(n)
  <2>1. \A form : OwnCell(n, Value(form, "sql", n, Lost(n)))
    BY DEF OwnCell, Value
  <2>2. (\E form : Store(n, Value(form, "sql", n, Lost(n)))) \/ \E code : Fail(n, code)
    BY <1>6 DEF RunSqlStep
  <2>3. written' = written
    BY <1>6 DEF RunSqlStep
  <2> QED
    BY <1>0, <2>1, <2>2, <2>3, StoresOwn, WrittenStays DEF Fail
<1>7. CASE SparkStep(n)
  <2>1. OwnCell(n, SparkOutput(n))
    BY DEF OwnCell, SparkOutput, Value
  <2>2. Store(n, SparkOutput(n)) \/ \E code : Fail(n, code)
    BY <1>7 DEF SparkStep
  <2>3. written' = written
    BY <1>7 DEF SparkStep
  <2> QED
    BY <1>0, <2>1, <2>2, <2>3, StoresOwn, WrittenStays DEF Fail
<1>8. CASE RunSink(n)
  <2>1. written' = written
    BY <1>8 DEF RunSink
  <2>2. OwnCell(n, Nothing)
    BY DEF OwnCell, Writable, Nothing, Value, None
  <2>3. Store(n, Nothing) \/ \E code : Fail(n, code)
    BY <1>8 DEF RunSink, RunSparkSink, RunSqlSink, RunStorageSink, Publish, FailSink
  <2> QED
    BY <2>1, <2>2, <2>3, StoresOwn, WrittenStays
<1>9. CASE Retry(n) \/ Skip(n)
  <2>1. written' = written /\ status'[n] # "done"
    BY <1>0, <1>9 DEF Retry, Skip
  <2> QED
    BY <2>1, WrittenStays
<1> QED
  BY <1>1, <1>2, <1>3, <1>4, <1>5, <1>6, <1>7, <1>8, <1>9
  DEF NodeNext, RunStep, RunPortableSparkStep, RunSparkStep

\* Who passes inputs on is settled by the plan.
LEMMA PassesOnStays ==
  ASSUME UNCHANGED <<project, plan>>, NEW m
  PROVE  PassesOn(m)' <=> PassesOn(m)
  BY DEF PassesOn, RunEngine

LEMMA CellNext == DataInv /\ CellInv /\ [Next]_vars => CellInv'
<1> SUFFICES ASSUME DataInv, CellInv, [Next]_vars PROVE CellInv'
  OBVIOUS
<1>1. ASSUME NEW n \in Nodes, NodeNext(n) PROVE CellInv'
  <2>1. UNCHANGED <<project, plan, phase>> /\ phase = "planned" /\ Others(n)
    BY <1>1, NodeEffect DEF Frame
  <2>2. (status'[n] = "done" => OwnCell(n, artifact'[n])) /\ TouchesNear(n)
    BY <1>1, CellEffect
  <2>3. \A m : PassesOn(m)' <=> PassesOn(m)
    BY <2>1, PassesOnStays
  <2>4. ASSUME NEW m \in Nodes, status'[m] = "done" PROVE OwnCell(m, artifact[m])'
    <3>1. OwnCell(m, artifact'[m])
      BY <2>1, <2>2, <2>4 DEF Others, CellInv
    <3> QED
      BY <2>3, <3>1 DEF OwnCell
  <2>5. WritesStayNear'
    <3> SUFFICES ASSUME NEW c \in Nodes, NEW w \in written'[c], w # c
                 PROVE  \/ c \in project.producers[w]
                        \/ \E m \in project.producers[w] : PassesOn(m)
      BY <2>1, <2>3 DEF WritesStayNear
    <3> QED
      BY <2>2 DEF TouchesNear, NearTo, CellInv, WritesStayNear
  <2> QED
    BY <2>1, <2>2, <2>4, <2>5 DEF CellInv, TouchesNear
<1>2. CASE ValidatePipeline \/ PlanPipeline
  <2>1. UNCHANGED <<project, status, artifact, written>> /\ phase # "planned"
    BY <1>2 DEF ValidatePipeline, PlanPipeline, runVars
  <2>2. \A n \in Nodes : status[n] # "done"
    BY <2>1 DEF DataInv, PlanInv
  <2> QED
    BY <2>1, <2>2 DEF CellInv, WritesStayNear
<1>3. CASE UNCHANGED vars
  <2>1. UNCHANGED <<project, plan, phase, status, artifact, written>>
    BY <1>3 DEF vars
  <2>2. \A m : PassesOn(m)' <=> PassesOn(m)
    BY <2>1, PassesOnStays
  <2> QED
    BY <2>1, <2>2 DEF CellInv, OwnCell, WritesStayNear
<1> QED
  BY <1>1, <1>2, <1>3 DEF Next

\* ensure_ownership and the executors that pass inputs on: on every graph, placement
\* and order of execution, a callable that writes in place writes into objects of its
\* producers, unless one of these has passed on what it was given.
THEOREM WritesStayNearHolds == Spec => []WritesStayNear
<1>1. Init => CellInv
  BY DEF Init, CellInv, WritesStayNear, Present
<1>2. CellInv => WritesStayNear
  BY DEF CellInv
<1> QED
  BY <1>1, <1>2, DataInvariant, CellNext, PTL DEF Spec
=============================================================================
