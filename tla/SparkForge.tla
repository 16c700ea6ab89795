------------------------------ MODULE SparkForge ------------------------------
(***************************************************************************)
(* The migration adapter: a SparkForge pipeline document is parsed and     *)
(* turned into a pipeline class, which is closed, validated and exported   *)
(* like one that an author wrote; what the SparkForge engine reported of a *)
(* run is turned into a run report and explained in its terms again.       *)
(*                                                                         *)
(* A document, and what it is adapted with:                                *)
(*   steps                   a list of [form, name, kind, layer, source,   *)
(*                           table, mode]; form: step, nameless or junk    *)
(*   engine, delta           the builder's engine and Delta operations     *)
(*   capabilities, strict    of the Spark plugin; is the spec to be run?   *)
(***************************************************************************)
EXTENDS Declaration

CONSTANTS
  Documents,
  Payloads,     \* results of runs: [status, mode, steps, quality, tables, errors, records]
  Mentions      \* the words fail, error, skip, cancel that an unknown status has in it

VARIABLES
  adapted,  \* [outcome, spec, errors, layer, intents]
  report    \* of the run result that was adapted last

svars == <<adapted, report>>

Row == "Row"
ASSUME SparkForgeAssumption ==
  /\ Row \in Contract
  /\ \A d \in Documents : \A i \in DOMAIN d.steps :
       d.steps[i].form = "step" => d.steps[i].name # None

(***************************************************************************)
(* Parsing.  What has no name or is no record is dropped; the error that   *)
(* goes with it is only in parse's list, which adapt_pipeline never sees.  *)
(***************************************************************************)
TransformKind == {"silver_transform", "gold_transform"}
LayerKind == {"bronze", "silver", "gold"}

ParsedStep(item) ==
  [item EXCEPT !.kind = IF @ \in TransformKind \cup {"bronze_rules"} THEN @ ELSE "unknown",
               !.layer = IF @ \in LayerKind THEN @ ELSE "bronze"]
ParsedSteps(d) ==
  LET named == SelectSeq(d.steps, LAMBDA item : item.form = "step")
  IN  [i \in DOMAIN named |-> ParsedStep(named[i])]

NamesOf(steps) == {steps[i].name : i \in DOMAIN steps}

(***************************************************************************)
(* Validation of the spec                                                  *)
(***************************************************************************)
\* The step that a name is last given to, and the names met by following sources.
StepNamed(steps, n) == steps[CHOOSE i \in DOMAIN steps :
  steps[i].name = n /\ \A j \in DOMAIN steps : steps[j].name = n => j <= i]
Follow(steps, n) ==
  LET Next1(m) == IF m \in NamesOf(steps) THEN StepNamed(steps, m).source ELSE None
      walk[i \in 0..Len(steps)] == IF i = 0 THEN n ELSE Next1(walk[i - 1])
  IN  walk
\* How many steps are read, directly or not; more than there are on a cycle.
Depth(steps, n) ==
  LET walk == Follow(steps, n) IN Cardinality({i \in DOMAIN walk : walk[i] \in NamesOf(steps)})

ValidateSpec(steps) ==
  {code \in {"PMSF304", "PMSF305", "PMSF306"} :
     CASE code = "PMSF304" -> steps = <<>>
       [] code = "PMSF305" -> Cardinality(NamesOf(steps)) # Len(steps)
       [] code = "PMSF306" -> \E n \in NamesOf(steps) : Depth(steps, n) > Len(steps)}

DeltaOperation == {"merge", "optimize", "vacuum", "history", "time_travel"}
\* A missing capability is a warning only when the spec is just planned.
DeltaErrors(d) ==
  {code \in {"PMSF321", "PMSF322", "PMSF323"} :
     CASE code = "PMSF321" -> d.delta \ DeltaOperation # {}
       [] code = "PMSF322" -> d.strict /\ d.delta \cap DeltaOperation # {} /\ d.capabilities = None
       [] code = "PMSF323" -> d.strict /\ d.delta \cap DeltaOperation # {}
                              /\ d.capabilities \notin {None, "spark_delta"}}

\* Mutant of TopoOrder: the order of the document.
AsDeclared(steps) == steps
\* Kahn's algorithm by levels, a level in the order of the document; what reads
\* a name that no step has is in the first.
TopoOrder(steps) ==
  LET before(i, j) == LET d(k) == Depth(steps, steps[k].name)
                      IN  d(i) < d(j) \/ (d(i) = d(j) /\ i < j)
      order == SetToSortSeq(DOMAIN steps, before)
  IN  [i \in DOMAIN steps |-> steps[order[i]]]

(***************************************************************************)
(* Adaptation: the namespace of a pipeline class, one step after another.  *)
(***************************************************************************)
WriteMode(raw) ==
  CASE raw \in {"append", "merge", "upsert"} -> raw
    [] raw \in {None, "overwrite", "overwrite_partitions"} -> "overwrite"
    [] raw \in {"no_write", "skip"} -> "no_write"
    [] OTHER -> "unsupported"

SinkName(n) == n \o "_out"
TableOr(step, n) == IF step.table = None THEN n ELSE step.table

PassThrough(n) ==
  [id |-> n, inputs |-> [rows |-> Row], outputs |-> [result |-> Port(Row, "valid")]]

\* w: the objects and names so far, errors, raised, layer, intents.
Assigned(w, n, object, layer) ==
  [w EXCEPT !.made = Append(@, object), !.body = Bound(@, n, Len(w.made) + 1, None),
            !.layer = Updated(@, n, layer)]
WithError(w, code) == [w EXCEPT !.errors = @ \cup {code}]
WithIntent(w, step, subject) ==
  [w EXCEPT !.intents = Append(@, [subject |-> subject, step |-> step.name, mode |-> WriteMode(step.mode)])]

Upstream(w, n) == w.made[w.body.key[n]]
ReadsFrom(w, n) ==
  IF Upstream(w, n).kind = "source" THEN Object(w.body.key[n])
  ELSE OutputOf(w.body.key[n], "result")

WithSink(w, step) ==
  LET binding == TableOr(step, SinkName(step.name))
  IN  Assigned(WithIntent(w, step, binding), SinkName(step.name),
               Sink(binding, Row, OutputOf(w.body.key[step.name], "result")), step.layer)

WithTransform(w, step) ==
  LET stepped == Assigned(w, step.name, StepOf(PassThrough(step.name), [rows |-> ReadsFrom(w, step.source)]),
                          step.layer)
      mode == WriteMode(step.mode)
  IN  CASE mode = "unsupported" -> WithError(stepped, "PMSF307")
        [] mode = "no_write" -> WithIntent(stepped, step, TableOr(step, step.name))
        [] OTHER -> WithSink(stepped, step)

Refusal(w, step) ==
  CASE step.kind = "unknown" -> "PMSF303"
    [] step.kind # "unknown" /\ step.source = None -> "PMSF302"
    [] step.kind # "unknown" /\ step.source \notin DOMAIN w.body.key \cup {None} -> "PMSF312"
    [] OTHER -> None

\* A load has no output to read: the adapter does not expect one under a step's name.
AdaptStep(w, step) ==
  IF w.raised THEN w
  ELSE IF step.kind = "bronze_rules"
  THEN Assigned(w, step.name, Source(TableOr(step, step.name), Row), step.layer)
  ELSE IF Refusal(w, step) # None THEN WithError(w, Refusal(w, step))
  ELSE IF Upstream(w, step.source).kind = "sink" THEN [w EXCEPT !.raised = TRUE]
  ELSE WithTransform(w, step)

EmptyNamespace ==
  [made |-> <<>>, body |-> EmptyBody, errors |-> {}, raised |-> FALSE, layer |-> <<>>, intents |-> <<>>]
Namespace(steps) == FoldLeft(AdaptStep, EmptyNamespace, TopoOrder(steps))

NoAdaptation == [outcome |-> None, spec |-> <<>>]
Adaptation(outcome, d, w) ==
  [outcome |-> outcome, source |-> d, spec |-> ParsedSteps(d), errors |-> w.errors,
   layer |-> w.layer, intents |-> w.intents]

NothingDeclared == phase = "body" /\ made = <<>> /\ base = EmptyBody /\ adapted = NoAdaptation
AdaptPipeline(d) ==
  LET steps == ParsedSteps(d)
      early == IF ValidateSpec(steps) # {} THEN ValidateSpec(steps) ELSE DeltaErrors(d)
      w == IF early # {} THEN [EmptyNamespace EXCEPT !.errors = early] ELSE Namespace(steps)
  IN  /\ NothingDeclared
      /\ IF w.raised \/ w.errors # {}
         THEN /\ adapted' = Adaptation(IF w.raised THEN "raised" ELSE "refused", d, w)
              /\ phase' = "unadapted" /\ UNCHANGED <<made, own>>
         ELSE /\ adapted' = Adaptation("adapted", d, w)
              /\ made' = w.made /\ own' = w.body /\ UNCHANGED phase
      /\ UNCHANGED <<twists, base, graph, verdict, doc, exported, report>>

\* Mutant of WriteIntentAt: an intent is kept under its table only.
IntentOfTable(intents, n) ==
  LET named == SelectSeq(intents, LAMBDA i : i.subject = n)
  IN  IF named = <<>> THEN None ELSE Last(named).mode
\* enrich_plan: what the plan's write_intents have for a node.
WriteIntentAt(intents, n) ==
  LET named == SelectSeq(intents, LAMBDA i : n \in {i.subject, SinkName(i.step), i.step})
  IN  IF named = <<>> THEN None ELSE Last(named).mode

(***************************************************************************)
(* The profile of the adapted pipeline, and what a plan chooses with it.   *)
(***************************************************************************)
ProfileOf(d, requires) ==
  LET spark == d.engine \in {"spark", "pyspark", "delta"}
      sql == d.engine \in {"sql", "postgres", "postgresql"}
  IN  [spark |-> IF spark THEN "pyspark" ELSE None, sql |-> IF sql THEN "sql" ELSE None,
       dataframe |-> IF spark \/ sql THEN None ELSE "local",
       policy |-> "prefer", compilers |-> {}, strict |-> FALSE, requires |-> requires,
       overrides |-> [n \in Range(Names) |-> None]]
\* Mutant of AdaptedProfile: that Delta is needed is not passed on.
UndemandingProfile(d) == ProfileOf(d, {})
\* Delta is required of the plugin by the engine, and by operations that were not
\* checked before.
AdaptedProfile(d) ==
  ProfileOf(d, IF d.engine = "delta" \/ (d.delta # {} /\ ~d.strict) THEN {"spark_delta"} ELSE {})

Families == [local |-> "local", pyspark |-> "spark", sql |-> "sql"]
Planner == INSTANCE Planning WITH Nodes <- Range(Names), Family <- Families, Named <- DOMAIN Families

\* The error of planning a step, with the Spark engine that is registered and what it
\* supports.  A passthrough has an implementation for local and one for pyspark.
PlannedStep(d, registered) ==
  LET n == Names[1]
      profile == AdaptedProfile(d)
      chosen == Planner!SelectImplementation(
        [profile |-> profile,
         step |-> n :> [native |-> {"local", "pyspark"}, registry |-> {}, portable |-> FALSE,
                        accepts |-> {}]], n)
      spark == {profile.spark, chosen.engine} \cap {"pyspark"}
  IN  CASE chosen.error # None -> chosen.error
        [] chosen.error = None /\ ~(spark \subseteq registered) -> "PMPLAN414"
        [] chosen.error = None /\ {} # spark /\ spark \subseteq registered
             /\ ~(profile.requires \subseteq registered) -> "PMPLAN415"
        [] OTHER -> None

(***************************************************************************)
(* Run results                                                             *)
(***************************************************************************)
RunStatus == {"pending", "running", "succeeded", "failed", "cancelled", "timed_out", "partial"}
StepStatus == {"pending", "ready", "running", "succeeded", "failed", "retrying", "skipped",
               "cancelled", "timed_out", "abandoned"}

\* The words that both tables have, and that of the run alone has.
CommonAlias(raw) ==
  CASE raw \in {"ok", "success", "successful", "completed"} -> "succeeded"
    [] raw \in {"error", "failure"} -> "failed"
    [] raw = "canceled" -> "cancelled"
    [] raw = "timeout" -> "timed_out"
    [] OTHER -> raw
RunAlias(raw) ==
  CASE raw = "complete" -> "succeeded"
    [] raw \in {"abort", "aborted"} -> "failed"
    [] raw = "timedout" -> "timed_out"
    [] OTHER -> CommonAlias(raw)

KnownRun(raw) == RunAlias(raw) \in RunStatus
MapRunStatus(raw) == IF KnownRun(raw) THEN RunAlias(raw) ELSE "failed"

MapStepStatus(raw) ==
  LET words == IF raw \in DOMAIN Mentions THEN Mentions[raw] ELSE {}
  IN  CASE raw = "skip" -> "skipped"
        [] raw # "skip" /\ CommonAlias(raw) \in StepStatus -> CommonAlias(raw)
        [] raw # "skip" /\ CommonAlias(raw) \notin StepStatus
             /\ words \cap {"fail", "error"} = {} /\ "skip" \in words -> "skipped"
        [] raw # "skip" /\ CommonAlias(raw) \notin StepStatus
             /\ words = {"cancel"} -> "cancelled"
        [] OTHER -> "failed"

\* Mutant of IntentOf: only the names that SparkForge has for them.
ForeignIntentOf(mode) ==
  CASE mode \in {"initial", "initial_load"} -> "initialize"
    [] mode = "full_refresh" -> "refresh"
    [] mode \in {"validation", "validation_only"} -> "validate"
    [] mode \in {"incremental", "backfill", "replay"} -> mode
    [] OTHER -> "standard"
\* A mode without a counterpart is a standard run.
IntentOf(mode) ==
  CASE mode \in {"initial", "initial_load", "initialize"} -> "initialize"
    [] mode \in {"full_refresh", "refresh"} -> "refresh"
    [] mode \in {"validation", "validation_only", "validate"} -> "validate"
    [] mode \in {"incremental", "backfill", "replay"} -> mode
    [] OTHER -> "standard"

Given(value, default) == IF value = None THEN default ELSE value
NotCounted == 0
Unidentified(a) == a.identity = None

AdaptedSteps(items) ==
  [i \in DOMAIN items |->
     [name |-> Given(items[i].name, "step"),
      id |-> Given(items[i].id, Given(items[i].name, "step")),
      error |-> items[i].error, metadata |-> items[i].rest,
      status |-> MapStepStatus(Given(items[i].status, "succeeded")),
      attempts |-> IF items[i].attempts = NotCounted THEN 1 ELSE items[i].attempts,
      records_out |-> items[i].records_out]]
AdaptedQuality(items) ==
  [i \in DOMAIN items |->
     [node |-> Given(items[i].node, "unknown"), status |-> Given(items[i].status, "passed"),
      checked |-> items[i].checked]]
AdaptedTables(items) ==
  LET kept == SelectSeq(items, LAMBDA a : ~Unidentified(a))
  IN  [i \in DOMAIN kept |-> [identity |-> kept[i].identity, count |-> kept[i].count]]
AdaptedErrors(items) ==
  [i \in DOMAIN items |-> [code |-> Given(items[i].code, "PMSF500"),
                           severity |-> Given(items[i].severity, "error")]]

SummaryOf(steps) ==
  [status \in {"succeeded", "failed", "skipped", "cancelled"} |->
     Cardinality({i \in DOMAIN steps : steps[i].status = status})]

AdaptRunResult(payload) ==
  LET raw == Given(payload.status, "succeeded")
      unknown == IF KnownRun(raw) THEN <<>> ELSE <<[code |-> "PMSF500", severity |-> "error"]>>
      steps == AdaptedSteps(payload.steps)
  IN  [status |-> MapRunStatus(raw), intent |-> IntentOf(payload.mode), steps |-> steps,
       summary |-> SummaryOf(steps), records |-> payload.records,
       validations |-> AdaptedQuality(payload.quality),
       artifacts |-> AdaptedTables(payload.tables),
       diagnostics |-> unknown \o AdaptedErrors(payload.errors)]

\* report_to_sparkforge_explain: the same in the words of ETLantic.  Of a step not all is
\* told; the records of the run are, under its summary, where adaptation does not look.
Explain(r) ==
  [status |-> r.status, mode |-> r.intent, quality |-> r.validations, tables |-> r.artifacts,
   errors |-> r.diagnostics, records |-> None,
   steps |-> [i \in DOMAIN r.steps |->
                [name |-> r.steps[i].name, id |-> None, status |-> r.steps[i].status,
                 attempts |-> r.steps[i].attempts, records_out |-> r.steps[i].records_out,
                 error |-> None, rest |-> {}]]]

NoReport == [status |-> None]
HasRun == phase = "validated" /\ verdict = "valid" /\ adapted # NoAdaptation /\ report = NoReport
ReportRun(payload) ==
  /\ HasRun
  /\ report' = AdaptRunResult(payload)
  /\ UNCHANGED <<declarationVars, adapted>>

AdaptedInit == DeclarationInit /\ adapted = NoAdaptation /\ report = NoReport

AdaptedNext ==
  \/ adapted = NoAdaptation /\ DeclarationNext /\ UNCHANGED svars
  \/ adapted # NoAdaptation /\ (Close \/ Validate \/ WriteContracts \/ LoadBundle) /\ UNCHANGED svars
  \/ NothingDeclared /\ \E d \in Documents : AdaptPipeline(d)
  \/ HasRun /\ \E payload \in Payloads : ReportRun(payload)

AdaptedSpec == AdaptedInit /\ [][AdaptedNext]_<<declarationVars, svars>>
(***************************************************************************)
(* Properties                                                              *)
(***************************************************************************)
Writes(step) == step.kind \in TransformKind /\ WriteMode(step.mode) # "no_write"
SinksOf(steps) == {SinkName(s.name) : s \in {x \in Range(steps) : Writes(x)}}
Sound(a) ==
  /\ a.spec # <<>> /\ Cardinality(NamesOf(a.spec)) = Len(a.spec)
  /\ \A s \in Range(a.spec) :
       /\ s.kind # "unknown"
       /\ s.kind \in TransformKind => s.source \in NamesOf(a.spec) /\ WriteMode(s.mode) # "unsupported"
  /\ \A some \in SUBSET Range(a.spec) \ {{}} : \E s \in some : s.source \notin {t.name : t \in some}
  /\ a.source.delta \subseteq DeltaOperation
  /\ a.source.delta # {} /\ a.source.strict => a.source.capabilities = "spark_delta"

\* A bronze step cannot be told from another of the same table.
Ambiguous(steps, n) ==
  \E s, t \in Range(steps) :
    /\ s.name = n /\ t.name # n /\ s.kind = "bronze_rules" /\ t.kind = "bronze_rules"
    /\ TableOr(s, s.name) = TableOr(t, t.name)
ReadingEdges(steps) ==
  {[from |-> s.source, port |-> "result", to |-> s.name, at |-> "rows"] :
     s \in {x \in Range(steps) : x.kind \in TransformKind /\ ~Ambiguous(steps, x.source)}}
WritingEdges(steps) ==
  {[from |-> s.name, port |-> "result", to |-> SinkName(s.name), at |-> "input"] :
     s \in {x \in Range(steps) : Writes(x)}}

CanPlan(d, registered) ==
  /\ d.engine \notin {"sql", "postgres", "postgresql"}
  /\ d.engine \in {"spark", "pyspark", "delta"} => "pyspark" \in registered
  /\ d.engine = "delta" \/ (d.engine \in {"spark", "pyspark"} /\ d.delta # {} /\ ~d.strict) =>
       "spark_delta" \in registered

\* Unless the name of a step is also that of the sink of another, a SparkForge spec
\* is adapted exactly when it is sound, in whatever order its steps are written; the
\* class then has its steps and sinks and no others, every step reads what its source
\* names and every table is written by its own step, in that step's mode; it can be
\* planned unless the engine is an SQL one, on Spark with a plugin, and with one that
\* supports Delta if the engine is Delta, or Delta operations were asked for and not
\* checked then.  What is adapted validates unless a bronze step that is read shares its
\* table with another.
AdaptedAsSpecified ==
  adapted # NoAdaptation /\ NamesOf(adapted.spec) \cap SinksOf(adapted.spec) = {} =>
    LET steps == adapted.spec
    IN  /\ adapted.outcome = "adapted" <=> Sound(adapted)
        /\ phase \in {"closed", "validated"} /\ exported = EmptyGraph =>
             /\ DOMAIN graph.node = NamesOf(steps) \cup SinksOf(steps)
             /\ graph.edges = ReadingEdges(steps) \cup WritingEdges(steps)
             /\ \A s \in Range(steps) :
                  /\ adapted.layer[s.name] = s.layer
                  /\ Writes(s) =>
                       /\ graph.node[SinkName(s.name)].asset = TableOr(s, SinkName(s.name))
                       /\ \/ WriteIntentAt(adapted.intents, SinkName(s.name)) = WriteMode(s.mode)
                          \/ \E t \in Range(steps) : t # s /\ t.table = SinkName(s.name)
             /\ \A registered \in {{}, {"pyspark"}, {"pyspark", "spark_delta"}} :
                  PlannedStep(adapted.source, registered) = None
                    <=> CanPlan(adapted.source, registered)
             /\ verdict = "invalid" =>
                  \E s \in Range(steps) : s.kind \in TransformKind /\ Ambiguous(steps, s.source)
WiredAsSpecified == WiredAsWritten /\ AdaptedAsSpecified

\* A report that is explained to SparkForge and adapted again says the same of status,
\* intent, validations, tables and errors, and of every step's name, status, attempts and
\* records; the step has lost its own identity, error and metadata, and the run the count
\* of its records.
Retold(r) ==
  LET Bare(step) == [step EXCEPT !.id = step.name, !.error = None, !.metadata = {}]
  IN  [r EXCEPT !.records = None, !.steps = [i \in DOMAIN r.steps |-> Bare(r.steps[i])]]
DualReporting == report # NoReport => AdaptRunResult(Explain(report)) = Retold(report)
LoadsAndReportsAsWritten == LoadsAsWritten /\ DualReporting
=============================================================================
