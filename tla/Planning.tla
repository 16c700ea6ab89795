------------------------------- MODULE Planning -------------------------------
(***************************************************************************)
(* What the planner decides about a declared pipeline: the validation that *)
(* depends on the profile, the implementation and engine of every step, the*)
(* engine of every source and sink, the boundaries at which data must be   *)
(* materialized, and the strategy for every output.  Pure operators over a *)
(* project p:                                                              *)
(*   p.kind, p.producers   the logical graph, one port per node            *)
(*   p.step                per step: the engines with a native callable,   *)
(*                         those with one in the registry only, whether it *)
(*                         has a portable definition, and the engines whose*)
(*                         compiler supports that definition               *)
(*   p.provider            the provider an asset is bound to               *)
(*   p.profile, p.registered   the profile; the engines with capabilities  *)
(* and over e, the engine chosen for every node.                           *)
(***************************************************************************)
EXTENDS Naturals, FiniteSets

CONSTANTS
  Nodes,
  Family,     \* the family an engine's capabilities put it in
  Named       \* the engines the library knows by name

None == "none"
Engine == DOMAIN Family
Policy == {"prefer", "require", "native"}
EngineFamily == {"local", "dataframe", "sql", "spark"}

\* The library's own engines, for the choices it makes by name alone.
BuiltinFamily ==
  [local |-> "local", null |-> "local", polars |-> "dataframe", pandas |-> "dataframe",
   sql |-> "sql", pyspark |-> "spark", spark |-> "spark"]

ASSUME PlanningAssumption ==
  /\ Named \subseteq Engine \cap DOMAIN BuiltinFamily
  /\ {"local", "pyspark", "sql"} \subseteq Named
  /\ \A e \in Engine : Family[e] \in EngineFamily
  /\ \A e \in Named : Family[e] = BuiltinFamily[e]
  /\ None \notin Engine

OfKind(p, kind) == {n \in Nodes : p.kind[n] = kind}
Steps(p) == OfKind(p, "step")
Present(p) == {n \in Nodes : p.kind[n] # None}
Edges(p) == {edge \in Nodes \X Nodes : edge[1] \in p.producers[edge[2]]}
Consumers(p, n) == {c \in Nodes : n \in p.producers[c]}

\* The first that the profile sets, in the order spark, sql, dataframe.
PrimaryEngine(profile) ==
  CASE profile.spark # None -> profile.spark
    [] profile.spark = None /\ profile.sql # None -> profile.sql
    [] profile.spark = None /\ profile.sql = None /\ profile.dataframe # None -> profile.dataframe
    [] OTHER -> "local"
Overridden(p, n) == p.profile.overrides[n] # None
RequestedEngine(p, n) ==
  IF Overridden(p, n) THEN p.profile.overrides[n] ELSE PrimaryEngine(p.profile)

(***************************************************************************)
(* Validation: the capability phase and, when the policy asks for          *)
(* implementations, the policy phase.  The engine the second looks at is   *)
(* not the primary one.                                                    *)
(***************************************************************************)
ValidatedEngine(p, n) ==
  CASE Overridden(p, n) -> p.profile.overrides[n]
    [] ~Overridden(p, n) /\ p.profile.dataframe # None -> p.profile.dataframe
    [] OTHER -> "local"

HasImplementation(p, n) ==
  LET step == p.step[n]
      engine == ValidatedEngine(p, n)
      portable == step.portable /\ p.profile.policy # "native" /\ engine # "local"
      compiled == engine \in p.profile.compilers
  IN  \/ portable /\ compiled /\ p.profile.policy = "prefer"
      \/ portable /\ compiled /\ engine \in step.accepts
      \/ engine \in step.native /\ ~(portable /\ p.profile.policy = "require")

Valid(p) ==
  /\ PrimaryEngine(p.profile) \in p.registered
  /\ p.profile.strict => \A n \in Steps(p) : HasImplementation(p, n)

(***************************************************************************)
(* _select_implementations: [error, engine, kind] for a step.              *)
(***************************************************************************)
Chosen(engine, kind) == [error |-> None, engine |-> engine, kind |-> kind]
Refused(code) == [error |-> code, engine |-> None, kind |-> None]
Sole(engines) == CHOOSE e \in engines : TRUE

\* The native implementation of the requested engine, or the only one there is
\* unless the profile named an engine for this step; otherwise what is left.
NativeOr(p, n, available, otherwise) ==
  LET requested == RequestedEngine(p, n)
      native == p.step[n].native
  IN  CASE requested \in available -> Chosen(requested, "native")
        [] requested \notin available /\ Cardinality(native) = 1 /\ ~Overridden(p, n) ->
             Chosen(Sole(native), "native")
        [] requested \notin available /\ Cardinality(native) > 1 -> Refused("PMPLAN302")
        [] OTHER -> otherwise

\* Mutant of NativeFallback: the requested engine, whether it has a callable or not.
PhantomFallback(p, n) == Chosen(RequestedEngine(p, n), "native")
NativeFallback(p, n) ==
  NativeOr(p, n, p.step[n].native \cup p.step[n].registry, Refused("PMXFORM301"))

\* With no implementation at all the step is planned with one that does not exist.
NativeOrAutopick(p, n) ==
  NativeOr(p, n, p.step[n].native, Chosen(RequestedEngine(p, n), "native"))

FromRegistry(p, n) ==
  LET compiled == RequestedEngine(p, n) \in p.profile.compilers
  IN  /\ RequestedEngine(p, n) \in p.step[n].registry
      /\ \/ p.profile.policy = "native" \/ ~p.step[n].portable
         \/ ~compiled /\ p.profile.policy # "require"

SelectImplementation(p, n) ==
  LET requested == RequestedEngine(p, n)
      portable == p.profile.policy # "native" /\ p.step[n].portable
      compiled == requested \in p.profile.compilers
  IN  CASE FromRegistry(p, n) -> Chosen(requested, "native")
        [] ~FromRegistry(p, n) /\ portable /\ compiled ->
             CASE requested \in p.step[n].accepts -> Chosen(requested, "portable_compiled")
               [] requested \notin p.step[n].accepts /\ p.profile.policy = "require" ->
                    Refused("PMXFORM301")
               [] OTHER -> NativeFallback(p, n)
        [] ~FromRegistry(p, n) /\ portable /\ ~compiled /\ p.profile.policy = "require" ->
             Refused("PMXFORM302")
        [] OTHER -> NativeOrAutopick(p, n)

Selection(p) == [n \in Nodes |-> IF n \in Steps(p) THEN SelectImplementation(p, n)
                                                   ELSE Refused(None)]

\* The engines a plan would use are registered, as far as their names tell.
EnginesAvailable(p, implementation) ==
  LET used == {PrimaryEngine(p.profile)} \cup {implementation[n].engine : n \in Steps(p)}
  IN  \A e \in used : e \in Named /\ Family[e] # "local" => e \in p.registered

(***************************************************************************)
(* Regions, boundaries and output strategies.                              *)
(***************************************************************************)
ProviderEngine(provider) ==
  CASE provider = "delta" -> "pyspark"
    [] provider \in Engine /\ provider # "local" -> provider
    [] provider \in {"memory", "null"} -> "local"
    [] OTHER -> None

\* The engine of a node when only its implementation is looked at.
NodeEngine(p, implementation, n) ==
  IF n \in Steps(p) THEN implementation[n].engine ELSE PrimaryEngine(p.profile)

\* A source or sink runs where its provider lives, else with its neighbour.
ResolvedEngine(p, implementation, n) ==
  LET neighbours == IF p.kind[n] = "source" THEN Consumers(p, n) ELSE p.producers[n]
  IN  CASE n \in Steps(p) -> implementation[n].engine
        [] n \notin Steps(p) /\ ProviderEngine(p.provider[n]) # None -> ProviderEngine(p.provider[n])
        [] n \notin Steps(p) /\ ProviderEngine(p.provider[n]) = None /\ neighbours # {} ->
             NodeEngine(p, implementation, CHOOSE m \in neighbours : TRUE)
        [] OTHER -> PrimaryEngine(p.profile)

FormRegions(p, implementation) == [n \in Nodes |-> ResolvedEngine(p, implementation, n)]

CrossEngine(p, e) == {edge \in Edges(p) : e[edge[1]] # e[edge[2]]}
FanOut(p) == {n \in Nodes : Cardinality(Consumers(p, n)) > 1}
SinkPublication(p) == UNION {p.producers[n] : n \in OfKind(p, "sink")}

\* Only the producers that are lazy dataframe steps have collection points.
CollectionPoints(p, implementation) ==
  {n \in Steps(p) :
     /\ Family[implementation[n].engine] = "dataframe"
     /\ \E c \in Consumers(p, n) :
          p.kind[c] = "sink" \/ NodeEngine(p, implementation, c) # implementation[n].engine}

\* Mutant of Strategy: every output of a step is kept as rows.
DurableStrategy(p, implementation, e, n) ==
  IF p.kind[n] = "source" THEN "external" ELSE "durable"

Strategy(p, implementation, e, n) ==
  LET alike(c) == /\ NodeEngine(p, implementation, c) = NodeEngine(p, implementation, n)
                  /\ e[c] = e[n]
  IN  CASE p.kind[n] = "sink" \/ n \in SinkPublication(p) -> "durable"
        [] p.kind[n] = "source" /\ n \notin SinkPublication(p) -> "external"
        [] p.kind[n] = "step" /\ n \notin SinkPublication(p) \cup FanOut(p)
             /\ Consumers(p, n) # {} /\ (\A c \in Consumers(p, n) : alike(c)) -> "lazy"
        [] OTHER -> "in_memory"

\* Mutant of ShouldCollect: for the sinks only.
CollectForSinks(p, plan, n) == n \in SinkPublication(p)

\* should_collect, for an output of a dataframe step.
ShouldCollect(p, plan, n) ==
  \/ n \in plan.collected \/ n \in SinkPublication(p)
  \/ \E edge \in plan.crossing : edge[1] = n
  \/ plan.strategy[n] \in {"durable", "external"}

BuildPlan(p) ==
  LET implementation == Selection(p)
      engine == FormRegions(p, implementation)
  IN  [implementation |-> implementation, engine |-> engine,
       crossing |-> CrossEngine(p, engine), collected |-> CollectionPoints(p, implementation),
       strategy |-> [n \in Nodes |-> Strategy(p, implementation, engine, n)]]
=============================================================================
