------------------------------ MODULE MCDataflow ------------------------------
(***************************************************************************)
(* Three shapes of a pipeline with two steps, declarations and profiles for*)
(* every branch of the selection, and the providers, request and engines   *)
(* that bring every executor together with every other.  duck is an engine *)
(* of another package: a dataframe engine by what it is capable of.        *)
(***************************************************************************)
EXTENDS Dataflow

MCNodes == {"src", "a", "b", "load"}
MCNamed == {"local", "polars", "pandas", "sql", "pyspark"}
MCFamily == [e \in MCNamed \cup {"duck"} |->
  CASE e \in {"polars", "pandas", "duck"} -> "dataframe"
    [] e = "pyspark" -> "spark"
    [] OTHER -> e]

Kinds == [n \in MCNodes |-> CASE n = "src" -> "source" [] n = "load" -> "sink" [] OTHER -> "step"]
Shape(a, b, load) == [n \in MCNodes |->
  CASE n = "src" -> {} [] n = "a" -> a [] n = "b" -> b [] n = "load" -> load]
Chain == Shape({"src"}, {"a"}, {"b"})
Branch == Shape({"src"}, {"a"}, {"a"})
Direct == Shape({"src"}, {"src"}, {"src"})

Step(native, portable, accepts) ==
  [native |-> native, registry |-> {}, portable |-> portable, accepts |-> accepts]
On(engine) == Step({engine}, FALSE, {})
Everywhere == Step(DOMAIN MCFamily, FALSE, {})
Portable(accepts) == Step({"local"}, TRUE, accepts)

Plain(dataframe, sql, spark, policy, strict) ==
  [dataframe |-> dataframe, sql |-> sql, spark |-> spark, policy |-> policy,
   strict |-> strict, compilers |-> {"polars", "pandas", "pyspark"},
   overrides |-> [n \in MCNodes |-> None]]
Overriding(profile, n, engine) == [profile EXCEPT !.overrides = [@ EXCEPT ![n] = engine]]

Local == Plain(None, None, None, "prefer", TRUE)
Polars == Plain("polars", None, None, "prefer", TRUE)
Profiles ==
  {Local, Polars, Plain("duck", None, None, "native", FALSE),
   Plain("pandas", None, None, "require", TRUE), Plain("polars", None, None, "native", FALSE),
   Plain(None, "sql", None, "prefer", FALSE), Plain(None, None, "pyspark", "prefer", FALSE)}
  \cup {Overriding(p, "b", e) : p \in {Local, Polars}, e \in {"pandas", "sql", "pyspark"}}

Providers(source, sink) == [n \in MCNodes |->
  CASE n = "src" -> source [] n = "load" -> sink [] OTHER -> None]
Bindings == {Providers("memory", "memory"), Providers("sql", "sql"),
             Providers("delta", "delta"), Providers("custom", "custom"),
             Providers("csv", "csv")}
\* A source and a sink that live on other engines.
Crossed == {Providers(source, sink) : source, sink \in {"memory", "sql", "delta"}}
Request(no_write) == [overrides |-> [n \in MCNodes |-> None], no_write |-> no_write]

Project(shape, a, b, profile, provider, request) ==
  [kind |-> Kinds, producers |-> shape, profile |-> profile, provider |-> provider,
   registered |-> DOMAIN MCFamily, request |-> request,
   step |-> [n \in MCNodes |-> IF n = "a" THEN a ELSE IF n = "b" THEN b ELSE Step({}, FALSE, {})]]

Declared ==
  {<<Everywhere, Everywhere>>, <<Everywhere, On("local")>>, <<On("local"), Everywhere>>,
   <<Portable({"polars", "pandas", "pyspark"}), Everywhere>>, <<Portable({}), Everywhere>>,
   <<Step({"local", "pandas"}, FALSE, {}), [On("local") EXCEPT !.registry = {"polars"}]>>,
   <<[Portable({}) EXCEPT !.registry = {"polars"}], Everywhere>>}
\* A portable definition that the SQL compiler supports, under an SQL profile.
SqlProjects ==
  {Project(Chain, Step({"sql"}, TRUE, {"sql"}), On("sql"),
           [Plain(None, "sql", None, policy, FALSE) EXCEPT !.compilers = {"sql"}],
           Providers("sql", "sql"), Request(FALSE)) : policy \in {"prefer", "require", "native"}}

\* Three steps on one dataframe engine, the last after the second or after the first.
FrameProjects ==
  {[Project(shape, Everywhere, Everywhere, Plain(engine, None, None, "prefer", TRUE),
            Providers("memory", None), Request(FALSE))
      EXCEPT !.kind["load"] = "step", !.step["load"] = Everywhere] :
     shape \in {Chain, Branch}, engine \in {"pandas", "polars"}}

MCProjects ==
  {Project(shape, ab[1], ab[2], profile, provider, Request(FALSE)) :
     shape \in {Chain, Branch}, ab \in Declared, profile \in Profiles, provider \in Bindings}
  \cup
  {Project(Direct, Everywhere, On("local"), profile, provider, Request(no_write)) :
     profile \in Profiles, provider \in Bindings \cup Crossed, no_write \in BOOLEAN}
  \cup
  {Project(Chain, Everywhere, Everywhere, Polars, provider,
           [Request(FALSE) EXCEPT !.overrides = [@ EXCEPT !["b"] = engine]]) :
     provider \in Bindings, engine \in {"local", "sql"}}
  \cup SqlProjects \cup FrameProjects
=============================================================================
