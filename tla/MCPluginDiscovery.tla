-------------------------- MODULE MCPluginDiscovery --------------------------
\* One distribution of the project, with a dataframe plugin and a compiler, and one
\* entry point of a third party, before or after it; at most one of them at fault.  Or
\* a Spark plugin of a third party with a session provider of another, or by hand.
EXTENDS PluginDiscovery, Sequences, TLC

Code(name, engine) ==
  [loads |-> TRUE, conforms |-> TRUE, probe |-> TRUE, name |-> name, engine |-> engine,
   version |-> "1"]
Entry(group, name, engine) ==
  [group |-> group, name |-> name, target |-> "t", protocol |-> "1", engine |-> engine]
Dist(name, entries) ==
  [name |-> name, version |-> "1",
   manifest |-> [digest |-> "good", package |-> name, version |-> "1", range |-> {"1"},
                 entries |-> entries]]
Ours == Dist("etlantic-polars",
             <<Entry("dataframe", "polars", "polars"), Entry("compiler", "polars", None)>>)
Polars(group, dist) ==
  [installed |-> TRUE, group |-> group, name |-> "polars", target |-> "t", dist |-> dist,
   code |-> Code("etlantic-polars", "polars")]
OurSite(dist) == <<Polars("dataframe", dist), Polars("compiler", dist)>>

Theirs(group, name, known, engine) ==
  [installed |-> TRUE, group |-> group, name |-> name, target |-> "t",
   dist |-> Dist("acme", <<Entry(group, name, None)>>), code |-> Code(known, engine)]

\* A plugin the program brings along.
Object(group, name, known, engine) ==
  [Theirs(group, name, known, engine) EXCEPT !.installed = FALSE, !.dist = None]

\* A Spark plugin, and after it a session provider of a distribution of its own.
Spark == Theirs("spark", "acme", "acme", "pyspark")
Cloud(known) ==
  [Theirs("provider", "cloud", known, None) EXCEPT
     !.dist = Dist("cloud", <<Entry("provider", "cloud", None)>>)]

ManifestFaults(dist) ==
  {[dist EXCEPT !.manifest = None], [dist EXCEPT !.manifest = Unreadable],
   [dist EXCEPT !.manifest.digest = "wrong"], [dist EXCEPT !.manifest.package = "other"],
   [dist EXCEPT !.manifest.version = "0"], [dist EXCEPT !.manifest.entries = Tail(@)],
   [dist EXCEPT !.manifest.entries[1].target = "u"],
   [dist EXCEPT !.manifest.entries[1].protocol = "2"],
   [dist EXCEPT !.manifest.range = {"2"}],
   [dist EXCEPT !.manifest.range = {"2"}, !.manifest.entries[1].protocol = "2"],
   [dist EXCEPT !.version = "2", !.manifest.version = "2"]}
Faults(ep) ==
  {[ep EXCEPT !.dist = d] : d \in ManifestFaults(ep.dist) \cup {None}} \cup
  {[ep EXCEPT !.code.loads = FALSE], [ep EXCEPT !.code.conforms = FALSE],
   [ep EXCEPT !.code.probe = FALSE], [ep EXCEPT !.code.version = "2"]}

Either(others) ==
  {<<ep>> \o OurSite(Ours) : ep \in others} \cup {OurSite(Ours) \o <<ep>> : ep \in others}
Sound ==
  {Theirs(g, name, known, engine) : g \in {"dataframe", "compiler", "scheduler"},
     name \in {"polars", "acme"}, known \in {"etlantic-polars", "acme"}, engine \in {"polars", "acme"}}
  \cup {Theirs("scheduler", "acme", "polars", None), Theirs("spark", "acme", "acme", "pyspark"),
        Theirs("provider", "acme", "acme", None)}
MCSites ==
  Either(Sound)
    \cup {OurSite(Ours) \o <<ep>> :
            ep \in UNION {Faults(Theirs(g, "acme", "acme", "acme")) : g \in {"dataframe", "scheduler"}}}
    \cup {OurSite(Ours) \o <<Object("dataframe", "polars", known, engine)>> :
            known \in {"etlantic-polars", "acme"}, engine \in {"polars", "acme"}}
    \cup {OurSite(Ours) \o <<[Object("dataframe", "polars", "etlantic-polars", "polars")
                               EXCEPT !.code.version = "2"]>>}
    \cup {OurSite(Ours) \o <<Object("scheduler", "acme", known, "acme")>> : known \in {"acme", "other"}}
    \cup {OurSite(Ours) \o <<Spark, ep>> :
            ep \in UNION {{Cloud(known), [Cloud(known) EXCEPT !.dist = None]} : known \in {"acme", "local"}}}
    \cup {OurSite(Ours) \o <<Object("provider", "acme", "acme", None), Spark>>}
    \cup {OurSite(d) : d \in {Ours} \cup ManifestFaults(Ours)}

Base == [name |-> "prod", mode |-> "production", probe |-> FALSE, dataframe |-> "polars",
         sql |-> None, spark |-> None, session |-> "acme", orchestrator |-> "local",
         allow |-> ("local" :> AnyVersion @@ "etlantic-polars" :> "1")]
MCProfiles ==
  {Base,
   [Base EXCEPT !.allow = ("local" :> AnyVersion @@ "etlantic-polars" :> "1" @@ "acme" :> AnyVersion)],
   [Base EXCEPT !.allow = ("local" :> AnyVersion @@ "polars" :> AnyVersion @@ "acme" :> "1"), !.probe = TRUE],
   [Base EXCEPT !.allow = <<>>],
   [Base EXCEPT !.orchestrator = "acme"],
   [Base EXCEPT !.name = "dev", !.mode = "development", !.allow = <<>>],
   [Base EXCEPT !.name = "dev", !.mode = "development", !.dataframe = "acme"],
   [Base EXCEPT !.name = "dev", !.mode = "development", !.allow = "acme" :> AnyVersion],
   [Base EXCEPT !.name = "dev", !.mode = "development", !.allow = "other" :> AnyVersion],
   [Base EXCEPT !.name = "dev", !.mode = "development", !.allow = <<>>, !.spark = "spark"],
   [Base EXCEPT !.name = "dev", !.mode = "development", !.allow = "acme" :> AnyVersion,
                !.dataframe = "local", !.spark = "pyspark"],
   [Base EXCEPT !.spark = "pyspark",
                !.allow = [n \in {"local", "etlantic-polars", "acme", "cloud"} |-> AnyVersion]]}
MCHandMade == {1, 3}
=============================================================================
