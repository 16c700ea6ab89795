--------------------------- MODULE PluginDiscovery ---------------------------
(***************************************************************************)
(* Which plugins a process finds, trusts, loads and runs.  Entry points of *)
(* the installed distributions are discovered per group, compared with the *)
(* static manifest of their distribution, authorized by the allowlist of a *)
(* profile, probed, imported and registered; planning and validation judge *)
(* the descriptors of a registry, and a run executes what the tables of its*)
(* runtime hold.  A call of a handler is one step: nothing is awaited.     *)
(*                                                                         *)
(* Versions, protocols and targets are compared for equality only, a pin is*)
(* one version or AnyVersion.  That every required capability is supported,*)
(* that a plugin admits the Python and the core installed, and that the    *)
(* pipeline has no other fault, is assumed.                                *)
(***************************************************************************)
EXTENDS Naturals, FiniteSetsExt

CONSTANTS
  Sites,     \* installations: entry points as importlib lists them, and plugins a program
             \* only holds as objects
  Profiles,
  HandMade,  \* indices of the plugins a program may register by itself
  MaxCalls,
  None, AnyVersion, Unreadable

RuntimeGroups == {"dataframe", "sql", "spark", "orchestrator", "scheduler"}
Groups == RuntimeGroups \cup {"provider", "compiler"}
\* The protocol of the installed core for each group.
Core == "1"

\* profile_plugin_key: two profiles that differ in their engines alone have one key.
ProfileKey(p) == [name |-> p.name, mode |-> p.mode, allow |-> p.allow, probe |-> p.probe]

ASSUME PluginDiscoveryAssumption ==
  /\ MaxCalls \in Nat /\ HandMade \subseteq Nat
  /\ None \notin Nat
  /\ \A s \in Sites : DOMAIN s \subseteq Nat \ {0} /\ IsFiniteSet(DOMAIN s)
  /\ \A s \in Sites : \A i \in DOMAIN s :
       /\ s[i].group \in Groups
       /\ s[i].dist # None /\ s[i].dist.manifest \notin {None, Unreadable} =>
            DOMAIN s[i].dist.manifest.entries \subseteq Nat
  /\ \A p \in Profiles :
       None \notin {p, ProfileKey(p)} /\ p.mode \in {"development", "production"}

VARIABLES
  site,      \* chosen once, never written
  runtime,   \* the tables and the registry of a PipelineRuntime, its configured profile
  imported,  \* the entry points whose code this process has executed
  byHand,    \* those the program registered itself, each under an engine
  used,      \* the profiles the process was asked to use
  planned,   \* what planning alone, without a runtime, said of a profile
  outcome,   \* of the last run
  calls
discoveryVars == <<site, runtime, imported, byHand, used, planned, outcome, calls>>

Error(code, who, phase) == [code |-> code, error |-> TRUE, who |-> who, phase |-> phase]
Warning(code, who, phase) == [Error(code, who, phase) EXCEPT !.error = FALSE]
Errors(diags) == {d \in diags : d.error}
Production(p) == p # None /\ p.mode = "production"
\* Mutant of Severity: production is not stricter.
Lenient(p, code, who, phase) == Warning(code, who, phase)
Severity(p, code, who, phase) ==
  IF Production(p) THEN Error(code, who, phase) ELSE Warning(code, who, phase)

(***************************************************************************)
(* Discovery: entry points and manifests                                   *)
(***************************************************************************)
Who(i) == IF site[i].dist = None THEN site[i].name ELSE site[i].dist.name

\* The manifest and the diagnostics of reading it.
LoadManifest(dist, verify) ==
  LET m == dist.manifest
      Refused(d) == [manifest |-> None, diags |-> {d}]
  IN  IF m = None THEN Refused(Error(413, dist.name, "discover"))
      ELSE IF m = Unreadable THEN Refused(Error(410, None, "discover"))
      ELSE IF verify /\ m.digest = "wrong" THEN Refused(Error(411, m.package, "evaluate"))
      ELSE IF m.package # dist.name THEN Refused(Error(414, dist.name, "evaluate"))
      ELSE [manifest |-> m,
            diags |-> IF m.version = dist.version THEN {} ELSE {Error(415, dist.name, "evaluate")}]
ManifestOf(i) ==
  IF site[i].dist = None THEN None ELSE LoadManifest(site[i].dist, TRUE).manifest
\* entry_for: the first entry of the group with the name.
EntryIn(m, i) ==
  LET found == {n \in DOMAIN m.entries :
                  m.entries[n].group = site[i].group /\ m.entries[n].name = site[i].name}
  IN  IF m = None THEN None ELSE IF found = {} THEN None ELSE m.entries[Min(found)]
EntryOf(i) == EntryIn(ManifestOf(i), i)
InRange(m, protocol) == m.range = AnyVersion \/ protocol \in m.range

\* What is wrong with one entry point, and whether that ends its discovery.
Judged(i, read, entry) ==
  LET Skip(code) == [skip |-> TRUE, diags |-> read.diags \cup {Error(code, Who(i), "evaluate")}]
      sound == [skip |-> FALSE, diags |-> read.diags]
  IN  IF read.manifest = None THEN sound
      ELSE IF entry = None THEN Skip(416)
      ELSE IF entry.target # site[i].target THEN Skip(417)
      ELSE IF entry.protocol # None /\ ~InRange(read.manifest, entry.protocol) THEN Skip(418)
      ELSE sound
Examine(i) ==
  IF site[i].dist = None
  THEN [skip |-> FALSE, diags |-> {Warning(419, site[i].name, "discover")}]
  ELSE Judged(i, LoadManifest(site[i].dist, TRUE), EntryOf(i))

InGroup(g) == {i \in DOMAIN site : site[i].installed /\ site[i].group = g}
\* discover_entry_points: of two with one name in a group the second is dropped.
Discover(g) ==
  LET sound == {i \in InGroup(g) : ~Examine(i).skip}
      taken == {i \in sound : \E j \in sound : j < i /\ site[j].name = site[i].name}
  IN  [items |-> sound \ taken,
       diags |-> (UNION {Examine(i).diags : i \in InGroup(g)})
                   \cup {Error(420, site[i].name, "evaluate") : i \in taken}]

\* Mutant of Evaluated: what evaluation found is reported, and nothing is dropped.
Tolerated(found, p) == found
\* In production an item without a manifest is dropped, and so is every item of a
\* distribution, or of a name, that an evaluation error is about.
Evaluated(found, p) ==
  LET missing == {i \in found.items : ManifestOf(i) = None}
      diags == found.diags \cup {Error(413, Who(i), "evaluate") : i \in missing}
      blamed == {d.who : d \in {e \in Errors(diags) : e.phase = "evaluate"}}
      Kept(i) == i \notin missing /\ {Who(i), site[i].name} \cap blamed = {}
  IN  IF Production(p) THEN [items |-> {i \in found.items : Kept(i)}, diags |-> diags] ELSE found

(***************************************************************************)
(* Trust: allowlists and probes                                            *)
(***************************************************************************)
\* Mutant of Admitted: the pin is forgotten.
Named(name, version, allow) == name \in DOMAIN allow
\* plugin_allowed
Admitted(name, version, allow) ==
  name \in DOMAIN allow /\ (allow[name] = AnyVersion \/ (version # None /\ allow[name] = version))

\* The names an entry point is known by before its code is loaded.
StaticNames(i) ==
  {Who(i), site[i].name}
    \cup {m.package : m \in {ManifestOf(i)} \ {None}}
    \cup ({e.engine : e \in {EntryOf(i)} \ {None}} \ {None})
Version(i) == IF site[i].dist = None THEN None ELSE site[i].dist.version
Listed(i, p) == \E name \in StaticNames(i) : Admitted(name, Version(i), p.allow)

\* authorize_plugins: an empty allowlist denies everything in production only.
Authorize(found, p) ==
  LET denied == {i \in found.items : ~Listed(i, p)}
      rejected == {Severity(p, 402, Who(i), "authorize") : i \in denied}
      Trusted(items, more) == [items |-> items, diags |-> found.diags \cup more]
  IN  CASE p = None \/ (DOMAIN p.allow = {} /\ ~Production(p)) -> found
        [] p # None /\ DOMAIN p.allow = {} /\ Production(p) ->
             Trusted({}, {Error(401, "plugin_allowlist", "authorize")})
        [] OTHER -> Trusted(found.items \ denied, rejected)

\* The probe looks the entry point up again, by name, in a process of its own.
ProbeOk(i) ==
  LET first == Min({j \in InGroup(site[i].group) : site[j].name = site[i].name})
  IN  site[first].target = site[i].target /\ site[first].code.probe
Probe(found, p) ==
  LET failed == {i \in found.items : ~ProbeOk(i)}
      diags == {Error(432, site[i].name, "probe") : i \in failed}
                 \cup (IF Production(p) THEN {Error(432, Who(i), "probe") : i \in failed} ELSE {})
  IN  IF p = None \/ ~p.probe THEN found
      ELSE [items |-> IF Production(p) THEN found.items \ failed ELSE found.items,
            diags |-> found.diags \cup diags]

(***************************************************************************)
(* Loading, registration                                                   *)
(***************************************************************************)
Value(dict, key) == IF key \in DOMAIN dict THEN dict[key] ELSE None
Assign(dict, key, i) ==
  [k \in DOMAIN dict \cup {key} |-> IF k = key THEN i ELSE dict[k]]

\* The key functions.  `conforms`: the object has an info, or implements the protocol
\* of compilers; only the key function of compilers looks.
KeyOf(g, i) ==
  LET code == site[i].code
      Said(field) == IF code.conforms /\ code[field] # None THEN code[field] ELSE site[i].name
  IN  CASE g = "compiler" -> site[i].name
        [] g = "provider" -> Said("name")
        [] g = "scheduler" /\ EntryOf(i) # None /\ EntryOf(i).engine # None -> EntryOf(i).engine
        [] OTHER -> Said("engine")
Loads(g, i) == site[i].code.loads /\ (g = "compiler" => site[i].code.conforms)
\* Of several with one key the last is kept, at the place of the first.
Load(g, found, p) ==
  LET ok == {i \in found.items : Loads(g, i)}
      Under(key) == {i \in ok : KeyOf(g, i) = key}
  IN  [loaded |-> [key \in {KeyOf(g, i) : i \in ok} |->
                     [ep |-> Max(Under(key)), at |-> Min(Under(key))]],
       tried |-> found.items,
       diags |-> found.diags \cup {Severity(p, 421, Who(i), "load") : i \in found.items \ ok}]

\* discover_evaluate_authorize_load
Lifecycle(g, p) == Load(g, Probe(Authorize(Evaluated(Discover(g), p), p), p), p)

Builtin == {"local", "null", "env-secrets"}
Stub ==
  [plugins |-> [n \in Builtin |->
      [name |-> n, engine |-> IF n = "env-secrets" THEN "env" ELSE n, version |-> "0", ep |-> None]],
   engines |-> [e \in {"local", "null", "env"} |-> "core"]]

\* What a plugin says of itself; schedulers are engines under their names.
Descriptor(g, key, i) ==
  LET code == site[i].code
  IN  [name |-> code.name, version |-> code.version, ep |-> i,
       engine |-> CASE g = "scheduler" -> code.name
                    [] g # "scheduler" /\ code.engine # None -> code.engine
                    [] OTHER -> key]
\* register_discovered_plugins: a plugin without info ends it.
Infoless(loaded) == {key \in DOMAIN loaded : ~site[loaded[key].ep].code.conforms}
Breaks(g, loaded) == g # "provider" /\ Infoless(loaded) # {}
Reached(loaded) ==
  {key \in DOMAIN loaded : \A b \in Infoless(loaded) : loaded[key].at < loaded[b].at}
\* register_plugin, under the name the plugin gives itself, whatever its group: of two
\* with one name the later.  An engine has the capabilities of the plugin registered last
\* for it, here its group; compilers declare none.
Register(registry, g, loaded) ==
  LET Said(key) == Descriptor(g, key, loaded[key].ep)
      names == {Said(key).name : key \in Reached(loaded)}
      engines == {Said(key).engine : key \in Reached(loaded)}
      Latest(n) == CHOOSE key \in Reached(loaded) :
        /\ Said(key).name = n
        /\ \A k \in Reached(loaded) : Said(k).name = n => loaded[k].at <= loaded[key].at
  IN  [plugins |-> [n \in DOMAIN registry.plugins \cup names |->
                      IF n \in names THEN Said(Latest(n)) ELSE registry.plugins[n]],
       engines |-> IF g = "compiler" THEN registry.engines
                   ELSE [e \in DOMAIN registry.engines \cup engines |->
                           IF e \in engines THEN g ELSE registry.engines[e]]]

(***************************************************************************)
(* The runtime                                                             *)
(***************************************************************************)
TableGroups == Groups \ {"compiler"}
Fresh ==
  [tables |-> [g \in TableGroups |-> <<>>], registry |-> Stub, configured |-> None, diags |-> {}]

SetDefault(table, loaded) ==
  [key \in DOMAIN table \cup DOMAIN loaded |->
     IF key \in DOMAIN table THEN table[key] ELSE loaded[key].ep]
RegisteredAll(found, registry) ==
  LET With(reg, g) == Register(reg, g, found[g].loaded)
      data == With(With(With(registry, "dataframe"), "sql"), "spark")
  IN  With(With(With(data, "orchestrator"), "scheduler"), "compiler")
FoundDiags(found) ==
  (UNION {found[g].diags : g \in Groups})
    \cup {Error(421, g, "load") : g \in {h \in Groups : Breaks(h, found[h].loaded)}}
\* The loops over what was found assign to `key`, the key of the profile too.
LastKey(p, found) ==
  LET order == <<"dataframe", "sql", "spark", "provider", "orchestrator", "scheduler">>
      filled == {n \in DOMAIN order : DOMAIN found[order[n]].loaded # {}}
      loaded == found[order[Max(filled)]].loaded
  IN  IF filled = {} THEN ProfileKey(p)
      ELSE [plugin |-> CHOOSE key \in DOMAIN loaded :
                         \A k \in DOMAIN loaded : loaded[k].at <= loaded[key].at]
Configured(rt, p, found) ==
  [tables |-> [g \in TableGroups |-> SetDefault(rt.tables[g], found[g].loaded)],
   registry |-> RegisteredAll(found, rt.registry),
   configured |-> LastKey(p, found),
   diags |-> FoundDiags(found)]
\* ensure_plugins_for_profile
Ensured(rt, p) ==
  IF rt.configured = ProfileKey(p) THEN rt
  ELSE Configured(rt, p, [g \in Groups |-> Lifecycle(g, p)])
TriedBy(rt, p) ==
  IF rt.configured = ProfileKey(p) THEN {} ELSE UNION {Lifecycle(g, p).tried : g \in Groups}

(***************************************************************************)
(* Planning and validation                                                 *)
(***************************************************************************)
NonEngine == {"local", "null"}
Primary(p) == CASE p.spark # None -> p.spark
                [] p.spark = None /\ p.sql # None -> p.sql
                [] OTHER -> p.dataframe
Family(p) == CASE p.spark # None -> "spark"
               [] p.spark = None /\ p.sql # None -> "sql"
               [] OTHER -> "dataframe"
\* The groups planning asks for.
Asked(p) ==
  LET data == p.dataframe \notin NonEngine
      sql == p.sql # None /\ p.sql \notin NonEngine
      spark == p.spark # None
  IN  (IF data THEN {"dataframe", "compiler"} ELSE {}) \cup (IF sql THEN {"sql"} ELSE {})
        \cup (IF spark THEN {"spark", "compiler"} ELSE {})
\* Without a registry of its own a context always discovers; what it asks for is what
\* a stub lacks.
NeedsDiscovery(p, registry) ==
  \/ p.dataframe \notin NonEngine /\ p.dataframe \notin DOMAIN registry.engines
  \/ p.sql # None /\ p.sql \notin NonEngine /\ p.sql \notin DOMAIN registry.engines
  \/ /\ p.spark # None /\ p.spark \notin DOMAIN registry.engines
     /\ ~(p.spark \in {"pyspark", "spark"} /\ DOMAIN registry.engines \cap {"pyspark", "spark"} # {})

\* The groups, in the order dataframe, sql, spark, compiler, up to the first whose
\* registration raises.
UpToBroken(asked, found) ==
  LET position == [dataframe |-> 1, sql |-> 2, spark |-> 3, compiler |-> 4]
  IN  {g \in asked : \A b \in asked :
         Breaks(b, found[b].loaded) => position[g] <= position[b]}
\* PlanningContext.create.  An exception leaves it: of a registration, or because what
\* a scheduler declares cannot be asked whether it supports a capability.
ContextOf(p, registry, asked, found) ==
  LET groups == UpToBroken(asked, found)
      With(reg, g) == IF g \in groups THEN Register(reg, g, found[g].loaded) ELSE reg
      after == With(With(With(With(registry, "dataframe"), "sql"), "spark"), "compiler")
      Unaskable == \E e \in {p.dataframe, p.sql, p.spark} \cap DOMAIN after.engines :
                     e # "local" /\ after.engines[e] = "scheduler"
  IN  [registry |-> after,
       diags |-> UNION {found[g].diags : g \in groups},
       tried |-> UNION {found[g].tried : g \in groups},
       failed |-> Unaskable \/ \E g \in groups : Breaks(g, found[g].loaded)]
Context(p, registry) ==
  LET asked == IF NeedsDiscovery(p, registry) THEN Asked(p) ELSE {}
  IN  ContextOf(p, registry, asked, [g \in asked |-> Lifecycle(g, p)])

\* discover_transform_compilers_for_profile: whoever wants compilers discovers them again.
Compilers(p) == Lifecycle("compiler", p)
\* phase_plugin_trust: the descriptors and compilers of the engines of the profile.
EnginesOf(p) == {p.dataframe, p.sql, p.spark, p.orchestrator} \ {None}
Selected(p, registry) ==
  LET loaded == Compilers(p).loaded
      Chosen(d) == {d.name, d.engine} \cap EnginesOf(p) # {}
  IN  {d \in {registry.plugins[n] : n \in DOMAIN registry.plugins} : Chosen(d)}
        \cup {Descriptor("compiler", key, loaded[key].ep) : key \in DOMAIN loaded \cap EnginesOf(p)}
\* filter_plugins_by_allowlist, by the names and versions plugins give themselves.
Trust(p, registry) ==
  CASE DOMAIN p.allow = {} /\ Production(p) -> {Error(401, "plugin_allowlist", "trust")}
    [] DOMAIN p.allow = {} /\ ~Production(p) -> {}
    [] OTHER -> {Severity(p, 402, d.name, "trust")
                   : d \in {e \in Selected(p, registry) : ~Admitted(e.name, e.version, p.allow)}}
\* phase_capability: the default capabilities are those of the family of the profile.
Supported(p, registry) ==
  /\ Primary(p) \in DOMAIN registry.engines
  /\ Primary(p) # "local" => registry.engines[Primary(p)] = Family(p)
\* Mutant of Validated: what discovery reported is not looked at.
Unheard(p, context) ==
  /\ ~context.failed
  /\ Supported(p, context.registry)
  /\ Errors(Trust(p, context.registry)) = {}
\* What planning was told by discovery, and the phases of validation.
Validated(p, context) ==
  /\ ~context.failed
  /\ Errors(context.diags) = {}
  /\ Supported(p, context.registry)
  /\ Errors(Trust(p, context.registry)) = {}

(***************************************************************************)
(* A run                                                                   *)
(***************************************************************************)
\* The part the core brings itself.
Own == 0
Aliases(engine) == CASE engine = "spark" -> <<"spark", "pyspark">>
                     [] engine = "pyspark" -> <<"pyspark", "spark">>
                     [] OTHER -> <<engine>>
Lookup(dict, engine) ==
  LET known == {n \in DOMAIN Aliases(engine) : Aliases(engine)[n] \in DOMAIN dict}
  IN  IF known = {} THEN None ELSE dict[Aliases(engine)[Min(known)]]

\* resolve_dataframe_plugin and its kin: what the tables lack is discovered again,
\* with no profile.
Open(p, tables) == Primary(p) \notin NonEngine /\ Lookup(tables[Family(p)], Primary(p)) = None
Resolved(p, tables) ==
  CASE Primary(p) \in NonEngine -> Own
    [] Primary(p) \notin NonEngine /\ Open(p, tables) ->
         Lookup(SetDefault(<<>>, Lifecycle(Family(p), None).loaded), Primary(p))
    [] OTHER -> Lookup(tables[Family(p)], Primary(p))
\* resolve_scheduler: airflow is a compile target.
Scheduler(p, tables) ==
  CASE p.orchestrator = "local" -> Own
    [] p.orchestrator = "airflow" -> None
    [] OTHER -> Value(tables["scheduler"], p.orchestrator)
\* A portable step is planned with the compiler found under the engine, and executed
\* by the first of its name and version, which must be for that engine.
Compiler(p) ==
  LET Same(i, j) == /\ site[i].code.name = site[j].code.name
                    /\ site[i].code.version = site[j].code.version
      First(loaded, chosen) == CHOOSE key \in DOMAIN loaded :
        /\ Same(loaded[key].ep, chosen)
        /\ \A k \in DOMAIN loaded : Same(loaded[k].ep, chosen) => loaded[key].at <= loaded[k].at
      Fitting(i) == IF site[i].code.engine \in {None, Primary(p)} THEN i ELSE None
      From(loaded) ==
        IF Primary(p) \notin DOMAIN loaded THEN Own
        ELSE Fitting(loaded[First(loaded, loaded[Primary(p)].ep)].ep)
  IN  IF Family(p) = "sql" THEN Own ELSE From(Compilers(p).loaded)
\* resolve_spark_provider: what the table lacks is discovered again, with no profile.
Provider(name, table) ==
  LET loaded == Lifecycle("provider", None).loaded
  IN  CASE name \in DOMAIN table -> table[name]
        [] name \notin DOMAIN table /\ name \in DOMAIN loaded -> loaded[name].ep
        [] OTHER -> None
\* Mutant of Session: nothing stands in.
NamedSession(p, table) == IF Family(p) = "spark" THEN Provider(p.session, table) ELSE Own
\* _ensure_spark_session: the local provider stands in for one that is not there.
Session(p, table) ==
  CASE Family(p) # "spark" -> Own
    [] Family(p) = "spark" /\ Provider(p.session, table) # None -> Provider(p.session, table)
    [] OTHER -> Provider("local", table)
\* A session is acquired from the provider of the profile, and whatever it came from is
\* released to the local provider.
SessionTried(p, tables) ==
  IF /\ Family(p) = "spark" /\ {Scheduler(p, tables), Resolved(p, tables)} \cap {None} = {}
     /\ ~({p.session, "local"} \subseteq DOMAIN tables["provider"])
  THEN Lifecycle("provider", None).tried ELSE {}
Parts(p, tables) ==
  {Scheduler(p, tables), Resolved(p, tables), Session(p, tables["provider"]), Compiler(p)}

DiscoveryInit ==
  /\ site \in Sites
  /\ runtime = Fresh /\ imported = {} /\ byHand = {} /\ used = {}
  /\ planned = [p \in Profiles |-> "unknown"]
  /\ outcome = [verdict |-> "none", profile |-> None, parts |-> {}, first |-> FALSE]
  /\ calls = 0
Call(p) == calls < MaxCalls /\ calls' = calls + 1 /\ used' = used \cup {p} /\ UNCHANGED site

\* runtime.ensure_plugins_for_profile, called by the program.
Ensure(p) ==
  /\ Call(p)
  /\ runtime' = Ensured(runtime, p)
  /\ imported' = imported \cup TriedBy(runtime, p)
  /\ UNCHANGED <<byHand, planned, outcome>>

\* Pipeline.validate or plan, without a runtime.
Plan(p) ==
  /\ Call(p)
  /\ \E context \in {Context(p, Stub)} :
       /\ planned' = [planned EXCEPT ![p] =
                        IF Validated(p, context) THEN "accepted" ELSE "rejected"]
       /\ imported' = imported \cup context.tried
                       \cup IF context.failed THEN {} ELSE Compilers(p).tried
  /\ UNCHANGED <<runtime, byHand, outcome>>

\* register_spark_provider: the registry is told nothing.
RegisterProvider(i, name) ==
  /\ calls < MaxCalls /\ calls' = calls + 1
  /\ site[i].group = "provider" /\ site[i].code.loads
  /\ runtime' = [runtime EXCEPT !.tables["provider"] = Assign(@, name, i)]
  /\ byHand' = byHand \cup {[ep |-> i, engine |-> name]}
  /\ imported' = imported \cup {i}
  /\ UNCHANGED <<site, used, planned, outcome>>

\* register_dataframe_plugin, register_scheduler_plugin and the others.
Register1(i, engine) ==
  LET g == site[i].group
      table == Assign(runtime.tables[g], engine, i)
      registry == Register(runtime.registry, g, [key \in {engine} |-> [ep |-> i, at |-> i]])
  IN  /\ calls < MaxCalls /\ calls' = calls + 1
      /\ g \in RuntimeGroups /\ site[i].code.loads /\ site[i].code.conforms
      /\ runtime' = [runtime EXCEPT !.tables[g] = table, !.registry = registry]
      /\ byHand' = byHand \cup {[ep |-> i, engine |-> engine]}
      /\ imported' = imported \cup {i}
      /\ UNCHANGED <<site, used, planned, outcome>>

\* arun_pipeline: an error of any group, of a plugin nobody asked for too, refuses it.
Executed(p, rt, context, parts) ==
  LET refused == Errors(rt.diags) # {}
      verdict == CASE refused -> "refused"
                   [] ~refused /\ ~Validated(p, context) -> "rejected"
                   [] ~refused /\ Validated(p, context) /\ None \in parts -> "failed"
                   [] OTHER -> "ran"
      compilers == IF refused \/ context.failed THEN {} ELSE Compilers(p).tried
      opened == IF outcome'.verdict \in {"ran", "failed"} /\ Scheduler(p, rt.tables) # None
                   /\ Open(p, rt.tables)
                THEN Lifecycle(Family(p), None).tried ELSE {}
      providers == IF outcome'.verdict \in {"ran", "failed"} THEN SessionTried(p, rt.tables) ELSE {}
  IN  /\ runtime' = IF refused THEN rt
                    ELSE [rt EXCEPT !.registry = context.registry]
      /\ \E v \in {verdict} :
           outcome' = [verdict |-> v, profile |-> p, first |-> runtime = Fresh,
                       parts |-> IF v = "ran" THEN parts \ {Own} ELSE {}]
      /\ imported' = imported \cup TriedBy(runtime, p) \cup compilers \cup opened
                      \cup providers \cup IF refused THEN {} ELSE context.tried
Run(p) ==
  /\ Call(p)
  /\ \E rt \in {Ensured(runtime, p)} :
       Executed(p, rt, Context(p, rt.registry), Parts(p, rt.tables))
  /\ UNCHANGED <<byHand, planned>>

DiscoveryNext ==
  \/ \E p \in Profiles : Ensure(p) \/ Plan(p) \/ Run(p)
  \/ \E i \in HandMade \cap DOMAIN site :
       \E engine \in {site[i].name, site[i].code.engine} \ {None} :
         Register1(i, engine) \/ RegisterProvider(i, engine)
DiscoverySpec == DiscoveryInit /\ [][DiscoveryNext]_discoveryVars

(***************************************************************************)
(* The compatibility report                                                *)
(***************************************************************************)
\* evaluate_manifest: every protocol the manifest names is judged by the protocol of
\* the core, and the package by the names of the allowlist.
Compatible(m, allow) ==
  /\ \A n \in DOMAIN m.entries : m.entries[n].protocol # None => InRange(m, Core)
  /\ DOMAIN allow # {} => m.package \in DOMAIN allow
\* evaluate_installed_plugin does not verify the digest.
Report(dist, allow) ==
  LET m == LoadManifest(dist, FALSE).manifest IN m # None /\ Compatible(m, allow)

(***************************************************************************)
(* Properties                                                              *)
(***************************************************************************)
\* The manifest of its distribution declares the entry point as it is installed, with
\* a protocol of its range.
Vouched(i) ==
  LET d == site[i].dist
      m == d.manifest
  IN  /\ d # None /\ m \notin {None, Unreadable}
      /\ m.digest # "wrong" /\ m.package = d.name /\ m.version = d.version
      /\ \E n \in DOMAIN m.entries :
           /\ m.entries[n].group = site[i].group /\ m.entries[n].name = site[i].name
           /\ m.entries[n].target = site[i].target
           /\ m.entries[n].protocol # None => InRange(m, m.entries[n].protocol)
Pinned(name, version, allow) ==
  name \in DOMAIN allow /\ allow[name] \in {AnyVersion, version}
ListedIn(i, p) ==
  \E name \in StaticNames(i) : Pinned(name, Version(i), p.allow)

\* What a production run may execute of the plugins a program registered by hand: those
\* whose own name and version the allowlist admits, those trust does not look at, for
\* neither their name nor the engine they say they are is an engine of the profile, or
\* the registry was never told of them (session providers), and those another plugin can
\* have replaced, with its name, in the registry.
Overlooked(i, p) ==
  \E h \in byHand :
    LET said == Descriptor(site[i].group, h.engine, i)
    IN  /\ h.ep = i
        /\ \/ Pinned(said.name, said.version, p.allow)
           \/ {said.name, said.engine} \cap EnginesOf(p) = {}
           \/ site[i].group = "provider"
           \/ \E j \in DOMAIN site \ {i} : site[j].code.name = said.name
\* Whatever a runtime was used for before, the plugins a production run executes are
\* vouched for by the manifest of their distribution and admitted, with their version,
\* by the allowlist of that profile; or the program registered them by hand.
ProductionUsesAllowed ==
  outcome.verdict = "ran" /\ Production(outcome.profile) =>
    \A i \in outcome.parts :
      (site[i].installed /\ Vouched(i) /\ ListedIn(i, outcome.profile))
        \/ Overlooked(i, outcome.profile)

\* Code is imported only when one of the profiles in use admits it, with two exceptions.
\* What the program registered by hand opens its group, when the engine is not the name it
\* was given; and outside production a Spark run may import every session provider.
LoadedIsAuthorized ==
  \A i \in imported \ {h.ep : h \in byHand} :
    \/ \E p \in used : \/ ~Production(p) /\ DOMAIN p.allow = {}
                       \/ ListedIn(i, p) /\ (Production(p) => Vouched(i))
    \/ \E h \in byHand : /\ site[h.ep].group = site[i].group /\ site[i].group # "provider"
                        /\ site[h.ep].code.engine # h.engine
    \/ site[i].group = "provider" /\ \E p \in used : ~Production(p) /\ Family(p) = "spark"

\* What planning accepts a fresh runtime runs, when the groups planning does not ask
\* for are empty, no two engines have compilers of one name and version, and a Spark run
\* finds a session provider, which planning never looks for.
PlanPredictsRun ==
  LET p == outcome.profile
      Quiet == \A i \in DOMAIN site :
        site[i].installed => site[i].group \in Asked(p) \cup {"provider"}
      Served == /\ Errors(Lifecycle("provider", p).diags) = {}
                /\ Family(p) = "spark" =>
                     {p.session, "local"} \cap DOMAIN Lifecycle("provider", None).loaded # {}
      Twins == \E i, j \in DOMAIN site :
        /\ site[i].group = "compiler" /\ site[j].group = "compiler" /\ site[i].name # site[j].name
        /\ site[i].code.name = site[j].code.name /\ site[i].code.version = site[j].code.version
  IN  outcome.first /\ p # None =>
        (p.orchestrator = "local" /\ planned[p] = "accepted" /\ Quiet /\ Served /\ ~Twins
           => outcome.verdict = "ran")

\* What a production run would load, the compatibility report passes, unless another
\* name than that of the package is listed, or the core is not in the range of the
\* manifest; what the report passes is loaded unless it is a fault the report does not
\* look for: of the manifest, of the pin, of the probe, or a name taken.  Nothing of this
\* changes after the start.
ReportAgrees ==
  calls = 0 => \A p \in Profiles, i \in DOMAIN site :
    LET d == site[i].dist
        tried == i \in Lifecycle(site[i].group, p).tried
        Siblings == {j \in DOMAIN site : site[j].group = site[i].group}
    IN  Production(p) /\ DOMAIN p.allow # {} /\ d # None /\ site[i].installed =>
          /\ tried => \/ Report(d, p.allow)
                      \/ d.name \notin DOMAIN p.allow
                      \/ d.manifest \notin {None, Unreadable} /\ ~InRange(d.manifest, Core)
          /\ Report(d, p.allow) => \/ tried
                                   \/ ~Vouched(i) \/ ~ListedIn(i, p)
                                   \/ p.probe /\ ~site[i].code.probe
                                   \/ \E j \in Siblings \ {i} : site[j].name = site[i].name

\* What a user is told beforehand, by planning or by the report, is what a run does.
ForecastsHold == PlanPredictsRun /\ ReportAgrees
=============================================================================
