---------------------------- MODULE SharedRuntime ----------------------------
(***************************************************************************)
(* What the runs on one PipelineRuntime share, besides its resources       *)
(* (ResourceManager) and its SQL plugin (SqlPublication): the plugin tables*)
(* the lifespan, the artifact store, the Spark session with the plugin it  *)
(* is bound to, and the Prefect scheduler.  The pipeline is one producer,  *)
(* one consumer and one sink; runs begin, suspend and end in any order.    *)
(* A step of this module is what the code does between two awaits.         *)
(***************************************************************************)
EXTENDS Naturals, FiniteSets

CONSTANTS
  Runs,
  Profiles,
  Plugins,    \* the names of all the plugins that are installed
  Found,      \* those that discovery loads for a profile
  ByHand,     \* those that were registered before there was any run
  Settings    \* what a run may be asked for

None == "none"
Hand == "hand"   \* who registered a plugin by hand

\* profile; scheduler: local or prefect; store: given by the caller or the runtime's;
\* spark: the provider the profile names, if any step runs on Spark: the one named local,
\* one of another name, or one that nobody provides; soft: a callback answers CONTINUE
\* when a step fails, or a step middleware does not call on.
ASSUME SharedRuntimeAssumption ==
  /\ Found \in [Profiles -> SUBSET Plugins] /\ ByHand \subseteq Plugins
  /\ Settings \subseteq [profile : Profiles, scheduler : {"local", "prefect"},
                         store : {"own", "runtime"},
                         spark : {None, "local", "named", "unknown"}, soft : BOOLEAN]
  /\ {None, Hand, "runtime"} \cap (Runs \cup Profiles \cup Plugins) = {}
  /\ Profiles \cap Plugins = {} /\ {"pyspark", "local"} \subseteq Plugins

VARIABLES
  setting,     \* chosen once, never written
  pc, met,     \* met: the runs that were under way together with a run
  configured,  \* _configured_profile_key
  plugins,     \* the runtime's tables: the run whose discovery put the plugin, or the
               \* Spark provider, there, or that it was registered by hand
  using,       \* the tables when the run began
  cut,         \* the runs inside whose session the lifespan was shut down
  passed,      \* the runs whose producer was passed over
  stored,      \* per artifact store: whose data is under the producer's name
  consumed,    \* whose data the consumer of a run was given
  open, active,\* the Spark sessions not stopped; the one getOrCreate returns
  handle, owned, bound,  \* _spark_session, the registered provider's _owned, the
               \* registered plugin's _session
  starved,     \* the runs that met a stopped session
  correlation, captured, \* whose map the scheduler, and a run's wave runner, hold
  tasks,       \* per map: whose tasks were entered
  reported     \* prefect_task_correlation in the report of a run

pluginVars == <<configured, plugins, using>>
dataVars == <<passed, stored, consumed>>
sparkVars == <<open, active, handle, owned, bound, starved>>
prefectVars == <<correlation, captured, tasks, reported>>
vars == <<setting, pc, met, cut, pluginVars, dataVars, sparkVars, prefectVars>>

Init ==
  /\ setting \in [Runs -> Settings]
  /\ pc = [r \in Runs |-> "new"] /\ met = [r \in Runs |-> {}] /\ cut = {}
  /\ configured = None /\ plugins = [n \in Plugins |-> IF n \in ByHand THEN Hand ELSE None]
  /\ using = [r \in Runs |-> plugins]
  /\ passed = {} /\ stored = [s \in Runs \cup {"runtime"} |-> None]
  /\ consumed = [r \in Runs |-> None]
  /\ open = {} /\ active = None /\ owned = {} /\ bound = None /\ starved = {}
  /\ handle = [r \in Runs |-> None]
  /\ correlation = None /\ captured = [r \in Runs |-> None]
  /\ tasks = [r \in Runs |-> {}] /\ reported = [r \in Runs |-> {}]

Underway == {r \in Runs : pc[r] \notin {"new", "over"}}
Inside == {r \in Underway : pc[r] # "begun"}
OnPrefect(r) == setting[r].scheduler = "prefect"
OnSpark(r) == setting[r].spark # None
Registered(n) == plugins[n] # None
Move(r, label) == pc' = [pc EXCEPT ![r] = label]

\* Mutant of Merged: the plugins found last replace those in the tables.
Replaced(r, found) == [n \in Plugins |-> IF n \in found THEN r ELSE plugins[n]]
\* setdefault, for every table.
Merged(r, found) ==
  [n \in Plugins |-> IF n \in found /\ plugins[n] = None THEN r ELSE plugins[n]]

\* ensure_plugins_for_profile.  The loops over what was found assign to `key`, so
\* that _configured_profile_key becomes the name of a plugin if there is any.
EnsurePlugins(r) ==
  LET profile == setting[r].profile
      found == Found[profile]
  IN  IF configured = profile
      THEN UNCHANGED <<configured, plugins>>
      ELSE /\ plugins' = Merged(r, found)
           /\ configured' \in IF found = {} THEN {profile} ELSE found

\* arun_pipeline up to the session: nothing is awaited.
Begin(r) ==
  /\ pc[r] = "new"
  /\ EnsurePlugins(r)
  /\ using' = [using EXCEPT ![r] = plugins']
  /\ met' = [o \in Runs |-> CASE o = r -> Underway
                              [] o \in Underway -> met[o] \cup {r}
                              [] OTHER -> met[o]]
  /\ Move(r, "begun")
  /\ UNCHANGED <<setting, cut, dataVars, sparkVars, prefectVars>>

\* Mutant of Fresh: the map is made once, with the scheduler.
KeptMap(r) == IF correlation = None THEN r ELSE correlation
\* _task_correlation = {}
Fresh(r) == r

\* The lifespan starts up and the scheduler is called; Prefect begins a flow.
Enter(r) ==
  /\ pc[r] = "begun"
  /\ IF OnPrefect(r) THEN Move(r, "flow") /\ correlation' = Fresh(r)
                     ELSE Move(r, "running") /\ UNCHANGED correlation
  /\ UNCHANGED <<setting, met, cut, pluginVars, dataVars, sparkVars, captured, tasks, reported>>

\* The flow makes the orchestrator and its wave runner.
Host(r) ==
  /\ pc[r] = "flow"
  /\ captured' = [captured EXCEPT ![r] = correlation]
  /\ Move(r, "running")
  /\ UNCHANGED <<setting, met, cut, pluginVars, dataVars, sparkVars, correlation, tasks, reported>>

\* The wave runner enters the ids of the futures it submits.
Submit(r) ==
  /\ tasks' = IF OnPrefect(r) THEN [tasks EXCEPT ![captured[r]] = @ \cup {r}] ELSE tasks
  /\ UNCHANGED <<correlation, captured, reported>>

\* Mutant of StoreOf: the store of the runtime whenever there is one.
RuntimeStore(r) == "runtime"
StoreOf(r) == IF setting[r].store = "own" THEN r ELSE "runtime"

\* The producer stores its output under step and port; a soft one may be done with and
\* have stored nothing.
Produce(r) ==
  /\ pc[r] = "running"
  /\ \/ /\ stored' = [stored EXCEPT ![StoreOf(r)] = r]
        /\ UNCHANGED passed
     \/ /\ setting[r].soft /\ passed' = passed \cup {r}
        /\ UNCHANGED stored
  /\ Submit(r) /\ Move(r, "produced")
  /\ UNCHANGED <<setting, met, cut, pluginVars, consumed, sparkVars>>

(***************************************************************************)
(* _ensure_spark_session: once per run; the session is also bound to the   *)
(* plugin that is registered.  The provider named local, which also serves *)
(* when nobody provides the name, hands out the session there is, or makes *)
(* one, and is a new object unless one is registered; a provider of another*)
(* name keeps its own.                                                     *)
(***************************************************************************)
EnsureSession(r) ==
  IF handle[r] # None
  THEN UNCHANGED <<open, active, handle, owned, bound>>
  ELSE LET local == setting[r].spark # "named"
           session == IF local /\ active \in open THEN active ELSE r
       IN  /\ open' = open \cup {session}
           /\ active' = IF local THEN session ELSE active
           /\ owned' = IF local /\ Registered("local") THEN owned \cup {r} ELSE owned
           /\ handle' = [handle EXCEPT ![r] = session]
           /\ bound' = IF Registered("pyspark") THEN session ELSE bound

\* The consumer gathers what is stored now, or fails; a Spark step uses the run's own
\* session.
Consume(r) ==
  /\ pc[r] = "produced" /\ stored[StoreOf(r)] # None
  /\ consumed' = [consumed EXCEPT ![r] = stored[StoreOf(r)]]
  /\ Submit(r) /\ Move(r, "consumed")
  /\ IF OnSpark(r)
     THEN /\ EnsureSession(r)
          /\ starved' = IF handle'[r] \in open' THEN starved ELSE starved \cup {r}
     ELSE UNCHANGED sparkVars
  /\ UNCHANGED <<setting, met, cut, pluginVars, passed, stored>>

\* A Spark sink writes with the session its plugin is bound to; a plugin that is made
\* anew, because none is registered, is bound to none, and the write fails.
Write(r) ==
  /\ pc[r] = "consumed"
  /\ Submit(r) /\ Move(r, "written")
  /\ IF OnSpark(r)
     THEN /\ EnsureSession(r) /\ Registered("pyspark") /\ bound' # None
          /\ starved' = IF bound' \in open' THEN starved ELSE starved \cup {r}
     ELSE UNCHANGED sparkVars
  /\ UNCHANGED <<setting, met, cut, pluginVars, dataVars>>

\* Mutant of ReleaseSession: the handle is discarded before it is looked for.
ReleaseNothing(r) ==
  /\ owned' = owned \ {r} /\ handle' = [handle EXCEPT ![r] = None]
  /\ open' = IF r \in owned' THEN open \ {handle[r]} ELSE open
  /\ UNCHANGED <<active, bound, starved>>

\* The end of execute: the session is given to the provider named local, which stops
\* it if the handle is one of its own: a new object, made for want of one that is
\* registered, has none.
ReleaseSession(r) ==
  /\ open' = IF r \in owned THEN open \ {handle[r]} ELSE open
  /\ owned' = owned \ {r} /\ handle' = [handle EXCEPT ![r] = None]
  /\ UNCHANGED <<active, bound, starved>>

\* The run is complete, or is cancelled or fails on the way.
Finish(r) ==
  /\ pc[r] \in {"flow", "running", "produced", "consumed", "written"}
  /\ ReleaseSession(r)
  /\ \/ pc[r] = "written" /\ OnPrefect(r) /\ Move(r, "reporting")
     \/ Move(r, "leaving")
  /\ UNCHANGED <<setting, met, cut, pluginVars, dataVars, prefectVars>>

\* The flow has returned; the scheduler adds the map it has now to the report.
Report(r) ==
  /\ pc[r] = "reporting"
  /\ reported' = [reported EXCEPT ![r] = tasks[correlation]]
  /\ Move(r, "leaving")
  /\ UNCHANGED <<setting, met, cut, pluginVars, dataVars, sparkVars, correlation, captured, tasks>>

\* The session ends: the lifespan is shut down, whoever else is inside.
Leave(r) ==
  /\ pc[r] = "leaving"
  /\ cut' = cut \cup (Inside \ {r})
  /\ Move(r, "over")
  /\ UNCHANGED <<setting, met, pluginVars, dataVars, sparkVars, prefectVars>>

RunNext(r) ==
  \/ Begin(r) \/ Enter(r) \/ Host(r) \/ Produce(r) \/ Consume(r) \/ Write(r)
  \/ Finish(r) \/ Report(r) \/ Leave(r)
Next == \E r \in Runs : RunNext(r)

Spec == Init /\ [][Next]_vars

(***************************************************************************)
(* Properties                                                              *)
(***************************************************************************)
Labels == {"new", "begun", "flow", "running", "produced", "consumed", "written",
           "reporting", "leaving", "over"}
Maybe(S) == S \cup {None}

\* Every variable has its type.
TypeOK ==
  /\ setting \in [Runs -> Settings] /\ pc \in [Runs -> Labels]
  /\ met \in [Runs -> SUBSET Runs] /\ cut \subseteq Runs
  /\ configured \in Maybe(Profiles \cup Plugins)
  /\ plugins \in [Plugins -> Maybe(Runs \cup {Hand})]
  /\ using \in [Runs -> [Plugins -> Maybe(Runs \cup {Hand})]] /\ passed \subseteq Runs
  /\ stored \in [Runs \cup {"runtime"} -> Maybe(Runs)] /\ consumed \in [Runs -> Maybe(Runs)]
  /\ open \subseteq Runs /\ active \in Maybe(Runs) /\ owned \subseteq Runs
  /\ bound \in Maybe(Runs) /\ starved \subseteq Runs /\ handle \in [Runs -> Maybe(Runs)]
  /\ correlation \in Maybe(Runs) /\ captured \in [Runs -> Maybe(Runs)]
  /\ tasks \in [Runs -> SUBSET Runs] /\ reported \in [Runs -> SUBSET Runs]

\* What a run gets wrong it gets from a run it overlapped: the tasks of an earlier run,
\* its stopped session and the end of its lifespan never reach it, nor does its data
\* unless the run's own producer was passed over, when what an earlier run left in the
\* runtime's artifact store is read in its place.  A run with an artifact store of its
\* own reads what it wrote, whoever else runs.
DisturbedOnlyByOverlap ==
  \A r \in Runs :
    /\ consumed[r] \in Maybe(CASE setting[r].store = "own" -> {r}
                              [] setting[r].store # "own" /\ r \notin passed -> {r} \cup met[r]
                              [] OTHER -> Runs)
    /\ reported[r] \subseteq {r} \cup met[r]
    /\ r \in cut => met[r] # {}
    /\ r \in starved => \E o \in met[r] : OnSpark(o)

\* When no run is under way, a session that was made by a provider registered as local
\* is stopped.  What is left open was made by a provider of another name, or by a run
\* that began when the runtime had no provider named local: nobody stops those.
SessionsReleased ==
  Underway = {} =>
    open \subseteq {r \in Runs : setting[r].spark = "named" \/ using[r]["local"] = None}

\* A run keeps to its end the plugins it began with, though discovery is repeated for
\* every run: what they hold (staging tables, sessions) is not lost under it.
PluginsStay ==
  \A r \in Underway : \A n \in Plugins :
    using[r][n] # None => plugins[n] = using[r][n]
=============================================================================
