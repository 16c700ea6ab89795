------------------------- MODULE SharedRuntimeProofs -------------------------
(***************************************************************************)
(* The properties of SharedRuntime for any number of runs, profiles and    *)
(* plugins; and, below, those of the ResourceManager such a runtime has.   *)
(***************************************************************************)
EXTENDS SharedRuntime, ResourceManager, TLAPS

Early == {"new", "begun"}
Holding == {"consumed", "written"}
InFlow == {"flow", "running", "produced", "consumed", "written", "reporting"}

\* MetInv: runs that are under way together have met.
MetInv == \A r, o \in Underway : r # o => o \in met[r]

\* NewInv: nothing has happened to a run that has not begun.
NewInv ==
  \A r \in Runs : pc[r] = "new" =>
    consumed[r] = None /\ reported[r] = {} /\ r \notin cut /\ r \notin starved

\* DataInv: a store of its own holds a run's own data, and between its producer and
\* its consumer only a run it has met can have replaced what is stored, if its producer
\* was not passed over.
Source(r) == CASE setting[r].store = "own" -> {r}
               [] setting[r].store # "own" /\ r \notin passed -> {r} \cup met[r]
               [] OTHER -> Runs
DataInv ==
  \A r \in Runs :
    /\ stored[r] \in {r, None}
    /\ pc[r] = "produced" => stored[StoreOf(r)] \in Maybe(Source(r))
    /\ r \in passed => pc[r] \notin Early \cup {"flow", "running"}

\* FlowInv: a map is made when its run enters, and the one the scheduler has while a
\* run is in its flow was made since that run entered.
FlowInv ==
  /\ correlation # None => pc[correlation] \notin Early
  /\ \A x \in Runs :
       /\ captured[x] # None => pc[captured[x]] \notin Early
       /\ pc[x] \in Early => tasks[x] = {}
       /\ pc[x] \in {"flow", "reporting"} => OnPrefect(x)
       /\ OnPrefect(x) /\ pc[x] \in InFlow =>
            correlation # None /\ tasks[correlation] \subseteq {x} \cup met[x]

\* SparkInv: who is past its consumer has a session, which is open and the one the
\* plugin is bound to, if it is bound at all, unless it has met another run on Spark; a
\* session that is open has an owner who will release it, or was acquired from a
\* provider of another name or one that was not registered.
Abandoned(r) == setting[r].spark = "named" \/ using[r]["local"] = None
Disturbed(r) == \E o \in met[r] : OnSpark(o)
SparkInv ==
  /\ \A r \in Runs :
       /\ handle[r] # None => pc[r] \in Holding
       /\ r \in owned => pc[r] \in Holding /\ OnSpark(r)
       /\ pc[r] = "consumed" /\ OnSpark(r) =>
            /\ handle[r] # None
            /\ Disturbed(r) \/ bound = None \/ (bound = handle[r] /\ bound \in open)
  /\ \A s \in open : pc[s] # "new" /\ (Abandoned(s) \/ \E r \in owned : handle[r] = s)
  /\ bound # None => Registered("pyspark")

RuntimeInv ==
  TypeOK /\ MetInv /\ NewInv /\ DataInv /\ FlowInv /\ SparkInv /\ DisturbedOnlyByOverlap

\* The type invariant in the parts that a step changes together.
PlaceTypes ==
  /\ setting \in [Runs -> Settings] /\ pc \in [Runs -> Labels]
  /\ met \in [Runs -> SUBSET Runs] /\ cut \subseteq Runs
PluginTypes ==
  /\ configured \in Maybe(Profiles \cup Plugins)
  /\ plugins \in [Plugins -> Maybe(Runs \cup {Hand})]
  /\ using \in [Runs -> [Plugins -> Maybe(Runs \cup {Hand})]]
DataTypes ==
  /\ passed \subseteq Runs /\ stored \in [Runs \cup {"runtime"} -> Maybe(Runs)]
  /\ consumed \in [Runs -> Maybe(Runs)]
SparkTypes ==
  /\ open \subseteq Runs /\ active \in Maybe(Runs) /\ owned \subseteq Runs
  /\ bound \in Maybe(Runs) /\ starved \subseteq Runs /\ handle \in [Runs -> Maybe(Runs)]
FlowTypes ==
  /\ correlation \in Maybe(Runs) /\ captured \in [Runs -> Maybe(Runs)]
  /\ tasks \in [Runs -> SUBSET Runs] /\ reported \in [Runs -> SUBSET Runs]

LEMMA TypeParts == TypeOK <=> PlaceTypes /\ PluginTypes /\ DataTypes /\ SparkTypes /\ FlowTypes
  BY DEF TypeOK, PlaceTypes, PluginTypes, DataTypes, SparkTypes, FlowTypes

LEMMA TypePartsAfter ==
  TypeOK' <=> PlaceTypes' /\ PluginTypes' /\ DataTypes' /\ SparkTypes' /\ FlowTypes'
  BY DEF TypeOK, PlaceTypes, PluginTypes, DataTypes, SparkTypes, FlowTypes

LEMMA SubmitTypes ==
  ASSUME FlowTypes, NEW r \in Runs, Submit(r)
  PROVE  FlowTypes'
<1>1. tasks' \in [Runs -> SUBSET Runs]
  BY DEF Submit, FlowTypes
<1> QED
  BY <1>1 DEF Submit, FlowTypes

LEMMA SessionTypes ==
  ASSUME SparkTypes, PlaceTypes, NEW r \in Runs, EnsureSession(r)
  PROVE  /\ open' \subseteq Runs /\ active' \in Maybe(Runs) /\ owned' \subseteq Runs
         /\ bound' \in Maybe(Runs) /\ handle' \in [Runs -> Maybe(Runs)]
<1>1. CASE handle[r] # None
  BY <1>1 DEF EnsureSession, SparkTypes
<1>2. CASE handle[r] = None
  <2> DEFINE session == IF setting[r].spark # "named" /\ active \in open THEN active ELSE r
  <2>1. session \in Runs
    BY DEF SparkTypes
  <2> QED
    BY <1>2, <2>1 DEF EnsureSession, SparkTypes, Maybe
<1> QED
  BY <1>1, <1>2

\* Every variable keeps its type.
LEMMA TypeStep ==
  ASSUME TypeOK, FlowInv, NEW r \in Runs, RunNext(r)
  PROVE  TypeOK'
<1> USE TypeParts, TypePartsAfter
<1>1. CASE Begin(r)
  <2>1. PlaceTypes'
    BY <1>1 DEF Begin, Move, PlaceTypes, Labels, Underway
  <2>2. PluginTypes'
    <3>1. Found[setting[r].profile] \subseteq Plugins
      BY SharedRuntimeAssumption DEF PlaceTypes
    <3>2. setting[r].profile \in Profiles
      BY SharedRuntimeAssumption DEF PlaceTypes
    <3>3. /\ configured' \in Maybe(Profiles \cup Plugins)
          /\ plugins' \in [Plugins -> Maybe(Runs \cup {Hand})]
      BY <1>1, <3>1, <3>2 DEF Begin, EnsurePlugins, Merged, PluginTypes, Maybe
    <3> QED
      BY <1>1, <3>3 DEF Begin, PluginTypes
  <2>3. DataTypes' /\ SparkTypes' /\ FlowTypes'
    BY <1>1 DEF Begin, dataVars, sparkVars, prefectVars, DataTypes, SparkTypes, FlowTypes
  <2> QED
    BY <2>1, <2>2, <2>3
<1>2. CASE Enter(r)
  <2>1. PlaceTypes' /\ FlowTypes'
    BY <1>2 DEF Enter, Move, Fresh, PlaceTypes, FlowTypes, Labels, Maybe
  <2>2. PluginTypes' /\ DataTypes' /\ SparkTypes'
    BY <1>2 DEF Enter, pluginVars, dataVars, sparkVars, PluginTypes, DataTypes, SparkTypes
  <2> QED
    BY <2>1, <2>2
<1>3. CASE Host(r)
  <2>1. PlaceTypes' /\ FlowTypes'
    BY <1>3 DEF Host, Move, PlaceTypes, FlowTypes, Labels
  <2>2. PluginTypes' /\ DataTypes' /\ SparkTypes'
    BY <1>3 DEF Host, pluginVars, dataVars, sparkVars, PluginTypes, DataTypes, SparkTypes
  <2> QED
    BY <2>1, <2>2
<1>4. CASE Produce(r)
  <2>1. PlaceTypes' /\ PluginTypes' /\ SparkTypes'
    BY <1>4 DEF Produce, Move, pluginVars, sparkVars, PlaceTypes, PluginTypes, SparkTypes, Labels
  <2>2. DataTypes'
    BY <1>4 DEF Produce, DataTypes, Maybe
  <2> QED
    BY <1>4, <2>1, <2>2, SubmitTypes DEF Produce
<1>5. CASE Consume(r)
  <2>1. PlaceTypes' /\ PluginTypes'
    BY <1>5 DEF Consume, Move, pluginVars, PlaceTypes, PluginTypes, Labels
  <2>2. DataTypes'
    BY <1>5 DEF Consume, DataTypes, StoreOf, Maybe
  <2>3. SparkTypes'
    BY <1>5, SessionTypes DEF Consume, SparkTypes, sparkVars
  <2> QED
    BY <1>5, <2>1, <2>2, <2>3, SubmitTypes DEF Consume
<1>6. CASE Write(r)
  <2>1. PlaceTypes' /\ PluginTypes' /\ DataTypes'
    BY <1>6 DEF Write, Move, pluginVars, dataVars, PlaceTypes, PluginTypes, DataTypes, Labels
  <2>2. SparkTypes'
    BY <1>6, SessionTypes DEF Write, SparkTypes, sparkVars
  <2> QED
    BY <1>6, <2>1, <2>2, SubmitTypes DEF Write
<1>7. CASE Finish(r)
  <2>1. PlaceTypes' /\ SparkTypes'
    BY <1>7 DEF Finish, ReleaseSession, Move, PlaceTypes, SparkTypes, Labels, Maybe
  <2>2. PluginTypes' /\ DataTypes' /\ FlowTypes'
    BY <1>7 DEF Finish, pluginVars, dataVars, prefectVars, PluginTypes, DataTypes, FlowTypes
  <2> QED
    BY <2>1, <2>2
<1>8. CASE Report(r)
  <2>1. PlaceTypes' /\ PluginTypes' /\ DataTypes' /\ SparkTypes'
    BY <1>8 DEF Report, Move, pluginVars, dataVars, sparkVars, PlaceTypes, PluginTypes, DataTypes,
                SparkTypes, Labels
  <2>2. FlowTypes'
    <3>1. correlation \in Runs
      BY <1>8 DEF Report, FlowTypes, FlowInv, InFlow, Maybe
    <3> QED
      BY <1>8, <3>1 DEF Report, FlowTypes
  <2> QED
    BY <2>1, <2>2
<1>9. CASE Leave(r)
  <2>1. PlaceTypes'
    BY <1>9 DEF Leave, Move, Inside, Underway, PlaceTypes, Labels
  <2>2. PluginTypes' /\ DataTypes' /\ SparkTypes' /\ FlowTypes'
    BY <1>9 DEF Leave, pluginVars, dataVars, sparkVars, prefectVars, PluginTypes, DataTypes,
                SparkTypes, FlowTypes
  <2> QED
    BY <2>1, <2>2
<1> QED
  BY <1>1, <1>2, <1>3, <1>4, <1>5, <1>6, <1>7, <1>8, <1>9 DEF RunNext

\* A step moves one run; the runs that have begun keep whom they have met.
LEMMA StepMoves ==
  ASSUME TypeOK, NEW r \in Runs, RunNext(r)
  PROVE  /\ setting' = setting /\ \A x \in Runs : x # r => pc'[x] = pc[x]
         /\ \A x \in Runs : pc[x] = "new" \/ met[x] \subseteq met'[x]
<1>1. setting' = setting /\ \E label \in Labels : pc' = [pc EXCEPT ![r] = label]
  BY DEF RunNext, Begin, Enter, Host, Produce, Consume, Write, Finish, Report, Leave, Move, Labels
<1>2. ASSUME NEW x \in Runs PROVE pc[x] = "new" \/ met[x] \subseteq met'[x]
  <2>1. CASE Begin(r)
    BY <2>1 DEF Begin, TypeOK
  <2>2. CASE ~Begin(r)
    BY <2>2 DEF RunNext, Enter, Host, Produce, Consume, Write, Finish, Report, Leave
  <2> QED
    BY <2>1, <2>2
<1> QED
  BY <1>1, <1>2 DEF TypeOK

\* A run that has begun stays under way until it is over, and meets nobody by itself.
LEMMA LaterStep ==
  ASSUME TypeOK, NEW r \in Runs, RunNext(r), ~Begin(r)
  PROVE  met' = met /\ plugins' = plugins /\ using' = using /\ Underway' \subseteq Underway
<1>1. /\ met' = met /\ pc[r] \notin {"new", "over"}
      /\ \E label \in Labels : pc' = [pc EXCEPT ![r] = label]
  BY DEF RunNext, Enter, Host, Produce, Consume, Write, Finish, Report, Leave, Move, Labels
<1>2. plugins' = plugins /\ using' = using
  BY DEF RunNext, Enter, Host, Produce, Consume, Write, Finish, Report, Leave, pluginVars
<1> QED
  BY <1>1, <1>2 DEF TypeOK, Underway

\* Runs under way at the same time have met.
LEMMA MetStep ==
  ASSUME TypeOK, MetInv, NEW r \in Runs, RunNext(r)
  PROVE  MetInv'
<1>1. CASE Begin(r)
  <2>1. /\ Underway' \subseteq Underway \cup {r}
        /\ met' = [o \in Runs |-> CASE o = r -> Underway
                                    [] o \in Underway -> met[o] \cup {r}
                                    [] OTHER -> met[o]]
    BY <1>1 DEF Begin, Move, TypeOK, Underway
  <2> QED
    BY <2>1 DEF MetInv, Underway
<1>2. CASE ~Begin(r)
  BY <1>2, LaterStep DEF MetInv
<1> QED
  BY <1>1, <1>2

\* Nothing has happened to a run that has not begun.
LEMMA NewStep ==
  ASSUME TypeOK, NewInv, NEW r \in Runs, RunNext(r)
  PROVE  NewInv'
<1>1. CASE Begin(r)
  BY <1>1, SharedRuntimeAssumption DEF Begin, EnsurePlugins, Move, dataVars, sparkVars,
     prefectVars, TypeOK, Labels, NewInv
<1>2. CASE Enter(r)
  BY <1>2, SharedRuntimeAssumption DEF Enter, Move, pluginVars, dataVars, sparkVars, TypeOK,
     Labels, NewInv
<1>3. CASE Host(r)
  BY <1>3, SharedRuntimeAssumption DEF Host, Move, pluginVars, dataVars, sparkVars, TypeOK,
     Labels, NewInv
<1>4. CASE Produce(r)
  BY <1>4, SharedRuntimeAssumption DEF Produce, Submit, Move, pluginVars, sparkVars, TypeOK,
     Labels, NewInv
<1>5. CASE Consume(r)
  BY <1>5, SharedRuntimeAssumption DEF Consume, Submit, Move, pluginVars, sparkVars, TypeOK,
     Labels, NewInv
<1>6. CASE Write(r)
  BY <1>6, SharedRuntimeAssumption DEF Write, Submit, Move, pluginVars, dataVars, sparkVars,
     TypeOK, Labels, NewInv
<1>7. CASE Finish(r)
  BY <1>7, SharedRuntimeAssumption DEF Finish, ReleaseSession, Move, pluginVars, dataVars,
     prefectVars, TypeOK, Labels, NewInv
<1>8. CASE Report(r)
  BY <1>8, SharedRuntimeAssumption DEF Report, Move, pluginVars, dataVars, sparkVars,
     TypeOK, Labels, NewInv
<1>9. CASE Leave(r)
  BY <1>9, SharedRuntimeAssumption DEF Leave, Move, pluginVars, dataVars, sparkVars,
     prefectVars, Inside, Underway, TypeOK, Labels, NewInv
<1> QED
  BY <1>1, <1>2, <1>3, <1>4, <1>5, <1>6, <1>7, <1>8, <1>9 DEF RunNext

\* What the consumer will find was stored by the run or by one it has met.
LEMMA DataStep ==
  ASSUME TypeOK, MetInv, DataInv, NEW r \in Runs, RunNext(r)
  PROVE  DataInv'
<1>1. CASE Produce(r)
  <2>1. /\ setting' = setting /\ met' = met /\ r \notin passed
        /\ \/ stored' = [stored EXCEPT ![StoreOf(r)] = r] /\ passed' = passed
           \/ stored' = stored /\ passed' = passed \cup {r}
    BY <1>1 DEF Produce, DataInv
  <2>2. \A x \in Runs : pc'[x] = IF x = r THEN "produced" ELSE pc[x]
    BY <1>1 DEF Produce, Move, TypeOK
  <2>3. \A x \in Runs : stored'[x] \in {x, None}
    BY <2>1, SharedRuntimeAssumption DEF TypeOK, DataInv, StoreOf
  <2>4. ASSUME NEW x \in Runs, pc'[x] = "produced" PROVE stored'[StoreOf(x)] \in Maybe(Source(x)')
    <3>1. CASE setting[x].store = "own"
      BY <2>1, <2>3, <3>1 DEF StoreOf, Source, Maybe
    <3>2. CASE setting[x].store # "own" /\ x \in passed'
      <4>1. Source(x)' = Runs
        BY <2>1, <3>2 DEF Source
      <4>2. stored'["runtime"] \in Maybe(Runs)
        BY <2>1 DEF TypeOK, Maybe, StoreOf
      <4> QED
        BY <2>1, <3>2, <4>1, <4>2 DEF StoreOf
    <3>3. CASE setting[x].store # "own" /\ x \notin passed'
      <4>1. Source(x)' = {x} \cup met[x]
        BY <2>1, <3>3 DEF Source
      <4>2. CASE stored'["runtime"] = r
        <5>1. x = r \/ r \in met[x]
          BY <1>1, <2>2, <2>4 DEF Produce, MetInv, Underway
        <5> QED
          BY <2>1, <3>3, <4>1, <4>2, <5>1 DEF StoreOf, Maybe
      <4>3. CASE stored'["runtime"] = stored["runtime"] /\ x # r
        <5>1. Source(x) = {x} \cup met[x] /\ pc[x] = "produced"
          BY <2>1, <2>2, <2>4, <3>3, <4>3 DEF Source
        <5> QED
          BY <2>1, <3>3, <4>1, <4>3, <5>1 DEF DataInv, StoreOf
      <4>4. stored'["runtime"] = r \/ (stored'["runtime"] = stored["runtime"] /\ x # r)
        BY <2>1, <3>3 DEF TypeOK, StoreOf
      <4> QED
        BY <4>2, <4>3, <4>4
    <3> QED
      BY <3>1, <3>2, <3>3
  <2>5. ASSUME NEW x \in passed' PROVE pc'[x] \notin Early \cup {"flow", "running"}
    BY <2>1, <2>2, <2>5 DEF DataInv, TypeOK, Early
  <2> QED
    BY <2>1, <2>3, <2>4, <2>5 DEF DataInv, StoreOf
<1>2. CASE ~Produce(r)
  <2>1. stored' = stored /\ passed' = passed /\ pc'[r] # "produced"
    BY <1>2 DEF RunNext, Begin, Enter, Host, Consume, Write, Finish, Report, Leave, Move,
                dataVars, TypeOK
  <2>2. r \in passed => pc'[r] \notin Early \cup {"flow", "running"}
    BY <1>2 DEF RunNext, Begin, Enter, Host, Consume, Write, Finish, Report, Leave, Move,
                DataInv, TypeOK, Early
  <2>3. ASSUME NEW x \in Runs, pc'[x] = "produced"
        PROVE  stored'[StoreOf(x)'] \in Maybe(Source(x)')
    <3>1. pc[x] = "produced" /\ met[x] \subseteq met'[x] /\ setting' = setting
      BY <2>1, <2>3, StepMoves
    <3>2. Source(x) \subseteq Source(x)' /\ StoreOf(x)' = StoreOf(x)
      BY <2>1, <3>1 DEF Source, StoreOf
    <3> QED
      BY <2>1, <3>1, <3>2 DEF DataInv, Maybe
  <2> QED
    BY <2>1, <2>2, <2>3, StepMoves DEF DataInv
<1> QED
  BY <1>1, <1>2

\* Entering a task touches one map only, which is not that of a run yet to enter, and
\* adds the run itself, which everybody under way has met.
LEMMA SubmitFlow ==
  ASSUME TypeOK, MetInv, FlowInv, NEW r \in Underway, Submit(r), pc[r] \notin Early,
         UNCHANGED <<setting, met>>, NEW label \in Labels \ (Early \cup {"flow", "reporting"}),
         Move(r, label), pc[r] \in InFlow
  PROVE  FlowInv'
<1>1. \A x \in Runs : x # r => pc'[x] = pc[x]
  BY DEF Move, TypeOK
<1>2. pc'[r] = label
  BY DEF Move, TypeOK, Underway
<1>3. \A x \in Runs : tasks'[x] = tasks[x] \/ (captured[r] = x /\ tasks'[x] = tasks[x] \cup {r})
  BY DEF Submit, TypeOK
<1>4. ASSUME NEW x \in Runs, pc'[x] \in Early PROVE tasks'[x] = {}
  BY <1>1, <1>2, <1>3, <1>4, SharedRuntimeAssumption DEF FlowInv, Underway
<1>5. ASSUME NEW x \in Runs, OnPrefect(x), pc'[x] \in InFlow
      PROVE  correlation # None /\ tasks'[correlation] \subseteq {x} \cup met[x]
  <2>1. pc[x] \in InFlow /\ x \in Underway
    BY <1>1, <1>5 DEF Underway, InFlow
  <2>2. correlation \in Runs /\ tasks[correlation] \subseteq {x} \cup met[x]
    BY <1>5, <2>1 DEF FlowInv, TypeOK, Maybe
  <2>3. r = x \/ r \in met[x]
    BY <2>1 DEF MetInv
  <2> QED
    BY <1>3, <2>2, <2>3, SharedRuntimeAssumption
<1>6. correlation # None => pc'[correlation] \notin Early
  BY <1>1, <1>2 DEF FlowInv, TypeOK, Maybe
<1>7. ASSUME NEW x \in Runs, captured[x] # None PROVE pc'[captured[x]] \notin Early
  BY <1>1, <1>2, <1>7 DEF FlowInv, TypeOK, Maybe
<1>8. ASSUME NEW x \in Runs, pc'[x] \in {"flow", "reporting"} PROVE OnPrefect(x)
  BY <1>1, <1>2, <1>8 DEF FlowInv
<1> QED
  BY <1>4, <1>5, <1>6, <1>7, <1>8 DEF Submit, FlowInv, OnPrefect

\* A step that leaves the maps alone, of a run that has entered.
LEMMA PlaceFlow ==
  ASSUME TypeOK, FlowInv, NEW r \in Runs, NEW label \in Labels \ Early, Move(r, label),
         label \in InFlow => pc[r] \in InFlow,
         label \in {"flow", "reporting"} => OnPrefect(r),
         UNCHANGED <<setting, met, correlation, captured, tasks>>
  PROVE  FlowInv'
<1>1. \A x \in Runs : pc'[x] = IF x = r THEN label ELSE pc[x]
  BY DEF Move, TypeOK
<1> QED
  BY <1>1 DEF FlowInv, OnPrefect, TypeOK, Maybe

\* The scheduler's map holds tasks of the run and of those it has met.
LEMMA FlowStep ==
  ASSUME TypeOK, MetInv, FlowInv, NEW r \in Runs, RunNext(r)
  PROVE  FlowInv'
<1> USE DEF Labels, Early, InFlow
<1>1. CASE Begin(r)
  <2>1. \A x \in Runs : pc'[x] = IF x = r THEN "begun" ELSE pc[x]
    BY <1>1 DEF Begin, Move, TypeOK
  <2>2. \A x \in Runs : x # r => met[x] \subseteq met'[x]
    BY <1>1 DEF Begin, TypeOK
  <2> QED
    BY <1>1, <2>1, <2>2 DEF Begin, prefectVars, FlowInv, OnPrefect, TypeOK, Maybe
<1>2. CASE Enter(r)
  <2>1. CASE OnPrefect(r)
    <3>1. \A x \in Runs : pc'[x] = IF x = r THEN "flow" ELSE pc[x]
      BY <1>2, <2>1 DEF Enter, Move, TypeOK
    <3>2. correlation' = r /\ tasks[r] = {} /\ r # None
      BY <1>2, <2>1, SharedRuntimeAssumption DEF Enter, Fresh, FlowInv
    <3> QED
      BY <1>2, <2>1, <3>1, <3>2 DEF Enter, FlowInv, OnPrefect, TypeOK, Maybe
  <2>2. CASE ~OnPrefect(r)
    <3>1. \A x \in Runs : pc'[x] = IF x = r THEN "running" ELSE pc[x]
      BY <1>2, <2>2 DEF Enter, Move, TypeOK
    <3> QED
      BY <1>2, <2>2, <3>1 DEF Enter, FlowInv, OnPrefect, TypeOK, Maybe
  <2> QED
    BY <2>1, <2>2
<1>3. CASE Host(r)
  <2>1. \A x \in Runs : pc'[x] = IF x = r THEN "running" ELSE pc[x]
    BY <1>3 DEF Host, Move, TypeOK
  <2>2. \A x \in Runs : captured'[x] = IF x = r THEN correlation ELSE captured[x]
    BY <1>3 DEF Host, TypeOK
  <2> QED
    BY <1>3, <2>1, <2>2 DEF Host, FlowInv, OnPrefect, TypeOK, Maybe
<1>4. CASE Produce(r)
  BY <1>4, SubmitFlow DEF Produce, Underway
<1>5. CASE Consume(r)
  BY <1>5, SubmitFlow DEF Consume, Underway
<1>6. CASE Write(r)
  BY <1>6, SubmitFlow DEF Write, Underway
<1>7. CASE Finish(r)
  BY <1>7, PlaceFlow DEF Finish, prefectVars
<1>8. CASE Report(r)
  BY <1>8, PlaceFlow DEF Report
<1>9. CASE Leave(r)
  BY <1>9, PlaceFlow DEF Leave, prefectVars
<1> QED
  BY <1>1, <1>2, <1>3, <1>4, <1>5, <1>6, <1>7, <1>8, <1>9 DEF RunNext

\* SparkInv is kept by a step that leaves the sessions alone, of a run that holds none.
LEMMA PlaceSpark ==
  ASSUME TypeOK, SparkInv, NEW r \in Runs, NEW label \in Labels, Move(r, label),
         pc[r] \notin Holding, label \notin {"consumed", "new"}, UNCHANGED <<setting, sparkVars>>,
         \A x \in Runs : x # r => met[x] \subseteq met'[x],
         \A x \in Runs : pc[x] # "new" => using'[x] = using[x],
         Registered("pyspark") => Registered("pyspark")'
  PROVE  SparkInv'
<1>1. \A x \in Runs : pc'[x] = IF x = r THEN label ELSE pc[x]
  BY DEF Move, TypeOK
<1>2. handle[r] = None /\ r \notin owned
  BY DEF SparkInv
<1>3. \A s \in open : pc'[s] # "new" /\ (Abandoned(s)' \/ \E o \in owned : handle'[o] = s)
  BY <1>1 DEF SparkInv, sparkVars, Abandoned, TypeOK
<1>4. ASSUME NEW x \in Runs
      PROVE  /\ handle'[x] # None => pc'[x] \in Holding
             /\ x \in owned' => pc'[x] \in Holding /\ OnSpark(x)'
             /\ pc'[x] = "consumed" /\ OnSpark(x)' =>
                  /\ handle'[x] # None
                  /\ Disturbed(x)' \/ bound' = None \/ (bound' = handle'[x] /\ bound' \in open')
  BY <1>1, <1>2 DEF SparkInv, sparkVars, OnSpark, Disturbed
<1> QED
  BY <1>3, <1>4 DEF SparkInv, sparkVars

\* What a consumer or a sink on Spark leaves: a session, bound to the plugin if it was
\* acquired now.  Whoever else is past its consumer has met this run.
LEMMA SessionSpark ==
  ASSUME TypeOK, MetInv, SparkInv, PluginsStay, NEW r \in Underway, OnSpark(r), EnsureSession(r),
         NEW label \in Holding, Move(r, label), UNCHANGED <<setting, met, plugins, using>>,
         label = "consumed" => pc[r] \notin Holding
  PROVE  SparkInv'
<1>1. \A x \in Runs : pc'[x] = IF x = r THEN label ELSE pc[x]
  BY DEF Move, TypeOK
<1>2. CASE handle[r] # None
  <2>1. UNCHANGED <<open, active, handle, owned, bound>>
    BY <1>2 DEF EnsureSession
  <2>2. \A s \in open' : pc'[s] # "new" /\ (Abandoned(s)' \/ \E o \in owned' : handle'[o] = s)
    BY <1>1, <2>1 DEF SparkInv, TypeOK, Abandoned, Holding
  <2>3. pc[r] \in Holding /\ label # "consumed"
    BY <1>2 DEF SparkInv, Underway
  <2>4. \A x \in Runs : x \in owned' => pc'[x] \in Holding /\ OnSpark(x)'
    BY <1>1, <2>1 DEF SparkInv, OnSpark
  <2>5. \A x \in Runs : handle'[x] # None => pc'[x] \in Holding
    BY <1>1, <2>1 DEF SparkInv
  <2>6. ASSUME NEW x \in Runs, pc'[x] = "consumed", OnSpark(x)'
        PROVE  /\ handle'[x] # None
               /\ Disturbed(x)' \/ bound' = None \/ (bound' = handle'[x] /\ bound' \in open')
    BY <1>1, <2>1, <2>3, <2>6 DEF SparkInv, OnSpark, Disturbed
  <2>7. bound' # None => Registered("pyspark")'
    BY <2>1 DEF SparkInv, Registered
  <2> QED
    BY <2>2, <2>4, <2>5, <2>6, <2>7 DEF SparkInv
<1>3. CASE handle[r] = None
  <2> DEFINE session == IF setting[r].spark # "named" /\ active \in open THEN active ELSE r
  <2>1. session \in Runs /\ session # None
    BY SharedRuntimeAssumption DEF TypeOK, Underway
  <2>2. /\ open' = open \cup {session}
        /\ bound' = IF Registered("pyspark") THEN session ELSE bound
        /\ owned' = IF setting[r].spark # "named" /\ Registered("local") THEN owned \cup {r}
                    ELSE owned
        /\ \A x \in Runs : handle'[x] = IF x = r THEN session ELSE handle[x]
    BY <1>3 DEF EnsureSession, TypeOK
  <2>3. r \in Runs /\ (Registered("local") \/ Abandoned(r))
    BY SharedRuntimeAssumption DEF TypeOK, PluginsStay, Abandoned, Registered, Underway
  <2> HIDE DEF session
  <2>4. ASSUME NEW x \in Runs
        PROVE  /\ handle'[x] # None => pc'[x] \in Holding
               /\ x \in owned' => pc'[x] \in Holding /\ OnSpark(x)
    BY <1>1, <2>2 DEF SparkInv, OnSpark
  <2>5. ASSUME NEW x \in Runs, pc'[x] = "consumed", OnSpark(x)
        PROVE  /\ handle'[x] # None
               /\ Disturbed(x) \/ bound' = None \/ (bound' = handle'[x] /\ bound' \in open')
    <3>1. CASE x = r
      BY <3>1, <2>1, <2>2 DEF SparkInv
    <3>2. CASE x # r
      <4>1. x \in Underway
        BY <1>1, <2>5, <3>2 DEF Underway
      <4> QED
        BY <1>1, <2>2, <2>5, <3>2, <4>1 DEF MetInv, SparkInv, Disturbed
    <3> QED
      BY <3>1, <3>2
  <2>6. ASSUME NEW s \in open'
        PROVE  pc'[s] # "new" /\ (Abandoned(s) \/ \E o \in owned' : handle'[o] = s)
    <3>1. CASE s = session /\ setting[r].spark # "named" /\ Registered("local")
      <4>1. pc'[s] # "new"
        BY <3>1, <1>1, <2>3 DEF session, SparkInv, TypeOK, Underway, Holding
      <4> QED
        BY <3>1, <4>1, <2>2, <2>3
    <3>2. CASE s = r /\ (setting[r].spark = "named" \/ ~Registered("local"))
      BY <3>2, <1>1, <2>3 DEF Abandoned, Holding
    <3>3. CASE s \in open
      <4>1. s \in Runs /\ pc'[s] # "new"
        BY <3>3, <1>1 DEF SparkInv, TypeOK, Holding
      <4>2. Abandoned(s) \/ \E o \in owned : handle[o] = s
        BY <3>3 DEF SparkInv
      <4>3. ASSUME NEW o \in owned, handle[o] = s PROVE o \in owned' /\ handle'[o] = s
        <5>1. s # None /\ o \in Runs
          BY <4>1, SharedRuntimeAssumption DEF TypeOK
        <5> QED
          BY <1>3, <2>2, <4>3, <5>1
      <4> QED
        BY <4>1, <4>2, <4>3
    <3>4. s \in open \/ s = session
      BY <2>2, <2>6
    <3>5. session = r \/ (setting[r].spark # "named" /\ session \in open)
      BY DEF session
    <3> QED
      BY <3>1, <3>2, <3>3, <3>4, <3>5
  <2>7. bound' # None => Registered("pyspark")
    BY <2>2 DEF SparkInv
  <2> QED
    BY <2>4, <2>5, <2>6, <2>7 DEF SparkInv, OnSpark, Disturbed, Abandoned, Registered
<1> QED
  BY <1>2, <1>3

\* A run that gives its session back takes it from those it has met only.
LEMMA ReleaseSpark ==
  ASSUME TypeOK, MetInv, SparkInv, NEW r \in Underway, ReleaseSession(r),
         NEW label \in Labels \ {"consumed", "new"}, Move(r, label),
         UNCHANGED <<setting, met, plugins, using>>
  PROVE  SparkInv'
<1>1. \A x \in Runs : pc'[x] = IF x = r THEN label ELSE pc[x]
  BY DEF Move, TypeOK
<1>2. \A x \in Runs : handle'[x] = IF x = r THEN None ELSE handle[x]
  BY DEF ReleaseSession, TypeOK
<1>3. owned' = owned \ {r} /\ bound' = bound
      /\ open' = IF r \in owned THEN open \ {handle[r]} ELSE open
  BY DEF ReleaseSession
<1>4. ASSUME NEW x \in Runs
      PROVE  /\ handle'[x] # None => pc'[x] \in Holding
             /\ x \in owned' => pc'[x] \in Holding /\ OnSpark(x)
  BY <1>1, <1>2, <1>3 DEF SparkInv, OnSpark
<1>5. ASSUME NEW x \in Runs, pc'[x] = "consumed", OnSpark(x)
      PROVE  /\ handle'[x] # None
             /\ Disturbed(x) \/ bound' = None \/ (bound' = handle'[x] /\ bound' \in open')
  <2>1. x # r /\ pc[x] = "consumed" /\ x \in Underway
    BY <1>1, <1>5 DEF Underway
  <2>2. r \in owned => OnSpark(r) /\ r \in met[x]
    BY <2>1 DEF SparkInv, MetInv, Underway
  <2> QED
    BY <1>2, <1>3, <1>5, <2>1, <2>2 DEF SparkInv, Disturbed
<1>6. ASSUME NEW s \in open'
      PROVE  pc'[s] # "new" /\ (Abandoned(s) \/ \E o \in owned' : handle'[o] = s)
  <2>1. s \in open /\ (r \in owned => s # handle[r]) /\ pc'[s] # "new"
    BY <1>1, <1>3, <1>6 DEF SparkInv, TypeOK
  <2>2. ASSUME NEW o \in owned, handle[o] = s PROVE o \in owned' /\ handle'[o] = s
    BY <1>2, <1>3, <2>1, <2>2 DEF TypeOK
  <2> QED
    BY <2>1, <2>2 DEF SparkInv
<1> QED
  BY <1>3, <1>4, <1>5, <1>6 DEF SparkInv, OnSpark, Disturbed, Abandoned, Registered

\* Who is past its consumer without a session is not on Spark.
LEMMA PlainSpark ==
  ASSUME TypeOK, SparkInv, NEW r \in Runs, ~OnSpark(r), UNCHANGED sparkVars,
         NEW label \in Labels \ {"new"}, Move(r, label),
         UNCHANGED <<setting, met, plugins, using>>, pc[r] \in Holding => label \in Holding
  PROVE  SparkInv'
<1>1. \A x \in Runs : pc'[x] = IF x = r THEN label ELSE pc[x]
  BY DEF Move, TypeOK
<1>2. \A s \in open' : pc'[s] # "new" /\ (Abandoned(s)' \/ \E o \in owned' : handle'[o] = s)
  BY <1>1 DEF SparkInv, sparkVars, TypeOK, Abandoned
<1>3. bound' # None => Registered("pyspark")'
  BY DEF SparkInv, sparkVars, Registered
<1>4. \A x \in Runs : OnSpark(x)' = OnSpark(x) /\ Disturbed(x)' = Disturbed(x)
  BY DEF OnSpark, Disturbed
<1>5. \A x \in Runs : x \in owned' => pc'[x] \in Holding /\ OnSpark(x)'
  BY <1>1, <1>4 DEF SparkInv, sparkVars
<1>6. ASSUME NEW x \in Runs
      PROVE  /\ handle'[x] # None => pc'[x] \in Holding
             /\ pc'[x] = "consumed" /\ OnSpark(x)' =>
                  /\ handle'[x] # None
                  /\ Disturbed(x)' \/ bound' = None \/ (bound' = handle'[x] /\ bound' \in open')
  BY <1>1, <1>4 DEF SparkInv, sparkVars
<1> QED
  BY <1>2, <1>3, <1>5, <1>6 DEF SparkInv

\* Who holds a session, and what could have become of it.
LEMMA SparkStep ==
  ASSUME TypeOK, MetInv, SparkInv, PluginsStay, NEW r \in Runs, RunNext(r)
  PROVE  SparkInv'
<1> USE DEF Labels, Holding
<1>1. CASE Begin(r)
  <2>1. \A x \in Runs : x # r => met[x] \subseteq met'[x] /\ using'[x] = using[x]
    BY <1>1 DEF Begin, TypeOK
  <2>2. Registered("pyspark") => Registered("pyspark")'
    BY <1>1, SharedRuntimeAssumption DEF Begin, EnsurePlugins, Merged, Registered
  <2> QED
    BY <1>1, <2>1, <2>2, PlaceSpark DEF Begin
<1>2. CASE Enter(r)
  BY <1>2, PlaceSpark DEF Enter, pluginVars, Registered
<1>3. CASE Host(r)
  BY <1>3, PlaceSpark DEF Host, pluginVars, Registered
<1>4. CASE Produce(r)
  BY <1>4, PlaceSpark DEF Produce, pluginVars, Registered
<1>5. CASE Consume(r)
  <2>1. CASE OnSpark(r)
    BY <1>5, <2>1, SessionSpark DEF Consume, Underway, pluginVars
  <2>2. CASE ~OnSpark(r)
    BY <1>5, <2>2, PlainSpark DEF Consume, pluginVars
  <2> QED
    BY <2>1, <2>2
<1>6. CASE Write(r)
  <2>1. CASE OnSpark(r)
    BY <1>6, <2>1, SessionSpark DEF Write, Underway, pluginVars
  <2>2. CASE ~OnSpark(r)
    BY <1>6, <2>2, PlainSpark DEF Write, pluginVars
  <2> QED
    BY <2>1, <2>2
<1>7. CASE Finish(r)
  BY <1>7, ReleaseSpark DEF Finish, Underway, pluginVars
<1>8. CASE Report(r)
  BY <1>8, PlaceSpark DEF Report, pluginVars, Registered
<1>9. CASE Leave(r)
  BY <1>9, PlaceSpark DEF Leave, pluginVars, Registered
<1> QED
  BY <1>1, <1>2, <1>3, <1>4, <1>5, <1>6, <1>7, <1>8, <1>9 DEF RunNext

\* No run is disturbed but by one it has met: a run that is has begun, so that it keeps
\* whom it has met, and each disturbance is the work of one action.
LEMMA DisturbedStep ==
  ASSUME RuntimeInv, NEW r \in Runs, RunNext(r)
  PROVE  DisturbedOnlyByOverlap'
<1> SUFFICES ASSUME NEW x \in Runs
             PROVE  /\ consumed'[x] \in Maybe(Source(x)')
                    /\ reported'[x] \subseteq {x} \cup met'[x]
                    /\ x \in cut' => met'[x] # {}
                    /\ x \in starved' => \E o \in met'[x] : OnSpark(o)'
  BY DEF DisturbedOnlyByOverlap, Source
<1> USE DEF RuntimeInv
<1>1. setting' = setting /\ (pc[x] = "new" \/ met[x] \subseteq met'[x])
  BY StepMoves
<1>2. consumed'[x] \in Maybe(Source(x)')
  <2>0. passed \subseteq passed' /\ (passed' = passed \/ pc[r] = "running")
    BY DEF RunNext, Begin, Enter, Host, Produce, Consume, Write, Finish, Report, Leave, dataVars
  <2>1. consumed[x] \in Maybe(Source(x)')
    <3>1. CASE pc[x] = "new"
      BY <3>1 DEF NewInv, Maybe
    <3>2. CASE pc[x] # "new"
      <4>1. Source(x) \subseteq Source(x)'
        BY <1>1, <2>0, <3>2 DEF Source, TypeOK
      <4> QED
        BY <4>1 DEF DisturbedOnlyByOverlap, Source, Maybe
    <3> QED
      BY <3>1, <3>2
  <2>2. CASE Consume(r)
    <3>1. /\ consumed' = [consumed EXCEPT ![r] = stored[StoreOf(r)]]
          /\ stored[StoreOf(r)] \in Maybe(Source(r)) /\ met' = met /\ passed' = passed
      BY <2>2 DEF Consume, DataInv
    <3>2. Source(r)' = Source(r)
      BY <1>1, <3>1 DEF Source
    <3> QED
      BY <2>1, <3>1, <3>2 DEF TypeOK
  <2>3. CASE ~Consume(r)
    BY <2>1, <2>3 DEF RunNext, Begin, Enter, Host, Produce, Write, Finish, Report, Leave, dataVars
  <2> QED
    BY <2>2, <2>3
<1>3. reported'[x] \subseteq {x} \cup met'[x]
  <2>1. reported[x] \subseteq {x} \cup met'[x]
    BY <1>1 DEF NewInv, DisturbedOnlyByOverlap
  <2>2. CASE Report(r)
    <3>1. reported' = [reported EXCEPT ![r] = tasks[correlation]]
          /\ tasks[correlation] \subseteq {r} \cup met[r] /\ met' = met
      BY <2>2 DEF Report, FlowInv, InFlow
    <3> QED
      BY <2>1, <3>1 DEF TypeOK
  <2>3. CASE ~Report(r)
    BY <2>1, <2>3 DEF RunNext, Begin, Enter, Host, Produce, Consume, Write, Submit, Finish,
                      Leave, prefectVars
  <2> QED
    BY <2>2, <2>3
<1>4. ASSUME x \in cut' PROVE met'[x] # {}
  <2>1. CASE x \in cut
    BY <1>1, <2>1 DEF NewInv, DisturbedOnlyByOverlap
  <2>2. CASE x \notin cut
    <3>1. Leave(r)
      BY <1>4, <2>2 DEF RunNext, Begin, Enter, Host, Produce, Consume, Write, Finish, Report
    <3>2. r \in Underway /\ x \in Underway /\ x # r
      BY <1>4, <2>2, <3>1 DEF Leave, Inside, Underway
    <3> QED
      BY <3>1, <3>2 DEF Leave, MetInv
  <2> QED
    BY <2>1, <2>2
<1>5. ASSUME x \in starved' PROVE \E o \in met'[x] : OnSpark(o)'
  <2>1. CASE x \in starved
    BY <1>1, <2>1 DEF NewInv, DisturbedOnlyByOverlap, OnSpark
  <2>2. CASE x \notin starved
    <3>1. OnSpark(r) /\ (Consume(r) \/ Write(r)) /\ x = r
      BY <1>5, <2>2 DEF RunNext, Begin, Enter, Host, Produce, Consume, Write, Finish,
                        ReleaseSession, Report, Leave, sparkVars
    <3>2. CASE Consume(r)
      <4>1. handle[r] = None
        BY <3>2 DEF Consume, SparkInv, Holding
      <4>2. handle'[r] \in open'
        BY <3>1, <3>2, <4>1 DEF Consume, EnsureSession, TypeOK
      <4> QED
        BY <1>5, <2>2, <3>1, <3>2, <4>2 DEF Consume
    <3>3. CASE Write(r)
      <4>1. handle[r] # None /\ (Disturbed(r) \/ bound = None \/ bound \in open)
        BY <3>1, <3>3 DEF Write, SparkInv
      <4>2. bound' \notin open' /\ bound' # None /\ UNCHANGED <<bound, open, met>>
        BY <1>5, <2>2, <3>1, <3>3, <4>1 DEF Write, EnsureSession
      <4> QED
        BY <1>1, <3>1, <4>1, <4>2 DEF Disturbed, OnSpark
    <3> QED
      BY <3>1, <3>2, <3>3
  <2> QED
    BY <2>1, <2>2
<1> QED
  BY <1>2, <1>3, <1>4, <1>5

\* The tables only grow.
LEMMA PluginStep ==
  ASSUME TypeOK, PluginsStay, NEW r \in Runs, RunNext(r)
  PROVE  PluginsStay'
<1>1. CASE Begin(r)
  <2>1. \A n \in Plugins : plugins[n] # None => plugins'[n] = plugins[n]
    BY <1>1 DEF Begin, EnsurePlugins, Merged
  <2>2. using' = [using EXCEPT ![r] = plugins'] /\ Underway' \subseteq Underway \cup {r}
    BY <1>1 DEF Begin, Move, TypeOK, Underway
  <2> QED
    BY <2>1, <2>2 DEF PluginsStay, TypeOK, Underway
<1>2. CASE ~Begin(r)
  BY <1>2, LaterStep DEF PluginsStay
<1> QED
  BY <1>1, <1>2

LEMMA RuntimeInit == Init => RuntimeInv /\ PluginsStay
<1> SUFFICES ASSUME Init PROVE RuntimeInv /\ PluginsStay
  OBVIOUS
<1>1. TypeOK
  BY SharedRuntimeAssumption DEF Init, TypeOK, Maybe, Labels
<1>2. MetInv /\ NewInv /\ DataInv /\ PluginsStay
  BY SharedRuntimeAssumption DEF Init, MetInv, NewInv, DataInv, StoreOf, PluginsStay, Underway,
     Maybe
<1>3. FlowInv /\ SparkInv
  BY SharedRuntimeAssumption DEF Init, FlowInv, SparkInv, Early, InFlow
<1>4. DisturbedOnlyByOverlap
  BY SharedRuntimeAssumption DEF Init, DisturbedOnlyByOverlap, Maybe
<1> QED
  BY <1>1, <1>2, <1>3, <1>4 DEF RuntimeInv

LEMMA RuntimeStutter ==
  ASSUME RuntimeInv, PluginsStay, UNCHANGED vars
  PROVE  RuntimeInv' /\ PluginsStay'
<1> USE DEF vars, pluginVars, dataVars, sparkVars, prefectVars
<1>1. TypeOK' /\ MetInv' /\ NewInv'
  BY DEF RuntimeInv, TypeOK, MetInv, NewInv, Underway
<1>2. DataInv' /\ PluginsStay'
  BY DEF RuntimeInv, DataInv, Source, StoreOf, PluginsStay, Underway
<1>3. FlowInv'
  BY DEF RuntimeInv, FlowInv, OnPrefect
<1>4. SparkInv'
  BY DEF RuntimeInv, SparkInv, Disturbed, OnSpark, Abandoned, Registered
<1>5. DisturbedOnlyByOverlap'
  BY DEF RuntimeInv, DisturbedOnlyByOverlap, OnSpark
<1> QED
  BY <1>1, <1>2, <1>3, <1>4, <1>5 DEF RuntimeInv

LEMMA RuntimeNext ==
  RuntimeInv /\ PluginsStay /\ [Next]_vars => RuntimeInv' /\ PluginsStay'
<1> SUFFICES ASSUME RuntimeInv, PluginsStay, [Next]_vars PROVE RuntimeInv' /\ PluginsStay'
  OBVIOUS
<1>1. CASE UNCHANGED vars
  BY <1>1, RuntimeStutter
<1>2. CASE Next
  <2> PICK r \in Runs : RunNext(r)
    BY <1>2 DEF Next
  <2> QED
    BY TypeStep, MetStep, NewStep, DataStep, FlowStep, SparkStep, DisturbedStep, PluginStep
       DEF RuntimeInv
<1> QED
  BY <1>1, <1>2

LEMMA RuntimeSafe == Spec => [](RuntimeInv /\ PluginsStay)
  BY RuntimeInit, RuntimeNext, PTL DEF Spec

\* Every variable of the runtime keeps its type (PipelineRuntime and what its runs
\* share).
THEOREM RuntimeTypes == Spec => []TypeOK
<1>1. RuntimeInv => TypeOK
  BY DEF RuntimeInv
<1> QED
  BY <1>1, RuntimeSafe, PTL

\* What a run gets wrong (its inputs, unless its producer was passed over, its session,
\* its lifespan, the tasks in its report) it gets from a run it overlapped, however many
\* there are.
THEOREM DisturbedOnlyByOverlapHolds == Spec => []DisturbedOnlyByOverlap
<1>1. RuntimeInv => DisturbedOnlyByOverlap
  BY DEF RuntimeInv
<1> QED
  BY <1>1, RuntimeSafe, PTL

\* When nobody runs, the sessions made by the provider registered as local are stopped
\* (_ensure_spark_session, the end of execute, LocalSparkProvider.release).
THEOREM SessionsReleasedHolds == Spec => []SessionsReleased
<1>1. RuntimeInv => SessionsReleased
  BY DEF RuntimeInv, TypeOK, SparkInv, Holding, SessionsReleased, Underway, Abandoned
<1> QED
  BY <1>1, RuntimeSafe, PTL

\* Repeated discovery replaces no plugin under a run (ensure_plugins_for_profile).
THEOREM PluginsStayHolds == Spec => []PluginsStay
  BY RuntimeSafe, PTL
-----------------------------------------------------------------------------
(***************************************************************************)
(* The ResourceManager of the same runtime, for any number of runs, steps, *)
(* names and attempts.                                                     *)
(***************************************************************************)
\* The attempt may have resources in its kwargs; the task has begun and may still begin.
Working == {"acquiring", "providing", "body"}
Active(t) == place[t] \notin {"idle", "done", "gone"} \/ (place[t] = "idle" /\ attempt[t] > 0)

\* AttemptInv: a task under way is at an attempt, holds resources only while it works
\* and cleans up only in its cleanup.
AttemptInv ==
  /\ cancelled \subseteq mode.cancellable
  /\ \A t \in Tasks :
       /\ place[t] \notin {"idle", "done", "gone"} => attempt[t] > 0
       /\ place[t] = "idle" => attempt[t] < MaxAttempts
       /\ held[t] # {} => place[t] \in Working
       /\ doomed[t] # {} => place[t] = "cleaning"
\* LockInv: the lock is held by exactly the task that awaits a provider, and what it
\* awaits is still missing from the cache.
LockInv ==
  \A t \in Tasks :
    /\ lock = t <=> place[t] = "providing"
    /\ place[t] = "providing" => /\ asked[t] \in Missing(t)
                                  /\ cache[KeyOf(t, asked[t])] = Nothing
\* ScopeInv: what is cached, held or doomed belongs to the step and attempt it is under.
ScopeInv ==
  /\ \A key \in CacheKey : cache[key] # Nothing =>
       cache[key].name = key.name /\ Step(cache[key].by) = key.step /\ cache[key].attempt = key.attempt
  /\ \A t \in Tasks : \A r \in held[t] \cup doomed[t] :
       Step(r.by) = Step(t) /\ r.attempt = attempt[t]
\* OnceInv: a resource is set up at most once: nothing of a later attempt exists, and
\* what the current one set up it holds.
OnceInv ==
  \A r \in opened :
    /\ r.attempt <= attempt[r.by]
    /\ place[r.by] \in Working /\ r.attempt = attempt[r.by] => r \in held[r.by]
\* OpenedInv: only what was set up is cleaned up.
OpenedInv ==
  \A r \in Resources : closings[r] > 0 => r \in opened
\* DoomInv: what a task will clean up is live, out of the cache, and its alone.
DoomInv ==
  \A t \in Tasks : \A r \in doomed[t] :
    /\ r \in opened /\ closings[r] = 0
    /\ \A key \in CacheKey : cache[key] # r
    /\ \A u \in Tasks \ {t} : r \notin doomed[u]
\* TurnsInv: runs that take turns have no two tasks of different runs active.
TurnsInv ==
  OneRunAtATime => \A t, u \in Tasks : Run(t) # Run(u) /\ Active(t) => ~Active(u)
\* AliveInv: undisturbed, a cached resource is of an attempt whose scope is still to be
\* popped.
AliveInv ==
  Undisturbed => \A key \in CacheKey : cache[key] # Nothing =>
    place[cache[key].by] \in Working \cup {"left"} /\ attempt[cache[key].by] = key.attempt
\* KeptInv: undisturbed, what was set up is cleaned up, cached, or about to be cleaned up.
KeptInv ==
  Undisturbed => \A r \in opened :
    \/ closings[r] = 1
    \/ \E key \in CacheKey : cache[key] = r
    \/ \E t \in Tasks : r \in doomed[t]
\* OwnInv: undisturbed and in turns, a task holds and cleans up what it set up itself.
OwnInv ==
  OneRunAtATime /\ Undisturbed => \A t \in Tasks : \A r \in held[t] \cup doomed[t] : r.by = t

ManagerInv ==
  /\ ManagerTypes
  /\ AttemptInv
  /\ LockInv
  /\ ScopeInv
  /\ OpenedInv
  /\ OnceInv
  /\ DoomInv
  /\ CleanedAtMostOnce
  /\ CacheIsLive
  /\ TurnsInv
  /\ NotCleanedInUse
  /\ AliveInv
  /\ KeptInv
  /\ OwnInv

\* Two tasks differ in their run or their step.
LEMMA TaskDistinct ==
  ASSUME NEW t \in Tasks, NEW u \in Tasks, t # u
  PROVE  Run(t) # Run(u) \/ Step(t) # Step(u)
BY DEF Tasks, Run, Step

\* The fields of resources and tasks.
LEMMA Parts ==
  /\ \A r \in Resources : r.by \in Tasks /\ r.attempt \in 1..MaxAttempts /\ r.name \in Names
  /\ MaxAttempts \in Nat
  /\ Nothing \notin Tasks /\ Nothing \notin Resources
  /\ \A t \in Tasks : Run(t) \in RunIds /\ Step(t) \in Steps
BY ResourceAssumption DEF Resources, Tasks, Run, Step

\* The cache key of a name for the current attempt, and only that key.
LEMMA KeyParts ==
  ASSUME ManagerInv, NEW t \in Tasks, attempt[t] > 0,
         NEW n \in mode.names
  PROVE  /\ KeyOf(t, n) \in CacheKey /\ n \in Names
         /\ KeyOf(t, n).name = n /\ KeyOf(t, n).step = Step(t)
         /\ KeyOf(t, n).attempt = attempt[t]
         /\ \A key \in CacheKey : key.name = n /\ key.step = Step(t) /\ key.attempt = attempt[t]
              => key = KeyOf(t, n)
BY Parts, ResourceAssumption DEF ManagerInv, ManagerTypes, ModeType, CacheKey, KeyOf

\* Every action of a task keeps the invariant.
LEMMA BeginAttemptKeeps ==
  ASSUME ManagerInv, NEW task \in Tasks, BeginAttempt(task)
  PROVE  ManagerInv'
<1>. USE Parts DEF ManagerInv, BeginAttempt, ManagerTypes, WithoutLock, MayLock, Working,
            OneRunAtATime, Undisturbed, Active, Missing, KeyOf
<1>1. ManagerTypes'
  BY DEF AttemptInv
<1>2. AttemptInv' /\ LockInv' /\ OpenedInv' /\ OnceInv'
  BY DEF AttemptInv, LockInv, OpenedInv, OnceInv
<1>3. ScopeInv'
  BY DEF ScopeInv, AttemptInv
<1>4. DoomInv' /\ CleanedAtMostOnce' /\ CacheIsLive' /\ NotCleanedInUse'
  BY DEF DoomInv, CleanedAtMostOnce, CacheIsLive, NotCleanedInUse
<1>5. TurnsInv'
  BY DEF TurnsInv, Outside
<1>6. AliveInv' /\ KeptInv' /\ OwnInv'
  BY DEF AliveInv, KeptInv, OwnInv
<1>. QED  BY <1>1, <1>2, <1>3, <1>4, <1>5, <1>6

LEMMA InvokeKeeps ==
  ASSUME ManagerInv, NEW task \in Tasks, Invoke(task)
  PROVE  ManagerInv'
<1>. USE Parts DEF ManagerInv, Invoke, ManagerTypes, WithoutLock, MayLock, Working,
            OneRunAtATime, Undisturbed, Active, Missing, KeyOf
<1>1. ManagerTypes' /\ AttemptInv' /\ LockInv' /\ ScopeInv'
  BY DEF AttemptInv, LockInv, ScopeInv
<1>2. OpenedInv' /\ OnceInv' /\ DoomInv' /\ CleanedAtMostOnce'
  BY DEF OpenedInv, OnceInv, DoomInv, CleanedAtMostOnce
<1>3. CacheIsLive' /\ TurnsInv' /\ NotCleanedInUse' /\ AliveInv'
  BY DEF CacheIsLive, TurnsInv, NotCleanedInUse, AliveInv
<1>4. KeptInv' /\ OwnInv'
  BY DEF KeptInv, OwnInv
<1>. QED  BY <1>1, <1>2, <1>3, <1>4

LEMMA LeaveMiddlewareKeeps ==
  ASSUME ManagerInv, NEW task \in Tasks, LeaveMiddleware(task)
  PROVE  ManagerInv'
<1>. USE Parts DEF ManagerInv, LeaveMiddleware, ManagerTypes, WithoutLock, MayLock, Working,
            OneRunAtATime, Undisturbed, Active, Missing, KeyOf
<1>1. ManagerTypes' /\ AttemptInv' /\ LockInv' /\ ScopeInv'
  BY DEF AttemptInv, LockInv, ScopeInv
<1>2. OpenedInv' /\ OnceInv' /\ DoomInv' /\ CleanedAtMostOnce'
  BY DEF OpenedInv, OnceInv, DoomInv, CleanedAtMostOnce
<1>3. CacheIsLive' /\ TurnsInv' /\ NotCleanedInUse' /\ AliveInv'
  BY DEF CacheIsLive, TurnsInv, NotCleanedInUse, AliveInv
<1>4. KeptInv' /\ OwnInv'
  BY DEF KeptInv, OwnInv
<1>. QED  BY <1>1, <1>2, <1>3, <1>4

LEMMA TimeOutWaitingKeeps ==
  ASSUME ManagerInv, NEW task \in Tasks, TimeOutWaiting(task)
  PROVE  ManagerInv'
<1>. USE Parts DEF ManagerInv, TimeOutWaiting, ManagerTypes, WithoutLock, MayLock, Working,
            OneRunAtATime, Undisturbed, Active, Missing, KeyOf
<1>1. ManagerTypes' /\ AttemptInv' /\ LockInv' /\ ScopeInv'
  BY DEF AttemptInv, LockInv, ScopeInv
<1>2. OpenedInv' /\ OnceInv' /\ DoomInv' /\ CleanedAtMostOnce'
  BY DEF OpenedInv, OnceInv, DoomInv, CleanedAtMostOnce
<1>3. CacheIsLive' /\ TurnsInv' /\ NotCleanedInUse' /\ AliveInv'
  BY DEF CacheIsLive, TurnsInv, NotCleanedInUse, AliveInv
<1>4. KeptInv' /\ OwnInv'
  BY DEF KeptInv, OwnInv
<1>. QED  BY <1>1, <1>2, <1>3, <1>4

LEMMA PopScopeKeeps ==
  ASSUME ManagerInv, NEW task \in Tasks, PopScope(task)
  PROVE  ManagerInv'
<1>. USE Parts DEF ManagerInv, PopScope, ManagerTypes, WithoutLock, MayLock, Working,
            OneRunAtATime, Undisturbed, Active, Missing, KeyOf
<1>a. \A key \in CacheKey :
        /\ cache'[key] = IF key.step = Step(task) /\ key.attempt = attempt[task] THEN Nothing ELSE cache[key]
        /\ cache[key] \in Resources \cup {Nothing}
  BY DEF ScopeOf
<1>b. /\ cache' \in [CacheKey -> Resources \cup {Nothing}]
      /\ doomed[task] = {} /\ attempt[task] > 0
  BY <1>a DEF AttemptInv
<1>c. \A r : r \in doomed'[task] <=>
        /\ r # Nothing
        /\ \E key \in CacheKey : key.step = Step(task) /\ key.attempt = attempt[task] /\ cache[key] = r
  BY DEF ScopeOf
<1>d. doomed'[task] \subseteq Resources /\ \A t \in Tasks \ {task} : doomed'[t] = doomed[t]
  <2>1. \A t \in Tasks \ {task} : doomed'[t] = doomed[t]
    OBVIOUS
  <2>2. ASSUME NEW r \in doomed'[task] PROVE r \in Resources
    <3>1. PICK key \in CacheKey : cache[key] = r
      BY <1>c
    <3>. QED  BY <1>a, <1>c, <3>1
  <2>. QED  BY <2>1, <2>2
<1>e. doomed' \in [Tasks -> SUBSET Resources]
  BY <1>d
<1>1. ManagerTypes'
  BY <1>b, <1>e
<1>2. AttemptInv' /\ LockInv' /\ OpenedInv' /\ OnceInv'
  BY DEF AttemptInv, LockInv, OpenedInv, OnceInv
<1>3. ScopeInv'
  <2>1. \A r \in doomed'[task] : Step(r.by) = Step(task) /\ r.attempt = attempt[task]
    <3>. TAKE r \in doomed'[task]
    <3>1. PICK key \in CacheKey :
          /\ key.step = Step(task) /\ key.attempt = attempt[task]
          /\ cache[key] = r
      BY <1>c
    <3>. QED  BY <1>c, <3>1 DEF ScopeInv
  <2>. QED  BY <1>a, <1>d, <2>1 DEF ScopeInv
<1>4. DoomInv'
  <2>1. \A r \in doomed'[task] :
          /\ r \in opened /\ closings[r] = 0 /\ \A t \in Tasks : r \notin doomed[t]
          /\ \A key \in CacheKey : cache'[key] # r
    <3>. SUFFICES ASSUME NEW r \in doomed'[task]
                  PROVE  /\ r \in opened /\ closings[r] = 0 /\ \A t \in Tasks : r \notin doomed[t]
                         /\ \A key \in CacheKey : cache'[key] # r
      OBVIOUS
    <3>1. PICK key \in CacheKey :
          /\ key.step = Step(task) /\ key.attempt = attempt[task]
          /\ cache[key] = r
      BY <1>c
    <3>2. Step(r.by) = Step(task) /\ r.attempt = attempt[task] /\ r # Nothing
      BY <1>c, <3>1 DEF ScopeInv
    <3>3. \A k \in CacheKey : cache'[k] # r
      BY <1>a, <3>2 DEF ScopeInv
    <3>. QED  BY <3>1, <3>2, <3>3 DEF DoomInv, CacheIsLive
  <2>2. \A t \in Tasks \ {task} : \A r \in doomed[t] : \A key \in CacheKey : cache'[key] # r
    BY <1>a, <1>d DEF DoomInv
  <2>. QED  BY <1>d, <2>1, <2>2 DEF DoomInv
<1>5. CleanedAtMostOnce' /\ CacheIsLive' /\ TurnsInv' /\ NotCleanedInUse'
  BY DEF CleanedAtMostOnce, CacheIsLive, TurnsInv, NotCleanedInUse
<1>6. AliveInv'
  <2>1. \A t \in Tasks : place'[t] # place[t] => t = task
    OBVIOUS
  <2>2. ASSUME Undisturbed, NEW key \in CacheKey, cache'[key] # Nothing
        PROVE  place'[cache'[key].by] \in Working \cup {"left"} /\ attempt[cache'[key].by] = key.attempt
    <3>1. cache'[key] = cache[key] /\ cache[key] \in Resources
      BY <1>a, <2>2
    <3>2. cache[key].by # task
      BY <1>a, <2>2, <3>1 DEF AliveInv, ScopeInv
    <3>. QED  BY <2>2, <3>1, <3>2 DEF AliveInv
  <2>. QED  BY <2>2 DEF AliveInv, Undisturbed
<1>7. KeptInv'
  <2>1. ASSUME Undisturbed, NEW r \in opened
        PROVE  \/ closings[r] = 1
               \/ \E key \in CacheKey : cache'[key] = r
               \/ \E t \in Tasks : r \in doomed'[t]
    <3>1. CASE \E key \in CacheKey : cache[key] = r
      <4>. PICK key \in CacheKey : cache[key] = r
        BY <3>1
      <4>. CASE key.step = Step(task) /\ key.attempt = attempt[task]
        BY <1>c
      <4>. CASE ~(key.step = Step(task) /\ key.attempt = attempt[task])
        BY <1>a
      <4>. QED  OBVIOUS
    <3>2. CASE \E t \in Tasks : r \in doomed[t]
      BY <1>b, <1>d, <3>2
    <3>. QED  BY <2>1, <3>1, <3>2 DEF KeptInv
  <2>. QED  BY <2>1 DEF KeptInv, Undisturbed
<1>8. OwnInv'
  <2>1. ASSUME OneRunAtATime, Undisturbed, NEW r \in doomed'[task]
        PROVE  r.by = task
    <3>1. PICK key \in CacheKey :
          /\ key.step = Step(task) /\ key.attempt = attempt[task]
          /\ cache[key] = r
      BY <1>c
    <3>2. r \in Resources /\ Step(r.by) = Step(task) /\ Active(r.by)
      BY <1>c, <1>d, <2>1, <3>1 DEF AliveInv, ScopeInv, Active
    <3>3. Run(r.by) = Run(task)
      BY <2>1, <3>2 DEF TurnsInv, Active
    <3>. QED  BY <3>2, <3>3, TaskDistinct
  <2>. QED  BY <1>d, <2>1 DEF OwnInv, OneRunAtATime, Undisturbed
<1>. QED  BY <1>1, <1>2, <1>3, <1>4, <1>5, <1>6, <1>7, <1>8

LEMMA CleanUpKeeps ==
  ASSUME ManagerInv, NEW task \in Tasks, CleanUp(task)
  PROVE  ManagerInv'
<1>. USE Parts DEF ManagerInv, CleanUp, ManagerTypes, WithoutLock, MayLock, Working,
            OneRunAtATime, Undisturbed, Active, Missing, KeyOf
<1>1. ManagerTypes' /\ AttemptInv' /\ LockInv' /\ ScopeInv'
  BY DEF AttemptInv, LockInv, ScopeInv
<1>2. OpenedInv'
  BY DEF OpenedInv, DoomInv
<1>3. OnceInv' /\ DoomInv' /\ TurnsInv' /\ AliveInv'
  BY DEF OnceInv, DoomInv, TurnsInv, AliveInv
<1>4. CleanedAtMostOnce'
  BY DEF CleanedAtMostOnce, DoomInv
<1>5. CacheIsLive'
  BY DEF CacheIsLive, DoomInv, OnceInv, ScopeInv, LockInv
<1>6. NotCleanedInUse'
  <2>1. PICK r \in doomed[task] : closings' = [closings EXCEPT ![r] = @ + 1]
    OBVIOUS
  <2>2. ASSUME OneRunAtATime, NEW t \in Tasks
        PROVE  r \notin held[t]
    <3>. SUFFICES ASSUME r \in held[t] PROVE FALSE
      OBVIOUS
    <3>1. t # task /\ Active(t) /\ Active(task) /\ Step(t) = Step(task)
      BY <2>1 DEF AttemptInv, ScopeInv, Active
    <3>. QED  BY <2>2, <3>1, TaskDistinct DEF TurnsInv
  <2>. QED  BY <2>1, <2>2 DEF NotCleanedInUse, OneRunAtATime
<1>7. KeptInv'
  <2>1. ASSUME Undisturbed, NEW r \in opened
        PROVE  \/ closings'[r] = 1
               \/ \E key \in CacheKey : cache[key] = r
               \/ \E t \in Tasks : r \in doomed'[t]
    <3>1. PICK s \in doomed[task] :
          /\ closings' = [closings EXCEPT ![s] = @ + 1]
          /\ doomed' = [doomed EXCEPT ![task] = @ \ {s}]
      BY <2>1 DEF Undisturbed
    <3>2. CASE r = s
      BY <3>1, <3>2 DEF DoomInv
    <3>3. CASE r # s
      BY <2>1, <3>1, <3>3 DEF KeptInv
    <3>. QED  BY <3>2, <3>3
  <2>. QED  BY <2>1 DEF KeptInv, Undisturbed
<1>8. OwnInv'
  BY DEF OwnInv
<1>. QED  BY <1>1, <1>2, <1>3, <1>4, <1>5, <1>6, <1>7, <1>8

LEMMA EndAttemptKeeps ==
  ASSUME ManagerInv, NEW task \in Tasks, EndAttempt(task)
  PROVE  ManagerInv'
<1>. USE Parts DEF ManagerInv, EndAttempt, ManagerTypes, WithoutLock, MayLock, Working,
            OneRunAtATime, Undisturbed, Active, Missing, KeyOf
<1>1. ManagerTypes' /\ AttemptInv' /\ LockInv' /\ ScopeInv'
  BY DEF AttemptInv, LockInv, ScopeInv
<1>2. OpenedInv' /\ OnceInv' /\ DoomInv' /\ CleanedAtMostOnce'
  BY DEF OpenedInv, OnceInv, DoomInv, CleanedAtMostOnce
<1>3. CacheIsLive' /\ TurnsInv' /\ NotCleanedInUse' /\ AliveInv'
  BY DEF CacheIsLive, TurnsInv, NotCleanedInUse, AliveInv
<1>4. KeptInv' /\ OwnInv'
  BY DEF KeptInv, OwnInv
<1>. QED  BY <1>1, <1>2, <1>3, <1>4

LEMMA UnwindKeeps ==
  ASSUME ManagerInv, NEW task \in Tasks, Unwind(task)
  PROVE  ManagerInv'
<1>. USE Parts DEF ManagerInv, Unwind, ManagerTypes, WithoutLock, MayLock, Working,
            OneRunAtATime, Undisturbed, Active, Missing, KeyOf
<1>1. ManagerTypes' /\ AttemptInv' /\ LockInv' /\ ScopeInv'
  BY DEF AttemptInv, LockInv, ScopeInv
<1>2. OpenedInv' /\ OnceInv' /\ DoomInv' /\ CleanedAtMostOnce'
  BY DEF OpenedInv, OnceInv, DoomInv, CleanedAtMostOnce
<1>3. CacheIsLive' /\ TurnsInv' /\ NotCleanedInUse' /\ OwnInv'
  BY DEF CacheIsLive, TurnsInv, NotCleanedInUse, OwnInv
<1>4. AliveInv'
  BY DEF AliveInv, Undisturbed, AttemptInv
<1>5. KeptInv'
  BY DEF KeptInv, Undisturbed, AttemptInv
<1>. QED  BY <1>1, <1>2, <1>3, <1>4, <1>5

LEMMA HitKeeps ==
  ASSUME ManagerInv, NEW task \in Tasks, NEW name \in mode.names,
         Hit(task, name)
  PROVE  ManagerInv'
<1>. USE Parts DEF ManagerInv, Hit, ManagerTypes, WithoutLock, MayLock, Working,
            OneRunAtATime, Undisturbed, Active, Missing, KeyOf
<1>a. attempt[task] > 0 /\ name \in Names /\ KeyOf(task, name) \in CacheKey
  BY KeyParts DEF AttemptInv
<1>b. /\ KeyOf(task, name).name = name /\ KeyOf(task, name).step = Step(task)
      /\ KeyOf(task, name).attempt = attempt[task]
  BY <1>a, KeyParts
<1> DEFINE found == cache[KeyOf(task, name)]
<1>c. /\ found \in Resources /\ found.name = name
      /\ Step(found.by) = Step(task) /\ found.attempt = attempt[task]
  BY <1>a, <1>b DEF ScopeInv
<1>d. held' = [held EXCEPT ![task] = @ \cup {found}] /\ found \in opened /\ closings[found] = 0
  BY <1>a DEF CacheIsLive
<1> HIDE DEF found
<1>1. ManagerTypes'
  BY <1>c, <1>d
<1>2. AttemptInv' /\ LockInv' /\ OpenedInv' /\ OnceInv'
  BY DEF AttemptInv, LockInv, OpenedInv, OnceInv
<1>3. ScopeInv'
  BY <1>c, <1>d DEF ScopeInv
<1>4. DoomInv' /\ CleanedAtMostOnce' /\ CacheIsLive' /\ TurnsInv'
  BY DEF DoomInv, CleanedAtMostOnce, CacheIsLive, TurnsInv
<1>5. NotCleanedInUse'
  BY <1>c, <1>d DEF NotCleanedInUse, OneRunAtATime
<1>6. AliveInv' /\ KeptInv'
  BY DEF AliveInv, KeptInv
<1>7. OwnInv'
  <2>1. ASSUME OneRunAtATime, Undisturbed
        PROVE  found.by = task
    <3>1. Active(found.by) /\ Active(task)
      BY <1>a, <1>c, <2>1 DEF AliveInv, Active, found
    <3>. QED  BY <1>c, <2>1, <3>1, TaskDistinct DEF TurnsInv
  <2>. QED  BY <1>d, <2>1 DEF OwnInv, OneRunAtATime, Undisturbed
<1>. QED  BY <1>1, <1>2, <1>3, <1>4, <1>5, <1>6, <1>7

LEMMA MissKeeps ==
  ASSUME ManagerInv, NEW task \in Tasks, NEW name \in mode.names,
         Miss(task, name)
  PROVE  ManagerInv'
<1>. USE Parts DEF ManagerInv, Miss, ManagerTypes, WithoutLock, MayLock, Working,
            OneRunAtATime, Undisturbed, Active, Missing, KeyOf
<1>1. ManagerTypes'
  <2>1. name \in Names
    BY KeyParts DEF AttemptInv
  <2>. QED  BY <2>1
<1>2. AttemptInv' /\ LockInv' /\ ScopeInv' /\ OpenedInv'
  BY DEF AttemptInv, LockInv, ScopeInv, OpenedInv
<1>3. OnceInv' /\ DoomInv' /\ CleanedAtMostOnce' /\ CacheIsLive'
  BY DEF OnceInv, DoomInv, CleanedAtMostOnce, CacheIsLive
<1>4. TurnsInv' /\ NotCleanedInUse' /\ AliveInv' /\ KeptInv'
  BY DEF TurnsInv, NotCleanedInUse, AliveInv, KeptInv
<1>5. OwnInv'
  BY DEF OwnInv
<1>. QED  BY <1>1, <1>2, <1>3, <1>4, <1>5

LEMMA ProvideKeeps ==
  ASSUME ManagerInv, NEW task \in Tasks, Provide(task)
  PROVE  ManagerInv'
<1>. USE Parts DEF ManagerInv, Provide, ManagerTypes, WithoutLock, MayLock, Working,
            OneRunAtATime, Undisturbed, Active, Missing, KeyOf
<1> DEFINE name == asked[task]
           new == [by |-> task, attempt |-> attempt[task], name |-> name]
           key == KeyOf(task, name)
<1>0. name \in mode.names /\ name \in Missing(task) /\ cache[key] = Nothing /\ attempt[task] > 0
  BY DEF LockInv, Missing, AttemptInv
<1>a. key \in CacheKey /\ key.name = name /\ key.step = Step(task) /\ key.attempt = attempt[task]
  BY <1>0, KeyParts
<1>b. /\ new \in Resources /\ new.by = task /\ new.attempt = attempt[task] /\ new.name = name
      /\ new # Nothing
  BY <1>0, KeyParts DEF Resources
<1>c. /\ cache' = [cache EXCEPT ![key] = new] /\ held' = [held EXCEPT ![task] = @ \cup {new}]
      /\ opened' = opened \cup {new}
  OBVIOUS
<1>d. new \notin opened
  BY <1>0, <1>b DEF OnceInv, Missing
<1>e. closings[new] = 0 /\ \A k \in CacheKey : cache[k] # new
  BY <1>b, <1>d DEF OpenedInv, CacheIsLive
<1> HIDE DEF new, key, name
<1>1. ManagerTypes'
  <2>1. cache' \in [CacheKey -> Resources \cup {Nothing}]
    <3>1. cache \in [CacheKey -> Resources \cup {Nothing}]
      OBVIOUS
    <3>. HIDE DEF Provide, ManagerInv, ManagerTypes
    <3>. QED  BY <1>a, <1>b, <1>c, <3>1
  <2>2. held' \in [Tasks -> SUBSET Resources] /\ opened' \subseteq Resources
    BY <1>b, <1>c
  <2>. QED  BY <2>1, <2>2
<1>2. AttemptInv' /\ LockInv' /\ CleanedAtMostOnce' /\ TurnsInv'
  BY DEF AttemptInv, LockInv, CleanedAtMostOnce, TurnsInv
<1>3. ScopeInv'
  BY <1>a, <1>b, <1>c DEF ScopeInv
<1>4. OpenedInv'
  BY <1>c DEF OpenedInv
<1>5. OnceInv'
  BY <1>b, <1>c DEF OnceInv, AttemptInv
<1>6. DoomInv'
  BY <1>a, <1>b, <1>c, <1>d DEF DoomInv
<1>7. CacheIsLive'
  BY <1>a, <1>b, <1>c, <1>e DEF CacheIsLive
<1>8. NotCleanedInUse'
  BY <1>c, <1>e DEF NotCleanedInUse, OneRunAtATime
<1>9. AliveInv'
  BY <1>a, <1>b, <1>c DEF AliveInv, Undisturbed
<1>10. KeptInv'
  <2>1. ASSUME Undisturbed, NEW r \in opened'
        PROVE  \/ closings[r] = 1
               \/ \E k \in CacheKey : cache'[k] = r
               \/ \E t \in Tasks : r \in doomed[t]
    <3>1. CASE r = new
      BY <1>a, <1>c, <3>1
    <3>2. CASE r # new
      <4>1. \A k \in CacheKey : cache[k] = r => cache'[k] = r
        BY <1>0, <1>b, <1>c, <2>1, <3>2
      <4>. QED  BY <1>c, <2>1, <3>2, <4>1 DEF KeptInv
    <3>. QED  BY <3>1, <3>2
  <2>. QED  BY <2>1 DEF KeptInv, Undisturbed
<1>11. OwnInv'
  BY <1>b, <1>c DEF OwnInv, OneRunAtATime, Undisturbed
<1>. QED  BY <1>1, <1>2, <1>3, <1>4, <1>5, <1>6, <1>7, <1>8, <1>9, <1>10, <1>11


\* A cancellation alone disturbs no resource.
LEMMA CancelKeeps ==
  ASSUME ManagerInv, NEW run \in RunIds, Cancel(run)
  PROVE  ManagerInv'
<1>. USE DEF ManagerInv, Cancel
<1>1. ManagerTypes' /\ AttemptInv'
  BY ResourceAssumption DEF ManagerTypes, AttemptInv, ModeType
<1>2. LockInv' /\ ScopeInv' /\ OnceInv' /\ TurnsInv'
  BY DEF LockInv, ScopeInv, OnceInv, TurnsInv, Missing, KeyOf, Active, OneRunAtATime
<1>3. OpenedInv' /\ DoomInv' /\ CleanedAtMostOnce' /\ CacheIsLive' /\ NotCleanedInUse'
  BY DEF OpenedInv, DoomInv, CleanedAtMostOnce, CacheIsLive, NotCleanedInUse,
         OneRunAtATime
<1>4. AliveInv' /\ KeptInv' /\ OwnInv'
  BY DEF AliveInv, KeptInv, OwnInv, Undisturbed, OneRunAtATime
<1>. QED  BY <1>1, <1>2, <1>3, <1>4

LEMMA ManagerStutters ==
  ASSUME ManagerInv, UNCHANGED managerVars
  PROVE  ManagerInv'
BY DEF managerVars, ManagerInv, ManagerTypes, AttemptInv, LockInv, ScopeInv, OpenedInv, OnceInv, DoomInv,
       CleanedAtMostOnce, CacheIsLive, TurnsInv, NotCleanedInUse, AliveInv, KeptInv,
           OwnInv,
       Missing, KeyOf, Active, OneRunAtATime, Undisturbed

LEMMA ManagerStarts ==
  ASSUME ManagerInit
  PROVE  ManagerInv
<1>. USE DEF ManagerInit
<1>1. ManagerTypes /\ AttemptInv /\ LockInv
  BY ResourceAssumption DEF ManagerTypes, AttemptInv, LockInv, ModeType
<1>2. ScopeInv /\ OpenedInv /\ OnceInv /\ DoomInv
  BY DEF ScopeInv, OpenedInv, OnceInv, DoomInv
<1>3. CleanedAtMostOnce /\ CacheIsLive /\ TurnsInv /\ NotCleanedInUse
  BY DEF CleanedAtMostOnce, CacheIsLive, TurnsInv, NotCleanedInUse, Active
<1>4. AliveInv /\ KeptInv /\ OwnInv
  BY DEF AliveInv, KeptInv, OwnInv
<1>. QED  BY <1>1, <1>2, <1>3, <1>4 DEF ManagerInv

LEMMA ManagerInductive ==
  ASSUME ManagerInv, [ManagerNext]_managerVars
  PROVE  ManagerInv'
<1>1. CASE UNCHANGED managerVars
  BY <1>1, ManagerStutters
<1>2. ASSUME NEW task \in Tasks, TaskStep(task) PROVE ManagerInv'
  <2>1. CASE Get(task)
    BY <2>1, HitKeeps, MissKeeps DEF Get
  <2>2. CASE BeginAttempt(task) \/ Provide(task) \/ Invoke(task) \/ LeaveMiddleware(task)
    BY <2>2, BeginAttemptKeeps, ProvideKeeps, InvokeKeeps, LeaveMiddlewareKeeps
  <2>3. CASE PopScope(task) \/ CleanUp(task) \/ EndAttempt(task) \/ Unwind(task)
    BY <2>3, PopScopeKeeps, CleanUpKeeps, EndAttemptKeeps, UnwindKeeps
  <2>. QED  BY <1>2, <2>1, <2>2, <2>3 DEF TaskStep
<1>3. ASSUME NEW task \in Tasks, TimeOutWaiting(task) PROVE ManagerInv'
  BY <1>3, TimeOutWaitingKeeps
<1>4. ASSUME NEW run \in RunIds, Cancel(run) PROVE ManagerInv'
  BY <1>4, CancelKeeps
<1>5. CASE AllOver
  BY <1>5, ManagerStutters DEF AllOver
<1>. QED  BY <1>1, <1>2, <1>3, <1>4, <1>5 DEF ManagerNext

\* The inductive invariant gives what the run checks.
LEMMA ManagerSafe ==
  ASSUME ManagerInv
  PROVE  CacheIsSound /\ UndisturbedScopes
<1>. USE Parts DEF ManagerInv
<1>1. NothingLeaks
  <2>. SUFFICES ASSUME Undisturbed, \A task \in Tasks : place[task] = "done",
      NEW r \in opened
                PROVE  closings[r] = 1
    BY DEF NothingLeaks
  <2>1. \A t \in Tasks : r \notin doomed[t]
    BY DEF AttemptInv
  <2>2. \A key \in CacheKey : cache[key] # r
    BY DEF AliveInv, ManagerTypes, Working
  <2>. QED  BY <2>1, <2>2 DEF KeptInv
<1>2. FreshWhenAlone
  BY DEF FreshWhenAlone, FreshPerAttempt, OwnInv, ScopeInv
<1>3. CleanedUpUndisturbed
  <2>. SUFFICES ASSUME OneRunAtATime, Undisturbed, NEW r \in opened,
                       place[r.by] \in {"idle", "done", "gone"} \/ attempt[r.by] > r.attempt
                PROVE  closings[r] = 1
    BY DEF CleanedUpUndisturbed, CleanedUp
  <2>0. r \in Resources /\ attempt[r.by] \in Nat
    BY ResourceAssumption DEF ManagerTypes
  <2>1. \A t \in Tasks : r \notin doomed[t]
    BY <2>0 DEF AttemptInv, OwnInv, ScopeInv
  <2>2. \A key \in CacheKey : cache[key] # r
    BY <2>0 DEF AliveInv, ScopeInv, Working
  <2>. QED  BY <2>1, <2>2 DEF KeptInv
<1>. QED  BY <1>1, <1>2, <1>3 DEF CacheIsSound, UndisturbedScopes

\* Whatever runs share the manager, whichever cleanup raises and whoever is cancelled:
\* what get hands out is live while cached, is cleaned up once at most, under no attempt
\* of runs that take turns, and, undisturbed, once in the end (ResourceManager.get and
\* cleanup_scope).
THEOREM CacheIsSoundHolds == ManagerSpec => []CacheIsSound
<1>1. ManagerInit => ManagerInv
  BY ManagerStarts
<1>2. ManagerInv /\ [ManagerNext]_managerVars => ManagerInv'
  BY ManagerInductive
<1>3. ManagerInv => CacheIsSound
  BY ManagerSafe
<1>. QED  BY <1>1, <1>2, <1>3, PTL DEF ManagerSpec

\* The scope "attempt" is kept at both ends by runs that take turns undisturbed: an
\* attempt works with its own resources, and leaves none behind.
THEOREM UndisturbedScopesHolds == ManagerSpec => []UndisturbedScopes
<1>1. ManagerInit => ManagerInv
  BY ManagerStarts
<1>2. ManagerInv /\ [ManagerNext]_managerVars => ManagerInv'
  BY ManagerInductive
<1>3. ManagerInv => UndisturbedScopes
  BY ManagerSafe
<1>. QED  BY <1>1, <1>2, <1>3, PTL DEF ManagerSpec
=============================================================================
