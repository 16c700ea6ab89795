-------------------------- MODULE PortableTransforms --------------------------
(***************************************************************************)
(* A portable transformation is authored once, as a sequence of relational *)
(* actions; every compiler says in its analysis whether it supports the    *)
(* definition, and lowers what it accepted onto its own library.  Nothing  *)
(* runs concurrently here: the question is whether it matters which engine *)
(* a profile selects.                                                      *)
(*                                                                         *)
(* A frame has columns and rows, a row one value per column.  The order of *)
(* the rows counts for a sort and the limit behind it only.  Each action   *)
(* works on the result of the one before; the second frame of a join, a    *)
(* union or a set operation is the other input port.                       *)
(***************************************************************************)
EXTENDS PortableExpressions

CONSTANTS
  Inputs,       \* what the two input ports may hold: [left, right]
  Actions,      \* what may be authored
  Dialects,     \* what the SQL compiler may be connected to
  MaxActions    \* bound: the actions of a definition

None == "none"

\* No frame is empty at the start, nor is a column null throughout.
ASSUME PortableAssumption ==
  /\ MaxActions \in Nat \ {0} /\ Dialects \subseteq {"sqlite", "postgresql"}
  /\ \A i \in Inputs : \A t \in {i.left, i.right} :
       \A c \in DOMAIN t.columns : \E r \in ToSet(t.rows) : r[c] # Null

Frame(columns, rows) == [columns |-> columns, rows |-> rows, raised |-> FALSE]
Raised == [columns |-> <<>>, rows |-> <<>>, raised |-> TRUE]

VARIABLES
  inputs, dialect,    \* chosen once, never written
  definition, schema, \* the authored actions, the schema_fields of the last FrameExpr
  phase,              \* authoring or running
  accepted,           \* the engines whose analysis found nothing
  next,               \* the action to be lowered next
  frame,              \* per engine
  departed            \* the engines that did something of their own: see Departs

vars == <<inputs, dialect, definition, schema, phase, accepted, next, frame, departed>>

Init ==
  /\ inputs \in Inputs /\ dialect \in Dialects
  /\ definition = <<>> /\ schema = inputs.left.columns /\ phase = "authoring"
  /\ accepted = {} /\ next = 1 /\ departed = {}
  /\ frame = [e \in Engine |-> inputs.left]

(***************************************************************************)
(* Frames                                                                  *)
(***************************************************************************)
Without(columns, drop) == SelectSeq(columns, LAMBDA c : c \notin drop)
NamesOf(items) == [i \in DOMAIN items |-> items[i].name]
Added(columns, names) == columns \o Without(names, ToSet(columns))
Renamed(columns, mapping) ==
  [i \in DOMAIN columns |->
     IF \E m \in ToSet(mapping) : m.from = columns[i]
     THEN (CHOOSE m \in ToSet(mapping) : m.from = columns[i]).to ELSE columns[i]]

Has(t, c) == c \in ToSet(t.columns)
At(t, c) == CHOOSE i \in DOMAIN t.columns : t.columns[i] = c
Cells(t, j, names) == [i \in DOMAIN names |-> t.rows[j][At(t, names[i])]]
NullIn(t, c) == Has(t, c) /\ \E row \in ToSet(t.rows) : row[At(t, c)] = Null
\* Every name is there, and there once.
Readable(t, names) ==
  \A c \in names : Cardinality({i \in DOMAIN t.columns : t.columns[i] = c}) = 1

\* Some order of a set, where none is promised.
Listed(set) == FoldSet(LAMBDA x, s : Append(s, x), <<>>, set)
Kept(t, places) ==
  LET order == SelectSeq([j \in DOMAIN t.rows |-> j], LAMBDA j : j \in places)
  IN  Frame(t.columns, [j \in DOMAIN order |-> t.rows[order[j]]])
\* The columns in this order, null where the frame has none of the name.
Padded(t, names) ==
  Frame(names, [j \in DOMAIN t.rows |->
                  [i \in DOMAIN names |->
                     IF Has(t, names[i]) THEN t.rows[j][At(t, names[i])] ELSE Null]])
\* The first row of every value of the keys.
FirstPer(t, keys) ==
  Kept(t, {j \in DOMAIN t.rows : \A i \in 1..(j - 1) : Cells(t, i, keys) # Cells(t, j, keys)})

(***************************************************************************)
(* Authoring.  schema_fields becomes the output schema of the exported     *)
(* definition; the actions that bring columns from elsewhere leave it      *)
(* alone.                                                                  *)
(***************************************************************************)
\* Mutant of SchemaAfter: a rename leaves the schema alone.
SchemaUnrenamed(columns, a) ==
  CASE a.op = "project" -> NamesOf(a.fields)
    [] a.op = "with_fields" -> Added(columns, NamesOf(a.fields))
    [] a.op = "drop_fields" -> Without(columns, a.names)
    [] OTHER -> columns
SchemaAfter(columns, a) ==
  CASE a.op = "project" -> NamesOf(a.fields)
    [] a.op = "with_fields" -> Added(columns, NamesOf(a.fields))
    [] a.op = "drop_fields" -> LET left == Without(columns, a.names)
                               IN  IF left = <<>> THEN columns ELSE left
    [] a.op = "rename_fields" -> Renamed(columns, a.mapping)
    [] OTHER -> columns

LeftOnly(a) == a.op = "join" /\ a.how \in {"semi", "anti"}
Widens(a) ==
  \/ a.op = "join" /\ ~LeftOnly(a)
  \/ a.op = "aggregate"
  \/ a.op = "union" /\ a.allowMissing

\* What an author may count on: the columns after the actions, in every engine.
Known(actions) ==
  FoldLeft(LAMBDA columns, a :
             CASE a.op = "aggregate" -> a.by \o NamesOf(a.aggs)
               [] a.op # "aggregate" /\ Widens(a) -> Added(columns, inputs.right.columns)
               [] OTHER -> SchemaAfter(columns, a),
           inputs.left.columns, actions)

Windows(f) == ToSet(f.window)
AssignedFrom(f) ==
  UNION {ToSet(w.partition) \cup {k.column : k \in ToSet(w.order)} \cup ({w.column} \ {None}) :
           w \in Windows(f)}
    \cup (IF f.window = <<>> THEN Fields(f.expression) ELSE {})
ReadsOf(a) ==
  CASE a.op = "filter" -> Fields(a.predicate)
    [] a.op = "explode" -> {a.column}
    [] a.op = "project" -> UNION {Fields(f.expression) : f \in ToSet(a.fields)}
    [] a.op = "with_fields" -> UNION {AssignedFrom(f) : f \in ToSet(a.fields)}
    [] a.op = "aggregate" -> ToSet(a.by) \cup ({g.column : g \in ToSet(a.aggs)} \ {None})
    [] a.op = "sort" -> {k.column : k \in ToSet(a.keys)}
    [] a.op = "join" -> IF a.how = "cross" THEN {} ELSE ToSet(a.on)
    [] a.op = "deduplicate" -> ToSet(a.keys)
    [] OTHER -> {}
ReadsEarlier(a) ==
  \E i, j \in DOMAIN a.fields : i < j /\ a.fields[i].name \in AssignedFrom(a.fields[j])

\* Which rows are left is open: a limit, and one row per key.
Opens(a) == a.op = "limit" \/ (a.op = "deduplicate" /\ a.keys # <<>>)

Author(a) ==
  /\ phase = "authoring" /\ Len(definition) < MaxActions
  /\ definition # <<>> => ~Opens(Last(definition))
  /\ LET known == Known(definition)
         after == Known(Append(definition, a))
     IN  /\ ReadsOf(a) \subseteq ToSet(known)
         /\ a.op = "drop_fields" => Without(known, a.names) # <<>>
         /\ IsInjective(after)
  /\ definition' = Append(definition, a)
  /\ schema' = SchemaAfter(schema, a)
  /\ UNCHANGED <<inputs, dialect, phase, accepted, next, frame, departed>>

(***************************************************************************)
(* Analysis                                                                *)
(***************************************************************************)
AggregateFunctions == {"sum", "min", "max", "count", "count_all", "count_distinct"}
WindowNeeds(w) ==
  {"window", w.function}
               \cup (IF w.frame THEN {"window_frame"} ELSE {})
               \cup (IF w.function \in AggregateFunctions THEN {"windowed_aggregate"} ELSE {})
\* The action and the functions it calls.
Requirements(a) ==
  {a.op} \cup
  CASE a.op = "filter" -> FunctionsOf(a.predicate)
    [] a.op \in {"project", "with_fields"} ->
         UNION {FunctionsOf(f.expression) \cup UNION {WindowNeeds(w) : w \in Windows(f)} :
                  f \in ToSet(a.fields)}
    [] a.op = "aggregate" -> {g.function : g \in ToSet(a.aggs)}
    [] OTHER -> {}
JoinModes(a) == {a.how, a.collision} \cup (IF a.predicate THEN {"predicate"} ELSE {})
UnionModes(a) ==
  {a.mode} \cup (IF a.mode = "byPosition" /\ a.allowMissing THEN {"missing_columns"} ELSE {})
Modes(a) ==
  CASE a.op = "join" -> JoinModes(a)
    [] a.op = "union" -> UnionModes(a)
    [] OTHER -> {}

Relational ==
  {"filter", "project", "with_fields", "drop_fields", "rename_fields", "join", "union",
   "aggregate", "sort", "distinct", "deduplicate", "limit"}
  \cup {"fail", "byName", "byPosition"}
  \cup {"inner", "left", "right", "full", "semi", "anti", "cross"}
  \cup AggregateFunctions
PandasClaims == Relational \cup KernelFunctions
SqlClaims == Relational \cup KernelFunctions
PolarsClaims == Relational \cup KernelFunctions \cup WaveFunctions \cup {"explode", "window"}
SparkClaims == PolarsClaims \cup {"map"}
Claims(e) ==
  CASE e = "polars" -> PolarsClaims
    [] e = "pandas" -> PandasClaims
    [] e = "pyspark" -> SparkClaims
    [] e = "sql" -> SqlClaims

Supports(e, a) == Requirements(a) \cup Modes(a) \subseteq Claims(e)

\* Every compiler analyzes the definition, and knows of no other.
Analyze ==
  /\ phase = "authoring" /\ definition # <<>>
  /\ phase' = "running"
  /\ accepted' = {e \in Engine : \A a \in ToSet(definition) : Supports(e, a)}
  /\ UNCHANGED <<inputs, dialect, definition, schema, next, frame, departed>>

(***************************************************************************)
(* Lowering: apply_action of the four compilers, on what their libraries   *)
(* make of it.  t is the frame the action works on, o the other one.       *)
(***************************************************************************)
Env(t, j) == [c \in ToSet(t.columns) |-> t.rows[j][At(t, c)]]
Filter(e, t, a) ==
  LET Holding(j) == Value(e, dialect, Env(t, j), a.predicate)
  IN  IF \E j \in DOMAIN t.rows : Holding(j) = Failure THEN Raised
      ELSE Kept(t, {j \in DOMAIN t.rows : Holding(j) = TRUE})

Project(e, t, a) ==
  LET rows == [j \in DOMAIN t.rows |->
                 [i \in DOMAIN a.fields |-> Value(e, dialect, Env(t, j), a.fields[i].expression)]]
  IN  IF \E j \in DOMAIN rows : \E i \in DOMAIN a.fields : rows[j][i] = Failure THEN Raised
      ELSE Frame(NamesOf(a.fields), rows)

CellBefore(k, v, w) ==
  /\ v # w
  /\ CASE v = Null -> k.nulls = "first"
       [] w = Null -> k.nulls = "last"
       [] OTHER -> IF k.desc THEN v > w ELSE v < w
Before(t, keys, x, y) ==
  \E n \in DOMAIN keys :
     /\ \A m \in 1..(n - 1) : x[At(t, keys[m].column)] = y[At(t, keys[m].column)]
     /\ CellBefore(keys[n], x[At(t, keys[n].column)], y[At(t, keys[n].column)])

\* Polars ranks the values of its one order key: a null has no rank.
Rank(e, t, w, j) ==
  IF e = "polars" /\ t.rows[j][At(t, w.order[1].column)] = Null THEN Null
  ELSE LET ahead == {i \in DOMAIN t.rows :
                       /\ Cells(t, i, w.partition) = Cells(t, j, w.partition)
                       /\ e = "polars" => t.rows[i][At(t, w.order[1].column)] # Null
                       /\ Before(t, w.order, t.rows[i], t.rows[j])}
       IN  1 + Cardinality(ahead)
RankRaises(e, w) == Len(w.order) = 0 \/ (e = "polars" /\ Len(w.order) > 1)

\* The other functions go by the rows of a partition in order.  Polars puts nulls first;
\* what Spark takes for the last value so far is the row's own.
Windowed(e, t, w, j) ==
  LET keys == [n \in DOMAIN w.order |->
                 IF e = "polars" THEN [w.order[n] EXCEPT !.nulls = "first"] ELSE w.order[n]]
      peers == {i \in DOMAIN t.rows : Cells(t, i, w.partition) = Cells(t, j, w.partition)}
      Earlier(x, y) == Before(t, keys, t.rows[x], t.rows[y])
                         \/ (x < y /\ ~Before(t, keys, t.rows[y], t.rows[x]))
      Place(i) == 1 + Cardinality({x \in peers : Earlier(x, i)})
      Cell(n) == t.rows[CHOOSE i \in peers : Place(i) = n][At(t, w.column)]
  IN  CASE w.function = "rank" -> Rank(e, t, w, j)
        [] w.function = "row_number" -> Place(j)
        [] w.function = "lag" -> IF Place(j) = 1 THEN Null ELSE Cell(Place(j) - 1)
        [] w.function = "first_value" -> Cell(1)
        [] w.function = "last_value" ->
             Cell(IF e = "pyspark" /\ w.order # <<>> THEN Place(j) ELSE Cardinality(peers))
BothWays(w) == Cardinality({k.desc : k \in ToSet(w.order)}) > 1
WindowRaises(e, w) ==
  \/ w.function = "rank" /\ RankRaises(e, w)
  \/ e = "polars" /\ w.function # "rank" /\ BothWays(w)
  \/ e = "pyspark" /\ w.order = <<>> /\ (w.partition = <<>> \/ w.function \in {"row_number", "lag"})

\* One assignment, evaluated on u, made in t.
Assign(e, t, u, f) ==
  LET value(j) == IF f.window = <<>> THEN Value(e, dialect, Env(u, j), f.expression)
                  ELSE Windowed(e, u, f.window[1], j)
  IN  IF t.raised \/ \E j \in DOMAIN t.rows : value(j) = Failure THEN Raised
      ELSE Frame(Added(t.columns, <<f.name>>),
              [j \in DOMAIN t.rows |->
                 IF Has(t, f.name) THEN [t.rows[j] EXCEPT ![At(t, f.name)] = value(j)]
                 ELSE Append(t.rows[j], value(j))])
\* pandas and Spark make one assignment after the other, Polars and SQL all at once.
WithFields(e, t, a) ==
  IF \E f \in ToSet(a.fields) : \E w \in Windows(f) : WindowRaises(e, w) THEN Raised
  ELSE FoldLeft(LAMBDA u, f : Assign(e, u, IF e \in {"pandas", "pyspark"} THEN u ELSE t, f),
                t, a.fields)

DropFields(e, t, a) ==
  IF e \in {"polars", "pandas"} /\ ~(a.names \subseteq ToSet(t.columns)) THEN Raised
  ELSE Padded(t, Without(t.columns, a.names))

\* Spark renames one column after the other.
RenameFields(e, t, a) ==
  IF e = "polars" /\ \E m \in ToSet(a.mapping) : ~Has(t, m.from) THEN Raised
  ELSE [t EXCEPT !.columns =
          IF e = "pyspark" THEN FoldLeft(LAMBDA columns, m : Renamed(columns, <<m>>), @, a.mapping)
          ELSE Renamed(@, a.mapping)]

\* Mutant of Matches: the fall-back without nulls_equal of the Polars compiler.
MatchesWithoutNulls(e, t, o, a) ==
  {p \in (DOMAIN t.rows) \X (DOMAIN o.rows) :
     \A i \in DOMAIN a.on :
       LET v == Cells(t, p[1], a.on)[i]
       IN  v = Cells(o, p[2], a.on)[i] /\ (v # Null \/ (a.nullSafe /\ e # "polars") \/ e = "pandas")}
Matches(e, t, o, a) ==
  {p \in (DOMAIN t.rows) \X (DOMAIN o.rows) :
     \A i \in DOMAIN a.on :
       LET v == Cells(t, p[1], a.on)[i]
       IN  v = Cells(o, p[2], a.on)[i] /\ (v # Null \/ a.nullSafe \/ e = "pandas")}
\* The pairs of rows a join makes rows of; 0 is no row.
JoinPairs(e, t, o, a) ==
  LET matched == Matches(e, t, o, a)
      left == {<<i, 0>> : i \in {i \in DOMAIN t.rows : \A p \in matched : p[1] # i}}
      right == {<<0, j>> : j \in {j \in DOMAIN o.rows : \A p \in matched : p[2] # j}}
  IN  CASE a.how = "cross" -> (DOMAIN t.rows) \X (DOMAIN o.rows)
        [] a.how = "inner" -> matched
        [] a.how = "left" -> matched \cup left
        [] a.how = "right" -> matched \cup right
        [] a.how = "full" -> matched \cup left \cup right
        [] a.how = "semi" -> {<<p[1], 0>> : p \in matched}
        [] a.how = "anti" -> left

\* A column of the result and the side its value is from; a key may be from either.
FromSide(columns, side) == [i \in DOMAIN columns |-> <<columns[i], side>>]
JoinColumns(e, t, o, a) ==
  LET keys == ToSet(a.on)
      Left(side) == [i \in DOMAIN t.columns |->
                       <<t.columns[i], IF t.columns[i] \in keys THEN side ELSE "left">>]
      mine == FromSide(Without(t.columns, keys), "left")
      other == FromSide(Without(o.columns, keys), "right")
  IN  CASE a.how = "cross" -> FromSide(t.columns, "left") \o FromSide(o.columns, "right")
        [] LeftOnly(a) -> IF e = "pyspark" /\ ~a.nullSafe THEN FromSide(a.on, "left") \o mine
                          ELSE FromSide(t.columns, "left")
        [] e = "polars" /\ a.how = "right" ->
             mine \o [i \in DOMAIN o.columns |->
                        <<o.columns[i], IF o.columns[i] \in keys THEN "either" ELSE "right">>]
        [] e = "pyspark" /\ ~LeftOnly(a) /\ a.how # "cross" ->
             IF a.nullSafe THEN FromSide(t.columns, "left") \o FromSide(o.columns, "right")
             ELSE FromSide(a.on, "either") \o mine \o other
        [] e = "sql" \/ (e = "pandas" /\ a.nullSafe) -> Left("left") \o other
        [] OTHER -> Left("either") \o other

JoinRaises(e, t, o, a) ==
  LET overlap == ToSet(t.columns) \cap ToSet(o.columns)
  IN  \/ a.how = "cross" /\ overlap # {}
      \/ a.how # "cross" /\ (a.on = <<>> \/ ~Readable(o, ToSet(a.on)))
      \/ a.how # "cross" /\ ~LeftOnly(a) /\ ~(overlap \subseteq ToSet(a.on))
      \* PostgreSQL makes a full join from merge- or hash-joinable conditions only.
      \/ e = "sql" /\ dialect = "postgresql" /\ a.how = "full" /\ a.nullSafe
Join(e, t, o, a) ==
  IF JoinRaises(e, t, o, a) THEN Raised
  ELSE LET columns == JoinColumns(e, t, o, a)
           pairs == Listed(JoinPairs(e, t, o, a))
           Cell(p, c) ==
             IF c[2] = "right" \/ (c[2] = "either" /\ p[1] = 0)
             THEN IF p[2] = 0 THEN Null ELSE o.rows[p[2]][At(o, c[1])]
             ELSE IF p[1] = 0 THEN Null ELSE t.rows[p[1]][At(t, c[1])]
           joined == Frame([i \in DOMAIN columns |-> columns[i][1]],
                           [n \in DOMAIN pairs |->
                              [i \in DOMAIN columns |-> Cell(pairs[n], columns[i])]])
       IN  IF e = "pandas" /\ a.how = "semi" THEN FirstPer(joined, joined.columns) ELSE joined

\* SQLite reads no parenthesis in front of a UNION.
UnionRaises(e, t, o, a) ==
  \/ e = "sql" /\ dialect = "sqlite"
  \/ a.mode = "byPosition" /\ e = "polars" /\ t.columns # o.columns
  \/ a.mode = "byPosition" /\ Len(t.columns) # Len(o.columns)
  \/ a.mode = "byName" /\ ~a.allowMissing /\ ToSet(t.columns) # ToSet(o.columns)
UnionRows(o, columns, a) ==
  IF a.mode = "byPosition" THEN o.rows ELSE Padded(o, columns).rows
Union(e, t, o, a) ==
  IF UnionRaises(e, t, o, a) THEN Raised
  ELSE LET columns == IF a.allowMissing /\ e # "sql" THEN Added(t.columns, o.columns) ELSE t.columns
       IN  Frame(columns, Padded(t, columns).rows \o UnionRows(o, columns, a))

\* pandas groups by columns it then hides from the aggregates.
AggregateRaises(e, t, a) ==
  \/ None \in {g.name : g \in ToSet(a.aggs)}
  \/ /\ e = "pandas" /\ a.by # <<>>
     /\ t.rows = <<>> \/ \E g \in ToSet(a.aggs) : g.column \in ToSet(a.by)
\* Mutant of Aggregated: pandas counts the rows of a column.
AggregatedRows(e, t, g, group) ==
  LET Cell(j) == t.rows[j][At(t, g.column)]
      valued == {j \in group : Cell(j) # Null}
  IN  CASE g.function = "count_all" \/ (g.function = "count" /\ e = "pandas") -> Cardinality(group)
        [] g.function = "count" -> Cardinality(valued)
        [] g.function = "count_distinct" -> Cardinality({Cell(j) : j \in valued})
        [] g.function = "sum" -> IF valued = {} THEN Null ELSE MapThenSumSet(Cell, valued)
        [] OTHER -> Null
Aggregated(e, t, g, group) ==
  LET Cell(j) == t.rows[j][At(t, g.column)]
      valued == {j \in group : Cell(j) # Null}
  IN  CASE g.function = "count_all" -> Cardinality(group)
        [] g.function = "count" -> Cardinality(valued)
        [] g.function = "count_distinct" ->
             Cardinality({Cell(j) : j \in IF e = "polars" THEN group ELSE valued})
        [] g.function \in {"min", "max"} ->
             IF valued = {} THEN Null
             ELSE CHOOSE v \in {Cell(j) : j \in valued} : \A j \in valued :
                    IF g.function = "min" THEN v <= Cell(j) ELSE v >= Cell(j)
        [] g.function = "sum" ->
             IF valued = {} /\ e # "polars" THEN Null ELSE MapThenSumSet(Cell, valued)
Aggregate(e, t, a) ==
  IF AggregateRaises(e, t, a) THEN Raised
  ELSE LET Peers(j) == {i \in DOMAIN t.rows : Cells(t, i, a.by) = Cells(t, j, a.by)}
           groups == Listed(IF a.by = <<>> THEN {DOMAIN t.rows}
                              ELSE {Peers(j) : j \in DOMAIN t.rows})
           Keys(group) == IF a.by = <<>> THEN <<>> ELSE Cells(t, CHOOSE j \in group : TRUE, a.by)
       IN  Frame(a.by \o NamesOf(a.aggs),
                 [n \in DOMAIN groups |->
                    Keys(groups[n])
                      \o [i \in DOMAIN a.aggs |-> Aggregated(e, t, a.aggs[i], groups[n])]])

Mixed(a) == Cardinality({k.nulls : k \in ToSet(a.keys)}) > 1
Sort(e, t, a) ==
  IF e = "pandas" /\ Mixed(a) THEN Raised
  ELSE [t EXCEPT !.rows = SortSeq(@, LAMBDA x, y : Before(t, a.keys, x, y))]

\* The SQL compiler records the keys and compiles DISTINCT.
Deduplicate(e, t, a) ==
  FirstPer(t, IF e = "sql" \/ a.keys = <<>> THEN t.columns ELSE a.keys)

Limit(t, a) == Kept(t, {j \in DOMAIN t.rows : j <= a.count})

\* No column here holds lists: neither library explodes another.
Apply(e, t, o, a) ==
  IF t.raised \/ ~Readable(t, ReadsOf(a)) \/ a.op = "explode" THEN Raised
  ELSE CASE a.op = "filter" -> Filter(e, t, a)
         [] a.op = "project" -> Project(e, t, a)
         [] a.op = "with_fields" -> WithFields(e, t, a)
         [] a.op = "drop_fields" -> DropFields(e, t, a)
         [] a.op = "rename_fields" -> RenameFields(e, t, a)
         [] a.op = "join" -> Join(e, t, o, a)
         [] a.op = "union" -> Union(e, t, o, a)
         [] a.op = "aggregate" -> Aggregate(e, t, a)
         [] a.op = "sort" -> Sort(e, t, a)
         [] a.op = "distinct" -> FirstPer(t, t.columns)
         [] a.op = "deduplicate" -> Deduplicate(e, t, a)
         [] a.op = "limit" -> Limit(t, a)

(***************************************************************************)
(* Where an engine does something of its own.  What it makes of the rest   *)
(* of the definition is not compared with the other engines any more.      *)
(***************************************************************************)
JoinDeparts(e, t, o, a) ==
  \/ /\ e = "pandas" /\ ~a.nullSafe
     /\ \E c \in ToSet(a.on) : NullIn(t, c) /\ NullIn(o, c)           \* null keys match
  \/ e = "pandas" /\ a.how = "semi" /\ ~IsInjective(t.rows)           \* equal rows become one
  \/ e = "pandas" /\ a.nullSafe /\ ~LeftOnly(a)      \* keys are compared as text, "1.0" and "1"
  \/ e = "pyspark" /\ a.nullSafe /\ ~LeftOnly(a)                      \* the key is there twice
  \/ e = "sql" /\ a.how \in {"right", "full"}            \* the key of a right-only row is null
UnionDeparts(e, t, o, a, known) ==
  \/ e = "sql" /\ dialect = "sqlite"
  \/ e = "sql" /\ a.allowMissing /\ ~(ToSet(o.columns) \subseteq ToSet(t.columns))
  \/ e = "polars" /\ a.mode = "byPosition" /\ t.columns # o.columns
  \/ a.mode = "byPosition" /\ t.columns # known         \* the engine has its own column order
\* Rows that the order leaves equal come as an engine likes.
Ties(t, w) ==
  LET places == w.partition \o [n \in DOMAIN w.order |-> w.order[n].column]
  IN  \E i, j \in DOMAIN t.rows : i # j /\ Cells(t, i, places) = Cells(t, j, places)
WindowDeparts(e, t, w) ==
  CASE w.function = "rank" ->
         e = "polars" /\ (Len(w.order) > 1 \/ \E k \in ToSet(w.order) : NullIn(t, k.column))
    [] OTHER ->
         \/ e = "pyspark" /\ w.function = "last_value" /\ w.order # <<>>
         \/ /\ e = "polars"
            /\ \/ w.order = <<>> \/ BothWays(w) \/ Ties(t, w)
               \/ \E k \in ToSet(w.order) : k.nulls = "last" /\ NullIn(t, k.column)
\* An expression is computed in a way of the engine's own.
Computes(e, t, x, truth) ==
  \E j \in DOMAIN t.rows : Peculiar(e, dialect, Env(t, j), x, truth)
Departs(e, t, o, a, known) ==
  CASE a.op = "filter" -> Computes(e, t, a.predicate, TRUE)
    [] a.op = "project" -> \E f \in ToSet(a.fields) : Computes(e, t, f.expression, FALSE)
    [] a.op = "with_fields" ->
         \/ \E f \in ToSet(a.fields) : Computes(e, t, f.expression, FALSE)
         \/ e \in {"polars", "sql"} /\ ReadsEarlier(a)
         \/ \E f \in ToSet(a.fields) : \E w \in Windows(f) : WindowDeparts(e, t, w)
    [] a.op = "drop_fields" -> e \in {"polars", "pandas"} /\ ~(a.names \subseteq ToSet(t.columns))
    [] a.op = "rename_fields" ->
         \/ e = "polars" /\ \E m \in ToSet(a.mapping) : ~Has(t, m.from)
         \/ e = "pyspark" /\ \E m, n \in ToSet(a.mapping) : m.to = n.from
    [] a.op = "join" -> a.how # "cross" /\ JoinDeparts(e, t, o, a)
    [] a.op = "union" -> UnionDeparts(e, t, o, a, known)
    [] a.op = "aggregate" ->
         \/ e = "polars" /\ \E g \in ToSet(a.aggs) :
              g.function \in {"sum", "count_distinct"} /\ (t.rows = <<>> \/ NullIn(t, g.column))
         \/ e = "pandas" /\ AggregateRaises(e, t, a)
    [] a.op = "sort" -> e = "pandas" /\ Mixed(a)
    [] a.op = "deduplicate" -> e = "sql" /\ a.keys # <<>>
    [] OTHER -> FALSE

\* execute: the next action, in every engine that accepted the definition.
Lower ==
  /\ phase = "running" /\ accepted # {} /\ next <= Len(definition)
  /\ LET a == definition[next]
         known == Known(SubSeq(definition, 1, next - 1))
     IN  /\ frame' = [e \in Engine |-> IF e \in accepted
                        THEN Apply(e, frame[e], inputs.right, a) ELSE frame[e]]
         /\ departed' = departed \cup
              {e \in accepted : ~frame[e].raised /\ Readable(frame[e], ReadsOf(a))
                                  /\ Departs(e, frame[e], inputs.right, a, known)}
  /\ next' = next + 1
  /\ UNCHANGED <<inputs, dialect, definition, schema, phase, accepted>>

Next == (\E a \in Actions : Author(a)) \/ Analyze \/ Lower

Spec == Init /\ [][Next]_vars

(***************************************************************************)
(* Properties                                                              *)
(***************************************************************************)
Compared == accepted \ departed
Copies(s) == [v \in ToSet(s) |-> Cardinality({j \in DOMAIN s : s[j] = v})]
\* The columns the last lowered action determines, of frames with these columns.
Determined(columns) ==
  IF next = 1 \/ ~Opens(definition[next - 1]) THEN Listed(columns)
  ELSE IF definition[next - 1].op = "deduplicate" THEN definition[next - 1].keys
  ELSE IF next > 2 /\ definition[next - 2].op = "sort"
       THEN [i \in DOMAIN definition[next - 2].keys |-> definition[next - 2].keys[i].column]
       ELSE <<>>

\* It does not matter which engine a profile selects: two that accepted a
\* definition raise at the same action or make the same rows of it, the null rows,
\* the duplicates and the columns of a joined frame included, until one of them
\* meets a case that Departs names.
PortableResults ==
  \A d, e \in Compared :
    /\ frame[d].raised <=> frame[e].raised
    /\ ~frame[d].raised =>
         LET names == Determined(ToSet(frame[d].columns))
         IN  /\ ToSet(frame[d].columns) = ToSet(frame[e].columns)
             /\ Copies(Padded(frame[d], names).rows) = Copies(Padded(frame[e], names).rows)

\* The output schema that the exported definition declares, which authoring keeps
\* without running anything, names the columns every engine delivers, unless an
\* action brought columns from the other input or replaced them by aggregates.
DeclaredSchema ==
  next = Len(definition) + 1 /\ (\A a \in ToSet(definition) : ~Widens(a)) =>
    \A e \in Compared : frame[e].raised \/ ToSet(frame[e].columns) = ToSet(schema)
=============================================================================
