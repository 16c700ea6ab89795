------------------------- MODULE MCPortableTransforms -------------------------
(***************************************************************************)
(* Every action with the parameters that tell the engines apart, over      *)
(* frames with null keys, equal rows and columns in another order.         *)
(***************************************************************************)
EXTENDS PortableTransforms

Keyed == Frame(<<"k", "a">>, <<<<1, 1>>, <<1, 1>>, <<2, Null>>, <<Null, 2>>>>)
KeyedInputs ==
  {[left |-> Keyed, right |-> r] : r \in
     {Frame(<<"k", "b">>, <<<<1, 2>>, <<3, 1>>, <<Null, 1>>>>),
      Frame(<<"a", "k">>, <<<<1, 1>>, <<2, 3>>>>),
      Frame(<<"b", "c">>, <<<<1, Null>>, <<2, 1>>>>)}}
  \cup {[left |-> Frame(<<"k", "a">>, <<<<1, 2>>, <<2, 1>>, <<2, 3>>>>),
         right |-> Frame(<<"k", "b">>, <<<<2, 1>>, <<3, Null>>>>)],
        [left |-> Frame(<<"a", "k">>, <<<<1, 2>>, <<3, 1>>>>),
         right |-> Frame(<<"a", "k">>, <<<<1, 1>>, <<2, Null>>>>)]}

Assigned(name, x) == [name |-> name, expression |-> x, window |-> <<>>]
Field(name, from) == Assigned(name, Column(from))
Key(column, desc, nulls) == [column |-> column, desc |-> desc, nulls |-> nulls]
Over(function, column, partition, order) ==
  [name |-> "r", expression |-> NullLiteral,
   window |-> <<[function |-> function, column |-> column, partition |-> partition,
                 order |-> order, frame |-> FALSE]>>]
Agg(name, function, column) == [name |-> name, function |-> function, column |-> column]
To(from, to) == [from |-> from, to |-> to]

Where(x) == [op |-> "filter", predicate |-> x]
Filters == {Where(x) : x \in
              {Call("eq", <<Column("a"), Number(1)>>), Call("not_eq", <<Column("a"), Number(1)>>),
               Call("is_null", <<Column("a")>>), Call("is_missing", <<Column("a")>>),
               Call("eq", <<Column("a"), MissingLiteral>>)}}
Projects == {[op |-> "project", fields |-> f] :
               f \in {<<Field("a", "a")>>, <<Field("a", "k"), Field("k", "a")>>}}
Assignments ==
  {[op |-> "with_fields", fields |-> f] : f \in
     {<<Field("c", "a")>>, <<Field("a", "k"), Field("c", "a")>>,
      <<Over("rank", None, <<"k">>, <<Key("a", TRUE, "last")>>)>>,
      <<Over("rank", None, <<>>, <<Key("k", FALSE, "first"), Key("a", FALSE, "last")>>)>>,
      <<Over("rank", None, <<"k">>, <<>>)>>, <<Over("row_number", None, <<"k">>, <<>>)>>,
      <<Over("sum", "a", <<"k">>, <<Key("a", TRUE, "last")>>)>>,
      <<[Over("lag", "k", <<>>, <<Key("a", FALSE, "first")>>) EXCEPT !.window[1].frame = TRUE]>>}}
  \cup {[op |-> "with_fields", fields |-> <<Over(f, IF f = "row_number" THEN None ELSE "k", p, o)>>] :
          f \in {"row_number", "lag", "first_value", "last_value"}, p \in {<<>>, <<"k">>},
          o \in {<<Key("a", FALSE, "first")>>, <<Key("a", TRUE, "last")>>}}
  \cup {[op |-> "with_fields", fields |->
          <<Over("lag", "k", <<>>, <<Key("a", FALSE, "first"), Key("k", TRUE, "first")>>)>>]}
Drops == {[op |-> "drop_fields", names |-> n] : n \in {{"a"}, {"z"}}}
Renames == {[op |-> "rename_fields", mapping |-> m] : m \in
              {<<To("a", "b")>>, <<To("k", "a"), To("a", "k")>>, <<To("z", "y")>>}}
JoinOn(on, how, nullSafe) ==
  [op |-> "join", on |-> on, how |-> how, nullSafe |-> nullSafe,
   collision |-> "fail", predicate |-> FALSE]
Joins ==
  {JoinOn(<<"k">>, how, n) :
     how \in {"inner", "left", "right", "full", "semi", "anti"}, n \in BOOLEAN}
  \cup {JoinOn(<<>>, "cross", FALSE), JoinOn(<<>>, "inner", FALSE),
        JoinOn(<<"k">>, "asof", FALSE),
        [JoinOn(<<"k">>, "inner", FALSE) EXCEPT !.collision = "suffix"],
        [JoinOn(<<>>, "inner", FALSE) EXCEPT !.predicate = TRUE]}
Unions == {[op |-> "union", mode |-> m, allowMissing |-> b] :
             m \in {"byPosition", "byName"}, b \in BOOLEAN}
Aggregates ==
  {[op |-> "aggregate", by |-> by, aggs |-> <<g>>] : by \in {<<>>, <<"k">>}, g \in
     {Agg("n", "sum", "a"), Agg("n", "min", "a"), Agg("n", "max", "a"), Agg("n", "count", "a"), Agg("n", "count_all", None),
      Agg("n", "count_distinct", "a"), Agg("n", "count", "k"), Agg(None, "sum", "a")}}
Sorts == {[op |-> "sort", keys |-> k] : k \in
            {<<Key("a", FALSE, "last")>>, <<Key("a", TRUE, "first")>>,
             <<Key("k", FALSE, "last"), Key("a", TRUE, "first")>>}}
Rest ==
  {[op |-> "distinct"], [op |-> "limit", count |-> 2], [op |-> "explode", column |-> "a"],
   [op |-> "intersect"], [op |-> "except"], [op |-> "sample"]}
  \cup {[op |-> "deduplicate", keys |-> k] : k \in {<<>>, <<"k">>}}

\* Numbers, texts with blanks, signs and letters outside ASCII, and digits.
TypedFrames ==
  {Frame(<<"n", "m", "s", "d">>, rows) : rows \in
     {<<<<3, 0, <<"a", "b">>, <<"1">>>>, <<2, 2, Null, <<" ", "1">>>>,
        <<Null, 1, <<"tab", "A", " ">>, Null>>, <<1, Null, <<"u-umlaut", ".">>, <<"b">>>>>>,
      <<<<4, 2, <<"a", "b">>, <<"2">>>>, <<2, 2, <<>>, <<"1">>>>>>,
      <<<<4, 1, Null, <<"2">>>>, <<Null, 2, <<"b", "a">>, Null>>, <<2, Null, <<"A">>, <<"0">>>>>>}}
TypedInputs == {[left |-> t, right |-> Frame(<<"c">>, <<<<1>>>>)] : t \in TypedFrames}

MCInputs == KeyedInputs \cup TypedInputs

N == Column("n")
M == Column("m")
S == Column("s")
D == Column("d")
Lowered(x) == Call("lower", <<x>>)
a == Text(<<"a">>)
IsA(op) == Call(op, <<S, a>>)
Conditions ==
  {Call("eq", <<N, Number(2)>>), Call("not_eq", <<N, Number(2)>>), Call("lt", <<N, M>>),
   Call("null_safe_eq", <<N, M>>),
   Call("not", <<Call("null_safe_eq", <<N, Number(2)>>)>>),
   Call("not", <<Call("eq", <<N, Number(2)>>)>>),
   Call("not_eq", <<Lowered(S), a>>), Call("not", <<Call("eq", <<Lowered(S), a>>)>>),
   Call("or", <<Call("eq", <<N, Number(2)>>), Call("is_null", <<S>>)>>),
   Call("and", <<Call("lt", <<M, N>>), Call("not_eq", <<S, a>>)>>),
   IsA("contains"), IsA("starts_with"), IsA("ends_with"),
   Call("ends_with", <<S, Text(<<>>)>>), Call("not", <<IsA("contains")>>)}
Numerics ==
  {Call("divide", <<N, M>>), Call("divide", <<N, Number(2)>>), Call("modulo", <<N, M>>),
   Call("add", <<N, Call("multiply", <<M, Number(2)>>)>>),
   Call("abs", <<Call("subtract", <<M, N>>)>>), Call("negate", <<N>>),
   Call("least", <<N, M>>), Call("greatest", <<N, M>>), Call("coalesce", <<N, M>>),
   Call("if_null", <<N, Number(0)>>), Call("null_if", <<N, Number(2)>>),
   Call("case_when", <<Call("lt", <<N, M>>), N, Call("eq", <<N, Number(2)>>), Number(0), M>>),
   Call("length", <<S>>), Call("cast", <<D>>), Call("try_cast", <<D>>),
   Call("size", <<Call("split", <<S, Text(<<"b">>)>>)>>)}
Textuals ==
  {Lowered(S), Call("upper", <<S>>), Call("concat", <<S, D>>),
   Call("concat_ws", <<Text(<<".">>), S, D>>), Call("trim", <<S>>),
   Call("replace", <<S, a, Text(<<"$">>)>>), Call("replace", <<S, Text(<<"b">>), Text(<<>>)>>),
   Call("regex_extract", <<S, a>>), Call("split", <<S, Text(<<".">>)>>),
   Call("element_at", <<Call("split", <<S, Text(<<"b">>)>>), Number(1)>>),
   Call("element_at", <<Call("split", <<S, Text(<<"b">>)>>), Number(-1)>>),
   Call("map", <<S, D>>), Call("in", <<S, D>>)}
  \cup {Call("substr", <<S, Number(i)>>) : i \in {-2, -1, 1}}
Expressions ==
  {Where(x) : x \in Conditions}
  \cup {[op |-> "with_fields", fields |-> <<Assigned("p", x)>>] : x \in Conditions}
  \cup {[op |-> "with_fields", fields |-> <<Assigned("x", x)>>] : x \in Numerics}
  \cup {[op |-> "project", fields |-> <<Assigned("n", N), Assigned("y", x)>>] : x \in Textuals}
  \cup {Where(Column("p"))}

MCActions == Expressions \cup UNION {Filters, Projects, Assignments, Drops, Renames, Joins, Unions, Aggregates,
                    Sorts, Rest}
=============================================================================
