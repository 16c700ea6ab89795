-------------------------- MODULE PortableExpressions --------------------------
(***************************************************************************)
(* The expressions of portable transformations: what the four compilers    *)
(* make of one on a row, and where an engine does something of its own.    *)
(*                                                                         *)
(* A column or a literal is a leaf; every other expression is an operator  *)
(* or a function with arguments.  A value is a number, a truth value, a    *)
(* text (a sequence of characters) or a list of texts.  SQLite's 1 and 0   *)
(* are TRUE and FALSE here.  Rounding is left out.                         *)
(***************************************************************************)
EXTENDS Integers, FiniteSets, SequencesExt

CONSTANTS
  Null,       \* the value no row has
  Infinite,   \* what division by zero gives in floating point
  Fraction,   \* a quotient that is no integer
  Failure     \* no value: the engine raises

Engine == {"polars", "pandas", "pyspark", "sql"}

(***************************************************************************)
(* Authoring                                                               *)
(***************************************************************************)
Column(name) == [op |-> "field", name |-> name]
Number(n) == [op |-> "number", number |-> n]
Text(t) == [op |-> "text", text |-> t]
NullLiteral == [op |-> "null"]
MissingLiteral == [op |-> "missing"]
Call(op, args) == [op |-> op, args |-> args]

Leaf(x) == "args" \notin DOMAIN x
RECURSIVE Parts(_)
Parts(x) == {x} \cup IF Leaf(x) THEN {} ELSE UNION {Parts(y) : y \in ToSet(x.args)}

Fields(x) == {y.name : y \in {y \in Parts(x) : y.op = "field"}}

Operators ==
  {"eq", "not_eq", "lt", "null_safe_eq", "and", "or", "not",
   "negate", "add", "subtract", "multiply", "divide", "modulo"}
\* The functions an expression calls, and whether it has a missing value: nobody
\* claims operators, and nobody asks for them.
FunctionsOf(x) ==
  {y.op : y \in Parts(x)} \ (Operators \cup {"field", "number", "text", "null"})

KernelFunctions ==
  {"lower", "upper", "concat", "concat_ws", "substr", "replace", "length", "contains",
   "starts_with", "ends_with", "case_when", "coalesce", "if_null", "null_if", "is_null",
   "abs", "least", "greatest"}
WaveFunctions ==
  {"trim", "split", "regex_extract", "cast", "try_cast", "size", "element_at"}
  \cup {"rank", "row_number", "lag", "first_value", "last_value"}

(***************************************************************************)
(* Truth.  pandas compares a null as a value that equals nothing, but for  *)
(* what a text function made, which it holds in a type with nulls.         *)
(***************************************************************************)
Comparison == {"eq", "not_eq", "lt"}
RECURSIVE Nullable(_)
Nullable(x) ==
  CASE x.op \in {"lower", "upper", "concat", "concat_ws", "length", "substr", "replace"} -> TRUE
    [] x.op \in Operators \ {"null_safe_eq"} -> \E y \in ToSet(x.args) : Nullable(y)
    [] x.op \in {"coalesce", "if_null", "null_if", "abs"} -> Nullable(x.args[1])
    [] x.op = "case_when" -> Nullable(x.args[2])
    [] OTHER -> FALSE

Compare(e, x, v) ==
  IF v[1] = Null \/ v[2] = Null
  THEN IF e = "pandas" /\ ~Nullable(x) THEN x.op = "not_eq" ELSE Null
  ELSE CASE x.op = "eq" -> v[1] = v[2]
         [] x.op = "not_eq" -> v[1] # v[2]
         [] x.op = "lt" -> v[1] < v[2]
\* SQLite spells it as an equation or two null tests, which is null for one null.
SameOrNull(e, d, v) ==
  IF (v[1] = Null) # (v[2] = Null) THEN IF e = "sql" /\ d = "sqlite" THEN Null ELSE FALSE
  ELSE v[1] = v[2]
Not(p) == IF p = Null THEN Null ELSE ~p
And(p, q) == IF p = FALSE \/ q = FALSE THEN FALSE ELSE IF p = Null THEN p ELSE q
Or(p, q) == IF p = TRUE \/ q = TRUE THEN TRUE ELSE IF p = Null THEN p ELSE q

\* The first value that is there; which branch is taken.
RECURSIVE CaseOf(_)
CaseOf(v) == IF Len(v) = 1 THEN v[1] ELSE IF v[1] = TRUE THEN v[2] ELSE CaseOf(SubSeq(v, 3, Len(v)))
Coalesce(v) ==
  IF \A i \in DOMAIN v : v[i] = Null THEN Null ELSE SelectSeq(v, LAMBDA u : u # Null)[1]

(***************************************************************************)
(* Numbers                                                                 *)
(***************************************************************************)
Quotient(e, d, v) ==
  IF v[2] = 0
  THEN CASE e \in {"polars", "pandas"} -> Infinite
         [] e = "sql" /\ d = "postgresql" -> Failure
         [] OTHER -> Null
  ELSE IF v[1] % v[2] = 0 \/ e = "sql" THEN v[1] \div v[2] ELSE Fraction
Remainder(e, d, v) ==
  IF v[2] # 0 THEN v[1] % v[2] ELSE IF e = "sql" /\ d = "postgresql" THEN Failure ELSE Null

\* SQLite has no function of either name.
Extreme(e, d, x, v) ==
  IF e = "sql" /\ d = "sqlite" THEN Failure
  ELSE FoldLeft(LAMBDA best, u : IF best = Null THEN u
                                 ELSE IF u = Null THEN best
                                 ELSE IF (u < best) = (x.op = "least") THEN u ELSE best,
                Null, v)

Numeric(e, d, x, v) ==
  CASE x.op = "negate" -> -v[1]
    [] x.op = "abs" -> IF v[1] < 0 THEN -v[1] ELSE v[1]
    [] x.op = "add" -> v[1] + v[2]
    [] x.op = "subtract" -> v[1] - v[2]
    [] x.op = "multiply" -> v[1] * v[2]
    [] x.op = "divide" -> Quotient(e, d, v)
    [] x.op = "modulo" -> Remainder(e, d, v)

(***************************************************************************)
(* Texts.  Two letters, of which one is outside ASCII, are enough for      *)
(* cases; what is searched for to replace or split is one character.       *)
(***************************************************************************)
Cased == {[upper |-> "A", lower |-> "a", ascii |-> TRUE],
          [upper |-> "U-umlaut", lower |-> "u-umlaut", ascii |-> FALSE]}
Blank == {" ", "tab"}
Digit == "0" :> 0 @@ "1" :> 1 @@ "2" :> 2

\* SQLite knows the letters of ASCII only.
InCase(e, d, x, text) ==
  LET known == {p \in Cased : p.ascii \/ e # "sql" \/ d # "sqlite"}
      Other(p) == IF x.op = "lower" THEN p.upper ELSE p.lower
  IN  [i \in DOMAIN text |->
         IF \E p \in known : Other(p) = text[i]
         THEN LET p == CHOOSE p \in known : Other(p) = text[i]
              IN  IF x.op = "lower" THEN p.lower ELSE p.upper
         ELSE text[i]]

\* concat_ws skips nulls in Spark and PostgreSQL; the others join with ||.
Skips(e, d) == e = "pyspark" \/ (e = "sql" /\ d = "postgresql")
ConcatWs(e, d, v) ==
  LET given == Tail(v)
      parts == IF Skips(e, d) THEN SelectSeq(given, LAMBDA u : u # Null) ELSE given
  IN  IF \E i \in DOMAIN parts : parts[i] = Null THEN Null
      ELSE FlattenSeq([i \in DOMAIN parts |-> IF i = 1 THEN parts[i] ELSE v[1] \o parts[i]])

LastOf(text, n) == SubSeq(text, IF n < Len(text) THEN Len(text) - n + 1 ELSE 1, Len(text))
\* The offset counts from 0, and from the end when negative.  Spark and SQL count
\* from 1 and are given one more, negative or not; PostgreSQL has no end to count from.
\* Mutant of Substr: Spark and SQL are given the offset as it is.
SubstrFromOne(e, d, v) ==
  IF v[2] < 0 THEN v[1]
  ELSE SubSeq(v[1], IF e \in {"polars", "pandas"} \/ v[2] = 0 THEN v[2] + 1 ELSE v[2], Len(v[1]))
Substr(e, d, v) ==
  IF v[2] >= 0 THEN SubSeq(v[1], v[2] + 1, Len(v[1]))
  ELSE CASE e \in {"polars", "pandas"} -> LastOf(v[1], -v[2])
         [] (e = "sql" /\ d = "postgresql") \/ v[2] = -1 -> v[1]
         [] OTHER -> LastOf(v[1], -(v[2] + 1))

\* Spark's replacement is one of a regular expression, where "$" names a group.
Replace(e, v) ==
  IF e = "pyspark" /\ Contains(v[3], "$") /\ Contains(v[1], v[2][1]) THEN Failure
  ELSE FlattenSeq([i \in DOMAIN v[1] |-> IF v[1][i] = v[2][1] THEN v[3] ELSE <<v[1][i]>>])

\* SQLite takes the last 0 characters to be all of them.
EndsWith(e, d, v) ==
  IF e = "sql" /\ d = "sqlite" /\ v[2] = <<>> THEN v[1] = <<>> ELSE IsSuffix(v[2], v[1])
Holds(e, d, x, v) ==
  CASE v[1] = Null -> IF e = "pandas" THEN FALSE ELSE Null
    [] x.op = "contains" -> v[2] \in SubSeqs(v[1])
    [] x.op = "starts_with" -> IsPrefix(v[2], v[1])
    [] x.op = "ends_with" -> EndsWith(e, d, v)

Trim(e, text) ==
  LET blank == IF e = "pyspark" THEN {" "} ELSE Blank
      kept == {i \in DOMAIN text : text[i] \notin blank}
  IN  IF kept = {} THEN <<>>
      ELSE SubSeq(text, CHOOSE i \in kept : \A j \in kept : i <= j,
                        CHOOSE i \in kept : \A j \in kept : i >= j)
\* Spark splits at what matches, and "." matches everything.
Split(e, v) ==
  FoldLeft(LAMBDA parts, c : IF c = v[2][1] \/ (e = "pyspark" /\ v[2] = <<".">>)
                             THEN Append(parts, <<>>)
                             ELSE [parts EXCEPT ![Len(parts)] = Append(@, c)],
           <<<<>>>>, v[1])
\* The pattern is a text of letters.
Extract(e, v) ==
  IF v[2] \in SubSeqs(v[1]) THEN v[2] ELSE IF e = "pyspark" THEN <<>> ELSE Null

Textual(e, d, x, v) ==
  CASE x.op \in {"lower", "upper"} -> InCase(e, d, x, v[1])
    [] x.op = "concat" -> FlattenSeq(v)
    [] x.op = "length" -> Len(v[1])
    [] x.op = "substr" -> Substr(e, d, v)
    [] x.op = "replace" -> Replace(e, v)
    [] x.op = "trim" -> Trim(e, v[1])
    [] x.op = "split" -> Split(e, v)
    [] x.op = "regex_extract" -> Extract(e, v)

(***************************************************************************)
(* Conversion to a number, and lists.                                      *)
(***************************************************************************)
Spaced(text) == text # <<>> /\ (Head(text) = " " \/ Last(text) = " ")
\* Spark takes the spaces off; what is no number then is null in every cast.
Cast(e, x, text) ==
  LET t == IF e = "pyspark" THEN Trim(e, text) ELSE text
  IN  IF Len(t) = 1 /\ t[1] \in DOMAIN Digit THEN Digit[t[1]]
      ELSE IF x.op = "cast" /\ e = "polars" THEN Failure ELSE Null

\* The index counts from 0; Spark counts from 1 and is given one more.
ElementAt(e, v) ==
  LET list == v[1]
      at == CASE v[2] >= 0 -> v[2] + 1
              [] v[2] < 0 -> Len(list) + 1 + v[2] + (IF e = "pyspark" THEN 1 ELSE 0)
  IN  IF e = "pyspark" /\ v[2] = -1 THEN Failure
      ELSE IF at \in DOMAIN list THEN list[at] ELSE Null

(***************************************************************************)
(* lower_expr of engine e, on a row: env has the value of every column.    *)
(***************************************************************************)
Applied(e, d, x, v) ==
  CASE x.op = "is_null" -> v[1] = Null
    [] x.op \in Comparison -> Compare(e, x, v)
    [] x.op = "null_safe_eq" -> SameOrNull(e, d, v)
    [] x.op = "not" -> Not(v[1])
    [] x.op = "and" -> And(v[1], v[2])
    [] x.op = "or" -> Or(v[1], v[2])
    [] x.op = "case_when" -> CaseOf(v)
    [] x.op \in {"coalesce", "if_null"} -> Coalesce(v)
    [] x.op = "null_if" -> IF v[1] # Null /\ v[2] # Null /\ v[1] = v[2] THEN Null ELSE v[1]
    [] x.op \in {"least", "greatest"} -> Extreme(e, d, x, v)
    [] x.op \in {"contains", "starts_with", "ends_with"} -> Holds(e, d, x, v)
    [] x.op = "concat_ws" -> ConcatWs(e, d, v)
    [] x.op = "size" -> IF v[1] # Null THEN Len(v[1]) ELSE IF e = "pyspark" THEN -1 ELSE Null
    \* A key and its value; Spark has no null keys.
    [] x.op = "map" -> IF v[1] = Null THEN Failure ELSE v
    \* The rest has no value when an argument has none.
    [] OTHER -> CASE \E i \in DOMAIN v : v[i] = Null -> Null
                  [] x.op \in Operators \cup {"abs"} -> Numeric(e, d, x, v)
                  [] x.op \in {"cast", "try_cast"} -> Cast(e, x, v[1])
                  [] x.op = "element_at" -> ElementAt(e, v)
                  [] OTHER -> Textual(e, d, x, v)

RECURSIVE Value(_, _, _, _)
Value(e, d, env, x) ==
  CASE x.op = "field" -> env[x.name]
    [] x.op = "number" -> x.number
    [] x.op = "text" -> x.text
    [] x.op \in {"null", "missing"} -> Null
    [] OTHER -> LET v == [i \in DOMAIN x.args |-> Value(e, d, env, x.args[i])]
                IN  IF \E i \in DOMAIN v : v[i] = Failure THEN Failure ELSE Applied(e, d, x, v)

(***************************************************************************)
(* Where an engine does something of its own.  truth: nobody can tell null *)
(* from FALSE, as in a filter or the condition of a case.                  *)
(***************************************************************************)
OddText(e, d, x, v) ==
  CASE x.op \in {"lower", "upper"} ->
         e = "sql" /\ d = "sqlite" /\ InCase(e, d, x, v[1]) # InCase("polars", d, x, v[1])
    [] x.op = "substr" -> e \in {"pyspark", "sql"} /\ v[2] < 0
    [] x.op = "replace" -> Replace(e, v) = Failure
    [] x.op = "trim" -> e = "pyspark" /\ Trim(e, v[1]) # Trim("polars", v[1])
    [] x.op = "split" -> e = "pyspark" /\ v[2] = <<".">>
    [] x.op = "regex_extract" -> e = "pyspark" /\ Extract("polars", v) = Null
    [] x.op \in {"cast", "try_cast"} ->
         e = "pyspark" /\ (Spaced(v[1]) \/ (x.op = "cast" /\ Cast("polars", x, v[1]) = Failure))
    [] x.op = "element_at" -> e = "pyspark" /\ v[2] < 0
    [] OTHER -> FALSE
Odd(e, d, x, v, truth) ==
  LET missing == {i \in DOMAIN v : v[i] = Null}
      sqlite == e = "sql" /\ d = "sqlite"
  IN  CASE x.op \in Comparison ->
             e = "pandas" /\ missing # {} /\ ~Nullable(x) /\ (x.op = "not_eq" \/ ~truth)
        [] x.op = "null_safe_eq" -> sqlite /\ Cardinality(missing) = 1 /\ ~truth
        [] x.op \in {"contains", "starts_with", "ends_with"} ->
             \/ e = "pandas" /\ v[1] = Null /\ ~truth
             \/ sqlite /\ x.op = "ends_with" /\ v[2] = <<>> /\ v[1] \notin {Null, <<>>}
        [] x.op \in {"least", "greatest"} -> sqlite
        [] x.op = "concat_ws" -> Skips(e, d) /\ missing # {}
        [] x.op = "size" -> e = "pyspark" /\ v[1] = Null
        [] x.op = "divide" -> missing = {} /\
             IF v[2] = 0 THEN e \in {"pyspark", "sql"} ELSE e = "sql" /\ v[1] % v[2] # 0
        [] x.op = "modulo" -> missing = {} /\ v[2] = 0 /\ e = "sql" /\ d = "postgresql"
        [] OTHER -> missing = {} /\ OddText(e, d, x, v)

\* Which arguments pass on that null counts as FALSE.
TruthOf(x, i, truth) ==
  CASE x.op \in {"and", "or"} -> truth
    [] x.op = "case_when" -> i % 2 = 1 /\ i < Len(x.args)
    [] OTHER -> FALSE
RECURSIVE Peculiar(_, _, _, _, _)
Peculiar(e, d, env, x, truth) ==
  /\ ~Leaf(x)
  /\ LET v == [i \in DOMAIN x.args |-> Value(e, d, env, x.args[i])]
     IN  \/ \E i \in DOMAIN v : Peculiar(e, d, env, x.args[i], TruthOf(x, i, truth))
         \/ (\A i \in DOMAIN v : v[i] # Failure) /\ Odd(e, d, x, v, truth)
=============================================================================
