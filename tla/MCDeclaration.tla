----------------------------- MODULE MCDeclaration -----------------------------
(***************************************************************************)
(* Four assignments, which are enough for a cycle, an ambiguous extract, a *)
(* member replaced under its readers and one that a subclass overrides.    *)
(* SparkForge documents: a bronze step, a step that reads it, and a third, *)
(* in any order, with every kind of what makes a document unsound, tables  *)
(* that are shared and names that are those of sinks.                      *)
(***************************************************************************)
EXTENDS SparkForge

MCNames == <<"a", "b", "c", "d">>
MCPublished == [A |-> "A", B |-> "B", P |-> "A", Row |-> "Row"]
Data(asset, contract, note) == [asset |-> asset, contract |-> contract, note |-> note]
MCSources == {Data("x", None, "A"), Data("x", None, "B"), Data("x", None, None)}
MCSinks == {Data("out", None, "A"), Data("out", "P", None)}
MCHandWritten == {ByName("c", "result"), ByName("b", "bad")}
MCMade == [source |-> 2, step |-> 2, sink |-> 1, subpipeline |-> 1]
MCChild == [inputs |-> [s |-> "A"], outputs |-> [t |-> "A"]]
MCTransforms ==
  {[id |-> "clean", inputs |-> [x |-> "A"], outputs |-> [result |-> Port("A", "valid")]],
   [id |-> "split", inputs |-> [x |-> "A"],
    outputs |-> [ok |-> Port("A", "valid"), bad |-> Port("A", "invalid")]],
   [id |-> "clean", inputs |-> [z |-> "B"], outputs |-> [result |-> Port("A", "valid")]]}

Item(form, name, kind, layer, source, table, mode) ==
  [form |-> form, name |-> name, kind |-> kind, layer |-> layer, source |-> source,
   table |-> table, mode |-> mode]
Bronze(name, table) == Item("step", name, "bronze_rules", "bronze", None, table, None)
Silver(name, source, table, mode) ==
  Item("step", name, "silver_transform", "silver", source, table, mode)
Raw == Bronze("raw", "t")
Clean == Silver("clean", "raw", None, None)

Thirds ==
  {Bronze(name, table) : name \in {"raw", "more", "clean_out"}, table \in {None, "t"}}
  \cup {Silver(name, source, table, mode) :
          name \in {"kpi", "clean_out"}, source \in {"raw", "clean", "clean_out", "kpi", "nowhere", None},
          table \in {None, "clean_out"}, mode \in {"merge", "skip", "odd"}}
  \cup {Item("step", "kpi", "platinum", "platinum", "clean", None, None),
        Item("nameless", None, "bronze_rules", "bronze", None, None, None),
        Item("junk", None, None, None, None, None, None),
        Item("step", "kpi", "gold_transform", "platinum", "clean", "g", "append")}
Seconds == {Clean, Silver("clean", "kpi", None, None)}
Orders == {<<1, 2, 3>>, <<2, 1, 3>>, <<3, 2, 1>>, <<3, 1, 2>>, <<2, 3, 1>>, <<1, 3, 2>>}
Document(steps, engine, delta, capabilities, strict) ==
  [steps |-> steps, engine |-> engine, delta |-> delta, capabilities |-> capabilities, strict |-> strict]
MCDocuments ==
  {Document([i \in 1..3 |-> <<Raw, second, third>>[order[i]]], "spark", {}, None, TRUE) :
     second \in Seconds, third \in Thirds, order \in Orders}
  \cup {Document(<<Raw, Clean>>, engine, {}, None, TRUE) : engine \in {"local", "postgres"}}
  \cup {Document(<<Raw, Clean>>, engine, delta, capabilities, strict) :
          engine \in {"delta", "spark", "local"},
          delta \in {{"merge"}, {"vacuum", "zorder"}}, capabilities \in {None, "spark", "spark_delta"},
          strict \in BOOLEAN}
  \cup {Document(<<>>, "spark", {}, None, TRUE),
        Document(<<Raw, Clean, Bronze("clean_out", None), Silver("kpi", "clean_out", None, None)>>,
                 "spark", {}, None, TRUE)}

Done(name, status, attempts, records) ==
  [name |-> name, id |-> None, status |-> status, attempts |-> attempts, records_out |-> records,
   error |-> None, rest |-> {}]
Payload(status, mode, first, errors) ==
  [status |-> status, mode |-> mode, records |-> 2,
   steps |-> <<[Done("raw", first, NotCounted, 2) EXCEPT !.id = "r1", !.error = "boom", !.rest = {"host"}],
             Done(None, None, 2, NotCounted)>>,
   quality |-> <<[node |-> None, status |-> None, checked |-> 2]>>,
   tables |-> <<[identity |-> None, count |-> NotCounted], [identity |-> "t", count |-> 2]>>,
   errors |-> errors]
MCPayloads ==
  {Payload(status, "incremental", "ok", errors) :
     status \in {None, "complete", "timeout", "odd"},
     errors \in {<<>>, <<[code |-> None, severity |-> None]>>}}
  \cup {Payload("failed", mode, first, <<>>) :
          mode \in {None, "initial_load", "full_refresh", "odd"},
          first \in {"complete", "skip", "partly_skipped", "run_cancelled", "read_error"}}
MCMentions == [partly_skipped |-> {"skip"}, run_cancelled |-> {"cancel"}, read_error |-> {"error"}]
=============================================================================
