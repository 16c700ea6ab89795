----------------------------- MODULE MCExternalRun -----------------------------
(***************************************************************************)
(* A chain of two steps, a step that reads a source beside another step,   *)
(* and a fan-out, on the local engine, under every retry setting and a     *)
(* declaration of each kind.                                               *)
(***************************************************************************)
EXTENDS ExternalRun

MCNodes == {"src", "a", "b", "load"}
MCNamed == {"local", "sql", "pyspark"}
MCFamily == [e \in MCNamed |-> IF e = "pyspark" THEN "spark" ELSE e]

Shape(a, b, load) == [n \in MCNodes |->
  CASE n = "src" -> {} [] n = "a" -> a [] n = "b" -> b [] n = "load" -> load]
Chain == Shape({"src"}, {"a"}, {"b"})
Join == Shape({"src"}, {"src", "a"}, {"b"})
Branch == Shape({"src"}, {"a"}, {"a"})
Direct == Shape({"src"}, {"src"}, {"b"})

Local ==
  [kind |-> [n \in MCNodes |->
     CASE n = "src" -> "source" [] n = "load" -> "sink" [] OTHER -> "step"],
   step |-> [n \in MCNodes |->
     [native |-> {"local"}, registry |-> {}, portable |-> FALSE, accepts |-> {}]],
   provider |-> [n \in MCNodes |-> IF n \in {"src", "load"} THEN "memory" ELSE None],
   profile |-> [dataframe |-> None, sql |-> None, spark |-> None, policy |-> "prefer",
                strict |-> TRUE, compilers |-> {}, overrides |-> [n \in MCNodes |-> None]],
   registered |-> {"local"}, event |-> FALSE, supported |-> TRUE,
   declared |-> [n \in MCNodes |-> Undeclared], intent |-> [n \in MCNodes |-> None]]

Project(shape, selected, retries, attempts) ==
  [field \in DOMAIN Local \cup {"producers", "selected", "retries", "attempts"} |->
     CASE field = "producers" -> shape
       [] field = "selected" -> selected
       [] field = "retries" -> retries
       [] field = "attempts" -> attempts
       [] OTHER -> Local[field]]
\* The first step is a source too.
TwoSources ==
  [Project(Shape({}, {"src", "a"}, {"b"}), MCNodes, 0, 0) EXCEPT
     !.kind = [@ EXCEPT !["a"] = "source"], !.provider = [@ EXCEPT !["a"] = "memory"]]
Declaring(p, n, declaration) == [p EXCEPT !.declared = [@ EXCEPT ![n] = declaration]]
Intending(p, intent) == [p EXCEPT !.intent = [@ EXCEPT !["load"] = intent]]

Plain(retries, attempts) == Project(Join, MCNodes, retries, attempts)
MCProjects ==
  {TwoSources, Project(Chain, MCNodes, 0, 0), Project(Branch, MCNodes, 0, 0),
   Project(Join, {"src", "a", "b"}, 0, 2), Plain(1, 0),
   Project(Direct, {"src", "b", "load"}, 1, 0)}
  \cup {Declaring(Plain(2, 0), "a", Declared(TRUE, 2))}
  \cup {Declaring(Plain(retries, 0), "load", Declared(FALSE, NoLimit)) : retries \in {0, 1}}
  \cup {Intending(Plain(retries, 0), "non_idempotent") : retries \in {0, 1}}
  \cup {[Plain(0, 0) EXCEPT !.event = TRUE], [Plain(0, 0) EXCEPT !.supported = FALSE]}
=============================================================================
