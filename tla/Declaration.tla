------------------------------ MODULE Declaration ------------------------------
(***************************************************************************)
(* From a class statement to an accepted pipeline, and through its         *)
(* contract artifacts back to a class.                                     *)
(*                                                                         *)
(* A class body makes objects (extracts, steps, loads, embedded pipelines) *)
(* and assigns them to names; one object may get several names, a name may *)
(* be reassigned, and a subclass may override what it inherits.  Objects   *)
(* refer to each other while they have no name yet.  Only when the class   *)
(* is closed are its members collected and the references resolved, so an  *)
(* edge depends on what became of the names since it was written.          *)
(*                                                                         *)
(* Fresh names are interchangeable and are used in the order of Names.     *)
(***************************************************************************)
EXTENDS Naturals, FiniteSets, SequencesExt

CONSTANTS
  Names,           \* a sequence: the names of members
  Sources, Sinks,  \* what extracts and loads may say: [asset, contract, note]
  Transforms,      \* transformation classes: [id, inputs, outputs]
  Child,           \* a pipeline that may be embedded: [inputs, outputs]
  Published,       \* contract class -> its published identity, which it has
  HandWritten,     \* references an author may write with the name of a node
  MaxMade,         \* bound: objects of each kind in a class and its subclass
  MaxObjects,      \* bound: objects altogether
  MaxTwists        \* bound: what is unusual in them, see twists

None == "none"
Contract == DOMAIN Published
Port(contract, role) == [contract |-> contract, role |-> role]

ASSUME DeclarationAssumption ==
  /\ {MaxObjects, MaxTwists} \cup Range(MaxMade) \subseteq Nat
  /\ Cardinality(ToSet(Names)) = Len(Names)
  /\ \A t \in Transforms : DOMAIN t.outputs # {}
  /\ None \notin Range(Published)

VARIABLES
  twists,     \* how often the author did what is rare: passed nothing or what is no
              \* output, wrote a node's name, reassigned or shared a name, embedded
              \* a pipeline, or began a subclass
  made,       \* the objects made so far; the place of one is its producer_key
  base,       \* the base class: [order, key, note, named]
  own,        \* the class body: the same
  phase,
  graph,      \* [pid: the class it was built from, names, node, edges]
  verdict,    \* of validate: none, valid or invalid
  doc,        \* the contract bundle
  exported    \* what the bundle was made of: [graph, refs]

declarationVars == <<twists, made, base, own, phase, graph, verdict, doc, exported>>

Body(order, key, note) == [order |-> order, key |-> key, note |-> note]
EmptyBody == Body(<<>>, <<>>, <<>>)
EmptyGraph == [names |-> <<>>, node |-> <<>>, edges |-> {}]

DeclarationInit ==
  /\ twists = 0 /\ made = <<>> /\ base = EmptyBody /\ own = EmptyBody
  /\ phase = "body" /\ graph = EmptyGraph /\ verdict = None
  /\ doc = <<>> /\ exported = EmptyGraph

(***************************************************************************)
(* Members: the base class first, overridden by name in place.             *)
(***************************************************************************)
\* The elements of a sequence that are in a set, in their order (SelectSeq, as a recursive
\* function).
Select(s, S) ==
  LET kept[i \in 0..Len(s)] ==
        IF i = 0 THEN <<>>
        ELSE IF s[i] \in S THEN Append(kept[i - 1], s[i]) ELSE kept[i - 1]
  IN  kept[Len(s)]

Members == DOMAIN base.key \cup DOMAIN own.key
MemberOrder == base.order \o Select(own.order, Members \ DOMAIN base.key)
Owner(n) == IF n \in DOMAIN own.key THEN own ELSE base
KeyOf(n) == Owner(n).key[n]
Member(n) == made[KeyOf(n)]
OfKind(kind) == {n \in Members : Member(n).kind = kind}

(***************************************************************************)
(* The class body                                                          *)
(***************************************************************************)
\* What a statement may pass: an object itself, an output of it, a reference
\* with the name of a node, something that is no output, or nothing at all.
Object(k) == [form |-> "object", key |-> k]
OutputOf(k, p) == [form |-> "output", key |-> k, port |-> p]
ByName(n, p) == [form |-> "named", node |-> n, port |-> p]
Nothing == [form |-> "nothing"]
Absent == [form |-> "absent"]

OutputsOf(k) ==
  CASE made[k].kind = "source" -> {"result"}
    [] made[k].kind = "step" -> DOMAIN made[k].transform.outputs
    [] made[k].kind = "subpipeline" -> DOMAIN Child.outputs
    [] OTHER -> {}

InScope == Range(base.key) \cup Range(own.key)
Values ==
  {Object(k) : k \in {j \in InScope : made[j].kind \in {"source", "step"}}} \cup UNION {{OutputOf(k, p) : p \in OutputsOf(k)} : k \in InScope}
  \cup (IF twists < MaxTwists THEN {Nothing, Absent} \cup HandWritten ELSE {})

Source(asset, contract) ==
  [kind |-> "source", asset |-> asset, contract |-> contract, bind |-> <<>>]
StepOf(t, bind) == [kind |-> "step", transform |-> t, bind |-> bind]
Sink(asset, contract, value) ==
  [kind |-> "sink", asset |-> asset, contract |-> contract, bind |-> [input |-> value]]
Embedded(valid, bind) == [kind |-> "subpipeline", valid |-> valid, bind |-> bind]

Updated(f, x, v) == [y \in DOMAIN f \cup {x} |-> IF y = x THEN v ELSE f[y]]
OfKindMade(kind) == {k \in DOMAIN made : made[k].kind = kind}
NewSteps == UNION {{StepOf(t, b) : b \in [DOMAIN t.inputs -> Values]} : t \in Transforms}
NewEmbedded ==
  {Embedded(v, b) : v \in BOOLEAN, b \in [DOMAIN Child.inputs -> Values \cup {Absent}]}
  \cup {Embedded(TRUE, [other |-> Nothing])}

Assignable ==
  {Names[i] : i \in {j \in DOMAIN Names : \A h \in 1..(j - 1) : Names[h] \in Members}}

Bound(b, n, k, note) ==
  Body(IF n \in ToSet(b.order) THEN b.order ELSE Append(b.order, n), Updated(b.key, n, k),
       IF note = None THEN b.note ELSE Updated(b.note, n, note))

Odd(object) == {p \in DOMAIN object.bind : object.bind[p].form \in {"named", "nothing", "absent"}}
Twists(n, object) ==
  Cardinality({n} \cap DOMAIN own.key)
    + (IF object.kind = "subpipeline" THEN 1 ELSE Cardinality(Odd(object)))

\* A statement that makes an object.  A contract is given by Extract[C](...),
\* or by the annotation of the name, and may be left out.
Declare(n, object, note) ==
  /\ phase = "body"
  /\ Cardinality(OfKindMade(object.kind)) < MaxMade[object.kind]
  /\ twists + Twists(n, object) <= MaxTwists
  /\ twists' = twists + Twists(n, object)
  /\ made' = Append(made, object)
  /\ own' = Bound(own, n, Len(made) + 1, note)
  /\ UNCHANGED <<base, phase, graph, verdict, doc, exported>>

DeclareSource(n, s) == Declare(n, Source(s.asset, s.contract), s.note)
DeclareSink(n, s, v) == Declare(n, Sink(s.asset, s.contract, v), s.note)

\* A second name for what has one.
Alias(n, k) ==
  /\ phase = "body" /\ twists < MaxTwists /\ twists' = twists + 1
  /\ n \notin DOMAIN own.key
  /\ own' = Bound(own, n, k, None)
  /\ UNCHANGED <<made, base, phase, graph, verdict, doc, exported>>

\* The annotation is looked up in the class that defines the name.
ContractOf(n) ==
  IF Member(n).contract # None THEN Member(n).contract
  ELSE IF n \in DOMAIN Owner(n).note THEN Owner(n).note[n] ELSE None

\* Of several names of one object the first counts.
FirstWith(k) ==
  LET named == Select(MemberOrder, {n \in Members : KeyOf(n) = k})
  IN  IF named = <<>> THEN None ELSE named[1]

To(n, p) == [node |-> n, port |-> p]
Unresolved == To(None, None)
Raises == To("raises", None)

DefaultPort(outputs) ==
  IF "result" \in outputs THEN "result"
  ELSE IF Cardinality(outputs) = 1 THEN CHOOSE p \in outputs : TRUE ELSE None

\* Mutant of SourcesLike: the contract is not compared.
SourcesLikeAsset(k) == {n \in OfKind("source") : Member(n).asset = made[k].asset}
SourcesLike(k) ==
  {n \in OfKind("source") : /\ Member(n).asset = made[k].asset
                            /\ made[k].contract \in {None, ContractOf(n)}}

\* Mutant of OnlySource: the first extract that matches.
FirstSource(k) ==
  LET like == Select(MemberOrder, SourcesLike(k))
  IN  IF like = <<>> THEN None ELSE like[1]
OnlySource(k) ==
  IF Cardinality(SourcesLike(k)) = 1 THEN CHOOSE n \in SourcesLike(k) : TRUE ELSE None

Resolve(v) ==
  CASE v.form = "named" -> To(v.node, v.port)
    [] v.form = "output" ->
         IF FirstWith(v.key) = None THEN Unresolved ELSE To(FirstWith(v.key), v.port)
    [] v.form = "object" /\ made[v.key].kind = "source" ->
         IF OnlySource(v.key) = None THEN Unresolved ELSE To(OnlySource(v.key), "result")
    [] v.form = "object" /\ made[v.key].kind = "step" ->
         IF FirstWith(v.key) = None THEN Unresolved
         ELSE IF DefaultPort(OutputsOf(v.key)) = None THEN Raises
         ELSE To(FirstWith(v.key), DefaultPort(OutputsOf(v.key)))
    [] OTHER -> Unresolved

(***************************************************************************)
(* The logical graph                                                       *)
(***************************************************************************)
NodeOf(n) ==
  LET m == Member(n)
  IN  CASE m.kind = "source" ->
             [kind |-> "source", asset |-> m.asset, id |-> None, inputs |-> <<>>,
              outputs |-> [result |-> Port(ContractOf(n), "valid")]]
        [] m.kind = "sink" ->
             [kind |-> "sink", asset |-> m.asset, id |-> None,
              inputs |-> [input |-> ContractOf(n)], outputs |-> <<>>]
        [] m.kind = "step" ->
             [kind |-> "step", asset |-> None, id |-> m.transform.id,
              inputs |-> m.transform.inputs, outputs |-> m.transform.outputs]
        [] m.kind = "subpipeline" ->
             [kind |-> "subpipeline", asset |-> None, id |-> None, inputs |-> Child.inputs,
              outputs |-> [p \in DOMAIN Child.outputs |-> Port(Child.outputs[p], "valid")]]

\* What was passed for the ports a node has.
Passed(n) ==
  {p \in DOMAIN NodeOf(n).inputs : p \in DOMAIN Member(n).bind /\ Member(n).bind[p] # Absent}
Bindings == UNION {{[to |-> n, at |-> p] : p \in Passed(n)} : n \in Members}
ValueAt(b) == Member(b.to).bind[b.at]

GraphOf(ref) ==
  [names |-> MemberOrder,
   node |-> [n \in Members |-> NodeOf(n)],
   edges |-> {[from |-> ref[b].node, port |-> ref[b].port, to |-> b.to, at |-> b.at] :
                b \in {x \in DOMAIN ref : ref[x] # Unresolved}}]

\* The class statement ends; its members are collected, the graph is built.
Close ==
  LET ref == [b \in Bindings |-> Resolve(ValueAt(b))]
  IN  /\ phase \in {"body", "loaded"}
      /\ IF Raises \in Range(ref)
         THEN phase' = "raised" /\ graph' = EmptyGraph
         ELSE phase' = "closed" /\ graph' = GraphOf(ref)
      /\ UNCHANGED <<twists, made, base, own, verdict, doc, exported>>

Subclass ==
  /\ phase \in {"closed", "validated"} /\ base = EmptyBody /\ own # EmptyBody
  /\ twists < MaxTwists /\ twists' = twists + 1
  /\ base' = own /\ own' = EmptyBody
  /\ phase' = "body" /\ graph' = EmptyGraph /\ verdict' = None
  /\ UNCHANGED <<made, doc, exported>>

(***************************************************************************)
(* Validation                                                              *)
(***************************************************************************)
Producers(g) == {e.from : e \in g.edges}
Fed(g, n, p) == \E e \in g.edges : e.to = n /\ e.at = p

(***************************************************************************)
(* _detect_cycles: depth first, with the stack of the nodes whose visit has *)
(* begun.  They are grey until every node they lead to was visited; that    *)
(* one of these is still grey closes a cycle.                               *)
(***************************************************************************)
NodesOf(g) == DOMAIN g.node \cup Producers(g)
Below(g, n) == {e.to : e \in {x \in g.edges : x.from = n}}

Begin(w, n) ==
  [color |-> [w.color EXCEPT ![n] = "grey"], stack |-> Append(w.stack, n), cyclic |-> w.cyclic]
End(g, w, n) ==
  [color |-> [w.color EXCEPT ![n] = "black"], stack |-> Front(w.stack),
   cyclic |-> w.cyclic \/ \E m \in Below(g, n) : w.color[m] = "grey"]
\* The next visit begins at a white node below the last on the stack, or at any of the roots
\* of the search.
Visit(g, roots, w) ==
  LET from == IF w.stack = <<>> THEN roots ELSE Below(g, Last(w.stack))
      white == {n \in from : w.color[n] = "white"}
  IN  IF white # {} THEN Begin(w, CHOOSE n \in white : TRUE)
      ELSE IF w.stack # <<>> THEN End(g, w, Last(w.stack)) ELSE w
\* Each node has its visit begun once and ended once.
Search(g, roots) ==
  LET walk[k \in Nat] ==
        IF k = 0 THEN [color |-> [n \in NodesOf(g) |-> "white"], stack |-> <<>>, cyclic |-> FALSE]
        ELSE Visit(g, roots, walk[k - 1])
  IN  walk[2 * Cardinality(NodesOf(g))]

\* Mutant of Cyclic: the search starts where nothing is read.
CyclicFromRoots(g) == Search(g, {n \in NodesOf(g) : ~\E e \in g.edges : e.to = n}).cyclic
Cyclic(g) == Search(g, NodesOf(g)).cyclic

MembersDefined ==
  \A n \in Members :
    /\ Member(n).kind = "step" =>
         \A p \in DOMAIN Member(n).bind : Member(n).bind[p] \notin {Absent, Nothing}
    /\ Member(n).kind = "subpipeline" => Member(n).valid

\* Each edge starts at a node of the graph, whatever name an author wrote.
WiringKnown(g) == Producers(g) \subseteq DOMAIN g.node

EverythingFed(g) ==
  \A n \in Members : \A p \in DOMAIN Member(n).bind :
    Member(n).bind[p] # Absent => p \in DOMAIN g.node[n].inputs /\ Fed(g, n, p)

Compatible(c, d) == None \in {c, d} \/ c = d \/ Published[c] = Published[d]
EdgeFits(g, e) ==
  /\ e.port \in DOMAIN g.node[e.from].outputs
  /\ LET port == g.node[e.from].outputs[e.port]
     IN  /\ Compatible(port.contract, g.node[e.to].inputs[e.at])
         /\ port.role # "invalid"

Accepted(g) ==
  /\ MembersDefined
  /\ WiringKnown(g)
  /\ EverythingFed(g)
  /\ \A e \in g.edges : EdgeFits(g, e)
  /\ ~Cyclic(g)

Validate ==
  /\ phase = "closed"
  /\ verdict' = IF Accepted(graph) THEN "valid" ELSE "invalid"
  /\ phase' = "validated"
  /\ UNCHANGED <<twists, made, base, own, graph, doc, exported>>

(***************************************************************************)
(* Contract artifacts                                                      *)
(***************************************************************************)
Pub(c) == IF c = None THEN None ELSE Published[c]
PubInputs(inputs) == [p \in DOMAIN inputs |-> Pub(inputs[p])]
PubOutputs(outputs) == [p \in DOMAIN outputs |-> Pub(outputs[p].contract)]

ContractsOf(g) ==
  UNION {Range(g.node[n].inputs) \cup {q.contract : q \in Range(g.node[n].outputs)} :
           n \in DOMAIN g.node} \ {None}
Collide(g) ==
  \E c, d \in ContractsOf(g) : c # d /\ Published[c] = Published[d]

\* graph_fingerprint, without the order of the nodes: what must survive a document.
Portable(g) ==
  [nodes |-> {<<n, g.node[n].kind, g.node[n].asset, g.node[n].id, PubInputs(g.node[n].inputs),
                PubOutputs(g.node[n].outputs)>> : n \in DOMAIN g.node},
   edges |-> g.edges]

\* Embedded pipelines have no place in a document.
Nested(g) == \E n \in DOMAIN g.node : g.node[n].kind = "subpipeline"

Sequence(g, kind) == Select(g.names, {n \in DOMAIN g.node : g.node[n].kind = kind})
\* The document of a transformation has its ports with their published contracts.
DocumentOf(t) ==
  [id |-> t.id, inputs |-> PubInputs(t.inputs), outputs |-> PubOutputs(t.outputs)]
\* One file per published id; of two transformations with one id the last is kept.
FileOf(g, id) ==
  LET steps == Select(g.names, {n \in DOMAIN g.node : g.node[n].id = id})
  IN  DocumentOf(g.node[Last(steps)])

BundleOf(g) ==
  [inputs |-> Sequence(g, "source"), steps |-> Sequence(g, "step"), outputs |-> Sequence(g, "sink"),
   asset |-> [n \in DOMAIN g.node |-> g.node[n].asset],
   contract |-> [n \in DOMAIN g.node |->
                   CASE g.node[n].kind = "source" -> Pub(g.node[n].outputs["result"].contract)
                     [] g.node[n].kind = "sink" -> Pub(g.node[n].inputs["input"])
                     [] OTHER -> None],
   transform |-> [n \in ToSet(Sequence(g, "step")) |-> g.node[n].id],
   file |-> [id \in {g.node[n].id : n \in ToSet(Sequence(g, "step"))} |-> FileOf(g, id)],
   flow |-> g.edges]

WriteContracts ==
  /\ phase = "validated" /\ verdict = "valid" /\ exported = EmptyGraph
  /\ IF Nested(graph) \/ Collide(graph)
     THEN phase' = "refused" /\ UNCHANGED <<doc, exported>>
     ELSE phase' = "written" /\ doc' = BundleOf(graph) /\ exported' = graph
  /\ UNCHANGED <<twists, made, base, own, graph, verdict>>

\* The references of the document become classes.  It does not say which outputs
\* are invalid: those of a loaded transformation are all valid ones.
TransformationFrom(file) ==
  [id |-> file.id, inputs |-> file.inputs,
   outputs |-> [p \in DOMAIN file.outputs |-> Port(file.outputs[p], "valid")]]
Materialized == [id \in DOMAIN doc.file |-> TransformationFrom(doc.file[id])]
TransformAt(n) == Materialized[doc.transform[n]]

\* The extract itself for a source, a reference with the name of a step.
LoadedValue(place, e) ==
  IF e.from \in ToSet(doc.inputs) THEN Object(place[e.from]) ELSE ByName(e.from, e.port)
LoadedInto(place, n, p) ==
  LET here == {e \in doc.flow : e.to = n /\ e.at = p}
  IN  IF here = {} THEN Absent ELSE LoadedValue(place, CHOOSE e \in here : TRUE)

LoadedObject(place, n) ==
  IF n \in ToSet(doc.inputs) THEN Source(doc.asset[n], doc.contract[n])
  ELSE IF n \in ToSet(doc.steps)
  THEN StepOf(TransformAt(n), [p \in DOMAIN TransformAt(n).inputs |-> LoadedInto(place, n, p)])
  ELSE Sink(doc.asset[n], doc.contract[n], LoadedValue(place, CHOOSE e \in doc.flow : e.to = n))

LoadBundle ==
  LET order == doc.inputs \o doc.steps \o doc.outputs
      place == [n \in ToSet(order) |-> CHOOSE i \in DOMAIN order : order[i] = n]
  IN  /\ phase = "written"
      /\ IF \/ \E e \in doc.flow : e.to \in ToSet(doc.steps)
                                   /\ e.at \notin DOMAIN TransformAt(e.to).inputs
            \/ \E n \in ToSet(doc.outputs) : ~\E e \in doc.flow : e.to = n
         THEN phase' = "unloadable" /\ UNCHANGED <<made, own, base>>
         ELSE /\ phase' = "loaded"
              /\ made' = [i \in DOMAIN order |-> LoadedObject(place, order[i])]
              /\ own' = Body(order, place, <<>>) /\ base' = EmptyBody
      /\ graph' = EmptyGraph /\ verdict' = None
      /\ UNCHANGED <<twists, doc, exported>>

Statement ==
  \/ Len(made) < MaxObjects /\ \E n \in Assignable :
       \/ \E s \in Sources : DeclareSource(n, s)
       \/ \E o \in NewSteps \cup NewEmbedded : Declare(n, o, None)
       \/ \E s \in Sinks, v \in Values \ {Absent} : DeclareSink(n, s, v)
  \/ \E n \in Assignable, k \in InScope : Alias(n, k)

DeclarationNext ==
  \/ phase = "body" /\ Statement
  \/ Close \/ Subclass \/ Validate \/ WriteContracts \/ LoadBundle

DeclarationSpec == DeclarationInit /\ [][DeclarationNext]_declarationVars

(***************************************************************************)
(* Properties                                                              *)
(***************************************************************************)
\* What the author wrote next to a source: on the object, or in the nearest
\* class that annotates the name.
DeclaredContract(n) ==
  IF Member(n).contract # None THEN Member(n).contract
  ELSE IF n \in DOMAIN own.note THEN own.note[n]
  ELSE IF n \in DOMAIN base.note THEN base.note[n] ELSE None
\* A subclass assigned the name again and did not repeat its annotation.
Unannotated(n) == n \in DOMAIN own.key /\ n \notin DOMAIN own.note /\ n \in DOMAIN base.note

\* The nodes can be put in an order: every nonempty set of them has one that reads none of
\* the set.
Ordered(g, nodes) ==
  \A some \in SUBSET nodes :
    some # {} => \E n \in some : ~\E e \in g.edges : e.to = n /\ e.from \in some

\* A pipeline that validates can run: its nodes can be put in an order in which
\* each follows what it reads; every input of a step and of a sink has exactly
\* one producer, an output that exists and is not an invalid one; and the two
\* ends were declared with one contract, unless a subclass replaced an end and
\* left the annotation of the base behind.
AcceptedCanRun ==
  verdict = "valid" =>
    /\ Ordered(graph, DOMAIN graph.node)
    /\ \A n \in DOMAIN graph.node : \A p \in DOMAIN graph.node[n].inputs :
         LET feeds == {e \in graph.edges : e.to = n /\ e.at = p}
         IN  /\ Cardinality(feeds) <= 1
             /\ graph.node[n].kind # "subpipeline" => feeds # {}
             /\ \A e \in feeds :
                  /\ e.port \in DOMAIN graph.node[e.from].outputs
                  /\ graph.node[e.from].outputs[e.port].role # "invalid"
    /\ \A e \in graph.edges :
         LET end(n, c) == IF graph.node[n].kind \in {"source", "sink"}
                          THEN DeclaredContract(n) ELSE c
             from == end(e.from, graph.node[e.from].outputs[e.port].contract)
             to == end(e.to, graph.node[e.to].inputs[e.at])
         IN  Compatible(from, to) \/ Unannotated(e.from) \/ Unannotated(e.to)

\* An edge comes from what the author passed: the same object while it is a
\* member, under whatever name; once it was replaced, only an extract of the
\* same asset may stand in for it, and a reference to an output is dropped.
WiredAsWritten ==
  phase = "closed" =>
    \A e \in graph.edges :
      LET v == Member(e.to).bind[e.at]
      IN  IF v.form = "named" THEN e.from = v.node
          ELSE IF \E n \in Members : KeyOf(n) = v.key
          THEN KeyOf(e.from) = v.key /\ (v.form = "output" => e.port = v.port)
          ELSE /\ v.form = "object" /\ made[v.key].kind = "source"
               /\ graph.node[e.from].kind = "source"
               /\ graph.node[e.from].asset = made[v.key].asset

\* Two extracts that a document cannot tell apart, one of them read.
Indistinct(g) ==
  \E n, m \in DOMAIN g.node :
    /\ n # m /\ g.node[n].kind = "source" /\ g.node[m].kind = "source"
    /\ g.node[n].asset = g.node[m].asset /\ n \in Producers(g)
    /\ LET c(x) == Pub(g.node[x].outputs["result"].contract) IN c(n) \in {None, c(m)}
SharedFile(g) ==
  \E n, m \in ToSet(Sequence(g, "step")) :
    /\ g.node[n].id = g.node[m].id
    /\ <<g.node[n].inputs, g.node[n].outputs>> # <<g.node[m].inputs, g.node[m].outputs>>
\* What a valid pipeline was written as loads into a valid pipeline with the
\* same nodes and edges, unless two transformations share a published id.  The
\* exception is exact: two extracts of one asset and contract, which a class
\* may have, make the loaded pipeline invalid.
LoadsAsWritten ==
  exported # EmptyGraph /\ ~SharedFile(exported) =>
    /\ phase # "unloadable"
    /\ phase = "validated" /\ base = EmptyBody =>
         /\ verdict = "valid" <=> ~Indistinct(exported)
         /\ verdict = "valid" => Portable(graph) = Portable(exported)
=============================================================================
