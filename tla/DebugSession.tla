----------------------------- MODULE DebugSession -----------------------------
(***************************************************************************)
(* A DebugSession, or any caller that runs one pipeline again and again on  *)
(* one PipelineRuntime: requests with a selection and an invalidation mode, *)
(* the selection and planning walks over the graph, the invalidation of     *)
(* artifacts and memory bindings, and the run itself with the ArtifactStore *)
(* that outlives it.                                                        *)
(*                                                                         *)
(* A run is one action: which waves it has and what fails in them is the    *)
(* matter of LocalOrchestrator; here it completes some of its nodes, in     *)
(* dependency order.  An artifact is known by the run that put it and the   *)
(* runs that had put the inputs it was computed from.  Requests override no  *)
(* binding.                                                                 *)
(***************************************************************************)
EXTENDS ClosureWalk, Integers, Sequences, FiniteSets

CONSTANTS
  Keys,      \* what memory storage keeps rows under: bindings and locations
  Plans,     \* pipelines: declaration order, producers, sources and sinks
  MaxRuns    \* bound on the runs of the session

None == [run |-> 0]
InvalidationMode == {"none", "target", "downstream", "closure"}

\* soft: may a node be passed over without its output, because a callback answers
\* CONTINUE to its failure or a step middleware does not call it?  Any number of
\* sources and sinks may have the same binding; rows are read and written under a
\* key, which is the location of the binding, or the binding if it has none.
PlanAssumption(p) ==
  /\ p.order \in Seq(Nodes) /\ p.producers \in Relation
  /\ p.sources \subseteq Nodes /\ p.sinks \subseteq Nodes /\ p.soft \in BOOLEAN
  /\ p.binding \in [p.sources \cup p.sinks -> Keys] /\ p.key \in [p.sources \cup p.sinks -> Keys]
  /\ \A i, j \in DOMAIN p.order : p.order[i] = p.order[j] => i = j
  /\ \A n \in Nodes : p.producers[n] \subseteq {p.order[i] : i \in DOMAIN p.order}
  /\ \A n \in Nodes \ {p.order[i] : i \in DOMAIN p.order} : p.producers[n] = {}
  \* validate_pipeline has rejected cycles
  /\ \E rank \in [Nodes -> 0..Cardinality(Nodes)] :
       \A n \in Nodes : \A m \in p.producers[n] : rank[m] < rank[n]

\* A class body declares a member before it is referred to, but a subclass that
\* redefines a member leaves it where its base declared it: it may come before
\* what it refers to.
InOrder(p) ==
  \A i \in DOMAIN p.order : p.producers[p.order[i]] \subseteq
    {p.order[j] : j \in 1..(i - 1)}

ASSUME SessionAssumption ==
  /\ MaxRuns \in Nat
  /\ \A p \in Plans : PlanAssumption(p)

VARIABLES
  plan,       \* chosen once, never written
  phase, mode, \* where a request stands; its invalidation mode
  selected,   \* plan.selected_nodes of the request
  affected,   \* what the invalidation walks of a request have reached
  runs,       \* runs so far, the current one included
  store,      \* the artifact under the logical output of a node
  memory      \* what memory storage holds under a key: the number of the run that
              \* wrote it, 0 for rows the user seeded, Gone

sessionVars == <<plan, phase, mode, selected, affected, runs, store, memory>>
vars == <<sessionVars, walkVars>>

Gone == -1
Bound == plan.sources \cup plan.sinks
\* Mutant: what the nodes write is dropped, not what is under their binding.
BindingsOfLocation(nodes) == {plan.key[n] : n \in nodes \cap Bound}
BindingsOf(nodes) == {plan.binding[n] : n \in nodes \cap Bound}
NodesOf(sequence) == {sequence[i] : i \in DOMAIN sequence}
Position(n) == CHOOSE i \in DOMAIN plan.order : plan.order[i] = n
\* The declared nodes from one to another, none if they are declared the other
\* way round; and graph.edges seen from the producers, within a slice.
Segment(first, last) == {n \in NodesOf(plan.order) :
                           Position(first) <= Position(n) /\ Position(n) <= Position(last)}
First == plan.order[1]
Last == plan.order[Len(plan.order)]
Consumers(slice) == [n \in Nodes |-> {m \in slice : n \in slice /\ n \in plan.producers[m]}]
Inputs(n) == plan.producers[n] \cap selected

Init ==
  /\ plan \in Plans
  /\ phase = "idle" /\ mode = "none"
  /\ selected = {} /\ affected = {} /\ runs = 0
  /\ store = [n \in Nodes |-> None]
  /\ memory = [k \in Keys |-> IF \E n \in plan.sources : plan.key[n] = k THEN 0 ELSE Gone]
  /\ next = [n \in Nodes |-> {}] /\ targets = {} /\ marking = "on_pop"
  /\ stack = {} /\ seen = {}

\* A request with dependency_closure as its selection: only some steps (or all,
\* or those with some tags; upstream_of, run_one and rerun have one), from_ a step
\* on, between two of them.
SelectClosureOf(from) ==
  /\ phase' = "selecting"
  /\ BeginWalk(plan.producers, from, "on_pop")
  /\ UNCHANGED selected

Only(steps) == steps # {} /\ SelectClosureOf(steps)
From(step) == SelectClosureOf(Segment(step, Last))
Between(first, last) == Segment(first, last) # {} /\ SelectClosureOf(Segment(first, last))

\* until: the prefix of the declaration, without a walk.
Until(step) ==
  /\ phase' = "planned"
  /\ selected' = Segment(First, step)
  /\ UNCHANGED walkVars

\* downstream_of: a walk over the consumers, its result then closed by the planner.
DownstreamOf(step) ==
  /\ phase' = "downstream"
  /\ BeginWalk(Consumers(Nodes), {step}, "on_pop")
  /\ UNCHANGED selected

Request ==
  /\ phase = "idle" /\ runs < MaxRuns
  /\ mode' \in InvalidationMode
  /\ \/ \E steps \in SUBSET NodesOf(plan.order) : Only(steps)
     \/ \E step \in NodesOf(plan.order) :
       \/ From(step) \/ Until(step) \/ DownstreamOf(step)
       \/ \E last \in NodesOf(plan.order) : Between(step, last)
  /\ UNCHANGED <<plan, affected, runs, store, memory>>

Walk ==
  /\ phase \in {"downstream", "selecting", "invalidating"}
  /\ WalkStep
  /\ UNCHANGED sessionVars

\* Mutant of CloseSelection: the consumers are the selection as they are.
SkipClosing ==
  /\ phase = "downstream" /\ stack = {}
  /\ phase' = "planned"
  /\ selected' = seen
  /\ UNCHANGED <<plan, mode, affected, runs, store, memory, walkVars>>

CloseSelection ==
  /\ phase = "downstream" /\ stack = {}
  /\ phase' = "selecting"
  /\ BeginWalk(plan.producers, seen, "on_pop")
  /\ UNCHANGED <<plan, mode, selected, affected, runs, store, memory>>

EndSelection ==
  /\ phase = "selecting" /\ stack = {}
  /\ phase' = "planned"
  /\ selected' = seen
  /\ UNCHANGED <<plan, mode, affected, runs, store, memory, walkVars>>

\* The artifacts of some nodes are dropped, and the rows under their bindings, which
\* may be those of other nodes too.
Invalidate(nodes) ==
  /\ phase' = "invalidated"
  /\ store' = [n \in Nodes |-> IF n \in nodes THEN None ELSE store[n]]
  /\ memory' = [k \in Keys |-> IF k \in BindingsOf(nodes) THEN Gone ELSE memory[k]]
  /\ affected' = {}
  /\ UNCHANGED <<plan, mode, selected, runs>>

\* Mutant of InvalidateAtOnce: the declared nodes of the whole pipeline.
InvalidateUnsliced ==
  /\ phase = "planned" /\ mode \in {"target", "closure"}
  /\ Invalidate(IF mode = "target" THEN selected
                ELSE {n \in NodesOf(plan.order) : \E m \in selected : Position(m) <= Position(n)})
  /\ UNCHANGED walkVars

\* arun_pipeline calls invalidation_targets for every selected node, on the
\* sliced graph: target is the node, closure the declared nodes from it on.
InvalidateAtOnce ==
  /\ phase = "planned" /\ mode \in {"target", "closure"}
  /\ Invalidate(IF mode = "target" THEN selected
                ELSE {n \in selected : \E m \in selected : Position(m) <= Position(n)})
  /\ UNCHANGED walkVars

\* downstream: one walk for every selected node, in the order of declaration,
\* over the consumers within the slice.
Unwalked == {n \in selected : \A m \in targets : Position(m) < Position(n)}
WalkFromNext(nodes) ==
  \E n \in nodes :
    /\ \A m \in nodes : Position(n) <= Position(m)
    /\ BeginWalk(Consumers(selected), {n}, "on_push")

WalkDownstream ==
  /\ phase = "planned" /\ mode = "downstream"
  /\ phase' = "invalidating"
  /\ WalkFromNext(selected)
  /\ UNCHANGED <<plan, mode, selected, affected, runs, store, memory>>

\* Mutant of WalkNext: the targets found so far are not kept.
WalkNextAfresh ==
  /\ phase = "invalidating" /\ stack = {}
  /\ affected' = seen
  /\ WalkFromNext(Unwalked)
  /\ UNCHANGED <<plan, phase, mode, selected, runs, store, memory>>

\* targets |= invalidation_targets(...), and on to the next node.
WalkNext ==
  /\ phase = "invalidating" /\ stack = {}
  /\ affected' = affected \cup seen
  /\ WalkFromNext(Unwalked)
  /\ UNCHANGED <<plan, phase, mode, selected, runs, store, memory>>

InvalidateDownstream ==
  /\ phase = "invalidating" /\ stack = {} /\ Unwalked = {}
  /\ Invalidate(affected \cup seen)
  /\ UNCHANGED walkVars

\* Mutant of MayRun: an output of an earlier run does as well.
MayRunFromStore(n, over) == \A p \in Inputs(n) : p \in over \/ store[p] # None

\* A node is called when its producers are over: completed, or passed over.
MayRun(n, over) == Inputs(n) \subseteq over

\* _gather_inputs finds the outputs of the producers under their logical names,
\* whichever run put them there.
Finds(n, put) == \A p \in Inputs(n) : p \in put \/ store[p] # None

\* Mutant of RunOfInput: the inputs are read before the run has put any.
RunOfOldInput(p, put) == store[p].run
RunOfInput(p, put) == IF p \in put THEN runs + 1 ELSE store[p].run

\* A run: the nodes in `put` got as far as storing their output or writing their
\* sink, and may have failed after that; those in `over` do not stop the others.
\* A sink may be over without a write (no_write, or another storage).
Execute ==
  /\ \/ phase = "invalidated"
     \/ phase = "planned" /\ mode = "none"
  /\ phase' = "idle"
  /\ runs' = runs + 1
  /\ \E over, put \in SUBSET selected :
       /\ \A n \in over \cup put : MayRun(n, over)
       /\ \A n \in put : Finds(n, put)
       /\ plan.soft \/ over \ plan.sinks \subseteq put
       /\ store' = [n \in Nodes |->
            IF n \in put \ plan.sinks
            THEN [run |-> runs', from |-> [p \in Inputs(n) |-> RunOfInput(p, put)]]
            ELSE store[n]]
       /\ memory' = [k \in Keys |-> IF \E n \in put \cap plan.sinks : plan.key[n] = k
                                    THEN runs' ELSE memory[k]]
  /\ UNCHANGED <<plan, mode, selected, affected, walkVars>>

\* The user puts rows into the memory storage again.
Seed(key) ==
  /\ phase = "idle" /\ memory[key] # 0 /\ \E n \in plan.sources : plan.key[n] = key
  /\ memory' = [memory EXCEPT ![key] = 0]
  /\ UNCHANGED <<plan, phase, mode, selected, affected, runs, store, walkVars>>

Next ==
  \/ Request \/ Walk \/ CloseSelection \/ EndSelection
  \/ InvalidateAtOnce \/ WalkDownstream \/ WalkNext \/ InvalidateDownstream
  \/ Execute
  \/ \E key \in Keys : Seed(key)

Spec == Init /\ [][Next]_vars
-----------------------------------------------------------------------------
Artifact(n) ==
  {None} \cup [run : 1..runs, from : UNION {[S -> 1..runs] : S \in SUBSET plan.producers[n]}]
Selected == phase \in {"planned", "invalidating", "invalidated"}

TypeOK ==
  /\ plan \in Plans /\ mode \in InvalidationMode
  /\ phase \in {"idle", "downstream", "selecting", "planned", "invalidating", "invalidated"}
  /\ selected \subseteq Nodes /\ affected \subseteq Nodes /\ runs \in 0..MaxRuns
  /\ \A n \in Nodes : store[n] \in Artifact(n)
  /\ memory \in [Keys -> 0..MaxRuns \cup {Gone}]
  /\ WalkTypeOK

FeedsItself(nodes) == \A n \in nodes : plan.producers[n] \subseteq nodes

\* "Selection is a graph operation. It must compute the necessary dependency
\* closure": a planned run has with a node all its producers, so that no step is
\* called with an input of its graph cut off, and it is not empty. It holds on a
\* pipeline declared in order, and on any other unless the selection is the prefix
\* of an `until`, which computes no closure.
OnlyUntilMayStarve ==
  Selected =>
    /\ selected # {}
    /\ ~FeedsItself(selected) =>
         ~InOrder(plan) /\ \E step \in NodesOf(plan.order) : selected = Segment(First, step)

\* What a request selects is a closure, exactly: the walks compute it, and only the
\* prefix of an `until` goes without.
SelectionIsClosed == WalkIsExact /\ OnlyUntilMayStarve

\* Unless nodes are passed over, every artifact of the store was computed from
\* artifacts of its own run, whatever runs failed half way before and after it.
OneRunPerArtifact ==
  /\ TypeOK
  /\ ~plan.soft => \A n \in Nodes : store[n] # None =>
       \A p \in DOMAIN store[n].from : store[n].from[p] = store[n].run

\* After an invalidating request the store has no artifact of a node of the
\* request that is older than the request, also if its run failed half way, and the
\* memory no older rows under the binding of such a node.
Invalidating == phase = "invalidated" /\ phase' = "idle"
NothingOldAfterInvalidation ==
  [][Invalidating =>
       /\ \A n \in selected : store'[n] = None \/ store'[n].run = runs'
       /\ \A n \in selected \cap Bound : memory'[plan.binding[n]] \in {Gone, runs'}]_vars

\* "Unrelated branches remain reusable", as far as they are: a request leaves the
\* artifact of a node that it does not select alone; rows it drops only under a
\* binding that a selected node has, maybe next to one that is not selected, and
\* replaces only where a selected sink writes.
OthersKept ==
  [][/\ \A n \in Nodes : store'[n] # store[n] => n \in selected
     /\ \A k \in Keys : memory'[k] # memory[k] =>
          \/ memory'[k] = Gone /\ \E n \in selected \cap Bound : plan.binding[n] = k
          \/ memory'[k] = runs' /\ \E n \in selected \cap plan.sinks : plan.key[n] = k
          \/ memory'[k] = 0 /\ phase = "idle"]_vars

\* The artifacts of the selection, and no others, are those a request replaces, and
\* the rows under its bindings.
InvalidationIsExact == NothingOldAfterInvalidation /\ OthersKept
=============================================================================
