-------------------------- MODULE DebugSessionProofs --------------------------
(***************************************************************************)
(* What a DebugSession promises on every pipeline: its walks are exact,     *)
(* only an `until` on a pipeline whose members are not declared in order    *)
(* can plan a node without a producer, an artifact comes from artifacts of  *)
(* its own run, and a request replaces what it selects and nothing else.    *)
(***************************************************************************)
EXTENDS DebugSession, TLAPS

-----------------------------------------------------------------------------
(* The worklist walk: WalkInv is inductive, and exact when the stack is empty *)

\* The closure contains the nodes it starts from, and where its nodes lead.
LEMMA ClosureContains ==
  ASSUME NEW relation \in Relation, NEW from \in SUBSET Nodes
  PROVE /\ from \subseteq Closure(from, relation)
        /\ IsClosed(Closure(from, relation), relation)
  BY DEF Closure, IsClosed, Relation

\* The closure is the least closed set around the nodes it starts from.
LEMMA ClosureIsLeast ==
  ASSUME NEW relation \in Relation, NEW from \in SUBSET Nodes, NEW S \in SUBSET Nodes,
         from \subseteq S, IsClosed(S, relation)
  PROVE Closure(from, relation) \subseteq S
  BY DEF Closure

\* A walk starts inside the closure, with its targets on the stack.
LEMMA WalkInitInv == WalkInit => WalkInv
<1> SUFFICES ASSUME WalkInit PROVE WalkInv
  OBVIOUS
<1>1. WalkTypeOK
  BY DEF WalkInit, WalkTypeOK
<1>2. targets \subseteq Closure(targets, next)
  BY <1>1, ClosureContains DEF WalkTypeOK
<1> QED
  BY <1>1, <1>2 DEF WalkInit, WalkInv

\* Each turn of the loop keeps the invariant, whichever node it pops.
LEMMA WalkStepInv == WalkInv /\ [WalkStep]_walkVars => WalkInv'
<1> SUFFICES ASSUME WalkInv, [WalkStep]_walkVars PROVE WalkInv'
  OBVIOUS
<1> USE DEF WalkInv, WalkTypeOK, Relation
<1> DEFINE C == Closure(targets, next)
<1>1. \A n \in C : next[n] \subseteq C
  BY ClosureContains DEF IsClosed
<1> HIDE DEF C
<1>2. ASSUME NEW n \in stack, PopAndMark(n), UNCHANGED <<next, targets, marking>>
      PROVE WalkInv'
  <2>1. next[n] \subseteq C
    BY <1>1 DEF C
  <2>2. (seen \cup stack)' \subseteq C /\ C' = C
    BY <1>2, <2>1 DEF PopAndMark, C
  <2>3. WalkTypeOK'
    BY <1>2 DEF PopAndMark
  <2>4. (\A m \in seen : next[m] \subseteq seen \cup stack)'
    BY <1>2 DEF PopAndMark
  <2> QED
    BY <1>2, <2>2, <2>3, <2>4 DEF PopAndMark, C
<1>3. ASSUME NEW n \in stack, PopAndPush(n), UNCHANGED <<next, targets, marking>>
      PROVE WalkInv'
  <2>1. next[n] \subseteq C
    BY <1>1 DEF C
  <2>2. (seen \cup stack)' \subseteq C /\ C' = C
    BY <1>3, <2>1 DEF PopAndPush, C
  <2>3. WalkTypeOK'
    BY <1>3 DEF PopAndPush
  <2>4. (stack \subseteq seen)'
    BY <1>3 DEF PopAndPush
  <2>5. (\A m \in seen \ stack : next[m] \subseteq seen)'
    BY <1>3 DEF PopAndPush
  <2> QED
    BY <1>3, <2>2, <2>3, <2>4, <2>5 DEF PopAndPush, C
<1>4. CASE UNCHANGED walkVars
  BY <1>4 DEF walkVars, Closure, IsClosed
<1> QED
  BY <1>2, <1>3, <1>4 DEF WalkStep

\* With nothing left on the stack, what was seen is closed and in the closure.
LEMMA WalkInvExact == WalkInv => WalkIsExact
<1> SUFFICES ASSUME WalkInv, stack = {} PROVE seen = Closure(targets, next)
  BY DEF WalkIsExact
<1>1. targets \subseteq seen /\ IsClosed(seen, next)
  BY DEF WalkInv, WalkTypeOK, IsClosed
<1>2. Closure(targets, next) \subseteq seen
  BY <1>1, ClosureIsLeast DEF WalkInv, WalkTypeOK
<1> QED
  BY <1>2 DEF WalkInv

\* A worklist walk that has ended has seen exactly the closure of its targets:
\* dependency_closure and its kin, on every graph.
THEOREM WalkIsExactHolds == WalkSpec => []WalkIsExact
<1>1. WalkInit => WalkInv
  BY WalkInitInv
<1>2. WalkInv /\ [WalkStep]_walkVars => WalkInv'
  BY WalkStepInv
<1>3. WalkInv => WalkIsExact
  BY WalkInvExact
<1> QED
  BY <1>1, <1>2, <1>3, PTL DEF WalkSpec

-----------------------------------------------------------------------------
(* What a request selects *)

\* The walk invariant, and what the walk of each phase is about.
SelectionInv ==
  /\ plan \in Plans
  /\ selected \subseteq Nodes
  /\ WalkInv
  /\ phase \in {"downstream", "selecting"} => marking = "on_pop" /\ targets # {}
  /\ phase = "selecting" => next = plan.producers
  /\ OnlyUntilMayStarve

\* The walk invariant holds before the first turn of any walk.
LEMMA BeginWalkInv ==
  ASSUME NEW relation \in Relation, NEW from \in SUBSET Nodes,
         NEW mark \in {"on_pop", "on_push"}, BeginWalk(relation, from, mark)
  PROVE WalkInv'
<1>1. WalkTypeOK'
  BY DEF BeginWalk, WalkTypeOK
<1>2. from \subseteq Closure(from, relation)
  BY ClosureContains
<1>3. (seen \cup stack)' = from /\ Closure(targets, next)' = Closure(from, relation)
  BY DEF BeginWalk, Closure, IsClosed
<1>4. (marking = "on_pop" => \A n \in seen : next[n] \subseteq seen \cup stack)'
  BY DEF BeginWalk
<1>5. (marking = "on_push" => /\ stack \subseteq seen
                              /\ \A n \in seen \ stack : next[n] \subseteq seen)'
  BY DEF BeginWalk
<1> QED
  BY <1>1, <1>2, <1>3, <1>4, <1>5 DEF WalkInv, BeginWalk

\* Member names are unique: a position belongs to one node.
LEMMA PositionIsUnique ==
  ASSUME plan \in Plans, NEW i \in DOMAIN plan.order
  PROVE Position(plan.order[i]) = i
  BY SessionAssumption DEF PlanAssumption, Position

LEMMA NodeHasPosition ==
  ASSUME plan \in Plans, NEW n \in NodesOf(plan.order)
  PROVE /\ Position(n) \in DOMAIN plan.order
        /\ plan.order[Position(n)] = n
        /\ n \in Nodes
<1>1. PICK i \in DOMAIN plan.order : n = plan.order[i]
  BY DEF NodesOf
<1>2. Position(n) = i
  BY <1>1, PositionIsUnique
<1>3. plan.order \in Seq(Nodes)
  BY SessionAssumption DEF PlanAssumption
<1> QED
  BY <1>1, <1>2, <1>3

\* A prefix has its last node, and feeds itself on a pipeline declared in order.
LEMMA PrefixFeedsItself ==
  ASSUME plan \in Plans, NEW step \in NodesOf(plan.order)
  PROVE /\ Segment(First, step) \subseteq Nodes
        /\ step \in Segment(First, step)
        /\ InOrder(plan) => FeedsItself(Segment(First, step))
<1>1. plan.order \in Seq(Nodes)
  BY SessionAssumption DEF PlanAssumption
<1>2. 1 \in DOMAIN plan.order /\ Position(step) \in DOMAIN plan.order
  BY <1>1, NodeHasPosition
<1>3. Position(First) = 1
  BY <1>2, PositionIsUnique DEF First
<1>4. Segment(First, step) \subseteq Nodes
  BY NodeHasPosition DEF Segment
<1>5. step \in Segment(First, step)
  BY <1>1, <1>2, <1>3 DEF Segment
<1>6. ASSUME InOrder(plan), NEW n \in Segment(First, step), NEW p \in plan.producers[n]
      PROVE p \in Segment(First, step)
  <2>1. n \in NodesOf(plan.order) /\ Position(n) <= Position(step)
    BY DEF Segment
  <2>2. Position(n) \in DOMAIN plan.order /\ plan.order[Position(n)] = n
    BY <2>1, NodeHasPosition
  <2>3. PICK j \in 1..(Position(n) - 1) : p = plan.order[j]
    BY <1>6, <2>2 DEF InOrder
  <2>4. j \in DOMAIN plan.order /\ j <= Position(n)
    BY <1>1, <2>2, <2>3
  <2>5. Position(p) = j /\ p \in NodesOf(plan.order)
    BY <2>3, <2>4, PositionIsUnique DEF NodesOf
  <2> QED
    BY <1>1, <1>2, <1>3, <2>1, <2>2, <2>4, <2>5 DEF Segment
<1> QED
  BY <1>4, <1>5, <1>6 DEF FeedsItself

\* Plans do not change, and so the selection stays what it was for the plan.
LEMMA SegmentsStay ==
  ASSUME plan' = plan
  PROVE \A n : Segment(First, n)' = Segment(First, n)
  BY DEF Segment, First, Position

LEMMA MayStarveStays ==
  ASSUME Selected, OnlyUntilMayStarve, UNCHANGED <<plan, selected>>
  PROVE OnlyUntilMayStarve'
<1>1. \A n : Segment(First, n)' = Segment(First, n)
  BY SegmentsStay
<1>2. FeedsItself(selected)' <=> FeedsItself(selected)
  BY DEF FeedsItself
<1> QED
  BY <1>1, <1>2 DEF OnlyUntilMayStarve

LEMMA ConsumersRelation ==
  ASSUME NEW slice \in SUBSET Nodes PROVE Consumers(slice) \in Relation
  BY DEF Consumers, Relation

\* A selection with dependency_closure starts its walk over the producers.
LEMMA ClosureSelectionInv ==
  ASSUME plan \in Plans, NEW from \in SUBSET Nodes, from # {}, SelectClosureOf(from),
         UNCHANGED plan, selected \subseteq Nodes
  PROVE SelectionInv'
<1>1. plan.producers \in Relation
  BY SessionAssumption DEF PlanAssumption
<1>2. WalkInv'
  BY <1>1, BeginWalkInv DEF SelectClosureOf
<1> QED
  BY <1>2 DEF SelectionInv, SelectClosureOf, BeginWalk, OnlyUntilMayStarve, Selected

LEMMA SelectionInit == Init => SelectionInv
<1> SUFFICES ASSUME Init PROVE SelectionInv
  OBVIOUS
<1>1. WalkInit
  BY DEF Init, WalkInit, Relation
<1>2. WalkInv
  BY <1>1, WalkInitInv
<1> QED
  BY <1>2 DEF Init, SelectionInv, OnlyUntilMayStarve, Selected

LEMMA SelectionRequest == SelectionInv /\ Request => SelectionInv'
<1> SUFFICES ASSUME SelectionInv, Request PROVE SelectionInv'
  OBVIOUS
<1> USE DEF SelectionInv
<1>0. UNCHANGED plan
  BY DEF Request
<1>1. NodesOf(plan.order) \subseteq Nodes
  BY NodeHasPosition
<1>2. \A n, m \in NodesOf(plan.order) : Segment(n, m) \subseteq Nodes
  BY <1>1 DEF Segment
<1>3. ASSUME NEW steps \in SUBSET NodesOf(plan.order), Only(steps) PROVE SelectionInv'
  BY <1>0, <1>1, <1>3, ClosureSelectionInv DEF Only
<1>4. ASSUME NEW step \in NodesOf(plan.order), From(step) PROVE SelectionInv'
  <2>1. plan.order \in Seq(Nodes) /\ Position(step) \in DOMAIN plan.order
    BY NodeHasPosition, SessionAssumption DEF PlanAssumption
  <2>2. Len(plan.order) \in DOMAIN plan.order
    BY <2>1
  <2>3. Position(Last) = Len(plan.order) /\ Last \in NodesOf(plan.order)
    BY <2>2, PositionIsUnique DEF Last, NodesOf
  <2>4. step \in Segment(step, Last)
    BY <2>1, <2>3 DEF Segment
  <2> QED
    BY <1>0, <1>2, <1>4, <2>3, <2>4, ClosureSelectionInv DEF From
<1>5. ASSUME NEW step \in NodesOf(plan.order), Until(step) PROVE SelectionInv'
  <2>1. WalkInv' /\ phase' = "planned" /\ selected' = Segment(First, step)
    BY <1>5 DEF Until, walkVars, WalkInv, WalkTypeOK, Closure, IsClosed
  <2>2. OnlyUntilMayStarve'
    BY <1>0, <2>1, PrefixFeedsItself, SegmentsStay DEF OnlyUntilMayStarve, FeedsItself
  <2>3. selected' \subseteq Nodes
    BY <2>1, PrefixFeedsItself
  <2> QED
    BY <1>0, <2>1, <2>2, <2>3
<1>6. ASSUME NEW step \in NodesOf(plan.order), DownstreamOf(step) PROVE SelectionInv'
  <2>1. WalkInv'
    BY <1>1, <1>6, ConsumersRelation, BeginWalkInv DEF DownstreamOf
  <2> QED
    BY <1>0, <1>6, <2>1 DEF DownstreamOf, BeginWalk, OnlyUntilMayStarve, Selected
<1>7. ASSUME NEW step \in NodesOf(plan.order), NEW last \in NodesOf(plan.order),
             Between(step, last)
      PROVE SelectionInv'
  BY <1>0, <1>2, <1>7, ClosureSelectionInv DEF Between
<1> QED
  BY <1>3, <1>4, <1>5, <1>6, <1>7 DEF Request

\* The steps of a request after its selection has begun, and of the user.
LEMMA SelectionNext == SelectionInv /\ [Next]_vars => SelectionInv'
<1> SUFFICES ASSUME SelectionInv, [Next]_vars PROVE SelectionInv'
  OBVIOUS
<1>1. CASE Request
  BY <1>1, SelectionRequest
<1> USE DEF SelectionInv
<1>2. CASE Walk
  <2>1. WalkInv'
    BY <1>2, WalkStepInv DEF Walk
  <2>2. UNCHANGED <<plan, phase, selected, next, targets, marking>>
    BY <1>2 DEF Walk, WalkStep, sessionVars
  <2> QED
    BY <2>1, <2>2
    DEF OnlyUntilMayStarve, Selected, FeedsItself, Segment, First, Position
<1>3. CASE CloseSelection
  <2>1. targets \subseteq seen /\ seen \subseteq Nodes
    BY <1>3 DEF CloseSelection, WalkInv, WalkTypeOK
  <2>2. plan.producers \in Relation
    BY SessionAssumption DEF PlanAssumption
  <2>3. WalkInv'
    BY <1>3, <2>1, <2>2, BeginWalkInv DEF CloseSelection
  <2> QED
    BY <1>3, <2>1, <2>3 DEF CloseSelection, BeginWalk, OnlyUntilMayStarve, Selected
<1>4. CASE EndSelection
  <2>1. targets \subseteq seen /\ seen \subseteq Nodes
    BY <1>4 DEF EndSelection, WalkInv, WalkTypeOK
  <2>2. \A n \in seen : plan.producers[n] \subseteq seen
    BY <1>4 DEF EndSelection, WalkInv
  <2>3. WalkInv'
    BY <1>4 DEF EndSelection, walkVars, WalkInv, WalkTypeOK, Closure, IsClosed
  <2> QED
    BY <1>4, <2>1, <2>2, <2>3 DEF EndSelection, OnlyUntilMayStarve, FeedsItself
<1>5. CASE WalkDownstream \/ WalkNext
  <2>1. PICK n \in selected : BeginWalk(Consumers(selected), {n}, "on_push")
    BY <1>5 DEF WalkDownstream, WalkNext, WalkFromNext, Unwalked
  <2>2. WalkInv'
    BY <2>1, ConsumersRelation, BeginWalkInv
  <2>3. Selected /\ phase' = "invalidating" /\ UNCHANGED <<plan, selected>>
    BY <1>5 DEF WalkDownstream, WalkNext, Selected
  <2>4. OnlyUntilMayStarve'
    BY <2>3, MayStarveStays
  <2> QED
    BY <2>2, <2>3, <2>4
<1>6. CASE InvalidateAtOnce \/ InvalidateDownstream
  <2>1. /\ Selected /\ phase' = "invalidated"
        /\ UNCHANGED <<plan, selected, walkVars>>
    BY <1>6 DEF InvalidateAtOnce, InvalidateDownstream, Invalidate, Selected
  <2>2. WalkInv'
    BY <2>1 DEF walkVars, WalkInv, WalkTypeOK, Closure, IsClosed
  <2>3. OnlyUntilMayStarve'
    BY <2>1, MayStarveStays
  <2> QED
    BY <2>1, <2>2, <2>3
<1>7. CASE Execute \/ (\E key \in Keys : Seed(key))
  <2>1. phase' = "idle" /\ UNCHANGED <<plan, selected, walkVars>>
    BY <1>7 DEF Execute, Seed
  <2>2. WalkInv'
    BY <2>1 DEF walkVars, WalkInv, WalkTypeOK, Closure, IsClosed
  <2> QED
    BY <2>1, <2>2 DEF OnlyUntilMayStarve, Selected
<1>8. CASE UNCHANGED vars
  <2>1. UNCHANGED <<plan, phase, selected, walkVars>>
    BY <1>8 DEF vars, sessionVars
  <2>2. WalkInv'
    BY <2>1 DEF walkVars, WalkInv, WalkTypeOK, Closure, IsClosed
  <2>3. CASE Selected
    BY <2>1, <2>2, <2>3, MayStarveStays DEF Selected, walkVars
  <2>4. CASE ~Selected
    BY <2>1, <2>2, <2>4 DEF OnlyUntilMayStarve, Selected, walkVars
  <2> QED
    BY <2>3, <2>4
<1> QED
  BY <1>1, <1>2, <1>3, <1>4, <1>5, <1>6, <1>7, <1>8 DEF Next

\* In a session every walk that ends, for a selection or an invalidation, has
\* seen exactly the closure of its targets (dependency_closure, downstream_of,
\* invalidation_targets), on every pipeline.
THEOREM SessionWalksAreExact == Spec => []WalkIsExact
<1>1. SelectionInv => WalkIsExact
  BY WalkInvExact DEF SelectionInv
<1> QED
  BY SelectionInit, SelectionNext, <1>1, PTL DEF Spec

\* No selection is empty, and none but an `until` on a pipeline that is not
\* declared in order plans a node without its producers, on every pipeline.
THEOREM OnlyUntilMayStarveHolds == Spec => []OnlyUntilMayStarve
<1>1. SelectionInv => OnlyUntilMayStarve
  BY DEF SelectionInv
<1> QED
  BY SelectionInit, SelectionNext, <1>1, PTL DEF Spec

\* On every pipeline what a request selects is the closure of what it asks for,
\* but for the prefix of an `until` (RunSelection.resolve, _build_plan).
THEOREM SelectionIsClosedHolds == Spec => []SelectionIsClosed
  BY SessionWalksAreExact, OnlyUntilMayStarveHolds, PTL DEF SelectionIsClosed

-----------------------------------------------------------------------------
(* What the store holds *)

Declared == NodesOf(plan.order)

\* Where the nodes of each phase may come from: the walks do not leave the
\* declaration, nor those of an invalidation the selection.
WithinInv ==
  /\ SelectionInv
  /\ mode \in InvalidationMode
  /\ phase \in {"idle", "downstream", "selecting", "planned", "invalidating", "invalidated"}
  /\ selected \subseteq Declared
  /\ phase \in {"downstream", "selecting"} =>
       seen \cup stack \subseteq Declared /\ \A n \in Nodes : next[n] \subseteq Declared
  /\ affected \subseteq selected
  /\ phase # "invalidating" => affected = {}
  /\ phase = "invalidating" =>
       seen \cup stack \subseteq selected /\ \A n \in Nodes : next[n] \subseteq selected

\* The walks of an invalidation have begun at every node up to their target.
WalkedInv ==
  phase = "invalidating" =>
    /\ mode = "downstream"
    /\ \E start \in selected : targets = {start}
    /\ targets \subseteq seen
    /\ selected \ Unwalked \subseteq affected \cup seen

\* After the invalidation the store has nothing of the selection.
ClearedInv ==
  phase = "invalidated" =>
    /\ \A n \in selected : store[n] = None
    /\ \A k \in BindingsOf(selected) : memory[k] = Gone

DroppedInv == WithinInv /\ WalkedInv /\ ClearedInv

LEMMA DeclaredNodes ==
  ASSUME plan \in Plans
  PROVE /\ Declared \subseteq Nodes
        /\ \A n \in Nodes : plan.producers[n] \subseteq Declared
        /\ \A n \in Nodes \ Declared : plan.producers[n] = {}
        /\ \A n, m \in Declared : Segment(n, m) \subseteq Declared
        /\ plan.producers \in Relation
  BY NodeHasPosition, SessionAssumption DEF PlanAssumption, NodesOf, Segment, Declared

LEMMA BindingsAreKeys ==
  ASSUME plan \in Plans, NEW nodes
  PROVE BindingsOf(nodes) \subseteq Keys
<1>1. plan.binding \in [Bound -> Keys]
  BY SessionAssumption DEF PlanAssumption, Bound
<1>2. \A n \in nodes \cap Bound : plan.binding[n] \in Keys
  BY <1>1
<1> QED
  BY <1>2 DEF BindingsOf

LEMMA PositionsAreNumbers ==
  ASSUME plan \in Plans, NEW n \in Declared
  PROVE Position(n) \in Int /\ (\A m \in Declared : Position(m) = Position(n) => m = n)
<1>1. plan.order \in Seq(Nodes)
  BY SessionAssumption DEF PlanAssumption
<1> QED
  BY <1>1, NodeHasPosition DEF Declared

\* Consumers are declared, and those of a slice within it.
LEMMA ConsumersWithin ==
  ASSUME plan \in Plans, NEW slice \in SUBSET Nodes
  PROVE \A n \in Nodes : /\ Consumers(slice)[n] \subseteq Declared
                         /\ Consumers(slice)[n] \subseteq slice
  BY DeclaredNodes DEF Consumers

\* A turn of a walk stays in every set that has its stack, and that its relation
\* does not leave.
LEMMA WalkStaysIn ==
  ASSUME WalkTypeOK, WalkStep, NEW S, seen \cup stack \subseteq S,
         \A n \in Nodes : next[n] \subseteq S
  PROVE /\ (seen \cup stack)' \subseteq S
        /\ \A n \in Nodes : next'[n] \subseteq S
        /\ targets' = targets /\ seen \subseteq seen'
  BY DEF WalkTypeOK, WalkStep, PopAndMark, PopAndPush

LEMMA DroppedInit == Init => DroppedInv
  BY SelectionInit DEF Init, DroppedInv, WithinInv, WalkedInv, ClearedInv, InvalidationMode

LEMMA DroppedRequest == DroppedInv /\ Request => DroppedInv'
<1> SUFFICES ASSUME DroppedInv, Request PROVE DroppedInv'
  OBVIOUS
<1> USE DEF DroppedInv, WithinInv
<1>1. /\ SelectionInv' /\ plan \in Plans /\ UNCHANGED <<plan, affected, store>>
      /\ phase = "idle" /\ mode' \in InvalidationMode /\ affected = {}
  BY SelectionRequest DEF Request, SelectionInv
<1>2. Declared' = Declared
  BY <1>1 DEF Declared
<1>3. ASSUME NEW from \in SUBSET Declared, SelectClosureOf(from) PROVE DroppedInv'
  <2>1. phase' = "selecting" /\ UNCHANGED selected /\ (seen \cup stack)' \subseteq from
    BY <1>3 DEF SelectClosureOf, BeginWalk
  <2>2. next' = plan.producers
    BY <1>3 DEF SelectClosureOf, BeginWalk
  <2> QED
    BY <1>1, <1>2, <1>3, <2>1, <2>2, DeclaredNodes DEF WalkedInv, ClearedInv
<1>4. ASSUME NEW step \in Declared, Until(step) PROVE DroppedInv'
  <2>1. phase' = "planned" /\ selected' = Segment(First, step)
    BY <1>4 DEF Until
  <2>2. selected' \subseteq Declared
    BY <2>1 DEF Segment, Declared
  <2> QED
    BY <1>1, <1>2, <2>1, <2>2 DEF WalkedInv, ClearedInv
<1>5. ASSUME NEW step \in Declared, DownstreamOf(step) PROVE DroppedInv'
  <2>1. phase' = "downstream" /\ UNCHANGED selected /\ (seen \cup stack)' \subseteq {step}
    BY <1>5 DEF DownstreamOf, BeginWalk
  <2>2. next' = Consumers(Nodes)
    BY <1>5 DEF DownstreamOf, BeginWalk
  <2> QED
    BY <1>1, <1>2, <1>5, <2>1, <2>2, ConsumersWithin DEF WalkedInv, ClearedInv
<1>6. ASSUME NEW n, NEW m PROVE Segment(n, m) \subseteq Declared
  BY DEF Segment, Declared
<1> QED
  BY <1>3, <1>4, <1>5, <1>6 DEF Request, Only, From, Between, Declared

\* The next walk of an invalidation starts at the first node that none has
\* started from, so that no node is passed over.
LEMMA WalkedNext ==
  ASSUME DroppedInv, WalkNext
  PROVE WalkedInv'
<1> USE DEF DroppedInv, WithinInv
<1>1. plan \in Plans /\ phase = "invalidating" /\ UNCHANGED <<plan, phase, mode, selected>>
  BY DEF WalkNext, SelectionInv
<1>2. PICK n \in Unwalked : /\ \A m \in Unwalked : Position(n) <= Position(m)
                            /\ BeginWalk(Consumers(selected), {n}, "on_push")
  BY DEF WalkNext, WalkFromNext
<1>3. targets' = {n} /\ seen' = {n} /\ affected' = affected \cup seen
  BY <1>2 DEF BeginWalk, WalkNext
<1>4. Position(n)' = Position(n) /\ \A m : Position(m)' = Position(m)
  BY <1>1 DEF Position
<1>5. ASSUME NEW m \in selected, m \notin Unwalked' PROVE m \in (affected \cup seen)'
  <2>1. ~(Position(n) < Position(m))
    BY <1>1, <1>3, <1>4, <1>5 DEF Unwalked
  <2>2. CASE m \in Unwalked
    <3>1. Position(n) <= Position(m) /\ n \in Declared /\ m \in Declared
      BY <1>2, <2>2 DEF Unwalked
    <3>2. n = m
      BY <1>1, <2>1, <3>1, PositionsAreNumbers
    <3> QED
      BY <1>3, <3>2
  <2>3. CASE m \notin Unwalked
    BY <1>1, <1>3, <2>3 DEF WalkedInv
  <2> QED
    BY <2>2, <2>3
<1>6. n \in selected
  BY <1>2 DEF Unwalked
<1> QED
  BY <1>1, <1>3, <1>5, <1>6 DEF WalkedInv

\* The first walk starts at the first node of the selection.
LEMMA WalkedFirst ==
  ASSUME DroppedInv, WalkDownstream
  PROVE WalkedInv'
<1> USE DEF DroppedInv, WithinInv
<1>1. plan \in Plans /\ mode = "downstream" /\ UNCHANGED <<plan, mode, selected>>
  BY DEF WalkDownstream, SelectionInv
<1>2. PICK n \in selected : /\ \A m \in selected : Position(n) <= Position(m)
                            /\ BeginWalk(Consumers(selected), {n}, "on_push")
  BY DEF WalkDownstream, WalkFromNext
<1>3. targets' = {n} /\ seen' = {n}
  BY <1>2 DEF BeginWalk
<1>4. \A m : Position(m)' = Position(m)
  BY <1>1 DEF Position
<1>5. ASSUME NEW m \in selected, m \notin Unwalked' PROVE m = n
  <2>1. ~(Position(n) < Position(m))
    BY <1>1, <1>3, <1>4, <1>5 DEF Unwalked
  <2> QED
    BY <1>1, <1>2, <2>1, PositionsAreNumbers
<1> QED
  BY <1>1, <1>2, <1>3, <1>5 DEF WalkedInv

\* An invalidation drops all nodes of the selection, and no others.
LEMMA AtOnceDropsSelection ==
  ASSUME DroppedInv, InvalidateAtOnce
  PROVE Invalidate(selected)
<1> USE DEF DroppedInv, WithinInv
<1>1. plan \in Plans /\ selected \subseteq Declared
  BY DEF SelectionInv
<1>2. \A n \in selected : Position(n) \in Int
  BY <1>1, PositionsAreNumbers
<1>3. {n \in selected : \E m \in selected : Position(m) <= Position(n)} = selected
  BY <1>2
<1> QED
  BY <1>3 DEF InvalidateAtOnce

LEMMA DownstreamDropsSelection ==
  ASSUME DroppedInv, InvalidateDownstream
  PROVE Invalidate(selected)
<1>1. selected \subseteq affected \cup seen
  BY DEF DroppedInv, WalkedInv, InvalidateDownstream
<1>2. affected \cup seen \subseteq selected
  BY DEF DroppedInv, WithinInv, InvalidateDownstream
<1>3. affected \cup seen = selected
  BY <1>1, <1>2
<1> QED
  BY <1>3 DEF InvalidateDownstream

LEMMA DroppedNext == DroppedInv /\ [Next]_vars => DroppedInv'
<1> SUFFICES ASSUME DroppedInv, [Next]_vars PROVE DroppedInv'
  OBVIOUS
<1> USE DEF DroppedInv, WithinInv
<1>0. SelectionInv' /\ plan \in Plans /\ WalkTypeOK
  BY SelectionNext DEF SelectionInv, WalkInv
<1>1. CASE Request
  BY <1>1, DroppedRequest
<1>2. CASE Walk
  <2>1. UNCHANGED sessionVars /\ WalkStep /\ Declared' = Declared /\ Unwalked' = Unwalked
    BY <1>2 DEF Walk, sessionVars, Declared, Unwalked, WalkStep, Position
  <2>2. CASE phase \in {"downstream", "selecting"}
    BY <1>0, <2>1, <2>2, WalkStaysIn DEF sessionVars, WalkedInv, ClearedInv
  <2>3. CASE phase = "invalidating"
    <3>1. WithinInv'
      BY <1>0, <2>1, <2>3, WalkStaysIn DEF sessionVars
    <3>2. targets' = targets /\ seen \subseteq seen'
      BY <1>0, <2>1, <2>3, WalkStaysIn
    <3> QED
      BY <2>1, <2>3, <3>1, <3>2 DEF sessionVars, WalkedInv, ClearedInv
  <2> QED
    BY <1>2, <2>2, <2>3 DEF Walk
<1>3. CASE CloseSelection
  <2>1. /\ phase' = "selecting" /\ UNCHANGED <<plan, mode, selected, affected>>
        /\ next' = plan.producers /\ (seen \cup stack)' \subseteq seen
        /\ phase = "downstream"
    BY <1>3 DEF CloseSelection, BeginWalk
  <2> QED
    BY <1>0, <2>1, DeclaredNodes DEF WalkedInv, ClearedInv, Declared
<1>4. CASE EndSelection
  <2>1. /\ phase' = "planned" /\ selected' = seen /\ UNCHANGED <<plan, mode, affected>>
        /\ phase = "selecting"
    BY <1>4 DEF EndSelection
  <2> QED
    BY <1>0, <2>1 DEF WalkedInv, ClearedInv, Declared
<1>5. CASE WalkDownstream
  <2>1. WalkedInv'
    BY <1>5, WalkedFirst
  <2>2. PICK n \in selected : BeginWalk(Consumers(selected), {n}, "on_push")
    BY <1>5 DEF WalkDownstream, WalkFromNext
  <2>3. next' = Consumers(selected) /\ seen' = {n} /\ stack' = {n}
    BY <2>2 DEF BeginWalk
  <2>4. phase' = "invalidating" /\ UNCHANGED <<plan, mode, selected, affected>>
    BY <1>5 DEF WalkDownstream
  <2>5. \A m \in Nodes : next'[m] \subseteq selected
    BY <1>0, <2>3, ConsumersWithin DEF SelectionInv
  <2> QED
    BY <1>0, <2>1, <2>3, <2>4, <2>5 DEF ClearedInv, Declared
<1>6. CASE WalkNext
  <2>1. WalkedInv'
    BY <1>6, WalkedNext
  <2>2. PICK n \in selected : BeginWalk(Consumers(selected), {n}, "on_push")
    BY <1>6 DEF WalkNext, WalkFromNext, Unwalked
  <2>3. next' = Consumers(selected) /\ seen' = {n} /\ stack' = {n}
    BY <2>2 DEF BeginWalk
  <2>4. /\ phase = "invalidating" /\ UNCHANGED <<plan, phase, mode, selected>>
        /\ affected' = affected \cup seen
    BY <1>6 DEF WalkNext
  <2>5. \A m \in Nodes : next'[m] \subseteq selected
    BY <1>0, <2>3, ConsumersWithin DEF SelectionInv
  <2> QED
    BY <1>0, <2>1, <2>3, <2>4, <2>5 DEF ClearedInv, Declared
<1>7. CASE InvalidateAtOnce \/ InvalidateDownstream
  <2>1. Invalidate(selected)
    BY <1>7, AtOnceDropsSelection, DownstreamDropsSelection
  <2>2. \A n \in selected : store'[n] = None
    BY <2>1 DEF Invalidate, SelectionInv
  <2>3. \A k \in BindingsOf(selected) : memory'[k] = Gone
    BY <1>0, <2>1, BindingsAreKeys DEF Invalidate
  <2>4. BindingsOf(selected)' = BindingsOf(selected)
    BY <2>1 DEF Invalidate, BindingsOf, Bound
  <2> QED
    BY <1>0, <2>1, <2>2, <2>3, <2>4 DEF Invalidate, WalkedInv, ClearedInv, Declared
<1>8. CASE Execute \/ (\E key \in Keys : Seed(key))
  <2>1. phase' = "idle" /\ UNCHANGED <<plan, mode, selected, affected>>
    BY <1>8 DEF Execute, Seed
  <2>2. phase # "invalidating"
    BY <1>8 DEF Execute, Seed
  <2> QED
    BY <1>0, <2>1, <2>2 DEF WalkedInv, ClearedInv, Declared
<1>9. CASE UNCHANGED vars
  BY <1>0, <1>9 DEF vars, sessionVars, walkVars, WalkedInv, ClearedInv, Declared, Unwalked, Position,
     BindingsOf, Bound
<1> QED
  BY <1>1, <1>2, <1>3, <1>4, <1>5, <1>6, <1>7, <1>8, <1>9 DEF Next

\* A run replaces what it puts, and an invalidation drops what is selected: for
\* every pipeline, mode and selection, no old artifact survives in the selection and
\* none outside of it is touched; of the rows in memory those under the bindings of the
\* selection go, and no others (arun_pipeline, ArtifactStore.invalidate).
THEOREM InvalidationIsExactHolds == Spec => InvalidationIsExact
<1>1. ASSUME DroppedInv, [Next]_vars
      PROVE [Invalidating =>
               /\ \A n \in selected : store'[n] = None \/ store'[n].run = runs'
               /\ \A n \in selected \cap Bound : memory'[plan.binding[n]] \in {Gone, runs'}]_vars
  <2> SUFFICES ASSUME Invalidating, ~UNCHANGED vars
               PROVE /\ \A n \in selected : store'[n] = None \/ store'[n].run = runs'
                     /\ \A n \in selected \cap Bound : memory'[plan.binding[n]] \in {Gone, runs'}
    OBVIOUS
  <2>1. Execute
    BY <1>1 DEF Invalidating, Next, Request, Walk, sessionVars, CloseSelection, EndSelection,
       InvalidateAtOnce, WalkDownstream, WalkNext, InvalidateDownstream, Seed
  <2>2. /\ \A n \in selected : store[n] = None /\ n \in Nodes
        /\ \A k \in BindingsOf(selected) : memory[k] = Gone
    BY <1>1 DEF Invalidating, DroppedInv, ClearedInv, WithinInv, SelectionInv
  <2>3. BindingsOf(selected) \subseteq Keys
    BY <1>1, BindingsAreKeys DEF DroppedInv, WithinInv, SelectionInv
  <2> QED
    BY <2>1, <2>2, <2>3 DEF Execute, BindingsOf
<1>2. ASSUME DroppedInv, [Next]_vars
      PROVE [/\ \A n \in Nodes : store'[n] # store[n] => n \in selected
             /\ \A k \in Keys : memory'[k] # memory[k] =>
                  \/ memory'[k] = Gone /\ \E n \in selected \cap Bound : plan.binding[n] = k
                  \/ memory'[k] = runs' /\ \E n \in selected \cap plan.sinks : plan.key[n] = k
                  \/ memory'[k] = 0 /\ phase = "idle"]_vars
  <2> SUFFICES ASSUME Next
               PROVE /\ \A n \in Nodes : store'[n] # store[n] => n \in selected
                     /\ \A k \in Keys : memory'[k] # memory[k] =>
                          \/ memory'[k] = Gone /\ \E n \in selected \cap Bound : plan.binding[n] = k
                          \/ memory'[k] = runs' /\ \E n \in selected \cap plan.sinks : plan.key[n] = k
                          \/ memory'[k] = 0 /\ phase = "idle"
    BY <1>2
  <2>1. CASE InvalidateAtOnce \/ InvalidateDownstream
    <3>1. Invalidate(selected)
      BY <1>2, <2>1, AtOnceDropsSelection, DownstreamDropsSelection
    <3> QED
      BY <3>1 DEF Invalidate, BindingsOf
  <2>2. CASE Execute
    BY <2>2 DEF Execute
  <2>3. CASE \E key \in Keys : Seed(key)
    BY <2>3 DEF Seed
  <2>4. CASE \/ Request \/ Walk \/ CloseSelection \/ EndSelection \/ WalkDownstream \/ WalkNext
    BY <2>4 DEF Request, Walk, sessionVars, CloseSelection, EndSelection, WalkDownstream, WalkNext
  <2> QED
    BY <2>1, <2>2, <2>3, <2>4 DEF Next
<1> QED
  BY DroppedInit, DroppedNext, <1>1, <1>2, PTL
  DEF Spec, InvalidationIsExact, NothingOldAfterInvalidation, OthersKept

-----------------------------------------------------------------------------
(* Which runs an artifact comes from *)

\* Besides the types: a request has a run left, and a sink has no artifact.
StoreInv ==
  /\ TypeOK
  /\ phase # "idle" => runs < MaxRuns
  /\ \A n \in plan.sinks : store[n] = None
  /\ ~plan.soft => \A n \in Nodes : store[n] # None =>
       \A p \in DOMAIN store[n].from : store[n].from[p] = store[n].run

\* An artifact stays one when there are more runs.
LEMMA ArtifactStays ==
  ASSUME runs \in Nat, runs' \in Nat, runs <= runs', plan' = plan,
         NEW n \in Nodes, NEW artifact \in Artifact(n)
  PROVE artifact \in Artifact(n)'
<1>1. CASE artifact = None
  BY <1>1 DEF Artifact, None
<1>2. CASE artifact # None
  <2>1. PICK S \in SUBSET plan.producers[n] :
          artifact \in [run : 1..runs, from : [S -> 1..runs]]
    BY <1>2 DEF Artifact
  <2>2. artifact \in [run : 1..runs', from : [S -> 1..runs']]
    BY <2>1
  <2> QED
    BY <2>2 DEF Artifact
<1> QED
  BY <1>1, <1>2
\* A run that is not passed over its failures puts an artifact with the artifacts
\* that it has put for its producers.
LEMMA PutFromItsRun ==
  ASSUME StoreInv, NEW over \in SUBSET selected, NEW put \in SUBSET selected,
         \A n \in over \cup put : MayRun(n, over), \A n \in put : Finds(n, put),
         plan.soft \/ over \ plan.sinks \subseteq put, selected \subseteq Nodes,
         NEW n \in put, NEW p \in Inputs(n)
  PROVE /\ RunOfInput(p, put) \in 1..(runs + 1)
        /\ ~plan.soft => RunOfInput(p, put) = runs + 1
<1> USE DEF StoreInv, TypeOK
<1>1. p \in Nodes /\ p \in over /\ (p \in put \/ store[p] # None)
  BY DEF MayRun, Finds, Inputs
<1>2. CASE p \in put
  BY <1>2 DEF RunOfInput
<1>3. CASE p \notin put
  <2>1. store[p] # None /\ store[p].run \in 1..runs
    BY <1>1, <1>3 DEF Artifact
  <2>2. plan.soft
    BY <1>1, <1>3, <2>1
  <2> QED
    BY <1>3, <2>1, <2>2 DEF RunOfInput
<1> QED
  BY <1>2, <1>3

LEMMA StoreInit == Init => StoreInv
<1> SUFFICES ASSUME Init PROVE StoreInv
  OBVIOUS
<1>1. PlanAssumption(plan) /\ MaxRuns \in Nat
  BY SessionAssumption DEF Init
<1>2. \A n \in Nodes : store[n] = None /\ store[n] \in Artifact(n)
  BY DEF Init, Artifact
<1>3. TypeOK
  BY <1>1, <1>2 DEF Init, TypeOK, InvalidationMode, Relation, WalkTypeOK
<1> QED
  BY <1>1, <1>2, <1>3 DEF Init, StoreInv, PlanAssumption

LEMMA StoreExecute ==
  ASSUME StoreInv, SelectionInv, Execute
  PROVE StoreInv'
<1> USE DEF StoreInv, TypeOK
<1>1. /\ plan' = plan /\ phase' = "idle" /\ runs' = runs + 1 /\ runs' \in 0..MaxRuns
      /\ UNCHANGED <<plan, mode, selected, affected, walkVars>> /\ plan \in Plans
  BY SessionAssumption DEF Execute
<1>2. PICK over \in SUBSET selected, put \in SUBSET selected :
        /\ \A n \in over \cup put : MayRun(n, over)
        /\ \A n \in put : Finds(n, put)
        /\ plan.soft \/ over \ plan.sinks \subseteq put
        /\ store' = [n \in Nodes |->
             IF n \in put \ plan.sinks
             THEN [run |-> runs', from |-> [p \in Inputs(n) |-> RunOfInput(p, put)]]
             ELSE store[n]]
        /\ memory' = [k \in Keys |-> IF \E n \in put \cap plan.sinks : plan.key[n] = k
                                     THEN runs' ELSE memory[k]]
  BY DEF Execute
<1>3. \A n \in put : \A p \in Inputs(n) : /\ RunOfInput(p, put) \in 1..(runs + 1)
                                          /\ ~plan.soft => RunOfInput(p, put) = runs + 1
  BY <1>2, PutFromItsRun
<1>4. memory' \in [Keys -> 0..MaxRuns \cup {Gone}]
  BY <1>1, <1>2
<1>5. ASSUME NEW n \in Nodes, n \in put \ plan.sinks
      PROVE /\ store'[n] \in Artifact(n)'
            /\ ~plan.soft => \A p \in DOMAIN store'[n].from : store'[n].from[p] = store'[n].run
  <2> DEFINE from == [p \in Inputs(n) |-> RunOfInput(p, put)]
  <2>1. store'[n] = [run |-> runs', from |-> from]
    BY <1>2, <1>5
  <2>2. from \in [Inputs(n) -> 1..runs'] /\ Inputs(n) \in SUBSET plan'.producers[n]
    BY <1>1, <1>3, <1>5 DEF Inputs
  <2>3. [run |-> runs', from |-> from] \in
          [run : 1..runs', from : UNION {[S -> 1..runs'] : S \in SUBSET plan'.producers[n]}]
    BY <1>1, <2>2
  <2>4. store'[n] \in Artifact(n)'
    BY <2>1, <2>3 DEF Artifact
  <2>5. ~plan.soft => \A p \in Inputs(n) : from[p] = runs'
    BY <1>1, <1>3, <1>5
  <2> HIDE DEF from
  <2>6. DOMAIN from = Inputs(n)
    BY DEF from
  <2> QED
    BY <2>1, <2>4, <2>5, <2>6
<1>6. ASSUME NEW n \in Nodes, n \notin put \ plan.sinks
      PROVE store'[n] = store[n] /\ store'[n] \in Artifact(n)'
  BY <1>1, <1>2, <1>6, ArtifactStays
<1>7. \A n \in plan.sinks : store'[n] = None
  BY <1>1, <1>6, SessionAssumption DEF PlanAssumption
<1>8. WalkTypeOK'
  BY <1>1 DEF walkVars, WalkTypeOK
<1>9. \A n \in Nodes : store'[n] \in Artifact(n)'
  BY <1>5, <1>6
<1>10. TypeOK'
  BY <1>1, <1>4, <1>8, <1>9
<1>11. ~plan.soft => \A n \in Nodes : store'[n] # None =>
         \A p \in DOMAIN store'[n].from : store'[n].from[p] = store'[n].run
  BY <1>5, <1>6
<1> QED
  BY <1>1, <1>7, <1>10, <1>11

\* The other steps of a session put no artifact.
LEMMA StoreRest ==
  ASSUME StoreInv, TypeOK', UNCHANGED <<plan, runs>>,
         phase' # "idle" => phase # "idle" \/ runs < MaxRuns,
         \A n \in Nodes : store'[n] \in {None, store[n]}
  PROVE StoreInv'
<1>1. plan.sinks \subseteq Nodes
  BY SessionAssumption DEF StoreInv, TypeOK, PlanAssumption
<1>2. \A n \in plan.sinks : store'[n] = None
  BY <1>1 DEF StoreInv
<1>3. ~plan.soft => \A n \in Nodes : store'[n] # None =>
         \A p \in DOMAIN store'[n].from : store'[n].from[p] = store'[n].run
  BY DEF StoreInv
<1> QED
  BY <1>2, <1>3 DEF StoreInv

LEMMA StoreNext == StoreInv /\ DroppedInv /\ [Next]_vars => StoreInv'
<1> SUFFICES ASSUME StoreInv, DroppedInv, [Next]_vars PROVE StoreInv'
  OBVIOUS
<1>0. DroppedInv'
  BY DroppedNext
<1>1. CASE Execute
  BY <1>1, StoreExecute DEF DroppedInv, WithinInv
<1>2. ASSUME ~Execute PROVE UNCHANGED <<plan, runs>>
  BY <1>2 DEF Next, Request, Walk, sessionVars, CloseSelection, EndSelection, InvalidateAtOnce,
     Invalidate, WalkDownstream, WalkNext, InvalidateDownstream, Seed, vars
<1>3. WalkTypeOK' /\ plan' \in Plans /\ mode' \in InvalidationMode /\ selected' \subseteq Nodes
      /\ phase' \in {"idle", "downstream", "selecting", "planned", "invalidating", "invalidated"}
      /\ affected' \subseteq Nodes
  BY <1>0 DEF DroppedInv, WithinInv, SelectionInv, WalkInv
<1>4. ASSUME UNCHANGED <<plan, runs, store>>
      PROVE \A n \in Nodes : store'[n] \in Artifact(n)' /\ store'[n] \in {None, store[n]}
  BY <1>4 DEF StoreInv, TypeOK, Artifact
<1>5. ASSUME UNCHANGED <<plan, runs, store, memory>>, phase' # "idle" => phase # "idle" \/ runs < MaxRuns
      PROVE StoreInv'
  <2>1. TypeOK'
    BY <1>3, <1>4, <1>5 DEF StoreInv, TypeOK
  <2> QED
    BY <1>4, <1>5, <2>1, StoreRest
<1>6. CASE Request \/ Walk \/ CloseSelection \/ EndSelection \/ WalkDownstream \/ WalkNext
           \/ UNCHANGED vars
  <2>1. UNCHANGED <<plan, runs, store, memory>>
    BY <1>6 DEF Request, Walk, sessionVars, CloseSelection, EndSelection, WalkDownstream, WalkNext,
       vars
  <2>2. phase' # "idle" => phase # "idle" \/ runs < MaxRuns
    BY <1>6 DEF Request, Walk, sessionVars, CloseSelection, EndSelection, WalkDownstream, WalkNext,
       vars
  <2> QED
    BY <1>5, <2>1, <2>2
<1>7. CASE InvalidateAtOnce \/ InvalidateDownstream
  <2>1. Invalidate(selected) /\ phase # "idle"
    BY <1>7, AtOnceDropsSelection, DownstreamDropsSelection DEF InvalidateAtOnce, InvalidateDownstream
  <2>2. \A n \in Nodes : store'[n] \in {None, store[n]}
    BY <2>1 DEF Invalidate
  <2>3. UNCHANGED <<plan, runs>>
    BY <2>1 DEF Invalidate
  <2>4. \A n \in Nodes : store'[n] \in Artifact(n)'
    BY <2>2, <2>3 DEF StoreInv, TypeOK, Artifact
  <2>5. memory' \in [Keys -> 0..MaxRuns \cup {Gone}]
    BY <2>1 DEF Invalidate, StoreInv, TypeOK
  <2>6. TypeOK'
    BY <1>3, <2>3, <2>4, <2>5 DEF StoreInv, TypeOK
  <2> QED
    BY <2>1, <2>2, <2>3, <2>6, StoreRest
<1>8. CASE \E key \in Keys : Seed(key)
  <2>1. /\ phase' = "idle" /\ UNCHANGED <<plan, runs, store>>
        /\ \E key \in Keys : memory' = [memory EXCEPT ![key] = 0]
    BY <1>8 DEF Seed
  <2>2. memory' \in [Keys -> 0..MaxRuns \cup {Gone}]
    BY <2>1, SessionAssumption DEF StoreInv, TypeOK
  <2>3. TypeOK'
    BY <1>3, <1>4, <2>1, <2>2 DEF StoreInv, TypeOK
  <2> QED
    BY <1>4, <2>1, <2>3, StoreRest
<1> QED
  BY <1>1, <1>6, <1>7, <1>8 DEF Next

\* On every pipeline whose failures stop their consumers, an artifact was computed
\* from artifacts of its own run: _gather_inputs never finds an older one, whatever
\* was selected, invalidated or broken off before.
THEOREM OneRunPerArtifactHolds == Spec => []OneRunPerArtifact
<1>1. StoreInv => OneRunPerArtifact
  BY DEF StoreInv, OneRunPerArtifact
<1> QED
  BY StoreInit, StoreNext, DroppedInit, DroppedNext, <1>1, PTL DEF Spec
=============================================================================
