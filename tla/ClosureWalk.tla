----------------------------- MODULE ClosureWalk -----------------------------
(***************************************************************************)
(* The worklist loop by which dependency_closure, downstream_of,            *)
(* minimum_safe_repair and invalidation_targets walk the logical graph: one *)
(* relation between nodes, a stack of nodes to look at, and the set of the  *)
(* nodes seen.  The loops mark a node either when they pop it or when they  *)
(* push it.  A node twice on the stack is skipped the second time it is     *)
(* popped, so that the stack is a set here; its order does not matter.      *)
(***************************************************************************)
CONSTANT Nodes

VARIABLES
  next,       \* producers or consumers of every node
  targets,    \* the nodes the walk starts from
  marking,    \* "on_pop" or "on_push"
  stack, seen

walkVars == <<next, targets, marking, stack, seen>>

Relation == [Nodes -> SUBSET Nodes]

\* Up to the loop: what it starts from.
BeginWalk(relation, from, mark) ==
  /\ next' = relation
  /\ targets' = from
  /\ marking' = mark
  /\ stack' = from
  /\ seen' = IF mark = "on_push" THEN from ELSE {}

\* Mutant of PopAndMark: producers already seen are not left out, and the node
\* is not skipped when it was seen.
PopForgetful(n) ==
  /\ marking = "on_pop"
  /\ seen' = seen \cup {n}
  /\ stack' = (stack \ {n}) \cup next[n]

\* `if node in seen: continue`, else seen.add and push what is not seen.
PopAndMark(n) ==
  /\ marking = "on_pop"
  /\ seen' = seen \cup {n}
  /\ stack' = IF n \in seen THEN stack \ {n}
              ELSE (stack \ {n}) \cup (next[n] \ seen')

\* Mutant of PopAndPush: the child is marked but not pushed.
PopWithoutPush(n) ==
  /\ marking = "on_push"
  /\ seen' = seen \cup next[n]
  /\ stack' = stack \ {n}

\* Children not affected yet are added to `affected` and pushed.
PopAndPush(n) ==
  /\ marking = "on_push"
  /\ seen' = seen \cup next[n]
  /\ stack' = (stack \ {n}) \cup (next[n] \ seen)

WalkStep ==
  /\ \E n \in stack : PopAndMark(n) \/ PopAndPush(n)
  /\ UNCHANGED <<next, targets, marking>>

WalkInit ==
  /\ next \in Relation
  /\ targets \in SUBSET Nodes
  /\ marking \in {"on_pop", "on_push"}
  /\ stack = targets
  /\ seen = IF marking = "on_push" THEN targets ELSE {}

WalkSpec == WalkInit /\ [][WalkStep]_walkVars /\ WF_walkVars(WalkStep)
-----------------------------------------------------------------------------
WalkTypeOK ==
  /\ next \in Relation
  /\ targets \in SUBSET Nodes
  /\ marking \in {"on_pop", "on_push"}
  /\ stack \in SUBSET Nodes
  /\ seen \in SUBSET Nodes

IsClosed(S, relation) == \A n \in S : relation[n] \subseteq S

\* Nodes that every closed set around the targets has: the closure, without a
\* word on how to compute it.
Closure(from, relation) ==
  {n \in Nodes : \A S \in SUBSET Nodes :
     from \subseteq S /\ IsClosed(S, relation) => n \in S}

\* WalkIsExact: when its stack is empty a walk has seen the closure of its
\* targets, on any graph, with cycles or without: no node is missing from a
\* selection or an invalidation, and none is in it without a reason.
WalkIsExact == stack = {} => seen = Closure(targets, next)

\* What holds inside the loop: nothing outside the closure is seen or stacked,
\* and what the seen nodes lead to is seen, or still on the stack.
WalkInv ==
  /\ WalkTypeOK
  /\ seen \cup stack \subseteq Closure(targets, next)
  /\ targets \subseteq seen \cup stack
  /\ marking = "on_pop" => \A n \in seen : next[n] \subseteq seen \cup stack
  /\ marking = "on_push" => /\ stack \subseteq seen
                            /\ \A n \in seen \ stack : next[n] \subseteq seen
=============================================================================
