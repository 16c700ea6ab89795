------------------------ MODULE MCLocalOrchestrator ------------------------
(***************************************************************************)
(* Instances of LocalOrchestrator for TLC: three plans over four nodes, and *)
(* the requests that tell its properties apart.                             *)
(***************************************************************************)
EXTENDS LocalOrchestrator, TLC

CONSTANTS a, b, c, d

MCNodes == {a, b, c, d}

Undeclared == [safe |-> TRUE, limit |-> 9]
Unsafe == [safe |-> FALSE, limit |-> 9]
Once == [safe |-> TRUE, limit |-> 1]

\* a feeds b and c; d consumes b only, so c's branch is its sibling.
Fork == (a :> {}) @@ (b :> {a}) @@ (c :> {a}) @@ (d :> {b})
\* d joins b and c with a itself, two waves above.
Diamond == (a :> {}) @@ (b :> {a}) @@ (c :> {a}) @@ (d :> {a, b, c})

MCPlans ==
  {[producers |-> Fork, selected |-> {a, b, c, d}, sqlSinks |-> {c, d},
    retrySafety |-> (a :> Unsafe) @@ (b :> Undeclared) @@ (c :> Undeclared) @@ (d :> Once)],
   [producers |-> Diamond, selected |-> {a, b, c, d}, sqlSinks |-> {d},
    retrySafety |-> (a :> Undeclared) @@ (b :> Once) @@ (c :> Undeclared) @@ (d :> Undeclared)],
   \* a slice without the upstream closure of c and d
   [producers |-> Fork, selected |-> {a, c, d}, sqlSinks |-> {c},
    retrySafety |-> [n \in MCNodes |-> Undeclared]]}

Request(retryOn, concurrency, callbacks, exits, middleware) ==
  [maxAttempts |-> 2, retryOn |-> retryOn, backoff |-> "timeout" \in exits,
   concurrency |-> concurrency, callbacks |-> callbacks, exits |-> exits,
   middleware |-> middleware]

MCRequests ==
  {Request({}, 1, {"fail"}, {"cancel", "timeout", "cleanup"}, {}),
   Request({"timeout"}, 2, FailureAction, {}, {}),
   Request({}, 2, {"fail", "skip", "continue"}, {}, {"raise", "skip"}),
   Request({"unknown"}, 1, {"fail"}, {"timeout"}, {"skip", "swallow"})}
=============================================================================
