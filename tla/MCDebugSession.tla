--------------------------- MODULE MCDebugSession ---------------------------
(***************************************************************************)
(* DebugSession on pipelines with a side branch, with a join, and with a    *)
(* member redefined in a subclass.                                         *)
(***************************************************************************)
EXTENDS DebugSession, TLC

CONSTANTS s, t, u, k, x, y

MCNodes == {s, t, u, k}
MCKeys == {x, y}

\* s -> t -> k with u beside it, declared before the sink.
Branch == [order |-> <<s, t, u, k>>,
           producers |-> (s :> {}) @@ (t :> {s}) @@ (u :> {s}) @@ (k :> {t}),
           sources |-> {s}, sinks |-> {k}, soft |-> FALSE,
           binding |-> (s :> x) @@ (k :> y), key |-> (s :> x) @@ (k :> y)]
\* u is a second source of the same asset, joined with t in k.
Join == [order |-> <<s, t, u, k>>,
         producers |-> (s :> {}) @@ (t :> {s}) @@ (u :> {}) @@ (k :> {t, u}),
         sources |-> {s, u}, sinks |-> {k}, soft |-> FALSE,
         binding |-> (s :> x) @@ (u :> x) @@ (k :> y), key |-> (s :> x) @@ (u :> x) @@ (k :> y)]

\* A subclass added u, and redefined the sink k of its base to load it, at a location
\* whose name is the asset that s reads.
Redefined == [order |-> <<s, t, k, u>>,
              producers |-> (s :> {}) @@ (t :> {s}) @@ (u :> {t}) @@ (k :> {u}),
              sources |-> {s}, sinks |-> {k}, soft |-> FALSE,
             binding |-> (s :> x) @@ (k :> y), key |-> (s :> x) @@ (k :> x)]

\* Two branches; k loads the asset that s reads to a location with the name of the
\* asset that u reads.
Apart == [order |-> <<s, u, t, k>>,
          producers |-> (s :> {}) @@ (t :> {u}) @@ (u :> {}) @@ (k :> {s}),
          sources |-> {s, u}, sinks |-> {k}, soft |-> FALSE,
          binding |-> (s :> x) @@ (u :> y) @@ (k :> x),
          key |-> (s :> x) @@ (u :> y) @@ (k :> y)]

MCPlans == {Branch, [Branch EXCEPT !.soft = TRUE], Join, Redefined, Apart}
=============================================================================
