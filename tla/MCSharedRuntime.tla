--------------------------- MODULE MCSharedRuntime ---------------------------
(***************************************************************************)
(* Three runs of one pipeline on one runtime, alike or not: with each      *)
(* scheduler and each kind of artifact store, on profiles that authorize   *)
(* both the Spark plugin and its session provider, the plugin alone, or    *)
(* neither.  Nothing is registered by hand: each is found by a run or not  *)
(* at all.  (A provider nobody provides is taken as the one named local.)  *)
(***************************************************************************)
EXTENDS SharedRuntime, TLC

CONSTANTS r1, r2, r3

MCRuns == {r1, r2, r3}
RunSymmetry == Permutations(MCRuns)
MCPlugins == {"pyspark", "local"}
MCFound == [p \in {"dev", "prod", "bare"} |->
  CASE p = "dev" -> MCPlugins [] p = "prod" -> {"pyspark"} [] OTHER -> {}]
Setting(profile, scheduler, store, spark, soft) ==
  [profile |-> profile, scheduler |-> scheduler, store |-> store, spark |-> spark, soft |-> soft]
MCSettings ==
  {Setting("dev", "prefect", "runtime", None, TRUE),
   Setting("prod", "local", "runtime", "local", FALSE),
   Setting("bare", "local", "own", "named", TRUE)}
=============================================================================
