-------------------------- MODULE MCSqlPublication --------------------------
(***************************************************************************)
(* SqlPublication with two runs, under both intents, both kinds of DDL, in  *)
(* turn and at the same time.                                               *)
(***************************************************************************)
EXTENDS SqlPublication

CONSTANTS r1, r2

MCRuns == {r1, r2}
MCModes == ModeType
=============================================================================
