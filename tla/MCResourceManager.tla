-------------------------- MODULE MCResourceManager --------------------------
(***************************************************************************)
(* Small instances of ResourceManager: two runs of one pipeline that take   *)
(* turns (the first of two steps), two runs side by side, and the same with *)
(* one run cancellable and cleanups that may raise.                         *)
(***************************************************************************)
EXTENDS ResourceManager, TLC

CONSTANTS r1, r2, s1, s2, db, api

MCRuns == {r1, r2}
MCSteps == {s1, s2}
MCNames == {db, api}

SideBySide == {<<r1, s1>>, <<r2, s1>>}
TakingTurns == [tasks |-> SideBySide \cup {<<r1, s2>>}, names |-> {db}, concurrent |-> FALSE,
                cancellable |-> {}, cleanupMayRaise |-> FALSE]
Together == [TakingTurns EXCEPT !.tasks = SideBySide, !.concurrent = TRUE,
                           !.names = MCNames]
Disturbed == [Together EXCEPT !.names = {db}, !.cancellable = {r1}, !.cleanupMayRaise = TRUE]
TurnsDisturbed == [Disturbed EXCEPT !.concurrent = FALSE, !.names = MCNames]

MCModes == {TakingTurns, Together, Disturbed, TurnsDisturbed}
=============================================================================
