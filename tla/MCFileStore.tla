----------------------------- MODULE MCFileStore -----------------------------
(***************************************************************************)
(* FileStore with two processes and three items, reports and histories,     *)
(* under every policy.                                                      *)
(***************************************************************************)
EXTENDS FileStore

CONSTANTS p1, p2, i1, i2, i3

MCProcesses == {p1, p2}
MCItems == {i1, i2, i3}
MCByName == <<i3, i1, i2>>

\* Retention and files over max_read_bytes where they matter most: with a file that
\* is written again and again, under the default policy.
MCModes ==
  {m \in [kind : {"reports", "history"}, overwrite : {"reject", "atomic_replace"},
          locking : BOOLEAN, retention : BOOLEAN, concurrent : BOOLEAN, readLimit : {2, 3}] :
     /\ m.retention =>
          m.kind = "history" /\ m.concurrent /\ m.locking /\ m.overwrite = "atomic_replace"
     /\ m.readLimit = 2 =>
          m.kind = "history" /\ m.overwrite = "atomic_replace" /\ ~m.retention}
=============================================================================
