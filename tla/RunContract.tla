----------------------------- MODULE RunContract -----------------------------
(***************************************************************************)
(* What a run promises to its caller, without waves, tasks, attempts or     *)
(* callbacks: nodes are worked on in dependency order, a node that ends     *)
(* badly rules out only nodes that depend on it, and the verdict is given   *)
(* once, by the nodes' fates: complete ones, when the run middleware hands   *)
(* the run on.                                                              *)
(***************************************************************************)
CONSTANT Nodes

VARIABLES
  producers, selected,   \* the graph and the selection, never written
  handedOn,              \* no run middleware skips or swallows, never written
  fate,                  \* what has become of each node: "waiting", "working",
                         \* "completed", "skipped", "failed" or "abandoned"
  verdict                \* what the run's report says, or "none"

vars == <<producers, selected, handedOn, fate, verdict>>

Init ==
  /\ producers \in [Nodes -> SUBSET Nodes]
  /\ selected \in SUBSET Nodes
  /\ handedOn \in BOOLEAN
  /\ fate = [n \in Nodes |-> "waiting"]
  /\ verdict = "none"

Start(n) ==
  /\ verdict = "none"
  /\ n \in selected
  /\ fate[n] = "waiting"
  /\ \A p \in producers[n] : fate[p] = "completed"
  /\ fate' = [fate EXCEPT ![n] = "working"]
  /\ UNCHANGED <<producers, selected, handedOn, verdict>>

Complete(n) ==
  /\ verdict = "none"
  /\ fate[n] = "working"
  /\ fate' = [fate EXCEPT ![n] = "completed"]
  /\ UNCHANGED <<producers, selected, handedOn, verdict>>

\* Waiting nodes may be ruled out when each of them depends on a node that
\* will not complete: unselected, ended badly, or ruled out as well.
RuledOut(after) ==
  \A n \in Nodes : fate[n] = "waiting" /\ after[n] = "abandoned" =>
    /\ n \in selected
    /\ \E p \in producers[n] :
         p \notin selected \/ after[p] \in {"skipped", "failed", "abandoned"}

Drop(n, end) ==
  /\ verdict = "none"
  /\ fate[n] = "working"
  /\ \E dropped \in SUBSET {m \in Nodes : fate[m] = "waiting"} :
       /\ fate' = [m \in Nodes |-> IF m \in dropped THEN "abandoned"
                                   ELSE IF m = n THEN end ELSE fate[m]]
       /\ RuledOut(fate')
  /\ UNCHANGED <<producers, selected, handedOn, verdict>>

Abandon ==
  /\ verdict = "none"
  /\ \E dropped \in SUBSET {m \in Nodes : fate[m] = "waiting"} :
       /\ fate' = [m \in Nodes |-> IF m \in dropped THEN "abandoned" ELSE fate[m]]
       /\ RuledOut(fate')
  /\ UNCHANGED <<producers, selected, handedOn, verdict>>

\* The verdict of a run that ended by itself.  That no node is still worked on, and
\* that success leaves none waiting, is promised when the run was handed on.
Conclude ==
  /\ verdict = "none"
  /\ handedOn => \A n \in Nodes : fate[n] # "working"
  /\ verdict' \in IF \E n \in Nodes : fate[n] \in {"failed", "abandoned"}
                   THEN {"PARTIAL", "FAILED"} ELSE {"SUCCEEDED"}
  /\ verdict' = "PARTIAL" => \E n \in Nodes : fate[n] = "completed"
  /\ handedOn /\ verdict' = "SUCCEEDED" =>
       \A n \in selected : fate[n] \in {"completed", "skipped"}
  /\ UNCHANGED <<producers, selected, handedOn, fate>>

\* An interrupted run may be given up at any moment.
GiveUp ==
  /\ verdict = "none"
  /\ verdict' \in {"TIMED_OUT", "CANCELLED", "FAILED"}
  /\ UNCHANGED <<producers, selected, handedOn, fate>>

Next ==
  \/ \E n \in Nodes : Start(n) \/ Complete(n) \/ Drop(n, "skipped") \/ Drop(n, "failed")
  \/ Abandon
  \/ Conclude
  \/ GiveUp

Spec == Init /\ [][Next]_vars
=============================================================================
