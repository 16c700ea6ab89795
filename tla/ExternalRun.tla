------------------------------ MODULE ExternalRun ------------------------------
(***************************************************************************)
(* A plan is compiled for an external orchestrator, runs there, and is     *)
(* polled; every answer is correlated with the report.  The orchestrator   *)
(* (Airflow: tasks, retries, a run that can be cancelled) and whoever polls*)
(* it are not in the repository and are modelled from how the generated    *)
(* DAG and correlate_poll_to_report use them: answers are snapshots that   *)
(* may be lost, delivered late, in any order, and more than once.          *)
(*                                                                         *)
(* Besides what Planning reads of a project p:                             *)
(*   p.selected             the nodes of the plan's slice                  *)
(*   p.retries, p.attempts  the execution intent's retries, and the plan's *)
(*                          retry_max_attempts, or 0                       *)
(*   p.declared, p.intent   the retry-safety declarations and write intents*)
(*                          in the plan's intents, per node                *)
(*   p.event, p.supported   an event schedule; are all the capabilities    *)
(*                          that the profile requires there?               *)
(***************************************************************************)
EXTENDS Planning

CONSTANTS
  Projects,
  MaxPolls,      \* polls taken
  MaxDeliveries  \* answers correlated

\* A slice has the producers of its nodes; retries and limits are numbers.
ASSUME ExternalAssumption ==
  /\ MaxPolls \in Nat /\ MaxDeliveries \in Nat
  /\ \A p \in Projects :
       /\ p.selected \subseteq Nodes /\ p.retries \in Nat /\ p.attempts \in Nat
       /\ \A n \in p.selected :
            p.producers[n] \subseteq p.selected /\ p.declared[n].limit \in Nat

VARIABLES
  project,   \* chosen once, never written
  dag,       \* the compiled artifact
  run,       \* the DAG run, and for every task its state and tries
  state, tries,
  taken, network,  \* the polls taken, and those that were answered
  report,    \* status, step statuses, number of backend references
  last, newest     \* the poll correlated last, and the newest that ever was

orchestrator == <<run, state, tries>>
vars == <<project, dag, orchestrator, taken, network, report, last, newest>>

NoLimit == 0
Undeclared == [given |-> FALSE, safe |-> TRUE, limit |-> NoLimit]
Declared(safe, limit) == [given |-> TRUE, safe |-> safe, limit |-> limit]

Larger(a, b) == IF a > b THEN a ELSE b
Smaller(a, b) == IF a < b THEN a ELSE b
LessOne(n) == Larger(0, n - 1)

(***************************************************************************)
(* Compilation                                                             *)
(***************************************************************************)
SafeWriteIntent == {None, "append", "overwrite", "merge"}

\* A declaration decides; without one a sink's write intent does.
RetrySafe(p, n) ==
  IF p.declared[n].given THEN p.declared[n].safe
  ELSE p.kind[n] = "sink" => p.intent[n] \in SafeWriteIntent

Requested(p) == Larger(p.retries, LessOne(p.attempts))

\* Mutant of TaskRetries: what a declaration limits is the retries.
LimitIsRetries(p, n) ==
  IF ~RetrySafe(p, n) THEN 0
  ELSE IF p.declared[n].limit = NoLimit THEN Requested(p)
  ELSE Smaller(Requested(p), p.declared[n].limit)

TaskRetries(p, n) ==
  IF ~RetrySafe(p, n) THEN 0
  ELSE IF p.declared[n].limit = NoLimit THEN Requested(p)
  ELSE Smaller(Requested(p), LessOne(p.declared[n].limit))

UnsafeRetry(p) == {n \in p.selected : Requested(p) > 0 /\ ~RetrySafe(p, n)}

\* What a task cannot hand to one in another process.
Untransportable(p, plan) == {n \in p.selected : plan.strategy[n] = "in_memory"}

\* The diagnostics that make compile_plan fail.
CompilationErrors(p, plan) ==
  {code \in {"PMORCH301", "PMORCH320", "PMORCH310", "PMORCH340"} :
     CASE code = "PMORCH301" -> ~p.supported
       [] code = "PMORCH320" -> p.event
       [] code = "PMORCH310" -> UnsafeRetry(p) # {}
       [] code = "PMORCH340" -> Untransportable(p, plan) # {}}

\* Mutant of TaskGraph: one dependency per task.
SingleDependency(p) ==
  [n \in p.selected |->
     IF p.producers[n] = {} THEN {} ELSE {CHOOSE m \in p.producers[n] : TRUE}]

TaskGraph(p) == [n \in p.selected |-> p.producers[n] \cap p.selected]

NoDag == [accepted |-> FALSE, errors |-> {}]

\* A plan is made of the selected part of the graph only.
SliceGraph(p) ==
  [p EXCEPT !.kind = [n \in Nodes |-> IF n \in p.selected THEN p.kind[n] ELSE None],
            !.producers = [n \in Nodes |->
              IF n \in p.selected THEN p.producers[n] \cap p.selected ELSE {}]]

CompilePlan ==
  /\ dag = NoDag
  /\ LET plan == BuildPlan(SliceGraph(project))
         errors == CompilationErrors(project, plan)
     IN  dag' = IF errors # {} THEN [accepted |-> FALSE, errors |-> errors]
                ELSE [accepted |-> TRUE, errors |-> {},
                      dependencies |-> TaskGraph(project),
                      retries |-> [n \in project.selected |-> TaskRetries(project, n)]]
  /\ UNCHANGED <<project, orchestrator, taken, network, report, last, newest>>

(***************************************************************************)
(* The external orchestrator                                               *)
(***************************************************************************)
Tasks == project.selected
Ended(n) == state[n] \in {"success", "failed", "upstream_failed", "cancelled"}
World == <<project, dag, taken, network, report, last, newest>>

Submit ==
  /\ dag.accepted /\ run = None
  /\ run' = "running"
  /\ UNCHANGED <<World, state, tries>>

\* A task starts when all it depends on have succeeded, and again after a failure.
StartTask(n) ==
  /\ run = "running" /\ state[n] \in {None, "up_for_retry"}
  /\ \A m \in dag.dependencies[n] : state[m] = "success"
  /\ state' = [state EXCEPT ![n] = "running"]
  /\ tries' = [tries EXCEPT ![n] = @ + 1]
  /\ UNCHANGED <<World, run>>

EndTask(n) ==
  /\ run = "running" /\ state[n] = "running"
  /\ \/ state' = [state EXCEPT ![n] = "success"]
     \/ state' = [state EXCEPT ![n] =
                    IF tries[n] <= dag.retries[n] THEN "up_for_retry" ELSE "failed"]
  /\ UNCHANGED <<World, run, tries>>

FailDownstream(n) ==
  /\ run = "running" /\ state[n] = None
  /\ \E m \in dag.dependencies[n] : state[m] \in {"failed", "upstream_failed"}
  /\ state' = [state EXCEPT ![n] = "upstream_failed"]
  /\ UNCHANGED <<World, run, tries>>

EndRun ==
  /\ run = "running" /\ \A n \in Tasks : Ended(n)
  /\ run' = IF \A n \in Tasks : state[n] = "success" THEN "success" ELSE "failed"
  /\ UNCHANGED <<World, state, tries>>

CancelRun ==
  /\ run = "running"
  /\ run' = "cancelled"
  /\ state' = [n \in Nodes |-> IF n \in Tasks /\ ~Ended(n) THEN "cancelled" ELSE state[n]]
  /\ UNCHANGED <<World, tries>>

(***************************************************************************)
(* Polls                                                                   *)
(***************************************************************************)
PollStatus ==
  CASE run = "success" -> "succeeded" [] run = "failed" -> "failed"
    [] run = "cancelled" -> "cancelled" [] OTHER -> "running"

\* A snapshot of the run; tasks that have not been looked at have no state.  A
\* backend that does not answer leaves a status "unknown".
Poll ==
  /\ run # None /\ taken < MaxPolls
  /\ taken' = taken + 1
  /\ \/ network' = network \cup {[number |-> taken', status |-> PollStatus, states |-> state]}
     \/ network' = network \cup {[number |-> taken', status |-> "unknown",
                                  states |-> [n \in Nodes |-> None]]}
  /\ UNCHANGED <<project, dag, orchestrator, report, last, newest>>

\* Mutant of MappedStep: a state that is not in the table is a failure.
StrictMappedStep(task, before) ==
  CASE task = None -> before
    [] task = "success" -> "succeeded"
    [] task \in {"running", "cancelled"} -> task
    [] OTHER -> "failed"

\* _STEP_STATUS_MAP; up_for_retry is not in it, and leaves the step as it was.  (No task
\* of a compiled DAG is skipped, and one that waits in a queue has not begun.)
MappedStep(task, before) ==
  CASE task = "success" -> "succeeded"
    [] task \in {"failed", "upstream_failed"} -> "failed"
    [] task \in {"running", "cancelled", "skipped"} -> task
    [] task = "queued" -> "pending"
    [] OTHER -> before

\* Mutant of MappedRun: a run of unknown status is taken to be running.
UnknownRuns(status, before) == IF status = "unknown" THEN "running" ELSE status

\* _STATUS_MAP; "unknown" is not in it.
MappedRun(status, before) == IF status = "unknown" THEN before ELSE status

CorrelatePollToReport(poll) ==
  /\ report.references < MaxDeliveries
  /\ report' = [status |-> MappedRun(poll.status, report.status),
                steps |-> [n \in Tasks |-> MappedStep(poll.states[n], report.steps[n])],
                references |-> report.references + 1]
  /\ last' = poll.number /\ newest' = Larger(newest, poll.number)
  /\ UNCHANGED <<project, dag, orchestrator, taken, network>>

Init ==
  /\ project \in Projects
  /\ dag = NoDag
  /\ run = None /\ state = [n \in Nodes |-> None] /\ tries = [n \in Nodes |-> 0]
  /\ taken = 0 /\ network = {}
  /\ report = [status |-> "pending", steps |-> [n \in Tasks |-> "pending"], references |-> 0]
  /\ last = 0 /\ newest = 0

TaskNext(n) == StartTask(n) \/ EndTask(n) \/ FailDownstream(n)

Next ==
  \/ CompilePlan \/ Submit \/ EndRun \/ CancelRun \/ Poll
  \/ \E n \in Tasks : TaskNext(n)
  \/ \E poll \in network : CorrelatePollToReport(poll)

Spec == Init /\ [][Next]_vars

(***************************************************************************)
(* Properties                                                              *)
(***************************************************************************)
TaskState == {None, "running", "success", "up_for_retry", "failed", "upstream_failed",
              "cancelled"}
StepStatus == {"pending", "running", "succeeded", "failed", "cancelled"}
Over == {"succeeded", "failed", "cancelled"}

\* Every variable has its type.
TypeOK ==
  /\ run \in {None, "running", "success", "failed", "cancelled"}
  /\ state \in [Nodes -> TaskState] /\ tries \in [Nodes -> Nat]
  /\ taken \in 0..MaxPolls /\ last \in 0..taken /\ newest \in last..taken
  /\ \A poll \in network : poll.number \in 1..taken /\ poll.states \in [Nodes -> TaskState]
  /\ report.status \in StepStatus /\ report.steps \in [Tasks -> StepStatus]
  /\ report.references \in 0..MaxDeliveries

\* The DAG keeps the plan's graph and its promises about repetition: no task starts
\* before everything its node reads was produced, none is tried again in a run with a
\* node that must not be, and none more often than its own declaration says.
Unsafe(n) == \/ project.declared[n].given /\ ~project.declared[n].safe
             \/ ~project.declared[n].given /\ project.kind[n] = "sink"
                /\ project.intent[n] = "non_idempotent"
DagKeepsPlan ==
  \A n \in Tasks :
    /\ tries[n] > 0 => \A m \in project.producers[n] : state[m] = "success"
    /\ tries[n] > 1 =>
         /\ \A m \in Tasks : ~Unsafe(m)
         /\ project.declared[n].limit # NoLimit => tries[n] <= project.declared[n].limit
         /\ tries[n] <= Larger(project.retries + 1, project.attempts)

\* What the report says has ended has ended so in the backend, and a run that succeeded
\* has no step that did not, in whatever order and however often the answers come, and
\* whatever states they have that ETLantic has no name for.
EndedAs(step) ==
  CASE step = "succeeded" -> {"success"} [] step = "failed" -> {"failed", "upstream_failed"}
    [] OTHER -> {"cancelled"}
ReportedAsHappened ==
  /\ report.status \in Over =>
       /\ PollStatus = report.status
       /\ report.status = "succeeded" => \A n \in Tasks : report.steps[n] = "succeeded"
  /\ \A n \in Tasks : report.steps[n] \in Over => state[n] \in EndedAs(report.steps[n])

\* The report goes back from an end, of a step or of the run, only by an answer that is
\* older than one it has seen.
Regresses ==
  \/ report.status \in Over /\ report'.status # report.status
  \/ \E n \in Tasks : report.steps[n] \in Over /\ report'.steps[n] # report.steps[n]
OnlyLateAnswersRegress == [][Regresses => last' < newest]_vars
=============================================================================
