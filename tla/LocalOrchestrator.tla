-------------------------- MODULE LocalOrchestrator --------------------------
(***************************************************************************)
(* One run of LocalOrchestrator.execute: the wave loop of run_body, the     *)
(* attempt / callback / retry automaton of _execute_node under the capacity *)
(* limiter, cancellation and the run timeout, and the report and the event  *)
(* that end the run.                                                        *)
(*                                                                         *)
(* A step between two awaits is one action.  What a node computes is        *)
(* abstracted to the way its attempt ends: "none" (no exception), "error"   *)
(* (any Exception), "timeout" (TimeoutError) or "unknown" (NodeExecutionError*)
(* PMEXEC434, the sink write whose commit outcome is unknown).  A run        *)
(* middleware may answer for the run: refuse it, return without call_next,   *)
(* swallow or replace what call_next raised.  It calls call_next once at     *)
(* most.                                                                    *)
(***************************************************************************)
EXTENDS Naturals, FiniteSets

CONSTANTS
  Nodes,       \* node names of the logical graph
  Plans,       \* plans a run may be given, each with its graph and selection
  Requests     \* run requests: retry policy, concurrency, registered callbacks

Errors == {"error", "timeout", "unknown"}
FailureAction == {"continue", "retry", "fail", "skip"}

\* retrySafety[n] stands for assert_retry_safe's declaration of n: without a
\* declaration it is [safe |-> TRUE, limit |-> any bound above max_attempts].
PlanType ==
  [producers : [Nodes -> SUBSET Nodes],
   selected : SUBSET Nodes,
   sqlSinks : SUBSET Nodes,
   retrySafety : [Nodes -> [safe : BOOLEAN, limit : Nat]]]

\* retry_on = () is the empty set; callbacks are the actions the registered
\* step_failed handlers may answer ("fail" when there is none); exits are what,
\* besides run_body, may end the run: "cleanup" is a run resource whose cleanup
\* raises; middleware is what the run middleware may do but hand the run on.
RequestType ==
  [maxAttempts : Nat \ {0},
   retryOn : SUBSET Errors,
   backoff : BOOLEAN,
   concurrency : Nat \ {0},
   callbacks : SUBSET FailureAction,
   exits : SUBSET {"timeout", "cancel", "cleanup"},
   middleware : SUBSET {"skip", "swallow", "raise"}]

ASSUME ConstantsAssumption ==
  /\ IsFiniteSet(Nodes)
  /\ Plans \subseteq PlanType
  /\ Requests \subseteq RequestType
  /\ \A request \in Requests : request.callbacks # {}

VARIABLES
  plan, request,                \* the inputs of the run, never written
  phase,                        \* where execute() stands
  cause,                        \* what is unwinding the run, if anything
  pending, completed, failed,   \* run_body's three sets
  wave,                         \* tasks of the current wave not yet finished
  pc,                           \* where the task of a node stands
  status, attempts, soft,       \* _NodeState; soft: continue_after_failure
  err,                          \* the exception the current attempt raised
  report,                       \* status of the stored report, or "none"
  event,                        \* terminal event of the run, or "none"
  outcome                       \* how execute() ended for its caller

runVars == <<phase, cause, report, event, outcome>>
loopVars == <<pending, completed, failed, wave>>
nodeVars == <<pc, status, attempts, soft, err>>
vars == <<plan, request, runVars, loopVars, nodeVars>>

Phases == {"entering", "scheduling", "wave", "unwinding", "leaving",
           "cleaning", "notifying", "over"}
Causes == {"timeout", "cancel", "error", "rejected"}
Pcs == {"idle", "queued", "running", "cleanup", "callback", "backoff", "done"}
HardFailures == {"FAILED", "TIMED_OUT"}
Terminal == HardFailures \cup {"SUCCEEDED", "SKIPPED", "ABANDONED"}
StepStatus == Terminal \cup {"PENDING", "RUNNING", "RETRYING"}
RunStatus == {"SUCCEEDED", "FAILED", "PARTIAL", "TIMED_OUT", "CANCELLED"}

-----------------------------------------------------------------------------
Consumers(n) == {m \in Nodes : n \in plan.producers[m]}

\* The nodes the stack walk over consumers reaches from n.
ClosedBelow(n, S) ==
  /\ Consumers(n) \subseteq S
  /\ \A m \in S : Consumers(m) \subseteq S

\* Mutant: the walk clears every pending node, siblings included.
DescendantsAll(n) == Nodes
Descendants(n) ==
  {m \in Nodes : \A S \in SUBSET Nodes : ClosedBelow(n, S) => m \in S}

\* Mutant: one completed producer is enough.
readyAny ==
  {n \in pending : plan.producers[n] = {} \/ plan.producers[n] \cap completed # {}}
ready == {n \in pending : plan.producers[n] \subseteq completed}

\* Nodes whose task is inside "async with limiter".
Holders == {n \in Nodes : pc[n] \in {"running", "cleanup", "callback", "backoff"}}

\* Mutant: an unknown commit outcome is an error like any other.
ShouldRetryUnknown(e) ==
  IF request.retryOn = {} THEN request.maxAttempts > 1 ELSE e \in request.retryOn
ShouldRetry(e) ==
  /\ e # "unknown"
  /\ IF request.retryOn = {} THEN request.maxAttempts > 1 ELSE e \in request.retryOn

RetrySafe(n, attempt) ==
  /\ plan.retrySafety[n].safe \/ attempt <= 1
  /\ attempt <= plan.retrySafety[n].limit

FailedStatus(n) == IF err[n] = "timeout" THEN "TIMED_OUT" ELSE "FAILED"

Init ==
  /\ plan \in Plans
  /\ request \in Requests
  /\ phase = "entering"
  /\ cause = "none"
  /\ pending = plan.selected
  /\ completed = {}
  /\ failed = {}
  /\ wave = {}
  /\ pc = [n \in Nodes |-> "idle"]
  /\ status = [n \in Nodes |-> "PENDING"]
  /\ attempts = [n \in Nodes |-> 0]
  /\ soft = {}
  /\ err = [n \in Nodes |-> "none"]
  /\ report = "none"
  /\ event = "none"
  /\ outcome = "running"

-----------------------------------------------------------------------------
(* The wave loop *)

EnterBody ==
  /\ phase = "entering"
  /\ phase' = "scheduling"
  /\ UNCHANGED <<plan, request, cause, report, event, outcome, loopVars, nodeVars>>

FormWave ==
  /\ phase = "scheduling"
  /\ failed = {}
  /\ ready # {}
  /\ phase' = "wave"
  /\ wave' = ready
  /\ pending' = pending \ ready
  /\ pc' = [n \in Nodes |-> IF n \in ready THEN "queued" ELSE pc[n]]
  /\ UNCHANGED <<plan, request, cause, report, event, outcome, completed, failed,
                 status, attempts, soft, err>>

\* Mutant: everything that did not complete is abandoned, not what is pending.
AbandonUnmetAll ==
  /\ phase = "scheduling"
  /\ failed = {}
  /\ ready = {}
  /\ status' = [n \in Nodes |-> IF n \in completed THEN status[n] ELSE "ABANDONED"]
  /\ pending' = {}
  /\ phase' = "leaving"
  /\ UNCHANGED <<plan, request, cause, report, event, outcome, completed, failed,
                 wave, pc, attempts, soft, err>>

\* No node is ready: what is left has an upstream that will never complete.
AbandonUnmet ==
  /\ phase = "scheduling"
  /\ failed = {}
  /\ ready = {}
  /\ status' = [n \in Nodes |-> IF n \in pending THEN "ABANDONED" ELSE status[n]]
  /\ pending' = {}
  /\ phase' = "leaving"
  /\ UNCHANGED <<plan, request, cause, report, event, outcome, completed, failed,
                 wave, pc, attempts, soft, err>>

StopAfterFailure ==
  /\ phase = "scheduling"
  /\ failed # {}
  /\ phase' = "leaving"
  /\ UNCHANGED <<plan, request, cause, report, event, outcome, loopVars, nodeVars>>

\* Mutant: the loop goes on without waiting for the wave's last task.
WaveDoneEarly ==
  /\ phase = "wave"
  /\ Cardinality(wave) <= 1
  /\ phase' = "scheduling"
  /\ UNCHANGED <<plan, request, cause, report, event, outcome, loopVars, nodeVars>>

WaveDone ==
  /\ phase = "wave"
  /\ wave = {}
  /\ phase' = "scheduling"
  /\ UNCHANGED <<plan, request, cause, report, event, outcome, loopVars, nodeVars>>

-----------------------------------------------------------------------------
(* One task: the attempts of a node *)

\* A task resumes while its run is alive, or once more while the run unwinds
\* when what it awaited had already completed.
Resumes(n) == phase \in {"wave", "unwinding"} /\ n \in wave

\* Mutant: a retry does not advance the attempt counter.
BeginAttemptStuck(n) ==
  /\ attempts' = [attempts EXCEPT ![n] = 1]
  /\ status' = [status EXCEPT ![n] = IF attempts[n] = 0 THEN "RUNNING" ELSE "RETRYING"]
  /\ pc' = [pc EXCEPT ![n] = "running"]
  /\ err' = [err EXCEPT ![n] = "none"]
  /\ UNCHANGED <<plan, request, runVars, loopVars, soft>>

BeginAttempt(n) ==
  /\ attempts' = [attempts EXCEPT ![n] = @ + 1]
  /\ status' = [status EXCEPT ![n] = IF attempts[n] = 0 THEN "RUNNING" ELSE "RETRYING"]
  /\ pc' = [pc EXCEPT ![n] = "running"]
  /\ err' = [err EXCEPT ![n] = "none"]
  /\ UNCHANGED <<plan, request, runVars, loopVars, soft>>

Acquire(n) ==
  /\ phase = "wave"
  /\ pc[n] = "queued"
  /\ Cardinality(Holders) < request.concurrency
  /\ BeginAttempt(n)

\* _run_node_once returns or raises; the finally clause then awaits the
\* cleanup of the attempt's resources.
AttemptEnds(n, e) ==
  /\ phase = "wave"
  /\ pc[n] = "running"
  /\ e = "unknown" => n \in plan.sqlSinks
  /\ err' = [err EXCEPT ![n] = e]
  /\ pc' = [pc EXCEPT ![n] = "cleanup"]
  /\ UNCHANGED <<plan, request, runVars, loopVars, status, attempts, soft>>

\* The task ends: it leaves the wave.
Settle(n) ==
  /\ pc' = [pc EXCEPT ![n] = "done"]
  /\ wave' = wave \ {n}
  /\ UNCHANGED <<plan, request, runVars, attempts, err>>

Succeed(n) ==
  /\ Resumes(n)
  /\ pc[n] = "cleanup"
  /\ err[n] = "none"
  /\ status' = [status EXCEPT ![n] = "SUCCEEDED"]
  /\ completed' = completed \cup {n}
  /\ Settle(n)
  /\ UNCHANGED <<pending, failed, soft>>

\* An exception of the attempt, or of the cleanup itself (which replaces the
\* attempt's), is handed to the step_failed callbacks.  Sinks own no
\* attempt-scoped resource, so their cleanup cannot raise.
RaiseToCallbacks(n, e) ==
  /\ Resumes(n)
  /\ pc[n] = "cleanup"
  /\ \/ e = err[n] /\ e # "none"
     \/ e = "error" /\ n \notin plan.sqlSinks
  /\ err' = [err EXCEPT ![n] = e]
  /\ pc' = [pc EXCEPT ![n] = "callback"]
  /\ UNCHANGED <<plan, request, runVars, loopVars, status, attempts, soft>>

\* Mutant: one attempt too many.
CanRetryOnceMore(n, action) ==
  /\ attempts[n] <= request.maxAttempts
  /\ action = "retry" \/ (action = "fail" /\ ShouldRetry(err[n]))

CanRetry(n, action) ==
  /\ attempts[n] < request.maxAttempts
  /\ action = "retry" \/ (action = "fail" /\ ShouldRetry(err[n]))

AtCallback(n, action) ==
  /\ Resumes(n)
  /\ pc[n] = "callback"
  /\ action \in request.callbacks

Retry(n, action) ==
  /\ AtCallback(n, action)
  /\ CanRetry(n, action)
  /\ RetrySafe(n, attempts[n] + 1)
  /\ IF request.backoff
       THEN /\ pc' = [pc EXCEPT ![n] = "backoff"]
            /\ UNCHANGED <<plan, request, runVars, loopVars, status, attempts, soft, err>>
       ELSE BeginAttempt(n)

EndBackoff(n) ==
  /\ phase = "wave"
  /\ pc[n] = "backoff"
  /\ BeginAttempt(n)

\* The SKIP / failure walk: the pending descendants of n are abandoned, and a
\* hard failure of n makes them failures of the run too.
AbandonDescendants(n, s, hard) ==
  LET doomed == Descendants(n) \cap pending
  IN /\ pending' = pending \ doomed
     /\ failed' = IF hard THEN failed \cup {n} \cup doomed ELSE failed
     /\ status' = [m \in Nodes |-> IF m \in doomed THEN "ABANDONED"
                                   ELSE IF m = n THEN s ELSE status[m]]
     /\ UNCHANGED <<completed, soft>>

Fail(n, action) ==
  /\ AtCallback(n, action)
  /\ \/ CanRetry(n, action) /\ ~ RetrySafe(n, attempts[n] + 1)
     \/ ~ CanRetry(n, action) /\ action \in {"fail", "retry"}
  /\ AbandonDescendants(n, FailedStatus(n), TRUE)
  /\ Settle(n)

Skip(n) ==
  /\ AtCallback(n, "skip")
  /\ AbandonDescendants(n, "SKIPPED", FALSE)
  /\ Settle(n)

Continue(n) ==
  /\ AtCallback(n, "continue")
  /\ status' = [status EXCEPT ![n] = "SKIPPED"]
  /\ soft' = soft \cup {n}
  /\ completed' = completed \cup {n}
  /\ Settle(n)
  /\ UNCHANGED <<pending, failed>>

\* A callback that raises takes the task group down with it.  A cancellation
\* already under way may still be what execute() sees.
CallbackRaises(n) ==
  /\ Resumes(n)
  /\ pc[n] = "callback"
  /\ phase' = "unwinding"
  /\ cause' \in {"error"} \cup ({cause} \cap {"cancel"})
  /\ pc' = [pc EXCEPT ![n] = "done"]
  /\ wave' = wave \ {n}
  /\ UNCHANGED <<plan, request, report, event, outcome, pending, completed, failed,
                 status, attempts, soft, err>>

-----------------------------------------------------------------------------
(* Cancellation, the run timeout and the end of the run *)

Interrupt(c) ==
  /\ c \in {"timeout", "cancel"} \cap request.exits
  /\ phase \in {"entering", "wave", "leaving"} \/ (phase = "unwinding" /\ c = "cancel")
  /\ phase' = "unwinding"
  /\ cause' = c
  /\ UNCHANGED <<plan, request, report, event, outcome, loopVars, nodeVars>>

\* The cancelled task raises at its await; _execute_node does not catch it.
Unwind(n) ==
  /\ phase = "unwinding"
  /\ n \in wave
  /\ wave' = wave \ {n}
  /\ pc' = [pc EXCEPT ![n] = "done"]
  /\ UNCHANGED <<plan, request, runVars, pending, completed, failed,
                 status, attempts, soft, err>>

\* The except clauses: the report of a run that did not end by itself.  A run
\* resource whose cleanup raises on the way out replaces the cause (PMEXEC500); a
\* PipelineExecutionError is re-raised as it is and carries no report.  Whatever
\* happens in the finally clause, the caller gets an exception.
EndUnwinding(cleanupRaises) ==
  /\ phase = "unwinding"
  /\ wave = {}
  /\ cleanupRaises => "cleanup" \in request.exits
  /\ report' = IF cleanupRaises \/ cause = "error" THEN "FAILED"
               ELSE IF cause = "cancel" THEN "CANCELLED"
               ELSE IF cause = "timeout" THEN "TIMED_OUT" ELSE "none"
  /\ outcome' = "raised"
  /\ phase' = "over"
  /\ UNCHANGED <<plan, request, cause, event, loopVars, nodeVars>>

\* A run middleware raises before call_next, after it, or in place of what
\* call_next raised: a PipelineExecutionError ("rejected") or anything else.
MiddlewareRaises(c) ==
  /\ "raise" \in request.middleware
  /\ phase \in {"entering", "leaving"} \/ (phase = "unwinding" /\ wave = {})
  /\ phase' = "unwinding"
  /\ cause' = c
  /\ UNCHANGED <<plan, request, report, event, outcome, loopVars, nodeVars>>

\* A run middleware returns without call_next: the body never runs.
MiddlewareSkips ==
  /\ "skip" \in request.middleware
  /\ phase = "entering"
  /\ phase' = "leaving"
  /\ UNCHANGED <<plan, request, cause, report, event, outcome, loopVars, nodeVars>>

\* A run middleware catches what call_next raised, a cancellation included, and
\* returns: the run goes on as if its body had ended.
MiddlewareSwallows ==
  /\ "swallow" \in request.middleware
  /\ phase = "unwinding"
  /\ wave = {}
  /\ phase' = "leaving"
  /\ cause' = "none"
  /\ UNCHANGED <<plan, request, report, event, outcome, loopVars, nodeVars>>

\* The lifespan cleans up the run's resources, and the cleanup of one may raise:
\* inside the try, so that there is a report.
LeaveLifespan(cleanupRaises) ==
  /\ phase = "leaving"
  /\ IF cleanupRaises
       THEN /\ "cleanup" \in request.exits
            /\ report' = "FAILED"
            /\ outcome' = "raised"
            /\ phase' = "over"
       ELSE phase' = "cleaning" /\ UNCHANGED <<report, outcome>>
  /\ UNCHANGED <<plan, request, cause, event, loopVars, nodeVars>>

\* A cancellation meets the awaits of the finally clause, outside the try: it
\* reaches the caller as it is, and there is neither report nor event.
CleaningCancelled ==
  /\ "cancel" \in request.exits
  /\ phase = "cleaning"
  /\ phase' = "over"
  /\ outcome' = "raised"
  /\ UNCHANGED <<plan, request, cause, report, event, loopVars, nodeVars>>

\* Mutant: abandoned steps do not count as failed.
VerdictForgiving ==
  IF \E n \in Nodes : status[n] \in HardFailures
    THEN IF \E n \in Nodes : status[n] = "SUCCEEDED" THEN "PARTIAL" ELSE "FAILED"
    ELSE "SUCCEEDED"

Verdict ==
  IF \E n \in Nodes : status[n] \in HardFailures \cup {"ABANDONED"}
    THEN IF \E n \in Nodes : status[n] = "SUCCEEDED" THEN "PARTIAL" ELSE "FAILED"
    ELSE "SUCCEEDED"

\* Mutant: a partial run is announced as completed.
FinishPartial ==
  /\ phase = "cleaning"
  /\ report' = Verdict
  /\ event' = IF Verdict = "FAILED" THEN "run_failed" ELSE "run_completed"
  /\ phase' = "notifying"
  /\ UNCHANGED <<plan, request, cause, outcome, loopVars, nodeVars>>

Finish ==
  /\ phase = "cleaning"
  /\ report' = Verdict
  /\ event' = IF Verdict = "SUCCEEDED" THEN "run_completed" ELSE "run_failed"
  /\ phase' = "notifying"
  /\ UNCHANGED <<plan, request, cause, outcome, loopVars, nodeVars>>

\* The run_completed / run_failed callbacks are awaited after the report is
\* stored; one that raises, or a cancellation, reaches the caller.
Notified(result) ==
  /\ phase = "notifying"
  /\ outcome' = result
  /\ phase' = "over"
  /\ UNCHANGED <<plan, request, cause, report, event, loopVars, nodeVars>>

Over ==
  /\ phase = "over"
  /\ UNCHANGED vars

Loop == EnterBody \/ FormWave \/ AbandonUnmet \/ StopAfterFailure \/ WaveDone

Task(n) ==
  \/ Acquire(n)
  \/ \E e \in Errors \cup {"none"} : AttemptEnds(n, e)
  \/ Succeed(n)
  \/ \E e \in Errors : RaiseToCallbacks(n, e)
  \/ \E action \in FailureAction : Retry(n, action) \/ Fail(n, action)
  \/ EndBackoff(n)
  \/ Skip(n)
  \/ Continue(n)
  \/ CallbackRaises(n)
  \/ Unwind(n)

Exit ==
  \/ \E cleanupRaises \in BOOLEAN : EndUnwinding(cleanupRaises) \/ LeaveLifespan(cleanupRaises)
  \/ Finish
  \/ \E result \in {"returned", "raised"} : Notified(result)

System == Loop \/ Exit \/ \E n \in Nodes : Task(n)
Environment ==
  \/ \E c \in {"timeout", "cancel"} : Interrupt(c)
  \/ \E c \in Causes : MiddlewareRaises(c)
  \/ MiddlewareSkips
  \/ MiddlewareSwallows
  \/ CleaningCancelled

Next == System \/ Environment \/ Over

\* The event loop keeps running whatever can run, and user code returns: a run
\* whose transform never returns does not end either.
Fairness == WF_vars(System)

Spec == Init /\ [][Next]_vars /\ Fairness

-----------------------------------------------------------------------------
(* Properties *)

\* Every variable of the run has its type (proved as TypeCorrect).
TypeOK ==
  /\ plan \in Plans
  /\ request \in Requests
  /\ phase \in Phases
  /\ cause \in Causes \cup {"none"}
  /\ pending \subseteq Nodes
  /\ completed \subseteq Nodes
  /\ failed \subseteq Nodes
  /\ wave \subseteq Nodes
  /\ pc \in [Nodes -> Pcs]
  /\ status \in [Nodes -> StepStatus]
  /\ attempts \in [Nodes -> Nat]
  /\ soft \subseteq Nodes
  /\ err \in [Nodes -> Errors \cup {"none"}]
  /\ report \in RunStatus \cup {"none"}
  /\ event \in {"none", "run_completed", "run_failed"}
  /\ outcome \in {"running", "returned", "raised"}

CompletedNode(n) == status[n] = "SUCCEEDED" \/ (status[n] = "SKIPPED" /\ n \in soft)

\* DependencyOrder: no attempt of a node ever starts before every producer of
\* the node has succeeded or was continued after its failure, and none of them
\* is un-completed afterwards (run_body, the test on producers).
DependencyOrder ==
  \A n \in Nodes : attempts[n] > 0 => \A p \in plan.producers[n] : CompletedNode(p)

\* AbandonedHasCause: a node is abandoned only for a reason of its own upstream:
\* a producer outside the selection, failed, abandoned, or skipped without
\* CONTINUE.  Hence a SKIP never touches a sibling branch (run_body, the walk).
AbandonedHasCause ==
  \A n \in Nodes : status[n] = "ABANDONED" =>
    \E p \in plan.producers[n] :
      \/ p \notin plan.selected
      \/ status[p] \in HardFailures \cup {"ABANDONED"}
      \/ status[p] = "SKIPPED" /\ p \notin soft

\* GraphRespected: the order of the graph is kept in both directions, by the nodes
\* that are started and by those that are given up.
GraphRespected == DependencyOrder /\ AbandonedHasCause

\* NothingLeftRunning: when run_body has ended by itself no step is reported as
\* running or retrying; only an interrupted run may leave such steps behind, and
\* a run middleware that swallows the interruption hides that it was one.
NothingLeftRunning ==
  /\ "swallow" \notin request.middleware
  /\ phase \in {"leaving", "cleaning", "notifying"} \/ outcome = "returned"
  => \A n \in Nodes : status[n] \notin {"RUNNING", "RETRYING"}

\* SuccessIsComplete: a report says SUCCEEDED only when every selected node has
\* succeeded, was continued, or was skipped with nothing selected below it; or
\* when a run middleware kept the body from running at all, and then every node is
\* still pending (execute, verdict).  Nothing is true of a run whose middleware
\* swallows what unwound it.
SuccessIsComplete ==
  report = "SUCCEEDED" /\ "swallow" \notin request.middleware =>
    \/ \A n \in plan.selected :
         \/ CompletedNode(n)
         \/ status[n] = "SKIPPED" /\ Descendants(n) \cap plan.selected = {}
    \/ "skip" \in request.middleware /\ \A n \in Nodes : status[n] = "PENDING"

\* AttemptsPermitted: a node is attempted at most max_attempts times, and a
\* second time only as far as its retry-safety declaration allows, whatever the
\* failure callbacks answer (_execute_node, assert_retry_safe).
AttemptsPermitted ==
  \A n \in Nodes :
    /\ attempts[n] <= request.maxAttempts
    /\ attempts[n] > 1 => RetrySafe(n, attempts[n])

\* EventMatchesReport: a caller that gets a report back has seen exactly the
\* terminal event of its status; a run leaves no report only when a run middleware
\* raised a PipelineExecutionError, or a cancellation met the clean-up of a run that
\* had ended by itself (execute, its tail, its except and its finally clause).
EventMatchesReport ==
  /\ event = "run_completed" => report = "SUCCEEDED"
  /\ outcome = "returned" => event # "none"
  /\ event = "run_failed" => report \in {"FAILED", "PARTIAL"}
  /\ phase = "over" /\ report = "none" =>
       \/ "raise" \in request.middleware
       \/ /\ "cancel" \in request.exits
          /\ \/ "swallow" \in request.middleware
             \/ \A n \in Nodes : status[n] \notin {"RUNNING", "RETRYING"}

\* ReportIsTrue: what the caller is told at the end, report and event, is what has
\* become of the steps.
ReportIsTrue == NothingLeftRunning /\ SuccessIsComplete /\ EventMatchesReport

\* TerminalIsFinal: a step that has reached a terminal status keeps it, through
\* retries, abandonment walks and the unwinding of the run (_NodeState.status).
TerminalIsFinal ==
  [][\A n \in Nodes : status[n] \in Terminal => status'[n] = status[n]]_vars

\* UnknownNotRetried: after a write of unknown commit outcome a step is tried
\* again only when a step_failed callback may ask for it (_should_retry).
UnknownNotRetried ==
  [][\A n \in Nodes : err[n] = "unknown" /\ attempts'[n] # attempts[n]
       => "retry" \in request.callbacks]_vars

\* RunEnds: whatever fails, is skipped, retried or interrupted, the run is over
\* in the end: no wave waits for a task that will not finish.
RunEnds == <>(phase = "over")

-----------------------------------------------------------------------------
(* The run as its caller sees it *)

Fate(n) ==
  IF status[n] = "PENDING" THEN "waiting"
  ELSE IF status[n] \in {"RUNNING", "RETRYING"} THEN "working"
  ELSE IF CompletedNode(n) THEN "completed"
  ELSE IF status[n] \in HardFailures THEN "failed"
  ELSE IF status[n] = "SKIPPED" THEN "skipped"
  ELSE "abandoned"

Contract == INSTANCE RunContract WITH
  producers <- plan.producers, selected <- plan.selected,
  handedOn <- request.middleware \cap {"skip", "swallow"} = {},
  fate <- [n \in Nodes |-> Fate(n)], verdict <- report

\* KeepsContract: the wave loop with its attempts, callbacks and interruptions
\* implements the promise RunContract makes to the caller of execute().
KeepsContract == Contract!Spec

=============================================================================
