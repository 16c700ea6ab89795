----------------------- MODULE LocalOrchestratorProofs -----------------------
(***************************************************************************)
(* What LocalOrchestrator promises for every graph, plan and request.       *)
(***************************************************************************)
EXTENDS LocalOrchestrator, TLAPS

-----------------------------------------------------------------------------
(* Type correctness *)

\* Every variable of a run keeps its type: the statuses, program counters and
\* node sets of run_body and _execute_node.
THEOREM TypeCorrect == Spec => []TypeOK
<1> USE DEF TypeOK, runVars, loopVars, nodeVars, Phases, Pcs, StepStatus, Terminal,
            HardFailures, RunStatus, Errors, Causes
<1>1. Init => TypeOK
  BY ConstantsAssumption DEF Init, PlanType
<1>2. TypeOK /\ [Next]_vars => TypeOK'
  <2> SUFFICES ASSUME TypeOK, [Next]_vars PROVE TypeOK'
    OBVIOUS
  <2>1. CASE Loop
    <3>1. CASE EnterBody BY <3>1 DEF EnterBody
    <3>2. CASE FormWave BY <3>2 DEF FormWave, ready
    <3>3. CASE AbandonUnmet BY <3>3 DEF AbandonUnmet
    <3>4. CASE StopAfterFailure BY <3>4 DEF StopAfterFailure
    <3>5. CASE WaveDone BY <3>5 DEF WaveDone
    <3> QED BY <2>1, <3>1, <3>2, <3>3, <3>4, <3>5 DEF Loop
  <2>2. ASSUME NEW n \in Nodes, Task(n) PROVE TypeOK'
    <3>1. ASSUME BeginAttempt(n) PROVE TypeOK'
      BY <3>1 DEF BeginAttempt
    <3>2. CASE Acquire(n) BY <3>1, <3>2 DEF Acquire
    <3>3. ASSUME NEW e \in Errors \cup {"none"}, AttemptEnds(n, e) PROVE TypeOK'
      BY <3>3 DEF AttemptEnds
    <3>4. CASE Succeed(n) BY <3>4 DEF Succeed, Settle
    <3>5. ASSUME NEW e \in Errors, RaiseToCallbacks(n, e) PROVE TypeOK'
      BY <3>5 DEF RaiseToCallbacks
    <3>6. ASSUME NEW action \in FailureAction, Retry(n, action) PROVE TypeOK'
      BY <3>1, <3>6 DEF Retry
    <3>7. ASSUME NEW action \in FailureAction, Fail(n, action) PROVE TypeOK'
      BY <3>7 DEF Fail, AbandonDescendants, Settle, FailedStatus, Descendants
    <3>8. CASE EndBackoff(n) BY <3>1, <3>8 DEF EndBackoff
    <3>9. CASE Skip(n) BY <3>9 DEF Skip, AbandonDescendants, Settle, Descendants
    <3>10. CASE Continue(n) BY <3>10 DEF Continue, Settle
    <3>11. CASE CallbackRaises(n) BY <3>11 DEF CallbackRaises
    <3>12. CASE Unwind(n) BY <3>12 DEF Unwind
    <3> QED
      BY <2>2, <3>2, <3>3, <3>4, <3>5, <3>6, <3>7, <3>8, <3>9, <3>10, <3>11, <3>12
         DEF Task
  <2>3. CASE Exit
    <3>1. ASSUME NEW cleanupRaises \in BOOLEAN,
                 EndUnwinding(cleanupRaises) \/ LeaveLifespan(cleanupRaises)
          PROVE  TypeOK'
      BY <3>1 DEF EndUnwinding, LeaveLifespan
    <3>2. CASE Finish BY <3>2 DEF Finish, Verdict
    <3>3. ASSUME NEW result \in {"returned", "raised"}, Notified(result) PROVE TypeOK'
      BY <3>3 DEF Notified
    <3> QED BY <2>3, <3>1, <3>2, <3>3 DEF Exit
  <2>4. CASE Environment
    BY <2>4 DEF Environment, Interrupt, MiddlewareRaises, MiddlewareSkips, MiddlewareSwallows,
       CleaningCancelled
  <2>5. CASE UNCHANGED vars
    BY <2>5 DEF vars
  <2> QED
    BY <2>1, <2>2, <2>3, <2>4, <2>5 DEF Next, System, Over
<1> QED
  BY <1>1, <1>2, PTL DEF Spec

-----------------------------------------------------------------------------
(* The inductive invariant *)

Active == {"queued", "running", "cleanup", "callback", "backoff"}
InFlight == {"running", "cleanup", "callback", "backoff"}

\* TaskInv: the task, the status and the attempts of a node agree.
TaskInv ==
  \A n \in Nodes :
    /\ n \in wave <=> pc[n] \in Active
    /\ pc[n] = "idle" => status[n] \in {"PENDING", "ABANDONED"}
    /\ pc[n] = "queued" => status[n] = "PENDING"
    /\ pc[n] \in {"idle", "queued"} => attempts[n] = 0
    /\ pc[n] \in InFlight => status[n] \in {"RUNNING", "RETRYING"} /\ attempts[n] > 0
    /\ pc[n] = "done" => status[n] # "ABANDONED"
    /\ status[n] \in {"RUNNING", "RETRYING"} => pc[n] \in InFlight \cup {"done"}
    /\ n \in soft => status[n] = "SKIPPED"

\* LoopInv: run_body's sets agree with the statuses.
LoopInv ==
  /\ \A n \in Nodes : n \in completed <=> CompletedNode(n)
  /\ \A n \in Nodes : n \in pending => n \in plan.selected /\ pc[n] = "idle" /\ status[n] = "PENDING"
  /\ \A n \in plan.selected : pc[n] = "idle" /\ n \notin pending => status[n] = "ABANDONED"
  /\ \A n \in Nodes : pc[n] # "idle" => n \in plan.selected /\ plan.producers[n] \subseteq completed
  /\ failed # {} => \E n \in Nodes : status[n] \in HardFailures

\* No task of the run has begun.
Untouched == \A n \in Nodes : pc[n] = "idle" /\ status[n] = "PENDING"

\* PhaseInv: a run that is not being unwound, and was not, has no half-finished
\* task; and one that left its body did what it could, or never entered it.
PhaseInv ==
  /\ phase \notin {"wave", "unwinding"} => wave = {}
  /\ \/ phase \in {"entering", "scheduling", "wave"}
     \/ /\ "swallow" \notin request.middleware
        /\ phase \in {"leaving", "cleaning", "notifying"} \/ outcome = "returned"
     => \A n \in Nodes : pc[n] = "done" => status[n] \in Terminal
  /\ phase = "entering" => Untouched
  /\ phase # "over" => outcome = "running"
  /\ phase \notin {"notifying", "over"} => report = "none"
  /\ phase \in {"leaving", "cleaning", "notifying"} /\ "swallow" \notin request.middleware =>
       pending = {} \/ failed # {} \/ ("skip" \in request.middleware /\ Untouched)

\* RetryInv: the attempts made, and the one a backoff leads to, are permitted.
RetryInv ==
  /\ AttemptsPermitted
  /\ \A n \in Nodes : pc[n] = "backoff" =>
       attempts[n] < request.maxAttempts /\ RetrySafe(n, attempts[n] + 1)

\* SafetyInv: the inductive invariant that carries the safety properties.
SafetyInv == TaskInv /\ LoopInv /\ PhaseInv /\ RetryInv /\ AbandonedHasCause


LEMMA InitSafety == Init => SafetyInv
  BY ConstantsAssumption
  DEF Init, SafetyInv, TaskInv, LoopInv, PhaseInv, RetryInv, AttemptsPermitted,
      AbandonedHasCause, CompletedNode, Active, InFlight, HardFailures, RequestType, PlanType,
      Terminal, Untouched

\* The nodes the failure walk reaches are consumers of n or of nodes it reaches.
LEMMA WalkHasPredecessor ==
  ASSUME NEW n \in Nodes, NEW m \in Descendants(n)
  PROVE  n \in plan.producers[m] \/ \E p \in Descendants(n) : p \in plan.producers[m]
<1> SUFFICES ASSUME n \notin plan.producers[m],
                    \A p \in Descendants(n) : p \notin plan.producers[m]
             PROVE  FALSE
  OBVIOUS
<1> DEFINE S == Descendants(n) \ {m}
<1>1. S \in SUBSET Nodes
  BY DEF Descendants
<1>2. \A x \in Consumers(n) : x \in Descendants(n)
  BY DEF Descendants, ClosedBelow, Consumers
<1>3. \A x \in Descendants(n) : Consumers(x) \subseteq Descendants(n)
  BY DEF Descendants, ClosedBelow, Consumers
<1>4. ClosedBelow(n, S)
  BY <1>2, <1>3 DEF ClosedBelow, Consumers
<1> QED
  BY <1>1, <1>4 DEF Descendants

\* A node that is not completed has only untouched nodes below it.
LEMMA BelowIsIdle ==
  ASSUME TypeOK, TaskInv, LoopInv, NEW n \in Nodes, n \notin completed
  PROVE  \A m \in Descendants(n) : pc[m] = "idle"
<1> DEFINE S == {m \in Nodes : pc[m] = "idle"}
<1>1. Consumers(n) \subseteq S
  BY DEF Consumers, LoopInv
<1>2. \A x \in S : x \notin completed
  BY DEF TaskInv, LoopInv, CompletedNode
<1>3. \A x \in S : Consumers(x) \subseteq S
  BY <1>2 DEF Consumers, LoopInv
<1>4. ClosedBelow(n, S) /\ S \in SUBSET Nodes
  BY <1>1, <1>3 DEF ClosedBelow
<1> QED
  BY <1>4 DEF Descendants

\* The steps of a task that do not end it.
LEMMA AttemptSafety ==
  ASSUME TypeOK, SafetyInv, NEW n \in Nodes, BeginAttempt(n),
         pc[n] \in {"queued", "callback", "backoff"},
         attempts[n] > 0 => attempts[n] < request.maxAttempts /\ RetrySafe(n, attempts[n] + 1)
  PROVE  SafetyInv'
<1> USE DEF BeginAttempt, runVars, loopVars, TypeOK, Active, InFlight, HardFailures,
            CompletedNode, StepStatus, Terminal, Pcs
<1>1. request.maxAttempts \in Nat \ {0}
  BY ConstantsAssumption DEF RequestType
<1>2. TaskInv'
  BY DEF SafetyInv, TaskInv
<1>3. LoopInv'
  BY DEF SafetyInv, TaskInv, LoopInv
<1>4. PhaseInv'
  BY DEF SafetyInv, PhaseInv, Untouched
<1>5. RetryInv'
  BY <1>1 DEF SafetyInv, RetryInv, AttemptsPermitted, RetrySafe
<1>6. AbandonedHasCause'
  BY DEF SafetyInv, AbandonedHasCause, TaskInv
<1> QED
  BY <1>2, <1>3, <1>4, <1>5, <1>6 DEF SafetyInv

\* The end of a task in a failure or a skip, with the walk over its consumers.
LEMMA WalkSafety ==
  ASSUME TypeOK, SafetyInv, NEW n \in Nodes, NEW s \in HardFailures \cup {"SKIPPED"},
         NEW hard \in BOOLEAN, hard <=> s \in HardFailures,
         Resumes(n), pc[n] = "callback", AbandonDescendants(n, s, hard), Settle(n)
  PROVE  SafetyInv'
<1> USE DEF AbandonDescendants, Settle, Resumes, runVars, TypeOK, Active, InFlight,
            HardFailures, CompletedNode, StepStatus, Terminal, Pcs
<1> DEFINE doomed == Descendants(n) \cap pending
<1>1. n \notin completed /\ n \notin soft /\ n \notin doomed
  BY DEF SafetyInv, TaskInv, LoopInv
<1>2. \A m \in Descendants(n) : m \in Nodes /\ pc[m] = "idle"
  BY <1>1, BelowIsIdle DEF SafetyInv, Descendants
<1>3. TaskInv'
  BY <1>1, <1>2 DEF SafetyInv, TaskInv, LoopInv
<1>4. LoopInv'
  <2>1. \A m \in Nodes : m \in completed' <=> CompletedNode(m)'
    BY <1>1 DEF SafetyInv, LoopInv, TaskInv
  <2>2. \A m \in Nodes : m \in pending' => m \in plan.selected /\ pc'[m] = "idle" /\ status'[m] = "PENDING"
    BY <1>1 DEF SafetyInv, LoopInv
  <2>3. \A m \in plan.selected : pc'[m] = "idle" /\ m \notin pending' => status'[m] = "ABANDONED"
    BY <1>1, ConstantsAssumption DEF SafetyInv, LoopInv, PlanType
  <2>4. \A m \in Nodes : pc'[m] # "idle" => m \in plan.selected /\ plan.producers[m] \subseteq completed'
    BY DEF SafetyInv, LoopInv
  <2>5. failed' # {} => \E m \in Nodes : status'[m] \in HardFailures
    <3>1. CASE hard
      BY <3>1, <1>1
    <3>2. CASE ~ hard
      <4>1. \A m \in Nodes : status[m] \in HardFailures => m # n /\ m \notin doomed
        BY DEF SafetyInv, TaskInv, LoopInv
      <4> QED
        BY <3>2, <4>1 DEF SafetyInv, LoopInv
    <3> QED BY <3>1, <3>2
  <2> QED BY <2>1, <2>2, <2>3, <2>4, <2>5 DEF LoopInv
<1>5. PhaseInv'
  BY <1>1, <1>2 DEF SafetyInv, PhaseInv
<1>6. RetryInv'
  BY DEF SafetyInv, RetryInv, AttemptsPermitted, RetrySafe
<1>7. AbandonedHasCause'
  <2> SUFFICES ASSUME NEW m \in Nodes, status'[m] = "ABANDONED"
               PROVE  \E p \in plan.producers[m] :
                        \/ p \notin plan.selected
                        \/ status'[p] \in HardFailures \cup {"ABANDONED"}
                        \/ status'[p] = "SKIPPED" /\ p \notin soft'
    BY DEF AbandonedHasCause
  <2>1. plan.producers[m] \subseteq Nodes
    BY ConstantsAssumption DEF PlanType
  <2>2. CASE m \notin doomed
    <3>1. status[m] = "ABANDONED"
      BY <2>2
    <3>2. PICK p \in plan.producers[m] :
            \/ p \notin plan.selected
            \/ status[p] \in HardFailures \cup {"ABANDONED"}
            \/ status[p] = "SKIPPED" /\ p \notin soft
      BY <3>1 DEF SafetyInv, AbandonedHasCause
    <3>3. status[n] \in {"RUNNING", "RETRYING"} /\ p \in Nodes
      BY <2>1 DEF SafetyInv, TaskInv
    <3> QED
      BY <3>2, <3>3
  <2>3. CASE m \in doomed
    <3>1. PICK p \in Nodes : p \in plan.producers[m] /\ (p = n \/ p \in Descendants(n))
      BY <2>3, <2>1, WalkHasPredecessor
    <3>2. CASE p = n
      BY <3>1, <3>2, <1>1
    <3>3. CASE p # n /\ p \in plan.selected
      <4>1. p \in pending \/ status[p] = "ABANDONED"
        BY <3>1, <3>3, <1>2 DEF SafetyInv, LoopInv
      <4> QED
        BY <3>1, <3>3, <4>1
    <3> QED
      BY <3>1, <3>2, <3>3
  <2> QED
    BY <2>2, <2>3
<1> QED
  BY <1>3, <1>4, <1>5, <1>6, <1>7 DEF SafetyInv

\* Every step of the run keeps the inductive invariant.
LEMMA NextSafety == TypeOK /\ SafetyInv /\ [Next]_vars => SafetyInv'
<1> SUFFICES ASSUME TypeOK, SafetyInv, [Next]_vars PROVE SafetyInv'
  OBVIOUS
<1> USE DEF TypeOK, runVars, loopVars, nodeVars, Active, InFlight, HardFailures,
            CompletedNode, StepStatus, Terminal, Pcs, Phases
<1>0. plan.selected \subseteq Nodes
  BY ConstantsAssumption DEF PlanType
<1>1. CASE Loop
  <2>1. CASE EnterBody \/ StopAfterFailure \/ WaveDone
    BY <2>1 DEF EnterBody, StopAfterFailure, WaveDone, SafetyInv, TaskInv, LoopInv,
       PhaseInv, Untouched, RetryInv, AttemptsPermitted, RetrySafe, AbandonedHasCause
  <2>2. CASE FormWave
    <3> USE <2>2 DEF FormWave, ready
    <3>1. TaskInv' BY DEF SafetyInv, TaskInv, LoopInv, PhaseInv
    <3>2. LoopInv' BY <1>0 DEF SafetyInv, LoopInv
    <3>3. PhaseInv' BY DEF SafetyInv, PhaseInv, Untouched
    <3>4. RetryInv' BY DEF SafetyInv, RetryInv, AttemptsPermitted, RetrySafe
    <3>5. AbandonedHasCause' BY DEF SafetyInv, AbandonedHasCause
    <3> QED BY <3>1, <3>2, <3>3, <3>4, <3>5 DEF SafetyInv
  <2>3. CASE AbandonUnmet
    <3> USE <2>3 DEF AbandonUnmet
    <3>1. TaskInv' BY DEF SafetyInv, TaskInv, LoopInv
    <3>2. LoopInv' BY ConstantsAssumption DEF SafetyInv, LoopInv, PlanType
    <3>3. PhaseInv' BY DEF SafetyInv, PhaseInv, Untouched
    <3>4. RetryInv' BY DEF SafetyInv, RetryInv, AttemptsPermitted, RetrySafe
    <3>5. AbandonedHasCause'
      <4> SUFFICES ASSUME NEW m \in Nodes, status'[m] = "ABANDONED"
                   PROVE  \E p \in plan.producers[m] :
                            \/ p \notin plan.selected
                            \/ status'[p] \in HardFailures \cup {"ABANDONED"}
                            \/ status'[p] = "SKIPPED" /\ p \notin soft'
        BY DEF AbandonedHasCause
      <4>1. plan.producers[m] \subseteq Nodes
        BY ConstantsAssumption DEF PlanType
      <4>2. CASE m \in pending
        <5>1. PICK p \in plan.producers[m] : p \notin completed
          BY <4>2 DEF ready
        <5>2. CASE p \in plan.selected /\ p \notin pending
          <6>1. pc[p] \in {"idle", "done"}
            BY <4>1, <5>2 DEF SafetyInv, TaskInv, PhaseInv
          <6>2. status[p] \in Terminal
            BY <4>1, <5>2, <6>1 DEF SafetyInv, LoopInv, PhaseInv
          <6> QED
            BY <4>1, <5>1, <5>2, <6>2 DEF SafetyInv, LoopInv
        <5> QED
          BY <4>1, <5>1, <5>2
      <4>3. CASE m \notin pending
        <5>1. status[m] = "ABANDONED"
          BY <4>3
        <5> QED
          BY <5>1, <4>1 DEF SafetyInv, AbandonedHasCause
      <4> QED
        BY <4>2, <4>3
    <3> QED BY <3>1, <3>2, <3>3, <3>4, <3>5 DEF SafetyInv
  <2> QED BY <1>1, <2>1, <2>2, <2>3 DEF Loop
<1>2. ASSUME NEW n \in Nodes, Task(n) PROVE SafetyInv'
  <2>0. request.maxAttempts \in Nat \ {0}
    BY ConstantsAssumption DEF RequestType
  <2>1. CASE Acquire(n)
    BY <2>1, AttemptSafety DEF Acquire, SafetyInv, TaskInv
  <2>2. ASSUME NEW e \in Errors \cup {"none"}, AttemptEnds(n, e) PROVE SafetyInv'
    BY <2>2 DEF AttemptEnds, SafetyInv, TaskInv, LoopInv,
       PhaseInv, Untouched, RetryInv, AttemptsPermitted, RetrySafe, AbandonedHasCause
  <2>3. CASE Succeed(n)
    <3> USE <2>3 DEF Succeed, Settle, Resumes
    <3>1. TaskInv' BY DEF SafetyInv, TaskInv
    <3>2. LoopInv' BY <1>0 DEF SafetyInv, LoopInv, TaskInv
    <3>3. PhaseInv' BY DEF SafetyInv, PhaseInv, Untouched
    <3>4. RetryInv' BY DEF SafetyInv, RetryInv, AttemptsPermitted, RetrySafe
    <3>5. AbandonedHasCause' BY DEF SafetyInv, AbandonedHasCause, TaskInv
    <3> QED BY <3>1, <3>2, <3>3, <3>4, <3>5 DEF SafetyInv
  <2>4. ASSUME NEW e \in Errors, RaiseToCallbacks(n, e) PROVE SafetyInv'
    BY <2>4 DEF RaiseToCallbacks, Resumes, SafetyInv, TaskInv, LoopInv,
       PhaseInv, Untouched, RetryInv, AttemptsPermitted, RetrySafe, AbandonedHasCause
  <2>5. ASSUME NEW action \in FailureAction, Retry(n, action) PROVE SafetyInv'
    <3> USE <2>5 DEF Retry, AtCallback, Resumes, CanRetry
    <3>1. CASE request.backoff
      <4> USE <3>1
      <4>1. TaskInv' BY DEF SafetyInv, TaskInv
      <4>2. LoopInv' BY <1>0 DEF SafetyInv, LoopInv
      <4>3. PhaseInv' BY DEF SafetyInv, PhaseInv, Untouched
      <4>4. RetryInv' BY DEF SafetyInv, RetryInv, AttemptsPermitted, RetrySafe
      <4>5. AbandonedHasCause' BY DEF SafetyInv, AbandonedHasCause
      <4> QED BY <4>1, <4>2, <4>3, <4>4, <4>5 DEF SafetyInv
    <3>2. CASE ~ request.backoff
      BY <3>2, AttemptSafety
    <3> QED BY <3>1, <3>2
  <2>6. ASSUME NEW action \in FailureAction, Fail(n, action) PROVE SafetyInv'
    <3>1. FailedStatus(n) \in HardFailures
      BY DEF FailedStatus
    <3> QED
      BY <2>6, <3>1, WalkSafety DEF Fail, AtCallback
  <2>7. CASE EndBackoff(n)
    BY <2>7, AttemptSafety DEF EndBackoff, SafetyInv, RetryInv
  <2>8. CASE Skip(n)
    BY <2>8, WalkSafety DEF Skip, AtCallback
  <2>9. CASE Continue(n)
    <3> USE <2>9 DEF Continue, AtCallback, Settle, Resumes
    <3>1. TaskInv' BY DEF SafetyInv, TaskInv
    <3>2. LoopInv' BY <1>0 DEF SafetyInv, LoopInv, TaskInv
    <3>3. PhaseInv' BY DEF SafetyInv, PhaseInv, Untouched
    <3>4. RetryInv' BY DEF SafetyInv, RetryInv, AttemptsPermitted, RetrySafe
    <3>5. AbandonedHasCause' BY DEF SafetyInv, AbandonedHasCause, TaskInv
    <3> QED BY <3>1, <3>2, <3>3, <3>4, <3>5 DEF SafetyInv
  <2>10. CASE CallbackRaises(n) \/ Unwind(n)
    <3> USE <2>10 DEF CallbackRaises, Unwind, Resumes
    <3>1. TaskInv' BY DEF SafetyInv, TaskInv
    <3>2. LoopInv' BY <1>0 DEF SafetyInv, LoopInv, TaskInv
    <3>3. PhaseInv' BY DEF SafetyInv, PhaseInv, Untouched
    <3>4. RetryInv' BY DEF SafetyInv, RetryInv, AttemptsPermitted, RetrySafe
    <3>5. AbandonedHasCause' BY DEF SafetyInv, AbandonedHasCause
    <3> QED BY <3>1, <3>2, <3>3, <3>4, <3>5 DEF SafetyInv
  <2> QED
    BY <1>2, <2>1, <2>2, <2>3, <2>4, <2>5, <2>6, <2>7, <2>8, <2>9, <2>10 DEF Task
<1>3. CASE Exit \/ Environment
  BY <1>3 DEF Exit, Environment, EndUnwinding, Finish, Notified, Interrupt, LeaveLifespan,
     MiddlewareRaises, MiddlewareSkips, MiddlewareSwallows, CleaningCancelled, SafetyInv, TaskInv, LoopInv,
     PhaseInv, Untouched, RetryInv, AttemptsPermitted, RetrySafe, AbandonedHasCause
<1>4. CASE UNCHANGED vars
  BY <1>4 DEF vars, SafetyInv, TaskInv, LoopInv,
     PhaseInv, Untouched, RetryInv, AttemptsPermitted, RetrySafe, AbandonedHasCause
<1> QED
  BY <1>1, <1>2, <1>3, <1>4 DEF Next, System, Over

LEMMA Safety == Spec => []SafetyInv
  BY TypeCorrect, InitSafety, NextSafety, PTL DEF Spec

-----------------------------------------------------------------------------
(* The properties *)

\* In every run of every plan, no attempt of a node starts before all its
\* producers have succeeded or were continued (run_body's readiness test).
THEOREM DependencyOrderHolds == Spec => []DependencyOrder
<1>1. TypeOK /\ SafetyInv => DependencyOrder
  BY ConstantsAssumption
  DEF TypeOK, SafetyInv, TaskInv, LoopInv, DependencyOrder, PlanType, InFlight, Pcs
<1> QED
  BY <1>1, TypeCorrect, Safety, PTL

\* In every run, an abandoned node has an upstream reason of its own: a SKIP or
\* a failure never abandons a sibling branch (the walk over consumers).
THEOREM AbandonedHasCauseHolds == Spec => []AbandonedHasCause
<1>1. SafetyInv => AbandonedHasCause
  BY DEF SafetyInv
<1> QED
  BY <1>1, Safety, PTL

\* In every run of every plan the order of the graph is kept, by what is started and
\* by what is given up (run_body, _one).
THEOREM GraphRespectedHolds == Spec => []GraphRespected
  BY DependencyOrderHolds, AbandonedHasCauseHolds, PTL DEF GraphRespected

\* For every request, no callback answer makes a node exceed max_attempts or
\* its retry-safety declaration (_execute_node, assert_retry_safe).
THEOREM AttemptsPermittedHolds == Spec => []AttemptsPermitted
<1>1. SafetyInv => AttemptsPermitted
  BY DEF SafetyInv, RetryInv
<1> QED
  BY <1>1, Safety, PTL

\* Outside the unwinding of a run, a task that has ended has a final status.
LEMMA FinishedInv == TypeOK /\ SafetyInv => NothingLeftRunning
<1> SUFFICES ASSUME TypeOK, SafetyInv,
                    "swallow" \notin request.middleware,
                    phase \in {"leaving", "cleaning", "notifying"} \/ outcome = "returned",
                    NEW n \in Nodes, status[n] \in {"RUNNING", "RETRYING"}
             PROVE  FALSE
  BY DEF NothingLeftRunning
<1>1. n \notin wave
  BY DEF SafetyInv, PhaseInv, TypeOK, Phases
<1>2. pc[n] = "done"
  BY <1>1 DEF SafetyInv, TaskInv, Active, InFlight
<1> QED
  BY <1>2 DEF SafetyInv, PhaseInv, Terminal, HardFailures

\* A run that ended by itself reports no step as running or retrying.
THEOREM NothingLeftRunningHolds == Spec => []NothingLeftRunning
  BY FinishedInv, TypeCorrect, Safety, PTL

\* No step of a run, not even its unwinding, changes a terminal step status.
THEOREM TerminalIsFinalHolds == Spec => TerminalIsFinal
<1>1. TypeOK /\ SafetyInv /\ [Next]_vars =>
        [\A n \in Nodes : status[n] \in Terminal => status'[n] = status[n]]_vars
  <2> SUFFICES ASSUME TypeOK, SafetyInv, Next, NEW m \in Nodes, status[m] \in Terminal
               PROVE  status'[m] = status[m]
    OBVIOUS
  <2> USE DEF TypeOK, Terminal, HardFailures, StepStatus, runVars, loopVars, nodeVars,
              Active, InFlight, SafetyInv, TaskInv, LoopInv
  <2>1. CASE Loop
    BY <2>1 DEF Loop, EnterBody, FormWave, AbandonUnmet, StopAfterFailure, WaveDone
  <2>2. ASSUME NEW n \in Nodes, Task(n) PROVE status'[m] = status[m]
    BY <2>2 DEF Task, Acquire, AttemptEnds, Succeed, RaiseToCallbacks, Retry, Fail,
       EndBackoff, Skip, Continue, CallbackRaises, Unwind, BeginAttempt,
       AbandonDescendants, AtCallback, Resumes
  <2>3. CASE Exit \/ Environment \/ Over
    BY <2>3 DEF Exit, Environment, Over, EndUnwinding, Finish, Notified, Interrupt, LeaveLifespan,
       MiddlewareRaises, MiddlewareSkips, MiddlewareSwallows, CleaningCancelled, vars
  <2> QED
    BY <2>1, <2>2, <2>3 DEF Next, System
<1> QED
  BY <1>1, TypeCorrect, Safety, PTL DEF Spec, TerminalIsFinal

-----------------------------------------------------------------------------
(* What the caller is told *)

\* ReportInv: the report of a run that ended by itself and its event are given
\* together, and nothing is given before.
ReportInv ==
  /\ phase \notin {"notifying", "over"} => event = "none"
  /\ phase = "notifying" => event # "none" /\ report # "none"
  /\ phase = "unwinding" => cause # "none"
  /\ cause = "rejected" => "raise" \in request.middleware
  /\ SuccessIsComplete
  /\ EventMatchesReport

\* When the run is concluded, a step that neither failed nor was abandoned is
\* completed, or skipped with nothing selected below it, unless no step was begun.
LEMMA NothingForgotten ==
  ASSUME TypeOK, SafetyInv, phase = "cleaning", Verdict = "SUCCEEDED",
         "swallow" \notin request.middleware,
         ~("skip" \in request.middleware /\ Untouched), NEW n \in plan.selected
  PROVE  CompletedNode(n) \/ (status[n] = "SKIPPED" /\ Descendants(n) \cap plan.selected = {})
<1> USE DEF SafetyInv
<1>1. \A m \in Nodes : status[m] \notin HardFailures \cup {"ABANDONED"}
  BY DEF Verdict
<1>2. pending = {} /\ wave = {} /\ plan.selected \subseteq Nodes
  BY <1>1, ConstantsAssumption DEF PhaseInv, LoopInv, TypeOK, PlanType
<1>3. \A m \in plan.selected : pc[m] # "idle"
  BY <1>1, <1>2 DEF LoopInv
<1>4. pc[n] = "done" /\ status[n] \in {"SUCCEEDED", "SKIPPED"}
  <2>1. pc[n] = "done"
    BY <1>2, <1>3 DEF TaskInv, TypeOK, Pcs, Active
  <2> QED
    BY <1>1, <1>2, <2>1 DEF PhaseInv, Terminal
<1>5. CASE CompletedNode(n)
  BY <1>5
<1>6. CASE ~CompletedNode(n)
  <2>1. \A m \in Descendants(n) : pc[m] = "idle"
    BY <1>2, <1>6, BelowIsIdle DEF LoopInv
  <2> QED
    BY <1>3, <1>4, <1>6, <2>1 DEF CompletedNode
<1> QED
  BY <1>5, <1>6

LEMMA InitReport == Init => ReportInv
BY DEF Init, ReportInv, SuccessIsComplete, EventMatchesReport

\* Once there is a report no step of a task changes what it is about.
LEMMA NextReport == TypeOK /\ SafetyInv /\ ReportInv /\ [Next]_vars => ReportInv'
<1> SUFFICES ASSUME TypeOK, SafetyInv, ReportInv, [Next]_vars PROVE ReportInv'
  OBVIOUS
<1> USE DEF runVars, loopVars, nodeVars
<1>1. phase \notin {"notifying", "over"} => report = "none" /\ event = "none"
  BY DEF SafetyInv, PhaseInv, ReportInv
<1>2. ASSUME UNCHANGED <<plan, request, report, event, outcome>>,
             phase \notin {"notifying", "over"}, phase' \notin {"notifying", "over"},
             phase' = "unwinding" => cause' # "none",
             cause' = "rejected" => "raise" \in request.middleware
      PROVE  ReportInv'
  BY <1>1, <1>2 DEF ReportInv, SuccessIsComplete, EventMatchesReport
<1>3. CASE Loop
  BY <1>2, <1>3 DEF Loop, EnterBody, FormWave, AbandonUnmet, StopAfterFailure, WaveDone, ReportInv
<1>4. ASSUME NEW n \in Nodes, Task(n) PROVE ReportInv'
  BY <1>2, <1>4, <1>1 DEF Task, Acquire, BeginAttempt, AttemptEnds, Succeed, Settle, RaiseToCallbacks,
     Retry, Fail, EndBackoff, Skip, Continue, CallbackRaises, Unwind, AbandonDescendants, AtCallback, Resumes,
     ReportInv
<1>5. CASE Environment
  <2>1. CASE \/ \E c \in {"timeout", "cancel"} : Interrupt(c)
             \/ \E c \in Causes : MiddlewareRaises(c)
             \/ MiddlewareSkips \/ MiddlewareSwallows
    BY <1>2, <2>1 DEF Interrupt, MiddlewareRaises, MiddlewareSkips, MiddlewareSwallows, ReportInv, Causes
  <2>2. CASE CleaningCancelled
    <3>1. "swallow" \in request.middleware \/ \A n \in Nodes : status[n] \notin {"RUNNING", "RETRYING"}
      BY <2>2, FinishedInv DEF CleaningCancelled, NothingLeftRunning
    <3>2. report' = "none" /\ event' = "none" /\ outcome' = "raised" /\ phase' = "over"
      BY <1>1, <2>2 DEF CleaningCancelled
    <3> QED
      BY <2>2, <3>1, <3>2 DEF CleaningCancelled, ReportInv, SuccessIsComplete, EventMatchesReport
  <2> QED
    BY <1>5, <2>1, <2>2 DEF Environment
<1>6. ASSUME NEW cleanupRaises \in BOOLEAN,
             EndUnwinding(cleanupRaises) \/ LeaveLifespan(cleanupRaises)
      PROVE  ReportInv'
  <2>1. CASE phase' = "cleaning"
    BY <1>1, <1>2, <1>6, <2>1 DEF EndUnwinding, LeaveLifespan, ReportInv
  <2>2. CASE phase' # "cleaning"
    <3>1. /\ report' \in {"CANCELLED", "TIMED_OUT", "FAILED", "none"}
          /\ event' = "none" /\ outcome' = "raised" /\ phase' = "over"
      BY <1>1, <1>6, <2>2 DEF EndUnwinding, LeaveLifespan
    <3>2. report' = "none" => "raise" \in request.middleware
      BY <1>6, <2>2 DEF EndUnwinding, LeaveLifespan, ReportInv, TypeOK, Causes
    <3>3. cause' = cause /\ request' = request
      BY <1>6 DEF EndUnwinding, LeaveLifespan
    <3> QED
      BY <3>1, <3>2, <3>3 DEF ReportInv, SuccessIsComplete, EventMatchesReport
  <2> QED
    BY <2>1, <2>2
<1>7. CASE Finish
  <2>1. /\ report' \in {"SUCCEEDED", "PARTIAL", "FAILED"} /\ report' = Verdict
        /\ event' = IF report' = "SUCCEEDED" THEN "run_completed" ELSE "run_failed"
        /\ phase = "cleaning" /\ phase' = "notifying" /\ outcome' = "running"
        /\ UNCHANGED <<plan, request, cause, status, soft>>
    BY <1>7 DEF Finish, Verdict, SafetyInv, PhaseInv
  <2>2. SuccessIsComplete'
    BY <2>1, NothingForgotten
    DEF SuccessIsComplete, CompletedNode, Descendants, ClosedBelow, Consumers, Untouched
  <2> QED
    BY <2>1, <2>2 DEF ReportInv, EventMatchesReport
<1>8. ASSUME NEW result \in {"returned", "raised"}, Notified(result) PROVE ReportInv'
  <2>1. SuccessIsComplete'
    BY <1>8 DEF Notified, ReportInv, SuccessIsComplete, CompletedNode, Descendants, ClosedBelow, Consumers
  <2> QED
    BY <1>8, <2>1 DEF Notified, ReportInv, EventMatchesReport
<1>9. CASE Over \/ UNCHANGED vars
  <2>1. SuccessIsComplete'
    BY <1>9 DEF Over, vars, ReportInv, SuccessIsComplete, CompletedNode, Descendants, ClosedBelow, Consumers
  <2> QED
    BY <1>9, <2>1 DEF Over, vars, ReportInv, EventMatchesReport
<1> QED
  BY <1>3, <1>4, <1>5, <1>6, <1>7, <1>8, <1>9 DEF Next, System, Exit

\* For every plan and request, a report that says SUCCEEDED hides no selected node
\* that was not worked on, none says of an ended run that a step is running, and
\* the terminal event is that of the report (execute, its tail and except clauses).
THEOREM ReportIsTrueHolds == Spec => []ReportIsTrue
<1>1. ReportInv /\ NothingLeftRunning => ReportIsTrue
  BY DEF ReportInv, ReportIsTrue
<1>2. Spec => []ReportInv
  BY InitReport, NextReport, TypeCorrect, Safety, PTL DEF Spec
<1> QED
  BY <1>1, <1>2, NothingLeftRunningHolds, PTL

\* UnknownInv: an attempt that is yet to begin has raised nothing, and one that
\* waits after an unknown write does so for an answer of a callback.
UnknownInv ==
  \A n \in Nodes :
    /\ pc[n] \in {"idle", "queued"} => err[n] = "none"
    /\ pc[n] = "backoff" /\ err[n] = "unknown" => "retry" \in request.callbacks

LEMMA NextUnknown == TypeOK /\ LoopInv /\ UnknownInv /\ [Next]_vars => UnknownInv'
<1> SUFFICES ASSUME TypeOK, LoopInv, UnknownInv, [Next]_vars, NEW m \in Nodes
             PROVE  /\ pc'[m] \in {"idle", "queued"} => err'[m] = "none"
                    /\ pc'[m] = "backoff" /\ err'[m] = "unknown" => "retry" \in request'.callbacks
  BY DEF UnknownInv
<1> USE DEF runVars, loopVars, nodeVars, TypeOK, UnknownInv
<1>1. CASE Loop
  BY <1>1 DEF Loop, EnterBody, FormWave, AbandonUnmet, StopAfterFailure, WaveDone, ready, LoopInv
<1>2. ASSUME NEW n \in Nodes, Task(n)
      PROVE  /\ pc'[m] \in {"idle", "queued"} => err'[m] = "none"
             /\ pc'[m] = "backoff" /\ err'[m] = "unknown" => "retry" \in request'.callbacks
  <2>1. ASSUME NEW action \in FailureAction, Retry(n, action)
        PROVE  /\ pc'[m] \in {"idle", "queued"} => err'[m] = "none"
               /\ pc'[m] = "backoff" /\ err'[m] = "unknown" => "retry" \in request'.callbacks
    BY <2>1 DEF Retry, AtCallback, CanRetry, ShouldRetry, BeginAttempt
  <2> QED
    BY <1>2, <2>1 DEF Task, Acquire, BeginAttempt, AttemptEnds, Succeed, Settle, RaiseToCallbacks, Fail,
       EndBackoff, Skip, Continue, CallbackRaises, Unwind, AbandonDescendants, AtCallback, Resumes
<1>3. CASE Exit \/ Environment \/ Over \/ UNCHANGED vars
  BY <1>3 DEF Exit, Environment, Over, EndUnwinding, Finish, Notified, Interrupt, LeaveLifespan,
       MiddlewareRaises, MiddlewareSkips, MiddlewareSwallows, CleaningCancelled, vars
<1> QED
  BY <1>1, <1>2, <1>3 DEF Next, System

\* For every request, a write of unknown commit outcome is attempted again only if
\* a step_failed callback can answer RETRY (_should_retry, PMEXEC434).
THEOREM UnknownNotRetriedHolds == Spec => UnknownNotRetried
<1>1. Init => UnknownInv
  BY DEF Init, UnknownInv
<1>2. TypeOK /\ UnknownInv /\ [Next]_vars =>
        [\A n \in Nodes : err[n] = "unknown" /\ attempts'[n] # attempts[n]
           => "retry" \in request.callbacks]_vars
  <2> SUFFICES ASSUME TypeOK, UnknownInv, Next, NEW m \in Nodes, err[m] = "unknown",
                      attempts'[m] # attempts[m]
               PROVE  "retry" \in request.callbacks
    OBVIOUS
  <2> USE DEF runVars, loopVars, nodeVars, TypeOK, UnknownInv
  <2>1. CASE Loop \/ Exit \/ Environment \/ Over
    BY <2>1 DEF Loop, EnterBody, FormWave, AbandonUnmet, StopAfterFailure, WaveDone, Exit, Environment,
       Over, EndUnwinding, Finish, Notified, Interrupt, LeaveLifespan,
       MiddlewareRaises, MiddlewareSkips, MiddlewareSwallows, CleaningCancelled, vars
  <2>2. ASSUME NEW n \in Nodes, Task(n) PROVE "retry" \in request.callbacks
    <3>1. CASE \E action \in FailureAction : Retry(n, action)
      BY <3>1 DEF Retry, AtCallback, CanRetry, ShouldRetry, BeginAttempt
    <3> QED
      BY <2>2, <3>1 DEF Task, Acquire, BeginAttempt, AttemptEnds, Succeed, Settle, RaiseToCallbacks, Fail,
         EndBackoff, Skip, Continue, CallbackRaises, Unwind, AbandonDescendants, AtCallback, Resumes
  <2> QED
    BY <2>1, <2>2 DEF Next, System
<1>3. Spec => []UnknownInv
  <2>1. SafetyInv => LoopInv
    BY DEF SafetyInv
  <2> QED
    BY <1>1, <2>1, NextUnknown, TypeCorrect, Safety, PTL DEF Spec
<1> QED
  BY <1>2, <1>3, TypeCorrect, PTL DEF Spec, UnknownNotRetried

-----------------------------------------------------------------------------
(* The run implements its contract *)

LEMMA FateUnchanged ==
  ASSUME UNCHANGED <<plan, request, status, soft, report>>
  PROVE  UNCHANGED Contract!vars
  BY DEF Contract!vars, Fate, CompletedNode

\* An attempt is a Start of the contract the first time, no step after that.
LEMMA AttemptKeepsContract ==
  ASSUME TypeOK, SafetyInv, NEW n \in Nodes, BeginAttempt(n),
         pc[n] \in {"queued", "callback", "backoff"}, report = "none"
  PROVE  Contract!Next \/ UNCHANGED Contract!vars
<1> USE DEF TypeOK, BeginAttempt, SafetyInv, TaskInv, Active, InFlight, Fate,
            CompletedNode, runVars, loopVars, HardFailures
<1>1. CASE pc[n] = "queued"
  <2>1. \A p \in plan.producers[n] : Fate(p) = "completed"
    BY <1>1, ConstantsAssumption DEF LoopInv, PlanType
  <2>2. n \in plan.selected /\ Fate(n) = "waiting"
    BY <1>1 DEF LoopInv
  <2>3. [m \in Nodes |-> Fate(m)]' = [[m \in Nodes |-> Fate(m)] EXCEPT ![n] = "working"]
    BY <1>1
  <2>4. Contract!Start(n)
    BY <2>1, <2>2, <2>3, ConstantsAssumption DEF Contract!Start, PlanType
  <2> QED
    BY <2>4 DEF Contract!Next
<1>2. CASE pc[n] # "queued"
  <2>1. \A m \in Nodes : Fate(m)' = Fate(m)
    BY <1>2
  <2> QED
    BY <2>1 DEF Contract!vars
<1> QED
  BY <1>1, <1>2

\* A failure or a skip with its walk is one Drop of the contract.
LEMMA WalkKeepsContract ==
  ASSUME TypeOK, SafetyInv, NEW n \in Nodes, NEW s \in HardFailures \cup {"SKIPPED"},
         NEW hard \in BOOLEAN, hard <=> s \in HardFailures,
         Resumes(n), pc[n] = "callback", AbandonDescendants(n, s, hard), Settle(n)
  PROVE  Contract!Next
<1> DEFINE dropped == Descendants(n) \cap pending
           end == IF s = "SKIPPED" THEN "skipped" ELSE "failed"
<1> USE DEF TypeOK, AbandonDescendants, Settle, Resumes, Fate, CompletedNode, HardFailures,
            runVars, Active, InFlight
<1>1. Fate(n) = "working" /\ n \notin soft /\ report = "none"
  BY DEF SafetyInv, TaskInv, PhaseInv
<1>2. \A m \in dropped : m \in Nodes /\ m # n /\ Fate(m) = "waiting" /\ m \in plan.selected
  BY <1>1 DEF SafetyInv, TaskInv, LoopInv
<1>3. [m \in Nodes |-> Fate(m)]' =
        [m \in Nodes |-> IF m \in dropped THEN "abandoned"
                         ELSE IF m = n THEN end ELSE Fate(m)]
  BY <1>1, <1>2
<1>4. Contract!RuledOut([m \in Nodes |-> Fate(m)]')
  <2> SUFFICES ASSUME NEW m \in Nodes, Fate(m) = "waiting", Fate(m)' = "abandoned"
               PROVE  /\ m \in plan.selected
                      /\ \E p \in plan.producers[m] :
                           \/ p \notin plan.selected
                           \/ p \in Nodes /\ Fate(p)' \in {"skipped", "failed", "abandoned"}
    BY ConstantsAssumption DEF Contract!RuledOut, PlanType
  <2>1. m \in dropped /\ status'[m] = "ABANDONED"
    BY <1>3 DEF StepStatus, Terminal
  <2>2. AbandonedHasCause'
    BY WalkSafety DEF SafetyInv
  <2> QED
    BY <1>2, <2>1, <2>2, ConstantsAssumption DEF AbandonedHasCause, PlanType
<1>5. dropped \in SUBSET {m \in Nodes : [k \in Nodes |-> Fate(k)][m] = "waiting"}
  BY <1>2
<1>6. [m \in Nodes |-> Fate(m)]' =
        [m \in Nodes |-> IF m \in dropped THEN "abandoned"
                         ELSE IF m = n THEN end ELSE [k \in Nodes |-> Fate(k)][m]]
  BY <1>3
<1>7. UNCHANGED <<plan.producers, plan.selected, request, report>>
  OBVIOUS
<1>8. Contract!Drop(n, end)
  BY <1>1, <1>4, <1>5, <1>6, <1>7 DEF Contract!Drop
<1> QED
  BY <1>8 DEF Contract!Next

\* A step of the run is a step of the contract or invisible to the caller.
LEMMA NextKeepsContract ==
  TypeOK /\ SafetyInv /\ [Next]_vars => [Contract!Next]_(Contract!vars)
<1> SUFFICES ASSUME TypeOK, SafetyInv, [Next]_vars
             PROVE  Contract!Next \/ UNCHANGED Contract!vars
  OBVIOUS
<1> USE DEF TypeOK, runVars, loopVars, nodeVars, HardFailures
<1>1. CASE Loop
  <2>1. CASE EnterBody \/ FormWave \/ StopAfterFailure \/ WaveDone
    BY <2>1, FateUnchanged DEF EnterBody, FormWave, StopAfterFailure, WaveDone
  <2>2. CASE AbandonUnmet
    <3> DEFINE dropped == pending
    <3> USE <2>2 DEF AbandonUnmet, Fate, CompletedNode
    <3>1. \A m \in dropped : m \in Nodes /\ Fate(m) = "waiting" /\ m \in plan.selected
      BY DEF SafetyInv, LoopInv
    <3>2. [m \in Nodes |-> Fate(m)]' =
            [m \in Nodes |-> IF m \in dropped THEN "abandoned" ELSE [k \in Nodes |-> Fate(k)][m]]
      BY <3>1 DEF SafetyInv, TaskInv
    <3>3. Contract!RuledOut([m \in Nodes |-> Fate(m)]')
      <4> SUFFICES ASSUME NEW m \in Nodes, Fate(m) = "waiting", Fate(m)' = "abandoned"
                   PROVE  /\ m \in plan.selected
                          /\ \E p \in plan.producers[m] :
                               \/ p \notin plan.selected
                               \/ p \in Nodes /\ Fate(p)' \in {"skipped", "failed", "abandoned"}
        BY ConstantsAssumption DEF Contract!RuledOut, PlanType
      <4>1. m \in dropped /\ status'[m] = "ABANDONED"
        BY <3>2 DEF StepStatus, Terminal
      <4>2. AbandonedHasCause'
        BY <1>1, NextSafety DEF SafetyInv
      <4> QED
        BY <3>1, <4>1, <4>2, ConstantsAssumption DEF AbandonedHasCause, PlanType
    <3>4. dropped \in SUBSET {m \in Nodes : [k \in Nodes |-> Fate(k)][m] = "waiting"}
      BY <3>1
    <3>5. report = "none"
      BY DEF SafetyInv, PhaseInv, Untouched
    <3>6. Contract!Abandon
      BY <3>2, <3>3, <3>4, <3>5 DEF Contract!Abandon
    <3> QED BY <3>6 DEF Contract!Next
  <2> QED BY <1>1, <2>1, <2>2 DEF Loop
<1>2. ASSUME NEW n \in Nodes, Task(n) PROVE Contract!Next \/ UNCHANGED Contract!vars
  <2> USE DEF Active, InFlight
  <2>0. n \in wave => report = "none"
    BY DEF SafetyInv, PhaseInv, Untouched
  <2>1. CASE Acquire(n)
    BY <2>1, AttemptKeepsContract DEF Acquire, SafetyInv, PhaseInv
  <2>2. CASE \/ \E e \in Errors \cup {"none"} : AttemptEnds(n, e)
             \/ \E e \in Errors : RaiseToCallbacks(n, e)
             \/ CallbackRaises(n)
             \/ Unwind(n)
    BY <2>2, FateUnchanged DEF AttemptEnds, RaiseToCallbacks, CallbackRaises, Unwind
  <2>3. CASE Succeed(n) \/ Continue(n)
    <3> USE <2>3 DEF Succeed, Continue, AtCallback, Resumes, Settle, Fate, CompletedNode
    <3>1. report = "none" /\ Fate(n) = "working" /\ n \notin soft
      BY <2>0 DEF SafetyInv, TaskInv
    <3>2. [m \in Nodes |-> Fate(m)]' = [[m \in Nodes |-> Fate(m)] EXCEPT ![n] = "completed"]
      BY <3>1
    <3>3. Contract!Complete(n)
      BY <3>1, <3>2 DEF Contract!Complete
    <3> QED BY <3>3 DEF Contract!Next
  <2>4. ASSUME NEW action \in FailureAction, Retry(n, action)
        PROVE  Contract!Next \/ UNCHANGED Contract!vars
    <3>1. CASE request.backoff
      BY <2>4, <3>1, FateUnchanged DEF Retry
    <3>2. CASE ~ request.backoff
      BY <2>0, <2>4, <3>2, AttemptKeepsContract DEF Retry, AtCallback, Resumes
    <3> QED BY <3>1, <3>2
  <2>5. ASSUME NEW action \in FailureAction, Fail(n, action) PROVE Contract!Next
    <3>1. FailedStatus(n) \in HardFailures
      BY DEF FailedStatus
    <3> QED
      BY <2>5, <3>1, WalkKeepsContract DEF Fail, AtCallback
  <2>6. CASE EndBackoff(n)
    BY <2>6, AttemptKeepsContract DEF EndBackoff, SafetyInv, PhaseInv
  <2>7. CASE Skip(n)
    BY <2>7, WalkKeepsContract DEF Skip, AtCallback
  <2> QED
    BY <1>2, <2>1, <2>2, <2>3, <2>4, <2>5, <2>6, <2>7 DEF Task
<1>3. CASE Exit
  <2> USE DEF Fate, CompletedNode
  <2>1. ASSUME NEW raises \in BOOLEAN, EndUnwinding(raises) \/ LeaveLifespan(raises)
        PROVE  Contract!Next \/ UNCHANGED Contract!vars
    <3>1. report = "none" /\ report' \in {"TIMED_OUT", "CANCELLED", "FAILED", "none"}
      BY <2>1 DEF EndUnwinding, LeaveLifespan, SafetyInv, PhaseInv
    <3>2. UNCHANGED <<plan, request, status, soft>>
      BY <2>1 DEF EndUnwinding, LeaveLifespan
    <3>3. CASE report' = "none"
      BY <3>1, <3>2, <3>3, FateUnchanged
    <3>4. CASE report' # "none"
      <4>1. Contract!GiveUp
        BY <3>1, <3>2, <3>4 DEF Contract!GiveUp
      <4> QED BY <4>1 DEF Contract!Next
    <3> QED BY <3>3, <3>4
  <2>2. CASE Finish
    <3> USE <2>2 DEF Finish
    <3>1. report = "none"
      BY DEF SafetyInv, PhaseInv, Untouched
    <3> DEFINE handedOn == request.middleware \cap {"skip", "swallow"} = {}
    <3>0. handedOn => "swallow" \notin request.middleware /\ "skip" \notin request.middleware
      OBVIOUS
    <3>2. handedOn => \A m \in Nodes : Fate(m) # "working"
      <4>1. NothingLeftRunning
        BY FinishedInv
      <4> QED BY <3>0, <4>1 DEF NothingLeftRunning
    <3>3. (\E m \in Nodes : Fate(m) \in {"failed", "abandoned"}) <=>
            \E m \in Nodes : status[m] \in HardFailures \cup {"ABANDONED"}
      BY DEF StepStatus, Terminal
    <3>4. report' = "PARTIAL" => \E m \in Nodes : Fate(m) = "completed"
      BY DEF Verdict
    <3>5. handedOn /\ report' = "SUCCEEDED" =>
            \A m \in plan.selected : m \in Nodes /\ Fate(m) \in {"completed", "skipped"}
      <4> SUFFICES ASSUME handedOn, report' = "SUCCEEDED", NEW m \in plan.selected
                   PROVE  m \in Nodes /\ Fate(m) \in {"completed", "skipped"}
        OBVIOUS
      <4>1. m \in Nodes
        BY ConstantsAssumption DEF PlanType
      <4>2. \A k \in Nodes : status[k] \notin HardFailures \cup {"ABANDONED"}
        BY DEF Verdict
      <4>3. pending = {}
        BY <3>0, <4>2 DEF SafetyInv, PhaseInv, LoopInv
      <4>4. status[m] \in Terminal
        BY <3>0, <4>1, <4>2, <4>3 DEF SafetyInv, PhaseInv, LoopInv, TaskInv, Active, InFlight, Pcs
      <4> QED
        BY <4>1, <4>2, <4>4 DEF Terminal
    <3>6. report' \in IF \E m \in Nodes : Fate(m) \in {"failed", "abandoned"}
                        THEN {"PARTIAL", "FAILED"} ELSE {"SUCCEEDED"}
      BY <3>3 DEF Verdict
    <3>7. UNCHANGED <<plan.producers, plan.selected, handedOn, [m \in Nodes |-> Fate(m)]>>
      OBVIOUS
    <3>8. Contract!Conclude
      BY <3>1, <3>2, <3>4, <3>5, <3>6, <3>7 DEF Contract!Conclude
    <3> QED BY <3>8 DEF Contract!Next
  <2>3. ASSUME NEW result \in {"returned", "raised"}, Notified(result)
        PROVE  UNCHANGED Contract!vars
    BY <2>3, FateUnchanged DEF Notified
  <2> QED
    BY <1>3, <2>1, <2>2, <2>3 DEF Exit
<1>4. CASE Environment
  BY <1>4, FateUnchanged DEF Environment, Interrupt, MiddlewareRaises, MiddlewareSkips,
     MiddlewareSwallows, CleaningCancelled
<1>5. CASE UNCHANGED vars
  BY <1>5, FateUnchanged DEF vars
<1> QED
  BY <1>1, <1>2, <1>3, <1>4, <1>5 DEF Next, System, Over

\* LocalOrchestrator.execute implements RunContract for every plan and request:
\* dependency order, failures that rule out only what depends on them, and one
\* verdict that follows from the nodes' fates.
THEOREM KeepsContractHolds == Spec => KeepsContract
<1>1. Init => Contract!Init
  BY ConstantsAssumption DEF Init, Contract!Init, Fate, PlanType
<1> QED
  BY <1>1, NextKeepsContract, TypeCorrect, Safety, PTL
  DEF Spec, KeepsContract, Contract!Spec

=============================================================================
