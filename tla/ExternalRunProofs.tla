-------------------------- MODULE ExternalRunProofs --------------------------
(***************************************************************************)
(* The properties of ExternalRun for every plan, however many polls are    *)
(* taken and however their answers are delivered.                          *)
(***************************************************************************)
EXTENDS ExternalRun, TLAPS

Final == {"success", "failed", "upstream_failed", "cancelled"}

\* DagInv: what was submitted is the accepted DAG, which has the plan's dependencies
\* and retries, and no node that must not be repeated if any may be.
DagInv ==
  /\ project \in Projects
  /\ run # None => dag.accepted
  /\ dag.accepted =>
       /\ dag.dependencies = TaskGraph(project)
       /\ dag.retries = [n \in Tasks |-> TaskRetries(project, n)]
       /\ UnsafeRetry(project) = {}

\* TryInv: the tries of a task agree with its state, and a task that was started had
\* its producers' results.
TryInv ==
  \A n \in Tasks :
    /\ state[n] = None => tries[n] = 0
    /\ state[n] = "up_for_retry" => tries[n] <= TaskRetries(project, n)
    /\ tries[n] <= TaskRetries(project, n) + 1
    /\ tries[n] > 0 => run # None /\ \A m \in project.producers[n] : state[m] = "success"

\* EndInv: a run is over when all its tasks are.
EndInv ==
  /\ run \in {"success", "failed", "cancelled"} => \A n \in Tasks : state[n] \in Final
  /\ run = "success" => \A n \in Tasks : state[n] = "success"

\* SnapInv: what an answer says has ended has ended so.
SnapInv ==
  \A poll \in network :
    /\ poll.status \in StepStatus \cup {"unknown"}
    /\ poll.status \in Over => PollStatus = poll.status
    /\ poll.status = "succeeded" => \A n \in Tasks : poll.states[n] = "success"
    /\ poll.status = "unknown" => \A n \in Tasks : poll.states[n] = None
    /\ \A n \in Tasks : poll.states[n] \in Final => state[n] = poll.states[n]

\* Agrees: an answer q that is not older than what was seen to end says the same.
Agrees(q, status, ends) ==
  q.status # "unknown" =>
    /\ status \in Over => q.status = status
    /\ \A n \in Tasks : ends[n] # {} => q.states[n] \in ends[n]
EndsOf(poll) == [n \in Tasks |-> IF poll.states[n] \in Final THEN {poll.states[n]} ELSE {}]
EndsReported ==
  [n \in Tasks |-> IF report.steps[n] \in Over THEN EndedAs(report.steps[n]) ELSE {}]

\* OrderInv: later answers agree with earlier ones, and with the report if none newer
\* has been correlated.
OrderInv ==
  \A q \in network :
    /\ \A p \in network : p.number <= q.number => Agrees(q, p.status, EndsOf(p))
    /\ newest <= q.number => Agrees(q, report.status, EndsReported)

ExternalInv == TypeOK /\ DagInv /\ TryInv /\ EndInv /\ SnapInv /\ OrderInv /\ ReportedAsHappened

LEMMA RetriesAreNumbers ==
  ASSUME NEW p \in Projects, NEW n \in p.selected
  PROVE  TaskRetries(p, n) \in Nat
  BY ExternalAssumption DEF TaskRetries, Requested, Larger, Smaller, LessOne, NoLimit

LEMMA ExternalInit == Init => ExternalInv
<1> SUFFICES ASSUME Init PROVE ExternalInv
  OBVIOUS
<1>1. TypeOK
  BY ExternalAssumption DEF Init, TypeOK, TaskState, StepStatus, Tasks
<1>2. DagInv /\ TryInv /\ EndInv
  <2>1. project \in Projects /\ \A n \in Tasks : n \in Nodes /\ TaskRetries(project, n) \in Nat
    BY RetriesAreNumbers, ExternalAssumption DEF Init, Tasks
  <2> QED
    BY <2>1 DEF Init, NoDag, DagInv, TryInv, EndInv, None
<1>3. SnapInv /\ OrderInv /\ ReportedAsHappened
  BY DEF Init, SnapInv, OrderInv, ReportedAsHappened, Over, Tasks
<1> QED
  BY <1>1, <1>2, <1>3 DEF ExternalInv

(***************************************************************************)
(* Steps that leave polls and report alone                                 *)
(***************************************************************************)

\* What has ended stays as it ended.
Keeps ==
  /\ \A n \in Tasks : state[n] \in Final => state'[n] = state[n]
  /\ run \in {"success", "failed", "cancelled"} => run' = run

LEMMA KeepsReports ==
  ASSUME SnapInv, OrderInv, ReportedAsHappened, Keeps,
         UNCHANGED <<project, taken, network, report, last, newest>>
  PROVE  SnapInv' /\ OrderInv' /\ ReportedAsHappened'
<1> USE DEF Tasks
<1>1. \A status \in Over : PollStatus = status => PollStatus' = status
  BY DEF Keeps, PollStatus, Over
<1>2. SnapInv'
  BY <1>1 DEF SnapInv, Keeps
<1>3. OrderInv'
  <2>1. EndsReported' = EndsReported /\ \A p : EndsOf(p)' = EndsOf(p)
    BY DEF EndsReported, EndsOf, EndedAs
  <2>2. \A q, status, ends : Agrees(q, status, ends)' = Agrees(q, status, ends)
    BY DEF Agrees
  <2> QED
    BY <2>1, <2>2 DEF OrderInv
<1>4. ReportedAsHappened'
  <2>1. \A step \in StepStatus : EndedAs(step) \subseteq Final
    BY DEF EndedAs, Final
  <2>2. \A step : EndedAs(step)' = EndedAs(step)
    BY DEF EndedAs
  <2> QED
    BY <1>1, <2>1, <2>2 DEF ReportedAsHappened, Keeps, Over, StepStatus
<1> QED
  BY <1>2, <1>3, <1>4

LEMMA CompileStep ==
  ASSUME ExternalInv, CompilePlan
  PROVE  ExternalInv'
<1> USE DEF ExternalInv, CompilePlan, orchestrator, Tasks
<1>1. TypeOK'
  BY DEF TypeOK
<1>2. run = None
  BY DEF DagInv, NoDag
<1>3. DagInv'
  <2>1. CASE dag'.accepted = FALSE
    BY <1>2, <2>1 DEF DagInv
  <2>2. CASE dag'.accepted # FALSE
    <3> DEFINE errors == CompilationErrors(project, BuildPlan(SliceGraph(project)))
    <3>1. errors = {}
      BY <2>2
    <3>2. UnsafeRetry(project) = {}
      BY <3>1 DEF CompilationErrors
    <3>3. /\ dag'.dependencies = TaskGraph(project)
          /\ dag'.retries = [n \in project.selected |-> TaskRetries(project, n)]
      BY <3>1
    <3> QED
      BY <1>2, <3>2, <3>3 DEF DagInv
  <2> QED
    BY <2>1, <2>2
<1>4. TryInv' /\ EndInv'
  BY DEF TryInv, EndInv
<1>5. SnapInv' /\ OrderInv' /\ ReportedAsHappened'
  BY KeepsReports DEF Keeps
<1> QED
  BY <1>1, <1>3, <1>4, <1>5

LEMMA SubmitStep ==
  ASSUME ExternalInv, Submit
  PROVE  ExternalInv'
<1> USE DEF ExternalInv, Submit, World, Tasks
<1>1. TypeOK' /\ DagInv' /\ TryInv' /\ EndInv'
  BY DEF TypeOK, DagInv, TryInv, EndInv, None
<1>2. Keeps
  BY DEF Keeps, None
<1> QED
  BY <1>1, <1>2, KeepsReports

\* A task changes its own state, from none that is final.
LEMMA TaskStep ==
  ASSUME ExternalInv, NEW n \in Tasks, TaskNext(n)
  PROVE  ExternalInv'
<1> USE DEF ExternalInv
<1>1. n \in Nodes /\ project \in Projects /\ UNCHANGED <<World, run>> /\ run = "running"
  BY ExternalAssumption DEF Tasks, DagInv, TaskNext, StartTask, EndTask, FailDownstream
<1>2. \A m \in Tasks : m \in Nodes /\ TaskRetries(project, m) \in Nat
  BY <1>1, RetriesAreNumbers, ExternalAssumption DEF Tasks
<1>3. /\ dag.accepted /\ dag.dependencies[n] = project.producers[n]
      /\ dag.retries[n] = TaskRetries(project, n)
  <2>1. dag.dependencies[n] = project.producers[n] \cap project.selected
    BY <1>1 DEF DagInv, TaskGraph, Tasks, None
  <2>2. project.producers[n] \subseteq project.selected
    BY <1>1, ExternalAssumption DEF Tasks
  <2> QED
    BY <1>1, <2>1, <2>2 DEF DagInv, None
<1>4. state[n] \notin Final /\ \A m \in Tasks : m # n => state'[m] = state[m] /\ tries'[m] = tries[m]
  <2>1. state[n] \notin Final
    BY DEF TaskNext, StartTask, EndTask, FailDownstream, Final, None
  <2>2. \E after, count : state' = [state EXCEPT ![n] = after] /\ tries' = [tries EXCEPT ![n] = count]
    <3>1. tries = [tries EXCEPT ![n] = tries[n]]
      BY DEF TypeOK
    <3> QED
      BY <3>1 DEF TaskNext, StartTask, EndTask, FailDownstream
  <2> QED
    BY <1>2, <2>1, <2>2 DEF TypeOK
<1>5. TypeOK'
  BY <1>1 DEF TaskNext, StartTask, EndTask, FailDownstream, World, TypeOK, TaskState, Tasks
<1>6. DagInv' /\ EndInv'
  BY <1>1 DEF World, DagInv, EndInv, Tasks
<1>7. TryInv'
  <2>1. /\ state'[n] = None => tries'[n] = 0
        /\ state'[n] = "up_for_retry" => tries'[n] <= TaskRetries(project, n)
        /\ tries'[n] <= TaskRetries(project, n) + 1
        /\ tries'[n] > 0 => \A m \in project.producers[n] : state[m] = "success"
    <3>1. tries[n] \in Nat /\ TaskRetries(project, n) \in Nat
      BY <1>1, <1>2 DEF TypeOK
    <3>2. CASE StartTask(n)
      <4>1. state'[n] = "running" /\ tries'[n] = tries[n] + 1
        BY <1>1, <3>2 DEF StartTask, TypeOK
      <4>2. tries[n] <= TaskRetries(project, n)
        BY <3>1, <3>2 DEF StartTask, TryInv
      <4> QED
        BY <1>3, <3>1, <3>2, <4>1, <4>2 DEF StartTask, None
    <3>3. CASE EndTask(n)
      <4>1. /\ state'[n] \in {"success", "up_for_retry", "failed"} /\ tries'[n] = tries[n]
            /\ state'[n] = "up_for_retry" => tries[n] <= TaskRetries(project, n)
        BY <1>1, <1>3, <3>3 DEF EndTask, TypeOK
      <4> QED
        BY <3>1, <4>1 DEF TryInv, None
    <3>4. CASE FailDownstream(n)
      <4>1. state'[n] = "upstream_failed" /\ tries'[n] = tries[n]
        BY <1>1, <3>4 DEF FailDownstream, TypeOK
      <4> QED
        BY <3>1, <4>1 DEF TryInv, None
    <3> QED
      BY <3>2, <3>3, <3>4 DEF TaskNext
  <2>2. \A m \in Tasks : project.producers[m] \subseteq Tasks
    BY <1>1, ExternalAssumption DEF Tasks
  <2>3. \A m \in Tasks : state[m] = "success" => state'[m] = "success"
    BY <1>4 DEF Final
  <2> QED
    BY <1>1, <1>4, <2>1, <2>2, <2>3 DEF TryInv, World, Tasks, None
<1>8. Keeps
  BY <1>1, <1>4 DEF Keeps
<1> QED
  BY <1>1, <1>5, <1>6, <1>7, <1>8, KeepsReports DEF World

LEMMA EndRunStep ==
  ASSUME ExternalInv, EndRun
  PROVE  ExternalInv'
<1> USE DEF ExternalInv, EndRun, World, Tasks, None
<1>1. TypeOK' /\ DagInv' /\ TryInv'
  BY DEF TypeOK, DagInv, TryInv
<1>2. EndInv'
  BY DEF EndInv, Ended, Final
<1>3. Keeps
  BY DEF Keeps
<1> QED
  BY <1>1, <1>2, <1>3, KeepsReports

LEMMA CancelStep ==
  ASSUME ExternalInv, CancelRun
  PROVE  ExternalInv'
<1> USE DEF ExternalInv, World, Tasks, None
<1>1. \A n \in Tasks : n \in Nodes /\ project.producers[n] \subseteq Tasks
  BY ExternalAssumption DEF DagInv
<1>2. \A n \in Tasks : state'[n] = IF Ended(n) THEN state[n] ELSE "cancelled"
  BY <1>1 DEF CancelRun
<1>3. TypeOK'
  BY DEF CancelRun, TypeOK, TaskState
<1>4. DagInv' /\ EndInv'
  BY <1>2 DEF CancelRun, DagInv, EndInv, Ended, Final
<1>5. TryInv'
  BY <1>1, <1>2 DEF CancelRun, TryInv, Ended
<1>6. Keeps
  BY <1>2 DEF CancelRun, Keeps, Ended, Final
<1> QED
  BY <1>3, <1>4, <1>5, <1>6, KeepsReports DEF CancelRun

(***************************************************************************)
(* Polls                                                                   *)
(***************************************************************************)
LEMMA PollStep ==
  ASSUME ExternalInv, Poll
  PROVE  ExternalInv'
<1> USE DEF ExternalInv, orchestrator, Tasks
<1> PICK new \in network' :
       /\ network' = network \cup {new} /\ new.number = taken + 1
       /\ \/ new.status = PollStatus /\ new.states = state
          \/ new.status = "unknown" /\ new.states = [n \in Nodes |-> None]
  <2> DEFINE answer == [number |-> taken', status |-> PollStatus, states |-> state]
             silence == [number |-> taken', status |-> "unknown", states |-> [n \in Nodes |-> None]]
  <2>1. taken' = taken + 1
    BY DEF Poll
  <2>2. /\ answer.number = taken + 1 /\ answer.status = PollStatus /\ answer.states = state
        /\ silence.number = taken + 1 /\ silence.status = "unknown"
        /\ silence.states = [n \in Nodes |-> None]
    BY <2>1
  <2>3. network' = network \cup {answer} \/ network' = network \cup {silence}
    BY DEF Poll
  <2> HIDE DEF answer, silence
  <2> QED
    BY <2>2, <2>3
<1>1. /\ taken \in Nat /\ newest <= taken
      /\ \A p \in network : p.number \in Nat /\ p.number <= taken
  BY DEF TypeOK
<1>2. \A n \in Tasks : n \in Nodes
  BY ExternalAssumption DEF DagInv
<1>3. TypeOK'
  <2>1. taken' = taken + 1 /\ taken' \in 0..MaxPolls
    BY <1>1, ExternalAssumption DEF Poll, TypeOK
  <2>2. \A p \in network' : p.number \in 1..taken' /\ p.states \in [Nodes -> TaskState]
    BY <1>1, <2>1 DEF TypeOK, TaskState
  <2>3. last' \in 0..taken' /\ newest' \in last'..taken'
    BY <1>1, <2>1 DEF Poll, TypeOK
  <2> QED
    BY <2>1, <2>2, <2>3 DEF Poll, TypeOK
<1>4. DagInv' /\ TryInv' /\ EndInv'
  BY DEF Poll, DagInv, TryInv, EndInv
<1>5. /\ PollStatus' = PollStatus /\ PollStatus \in StepStatus /\ PollStatus # "unknown"
      /\ (PollStatus = "succeeded" => run = "success")
  BY DEF Poll, PollStatus, StepStatus
<1>6. SnapInv'
  <2>1. /\ new.status \in StepStatus \cup {"unknown"}
        /\ new.status \in Over => PollStatus = new.status
        /\ new.status = "succeeded" => \A n \in Tasks : new.states[n] = "success"
        /\ new.status = "unknown" => \A n \in Tasks : new.states[n] = None
        /\ \A n \in Tasks : new.states[n] \in Final => state[n] = new.states[n]
    BY <1>2, <1>5 DEF EndInv, Over, Final, None
  <2> QED
    BY <1>5, <2>1 DEF Poll, SnapInv
<1>7. OrderInv'
  <2>1. ASSUME NEW p \in network PROVE Agrees(new, p.status, EndsOf(p))
    BY <1>2 DEF Agrees, EndsOf, SnapInv
  <2>2. Agrees(new, new.status, EndsOf(new))
    BY DEF Agrees, EndsOf
  <2>3. Agrees(new, report.status, EndsReported)
    BY DEF Agrees, EndsReported, ReportedAsHappened
  <2>4. ASSUME NEW q \in network PROVE ~(new.number <= q.number)
    BY <1>1
  <2>5. /\ \A q, status, ends : Agrees(q, status, ends)' = Agrees(q, status, ends)
        /\ \A p : EndsOf(p)' = EndsOf(p)
        /\ EndsReported' = EndsReported /\ report' = report /\ newest' = newest
    BY DEF Poll, Agrees, EndsOf, EndsReported, EndedAs
  <2> QED
    BY <2>1, <2>2, <2>3, <2>4, <2>5 DEF OrderInv
<1>8. ReportedAsHappened'
  BY <1>5 DEF Poll, ReportedAsHappened, EndedAs
<1> QED
  BY <1>3, <1>4, <1>6, <1>7, <1>8

\* How an answer changes a step of the report.
LEMMA MappedStepIs ==
  ASSUME NEW task \in TaskState, NEW before \in StepStatus
  PROVE  /\ MappedStep(task, before) \in StepStatus
         /\ task \in Final => /\ MappedStep(task, before) \in Over
                              /\ task \in EndedAs(MappedStep(task, before))
         /\ task \notin Final /\ MappedStep(task, before) \in Over => MappedStep(task, before) = before
         /\ task = None => MappedStep(task, before) = before
         /\ before \in Over /\ task \in EndedAs(before) => MappedStep(task, before) = before
  BY DEF MappedStep, TaskState, StepStatus, Final, Over, EndedAs, None

\* An answer is correlated: what it makes the report say has ended so, and answers that
\* are not older agree with it.
LEMMA CorrelateStep ==
  ASSUME ExternalInv, NEW poll \in network, CorrelatePollToReport(poll)
  PROVE  ExternalInv' /\ (Regresses => last' < newest)
<1> USE DEF ExternalInv, orchestrator, Tasks
<1>1. /\ poll.number \in Nat /\ newest \in Nat /\ last' = poll.number
      /\ newest' = Larger(newest, poll.number) /\ poll.number \in 1..taken
      /\ \A q \in network : q.number \in Nat
  BY DEF CorrelatePollToReport, TypeOK
<1>2. report'.status = IF poll.status = "unknown" THEN report.status ELSE poll.status
  BY DEF CorrelatePollToReport, MappedRun
<1>3. ASSUME NEW n \in Tasks
      PROVE  /\ poll.states[n] \in TaskState /\ report.steps[n] \in StepStatus
             /\ report'.steps[n] = MappedStep(poll.states[n], report.steps[n])
  BY ExternalAssumption DEF CorrelatePollToReport, TypeOK, DagInv
<1>4. TypeOK'
  <2>1. report'.status \in StepStatus /\ report'.steps \in [Tasks -> StepStatus]
    BY <1>2, <1>3, MappedStepIs DEF CorrelatePollToReport, TypeOK, SnapInv
  <2>2. report'.references \in 0..MaxDeliveries
    BY ExternalAssumption DEF CorrelatePollToReport, TypeOK
  <2>3. newest' \in last'..taken /\ last' \in 0..taken
    BY <1>1 DEF Larger, TypeOK
  <2> QED
    BY <2>1, <2>2, <2>3 DEF CorrelatePollToReport, TypeOK
<1>5. DagInv' /\ TryInv' /\ EndInv' /\ SnapInv' /\ PollStatus' = PollStatus
  BY DEF CorrelatePollToReport, DagInv, TryInv, EndInv, SnapInv, PollStatus
<1>6. ReportedAsHappened'
  <2>1. report'.status \in Over => PollStatus = report'.status
    BY <1>2 DEF SnapInv, ReportedAsHappened
  <2>2. ASSUME report'.status = "succeeded", NEW n \in Tasks PROVE report'.steps[n] = "succeeded"
    <3>1. CASE poll.status = "unknown"
      BY <1>2, <1>3, <2>2, <3>1, MappedStepIs DEF SnapInv, ReportedAsHappened, Over
    <3>2. CASE poll.status # "unknown"
      <4>1. poll.states[n] = "success"
        BY <1>2, <2>2, <3>2 DEF SnapInv
      <4> QED
        BY <1>3, <4>1 DEF MappedStep
    <3> QED
      BY <3>1, <3>2
  <2>3. ASSUME NEW n \in Tasks, report'.steps[n] \in Over
        PROVE  state[n] \in EndedAs(report'.steps[n])
    <3>1. CASE poll.states[n] \in Final
      BY <1>3, <3>1, MappedStepIs DEF SnapInv
    <3>2. CASE poll.states[n] \notin Final
      BY <1>3, <2>3, <3>2, MappedStepIs DEF ReportedAsHappened
    <3> QED
      BY <3>1, <3>2
  <2>4. state' = state /\ Tasks' = Tasks /\ \A step : EndedAs(step)' = EndedAs(step)
    BY DEF CorrelatePollToReport, EndedAs
  <2> QED
    BY <1>5, <2>1, <2>2, <2>3, <2>4 DEF ReportedAsHappened
<1>7. OrderInv'
  <2>1. ASSUME NEW q \in network, newest' <= q.number, q.status # "unknown"
        PROVE  /\ report'.status \in Over => q.status = report'.status
               /\ \A n \in Tasks : report'.steps[n] \in Over =>
                    q.states[n] \in EndedAs(report'.steps[n])
    <3>1. newest <= q.number /\ poll.number <= q.number
      BY <1>1, <2>1 DEF Larger
    <3>2. Agrees(q, poll.status, EndsOf(poll)) /\ Agrees(q, report.status, EndsReported)
      BY <3>1 DEF OrderInv
    <3>3. report'.status \in Over => q.status = report'.status
      BY <1>2, <2>1, <3>2 DEF Agrees
    <3>4. ASSUME NEW n \in Tasks, report'.steps[n] \in Over
          PROVE  q.states[n] \in EndedAs(report'.steps[n])
      <4>1. CASE poll.states[n] \in Final
        <5>1. q.states[n] = poll.states[n]
          BY <2>1, <3>2, <4>1 DEF Agrees, EndsOf
        <5> QED
          BY <1>3, <4>1, <5>1, MappedStepIs
      <4>2. CASE poll.states[n] \notin Final
        <5>1. report'.steps[n] = report.steps[n]
          BY <1>3, <3>4, <4>2, MappedStepIs
        <5>2. EndsReported[n] = EndedAs(report.steps[n]) /\ EndsReported[n] # {}
          BY <3>4, <5>1 DEF EndsReported, EndedAs
        <5> QED
          BY <2>1, <3>2, <5>1, <5>2 DEF Agrees
      <4> QED
        BY <4>1, <4>2
    <3> QED
      BY <3>3, <3>4
  <2>2. /\ \A q, status, ends : Agrees(q, status, ends)' = Agrees(q, status, ends)
        /\ \A p : EndsOf(p)' = EndsOf(p)
        /\ network' = network /\ Tasks' = Tasks
    BY DEF CorrelatePollToReport, Agrees, EndsOf
  <2>3. \A n \in Tasks : EndsReported'[n] =
          IF report'.steps[n] \in Over THEN EndedAs(report'.steps[n]) ELSE {}
    BY <2>2 DEF EndsReported, EndedAs
  <2>4. ASSUME NEW q \in network, newest' <= q.number
        PROVE  Agrees(q, report'.status, EndsReported')
    BY <2>1, <2>3, <2>4 DEF Agrees
  <2> QED
    BY <2>2, <2>4 DEF OrderInv
<1>8. ASSUME ~(last' < newest) PROVE ~Regresses
  <2>1. newest <= poll.number
    BY <1>1, <1>8
  <2>2. Agrees(poll, report.status, EndsReported)
    BY <2>1 DEF OrderInv
  <2>3. report.status \in Over => report'.status = report.status
    BY <1>2, <2>2 DEF Agrees
  <2>4. ASSUME NEW n \in Tasks, report.steps[n] \in Over
        PROVE  report'.steps[n] = report.steps[n]
    <3>1. CASE poll.status = "unknown"
      BY <1>3, <3>1, MappedStepIs DEF SnapInv
    <3>2. CASE poll.status # "unknown"
      <4>1. EndsReported[n] = EndedAs(report.steps[n]) /\ EndsReported[n] # {}
        BY <2>4 DEF EndsReported, EndedAs
      <4>2. poll.states[n] \in EndedAs(report.steps[n])
        BY <2>2, <3>2, <4>1 DEF Agrees
      <4> QED
        BY <1>3, <2>4, <4>2, MappedStepIs
    <3> QED
      BY <3>1, <3>2
  <2> QED
    BY <2>3, <2>4 DEF Regresses
<1> QED
  BY <1>4, <1>5, <1>6, <1>7, <1>8

LEMMA ExternalNext ==
  ExternalInv /\ [Next]_vars => ExternalInv' /\ (Regresses => last' < newest)
<1> SUFFICES ASSUME ExternalInv, [Next]_vars
             PROVE  ExternalInv' /\ (Regresses => last' < newest)
  OBVIOUS
<1>1. CASE UNCHANGED vars
  <2> USE <1>1 DEF vars, orchestrator, Tasks, ExternalInv
  <2>1. TypeOK' /\ DagInv' /\ TryInv' /\ EndInv'
    BY DEF TypeOK, DagInv, TryInv, EndInv
  <2>2. SnapInv' /\ OrderInv' /\ ReportedAsHappened'
    BY KeepsReports DEF Keeps
  <2> QED
    BY <2>1, <2>2 DEF Regresses
<1>2. CASE report' = report /\ Next
  <2>1. ~Regresses
    BY <1>2 DEF Regresses
  <2>2. ASSUME NEW poll \in network, CorrelatePollToReport(poll) PROVE ExternalInv'
    BY <2>2, CorrelateStep
  <2> QED
    BY <1>2, <2>1, <2>2, CompileStep, SubmitStep, TaskStep, EndRunStep, CancelStep, PollStep DEF Next
<1>3. CASE report' # report /\ Next
  <2>1. PICK poll \in network : CorrelatePollToReport(poll)
    BY <1>3 DEF Next, CompilePlan, Submit, EndRun, CancelRun, Poll, TaskNext, StartTask, EndTask,
                FailDownstream, World
  <2> QED
    BY <2>1, CorrelateStep
<1> QED
  BY <1>1, <1>2, <1>3

LEMMA ExternalSafe == Spec => []ExternalInv
<1>1. ExternalInv /\ [Next]_vars => ExternalInv'
  BY ExternalNext
<1> QED
  BY <1>1, ExternalInit, PTL DEF Spec

\* Every variable keeps its type (compile_plan, the backend, correlate_poll_to_report).
THEOREM ExternalTypes == Spec => []TypeOK
<1>1. ExternalInv => TypeOK
  BY DEF ExternalInv
<1> QED
  BY <1>1, ExternalSafe, PTL

\* The DAG keeps the plan's order and its promises about repetition, for every plan and
\* every combination of declarations and retry settings (map_plan_to_tasks,
\* resolve_task_retry).
THEOREM DagKeepsPlanHolds == Spec => []DagKeepsPlan
<1>1. ASSUME ExternalInv, NEW n \in Tasks, tries[n] > 1
      PROVE  /\ \A m \in Tasks : ~Unsafe(m)
             /\ project.declared[n].limit # NoLimit => tries[n] <= project.declared[n].limit
             /\ tries[n] <= Larger(project.retries + 1, project.attempts)
  <2>1. /\ project \in Projects /\ n \in Nodes /\ tries[n] \in Nat
        /\ project.retries \in Nat /\ project.attempts \in Nat
        /\ project.declared[n].limit \in Nat
    BY <1>1, ExternalAssumption DEF ExternalInv, DagInv, TypeOK, Tasks
  <2>2. tries[n] <= TaskRetries(project, n) + 1 /\ UnsafeRetry(project) = {}
    BY <1>1, <2>1 DEF ExternalInv, TryInv, DagInv
  <2>3. TaskRetries(project, n) >= 1 /\ TaskRetries(project, n) \in Nat
    BY <1>1, <2>1, <2>2, RetriesAreNumbers DEF Tasks
  <2>4. /\ TaskRetries(project, n) <= Requested(project)
        /\ project.declared[n].limit # NoLimit =>
             TaskRetries(project, n) <= project.declared[n].limit - 1
    BY <2>1, <2>3 DEF TaskRetries, Requested, Larger, Smaller, LessOne, NoLimit
  <2>5. Requested(project) \in Nat /\ Requested(project) + 1 <= Larger(project.retries + 1, project.attempts)
    BY <2>1, <2>3, <2>4 DEF Requested, Larger, LessOne
  <2>6. \A m \in Tasks : RetrySafe(project, m)
    BY <2>2, <2>3, <2>4, <2>5 DEF UnsafeRetry, Tasks
  <2>7. \A m \in Tasks : ~Unsafe(m)
    BY <2>6 DEF RetrySafe, Unsafe, SafeWriteIntent, None
  <2>8. Larger(project.retries + 1, project.attempts) \in Nat
    BY <2>1 DEF Larger
  <2> QED
    BY <2>1, <2>2, <2>3, <2>4, <2>5, <2>7, <2>8
<1>2. ExternalInv => DagKeepsPlan
  BY <1>1 DEF DagKeepsPlan, ExternalInv, TryInv
<1> QED
  BY <1>2, ExternalSafe, PTL

\* What the report says has ended has ended so, in whatever order answers come
\* (correlate_poll_to_report).
THEOREM ReportedAsHappenedHolds == Spec => []ReportedAsHappened
<1>1. ExternalInv => ReportedAsHappened
  BY DEF ExternalInv
<1> QED
  BY <1>1, ExternalSafe, PTL

\* Only an answer older than one it has seen takes the report back from an end.
THEOREM OnlyLateAnswersRegressHolds == Spec => OnlyLateAnswersRegress
<1>1. ExternalInv /\ [Next]_vars => [Regresses => last' < newest]_vars
  BY ExternalNext
<1> QED
  BY <1>1, ExternalSafe, PTL DEF Spec, OnlyLateAnswersRegress
=============================================================================
