------------------------ MODULE SqlPublicationProofs ------------------------
(***************************************************************************)
(* What a SQL sink publishes and reports, and how long its staging table    *)
(* lives, for any number of runs, attempts and failing transactions; and,   *)
(* below, the properties of PluginDiscovery, which finds such plugins.      *)
(***************************************************************************)
EXTENDS SqlPublication, PluginDiscovery, FiniteSetTheorems, WellFoundedInduction, TLAPS

Phases == {"waiting", "transform", "sink", "ending", "over"}
Verdicts == {"none", "no_input", "committed", "unknown", "failed"}

\* Writes that take back what they did when they fail.
Revocable == mode.transactionalDdl \/ mode.intent = "insert_select"

\* Before its sink step ends a run has no verdict, and none of its attempts has
\* left anything in the target.
NothingYet ==
  \A r \in Runs : pc[r] \in {"waiting", "transform", "sink"} =>
    verdict[r] = "none" /\ (Revocable => published[r] = 0)

\* Runs that take turns are under way one at a time.
OneAtATime ==
  ~mode.concurrent => \A r, s \in Runs :
    pc[r] \notin {"waiting", "over"} /\ pc[s] \notin {"waiting", "over"} => r = s

\* The plugin remembers only tables of runs that are behind their materialization
\* and not yet over; without a fault it remembers all there are.
RemembersItsRuns ==
  /\ \A r \in remembered : pc[r] \in {"sink", "ending"}
  /\ faults = 0 => staging \subseteq remembered /\ swaps = {} /\ aside = {}

PublicationInv ==
  /\ PublishedAsReported
  /\ NothingYet
  /\ OneAtATime
  /\ StagingKeptInTurn
  /\ RemembersItsRuns

LEMMA InitPublication == Init => PublicationInv
BY SqlAssumption
DEF Init, PublicationInv, PublishedAsReported, TypeOK, PublishedAtMostOnce, VerdictIsTrue, NothingYet,
    OneAtATime, StagingKeptInTurn, StagingIsRunScoped, RemembersItsRuns, ModeType

\* What a step of a run does to the run itself: TypeOK aside, only its own place,
\* attempt, verdict and count change.
LEMMA Retried ==
  ASSUME TypeOK, NEW r \in Runs, NEW failure \in Verdicts, TryAgainOrFail(r, failure)
  PROVE  /\ attempt' \in [Runs -> 1..MaxAttempts]
         /\ pc' \in [Runs -> Phases] /\ verdict' \in [Runs -> Verdicts]
         /\ \A s \in Runs \ {r} : pc'[s] = pc[s] /\ verdict'[s] = verdict[s]
         /\ \/ pc'[r] = pc[r] /\ verdict'[r] = verdict[r]
            \/ pc'[r] = "ending" /\ verdict'[r] = failure
BY SqlAssumption DEF TryAgainOrFail, TypeOK, Phases, Verdicts

LEMMA Concluded ==
  ASSUME TypeOK, NEW r \in Runs, NEW reported \in {"committed", "unknown", "rolled_back"},
         Conclude(r, reported)
  PROVE  /\ attempt' \in [Runs -> 1..MaxAttempts]
         /\ pc' \in [Runs -> Phases] /\ verdict' \in [Runs -> Verdicts]
         /\ \A s \in Runs \ {r} : pc'[s] = pc[s] /\ verdict'[s] = verdict[s]
         /\ \/ reported = "rolled_back" /\ pc'[r] = pc[r] /\ verdict'[r] = verdict[r]
            \/ reported = "rolled_back" /\ pc'[r] = "ending" /\ verdict'[r] = "failed"
            \/ reported # "rolled_back" /\ pc'[r] = "ending" /\ verdict'[r] = reported
<1>1. CASE reported = "rolled_back"
  BY <1>1, Retried DEF Conclude, Verdicts
<1>2. CASE reported # "rolled_back"
  BY <1>2 DEF Conclude, TypeOK, Phases, Verdicts
<1> QED
  BY <1>1, <1>2

LEMMA StartRunKeeps ==
  ASSUME PublicationInv, NEW r \in Runs, StartRun(r)
  PROVE  PublicationInv'
<1> USE DEF PublicationInv, StartRun
<1>1. PublishedAsReported'
  BY DEF PublishedAsReported, TypeOK, PublishedAtMostOnce, VerdictIsTrue
<1>2. NothingYet'
  BY DEF NothingYet, Revocable, PublishedAsReported, TypeOK
<1>3. OneAtATime'
  BY DEF OneAtATime, PublishedAsReported, TypeOK
<1>4. StagingKeptInTurn' /\ RemembersItsRuns'
  BY DEF StagingKeptInTurn, StagingIsRunScoped, RemembersItsRuns, PublishedAsReported, TypeOK
<1> QED
  BY <1>1, <1>2, <1>3, <1>4

LEMMA MaterializeKeeps ==
  ASSUME PublicationInv, NEW r \in Runs, Materialize(r)
  PROVE  PublicationInv'
<1> USE DEF PublicationInv
<1> PICK o \in Outcomes :
      /\ May(o) /\ Count(o)
      /\ IF o.applied THEN staging' = staging \cup {r}
         ELSE \/ staging' = staging
              \/ ~mode.transactionalDdl /\ staging' = staging \ {r}
      /\ IF o.reported = "committed"
         THEN /\ remembered' = remembered \cup {r}
              /\ pc' = [pc EXCEPT ![r] = "sink"]
              /\ attempt' = [attempt EXCEPT ![r] = 1]
              /\ UNCHANGED verdict
         ELSE TryAgainOrFail(r, "no_input") /\ UNCHANGED remembered
  BY DEF Materialize
<1>1. pc[r] = "transform" /\ UNCHANGED <<mode, swaps, aside, target, published>> /\ TypeOK
  BY DEF Materialize, PublishedAsReported
<1>2. /\ attempt' \in [Runs -> 1..MaxAttempts]
      /\ pc' \in [Runs -> Phases] /\ verdict' \in [Runs -> Verdicts]
      /\ \A s \in Runs \ {r} : pc'[s] = pc[s] /\ verdict'[s] = verdict[s]
      /\ \/ o.reported = "committed" /\ pc'[r] = "sink" /\ verdict'[r] = "none"
         \/ o.reported # "committed" /\ pc'[r] = "transform" /\ verdict'[r] = "none"
         \/ o.reported # "committed" /\ pc'[r] = "ending" /\ verdict'[r] = "no_input"
  <2>1. verdict[r] = "none"
    BY <1>1 DEF NothingYet
  <2>2. CASE o.reported = "committed"
    BY <1>1, <2>1, <2>2, SqlAssumption DEF TypeOK, Phases, Verdicts
  <2>3. CASE o.reported # "committed"
    BY <1>1, <2>1, <2>3, Retried DEF Verdicts
  <2> QED
    BY <2>2, <2>3
<1>3. faults' \in 0..MaxFaults /\ (faults' = 0 => faults = 0 /\ o = Committed)
  BY <1>1, SqlAssumption DEF May, Count, TypeOK
<1>4. o.reported = "committed" => o.applied
  BY DEF Outcomes
<1>5. TypeOK'
  BY <1>1, <1>2, <1>3 DEF TypeOK, Phases, Verdicts
<1>6. PublishedAtMostOnce' /\ VerdictIsTrue' /\ NothingYet'
  BY <1>1, <1>2 DEF PublishedAsReported, PublishedAtMostOnce, VerdictIsTrue, NothingYet, Revocable
<1>7. OneAtATime'
  BY <1>1, <1>2 DEF OneAtATime
<1>8. StagingKeptInTurn'
  BY <1>1, <1>2, <1>4 DEF StagingKeptInTurn, StagingIsRunScoped, OneAtATime
<1>9. RemembersItsRuns'
  BY <1>1, <1>2, <1>3 DEF RemembersItsRuns, Committed, TypeOK
<1> QED
  BY <1>5, <1>6, <1>7, <1>8, <1>9 DEF PublishedAsReported

\* The sink step of r ends as a transaction that reported so makes it end; rows of
\* r are in the target if it was applied, and only then if the write is revocable.
Ended(r, reported) ==
  /\ Conclude(r, reported)
  /\ \A s \in Runs \ {r} : published'[s] = published[s]
  /\ published' \in [Runs -> Nat]
  /\ published'[r] \in {published[r], published[r] + 1}
  /\ reported = "committed" => published'[r] = published[r] + 1
  /\ reported = "rolled_back" /\ Revocable => published'[r] = published[r]
  /\ faults' \in 0..MaxFaults /\ (faults' = 0 => faults = 0)
  /\ faults' = 0 => swaps' = {} /\ aside' = {}
  /\ swaps' \subseteq Runs \X (1..MaxAttempts) /\ aside' \subseteq Runs \X (1..MaxAttempts)
  /\ target' \in Runs \cup {Previous, Missing}
  /\ UNCHANGED <<mode, staging, remembered>>

LEMMA TableGoneEnds ==
  ASSUME PublicationInv, NEW r \in Runs, pc[r] = "sink", TableGone(r)
  PROVE  \E reported \in {"committed", "unknown", "rolled_back"} : Ended(r, reported)
<1> PICK reported \in {"rolled_back", "unknown"} : Conclude(r, reported)
  BY DEF TableGone
<1>1. TypeOK /\ RemembersItsRuns
  BY DEF PublicationInv, PublishedAsReported
<1>2. Ended(r, reported)
  BY <1>1 DEF TableGone, Ended, TypeOK, RemembersItsRuns
<1> QED
  BY <1>2

LEMMA InsertSelectEnds ==
  ASSUME PublicationInv, NEW r \in Runs, pc[r] = "sink", InsertSelect(r)
  PROVE  \E reported \in {"committed", "unknown", "rolled_back"} : Ended(r, reported)
<1> PICK o \in Outcomes :
      /\ May(o) /\ Count(o)
      /\ published' = [published EXCEPT ![r] = IF o.applied THEN @ + 1 ELSE @]
      /\ Conclude(r, o.reported)
  BY DEF InsertSelect
<1>1. TypeOK /\ RemembersItsRuns
  BY DEF PublicationInv, PublishedAsReported
<1>2. faults' \in 0..MaxFaults /\ (faults' = 0 => faults = 0)
  BY <1>1, SqlAssumption DEF May, Count, TypeOK
<1>3. /\ o.reported \in {"committed", "unknown", "rolled_back"}
      /\ o.reported = "committed" => o.applied
      /\ o.reported = "rolled_back" => ~o.applied
  BY DEF Outcomes
<1>4. Ended(r, o.reported)
  BY <1>1, <1>2, <1>3 DEF InsertSelect, Ended, TypeOK, RemembersItsRuns
<1> QED
  BY <1>3, <1>4

\* Of a swap that was not applied, transactional DDL leaves nothing; of one that
\* was, everything.
LEMMA SwapEnds ==
  ASSUME TypeOK, NEW r \in Runs, NEW o \in Outcomes, NEW n \in Applied(o), Swapped(r, n)
  PROVE  /\ \A s \in Runs \ {r} : published'[s] = published[s]
         /\ published' \in [Runs -> Nat]
         /\ published'[r] \in {published[r], published[r] + 1}
         /\ o.applied => published'[r] = published[r] + 1 /\ UNCHANGED <<swaps, aside>>
         /\ ~o.applied /\ mode.transactionalDdl => published'[r] = published[r]
         /\ swaps' \subseteq Runs \X (1..MaxAttempts) /\ aside' \subseteq Runs \X (1..MaxAttempts)
         /\ target' \in Runs \cup {Previous, Missing}
<1>1. n \in 0..4 /\ (o.applied => n = 4) /\ (~o.applied /\ mode.transactionalDdl => n = 0)
  BY DEF Applied
<1>2. <<r, attempt[r]>> \in Runs \X (1..MaxAttempts)
  BY DEF TypeOK
<1>3. published' = [published EXCEPT ![r] = IF n >= 3 THEN @ + 1 ELSE @]
  BY DEF Swapped
<1>4. /\ \A s \in Runs \ {r} : published'[s] = published[s]
      /\ published' \in [Runs -> Nat]
      /\ published'[r] \in {published[r], published[r] + 1}
      /\ o.applied => published'[r] = published[r] + 1
      /\ ~o.applied /\ mode.transactionalDdl => published'[r] = published[r]
  BY <1>1, <1>3 DEF TypeOK
<1>5. swaps' \in {swaps, swaps \cup {<<r, attempt[r]>>}} /\ aside' \in {aside, aside \cup {<<r, attempt[r]>>}}
  BY <1>1 DEF Swapped
<1>6. o.applied => UNCHANGED <<swaps, aside>>
  BY <1>1 DEF Swapped
<1>7. target' \in Runs \cup {Previous, Missing}
  BY <1>1 DEF Swapped, TypeOK
<1> QED
  BY <1>2, <1>4, <1>5, <1>6, <1>7 DEF TypeOK

LEMMA ReplaceEnds ==
  ASSUME PublicationInv, NEW r \in Runs, pc[r] = "sink", mode.intent = "replace", Replace(r)
  PROVE  \E reported \in {"committed", "unknown", "rolled_back"} : Ended(r, reported)
<1>1. TypeOK /\ RemembersItsRuns
  BY DEF PublicationInv, PublishedAsReported
<1>2. \A o \in Outcomes : May(o) /\ Count(o) =>
        faults' \in 0..MaxFaults /\ (faults' = 0 => faults = 0 /\ o = Committed)
  BY <1>1, SqlAssumption DEF May, Count, TypeOK
<1>3. \A o \in Outcomes :
        /\ o.reported \in {"committed", "unknown", "rolled_back"}
        /\ o.reported = "committed" => o.applied
        /\ o.reported = "rolled_back" => ~o.applied
  BY DEF Outcomes
<1>4. Committed.reported = "committed" /\ Committed.applied
  BY DEF Committed
<1>5. UNCHANGED <<mode, staging, remembered>>
  BY DEF Replace
<1>6. mode.intent # "insert_select" /\ <<r, attempt[r]>> \in Runs \X (1..MaxAttempts)
  BY <1>1 DEF TypeOK
<1> PICK create \in Outcomes :
      /\ May(create)
      /\ IF create.reported # "committed"
         THEN /\ Count(create)
              /\ swaps' = IF create.applied THEN swaps \cup {<<r, attempt[r]>>} ELSE swaps
              /\ Conclude(r, create.reported)
              /\ UNCHANGED <<aside, target, published>>
         ELSE \E swap \in Outcomes :
                /\ May(swap) /\ Count(swap)
                /\ \E n \in Applied(swap) : Swapped(r, n)
                /\ Conclude(r, swap.reported)
  BY DEF Replace
<1>7. CASE create.reported # "committed"
  <2>1. faults' \in 0..MaxFaults /\ faults' # 0
    BY <1>2, <1>4, <1>7
  <2>2. Ended(r, create.reported)
    BY <1>1, <1>3, <1>5, <1>6, <1>7, <2>1 DEF Ended, TypeOK
  <2> QED
    BY <1>3, <2>2
<1>8. CASE create.reported = "committed"
  <2> PICK swap \in Outcomes : /\ May(swap) /\ Count(swap)
                               /\ \E n \in Applied(swap) : Swapped(r, n)
                               /\ Conclude(r, swap.reported)
    BY <1>8
  <2> PICK n \in Applied(swap) : Swapped(r, n)
    OBVIOUS
  <2>1. faults' \in 0..MaxFaults /\ (faults' = 0 => faults = 0 /\ swap = Committed)
    BY <1>2
  <2>2. /\ \A s \in Runs \ {r} : published'[s] = published[s]
        /\ published' \in [Runs -> Nat]
        /\ published'[r] \in {published[r], published[r] + 1}
        /\ swap.applied => published'[r] = published[r] + 1 /\ UNCHANGED <<swaps, aside>>
        /\ ~swap.applied /\ mode.transactionalDdl => published'[r] = published[r]
        /\ swaps' \subseteq Runs \X (1..MaxAttempts) /\ aside' \subseteq Runs \X (1..MaxAttempts)
        /\ target' \in Runs \cup {Previous, Missing}
    BY <1>1, SwapEnds
  <2>3. faults' = 0 => swaps' = {} /\ aside' = {}
    BY <1>1, <1>4, <2>1, <2>2 DEF RemembersItsRuns
  <2>4. Ended(r, swap.reported)
    BY <1>3, <1>5, <1>6, <2>1, <2>2, <2>3 DEF Ended, Revocable
  <2> QED
    BY <1>3, <2>4
<1> QED
  BY <1>7, <1>8

LEMMA WriteSinkKeeps ==
  ASSUME PublicationInv, NEW r \in Runs, WriteSink(r)
  PROVE  PublicationInv'
<1> USE DEF PublicationInv
<1>1. pc[r] = "sink" /\ TypeOK /\ verdict[r] = "none" /\ (Revocable => published[r] = 0)
  BY DEF WriteSink, PublishedAsReported, NothingYet
<1>2. PICK reported \in {"committed", "unknown", "rolled_back"} : Ended(r, reported)
  BY <1>1, TableGoneEnds, InsertSelectEnds, ReplaceEnds DEF WriteSink
<1>3. /\ attempt' \in [Runs -> 1..MaxAttempts]
      /\ pc' \in [Runs -> Phases] /\ verdict' \in [Runs -> Verdicts]
      /\ \A s \in Runs \ {r} : pc'[s] = pc[s] /\ verdict'[s] = verdict[s]
      /\ \/ reported = "rolled_back" /\ pc'[r] = "sink" /\ verdict'[r] = "none"
         \/ reported = "rolled_back" /\ pc'[r] = "ending" /\ verdict'[r] = "failed"
         \/ reported # "rolled_back" /\ pc'[r] = "ending" /\ verdict'[r] = reported
  BY <1>1, <1>2, Concluded DEF Ended
<1>4. UNCHANGED <<mode, staging, remembered>> /\ (Revocable' <=> Revocable)
  BY <1>2 DEF Ended, Revocable
<1>5. TypeOK'
  BY <1>1, <1>2, <1>3, <1>4 DEF TypeOK, Phases, Verdicts, Ended
<1>6. NothingYet'
  BY <1>1, <1>2, <1>3, <1>4 DEF NothingYet, Ended
<1>7. PublishedAtMostOnce'
  <2> SUFFICES ASSUME Revocable, NEW s \in Runs PROVE published'[s] <= 1
    BY <1>4 DEF PublishedAtMostOnce, Revocable
  <2> QED
    BY <1>1, <1>2 DEF PublishedAsReported, PublishedAtMostOnce, Revocable, Ended
<1>8. VerdictIsTrue'
  <2> SUFFICES ASSUME NEW s \in Runs
               PROVE  /\ verdict'[s] = "committed" => published'[s] >= 1
                      /\ verdict'[s] = "failed" /\ Revocable => published'[s] = 0
    BY <1>4 DEF VerdictIsTrue, Revocable
  <2>1. published[r] \in Nat
    BY <1>1 DEF TypeOK
  <2> QED
    BY <1>1, <1>2, <1>3, <2>1 DEF PublishedAsReported, VerdictIsTrue, Revocable, Ended
<1>9. OneAtATime' /\ StagingKeptInTurn'
  BY <1>1, <1>3, <1>4 DEF OneAtATime, StagingKeptInTurn, StagingIsRunScoped
<1>10. RemembersItsRuns'
  BY <1>1, <1>2, <1>3, <1>4 DEF RemembersItsRuns, Ended, TypeOK
<1> QED
  BY <1>5, <1>6, <1>7, <1>8, <1>9, <1>10 DEF PublishedAsReported

LEMMA CancelKeeps ==
  ASSUME PublicationInv, NEW r \in Runs, Cancel(r)
  PROVE  PublicationInv'
<1> USE DEF PublicationInv, Cancel
<1>1. PublishedAsReported'
  BY DEF PublishedAsReported, TypeOK, PublishedAtMostOnce, VerdictIsTrue
<1>2. NothingYet'
  BY DEF NothingYet, Revocable, PublishedAsReported, TypeOK
<1>3. OneAtATime'
  BY DEF OneAtATime, PublishedAsReported, TypeOK
<1>4. StagingKeptInTurn' /\ RemembersItsRuns'
  BY DEF StagingKeptInTurn, StagingIsRunScoped, RemembersItsRuns, PublishedAsReported, TypeOK
<1> QED
  BY <1>1, <1>2, <1>3, <1>4

\* The end of a run takes only tables of runs that are under way together with it.
LEMMA EndRunKeeps ==
  ASSUME PublicationInv, NEW r \in Runs, EndRun(r)
  PROVE  PublicationInv'
<1> USE DEF PublicationInv, EndRun
<1>1. faults' \in 0..MaxFaults /\ (faults' = 0 => faults = 0 /\ staging' = staging \ remembered)
      /\ staging' \subseteq staging
  BY SqlAssumption DEF PublishedAsReported, TypeOK
<1>2. PublishedAsReported'
  BY <1>1 DEF PublishedAsReported, TypeOK, PublishedAtMostOnce, VerdictIsTrue
<1>3. NothingYet'
  BY DEF NothingYet, Revocable, PublishedAsReported, TypeOK
<1>4. OneAtATime'
  BY DEF OneAtATime, PublishedAsReported, TypeOK
<1>5. StagingKeptInTurn'
  BY DEF StagingKeptInTurn, StagingIsRunScoped, OneAtATime, PublishedAsReported, TypeOK
<1>6. RemembersItsRuns'
  BY <1>1 DEF RemembersItsRuns
<1> QED
  BY <1>2, <1>3, <1>4, <1>5, <1>6

LEMMA NextPublication == PublicationInv /\ [Next]_vars => PublicationInv'
<1> SUFFICES ASSUME PublicationInv, [Next]_vars PROVE PublicationInv'
  OBVIOUS
<1>1. CASE UNCHANGED vars
  BY <1>1 DEF vars, PublicationInv, PublishedAsReported, TypeOK, PublishedAtMostOnce, VerdictIsTrue,
     NothingYet, Revocable, OneAtATime, StagingKeptInTurn, StagingIsRunScoped, RemembersItsRuns
<1>2. ASSUME NEW r \in Runs,
             StartRun(r) \/ Materialize(r) \/ WriteSink(r) \/ Cancel(r) \/ EndRun(r)
      PROVE  PublicationInv'
  BY <1>2, StartRunKeeps, MaterializeKeeps, WriteSinkKeeps, CancelKeeps, EndRunKeeps
<1> QED
  BY <1>1, <1>2 DEF Next, AllOver

\* The inductive invariant holds of every reachable state.
THEOREM PublicationHolds == Spec => []PublicationInv
BY InitPublication, NextPublication, PTL DEF Spec

\* The rows of a run are published once at most, and the verdict says whether:
\* whatever is tried again was rolled back, whatever is unknown is not tried again.
THEOREM PublishedAsReportedHolds == Spec => []PublishedAsReported
<1>1. PublicationInv => PublishedAsReported
  BY DEF PublicationInv
<1> QED
  BY <1>1, PublicationHolds, PTL

\* A staging table is there for the sink of its run, if runs take turns, and gone
\* when all runs are over, if no transaction went wrong.
THEOREM StagingLivesAsItsRunHolds == Spec => []StagingLivesAsItsRun
<1>1. PublicationInv => StagingLivesAsItsRun
  BY DEF PublicationInv, StagingLivesAsItsRun, StagingDropped, RemembersItsRuns, PublishedAsReported, TypeOK
<1> QED
  BY <1>1, PublicationHolds, PTL

\* A table that other runs read is swapped, never dropped: a call leaves a target
\* that was there in place, however it ends.
THEOREM TargetStaysHolds == Spec => TargetStays
<1>1. PublicationInv /\ [Next]_vars => (mode.transactionalDdl /\ target # Missing => target' # Missing)
  <2> SUFFICES ASSUME TypeOK, Next, mode.transactionalDdl, target # Missing PROVE target' # Missing
    BY DEF vars, PublicationInv, PublishedAsReported
  <2>1. ASSUME NEW r \in Runs, StartRun(r) \/ Materialize(r) \/ Cancel(r) \/ EndRun(r)
        PROVE  target' # Missing
    BY <2>1 DEF StartRun, Materialize, Cancel, EndRun
  <2>2. ASSUME NEW r \in Runs, WriteSink(r) PROVE target' # Missing
    <3>1. CASE TableGone(r) \/ InsertSelect(r)
      BY <3>1 DEF TableGone, InsertSelect
    <3>2. CASE Replace(r)
      <4>1. ASSUME NEW o \in Outcomes, NEW n \in Applied(o), Swapped(r, n) PROVE target' # Missing
        <5>1. n \in {0, 4}
          BY <4>1 DEF Applied
        <5> QED
          BY <4>1, <5>1, SqlAssumption DEF Swapped
      <4> QED
        BY <3>2, <4>1 DEF Replace
    <3> QED
      BY <2>2, <3>1, <3>2 DEF WriteSink
  <2> QED
    BY <2>1, <2>2 DEF Next, AllOver, vars
<1>2. PublicationInv /\ [Next]_vars =>
        [mode.transactionalDdl /\ target # Missing => target' # Missing]_vars
  BY <1>1
<1> QED
  BY <1>2, PublicationHolds, PTL DEF Spec, TargetStays
-----------------------------------------------------------------------------
(***************************************************************************)
(* Beside the plugin that publishes, the plugins a process finds: what the  *)
(* discovery of PluginDiscovery lets a production run execute and a process *)
(* import, for any installations, profiles and calls.                       *)
(***************************************************************************)
\* A finite nonempty set of numbers has a greatest, and any nonempty one a least.
LEMMA GreatestExists ==
  ASSUME NEW S \in SUBSET Nat, IsFiniteSet(S), S # {}
  PROVE  \E x \in S : \A y \in S : y <= x
<1> DEFINE R == StrictSubsetOrdering(S)
           T == {U \in SUBSET S : U # {} /\ ~ \E x \in U : \A y \in U : y <= x}
<1>1. IsWellFoundedOn(R, FiniteSubsetsOf(S))
  BY FS_StrictSubsetOrderingWellFounded
<1>2. T \subseteq FiniteSubsetsOf(S)
  BY FS_FiniteSubsetsOfFinite
<1>3. SUFFICES ASSUME T # {} PROVE FALSE
  OBVIOUS
<1>4. PICK U \in T : \A V \in T : ~(<<V, U>> \in R)
  <2> HIDE DEF R, T
  <2> QED BY <1>1, <1>2, <1>3, WFMin
<1>5. PICK x \in U : x \in Nat
  OBVIOUS
<1>6. U \ {x} \notin T
  BY <1>4, <1>5 DEF StrictSubsetOrdering
<1>7. CASE U \ {x} = {}
  BY <1>7, <1>5
<1>8. CASE \E m \in U \ {x} : \A y \in U \ {x} : y <= m
  BY <1>8, <1>5
<1>9. QED
  BY <1>6, <1>7, <1>8

LEMMA LeastExists ==
  ASSUME NEW S \in SUBSET Nat, S # {}
  PROVE  \E x \in S : \A y \in S : x <= y
<1>1. PICK n \in S : n \in Nat
  OBVIOUS
<1> DEFINE Gaps == {g \in 0 .. n : n - g \in S}
<1>2. IsFiniteSet(Gaps)
  <2>1. IsFiniteSet(0 .. n) /\ Gaps \in SUBSET (0 .. n)
    BY <1>1, FS_Interval
  <2>2. QED
    BY <2>1, FS_Subset
<1>3. 0 \in Gaps /\ Gaps \in SUBSET Nat
  BY <1>1
<1>4. PICK g \in Gaps : \A k \in Gaps : k <= g
  BY <1>2, <1>3, GreatestExists
<1>5. ASSUME NEW y \in S PROVE n - g <= y
  <2>1. CASE y > n
    BY <2>1, <1>1, <1>4
  <2>2. CASE y <= n
    <3>1. n - y \in Gaps
      BY <2>2, <1>1
    <3>2. QED
      BY <3>1, <1>1, <1>4
  <2>3. QED
    BY <2>1, <2>2, <1>1
<1>6. QED
  BY <1>4, <1>5

\* What Min and Max choose.
LEMMA MinOf ==
  ASSUME NEW S \in SUBSET Nat, S # {}
  PROVE  Min(S) \in S /\ \A y \in S : Min(S) <= y
BY LeastExists DEF Min
LEMMA MaxOf ==
  ASSUME NEW S \in SUBSET Nat, IsFiniteSet(S), S # {}
  PROVE  Max(S) \in S /\ \A y \in S : y <= Max(S)
BY GreatestExists DEF Max

\* SiteOk: the installation is one of those given.
SiteOk == site \in Sites

\* Positions in an installation have a first and a last.
LEMMA Positions ==
  ASSUME SiteOk
  PROVE  /\ DOMAIN site \in SUBSET Nat
         /\ \A S \in SUBSET DOMAIN site :
              S # {} => /\ S \in SUBSET Nat /\ Min(S) \in S /\ Max(S) \in S
                        /\ \A y \in S : y <= Max(S)
<1>1. DOMAIN site \in SUBSET Nat /\ IsFiniteSet(DOMAIN site)
  BY PluginDiscoveryAssumption DEF SiteOk, IsFiniteSet
<1>2. ASSUME NEW S \in SUBSET DOMAIN site, S # {}
      PROVE S \in SUBSET Nat /\ Min(S) \in S /\ Max(S) \in S /\ \A y \in S : y <= Max(S)
  <2>1. S \in SUBSET Nat /\ IsFiniteSet(S)
    BY <1>1, FS_Subset
  <2>2. QED
    BY <2>1, <1>2, MinOf, MaxOf
<1>3. QED
  BY <1>1, <1>2

\* The manifest that discovery accepts is the one the distribution has.
LEMMA ManifestRead ==
  ASSUME NEW i \in DOMAIN site, ManifestOf(i) # None
  PROVE  /\ site[i].dist # None /\ ManifestOf(i) = site[i].dist.manifest
         /\ site[i].dist.manifest \notin {None, Unreadable}
         /\ site[i].dist.manifest.digest # "wrong"
         /\ site[i].dist.manifest.package = site[i].dist.name
         /\ LoadManifest(site[i].dist, TRUE).manifest = ManifestOf(i)
         /\ site[i].dist.manifest.version # site[i].dist.version =>
              Error(415, Who(i), "evaluate") \in LoadManifest(site[i].dist, TRUE).diags
BY DEF ManifestOf, LoadManifest, Who

\* The entry of a manifest that discovery judges by is for the entry point.
LEMMA EntryRead ==
  ASSUME SiteOk, NEW i \in DOMAIN site,
         ManifestOf(i) # None, EntryOf(i) # None
  PROVE  \E n \in DOMAIN ManifestOf(i).entries :
           /\ EntryOf(i) = ManifestOf(i).entries[n]
           /\ ManifestOf(i).entries[n].group = site[i].group
           /\ ManifestOf(i).entries[n].name = site[i].name
<1> DEFINE m == ManifestOf(i)
           found == {n \in DOMAIN m.entries :
                       m.entries[n].group = site[i].group /\ m.entries[n].name = site[i].name}
<1>1. found \in SUBSET Nat
  BY ManifestRead, PluginDiscoveryAssumption DEF SiteOk
<1>2. found # {} /\ EntryOf(i) = m.entries[Min(found)]
  BY DEF EntryOf, EntryIn
<1>3. Min(found) \in found
  BY <1>1, <1>2, MinOf
<1>4. QED
  BY <1>2, <1>3

\* What is not skipped is vouched for, unless its version is not that of its manifest: then
\* an error says so.
LEMMA ExaminedSound ==
  ASSUME SiteOk, NEW i \in DOMAIN site,
         ManifestOf(i) # None, ~Examine(i).skip
  PROVE  \/ Vouched(i)
         \/ Error(415, Who(i), "evaluate") \in Examine(i).diags
<1> DEFINE read == LoadManifest(site[i].dist, TRUE)
<1>1. site[i].dist # None /\ read.manifest = ManifestOf(i) /\ read.manifest # None
  BY ManifestRead
<1>2. Examine(i) = Judged(i, read, EntryOf(i))
  BY <1>1 DEF Examine
<1> DEFINE entry == EntryOf(i)
<1>3. /\ entry # None /\ entry.target = site[i].target
      /\ entry.protocol # None => InRange(read.manifest, entry.protocol)
      /\ Examine(i).diags = read.diags
  <2> HIDE DEF read, entry
  <2>1. ~Judged(i, read, entry).skip
    BY <1>2 DEF entry
  <2>2. QED
    BY <1>1, <1>2, <2>1 DEF Judged, entry
<1>4. PICK n \in DOMAIN ManifestOf(i).entries :
        /\ entry = ManifestOf(i).entries[n]
        /\ ManifestOf(i).entries[n].group = site[i].group
        /\ ManifestOf(i).entries[n].name = site[i].name
  BY <1>3, EntryRead
<1>5. CASE site[i].dist.manifest.version = site[i].dist.version
  <2> HIDE DEF read, entry
  <2>1. read.manifest = site[i].dist.manifest /\ ManifestOf(i) = site[i].dist.manifest
    BY <1>1, ManifestRead
  <2>2. QED
    BY <1>1, <1>3, <1>4, <1>5, <2>1, ManifestRead DEF Vouched
<1>6. CASE site[i].dist.manifest.version # site[i].dist.version
  BY <1>3, <1>6, ManifestRead
<1>7. QED
  BY <1>5, <1>6

\* What importlib lists in a group is of the installation.
LEMMA Grouped == \A g : InGroup(g) \subseteq DOMAIN site
BY DEF InGroup

\* Discovery lists what it did not skip and reports what it met.
LEMMA DiscoveredParts ==
  ASSUME NEW g
  PROVE  /\ Discover(g).items \subseteq {i \in InGroup(g) : ~Examine(i).skip}
         /\ \A i \in InGroup(g) : Examine(i).diags \subseteq Discover(g).diags
BY DEF Discover

\* What is left of discovery under a production profile has a true manifest.
LEMMA EvaluatedVouched ==
  ASSUME SiteOk, NEW g, NEW p, Production(p),
         NEW i \in Evaluated(Discover(g), p).items
  PROVE  i \in InGroup(g) /\ Vouched(i)
<1> DEFINE found == Discover(g)
           missing == {j \in found.items : ManifestOf(j) = None}
           diags == found.diags \cup {Error(413, Who(j), "evaluate") : j \in missing}
           blamed == {d.who : d \in {e \in Errors(diags) : e.phase = "evaluate"}}
<1>1. i \in found.items /\ ManifestOf(i) # None /\ Who(i) \notin blamed
  BY DEF Evaluated
<1>2. /\ i \in InGroup(g) /\ i \in DOMAIN site
      /\ ~Examine(i).skip /\ Examine(i).diags \subseteq diags
  BY <1>1, DiscoveredParts, Grouped
<1>3. Error(415, Who(i), "evaluate") \notin diags
  <2>1. /\ Error(415, Who(i), "evaluate").error
        /\ Error(415, Who(i), "evaluate").phase = "evaluate"
        /\ Error(415, Who(i), "evaluate").who = Who(i)
    BY DEF Error
  <2>2. QED
    BY <1>1, <2>1 DEF Errors
<1>4. QED
  BY <1>1, <1>2, <1>3, ExaminedSound

\* What is authorized the allowlist lists, unless it is empty and the profile is not a
\* production one.
LEMMA AuthorizedListed ==
  ASSUME NEW found, NEW p, p # None, NEW i \in Authorize(found, p).items
  PROVE  /\ i \in found.items
         /\ Production(p) => ListedIn(i, p)
         /\ (~Production(p) /\ DOMAIN p.allow = {}) \/ ListedIn(i, p)
<1>1. CASE DOMAIN p.allow = {} /\ ~Production(p)
  BY <1>1 DEF Authorize
<1>2. CASE DOMAIN p.allow = {} /\ Production(p)
  BY <1>2 DEF Authorize
<1>3. CASE DOMAIN p.allow # {}
  <2>1. i \in found.items /\ Listed(i, p)
    BY <1>3 DEF Authorize
  <2>2. ListedIn(i, p)
    BY <2>1 DEF Listed, ListedIn, Admitted, Pinned
  <2>3. QED
    BY <2>1, <2>2
<1>4. QED
  BY <1>1, <1>2, <1>3

\* A stage adds no entry point and forgets no diagnostic.
LEMMA Narrows ==
  ASSUME NEW found, NEW p
  PROVE  /\ Evaluated(found, p).items \subseteq found.items
         /\ Authorize(found, p).items \subseteq found.items
         /\ Probe(found, p).items \subseteq found.items
         /\ found.diags \subseteq Evaluated(found, p).diags
         /\ found.diags \subseteq Authorize(found, p).diags
         /\ found.diags \subseteq Probe(found, p).diags
<1>1. /\ Evaluated(found, p).items \subseteq found.items
      /\ found.diags \subseteq Evaluated(found, p).diags
  BY DEF Evaluated
<1>2. /\ Authorize(found, p).items \subseteq found.items
      /\ found.diags \subseteq Authorize(found, p).diags
  <2>1. CASE p = None \/ (DOMAIN p.allow = {} /\ ~Production(p))
    BY <2>1 DEF Authorize, Production
  <2>2. CASE p # None /\ DOMAIN p.allow = {} /\ Production(p)
    BY <2>2 DEF Authorize
  <2>3. CASE p # None /\ DOMAIN p.allow # {}
    BY <2>3 DEF Authorize
  <2>4. QED
    BY <2>1, <2>2, <2>3
<1>3. /\ Probe(found, p).items \subseteq found.items
      /\ found.diags \subseteq Probe(found, p).diags
  BY DEF Probe
<1>4. QED
  BY <1>1, <1>2, <1>3

\* Loading tries what the stages before it left.
LEMMA LoadedParts ==
  ASSUME NEW g, NEW p
  PROVE  /\ Lifecycle(g, p).tried =
                 Probe(Authorize(Evaluated(Discover(g), p), p), p).items
         /\ Probe(Authorize(Evaluated(Discover(g), p), p), p).diags
              \subseteq Lifecycle(g, p).diags
BY DEF Lifecycle, Load

\* What is loaded is installed; under a production profile it is vouched for and listed,
\* under any other it is listed unless the allowlist is empty.
LEMMA TriedAllowed ==
  ASSUME SiteOk, NEW g, NEW p, NEW i \in Lifecycle(g, p).tried
  PROVE  /\ i \in InGroup(g)
         /\ Production(p) => Vouched(i) /\ ListedIn(i, p)
         /\ p # None => (~Production(p) /\ DOMAIN p.allow = {}) \/ ListedIn(i, p)
<1> DEFINE found == Discover(g)
           left == Evaluated(found, p)
           trusted == Authorize(left, p)
<1>1. i \in Probe(trusted, p).items
  BY LoadedParts
<1>2. i \in trusted.items /\ i \in left.items /\ i \in found.items
  <2> HIDE DEF found, left, trusted
  <2>1. i \in trusted.items
    BY <1>1, Narrows
  <2>2. i \in left.items
    BY <2>1, Narrows DEF trusted
  <2>3. QED
    BY <2>1, <2>2, Narrows DEF left
<1>3. i \in InGroup(g)
  BY <1>2, DiscoveredParts
<1>4. Production(p) => Vouched(i)
  BY <1>2, EvaluatedVouched
<1>5. p # None =>
        /\ Production(p) => ListedIn(i, p)
        /\ (~Production(p) /\ DOMAIN p.allow = {}) \/ ListedIn(i, p)
  BY <1>2, AuthorizedListed
<1>6. QED
  BY <1>3, <1>4, <1>5 DEF Production

\* An error among diagnostics is an error among the errors.
LEMMA ErrorIsError ==
  ASSUME NEW code, NEW who, NEW phase, NEW diags, Error(code, who, phase) \in diags
  PROVE  Errors(diags) # {}
BY DEF Errors, Error

\* Without an error a production profile loads all that is installed.
LEMMA NothingDropped ==
  ASSUME NEW g, NEW p, Production(p), Errors(Lifecycle(g, p).diags) = {}
  PROVE  InGroup(g) \subseteq Lifecycle(g, p).tried
<1> DEFINE found == Discover(g)
           left == Evaluated(found, p)
           trusted == Authorize(left, p)
           last == Probe(trusted, p)
<1>1. /\ last.diags \subseteq Lifecycle(g, p).diags /\ trusted.diags \subseteq last.diags
      /\ left.diags \subseteq trusted.diags /\ found.diags \subseteq left.diags
  <2> HIDE DEF found, left, trusted, last
  <2>1. last.diags \subseteq Lifecycle(g, p).diags
    BY LoadedParts DEF last, trusted, left, found
  <2>2. trusted.diags \subseteq last.diags
    BY Narrows DEF last
  <2>3. left.diags \subseteq trusted.diags
    BY Narrows DEF trusted
  <2>4. QED
    BY <2>1, <2>2, <2>3, Narrows DEF left
<1> HIDE DEF last, trusted, left, found
<1>2. /\ Errors(last.diags) = {} /\ Errors(trusted.diags) = {}
      /\ Errors(left.diags) = {} /\ Errors(found.diags) = {}
  BY <1>1 DEF Errors
<1>3. \A i \in InGroup(g) : i \in found.items
  <2> SUFFICES ASSUME NEW i \in InGroup(g) PROVE i \in found.items
    OBVIOUS
  <2>1. ~Examine(i).skip
    <3>1. Examine(i).diags \subseteq found.diags
      BY DiscoveredParts DEF found
    <3>2. Errors(Examine(i).diags) = {}
      BY <1>2, <3>1 DEF Errors
    <3>3. ASSUME NEW read, NEW entry, Judged(i, read, entry).skip
          PROVE  Errors(Judged(i, read, entry).diags) # {}
      <4>1. PICK code : Error(code, Who(i), "evaluate") \in Judged(i, read, entry).diags
        BY <3>3 DEF Judged
      <4>2. QED
        BY <4>1, ErrorIsError
    <3>4. QED
      BY <3>2, <3>3 DEF Examine
  <2>2. \A k : Error(420, k, "evaluate") \notin found.diags
    BY <1>2, ErrorIsError
  <2> DEFINE sound == {j \in InGroup(g) : ~Examine(j).skip}
             taken == {j \in sound : \E k \in sound : k < j /\ site[k].name = site[j].name}
  <2>3. /\ Discover(g).items = sound \ taken
        /\ {Error(420, site[j].name, "evaluate") : j \in taken} \subseteq Discover(g).diags
    BY DEF Discover
  <2> HIDE DEF taken
  <2>4. QED
    BY <2>1, <2>2, <2>3 DEF found
<1>4. \A i \in found.items : i \in left.items
  <2> SUFFICES ASSUME NEW i \in found.items PROVE i \in left.items
    OBVIOUS
  <2>1. \A k : Error(413, k, "evaluate") \notin left.diags
    BY <1>2, ErrorIsError
  <2>2. ManifestOf(i) # None
    BY <2>1 DEF left, Evaluated
  <2>3. QED
    BY <1>2, <2>2 DEF left, Evaluated, Errors
<1>5. \A i \in left.items : i \in trusted.items
  <2> SUFFICES ASSUME NEW i \in left.items PROVE i \in trusted.items
    OBVIOUS
  <2>1. DOMAIN p.allow # {}
    <3>1. Error(401, "plugin_allowlist", "authorize") \notin trusted.diags
      BY <1>2, ErrorIsError
    <3>2. QED
      BY <3>1 DEF trusted, Authorize, Production
  <2>2. \A k : Error(402, k, "authorize") \notin trusted.diags
    BY <1>2, ErrorIsError
  <2>3. p # None
    BY DEF Production
  <2>4. QED
    BY <2>1, <2>2, <2>3 DEF trusted, Authorize, Severity
<1>6. \A i \in trusted.items : i \in last.items
  <2> SUFFICES ASSUME NEW i \in trusted.items PROVE i \in last.items
    OBVIOUS
  <2>1. \A k : Error(432, k, "probe") \notin last.diags
    BY <1>2, ErrorIsError
  <2>2. QED
    BY <2>1 DEF last, Probe
<1>7. last.items = Lifecycle(g, p).tried
  BY LoadedParts DEF last, trusted, left, found
<1>8. QED
  BY <1>3, <1>4, <1>5, <1>6, <1>7

\* What is loaded under a key was tried and has that key.
LEMMA LoadedKey ==
  ASSUME SiteOk, NEW g, NEW p,
         NEW key \in DOMAIN Lifecycle(g, p).loaded
  PROVE  LET l == Lifecycle(g, p).loaded[key]
         IN  /\ l.ep \in Lifecycle(g, p).tried /\ KeyOf(g, l.ep) = key
             /\ l.at \in InGroup(g)
<1> DEFINE found == Probe(Authorize(Evaluated(Discover(g), p), p), p)
           ok == {i \in found.items : Loads(g, i)}
           Under(k) == {i \in ok : KeyOf(g, i) = k}
<1>1. found.items = Lifecycle(g, p).tried /\ found.items \subseteq InGroup(g)
  BY LoadedParts, TriedAllowed
<1> HIDE DEF found
<1>2. Lifecycle(g, p).loaded = [k \in {KeyOf(g, i) : i \in ok} |->
                                  [ep |-> Max(Under(k)), at |-> Min(Under(k))]]
  BY DEF Lifecycle, Load, found
<1>3. Under(key) # {} /\ Under(key) \in SUBSET DOMAIN site
  BY <1>1, <1>2, Grouped
<1>4. Max(Under(key)) \in Under(key) /\ Min(Under(key)) \in Under(key)
  BY <1>3, Positions
<1>5. QED
  BY <1>1, <1>2, <1>4

\* Two profiles of one key load the same.
LEMMA SameKey ==
  ASSUME NEW p, NEW q, p # None, q # None, ProfileKey(p) = ProfileKey(q), NEW g
  PROVE  Lifecycle(g, p) = Lifecycle(g, q)
<1>1. p.mode = q.mode /\ p.allow = q.allow /\ p.probe = q.probe
  BY DEF ProfileKey
<1>2. Production(p) = Production(q)
  BY <1>1 DEF Production
<1>3. \A found : Evaluated(found, p) = Evaluated(found, q)
  BY <1>2 DEF Evaluated
<1>5. \A i : Listed(i, p) = Listed(i, q)
  BY <1>1 DEF Listed
<1>6. ASSUME NEW found PROVE Authorize(found, p) = Authorize(found, q)
  <2> DEFINE Denied(r) == {i \in found.items : ~Listed(i, r)}
             Rejected(r) == {Severity(r, 402, Who(i), "authorize") : i \in Denied(r)}
  <2>1. Denied(p) = Denied(q)
    BY <1>5
  <2>2. Rejected(p) = Rejected(q)
    BY <1>2, <2>1 DEF Severity
  <2>3. Authorize(found, p) =
          IF DOMAIN p.allow = {} /\ ~Production(p) THEN found
          ELSE IF DOMAIN p.allow = {}
          THEN [items |-> {},
                diags |-> found.diags \cup {Error(401, "plugin_allowlist", "authorize")}]
          ELSE [items |-> found.items \ Denied(p), diags |-> found.diags \cup Rejected(p)]
    BY DEF Authorize
  <2>4. Authorize(found, q) =
          IF DOMAIN q.allow = {} /\ ~Production(q) THEN found
          ELSE IF DOMAIN q.allow = {}
          THEN [items |-> {},
                diags |-> found.diags \cup {Error(401, "plugin_allowlist", "authorize")}]
          ELSE [items |-> found.items \ Denied(q), diags |-> found.diags \cup Rejected(q)]
    BY DEF Authorize
  <2> HIDE DEF Denied, Rejected
  <2>5. QED
    BY <1>1, <1>2, <2>1, <2>2, <2>3, <2>4
<1>7. \A found : Probe(found, p) = Probe(found, q)
  BY <1>1, <1>2 DEF Probe
<1>8. ASSUME NEW found PROVE Load(g, found, p) = Load(g, found, q)
  <2> DEFINE Lost(r) == {Severity(r, 421, Who(i), "load") :
                           i \in found.items \ {j \in found.items : Loads(g, j)}}
  <2>1. Lost(p) = Lost(q)
    BY <1>2 DEF Severity
  <2>2. QED
    BY <2>1 DEF Load
<1>9. QED
  BY <1>3, <1>6, <1>7, <1>8 DEF Lifecycle

\* The groups of the engines of a profile.
DataGroups == {"dataframe", "sql", "spark"}

\* The object a program registered, or a plugin discovery found.
Origin(i, key, hand) == site[i].installed \/ [ep |-> i, engine |-> key] \in hand

\* PluginsOk: what is registered under a name is a plugin of that name, installed or
\* registered by hand under the engine its descriptor was made for.
PluginsOk(reg, hand) ==
  \A n \in DOMAIN reg.plugins :
    LET d == reg.plugins[n]
    IN  d.ep # None =>
          /\ d.ep \in DOMAIN site
          /\ d.name = n /\ n = site[d.ep].code.name
          /\ d.version = site[d.ep].code.version
          /\ \/ site[d.ep].installed
             \/ \E h \in hand : h.ep = d.ep /\ d = Descriptor(site[d.ep].group, h.engine, d.ep)
\* NamesOk: the names of what was registered by hand stay taken, but for session providers.
NamesOk(reg, hand) ==
  \A h \in hand : site[h.ep].group # "provider" =>
                  /\ site[h.ep].code.name \in DOMAIN reg.plugins
                  /\ reg.plugins[site[h.ep].code.name].ep # None
\* EnginesOk: a data engine of the registry has a plugin in the tables, unless it is one
\* that was registered by hand for another engine.
EnginesOk(reg, tables, hand) ==
  \A e \in DOMAIN reg.engines : reg.engines[e] \in DataGroups =>
    \/ e \in DOMAIN tables[reg.engines[e]]
    \/ \E h \in hand : site[h.ep].group = reg.engines[e] /\ site[h.ep].code.engine # h.engine

\* What a registration is given: plugins of the group, at their places.
Given(g, loaded, hand) ==
  \A key \in DOMAIN loaded :
    /\ loaded[key].ep \in DOMAIN site /\ site[loaded[key].ep].group = g
    /\ loaded[key].at \in DOMAIN site
    /\ Origin(loaded[key].ep, key, hand)

\* A registration adds descriptors of what it is given under their names and engines, and
\* removes nothing.
LEMMA RegisterParts ==
  ASSUME SiteOk, NEW reg, NEW g, NEW loaded, NEW hand,
         Given(g, loaded, hand)
  PROVE  LET new == Register(reg, g, loaded)
         IN  /\ DOMAIN reg.plugins \subseteq DOMAIN new.plugins
             /\ \A key \in Reached(loaded) :
                  LET n == Descriptor(g, key, loaded[key].ep).name
                  IN  /\ n \in DOMAIN new.plugins
                      /\ \E k \in Reached(loaded) :
                              new.plugins[n] = Descriptor(g, k, loaded[k].ep)
             /\ \A n \in DOMAIN new.plugins :
                  \/ n \in DOMAIN reg.plugins /\ new.plugins[n] = reg.plugins[n]
                  \/ \E key \in Reached(loaded) :
                       /\ new.plugins[n] = Descriptor(g, key, loaded[key].ep)
                       /\ new.plugins[n].name = n
             /\ \A e \in DOMAIN new.engines :
                  \/ e \in DOMAIN reg.engines /\ new.engines[e] = reg.engines[e]
                  \/ /\ new.engines[e] = g /\ g # "compiler"
                     /\ \E key \in Reached(loaded) :
                             e = Descriptor(g, key, loaded[key].ep).engine
<1> DEFINE Said(key) == Descriptor(g, key, loaded[key].ep)
           names == {Said(key).name : key \in Reached(loaded)}
           engines == {Said(key).engine : key \in Reached(loaded)}
           IsLatest(n, key) == /\ Said(key).name = n
                               /\ \A k \in Reached(loaded) :
                                    Said(k).name = n => loaded[k].at <= loaded[key].at
           Latest(n) == CHOOSE key \in Reached(loaded) : IsLatest(n, key)
<1>1. ASSUME NEW n \in names PROVE Latest(n) \in Reached(loaded) /\ IsLatest(n, Latest(n))
  <2> DEFINE alike == {key \in Reached(loaded) : Said(key).name = n}
             places == {loaded[key].at : key \in alike}
  <2>1. alike # {} /\ alike \subseteq DOMAIN loaded
    BY DEF Reached
  <2>2. places # {} /\ places \in SUBSET DOMAIN site
    BY <2>1 DEF Given
  <2>3. Max(places) \in places /\ \A y \in places : y <= Max(places)
    BY <2>2, Positions
  <2>4. PICK key \in alike : loaded[key].at = Max(places)
    BY <2>3
  <2>5. IsLatest(n, key)
    BY <2>3, <2>4
  <2>6. key \in Reached(loaded)
    BY <2>4
  <2> HIDE DEF IsLatest
  <2>7. \E k \in Reached(loaded) : IsLatest(n, k)
    BY <2>5, <2>6
  <2>8. QED
    BY <2>7, Zenon
<1>2. Register(reg, g, loaded) =
        [plugins |-> [n \in DOMAIN reg.plugins \cup names |->
                        IF n \in names THEN Said(Latest(n)) ELSE reg.plugins[n]],
         engines |-> IF g = "compiler" THEN reg.engines
                     ELSE [e \in DOMAIN reg.engines \cup engines |->
                             IF e \in engines THEN g ELSE reg.engines[e]]]
  BY DEF Register
<1>3. \A n \in names : Latest(n) \in Reached(loaded) /\ Said(Latest(n)).name = n
  BY <1>1
<1> HIDE DEF Latest
<1>4. QED
  BY <1>2, <1>3

\* The fields of a descriptor.
LEMMA DescriptorParts ==
  ASSUME NEW g, NEW key, NEW i
  PROVE  /\ Descriptor(g, key, i).ep = i /\ Descriptor(g, key, i).name = site[i].code.name
         /\ Descriptor(g, key, i).version = site[i].code.version
         /\ g # "scheduler" =>
              Descriptor(g, key, i).engine =
                IF site[i].code.engine # None THEN site[i].code.engine ELSE key
BY DEF Descriptor

\* A registration keeps PluginsOk.
LEMMA RegisterPlugins ==
  ASSUME SiteOk, NEW reg, NEW g, NEW loaded, NEW hand,
         Given(g, loaded, hand), PluginsOk(reg, hand)
  PROVE  PluginsOk(Register(reg, g, loaded), hand)
<1> DEFINE new == Register(reg, g, loaded)
<1> SUFFICES ASSUME NEW n \in DOMAIN new.plugins, new.plugins[n].ep # None
             PROVE  LET d == new.plugins[n]
                    IN  /\ d.ep \in DOMAIN site
                        /\ d.name = n /\ n = site[d.ep].code.name
                        /\ d.version = site[d.ep].code.version
                        /\ \/ site[d.ep].installed
                           \/ \E h \in hand :
                                h.ep = d.ep /\ d = Descriptor(site[d.ep].group, h.engine, d.ep)
  BY DEF PluginsOk
<1>1. CASE n \in DOMAIN reg.plugins /\ new.plugins[n] = reg.plugins[n]
  <2> HIDE DEF new
  <2> QED BY <1>1 DEF PluginsOk
<1>2. ASSUME NEW key \in Reached(loaded),
             new.plugins[n] = Descriptor(g, key, loaded[key].ep),
             new.plugins[n].name = n
      PROVE  LET d == new.plugins[n]
             IN  /\ d.ep \in DOMAIN site
                 /\ d.name = n /\ n = site[d.ep].code.name
                 /\ d.version = site[d.ep].code.version
                 /\ \/ site[d.ep].installed
                    \/ \E h \in hand :
                            h.ep = d.ep /\ d = Descriptor(site[d.ep].group, h.engine, d.ep)
  <2> HIDE DEF new
  <2> DEFINE i == loaded[key].ep
  <2>1. i \in DOMAIN site /\ site[i].group = g /\ Origin(i, key, hand)
    BY <1>2 DEF Reached, Given
  <2>2. /\ new.plugins[n].ep = i /\ new.plugins[n].name = site[i].code.name
        /\ new.plugins[n].version = site[i].code.version
    BY <1>2, DescriptorParts
  <2>3. ~site[i].installed =>
           \E h \in hand : h.ep = i /\ new.plugins[n] = Descriptor(site[i].group, h.engine, i)
    <3> SUFFICES ASSUME ~site[i].installed
                 PROVE  \E h \in hand :
                          h.ep = i /\ new.plugins[n] = Descriptor(site[i].group, h.engine, i)
      OBVIOUS
    <3>1. [ep |-> i, engine |-> key] \in hand
      BY <2>1 DEF Origin
    <3>2. [ep |-> i, engine |-> key].ep = i /\ [ep |-> i, engine |-> key].engine = key
      OBVIOUS
    <3>3. new.plugins[n] = Descriptor(site[i].group, key, i)
      BY <1>2, <2>1
    <3>4. QED
      BY <3>1, <3>2, <3>3
  <2>4. QED
    BY <1>2, <2>1, <2>2, <2>3
<1>3. QED
  BY <1>1, <1>2, RegisterParts

\* A registration keeps NamesOk, and takes the names of what it is given.
LEMMA RegisterNames ==
  ASSUME SiteOk, NEW reg, NEW g, NEW loaded, NEW hand, Given(g, loaded, hand)
  PROVE  LET new == Register(reg, g, loaded)
         IN  /\ \A named : NamesOk(reg, named) => NamesOk(new, named)
             /\ \A key \in Reached(loaded) :
                  LET n == site[loaded[key].ep].code.name
                  IN  n \in DOMAIN new.plugins /\ new.plugins[n].ep # None
<1> DEFINE new == Register(reg, g, loaded)
<1>1. \A key \in Reached(loaded) : Descriptor(g, key, loaded[key].ep).ep # None
  <2> SUFFICES ASSUME NEW key \in Reached(loaded)
               PROVE  Descriptor(g, key, loaded[key].ep).ep # None
    OBVIOUS
  <2>1. loaded[key].ep \in Nat
    BY Positions DEF Reached, Given
  <2>2. QED
    BY <2>1, DescriptorParts, PluginDiscoveryAssumption DEF SiteOk
<1>2. ASSUME NEW n \in DOMAIN reg.plugins, reg.plugins[n].ep # None
      PROVE  n \in DOMAIN new.plugins /\ new.plugins[n].ep # None
  BY <1>1, <1>2, RegisterParts
<1>3. ASSUME NEW named, NamesOk(reg, named) PROVE NamesOk(new, named)
  BY <1>2, <1>3 DEF NamesOk
<1>4. ASSUME NEW key \in Reached(loaded)
      PROVE  /\ site[loaded[key].ep].code.name \in DOMAIN new.plugins
             /\ new.plugins[site[loaded[key].ep].code.name].ep # None
  <2>1. Descriptor(g, key, loaded[key].ep).name = site[loaded[key].ep].code.name
    BY DescriptorParts
  <2>2. QED
    BY <1>1, <2>1, RegisterParts
<1>5. QED
  BY <1>3, <1>4

\* A conforming plugin of a data group declares the engine it is loaded under.
LEMMA EngineIsKey ==
  ASSUME SiteOk, NEW g \in DataGroups, NEW p,
         NEW key \in Reached(Lifecycle(g, p).loaded)
  PROVE  Descriptor(g, key, Lifecycle(g, p).loaded[key].ep).engine = key
<1> DEFINE loaded == Lifecycle(g, p).loaded
           i == loaded[key].ep
<1>1. key \in DOMAIN loaded
  BY DEF Reached
<1>2. KeyOf(g, i) = key /\ loaded[key].at \in Nat
  BY <1>1, LoadedKey, Grouped, Positions
<1>3. site[i].code.conforms
  <2>1. key \notin Infoless(loaded)
    BY <1>2 DEF Reached
  <2>2. QED
    BY <1>1, <2>1 DEF Infoless
<1>4. g # "scheduler" /\ g # "compiler" /\ g # "provider"
  BY DEF DataGroups
<1> HIDE DEF loaded, i
<1>5. site[i].code.engine # None => key = site[i].code.engine
  BY <1>2, <1>3, <1>4 DEF KeyOf
<1>6. QED
  BY <1>4, <1>5, DescriptorParts DEF loaded, i

\* What was loaded may be registered.
LEMMA LoadedGiven ==
  ASSUME SiteOk, NEW g, NEW p, NEW hand
  PROVE  Given(g, Lifecycle(g, p).loaded, hand)
<1> SUFFICES ASSUME NEW key \in DOMAIN Lifecycle(g, p).loaded
             PROVE  LET l == Lifecycle(g, p).loaded[key]
                    IN  /\ l.ep \in DOMAIN site /\ site[l.ep].group = g
                        /\ l.at \in DOMAIN site
                        /\ Origin(l.ep, key, hand)
  BY DEF Given
<1>1. /\ Lifecycle(g, p).loaded[key].ep \in InGroup(g)
      /\ Lifecycle(g, p).loaded[key].at \in InGroup(g)
  BY LoadedKey, TriedAllowed
<1>2. QED
  BY <1>1 DEF InGroup, Origin

\* RegistryOk: the registry knows its plugins, and the tables its engines.
RegistryOk(reg, tables, hand) ==
  PluginsOk(reg, hand) /\ NamesOk(reg, hand) /\ EnginesOk(reg, tables, hand)

\* Registering what was loaded, once the tables have it, keeps the registry sound.
LEMMA RegisterLoaded ==
  ASSUME SiteOk, NEW reg, NEW g, NEW p, NEW tables, NEW hand,
         RegistryOk(reg, tables, hand),
         g \in DataGroups => DOMAIN Lifecycle(g, p).loaded \subseteq DOMAIN tables[g]
  PROVE  RegistryOk(Register(reg, g, Lifecycle(g, p).loaded), tables, hand)
<1> DEFINE loaded == Lifecycle(g, p).loaded
           new == Register(reg, g, loaded)
<1>1. Given(g, loaded, hand)
  BY LoadedGiven
<1>2. PluginsOk(new, hand) /\ NamesOk(new, hand)
  <2>1. PluginsOk(reg, hand) /\ NamesOk(reg, hand)
    BY DEF RegistryOk
  <2>2. QED
    BY <1>1, <2>1, RegisterPlugins, RegisterNames
<1>3. ASSUME NEW e \in DOMAIN new.engines, new.engines[e] \in DataGroups
      PROVE  \/ e \in DOMAIN tables[new.engines[e]]
             \/ \E h \in hand :
                     site[h.ep].group = new.engines[e] /\ site[h.ep].code.engine # h.engine
  <2>1. CASE e \in DOMAIN reg.engines /\ new.engines[e] = reg.engines[e]
    <3> HIDE DEF new
    <3> QED BY <1>3, <2>1 DEF RegistryOk, EnginesOk
  <2>2. CASE /\ new.engines[e] = g
             /\ \E key \in Reached(loaded) :
                  e = Descriptor(g, key, loaded[key].ep).engine
    <3>1. e \in Reached(loaded)
      BY <1>3, <2>2, EngineIsKey
    <3>2. e \in DOMAIN loaded
      BY <3>1 DEF Reached
    <3>3. QED
      BY <1>3, <2>2, <3>2
  <2>3. QED
    BY <1>1, <2>1, <2>2, RegisterParts
<1>4. EnginesOk(new, tables, hand)
  BY <1>3 DEF EnginesOk
<1>5. QED
  BY <1>2, <1>4 DEF RegistryOk

\* TablesOk: a table holds plugins of its group, found by discovery or registered by hand
\* under the key they are at.
TablesOk(tables, hand) ==
  \A g \in TableGroups : \A key \in DOMAIN tables[g] :
    /\ tables[g][key] \in DOMAIN site /\ site[tables[g][key]].group = g
    /\ Origin(tables[g][key], key, hand)
\* ShapeOk: a runtime has a table for every group but that of the compilers.
ShapeOk(rt) ==
  /\ rt = [tables |-> rt.tables, registry |-> rt.registry, configured |-> rt.configured,
            diags |-> rt.diags]
  /\ rt.tables = [g \in TableGroups |-> rt.tables[g]]
\* RuntimeOk: the shape, the tables and the registry of a runtime.
RuntimeOk(rt, hand) ==
  ShapeOk(rt) /\ TablesOk(rt.tables, hand) /\ RegistryOk(rt.registry, rt.tables, hand)
\* The new tables have what the profile loads beside what the old ones have.
Filled(old, new, p) ==
  \A g \in TableGroups : new[g] = SetDefault(old[g], Lifecycle(g, p).loaded)
\* The tables have every engine the profile loads.
LoadedIn(tables, p) ==
  \A g \in DataGroups : DOMAIN Lifecycle(g, p).loaded \subseteq DOMAIN tables[g]
\* Discovery found what the profile loads.
Finds(found, p) == \A g \in Groups : found[g] = Lifecycle(g, p)

\* ConfiguredFor: the runtime has what the profile loads, and knows what went wrong.
ConfiguredFor(rt, p) ==
  /\ \A g \in Groups : Lifecycle(g, p).diags \subseteq rt.diags
  /\ LoadedIn(rt.tables, p)

\* Filling the tables keeps them sound.
LEMMA ConfiguredTables ==
  ASSUME SiteOk, NEW old, NEW new, NEW p, NEW hand,
         TablesOk(old, hand), Filled(old, new, p)
  PROVE  /\ TablesOk(new, hand)
         /\ \A g \in TableGroups :
                 DOMAIN new[g] = DOMAIN old[g] \cup DOMAIN Lifecycle(g, p).loaded
<1> USE DEF Filled
<1>1. ASSUME NEW g \in TableGroups, NEW key \in DOMAIN new[g]
      PROVE  /\ new[g][key] \in DOMAIN site /\ site[new[g][key]].group = g
             /\ Origin(new[g][key], key, hand)
  <2>1. CASE key \in DOMAIN old[g]
    <3>1. new[g][key] = old[g][key]
      BY <2>1 DEF SetDefault
    <3>2. QED
      BY <2>1, <3>1 DEF TablesOk
  <2>2. CASE key \notin DOMAIN old[g]
    <3> DEFINE loaded == Lifecycle(g, p).loaded
    <3>1. new[g] = SetDefault(old[g], loaded)
      OBVIOUS
    <3>2. Given(g, loaded, hand)
      BY LoadedGiven
    <3> HIDE DEF loaded
    <3>3. key \in DOMAIN loaded /\ new[g][key] = loaded[key].ep
      BY <2>2, <3>1 DEF SetDefault
    <3>4. QED
      BY <3>2, <3>3 DEF Given
  <2>3. QED
    BY <2>1, <2>2
<1>2. TablesOk(new, hand)
  BY <1>1 DEF TablesOk
<1>3. \A g \in TableGroups : DOMAIN new[g] = DOMAIN old[g] \cup DOMAIN Lifecycle(g, p).loaded
  BY DEF SetDefault
<1>4. QED
  BY <1>2, <1>3

\* How the sets of groups lie in each other.
LEMMA GroupNames ==
  /\ DataGroups \subseteq TableGroups /\ TableGroups \subseteq Groups
  /\ {"orchestrator", "scheduler", "compiler"} \subseteq Groups
  /\ {"orchestrator", "scheduler", "compiler"} \cap DataGroups = {}
  /\ "scheduler" \in TableGroups
BY DEF DataGroups, TableGroups, Groups, RuntimeGroups

\* Registering every group in turn keeps the registry sound.
LEMMA RegisteredAllOk ==
  ASSUME SiteOk, NEW reg, NEW p, NEW tables, NEW hand,
         NEW found, Finds(found, p),
         RegistryOk(reg, tables, hand),
         LoadedIn(tables, p)
  PROVE  RegistryOk(RegisteredAll(found, reg), tables, hand)
<1> DEFINE With(r, g) == Register(r, g, Lifecycle(g, p).loaded)
           r1 == With(reg, "dataframe")
           r2 == With(r1, "sql")
           r3 == With(r2, "spark")
           r4 == With(r3, "orchestrator")
           r5 == With(r4, "scheduler")
           r6 == With(r5, "compiler")
<1>1. ASSUME NEW g, NEW r, RegistryOk(r, tables, hand)
      PROVE  RegistryOk(With(r, g), tables, hand)
  BY <1>1, RegisterLoaded DEF LoadedIn
<1>2. RegisteredAll(found, reg) = r6
  <2>1. \A g \in {"dataframe", "sql", "spark", "orchestrator", "scheduler", "compiler"} :
          found[g].loaded = Lifecycle(g, p).loaded
    BY DEF Finds, Groups, RuntimeGroups
  <2>2. QED
    BY <2>1, Zenon DEF RegisteredAll
<1> HIDE DEF With, r1, r2, r3, r4, r5, r6
<1>3. RegistryOk(r1, tables, hand)
  BY <1>1 DEF r1
<1>4. RegistryOk(r2, tables, hand)
  BY <1>1, <1>3 DEF r2
<1>5. RegistryOk(r3, tables, hand)
  BY <1>1, <1>4 DEF r3
<1>6. RegistryOk(r4, tables, hand)
  BY <1>1, <1>5 DEF r4
<1>7. RegistryOk(r5, tables, hand)
  BY <1>1, <1>6 DEF r5
<1>8. RegistryOk(r6, tables, hand)
  BY <1>1, <1>7 DEF r6
<1>9. QED
  BY <1>2, <1>8

\* A registry stays sound when tables grow.
LEMMA EnginesGrow ==
  ASSUME NEW reg, NEW tables, NEW more, NEW hand, RegistryOk(reg, tables, hand),
         \A g \in DataGroups : DOMAIN tables[g] \subseteq DOMAIN more[g]
  PROVE  RegistryOk(reg, more, hand)
BY DEF RegistryOk, EnginesOk

\* Configuring keeps the runtime sound, and leaves it configured for the profile.
LEMMA EnsuredOk ==
  ASSUME SiteOk, NEW p, NEW rt, NEW hand, RuntimeOk(rt, hand),
         rt.configured = ProfileKey(p) => ConfiguredFor(rt, p)
  PROVE  /\ RuntimeOk(Ensured(rt, p), hand) /\ ConfiguredFor(Ensured(rt, p), p)
<1>1. CASE rt.configured = ProfileKey(p)
  BY <1>1 DEF Ensured
<1>2. CASE rt.configured # ProfileKey(p)
  <2> DEFINE found == [g \in Groups |-> Lifecycle(g, p)]
             new == Ensured(rt, p)
  <2>1. /\ new.tables = [g \in TableGroups |-> SetDefault(rt.tables[g], found[g].loaded)]
        /\ new.registry = RegisteredAll(found, rt.registry)
        /\ new.diags = FoundDiags(found)
    BY <1>2 DEF Ensured, Configured
  <2>2. Finds(found, p)
    BY DEF Finds
  <2>10. ShapeOk(new)
    BY <1>2 DEF Ensured, Configured, ShapeOk
  <2> HIDE DEF new, found
  <2>3. Filled(rt.tables, new.tables, p)
    BY <2>1, <2>2, GroupNames DEF Filled, Finds
  <2>4. /\ TablesOk(new.tables, hand)
        /\ \A g \in TableGroups :
             DOMAIN new.tables[g] = DOMAIN rt.tables[g] \cup DOMAIN Lifecycle(g, p).loaded
    <3>1. TablesOk(rt.tables, hand)
      BY DEF RuntimeOk
    <3>2. QED
      BY <2>3, <3>1, ConfiguredTables
  <2>5. RegistryOk(rt.registry, new.tables, hand)
    <3>1. RegistryOk(rt.registry, rt.tables, hand)
      BY DEF RuntimeOk
    <3>2. \A g \in DataGroups : DOMAIN rt.tables[g] \subseteq DOMAIN new.tables[g]
      BY <2>4, GroupNames
    <3>3. QED
      BY <3>1, <3>2, EnginesGrow
  <2>6. RegistryOk(new.registry, new.tables, hand)
    <3>1. LoadedIn(new.tables, p)
      BY <2>4, GroupNames DEF LoadedIn
    <3>2. QED
      BY <2>1, <2>2, <2>5, <3>1, RegisteredAllOk
  <2>7. \A g \in Groups : Lifecycle(g, p).diags \subseteq new.diags
    BY <2>1, <2>2 DEF FoundDiags, Finds
  <2>8. ConfiguredFor(new, p)
    BY <2>4, <2>7, GroupNames DEF ConfiguredFor, LoadedIn
  <2>9. QED
    BY <2>10, <2>4, <2>6, <2>8 DEF RuntimeOk, new
<1>3. QED
  BY <1>1, <1>2

\* A planning context has registered some of the groups, in order.
LEMMA ContextParts ==
  ASSUME NEW p, NEW reg
  PROVE  \E groups \in SUBSET {"dataframe", "sql", "spark", "compiler"} :
           LET With(r, g) ==
                IF g \in groups THEN Register(r, g, Lifecycle(g, p).loaded) ELSE r
           IN  /\ Context(p, reg).registry =
                    With(With(With(With(reg, "dataframe"), "sql"), "spark"), "compiler")
               /\ Context(p, reg).tried = UNION {Lifecycle(g, p).tried : g \in groups}
<1> DEFINE asked == IF NeedsDiscovery(p, reg) THEN Asked(p) ELSE {}
           found == [g \in asked |-> Lifecycle(g, p)]
           groups == UpToBroken(asked, found)
           With(r, g) == IF g \in groups THEN Register(r, g, Lifecycle(g, p).loaded) ELSE r
           Used(r, g) == IF g \in groups THEN Register(r, g, found[g].loaded) ELSE r
<1>1. asked \subseteq {"dataframe", "sql", "spark", "compiler"}
  BY DEF Asked
<1>2. groups \subseteq asked
  BY DEF UpToBroken
<1>3. \A g \in groups : found[g] = Lifecycle(g, p)
  BY <1>2
<1>4. Context(p, reg) = ContextOf(p, reg, asked, found)
  BY DEF Context
<1>5. /\ ContextOf(p, reg, asked, found).registry =
           Used(Used(Used(Used(reg, "dataframe"), "sql"), "spark"), "compiler")
      /\ ContextOf(p, reg, asked, found).tried = UNION {found[g].tried : g \in groups}
  BY DEF ContextOf
<1> HIDE DEF groups, found, asked
<1>6. \A r, g : Used(r, g) = With(r, g)
  BY <1>3
<1>7. UNION {found[g].tried : g \in groups} = UNION {Lifecycle(g, p).tried : g \in groups}
  BY <1>3
<1> HIDE DEF Used
<1>8. Context(p, reg).registry =
           With(With(With(With(reg, "dataframe"), "sql"), "spark"), "compiler")
  BY <1>4, <1>5, <1>6
<1>9. QED
  BY <1>1, <1>2, <1>4, <1>5, <1>7, <1>8

\* A planning context of a sound registry has a sound one.
LEMMA ContextOk ==
  ASSUME SiteOk, NEW reg, NEW p, NEW tables, NEW hand,
         RegistryOk(reg, tables, hand),
         LoadedIn(tables, p)
  PROVE  /\ RegistryOk(Context(p, reg).registry, tables, hand)
         /\ \A i \in Context(p, reg).tried : \E g \in Groups : i \in Lifecycle(g, p).tried
<1>1. PICK groups \in SUBSET {"dataframe", "sql", "spark", "compiler"} :
        LET With(r, g) == IF g \in groups THEN Register(r, g, Lifecycle(g, p).loaded) ELSE r
        IN  /\ Context(p, reg).registry =
                 With(With(With(With(reg, "dataframe"), "sql"), "spark"), "compiler")
            /\ Context(p, reg).tried = UNION {Lifecycle(g, p).tried : g \in groups}
  BY ContextParts
<1> DEFINE With(r, g) == IF g \in groups THEN Register(r, g, Lifecycle(g, p).loaded) ELSE r
           r1 == With(reg, "dataframe")
           r2 == With(r1, "sql")
           r3 == With(r2, "spark")
           r4 == With(r3, "compiler")
<1>2. ASSUME NEW g, NEW r, RegistryOk(r, tables, hand)
      PROVE  RegistryOk(With(r, g), tables, hand)
  BY <1>2, RegisterLoaded DEF LoadedIn
<1>3. Context(p, reg).registry = r4
  BY <1>1, Zenon
<1> HIDE DEF With, r1, r2, r3, r4
<1>4. RegistryOk(r1, tables, hand)
  BY <1>2 DEF r1
<1>5. RegistryOk(r2, tables, hand)
  BY <1>2, <1>4 DEF r2
<1>6. RegistryOk(r3, tables, hand)
  BY <1>2, <1>5 DEF r3
<1>7. RegistryOk(r4, tables, hand)
  BY <1>2, <1>6 DEF r4
<1>8. groups \subseteq Groups
  BY DEF Groups, RuntimeGroups
<1>9. QED
  BY <1>1, <1>3, <1>7, <1>8

\* HandOk: what was registered by hand is of this process.
HandOk == \A h \in byHand : h = [ep |-> h.ep, engine |-> h.engine] /\ h.ep \in DOMAIN site
\* KnownOk: a runtime configured for a profile has what the profile loads.
KnownOk == \A p \in Profiles : runtime.configured = ProfileKey(p) => ConfiguredFor(runtime, p)
\* The inductive invariant.
DiscoveryInv ==
  /\ SiteOk /\ HandOk
  /\ RuntimeOk(runtime, byHand) /\ KnownOk
  /\ ProductionUsesAllowed /\ LoadedIsAuthorized

\* A fresh process satisfies it.
LEMMA InitDiscovery == ASSUME DiscoveryInit PROVE DiscoveryInv
<1> USE DEF DiscoveryInit
<1>1. SiteOk
  BY DEF SiteOk
<1>2. HandOk /\ KnownOk
  BY PluginDiscoveryAssumption DEF HandOk, KnownOk, Fresh, ProfileKey
<1>3. TablesOk(runtime.tables, byHand) /\ ShapeOk(runtime)
  BY DEF TablesOk, ShapeOk, Fresh
<1>4. /\ DOMAIN runtime.registry.plugins = Builtin
      /\ \A n \in Builtin : runtime.registry.plugins[n].ep = None
      /\ \A e \in DOMAIN runtime.registry.engines : runtime.registry.engines[e] = "core"
  BY DEF Fresh, Stub
<1>5. PluginsOk(runtime.registry, byHand)
  BY <1>4 DEF PluginsOk
<1>6. NamesOk(runtime.registry, byHand)
  BY DEF NamesOk
<1>7. EnginesOk(runtime.registry, runtime.tables, byHand)
  BY <1>4 DEF EnginesOk, DataGroups
<1>8. ProductionUsesAllowed /\ LoadedIsAuthorized
  BY DEF ProductionUsesAllowed, LoadedIsAuthorized
<1>9. QED
  BY <1>1, <1>2, <1>3, <1>5, <1>6, <1>7, <1>8 DEF DiscoveryInv, RuntimeOk, RegistryOk

\* A profile is not the absence of one.
LEMMA Unclear ==
  ASSUME SiteOk, NEW p \in Profiles
  PROVE  p # None
BY PluginDiscoveryAssumption DEF SiteOk

\* Only code the profile admits is tried.
LEMMA TriedAuthorized ==
  ASSUME SiteOk, NEW p \in Profiles, NEW g, NEW i \in Lifecycle(g, p).tried
  PROVE  \/ ~Production(p) /\ DOMAIN p.allow = {}
         \/ ListedIn(i, p) /\ (Production(p) => Vouched(i))
BY TriedAllowed, Unclear

\* A run without an error in discovery admits everything that is installed.
LEMMA InstalledAllowed ==
  ASSUME SiteOk, NEW p \in Profiles, NEW rt, ConfiguredFor(rt, p), Errors(rt.diags) = {},
         Production(p), NEW i \in DOMAIN site, site[i].installed
  PROVE  Vouched(i) /\ ListedIn(i, p)
<1> DEFINE g == site[i].group
<1>1. g \in Groups /\ i \in InGroup(g)
  BY PluginDiscoveryAssumption DEF SiteOk, InGroup
<1> HIDE DEF g
<1>2. Errors(Lifecycle(g, p).diags) = {}
  BY <1>1 DEF ConfiguredFor, Errors
<1>3. i \in Lifecycle(g, p).tried
  BY <1>1, <1>2, NothingDropped
<1>4. QED
  BY <1>3, TriedAllowed

\* What trust lets pass of the plugins registered by hand.
LEMMA TrustSees ==
  ASSUME SiteOk, NEW p, Production(p), NEW reg, PluginsOk(reg, byHand), NamesOk(reg, byHand),
         Errors(Trust(p, reg)) = {},
         NEW h \in byHand, h.ep \in DOMAIN site, ~site[h.ep].installed
  PROVE  Overlooked(h.ep, p)
<1>6. CASE site[h.ep].group = "provider"
  BY <1>6 DEF Overlooked
<1>7. SUFFICES ASSUME site[h.ep].group # "provider" PROVE Overlooked(h.ep, p)
  BY <1>6
<1> DEFINE i == h.ep
           n == site[i].code.name
           d == reg.plugins[n]
<1>1. n \in DOMAIN reg.plugins /\ d.ep # None
  BY <1>7 DEF NamesOk
<1>2. /\ d.ep \in DOMAIN site /\ d.name = n /\ n = site[d.ep].code.name
      /\ d.version = site[d.ep].code.version
      /\ \/ site[d.ep].installed
         \/ \E k \in byHand : k.ep = d.ep /\ d = Descriptor(site[d.ep].group, k.engine, d.ep)
  BY <1>1 DEF PluginsOk
<1>3. CASE d.ep # i
  <2>1. Descriptor(site[i].group, h.engine, i).name = n
    BY DescriptorParts
  <2>2. d.ep \in DOMAIN site \ {i} /\ site[d.ep].code.name = n
    BY <1>2, <1>3
  <2> HIDE DEF d, n
  <2>3. QED
    BY <2>1, <2>2 DEF Overlooked
<1>4. CASE d.ep = i
  <2>1. PICK k \in byHand : k.ep = i /\ d = Descriptor(site[i].group, k.engine, i)
    BY <1>2, <1>4
  <2>2. {d.name, d.engine} \cap EnginesOf(p) = {} \/ d \in Selected(p, reg)
    BY <1>1 DEF Selected
  <2>3. DOMAIN p.allow # {}
    <3>1. Error(401, "plugin_allowlist", "trust") \notin Trust(p, reg)
      BY ErrorIsError
    <3>2. QED
      BY <3>1 DEF Trust
  <2>4. d \in Selected(p, reg) => Admitted(d.name, d.version, p.allow)
    <3>1. Error(402, d.name, "trust") \notin Trust(p, reg)
      BY ErrorIsError
    <3>2. Trust(p, reg) = {Error(402, e.name, "trust") :
                             e \in {f \in Selected(p, reg) :
                                  ~Admitted(f.name, f.version, p.allow)}}
      BY <2>3 DEF Trust, Severity
    <3> HIDE DEF d
    <3>3. QED
      BY <3>1, <3>2
  <2>5. Admitted(d.name, d.version, p.allow) => Pinned(d.name, d.version, p.allow)
    BY DEF Admitted, Pinned
  <2> HIDE DEF d, n
  <2>6. QED
    BY <2>1, <2>2, <2>4, <2>5 DEF Overlooked
<1>5. QED
  BY <1>3, <1>4

\* What a table holds is installed, or what trust sees of it is admitted.
LEMMA TableAllowed ==
  ASSUME SiteOk, HandOk, NEW p \in Profiles, Production(p), NEW rt, NEW reg,
         ConfiguredFor(rt, p), Errors(rt.diags) = {}, TablesOk(rt.tables, byHand),
         PluginsOk(reg, byHand), NamesOk(reg, byHand), Errors(Trust(p, reg)) = {},
         NEW g \in TableGroups, NEW key \in DOMAIN rt.tables[g]
  PROVE  LET i == rt.tables[g][key]
         IN  (site[i].installed /\ Vouched(i) /\ ListedIn(i, p)) \/ Overlooked(i, p)
<1> DEFINE i == rt.tables[g][key]
<1>1. i \in DOMAIN site /\ (site[i].installed \/ [ep |-> i, engine |-> key] \in byHand)
  BY DEF TablesOk, Origin
<1> HIDE DEF i
<1>2. CASE site[i].installed
  BY <1>1, <1>2, InstalledAllowed DEF i
<1>3. CASE ~site[i].installed
  <2>1. [ep |-> i, engine |-> key] \in byHand /\ [ep |-> i, engine |-> key].ep = i
    BY <1>1, <1>3
  <2>2. Overlooked(i, p)
    BY <1>1, <1>3, <2>1, TrustSees
  <2>3. QED
    BY <2>2 DEF i
<1>4. QED
  BY <1>2, <1>3

\* A lookup finds an entry of the table, or the engine is not there.
LEMMA LookupParts ==
  ASSUME NEW dict, NEW engine
  PROVE  \/ \E key \in DOMAIN dict : Lookup(dict, engine) = dict[key]
         \/ Lookup(dict, engine) = None /\ engine \notin DOMAIN dict
<1> DEFINE known == {n \in DOMAIN Aliases(engine) : Aliases(engine)[n] \in DOMAIN dict}
<1>1. /\ DOMAIN Aliases(engine) \in SUBSET Nat
      /\ 1 \in DOMAIN Aliases(engine) /\ Aliases(engine)[1] = engine
  <2>1. CASE engine = "spark"
    BY <2>1 DEF Aliases
  <2>2. CASE engine = "pyspark"
    BY <2>2 DEF Aliases
  <2>3. CASE engine # "spark" /\ engine # "pyspark"
    BY <2>3 DEF Aliases
  <2>4. QED
    BY <2>1, <2>2, <2>3
<1>2. CASE known = {}
  BY <1>1, <1>2 DEF Lookup
<1>3. CASE known # {}
  <2>1. Min(known) \in known
    BY <1>1, <1>3, MinOf
  <2>2. Lookup(dict, engine) = dict[Aliases(engine)[Min(known)]]
    BY <1>3 DEF Lookup
  <2>3. QED
    BY <2>1, <2>2
<1>4. QED
  BY <1>2, <1>3

\* A run opens a group whose engine no table has only when the registry was told of the
\* engine by a plugin registered for another.
LEMMA OpenedByHand ==
  ASSUME SiteOk, NEW p, NEW tables, NEW reg, TablesOk(tables, byHand),
         EnginesOk(reg, tables, byHand), Supported(p, reg), Open(p, tables)
  PROVE  \E h \in byHand : site[h.ep].group = Family(p) /\ site[h.ep].code.engine # h.engine
<1>1. Family(p) \in DataGroups /\ Family(p) \in TableGroups
  BY GroupNames DEF Family, DataGroups
<1>2. Primary(p) \in DOMAIN reg.engines /\ reg.engines[Primary(p)] = Family(p)
  BY DEF Supported, Open, NonEngine
<1>3. Primary(p) \notin DOMAIN tables[Family(p)]
  <2>1. Lookup(tables[Family(p)], Primary(p)) = None
    BY DEF Open
  <2>2. \A key \in DOMAIN tables[Family(p)] : tables[Family(p)][key] # None
    <3>1. \A key \in DOMAIN tables[Family(p)] : tables[Family(p)][key] \in Nat
      BY <1>1, Positions DEF TablesOk
    <3>2. QED
      BY <3>1, PluginDiscoveryAssumption DEF SiteOk
  <2>3. QED
    BY <2>1, <2>2, LookupParts
<1>4. QED
  BY <1>1, <1>2, <1>3 DEF EnginesOk

\* The site is never written: nothing that is read from it alone changes.
LEMMA EntriesStay ==
  ASSUME site' = site, NEW i
  PROVE  /\ Who(i)' = Who(i) /\ Version(i)' = Version(i)
         /\ ManifestOf(i)' = ManifestOf(i) /\ EntryOf(i)' = EntryOf(i)
         /\ Examine(i)' = Examine(i) /\ StaticNames(i)' = StaticNames(i)
         /\ Vouched(i)' = Vouched(i)
<1>1. /\ Who(i)' = Who(i) /\ Version(i)' = Version(i)
      /\ ManifestOf(i)' = ManifestOf(i)
  BY DEF Who, Version, ManifestOf
<1>2. EntryOf(i)' = EntryOf(i)
  BY <1>1 DEF EntryOf, EntryIn
<1>3. Examine(i)' = Examine(i)
  BY <1>1, <1>2 DEF Examine, Judged
<1>4. StaticNames(i)' = StaticNames(i)
  BY <1>1, <1>2 DEF StaticNames
<1>5. Vouched(i)' = Vouched(i)
  BY DEF Vouched
<1>6. QED
  BY <1>1, <1>2, <1>3, <1>4, <1>5

\* Neither do groups, ...
LEMMA GroupsStay ==
  ASSUME site' = site, NEW g
  PROVE  InGroup(g)' = InGroup(g)
BY DEF InGroup

\* ... nor what discovery finds, ...
LEMMA DiscoverStays ==
  ASSUME site' = site, NEW g
  PROVE  Discover(g)' = Discover(g)
<1> DEFINE sound == {i \in InGroup(g) : ~Examine(i).skip}
           taken == {i \in sound : \E j \in sound : j < i /\ site[j].name = site[i].name}
           read == {Examine(i).diags : i \in InGroup(g)}
           late == {Error(420, site[i].name, "evaluate") : i \in taken}
<1>1. sound' = sound
  BY EntriesStay, GroupsStay
<1>2. taken' = taken
  <2> HIDE DEF sound
  <2> QED BY <1>1
<1>3. read' = read
  BY EntriesStay, GroupsStay
<1>4. late' = late
  <2> HIDE DEF taken
  <2> QED BY <1>2
<1>5. Discover(g) = [items |-> sound \ taken, diags |-> (UNION read) \cup late]
  BY DEF Discover
<1>6. Discover(g)' = [items |-> sound' \ taken', diags |-> (UNION read') \cup late']
  BY DEF Discover
<1>7. QED
  <2> HIDE DEF sound, taken, read, late
  <2> QED BY <1>1, <1>2, <1>3, <1>4, <1>5, <1>6

\* ... nor how it is judged, ...
LEMMA JudgementsStay ==
  ASSUME site' = site, NEW found, NEW p
  PROVE  /\ Evaluated(found, p)' = Evaluated(found, p)
         /\ Authorize(found, p)' = Authorize(found, p)
         /\ Probe(found, p)' = Probe(found, p)
<1>1. Evaluated(found, p)' = Evaluated(found, p)
  <2> DEFINE missing == {i \in found.items : ManifestOf(i) = None}
             late == {Error(413, Who(i), "evaluate") : i \in missing}
             diags == found.diags \cup late
             blamed == {d.who : d \in {e \in Errors(diags) : e.phase = "evaluate"}}
             kept == {i \in found.items :
                  i \notin missing /\ {Who(i), site[i].name} \cap blamed = {}}
  <2>1. missing' = missing
    BY EntriesStay
  <2>2. late' = late
    <3> HIDE DEF missing
    <3> QED BY <2>1, EntriesStay
  <2>3. diags' = diags
    <3> HIDE DEF late
    <3> QED BY <2>2
  <2>4. blamed' = blamed
    <3> HIDE DEF diags
    <3>1. Errors(diags)' = Errors(diags)
      BY <2>3 DEF Errors
    <3>2. QED
      BY <3>1
  <2>5. kept' = kept
    <3> HIDE DEF missing, blamed
    <3> QED BY <2>1, <2>4, EntriesStay
  <2>6. Evaluated(found, p) =
          IF Production(p) THEN [items |-> kept, diags |-> diags] ELSE found
    BY DEF Evaluated
  <2>7. Evaluated(found, p)' =
          IF Production(p) THEN [items |-> kept', diags |-> diags'] ELSE found
    BY DEF Evaluated, Production
  <2>8. QED
    <3> HIDE DEF kept, diags
    <3> QED BY <2>3, <2>5, <2>6, <2>7
<1>2. Authorize(found, p)' = Authorize(found, p)
  <2> DEFINE denied == {i \in found.items : ~Listed(i, p)}
             rejected == {Severity(p, 402, Who(i), "authorize") : i \in denied}
             none == Error(401, "plugin_allowlist", "authorize")
  <2>1. denied' = denied
    BY EntriesStay DEF Listed
  <2>2. rejected' = rejected
    <3> HIDE DEF denied
    <3> QED BY <2>1, EntriesStay DEF Severity, Production
  <2>3. Authorize(found, p) =
          IF p = None \/ (DOMAIN p.allow = {} /\ ~Production(p)) THEN found
          ELSE IF DOMAIN p.allow = {} THEN [items |-> {}, diags |-> found.diags \cup {none}]
          ELSE [items |-> found.items \ denied, diags |-> found.diags \cup rejected]
    BY DEF Authorize, Production
  <2>4. Authorize(found, p)' =
          IF p = None \/ (DOMAIN p.allow = {} /\ ~Production(p)) THEN found
          ELSE IF DOMAIN p.allow = {} THEN [items |-> {}, diags |-> found.diags \cup {none}]
          ELSE [items |-> found.items \ denied', diags |-> found.diags \cup rejected']
    BY DEF Authorize, Production
  <2>5. QED
    <3> HIDE DEF denied, rejected
    <3> QED BY <2>1, <2>2, <2>3, <2>4
<1>3. Probe(found, p)' = Probe(found, p)
  <2> DEFINE failed == {i \in found.items : ~ProbeOk(i)}
             named == {Error(432, site[i].name, "probe") : i \in failed}
             owned == IF Production(p)
                      THEN {Error(432, Who(i), "probe") : i \in failed} ELSE {}
  <2>1. \A i : ProbeOk(i)' = ProbeOk(i)
    <3> SUFFICES ASSUME NEW i PROVE ProbeOk(i)' = ProbeOk(i)
      OBVIOUS
    <3> DEFINE same == {j \in InGroup(site[i].group) : site[j].name = site[i].name}
    <3>1. same' = same
      BY DEF InGroup
    <3>2. QED
      <4>1. ProbeOk(i) = (/\ site[Min(same)].target = site[i].target
                             /\ site[Min(same)].code.probe)
        BY DEF ProbeOk
      <4>2. ProbeOk(i)' = (/\ site[Min(same')].target = site[i].target
                              /\ site[Min(same')].code.probe)
        BY DEF ProbeOk
      <4> HIDE DEF same
      <4>3. QED
        BY <3>1, <4>1, <4>2
  <2>2. failed' = failed
    BY <2>1
  <2>3. named' = named
    <3> HIDE DEF failed
    <3> QED BY <2>2
  <2>4. owned' = owned
    <3> HIDE DEF failed
    <3> QED BY <2>2, EntriesStay DEF Production
  <2>5. Probe(found, p) =
          IF p = None \/ ~p.probe THEN found
          ELSE [items |-> IF Production(p) THEN found.items \ failed ELSE found.items,
                diags |-> found.diags \cup (named \cup owned)]
    BY DEF Probe
  <2>6. Probe(found, p)' =
          IF p = None \/ ~p.probe THEN found
          ELSE [items |-> IF Production(p) THEN found.items \ failed' ELSE found.items,
                diags |-> found.diags \cup (named' \cup owned')]
    BY DEF Probe, Production
  <2>7. QED
    <3> HIDE DEF failed, named, owned
    <3> QED BY <2>2, <2>3, <2>4, <2>5, <2>6
<1>4. QED
  BY <1>1, <1>2, <1>3

\* ... nor what loads, ...
LEMMA LoadStays ==
  ASSUME site' = site, NEW g, NEW found, NEW p
  PROVE  Load(g, found, p)' = Load(g, found, p)
<1>1. \A i : KeyOf(g, i)' = KeyOf(g, i) /\ Loads(g, i)' = Loads(g, i)
  BY EntriesStay DEF KeyOf, Loads
<1> DEFINE ok == {i \in found.items : Loads(g, i)}
           Under(key) == {i \in ok : KeyOf(g, i) = key}
           keys == {KeyOf(g, i) : i \in ok}
           loaded == [key \in keys |-> [ep |-> Max(Under(key)), at |-> Min(Under(key))]]
           lost == {Severity(p, 421, Who(i), "load") : i \in found.items \ ok}
<1>2. ok' = ok
  BY <1>1
<1>3. keys' = keys /\ lost' = lost
  <2> HIDE DEF ok
  <2>1. keys' = keys
    BY <1>1, <1>2
  <2>2. lost' = lost
    BY <1>2, EntriesStay DEF Severity, Production
  <2>3. QED
    BY <2>1, <2>2
<1>4. \A key : Under(key)' = Under(key)
  <2> HIDE DEF ok
  <2> QED BY <1>1, <1>2
<1>5. loaded' = loaded
  <2> HIDE DEF keys, Under
  <2> QED BY <1>3, <1>4
<1>6. Load(g, found, p) =
           [loaded |-> loaded, tried |-> found.items, diags |-> found.diags \cup lost]
  BY DEF Load
<1>7. Load(g, found, p)' =
           [loaded |-> loaded', tried |-> found.items, diags |-> found.diags \cup lost']
  BY DEF Load
<1>8. QED
  <2> HIDE DEF loaded, lost
  <2> QED BY <1>3, <1>5, <1>6, <1>7

\* ... nor the whole of it.
LEMMA LifecycleStays ==
  ASSUME site' = site, NEW g, NEW p
  PROVE  Lifecycle(g, p)' = Lifecycle(g, p)
BY DiscoverStays, JudgementsStay, LoadStays DEF Lifecycle

\* What is listed and vouched for stays so; so do descriptors.
LEMMA ListedStays ==
  ASSUME site' = site
  PROVE  \A i, p : ListedIn(i, p)' = ListedIn(i, p) /\ Vouched(i)' = Vouched(i)
BY EntriesStay DEF ListedIn

LEMMA DescriptorStays ==
  ASSUME site' = site, NEW g, NEW key, NEW i
  PROVE  Descriptor(g, key, i)' = Descriptor(g, key, i)
BY DEF Descriptor

\* The parts of the invariant after a step, from what is true of the new runtime in the
\* old installation.
LEMMA RuntimeStays ==
  ASSUME site' = site, RuntimeOk(runtime', byHand')
  PROVE  RuntimeOk(runtime, byHand)'
<1>1. TablesOk(runtime.tables, byHand)' /\ ShapeOk(runtime)'
  BY DEF RuntimeOk, TablesOk, Origin, ShapeOk
<1>2. PluginsOk(runtime.registry, byHand)'
  <2>1. PluginsOk(runtime'.registry, byHand')
    BY DEF RuntimeOk, RegistryOk
  <2>2. QED
    BY <2>1, DescriptorStays DEF PluginsOk
<1>3. NamesOk(runtime.registry, byHand)' /\ EnginesOk(runtime.registry, runtime.tables, byHand)'
  BY DEF RuntimeOk, RegistryOk, NamesOk, EnginesOk
<1>4. QED
  BY <1>1, <1>2, <1>3 DEF RuntimeOk, RegistryOk

LEMMA KnownStays ==
  ASSUME site' = site,
         \A p \in Profiles : runtime'.configured = ProfileKey(p) => ConfiguredFor(runtime', p)
  PROVE  KnownOk'
BY LifecycleStays DEF KnownOk, ConfiguredFor, LoadedIn, ProfileKey

LEMMA AllowedStays ==
  ASSUME site' = site, byHand \subseteq byHand',
         outcome'.verdict = "ran" /\ Production(outcome'.profile) =>
           \A i \in outcome'.parts :
             \/ site[i].installed /\ Vouched(i) /\ ListedIn(i, outcome'.profile)
             \/ Overlooked(i, outcome'.profile)
  PROVE  ProductionUsesAllowed'
<1>1. Production(outcome.profile)' = Production(outcome'.profile)
  BY DEF Production
<1>2. \A i : /\ Vouched(i)' = Vouched(i)
             /\ ListedIn(i, outcome.profile)' = ListedIn(i, outcome'.profile)
  BY EntriesStay DEF ListedIn
<1>3. ASSUME NEW i, Overlooked(i, outcome'.profile) PROVE Overlooked(i, outcome.profile)'
  BY <1>3 DEF Overlooked, EnginesOf, Pinned, Descriptor
<1>4. QED
  BY <1>1, <1>2, <1>3 DEF ProductionUsesAllowed

\* What LoadedIsAuthorized asks of one import.
Authorized(i, profiles, hand) ==
  \/ i \in {h.ep : h \in hand}
  \/ \E p \in profiles : \/ ~Production(p) /\ DOMAIN p.allow = {}
                         \/ ListedIn(i, p) /\ (Production(p) => Vouched(i))
  \/ \E h \in hand : /\ site[h.ep].group = site[i].group /\ site[i].group # "provider"
                    /\ site[h.ep].code.engine # h.engine
  \/ site[i].group = "provider" /\ \E p \in profiles : ~Production(p) /\ Family(p) = "spark"

LEMMA AuthorizedStays ==
  ASSUME site' = site, byHand \subseteq byHand', used \subseteq used', LoadedIsAuthorized,
         \A i \in imported' \ imported : Authorized(i, used', byHand')
  PROVE  LoadedIsAuthorized'
<1>1. \A i \in imported' : Authorized(i, used', byHand')
  BY DEF LoadedIsAuthorized, Authorized
<1>2. ASSUME NEW i \in imported', i \notin {h.ep : h \in byHand'}
      PROVE  \/ \E p \in used' :
                  \/ ~Production(p) /\ DOMAIN p.allow = {}
                  \/ ListedIn(i, p)' /\ (Production(p) => Vouched(i)')
             \/ \E h \in byHand' : /\ site[h.ep].group = site[i].group
                                  /\ site[i].group # "provider"
                                  /\ site[h.ep].code.engine # h.engine
             \/ /\ site[i].group = "provider"
                /\ \E p \in used' : ~Production(p) /\ Family(p) = "spark"
  <2>1. Authorized(i, used', byHand')
    BY <1>1
  <2>2. \A p : ListedIn(i, p)' = ListedIn(i, p) /\ Vouched(i)' = Vouched(i)
    BY ListedStays
  <2>3. QED
    BY <1>2, <2>1, <2>2 DEF Authorized
<1>3. QED
  BY <1>1, <1>2 DEF LoadedIsAuthorized, Production, Family

\* Configured for a profile is configured for every profile of its key.
LEMMA ConfiguredLike ==
  ASSUME NEW p \in Profiles, NEW q \in Profiles, SiteOk, ProfileKey(p) = ProfileKey(q),
         NEW rt,
         ConfiguredFor(rt, p)
  PROVE  ConfiguredFor(rt, q)
<1>1. \A g : Lifecycle(g, p) = Lifecycle(g, q)
  BY Unclear, SameKey
<1>2. QED
  BY <1>1 DEF ConfiguredFor, LoadedIn

\* What a runtime says it is configured for it is.
LEMMA EnsuredKnown ==
  ASSUME SiteOk, KnownOk, NEW p \in Profiles, NEW q \in Profiles, RuntimeOk(runtime, byHand),
         Ensured(runtime, p).configured = ProfileKey(q)
  PROVE  ConfiguredFor(Ensured(runtime, p), q)
<1>1. CASE runtime.configured = ProfileKey(p)
  BY <1>1 DEF Ensured, KnownOk
<1>2. CASE runtime.configured # ProfileKey(p)
  <2> DEFINE found == [g \in Groups |-> Lifecycle(g, p)]
  <2>1. Ensured(runtime, p).configured = LastKey(p, found)
    BY <1>2 DEF Ensured, Configured
  <2> HIDE DEF found
  <2>2. \/ LastKey(p, found) = ProfileKey(p)
        \/ \E key : LastKey(p, found) = [plugin |-> key]
    BY DEF LastKey
  <2>3. ASSUME NEW key PROVE [plugin |-> key] # ProfileKey(q)
    <3>1. DOMAIN [plugin |-> key] = {"plugin"} /\ "name" \in DOMAIN ProfileKey(q)
      BY DEF ProfileKey
    <3>2. QED
      BY <3>1
  <2>4. ProfileKey(p) = ProfileKey(q)
    BY <2>1, <2>2, <2>3
  <2>5. ConfiguredFor(Ensured(runtime, p), p)
    BY EnsuredOk DEF KnownOk
  <2>6. QED
    BY <2>4, <2>5, ConfiguredLike
<1>3. QED
  BY <1>1, <1>2

\* What configuring tries is authorized.
LEMMA TriedByAuthorized ==
  ASSUME SiteOk, NEW p \in Profiles, NEW i \in TriedBy(runtime, p)
  PROVE  \/ ~Production(p) /\ DOMAIN p.allow = {}
         \/ ListedIn(i, p) /\ (Production(p) => Vouched(i))
<1>1. PICK g \in Groups : i \in Lifecycle(g, p).tried
  BY DEF TriedBy
<1>2. QED
  BY <1>1, TriedAuthorized

\* Every action keeps the invariant.
LEMMA EnsureKeeps ==
  ASSUME DiscoveryInv, NEW p \in Profiles, Ensure(p) PROVE DiscoveryInv'
<1> USE DEF DiscoveryInv
<1>1. /\ site' = site /\ used' = used \cup {p} /\ byHand' = byHand /\ outcome' = outcome
      /\ runtime' = Ensured(runtime, p) /\ imported' = imported \cup TriedBy(runtime, p)
  BY DEF Ensure, Call
<1>2. SiteOk' /\ HandOk'
  BY <1>1 DEF SiteOk, HandOk
<1>3. RuntimeOk(runtime', byHand')
  BY <1>1, EnsuredOk DEF KnownOk
<1>4. \A q \in Profiles : runtime'.configured = ProfileKey(q) => ConfiguredFor(runtime', q)
  BY <1>1, EnsuredKnown
<1>5. \A i \in imported' \ imported : Authorized(i, used', byHand')
  BY <1>1, TriedByAuthorized DEF Authorized
<1>6. ProductionUsesAllowed'
  BY <1>1, AllowedStays DEF ProductionUsesAllowed
<1>7. LoadedIsAuthorized'
  BY <1>1, <1>5, AuthorizedStays
<1>8. QED
  BY <1>1, <1>2, <1>3, <1>4, <1>6, <1>7, RuntimeStays, KnownStays

\* What planning tries is authorized.
LEMMA ContextAuthorized ==
  ASSUME SiteOk, NEW p \in Profiles, NEW reg, NEW i \in Context(p, reg).tried
  PROVE  \/ ~Production(p) /\ DOMAIN p.allow = {}
         \/ ListedIn(i, p) /\ (Production(p) => Vouched(i))
<1>1. PICK groups \in SUBSET {"dataframe", "sql", "spark", "compiler"} :
        LET With(r, g) == IF g \in groups THEN Register(r, g, Lifecycle(g, p).loaded) ELSE r
        IN  /\ Context(p, reg).registry =
                 With(With(With(With(reg, "dataframe"), "sql"), "spark"), "compiler")
            /\ Context(p, reg).tried = UNION {Lifecycle(g, p).tried : g \in groups}
  BY ContextParts
<1>2. PICK g \in groups : i \in Lifecycle(g, p).tried
  BY <1>1
<1>3. QED
  BY <1>2, TriedAuthorized

LEMMA PlanKeeps ==
  ASSUME DiscoveryInv, NEW p \in Profiles, Plan(p) PROVE DiscoveryInv'
<1> USE DEF DiscoveryInv
<1>1. /\ site' = site /\ used' = used \cup {p} /\ byHand' = byHand /\ outcome' = outcome
      /\ runtime' = runtime
      /\ imported' \subseteq imported \cup Context(p, Stub).tried \cup Compilers(p).tried
  BY DEF Plan, Call
<1>2. SiteOk' /\ HandOk'
  BY <1>1 DEF SiteOk, HandOk
<1>3. RuntimeOk(runtime', byHand')
  BY <1>1
<1>4. \A q \in Profiles : runtime'.configured = ProfileKey(q) => ConfiguredFor(runtime', q)
  BY <1>1 DEF KnownOk
<1>5. \A i \in imported' \ imported : Authorized(i, used', byHand')
  BY <1>1, ContextAuthorized, TriedAuthorized DEF Authorized, Compilers
<1>6. ProductionUsesAllowed'
  BY <1>1, AllowedStays DEF ProductionUsesAllowed
<1>7. LoadedIsAuthorized'
  BY <1>1, <1>5, AuthorizedStays
<1>8. QED
  BY <1>1, <1>2, <1>3, <1>4, <1>6, <1>7, RuntimeStays, KnownStays

\* Another registration by hand disturbs nothing registered before.
LEMMA HandGrows ==
  ASSUME NEW rt, NEW hand, NEW more, hand \subseteq more
  PROVE  /\ TablesOk(rt.tables, hand) => TablesOk(rt.tables, more)
         /\ PluginsOk(rt.registry, hand) => PluginsOk(rt.registry, more)
         /\ EnginesOk(rt.registry, rt.tables, hand) => EnginesOk(rt.registry, rt.tables, more)
<1>1. TablesOk(rt.tables, hand) => TablesOk(rt.tables, more)
  BY DEF TablesOk, Origin
<1>2. PluginsOk(rt.registry, hand) => PluginsOk(rt.registry, more)
  BY DEF PluginsOk
<1>3. EnginesOk(rt.registry, rt.tables, hand) => EnginesOk(rt.registry, rt.tables, more)
  BY DEF EnginesOk
<1>4. QED
  BY <1>1, <1>2, <1>3

\* A registration by hand.
LEMMA Register1Keeps ==
  ASSUME DiscoveryInv, NEW i \in DOMAIN site, NEW engine, Register1(i, engine)
  PROVE  DiscoveryInv'
<1> USE DEF DiscoveryInv
<1> DEFINE g == site[i].group
           new == [ep |-> i, engine |-> engine]
           hand == byHand \cup {new}
           loaded == [key \in {engine} |-> [ep |-> i, at |-> i]]
           reg == runtime.registry
           after == Register(reg, g, loaded)
<1>1. /\ site' = site /\ used' = used /\ byHand' = hand /\ outcome' = outcome
      /\ imported' = imported \cup {i} /\ g \in RuntimeGroups /\ site[i].code.conforms
      /\ runtime' = [runtime EXCEPT !.tables[g] = Assign(runtime.tables[g], engine, i),
                                    !.registry = after]
  BY DEF Register1
<1>2. SiteOk' /\ HandOk'
  BY <1>1 DEF SiteOk, HandOk
<1>3. Given(g, loaded, hand)
  BY DEF Given, Origin
<1>4. g \in TableGroups
  BY <1>1 DEF TableGroups, Groups, RuntimeGroups
<1> DEFINE tables == [h \in TableGroups |->
                       IF h = g THEN Assign(runtime.tables[g], engine, i)
                       ELSE runtime.tables[h]]
<1>5. /\ runtime'.tables = tables /\ runtime'.registry = after
      /\ runtime'.configured = runtime.configured /\ runtime'.diags = runtime.diags
      /\ ShapeOk(runtime')
  <2>1. ShapeOk(runtime)
    BY DEF RuntimeOk
  <2>2. runtime' = [tables |-> [runtime.tables EXCEPT
                                  ![g] = Assign(runtime.tables[g], engine, i)],
                    registry |-> after,
                    configured |-> runtime.configured, diags |-> runtime.diags]
    BY <1>1, <2>1 DEF ShapeOk
  <2>3. [runtime.tables EXCEPT ![g] = Assign(runtime.tables[g], engine, i)] = tables
    BY <2>1 DEF ShapeOk
  <2> HIDE DEF tables, after
  <2>4. QED
    BY <2>2, <2>3 DEF ShapeOk, tables
<1>6. /\ \A h \in TableGroups : DOMAIN runtime.tables[h] \subseteq DOMAIN tables[h]
      /\ engine \in DOMAIN tables[g]
  BY <1>4 DEF Assign
<1>7. TablesOk(tables, hand)
  <2>1. TablesOk(runtime.tables, hand)
    BY HandGrows DEF RuntimeOk
  <2>2. ASSUME NEW h \in TableGroups, NEW key \in DOMAIN tables[h]
        PROVE  /\ tables[h][key] \in DOMAIN site /\ site[tables[h][key]].group = h
               /\ Origin(tables[h][key], key, hand)
    <3>1. CASE h = g /\ key = engine
      BY <3>1 DEF Assign, Origin
    <3>2. CASE ~(h = g /\ key = engine)
      <4>1. key \in DOMAIN runtime.tables[h] /\ tables[h][key] = runtime.tables[h][key]
        BY <3>2 DEF Assign
      <4> HIDE DEF tables, hand
      <4>2. QED
        BY <2>1, <4>1 DEF TablesOk
    <3>3. QED
      BY <3>1, <3>2
  <2>3. QED
    BY <2>2 DEF TablesOk
<1> HIDE DEF loaded, tables
<1>8. PluginsOk(after, hand)
  <2>1. PluginsOk(reg, hand)
    BY HandGrows DEF RuntimeOk, RegistryOk
  <2>2. QED
    BY <1>3, <2>1, RegisterPlugins
<1>9. NamesOk(after, hand)
  <2>1. NamesOk(after, byHand)
    <3>1. NamesOk(reg, byHand)
      BY DEF RuntimeOk, RegistryOk
    <3>2. QED
      BY <1>3, <3>1, RegisterNames
  <2>2. engine \in Reached(loaded) /\ loaded[engine].ep = i
    BY <1>1 DEF Reached, Infoless, loaded
  <2>3. site[i].code.name \in DOMAIN after.plugins /\ after.plugins[site[i].code.name].ep # None
    BY <1>3, <2>2, RegisterNames
  <2> HIDE DEF after
  <2>4. QED
    BY <2>1, <2>3 DEF NamesOk
<1>10. EnginesOk(after, tables, hand)
  <2>1. EnginesOk(reg, runtime.tables, hand)
    BY HandGrows DEF RuntimeOk, RegistryOk
  <2>2. ASSUME NEW e \in DOMAIN after.engines, after.engines[e] \in DataGroups
        PROVE  \/ e \in DOMAIN tables[after.engines[e]]
               \/ \E h \in hand :
                       site[h.ep].group = after.engines[e] /\ site[h.ep].code.engine # h.engine
    <3>1. CASE e \in DOMAIN reg.engines /\ after.engines[e] = reg.engines[e]
      <4>1. reg.engines[e] \in TableGroups
        BY <2>2, <3>1, GroupNames
      <4> HIDE DEF after, hand
      <4>2. QED
        BY <1>6, <2>1, <2>2, <3>1, <4>1 DEF EnginesOk
    <3>2. CASE after.engines[e] = g /\ e = Descriptor(g, engine, i).engine
      <4>1. g # "scheduler"
        BY <2>2, <3>2 DEF DataGroups
      <4>2. e = IF site[i].code.engine # None THEN site[i].code.engine ELSE engine
        BY <3>2, <4>1, DescriptorParts
      <4>3. CASE e = engine
        BY <1>6, <3>2, <4>3
      <4>4. CASE e # engine
        <5>1. new \in hand /\ new.ep = i /\ new.engine = engine
          OBVIOUS
        <5>2. site[i].code.engine # engine
          BY <4>2, <4>4
        <5>3. QED
          BY <3>2, <5>1, <5>2
      <4>5. QED
        BY <4>3, <4>4
    <3>3. \A key \in Reached(loaded) : key = engine /\ loaded[key].ep = i
      BY DEF Reached, loaded
    <3>4. QED
      BY <1>3, <3>1, <3>2, <3>3, RegisterParts
  <2>3. QED
    BY <2>2 DEF EnginesOk
<1>11. RuntimeOk(runtime', byHand')
  <2> HIDE DEF after, hand
  <2> QED BY <1>1, <1>5, <1>7, <1>8, <1>9, <1>10 DEF RuntimeOk, RegistryOk, hand
<1>12. ASSUME NEW q \in Profiles, runtime'.configured = ProfileKey(q)
       PROVE  ConfiguredFor(runtime', q)
  <2> HIDE DEF after
  <2>1. ConfiguredFor(runtime, q)
    BY <1>5, <1>12 DEF KnownOk
  <2>2. QED
    BY <1>5, <1>6, <2>1, GroupNames DEF ConfiguredFor, LoadedIn
<1>13. \A j \in imported' \ imported : Authorized(j, used', byHand')
  <2>1. new \in hand /\ new.ep = i
    OBVIOUS
  <2> HIDE DEF hand, new
  <2>2. QED
    BY <1>1, <2>1 DEF Authorized
<1>14. byHand \subseteq byHand'
  BY <1>1
<1>15. ProductionUsesAllowed'
  <2> HIDE DEF hand
  <2> QED BY <1>1, <1>14, AllowedStays DEF ProductionUsesAllowed
<1>16. LoadedIsAuthorized'
  <2> HIDE DEF hand
  <2> QED BY <1>1, <1>13, <1>14, AuthorizedStays
<1>17. QED
  BY <1>1, <1>2, <1>11, <1>12, <1>15, <1>16, RuntimeStays, KnownStays

\* A session provider registered by hand.
LEMMA RegisterProviderKeeps ==
  ASSUME DiscoveryInv, NEW i \in DOMAIN site, NEW name, RegisterProvider(i, name)
  PROVE  DiscoveryInv'
<1> USE DEF DiscoveryInv
<1> DEFINE g == "provider"
           new == [ep |-> i, engine |-> name]
           hand == byHand \cup {new}
           tables == [h \in TableGroups |->
                       IF h = g THEN Assign(runtime.tables[g], name, i) ELSE runtime.tables[h]]
<1>1. /\ site' = site /\ used' = used /\ byHand' = hand /\ outcome' = outcome
      /\ imported' = imported \cup {i} /\ site[i].group = g
      /\ runtime' = [runtime EXCEPT !.tables[g] = Assign(@, name, i)]
  BY DEF RegisterProvider
<1>2. SiteOk' /\ HandOk'
  BY <1>1 DEF SiteOk, HandOk
<1>3. g \in TableGroups /\ g \notin DataGroups
  BY DEF TableGroups, Groups, DataGroups
<1>4. /\ runtime'.tables = tables /\ runtime'.registry = runtime.registry
      /\ runtime'.configured = runtime.configured /\ runtime'.diags = runtime.diags
      /\ ShapeOk(runtime')
  <2>1. ShapeOk(runtime)
    BY DEF RuntimeOk
  <2>2. runtime' = [tables |-> [runtime.tables EXCEPT
                                  ![g] = Assign(runtime.tables[g], name, i)],
                    registry |-> runtime.registry,
                    configured |-> runtime.configured, diags |-> runtime.diags]
    BY <1>1, <2>1 DEF ShapeOk
  <2>3. [runtime.tables EXCEPT ![g] = Assign(runtime.tables[g], name, i)] = tables
    BY <2>1 DEF ShapeOk
  <2> HIDE DEF tables
  <2>4. QED
    BY <2>2, <2>3 DEF ShapeOk, tables
<1>5. \A h \in TableGroups : DOMAIN runtime.tables[h] \subseteq DOMAIN tables[h]
  BY <1>3 DEF Assign
<1>6. TablesOk(tables, hand)
  <2>1. TablesOk(runtime.tables, hand)
    BY HandGrows DEF RuntimeOk
  <2>2. ASSUME NEW h \in TableGroups, NEW key \in DOMAIN tables[h]
        PROVE  /\ tables[h][key] \in DOMAIN site /\ site[tables[h][key]].group = h
               /\ Origin(tables[h][key], key, hand)
    <3>1. CASE h = g /\ key = name
      BY <1>1, <3>1 DEF Assign, Origin
    <3>2. CASE ~(h = g /\ key = name)
      <4>1. key \in DOMAIN runtime.tables[h] /\ tables[h][key] = runtime.tables[h][key]
        BY <3>2 DEF Assign
      <4> HIDE DEF tables, hand
      <4>2. QED
        BY <2>1, <4>1 DEF TablesOk
    <3>3. QED
      BY <3>1, <3>2
  <2>3. QED
    BY <2>2 DEF TablesOk
<1> HIDE DEF tables
<1>7. RegistryOk(runtime.registry, tables, hand)
  <2>1. /\ PluginsOk(runtime.registry, hand)
        /\ EnginesOk(runtime.registry, runtime.tables, hand)
    BY HandGrows DEF RuntimeOk, RegistryOk
  <2>2. NamesOk(runtime.registry, hand)
    <3>1. NamesOk(runtime.registry, byHand)
      BY DEF RuntimeOk, RegistryOk
    <3>2. QED
      BY <1>1, <3>1 DEF NamesOk
  <2> HIDE DEF hand
  <2>3. RegistryOk(runtime.registry, runtime.tables, hand)
    BY <2>1, <2>2 DEF RegistryOk, EnginesOk
  <2>4. QED
    BY <1>5, <2>3, GroupNames, EnginesGrow
<1>8. RuntimeOk(runtime', byHand')
  <2> HIDE DEF hand
  <2> QED BY <1>1, <1>4, <1>6, <1>7 DEF RuntimeOk, hand
<1>9. ASSUME NEW q \in Profiles, runtime'.configured = ProfileKey(q)
      PROVE  ConfiguredFor(runtime', q)
  <2>1. ConfiguredFor(runtime, q)
    BY <1>4, <1>9 DEF KnownOk
  <2>2. QED
    BY <1>4, <1>5, <2>1, GroupNames DEF ConfiguredFor, LoadedIn
<1>10. \A j \in imported' \ imported : Authorized(j, used', byHand')
  <2>1. new \in hand /\ new.ep = i
    OBVIOUS
  <2> HIDE DEF hand, new
  <2>2. QED
    BY <1>1, <2>1 DEF Authorized
<1>11. byHand \subseteq byHand'
  BY <1>1
<1>12. ProductionUsesAllowed'
  <2> HIDE DEF hand
  <2> QED BY <1>1, <1>11, AllowedStays DEF ProductionUsesAllowed
<1>13. LoadedIsAuthorized'
  <2> HIDE DEF hand
  <2> QED BY <1>1, <1>10, <1>11, AuthorizedStays
<1>14. QED
  BY <1>1, <1>2, <1>8, <1>9, <1>12, <1>13, RuntimeStays, KnownStays

\* Where a session provider comes from: the table, or what discovery loads unasked.
LEMMA SessionParts ==
  ASSUME NEW p, NEW table
  PROVE  \/ Session(p, table) \in {Own, None}
         \/ \E key \in DOMAIN table : Session(p, table) = table[key]
         \/ \E key \in DOMAIN Lifecycle("provider", None).loaded :
              Session(p, table) = Lifecycle("provider", None).loaded[key].ep
<1> DEFINE loaded == Lifecycle("provider", None).loaded
<1>1. ASSUME NEW name
      PROVE  \/ Provider(name, table) = None
             \/ name \in DOMAIN table /\ Provider(name, table) = table[name]
             \/ name \in DOMAIN loaded /\ Provider(name, table) = loaded[name].ep
  <2> HIDE DEF loaded
  <2> QED BY DEF Provider, loaded
<1>2. Session(p, table) \in {Own, Provider(p.session, table), Provider("local", table)}
  <2>1. CASE Family(p) # "spark"
    BY <2>1 DEF Session
  <2>2. CASE Family(p) = "spark" /\ Provider(p.session, table) # None
    BY <2>2 DEF Session
  <2>3. CASE Family(p) = "spark" /\ Provider(p.session, table) = None
    BY <2>3 DEF Session
  <2>4. QED
    BY <2>1, <2>2, <2>3
<1> HIDE DEF loaded
<1>3. QED
  BY <1>1, <1>2 DEF loaded

\* What a production run executes is allowed, whichever part of the run it is.
LEMMA PartsAllowed ==
  ASSUME SiteOk, HandOk, NEW p \in Profiles, Production(p), NEW rt, NEW reg,
         ConfiguredFor(rt, p), Errors(rt.diags) = {}, TablesOk(rt.tables, byHand),
         RegistryOk(reg, rt.tables, byHand), Errors(Trust(p, reg)) = {},
         NEW i \in Parts(p, rt.tables), i # Own, i # None
  PROVE  (site[i].installed /\ Vouched(i) /\ ListedIn(i, p)) \/ Overlooked(i, p)
<1>1. PluginsOk(reg, byHand) /\ NamesOk(reg, byHand)
  BY DEF RegistryOk
<1>2. ASSUME NEW g \in TableGroups, NEW key \in DOMAIN rt.tables[g], i = rt.tables[g][key]
      PROVE  (site[i].installed /\ Vouched(i) /\ ListedIn(i, p)) \/ Overlooked(i, p)
  BY <1>1, <1>2, TableAllowed
<1>3. ASSUME NEW g \in Groups, NEW key \in DOMAIN Lifecycle(g, None).loaded,
             i = Lifecycle(g, None).loaded[key].ep
      PROVE  site[i].installed /\ Vouched(i) /\ ListedIn(i, p)
  <2>1. i \in InGroup(g)
    BY <1>3, LoadedKey, TriedAllowed
  <2>2. QED
    BY <2>1, InstalledAllowed DEF InGroup
<1>4. CASE i = Scheduler(p, rt.tables)
  <2>1. /\ p.orchestrator \in DOMAIN rt.tables["scheduler"]
        /\ i = rt.tables["scheduler"][p.orchestrator]
    BY <1>4 DEF Scheduler, Value
  <2>2. QED
    BY <1>2, <2>1, GroupNames
<1>5. CASE i = Resolved(p, rt.tables)
  <2>1. Family(p) \in TableGroups /\ Family(p) \in Groups
    BY GroupNames DEF Family, DataGroups
  <2>2. CASE Open(p, rt.tables)
    <3> DEFINE loaded == Lifecycle(Family(p), None).loaded
               table == SetDefault(<<>>, loaded)
    <3>1. i = Lookup(table, Primary(p))
      BY <1>5, <2>2 DEF Resolved, Open
    <3>2. PICK key \in DOMAIN table : i = table[key]
      <4> HIDE DEF table
      <4> QED BY <3>1, LookupParts
    <3>3. key \in DOMAIN loaded /\ i = loaded[key].ep
      <4> HIDE DEF loaded
      <4> QED BY <3>2 DEF SetDefault
    <3>4. QED
      BY <1>3, <2>1, <3>3
  <2>3. CASE ~Open(p, rt.tables)
    <3>1. i = Lookup(rt.tables[Family(p)], Primary(p))
      BY <1>5, <2>3 DEF Resolved
    <3>2. PICK key \in DOMAIN rt.tables[Family(p)] : i = rt.tables[Family(p)][key]
      BY <3>1, LookupParts
    <3>3. QED
      BY <1>2, <2>1, <3>2
  <2>4. QED
    BY <2>2, <2>3
<1>6. CASE i = Compiler(p)
  <2> DEFINE loaded == Compilers(p).loaded
             chosen == loaded[Primary(p)].ep
             Same(j, k) == /\ site[j].code.name = site[k].code.name
                           /\ site[j].code.version = site[k].code.version
             IsFirst(key) == /\ Same(loaded[key].ep, chosen)
                             /\ \A k \in DOMAIN loaded :
                                  Same(loaded[k].ep, chosen) => loaded[key].at <= loaded[k].at
             first == CHOOSE key \in DOMAIN loaded : IsFirst(key)
             Fitting(j) == IF site[j].code.engine \in {None, Primary(p)} THEN j ELSE None
  <2>1. Primary(p) \in DOMAIN loaded /\ i = Fitting(loaded[first].ep)
    BY <1>6 DEF Compiler
  <2>2. i = loaded[first].ep
    <3> HIDE DEF first
    <3> QED BY <2>1
  <2>3. \E key \in DOMAIN loaded : IsFirst(key)
    <3> DEFINE alike == {key \in DOMAIN loaded : Same(loaded[key].ep, chosen)}
               places == {loaded[key].at : key \in alike}
    <3>1. Primary(p) \in alike
      BY <2>1
    <3>2. places # {} /\ places \in SUBSET Nat
      <4>1. \A key \in DOMAIN loaded : loaded[key].at \in Nat
        BY LoadedKey, Grouped, Positions DEF Compilers
      <4> HIDE DEF loaded
      <4>2. QED
        BY <3>1, <4>1
    <3>3. Min(places) \in places /\ \A y \in places : Min(places) <= y
      BY <3>2, MinOf
    <3>4. PICK key \in alike : loaded[key].at = Min(places)
      BY <3>3
    <3> HIDE DEF loaded
    <3>5. QED
      BY <3>3, <3>4
  <2>4. \E key \in DOMAIN loaded : i = loaded[key].ep
    <3> HIDE DEF IsFirst
    <3>1. first \in DOMAIN loaded
      BY <2>3, Zenon
    <3>2. QED
      BY <2>2, <3>1
  <2>5. PICK key \in DOMAIN Lifecycle("compiler", p).loaded :
          i = Lifecycle("compiler", p).loaded[key].ep
    BY <2>4 DEF Compilers
  <2>6. i \in Lifecycle("compiler", p).tried
    BY <2>5, LoadedKey
  <2>7. QED
    BY <2>6, TriedAllowed DEF InGroup
<1>7. CASE i = Session(p, rt.tables["provider"])
  <2>1. "provider" \in TableGroups /\ "provider" \in Groups
    BY DEF TableGroups, Groups
  <2>2. \/ \E key \in DOMAIN rt.tables["provider"] : i = rt.tables["provider"][key]
        \/ \E key \in DOMAIN Lifecycle("provider", None).loaded :
             i = Lifecycle("provider", None).loaded[key].ep
    BY <1>7, SessionParts
  <2>3. QED
    BY <1>2, <1>3, <2>1, <2>2
<1>8. QED
  BY <1>4, <1>5, <1>6, <1>7 DEF Parts

\* A run.
LEMMA RunKeeps ==
  ASSUME DiscoveryInv, NEW p \in Profiles, Run(p) PROVE DiscoveryInv'
<1> USE DEF DiscoveryInv
<1> DEFINE rt == Ensured(runtime, p)
           context == Context(p, rt.registry)
           parts == Parts(p, rt.tables)
           refused == Errors(rt.diags) # {}
<1>1. /\ site' = site /\ used' = used \cup {p} /\ byHand' = byHand
      /\ Executed(p, rt, context, parts)
  BY DEF Run, Call
<1> HIDE DEF rt, context, parts
<1>2. RuntimeOk(rt, byHand) /\ ConfiguredFor(rt, p)
  BY EnsuredOk DEF KnownOk, rt
<1>3. ShapeOk(rt) /\ TablesOk(rt.tables, byHand) /\ RegistryOk(rt.registry, rt.tables, byHand)
      /\ LoadedIn(rt.tables, p)
  BY <1>2 DEF RuntimeOk, ConfiguredFor
<1>4. RegistryOk(context.registry, rt.tables, byHand)
  BY <1>3, ContextOk DEF context
<1>5. runtime' = IF refused THEN rt ELSE [rt EXCEPT !.registry = context.registry]
  BY <1>1 DEF Executed
<1>6. /\ ShapeOk(runtime') /\ runtime'.tables = rt.tables /\ runtime'.configured = rt.configured
      /\ runtime'.diags = rt.diags
      /\ runtime'.registry \in {rt.registry, context.registry}
  <2>1. CASE refused
    BY <1>3, <1>5, <2>1
  <2>2. CASE ~refused
    <3>1. runtime' = [tables |-> rt.tables, registry |-> context.registry,
                      configured |-> rt.configured, diags |-> rt.diags]
      BY <1>3, <1>5, <2>2 DEF ShapeOk
    <3>2. QED
      BY <1>3, <3>1 DEF ShapeOk
  <2>3. QED
    BY <2>1, <2>2
<1>7. RuntimeOk(runtime', byHand')
  BY <1>1, <1>3, <1>4, <1>6 DEF RuntimeOk
<1>8. ASSUME NEW q \in Profiles, runtime'.configured = ProfileKey(q)
      PROVE  ConfiguredFor(runtime', q)
  <2>1. ConfiguredFor(rt, q)
    BY <1>6, <1>8, EnsuredKnown DEF rt
  <2>2. QED
    BY <1>6, <2>1 DEF ConfiguredFor, LoadedIn
<1> DEFINE ruling == CASE refused -> "refused"
                        [] ~refused /\ ~Validated(p, context) -> "rejected"
                        [] ~refused /\ Validated(p, context) /\ None \in parts -> "failed"
                        [] OTHER -> "ran"
           compilers == IF refused \/ context.failed THEN {} ELSE Compilers(p).tried
           opened == IF /\ outcome'.verdict \in {"ran", "failed"}
                        /\ Scheduler(p, rt.tables) # None
                        /\ Open(p, rt.tables)
                     THEN Lifecycle(Family(p), None).tried ELSE {}
           providers == IF outcome'.verdict \in {"ran", "failed"}
                        THEN SessionTried(p, rt.tables) ELSE {}
<1>9. /\ outcome'.verdict = ruling /\ outcome'.profile = p
      /\ ruling = "ran" => outcome'.parts = parts \ {Own}
      /\ imported' = imported \cup TriedBy(runtime, p) \cup compilers \cup opened
                       \cup providers \cup IF refused THEN {} ELSE context.tried
  BY <1>1 DEF Executed
<1>10. ruling \in {"ran", "failed"} => ~refused /\ Validated(p, context)
  OBVIOUS
<1>11. ruling = "ran" => None \notin parts
  OBVIOUS
<1> HIDE DEF ruling, refused
<1>12. SiteOk' /\ HandOk'
  BY <1>1 DEF SiteOk, HandOk
<1>13. ProductionUsesAllowed'
  <2>1. ASSUME ruling = "ran", Production(p), NEW i \in parts \ {Own}
        PROVE  (site[i].installed /\ Vouched(i) /\ ListedIn(i, p)) \/ Overlooked(i, p)
    <3>1. Errors(rt.diags) = {} /\ Errors(Trust(p, context.registry)) = {}
      BY <1>10, <2>1 DEF refused, Validated
    <3>2. i \in Parts(p, rt.tables) /\ i # Own /\ i # None
      BY <1>11, <2>1 DEF parts
    <3>3. QED
      BY <1>2, <1>3, <1>4, <2>1, <3>1, <3>2, PartsAllowed
  <2>2. QED
    BY <1>1, <1>9, <2>1, AllowedStays
<1>14. \A i \in imported' \ imported : Authorized(i, used', byHand')
  <2>1. ASSUME NEW i \in opened PROVE Authorized(i, used', byHand')
    <3>1. /\ Open(p, rt.tables) /\ i \in Lifecycle(Family(p), None).tried
          /\ Validated(p, context)
      BY <1>9, <1>10, <2>1
    <3>2. Supported(p, context.registry) /\ EnginesOk(context.registry, rt.tables, byHand)
      BY <1>4, <3>1 DEF Validated, RegistryOk
    <3>3. PICK h \in byHand : site[h.ep].group = Family(p) /\ site[h.ep].code.engine # h.engine
      BY <1>3, <3>1, <3>2, OpenedByHand
    <3>4. site[i].group = Family(p) /\ Family(p) # "provider"
      BY <3>1, TriedAllowed DEF InGroup, Family
    <3>5. QED
      BY <1>1, <3>3, <3>4 DEF Authorized
  <2>2. ASSUME NEW i \in TriedBy(runtime, p) \cup compilers
                          \cup IF refused THEN {} ELSE context.tried
        PROVE  Authorized(i, used', byHand')
    <3>1. \/ ~Production(p) /\ DOMAIN p.allow = {}
          \/ ListedIn(i, p) /\ (Production(p) => Vouched(i))
      BY <2>2, TriedByAuthorized, ContextAuthorized, TriedAuthorized DEF Compilers, context
    <3>2. QED
      BY <1>1, <3>1 DEF Authorized
  <2>3. ASSUME NEW i \in providers PROVE Authorized(i, used', byHand')
    <3>1. /\ Family(p) = "spark" /\ i \in Lifecycle("provider", None).tried
          /\ ruling \in {"ran", "failed"}
      BY <1>9, <2>3 DEF SessionTried
    <3>2. i \in DOMAIN site /\ site[i].installed /\ site[i].group = "provider"
      BY <3>1, TriedAllowed DEF InGroup
    <3>3. CASE Production(p)
      <4>1. Errors(rt.diags) = {}
        BY <1>10, <3>1 DEF refused
      <4>2. Vouched(i) /\ ListedIn(i, p)
        BY <1>2, <3>2, <3>3, <4>1, InstalledAllowed
      <4>3. QED
        BY <1>1, <4>2 DEF Authorized
    <3>4. CASE ~Production(p)
      BY <1>1, <3>1, <3>2, <3>4 DEF Authorized
    <3>5. QED
      BY <3>3, <3>4
  <2> HIDE DEF opened, compilers, providers
  <2>4. QED
    BY <1>9, <2>1, <2>2, <2>3
<1>15. LoadedIsAuthorized'
  BY <1>1, <1>14, AuthorizedStays
<1>16. QED
  BY <1>1, <1>7, <1>8, <1>12, <1>13, <1>15, RuntimeStays, KnownStays

\* A stutter.
LEMMA IdleKeeps ==
  ASSUME DiscoveryInv, UNCHANGED discoveryVars PROVE DiscoveryInv'
<1> USE DEF DiscoveryInv, discoveryVars
<1>1. /\ site' = site /\ byHand' = byHand /\ used' = used /\ imported' = imported
      /\ outcome' = outcome /\ runtime' = runtime
  OBVIOUS
<1>2. SiteOk' /\ HandOk'
  BY <1>1 DEF SiteOk, HandOk
<1>3. RuntimeOk(runtime', byHand')
  BY <1>1
<1>4. \A q \in Profiles : runtime'.configured = ProfileKey(q) => ConfiguredFor(runtime', q)
  BY <1>1 DEF KnownOk
<1>5. ProductionUsesAllowed'
  BY <1>1, AllowedStays DEF ProductionUsesAllowed
<1>6. LoadedIsAuthorized'
  BY <1>1, AuthorizedStays
<1>7. QED
  BY <1>1, <1>2, <1>3, <1>4, <1>5, <1>6, RuntimeStays, KnownStays

\* The invariant holds of every process.
LEMMA DiscoverySteps == DiscoverySpec => []DiscoveryInv
<1>1. DiscoveryInit => DiscoveryInv
  BY InitDiscovery
<1>2. DiscoveryInv /\ [DiscoveryNext]_discoveryVars => DiscoveryInv'
  <2> SUFFICES ASSUME DiscoveryInv, [DiscoveryNext]_discoveryVars PROVE DiscoveryInv'
    OBVIOUS
  <2>1. ASSUME NEW p \in Profiles, Ensure(p) PROVE DiscoveryInv'
    BY <2>1, EnsureKeeps
  <2>2. ASSUME NEW p \in Profiles, Plan(p) PROVE DiscoveryInv'
    BY <2>2, PlanKeeps
  <2>3. ASSUME NEW p \in Profiles, Run(p) PROVE DiscoveryInv'
    BY <2>3, RunKeeps
  <2>4. ASSUME NEW i \in HandMade \cap DOMAIN site,
               NEW engine \in {site[i].name, site[i].code.engine} \ {None},
               Register1(i, engine)
        PROVE  DiscoveryInv'
    BY <2>4, Register1Keeps
  <2>5. ASSUME NEW i \in HandMade \cap DOMAIN site,
               NEW name \in {site[i].name, site[i].code.engine} \ {None},
               RegisterProvider(i, name)
        PROVE  DiscoveryInv'
    BY <2>5, RegisterProviderKeeps
  <2>6. CASE UNCHANGED discoveryVars
    BY <2>6, IdleKeeps
  <2>7. QED
    BY <2>1, <2>2, <2>3, <2>4, <2>5, <2>6 DEF DiscoveryNext
<1>3. QED
  BY <1>1, <1>2, PTL DEF DiscoverySpec

\* Whatever is installed, and whatever a runtime was used for before: the plugins a
\* production run executes have a true manifest and the allowlist of the profile lists them,
\* or the program registered them, and the allowlist lists what they say of themselves or
\* trust does not see them, as it sees no session provider (discover_evaluate_authorize_load, phase_plugin_trust, arun_pipeline).
THEOREM ProductionUsesAllowedHolds == DiscoverySpec => []ProductionUsesAllowed
<1>1. DiscoveryInv => ProductionUsesAllowed
  BY DEF DiscoveryInv
<1>2. DiscoverySpec => []DiscoveryInv
  BY DiscoverySteps
<1>3. QED
  BY <1>1, <1>2, PTL

\* Whatever is installed, code is imported only if a profile that was used lists it, in
\* production with a true manifest; or has no allowlist outside production; or a plugin
\* registered under another engine opened its group; or it is a session provider, and a
\* Spark profile was used outside production (load_authorized_plugins,
\* resolve_dataframe_plugin and its kin, _ensure_spark_session).
THEOREM LoadedIsAuthorizedHolds == DiscoverySpec => []LoadedIsAuthorized
<1>1. DiscoveryInv => LoadedIsAuthorized
  BY DEF DiscoveryInv
<1>2. DiscoverySpec => []DiscoveryInv
  BY DiscoverySteps
<1>3. QED
  BY <1>1, <1>2, PTL
=============================================================================
