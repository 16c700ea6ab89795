---------------------------- MODULE SqlPublication ----------------------------
(***************************************************************************)
(* A SQL transformation and the SQL sink behind it, in runs that share one  *)
(* SQL plugin: the intermediate result is materialized as a staging table   *)
(* named after the run, the sink publishes it by INSERT ... SELECT or by    *)
(* building a second table and swapping it with the target, and the end of  *)
(* a run drops the staging tables the plugin remembers.                     *)
(*                                                                         *)
(* The plugin's calls are synchronous, so nothing else of the event loop    *)
(* runs inside one; each is one action here, however many transactions it   *)
(* has.  What a transaction did to the database and what execute reports of *)
(* it (_classify_failure) are two things.  The step_failed callbacks leave  *)
(* the retry to _should_retry.                                              *)
(***************************************************************************)
EXTENDS Naturals, FiniteSets

CONSTANTS
  Runs,
  MaxAttempts,   \* request.retry.max_attempts
  Modes,         \* the circumstances of the runs
  MaxFaults,     \* bound on the transactions that do not simply commit
  Previous, Missing   \* contents of the target: an earlier run's; no such table

\* transactionalDdl: does a failed transaction take its DDL back (PostgreSQL), or
\* does every DDL statement commit by itself (SQLite)?
ModeType == [intent : {"insert_select", "replace"}, transactionalDdl : BOOLEAN,
             concurrent : BOOLEAN]

ASSUME SqlAssumption ==
  /\ IsFiniteSet(Runs) /\ Previous \notin Runs /\ Missing \notin Runs
  /\ MaxAttempts \in Nat \ {0} /\ MaxFaults \in Nat
  /\ Modes \subseteq ModeType

\* TransactionOutcome of a transaction that was started, and whether it applied.
Outcomes ==
  {[applied |-> TRUE, reported |-> "committed"],
   [applied |-> TRUE, reported |-> "unknown"],
   [applied |-> FALSE, reported |-> "unknown"],
   [applied |-> FALSE, reported |-> "rolled_back"]}
Committed == [applied |-> TRUE, reported |-> "committed"]

VARIABLES
  mode,       \* chosen once, never written
  pc, attempt,
  staging,    \* runs whose pl_tmp_... table is in the database
  remembered, \* runs whose staging table is in plugin._staging_tables
  swaps,      \* <<run, attempt>> whose target__staging_... table is in the database
  aside,      \* <<run, attempt>> whose target__old_... table is in the database
  target,     \* whose rows the target relation holds (intent replace)
  published,  \* how often the rows of a run reached the target
  verdict,    \* how the sink step of a run ended
  faults

vars == <<mode, pc, attempt, staging, remembered, swaps, aside, target, published,
          verdict, faults>>

Init ==
  /\ mode \in Modes
  /\ pc = [r \in Runs |-> "waiting"]
  /\ attempt = [r \in Runs |-> 1]
  /\ staging = {} /\ remembered = {} /\ swaps = {} /\ aside = {}
  /\ target \in {Previous, Missing}
  /\ published = [r \in Runs |-> 0]
  /\ verdict = [r \in Runs |-> "none"]
  /\ faults = 0

\* o is what may become of a transaction, the bound on faults permitting.
May(o) == o = Committed \/ faults < MaxFaults
Count(o) == faults' = IF o = Committed THEN faults ELSE faults + 1

StartRun(r) ==
  /\ pc[r] = "waiting"
  /\ mode.concurrent \/ \A other \in Runs : pc[other] \in {"waiting", "over"}
  /\ pc' = [pc EXCEPT ![r] = "transform"]
  /\ UNCHANGED <<mode, attempt, staging, remembered, swaps, aside, target, published,
                 verdict, faults>>

\* Mutant of TryAgainOrFail: one attempt more than max_attempts.
TryOnceMore(r, failure) ==
  IF attempt[r] <= MaxAttempts
  THEN attempt' = [attempt EXCEPT ![r] = @ + 1] /\ UNCHANGED <<pc, verdict>>
  ELSE /\ pc' = [pc EXCEPT ![r] = "ending"]
       /\ verdict' = [verdict EXCEPT ![r] = failure]
       /\ UNCHANGED attempt

\* The step failed (PMEXEC433, PMEXEC436): tried again, or the run is failed.
TryAgainOrFail(r, failure) ==
  IF attempt[r] < MaxAttempts
  THEN attempt' = [attempt EXCEPT ![r] = @ + 1] /\ UNCHANGED <<pc, verdict>>
  ELSE /\ pc' = [pc EXCEPT ![r] = "ending"]
       /\ verdict' = [verdict EXCEPT ![r] = failure]
       /\ UNCHANGED attempt

\* Mutants of Materialize: the table of a commit is not noted in _staging_tables;
\* only a transaction that was rolled back fails the attempt.
MaterializeUnnoted(r) ==
  /\ pc[r] = "transform"
  /\ \E o \in Outcomes :
       /\ May(o) /\ Count(o)
       /\ staging' = IF o.applied THEN staging \cup {r} ELSE staging
       /\ IF o.reported = "committed"
          THEN /\ pc' = [pc EXCEPT ![r] = "sink"]
               /\ attempt' = [attempt EXCEPT ![r] = 1]
               /\ UNCHANGED verdict
          ELSE TryAgainOrFail(r, "no_input")
  /\ UNCHANGED <<mode, remembered, swaps, aside, target, published>>

MaterializeTrusting(r) ==
  /\ pc[r] = "transform"
  /\ \E o \in Outcomes :
       /\ May(o) /\ Count(o)
       /\ staging' = IF o.applied THEN staging \cup {r} ELSE staging
       /\ IF o.reported # "rolled_back"
          THEN /\ remembered' = remembered \cup {r}
               /\ pc' = [pc EXCEPT ![r] = "sink"]
               /\ attempt' = [attempt EXCEPT ![r] = 1]
               /\ UNCHANGED verdict
          ELSE TryAgainOrFail(r, "no_input") /\ UNCHANGED remembered
  /\ UNCHANGED <<mode, swaps, aside, target, published>>

\* materialize_temp: DROP IF EXISTS and CREATE AS in one transaction.  Only a
\* commit it knows of makes the plugin remember the table; anything else fails
\* the attempt.  When each DDL statement commits by itself, the DROP of a failed
\* attempt may stay done.
Materialize(r) ==
  /\ pc[r] = "transform"
  /\ \E o \in Outcomes :
       /\ May(o) /\ Count(o)
       /\ IF o.applied THEN staging' = staging \cup {r}
          ELSE \/ staging' = staging
               \/ ~mode.transactionalDdl /\ staging' = staging \ {r}
       /\ IF o.reported = "committed"
          THEN /\ remembered' = remembered \cup {r}
               /\ pc' = [pc EXCEPT ![r] = "sink"]
               /\ attempt' = [attempt EXCEPT ![r] = 1]
               /\ UNCHANGED verdict
          ELSE TryAgainOrFail(r, "no_input") /\ UNCHANGED remembered
  /\ UNCHANGED <<mode, swaps, aside, target, published>>

\* Mutants of Conclude: an unknown outcome is retried like one rolled back;
\* whatever was not rolled back counts as committed.
ConcludeRetrying(r, reported) ==
  IF reported # "committed" THEN TryAgainOrFail(r, "failed")
  ELSE /\ pc' = [pc EXCEPT ![r] = "ending"]
       /\ verdict' = [verdict EXCEPT ![r] = reported]
       /\ UNCHANGED attempt

ConcludeHopeful(r, reported) ==
  IF reported = "rolled_back" THEN TryAgainOrFail(r, "failed")
  ELSE /\ pc' = [pc EXCEPT ![r] = "ending"]
       /\ verdict' = [verdict EXCEPT ![r] = "committed"]
       /\ UNCHANGED attempt

\* What the sink step makes of the outcome of its write: PMEXEC434, which is
\* never retried, for an unknown one; PMEXEC436 for one rolled back.
Conclude(r, reported) ==
  IF reported = "rolled_back" THEN TryAgainOrFail(r, "failed")
  ELSE /\ pc' = [pc EXCEPT ![r] = "ending"]
       /\ verdict' = [verdict EXCEPT ![r] = reported]
       /\ UNCHANGED attempt

\* The tables the write names: its staging table, and for an insert the target.
Writable(r) == r \in staging /\ (mode.intent = "insert_select" => target # Missing)

\* A statement that names a table that is not there: the driver's error is a
\* ProgrammingError (rolled back) or an OperationalError (unknown).
TableGone(r) ==
  /\ ~Writable(r)
  /\ \E reported \in {"rolled_back", "unknown"} : Conclude(r, reported)
  /\ UNCHANGED <<mode, staging, remembered, swaps, aside, target, published, faults>>

\* execute_write, INSERT INTO target SELECT * FROM staging.
InsertSelect(r) ==
  /\ Writable(r)
  /\ \E o \in Outcomes :
       /\ May(o) /\ Count(o)
       /\ published' = [published EXCEPT ![r] = IF o.applied THEN @ + 1 ELSE @]
       /\ Conclude(r, o.reported)
  /\ UNCHANGED <<mode, staging, remembered, swaps, aside, target>>

\* What publish_replace did to the target, the table it renamed away and the
\* table it renamed in, when the first n of its statements were applied: DROP the
\* old name, rename the target to it, rename the staging table to the target,
\* DROP what was renamed away.
Swapped(r, n) ==
  LET exists == target # Missing
  IN /\ target' = IF n >= 3 THEN r ELSE IF n = 2 /\ exists THEN Missing ELSE target
     /\ aside' = IF n \in {2, 3} /\ exists THEN aside \cup {<<r, attempt[r]>>} ELSE aside
     /\ swaps' = IF n >= 3 THEN swaps ELSE swaps \cup {<<r, attempt[r]>>}
     /\ published' = [published EXCEPT ![r] = IF n >= 3 THEN @ + 1 ELSE @]

\* Mutant of Applied: the swap is not one transaction but two.
AppliedHalf(o) == IF o.applied THEN {4} ELSE {0, 2}

\* The statements of a transaction that stay applied: all, or, if it fails, none
\* with transactional DDL and any of them without.
Applied(o) ==
  IF o.applied THEN {4} ELSE IF mode.transactionalDdl THEN {0} ELSE 0..3

\* execute_write, intents replace and snapshot: one transaction creates the table
\* to swap in, a second one swaps it; the first one's failure ends the write.
Replace(r) ==
  /\ Writable(r)
  /\ \E create \in Outcomes :
       /\ May(create)
       /\ IF create.reported # "committed"
          THEN /\ Count(create)
               /\ swaps' = IF create.applied THEN swaps \cup {<<r, attempt[r]>>} ELSE swaps
               /\ Conclude(r, create.reported)
               /\ UNCHANGED <<aside, target, published>>
          ELSE \E swap \in Outcomes :
                 /\ May(swap) /\ Count(swap)
                 /\ \E n \in Applied(swap) : Swapped(r, n)
                 /\ Conclude(r, swap.reported)
  /\ UNCHANGED <<mode, staging, remembered>>

WriteSink(r) ==
  /\ pc[r] = "sink"
  /\ \/ TableGone(r)
     \/ mode.intent = "insert_select" /\ InsertSelect(r)
     \/ mode.intent = "replace" /\ Replace(r)

\* The run is cancelled, or reaches run_seconds, at an await between the calls.
Cancel(r) ==
  /\ pc[r] \in {"transform", "sink"}
  /\ pc' = [pc EXCEPT ![r] = "ending"]
  /\ UNCHANGED <<mode, attempt, staging, remembered, swaps, aside, target, published,
                 verdict, faults>>

\* The `finally` of execute: cleanup_staging drops every table the plugin
\* remembers, of whatever run, and forgets them all even if the DROPs fail.
EndRun(r) ==
  /\ pc[r] = "ending"
  /\ pc' = [pc EXCEPT ![r] = "over"]
  /\ \/ staging' = staging \ remembered /\ UNCHANGED faults
     \/ remembered # {} /\ faults < MaxFaults /\ faults' = faults + 1 /\ UNCHANGED staging
  /\ remembered' = {}
  /\ UNCHANGED <<mode, attempt, swaps, aside, target, published, verdict>>

AllOver == (\A r \in Runs : pc[r] = "over") /\ UNCHANGED vars

Next ==
  \/ \E r \in Runs : StartRun(r) \/ Materialize(r) \/ WriteSink(r) \/ Cancel(r) \/ EndRun(r)
  \/ AllOver

Spec == Init /\ [][Next]_vars
-----------------------------------------------------------------------------
TypeOK ==
  /\ mode \in Modes
  /\ pc \in [Runs -> {"waiting", "transform", "sink", "ending", "over"}]
  /\ attempt \in [Runs -> 1..MaxAttempts]
  /\ staging \subseteq Runs /\ remembered \subseteq Runs
  /\ swaps \subseteq Runs \X (1..MaxAttempts) /\ aside \subseteq Runs \X (1..MaxAttempts)
  /\ target \in Runs \cup {Previous, Missing}
  /\ published \in [Runs -> Nat]
  /\ verdict \in [Runs -> {"none", "no_input", "committed", "unknown", "failed"}]
  /\ faults \in 0..MaxFaults

\* With DDL that a failed transaction takes back, or with an insert, the rows of
\* a run reach the target at most once, whatever is retried after whichever
\* outcome: an unknown one may have been applied.
PublishedAtMostOnce ==
  mode.transactionalDdl \/ mode.intent = "insert_select" =>
    \A r \in Runs : published[r] <= 1

\* What the sink step of a run reports is so: "committed" was published, and
\* after "failed" the target holds nothing of this run, from no attempt.
VerdictIsTrue ==
  \A r \in Runs :
    /\ verdict[r] = "committed" => published[r] >= 1
    /\ verdict[r] = "failed" /\ (mode.transactionalDdl \/ mode.intent = "insert_select")
         => published[r] = 0

\* The target and the report of a run agree, on what was published and how often.
PublishedAsReported == TypeOK /\ PublishedAtMostOnce /\ VerdictIsTrue

\* "Swap staging into target without dropping the live table first": a target
\* that was there is there after every call, also one that failed half way.
TargetStays ==
  [][mode.transactionalDdl /\ target # Missing => target' # Missing]_vars

\* When all runs are over and no transaction went wrong, no table of theirs is
\* left in the database, however they were interleaved and cancelled.
StagingDropped ==
  faults = 0 /\ (\A r \in Runs : pc[r] = "over") =>
    staging = {} /\ swaps = {} /\ aside = {}

\* "Durable run-scoped staging tables": from the commit of its materialization
\* to the end of the run the staging table of a run is there for its sink.
StagingIsRunScoped == \A r \in Runs : pc[r] = "sink" => r \in staging

\* That holds of runs that take turns.
StagingKeptInTurn == ~mode.concurrent => StagingIsRunScoped

\* A staging table lives as long as its run, no shorter and no longer.
StagingLivesAsItsRun == StagingDropped /\ StagingKeptInTurn
=============================================================================
