--------------------------- MODULE ResourceManager ---------------------------
(***************************************************************************)
(* The ResourceManager of a PipelineRuntime and the step attempts that use  *)
(* it: _invoke_transform gets every injected resource under the scope       *)
(* "attempt", _execute_node cleans that scope up when the attempt leaves    *)
(* the step middleware.  Several runs may share one runtime, hence one      *)
(* manager and one lock.                                                    *)
(*                                                                         *)
(* The lock is held across the await of a provider, and only there: what    *)
(* cleanup_scope does under it has no await in it.  A resource is named by  *)
(* who opened it, in which attempt, under which name; its cleanup is what   *)
(* `__aexit__` of its context manager does.                                 *)
(***************************************************************************)
EXTENDS Naturals

CONSTANTS
  RunIds, Steps,      \* runs sharing the runtime, steps of the pipeline they run
  Names,            \* resources an implementation may have injected
  MaxAttempts,      \* request.retry.max_attempts
  Modes,            \* the circumstances the manager is used under
  Nothing           \* no resource, no lock holder

Tasks == RunIds \X Steps
Resources == [by : Tasks, attempt : 1..MaxAttempts, name : Names]
CacheKey == [name : Names, step : Steps, attempt : 1..MaxAttempts]

\* tasks: the steps of each run; names: what they have injected; concurrent: may two runs be in flight
\* at once; cancellable: runs that may be cancelled or reach run_seconds.
ModeType == [tasks : SUBSET Tasks, names : SUBSET Names, concurrent : BOOLEAN,
             cancellable : SUBSET RunIds, cleanupMayRaise : BOOLEAN]

ASSUME ResourceAssumption ==
  /\ MaxAttempts \in Nat \ {0}
  /\ Modes \subseteq ModeType
  /\ Nothing \notin Resources /\ Nothing \notin Tasks /\ Nothing \notin Names

VARIABLES
  mode,       \* chosen once, never written
  cache,      \* ResourceManager._cache
  lock,       \* the task that awaits a provider under _lock
  place, attempt,
  asked,      \* the name whose provider a task awaits
  held,       \* the resources in the kwargs of a task's attempt
  doomed,     \* the entries cleanup_scope popped and has still to clean up
  opened, closings,   \* resources set up; how often each was cleaned up
  cancelled   \* runs whose cancel scope is cancelled

managerVars == <<mode, cache, lock, place, attempt, asked, held, doomed, opened, closings, cancelled>>

Run(task) == task[1]
Step(task) == task[2]
KeyOf(task, name) == [name |-> name, step |-> Step(task), attempt |-> attempt[task]]
Missing(task) == {name \in mode.names : \A r \in held[task] : r.name # name}
\* Mutants of ScopeOf: the scope key lost its step, or is a stale attempt's.
ScopeWithoutStep(task) == {key \in CacheKey : key.attempt = attempt[task]}
ScopeOfNext(task) == {key \in CacheKey : key.step = Step(task) /\ key.attempt = attempt[task] + 1}
ScopeOf(task) == {key \in CacheKey : key.step = Step(task) /\ key.attempt = attempt[task]}
Outside(task) == place[task] \in {"idle", "done", "gone"}
\* Mutant of MayLock: the lock is not taken before a provider is awaited.
MayLockAnyway(task) == Run(task) \notin cancelled
MayLock(task) == lock = Nothing /\ Run(task) \notin cancelled
\* Mutant of WithoutLock: the lock is not let go of when its holder leaves.
KeepLock(task) == lock
WithoutLock(task) == IF lock = task THEN Nothing ELSE lock

ManagerInit ==
  /\ mode \in Modes
  /\ cache = [key \in CacheKey |-> Nothing]
  /\ lock = Nothing
  /\ place = [task \in Tasks |-> IF task \in mode.tasks THEN "idle" ELSE "done"]
  /\ attempt = [task \in Tasks |-> 0]
  /\ asked = [task \in Tasks |-> Nothing]
  /\ held = [task \in Tasks |-> {}]
  /\ doomed = [task \in Tasks |-> {}]
  /\ opened = {}
  /\ closings = [r \in Resources |-> 0]
  /\ cancelled = {}

\* _execute_node starts an attempt.
BeginAttempt(task) ==
  /\ place[task] = "idle"
  /\ ~mode.concurrent => \A other \in Tasks :
        Run(other) # Run(task) => Outside(other) /\ (place[other] = "idle" => attempt[other] = 0)
  /\ place' = [place EXCEPT ![task] = "acquiring"]
  /\ attempt' = [attempt EXCEPT ![task] = @ + 1]
  /\ UNCHANGED <<mode, cache, lock, asked, held, doomed, opened, closings, cancelled>>

\* get finds the name under the key of the step and attempt.
Hit(task, name) ==
  /\ place[task] = "acquiring" /\ MayLock(task)
  /\ name \in Missing(task)
  /\ cache[KeyOf(task, name)] # Nothing
  /\ held' = [held EXCEPT ![task] = @ \cup {cache[KeyOf(task, name)]}]
  /\ UNCHANGED <<mode, asked, cache, lock, place, attempt, doomed, opened, closings, cancelled>>

\* Mutant of Miss: the cache entry is made before the provider has returned.
MissCachesFirst(task, name) ==
  /\ place[task] = "acquiring" /\ MayLock(task)
  /\ name \in Missing(task)
  /\ cache[KeyOf(task, name)] = Nothing
  /\ lock' = task
  /\ asked' = [asked EXCEPT ![task] = name]
  /\ place' = [place EXCEPT ![task] = "providing"]
  /\ cache' = [cache EXCEPT ![KeyOf(task, name)] =
                 [by |-> task, attempt |-> attempt[task], name |-> name]]
  /\ UNCHANGED <<mode, attempt, held, doomed, opened, closings, cancelled>>

\* get does not, and awaits the provider inside `async with self._lock`.
Miss(task, name) ==
  /\ place[task] = "acquiring" /\ MayLock(task)
  /\ name \in Missing(task)
  /\ cache[KeyOf(task, name)] = Nothing
  /\ lock' = task
  /\ asked' = [asked EXCEPT ![task] = name]
  /\ place' = [place EXCEPT ![task] = "providing"]
  /\ UNCHANGED <<mode, cache, attempt, held, doomed, opened, closings, cancelled>>

\* The provider returns (and __aenter__ with it): cached, and the lock let go.
Provide(task) ==
  /\ place[task] = "providing"
  /\ LET name == asked[task]
         new == [by |-> task, attempt |-> attempt[task], name |-> name]
     IN /\ cache' = [cache EXCEPT ![KeyOf(task, name)] = new]
        /\ held' = [held EXCEPT ![task] = @ \cup {new}]
        /\ opened' = opened \cup {new}
  /\ lock' = Nothing
  /\ asked' = [asked EXCEPT ![task] = Nothing]
  /\ place' = [place EXCEPT ![task] = "acquiring"]
  /\ UNCHANGED <<mode, attempt, doomed, closings, cancelled>>

\* Every injected name is in kwargs: the implementation is called.
Invoke(task) ==
  /\ place[task] = "acquiring" /\ Missing(task) = {}
  /\ place' = [place EXCEPT ![task] = "body"]
  /\ UNCHANGED <<mode, cache, lock, attempt, asked, held, doomed, opened, closings, cancelled>>

\* Mutant of LeaveMiddleware: no `finally`, a step whose attempt raised is
\* retried without its scope cleaned up.
LeaveWithoutFinally(task) ==
  /\ place[task] \in {"providing", "body"}
  /\ \/ place' = [place EXCEPT ![task] = "left"]
     \/ attempt[task] < MaxAttempts /\ place' = [place EXCEPT ![task] = "idle"]
  /\ lock' = WithoutLock(task)
  /\ asked' = [asked EXCEPT ![task] = Nothing]
  /\ held' = [held EXCEPT ![task] = {}]
  /\ UNCHANGED <<mode, cache, attempt, doomed, opened, closings, cancelled>>

\* The attempt leaves step_middleware.run from where it awaits code outside the
\* manager: the body or a provider returned, raised or ran out of step_seconds
\* (a name without provider raises at the same place).
LeaveMiddleware(task) ==
  /\ place[task] \in {"providing", "body"}
  /\ place' = [place EXCEPT ![task] = "left"]
  /\ lock' = WithoutLock(task)
  /\ asked' = [asked EXCEPT ![task] = Nothing]
  /\ held' = [held EXCEPT ![task] = {}]
  /\ UNCHANGED <<mode, cache, attempt, doomed, opened, closings, cancelled>>

\* step_seconds runs out while the task waits for the lock.
TimeOutWaiting(task) ==
  /\ place[task] = "acquiring" /\ lock # Nothing
  /\ place' = [place EXCEPT ![task] = "left"]
  /\ held' = [held EXCEPT ![task] = {}]
  /\ UNCHANGED <<mode, asked, cache, lock, attempt, doomed, opened, closings, cancelled>>

\* Mutant of PopScope: the entries are cleaned up but stay in the cache.
PopNothing(task) ==
  /\ place[task] = "left" /\ MayLock(task)
  /\ place' = [place EXCEPT ![task] = "cleaning"]
  /\ doomed' = [doomed EXCEPT ![task] = {cache[key] : key \in ScopeOf(task)} \ {Nothing}]
  /\ UNCHANGED <<mode, cache, lock, attempt, asked, held, opened, closings, cancelled>>

\* cleanup_scope("attempt", step:attempt) pops its entries under the lock ...
PopScope(task) ==
  /\ place[task] = "left" /\ MayLock(task)
  /\ place' = [place EXCEPT ![task] = "cleaning"]
  /\ doomed' = [doomed EXCEPT ![task] = {cache[key] : key \in ScopeOf(task)} \ {Nothing}]
  /\ cache' = [key \in CacheKey |-> IF key \in ScopeOf(task) THEN Nothing ELSE cache[key]]
  /\ UNCHANGED <<mode, lock, attempt, asked, held, opened, closings, cancelled>>

\* ... and cleans them up one by one after letting go of it; a cleanup that
\* raises ends the loop, and the entries behind it were already popped.
CleanUp(task) ==
  /\ place[task] = "cleaning"
  /\ \E r \in doomed[task] :
       /\ closings' = [closings EXCEPT ![r] = @ + 1]
       /\ \/ doomed' = [doomed EXCEPT ![task] = @ \ {r}]
          \/ mode.cleanupMayRaise /\ doomed' = [doomed EXCEPT ![task] = {}]
  /\ UNCHANGED <<mode, cache, lock, place, attempt, asked, held, opened, cancelled>>

\* Mutant of EndAttempt: one attempt more than max_attempts.
EndAttemptOneMore(task) ==
  /\ place[task] = "cleaning" /\ doomed[task] = {}
  /\ \/ attempt[task] <= MaxAttempts /\ place' = [place EXCEPT ![task] = "idle"]
     \/ place' = [place EXCEPT ![task] = "done"]
  /\ UNCHANGED <<mode, cache, lock, attempt, asked, held, doomed, opened, closings, cancelled>>

\* The attempt is over: the step is retried, or its task ends.
EndAttempt(task) ==
  /\ place[task] = "cleaning" /\ doomed[task] = {}
  /\ \/ attempt[task] < MaxAttempts /\ place' = [place EXCEPT ![task] = "idle"]
     \/ place' = [place EXCEPT ![task] = "done"]
  /\ UNCHANGED <<mode, cache, lock, attempt, asked, held, doomed, opened, closings, cancelled>>

Cancel(run) ==
  /\ run \in mode.cancellable \ cancelled
  /\ \E step \in Steps : ~Outside(<<run, step>>)
  /\ cancelled' = cancelled \cup {run}
  /\ UNCHANGED <<mode, cache, lock, place, attempt, asked, held, doomed, opened, closings>>

\* A cancelled task leaves from the await it is at.  The cleanup_scope of its
\* `finally` awaits the lock in a cancelled scope, which raises before it takes
\* the lock: nothing is popped.  A cleanup that was under way is cut short.
Unwind(task) ==
  /\ Run(task) \in cancelled /\ place[task] \notin {"done", "gone"}
  /\ place' = [place EXCEPT ![task] = "gone"]
  /\ lock' = WithoutLock(task)
  /\ asked' = [asked EXCEPT ![task] = Nothing]
  /\ held' = [held EXCEPT ![task] = {}]
  /\ doomed' = [doomed EXCEPT ![task] = {}]
  /\ UNCHANGED <<mode, cache, attempt, opened, closings, cancelled>>

Get(task) == \E name \in mode.names : Hit(task, name) \/ Miss(task, name)

TaskStep(task) ==
  \/ BeginAttempt(task) \/ Get(task) \/ Provide(task) \/ Invoke(task)
  \/ LeaveMiddleware(task) \/ PopScope(task) \/ CleanUp(task)
  \/ EndAttempt(task) \/ Unwind(task)

AllOver == /\ \A task \in Tasks : place[task] \in {"done", "gone"}
           /\ UNCHANGED managerVars

ManagerNext ==
  \/ \E task \in Tasks : TaskStep(task) \/ TimeOutWaiting(task)
  \/ \E run \in RunIds : Cancel(run)
  \/ AllOver

\* The event loop runs every ready task, providers and bodies return or raise,
\* and the lock is handed to its waiters in order.  Timeouts and cancellation
\* are not owed to anyone.
Fairness == \A task \in Tasks : WF_managerVars(TaskStep(task))
ManagerSpec == ManagerInit /\ [][ManagerNext]_managerVars /\ Fairness
-----------------------------------------------------------------------------
ManagerTypes ==
  /\ mode \in Modes
  /\ cache \in [CacheKey -> Resources \cup {Nothing}]
  /\ lock \in Tasks \cup {Nothing}
  /\ asked \in [Tasks -> Names \cup {Nothing}]
  /\ place \in [Tasks -> {"idle", "acquiring", "providing", "body", "left",
                       "cleaning", "done", "gone"}]
  /\ attempt \in [Tasks -> 0..MaxAttempts]
  /\ held \in [Tasks -> SUBSET Resources]
  /\ doomed \in [Tasks -> SUBSET Resources]
  /\ opened \subseteq Resources
  /\ closings \in [Resources -> Nat]
  /\ cancelled \subseteq RunIds

\* "yield cleanup exactly once" (resources.py:33): whatever runs share the manager and whichever
\* cleanup raises or is cut short, no resource is cleaned up a second time
\* (cleanup_scope pops under the lock what it cleans up after it).
CleanedAtMostOnce == \A r \in Resources : closings[r] <= 1

\* What get may still hand out is set up and not yet cleaned up, even while
\* another task's cleanup_scope is between its pop and its cleanups.
CacheIsLive ==
  \A key \in CacheKey : cache[key] # Nothing =>
    cache[key] \in opened /\ closings[cache[key]] = 0

Undisturbed == mode.cancellable = {} /\ ~mode.cleanupMayRaise
OneRunAtATime == ~mode.concurrent

\* Two tasks that miss the same key do not both fill it, one over the other:
\* when every task is over, each resource that was set up was cleaned up, by
\* the attempt that opened it or by another one of the same key.
NothingLeaks ==
  Undisturbed /\ (\A task \in Tasks : place[task] = "done") => \A r \in opened : closings[r] = 1

\* No attempt is left working with a resource that was cleaned up under it,
\* as long as runs take turns, whichever of them was cancelled before.
NotCleanedInUse ==
  OneRunAtATime => \A task \in Tasks : \A r \in held[task] : closings[r] = 0

\* What get hands out is live while it is cached and while it is used, and is cleaned
\* up once, in the end.
CacheIsSound == ManagerTypes /\ CleanedAtMostOnce /\ CacheIsLive /\ NothingLeaks /\ NotCleanedInUse

\* An attempt works with resources set up for it and for no earlier attempt,
\* other step or other run (the scope "attempt" of the injection).
FreshPerAttempt ==
  \A task \in Tasks : \A r \in held[task] : r.by = task /\ r.attempt = attempt[task]

\* That holds of runs that take turns and of which none is cancelled.
FreshWhenAlone == OneRunAtATime /\ Undisturbed => FreshPerAttempt

\* A resource set up for an attempt has been cleaned up when that attempt is
\* over, whether it succeeded, failed or was cancelled.
CleanedUp ==
  \A r \in opened :
    place[r.by] \in {"idle", "done", "gone"} \/ attempt[r.by] > r.attempt => closings[r] = 1

\* That holds, success or failure, of runs that take turns, if none is cancelled
\* and no cleanup raises.
CleanedUpUndisturbed == OneRunAtATime /\ Undisturbed => CleanedUp

\* The scope "attempt" is kept at both ends by runs that nothing disturbs.
UndisturbedScopes == FreshWhenAlone /\ CleanedUpUndisturbed

\* No task waits for the lock for ever: a run that is cancelled or fails while
\* it awaits a provider leaves the lock to the others.
EveryTaskEnds == \A task \in Tasks : <>(place[task] \in {"done", "gone"})
=============================================================================
