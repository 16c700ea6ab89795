------------------------------ MODULE SourceRead ------------------------------
(***************************************************************************)
(* How the nodes of concurrent runs read their sources: the secret of the   *)
(* binding comes from the SecretCache of the runtime or from its provider,  *)
(* the storage is read, and the schema of what was read is observed and     *)
(* judged before the data is stored (_read_source, _resolve_secret,         *)
(* _observe_schema and the source branch of _run_node_once).                *)
(*                                                                         *)
(* A reader is a source node of one run: its orchestrator has a schema      *)
(* history of its own, and the cache is shared by all.  The coroutine of a  *)
(* reader is suspended in the provider and in the storage; what it does     *)
(* between two suspensions is one action.                                   *)
(***************************************************************************)
EXTENDS Integers, Sequences, FiniteSets, SequencesExt

CONSTANTS
  Readers, Refs,
  RefOf,            \* the secret reference of a reader's binding
  Declared,         \* the schema of a reader's contract
  Offered,          \* the schemas a source may have when it is read
  Policies,         \* drift policies: on a production profile or not, the action
                    \* for any change and whether it overrides that of production
  Sizes,            \* values of SecretCache.max_entries
  TTL,              \* SecretCache.default_ttl_seconds
  StepSeconds,      \* TimeoutPolicy.step_seconds
  MaxAttempts,      \* RetryPolicy.max_attempts of a reader's run
  MaxClock          \* bound on the clock

Field == [type : STRING, nullable : BOOLEAN, required : BOOLEAN]
DriftAction == {"record", "warn", "notify", "approve", "quarantine", "adapt", "block"}
Policy == [default : DriftAction, production : BOOLEAN, overridden : BOOLEAN]
IsSchema(schema) == \A name \in DOMAIN schema : schema[name] \in Field

ASSUME ReadAssumption ==
  /\ RefOf \in [Readers -> Refs]
  /\ \A r \in Readers : IsSchema(Declared[r]) /\ \A schema \in Offered[r] : IsSchema(schema)
  /\ Policies \subseteq Policy
  /\ Sizes \subseteq Nat /\ TTL \in Nat \ {0} /\ StepSeconds \in Nat \ {0}
  /\ MaxAttempts \in [Readers -> Nat \ {0}] /\ MaxClock \in Nat

VARIABLES
  policy,    \* of the runs, chosen once
  maxEntries,  \* of the cache, chosen once
  clock,     \* time.monotonic
  cache,     \* SecretCache._entries in the order of the dictionary
  pc, attempt, begun,  \* where each reader stands, and since when its attempt runs
  secret,    \* when the secret in a reader's hands was answered by the provider
  observed   \* the schemas recorded for a reader in its run's history

settings == <<policy, maxEntries>>
vars == <<policy, maxEntries, clock, cache, pc, attempt, begun, secret, observed>>

NoSecret == -1
Awaiting == {"resolving", "answered", "reading"}
-----------------------------------------------------------------------------
(* SecretCache *)

Entry(ref) == {i \in DOMAIN cache : cache[i].ref = ref}

\* Mutant of Expired: an entry is still good at the time it expires.
ExpiredLate(entry) == entry.expires < clock
Expired(entry) == entry.expires <= clock

Cached(ref) == \E i \in Entry(ref) : ~Expired(cache[i])

\* Keys are removed from the dictionary: the other entries keep their order.
Forget(refs) ==
  LET kept == {i \in DOMAIN cache : cache[i].ref \notin refs}
  IN \E place \in [1..Cardinality(kept) -> kept] :
       /\ \A i, j \in DOMAIN place : i < j => place[i] < place[j]
       /\ cache' = [i \in DOMAIN place |-> cache[place[i]]]

\* Mutant of Evicted: one entry too many is kept.
EvictedLate == IF Len(cache) > maxEntries /\ cache # <<>> THEN Tail(cache) ELSE cache

\* put makes room before it looks whether the reference has an entry already,
\* the oldest insertions first.
Evicted ==
  LET keep == IF maxEntries = 0 THEN 0 ELSE maxEntries - 1
  IN IF Len(cache) > keep THEN SubSeq(cache, Len(cache) - keep + 1, Len(cache)) ELSE cache

\* The entry of a reference is replaced where it stands, or added at the end.
Put(ref, answered) ==
  LET entry == [ref |-> ref, answered |-> answered, expires |-> clock + TTL]
      kept == Evicted
  IN IF \E i \in DOMAIN kept : kept[i].ref = ref
     THEN [i \in DOMAIN kept |-> IF kept[i].ref = ref THEN entry ELSE kept[i]]
     ELSE Append(kept, entry)
-----------------------------------------------------------------------------
(* Schema drift: a schema is a function from field names to fields. *)

Loosened(a, b) == (~a.nullable /\ b.nullable) \/ (a.required /\ ~b.required)

\* diff_normalized_schemas: what of the changes has the impact "breaking".
Breaking(baseline, candidate) ==
  \E name \in DOMAIN baseline :
    \/ name \notin DOMAIN candidate
    \/ LET a == baseline[name]
           b == candidate[name]
       IN \/ a.type # b.type
          \/ (a.nullable # b.nullable \/ a.required # b.required) /\ ~Loosened(a, b)

Changed(baseline, candidate) == baseline # candidate

\* SchemaDriftPolicy.decide
Decide(baseline, candidate) ==
  IF ~Changed(baseline, candidate) THEN "record"
  ELSE IF policy.production /\ ~policy.overridden /\ Breaking(baseline, candidate) THEN "block"
  ELSE policy.default

\* Mutant of Baseline: the observation is recorded before the previous one is
\* looked up.
BaselineOfItself(r, current) == current

\* evaluate_drift: the previous observation of the run, or else the contract.
Baseline(r, current) == IF observed[r] = <<>> THEN Declared[r] ELSE Last(observed[r])
-----------------------------------------------------------------------------
Init ==
  /\ policy \in Policies /\ maxEntries \in Sizes
  /\ clock = 0 /\ cache = <<>>
  /\ pc = [r \in Readers |-> "waiting"]
  /\ attempt = [r \in Readers |-> 1]
  /\ begun = [r \in Readers |-> 0]
  /\ secret = [r \in Readers |-> NoSecret]
  /\ observed = [r \in Readers |-> <<>>]

\* An attempt begins, and finds the secret in the cache ...
Hit(r) ==
  /\ pc[r] = "waiting" /\ Cached(RefOf[r])
  /\ pc' = [pc EXCEPT ![r] = "reading"]
  /\ begun' = [begun EXCEPT ![r] = clock]
  /\ secret' = [secret EXCEPT ![r] = cache[CHOOSE i \in Entry(RefOf[r]) : TRUE].answered]
  /\ UNCHANGED <<settings, clock, cache, attempt, observed>>

\* ... or drops it when it has expired, and asks the provider.
Miss(r) ==
  /\ pc[r] = "waiting" /\ ~Cached(RefOf[r])
  /\ Forget({RefOf[r]})
  /\ pc' = [pc EXCEPT ![r] = "resolving"]
  /\ begun' = [begun EXCEPT ![r] = clock]
  /\ UNCHANGED <<settings, clock, attempt, secret, observed>>

\* The provider takes the value of this moment; it may be a while until the
\* coroutine has it.
Answer(r) ==
  /\ pc[r] = "resolving"
  /\ pc' = [pc EXCEPT ![r] = "answered"]
  /\ secret' = [secret EXCEPT ![r] = clock]
  /\ UNCHANGED <<settings, clock, cache, attempt, begun, observed>>

\* The coroutine puts it into the cache and goes on to the storage.
Resolved(r) ==
  /\ pc[r] = "answered"
  /\ cache' = Put(RefOf[r], secret[r])
  /\ pc' = [pc EXCEPT ![r] = "reading"]
  /\ UNCHANGED <<settings, clock, attempt, begun, secret, observed>>

\* The attempt is over, and lets go of the secret.
Leave(r) ==
  /\ secret' = [secret EXCEPT ![r] = NoSecret]
  /\ begun' = [begun EXCEPT ![r] = 0]
  /\ UNCHANGED <<settings, clock, cache>>

\* Mutant of EndAttempt: the attempts are not counted.
EndAttemptForgetful(r) ==
  /\ Leave(r)
  /\ pc' = [pc EXCEPT ![r] = "waiting"]
  /\ UNCHANGED attempt

\* A failed attempt is the last, or another one follows (retry_on may not name
\* the exception).
EndAttempt(r) ==
  /\ Leave(r)
  /\ \/ /\ attempt[r] < MaxAttempts[r]
        /\ attempt' = [attempt EXCEPT ![r] = @ + 1]
        /\ pc' = [pc EXCEPT ![r] = "waiting"]
     \/ /\ pc' = [pc EXCEPT ![r] = "failed"]
        /\ UNCHANGED attempt

\* The provider or the storage raises, or the attempt times out.
Raise(r) ==
  /\ pc[r] \in Awaiting
  /\ EndAttempt(r)
  /\ UNCHANGED observed

\* The records are there: their schema is recorded and judged, and freshness and
\* contract are checked, without a suspension.
Read(r) ==
  /\ pc[r] = "reading"
  /\ \E schema \in Offered[r] :
       /\ observed' = [observed EXCEPT ![r] = Append(@, schema)]
       /\ \/ /\ Decide(Baseline(r, schema), schema) # "block"
             /\ Leave(r)
             /\ pc' = [pc EXCEPT ![r] = "stored"]
             /\ UNCHANGED attempt
          \/ EndAttempt(r)  \* blocked, stale, incomplete or invalid

\* SecretCache.revoke of the entries of a provider or of a name, and invalidate.
Revoke(refs) ==
  /\ \E i \in DOMAIN cache : cache[i].ref \in refs
  /\ Forget(refs)
  /\ UNCHANGED <<settings, clock, pc, attempt, begun, secret, observed>>

\* No attempt outlives its timeout (anyio.fail_after).
Tick ==
  /\ clock < MaxClock
  /\ \A r \in Readers : pc[r] \in Awaiting => clock - begun[r] < StepSeconds
  /\ clock' = clock + 1
  /\ UNCHANGED <<settings, cache, pc, attempt, begun, secret, observed>>

Step(r) == Hit(r) \/ Miss(r) \/ Answer(r) \/ Resolved(r) \/ Raise(r) \/ Read(r)
Next ==
  \/ \E r \in Readers : Step(r)
  \/ \E refs \in SUBSET Refs : Revoke(refs)
  \/ Tick

Spec == Init /\ [][Next]_vars
-----------------------------------------------------------------------------
TypeOK ==
  /\ policy \in Policies /\ maxEntries \in Sizes /\ clock \in 0..MaxClock
  /\ \A i \in DOMAIN cache : cache[i] \in [ref : Refs, answered : Nat, expires : Nat]
  /\ pc \in [Readers -> {"waiting", "stored", "failed"} \cup Awaiting]
  /\ \A r \in Readers : attempt[r] \in 1..MaxAttempts[r]
  /\ begun \in [Readers -> 0..MaxClock]
  /\ secret \in [Readers -> {NoSecret} \cup 0..MaxClock]
  /\ \A r \in Readers : Len(observed[r]) <= attempt[r]

\* "Secret caching must be bounded": readers that miss together do not push the
\* cache over max_entries (one entry if that is 0), nor give a reference two.
CacheIsBounded ==
  /\ Len(cache) <= (IF maxEntries = 0 THEN 1 ELSE maxEntries)
  /\ \A i, j \in DOMAIN cache : cache[i].ref = cache[j].ref => i = j

\* "... and short-lived": no attempt is begun with a secret that the provider
\* answered longer ago than the time to live and the time an attempt may take to
\* put it into the cache.
SecretsAreFresh ==
  \A r \in Readers : pc[r] \in {"answered", "reading"} =>
    secret[r] # NoSecret /\ begun[r] - secret[r] < TTL + StepSeconds

\* The cache is "bounded and short-lived", however the readers interleave.
CacheIsBoundedAndFresh == TypeOK /\ CacheIsBounded /\ SecretsAreFresh

\* SchemaDriftPolicy.production_fail_closed
FailsClosed == policy.production /\ ~policy.overridden

\* Production fails closed on drift: data that breaks the contract is stored only
\* by a retry, after an earlier attempt of the run has observed data that broke
\* the contract.
DriftNeedsRetry ==
  FailsClosed => \A r \in Readers :
    pc[r] = "stored" /\ Breaking(Declared[r], Last(observed[r])) =>
      \E i \in 1..(Len(observed[r]) - 1) : Breaking(Declared[r], observed[r][i])
=============================================================================
