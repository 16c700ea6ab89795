--------------------------- MODULE SourceReadProofs ---------------------------
(***************************************************************************)
(* The secret cache stays within its bound and hands out fresh secrets, and *)
(* production stores no data that breaks the contract at first sight: for   *)
(* any number of readers, references and drift policies.                    *)
(*                                                                         *)
(* And what comes before a run: a pipeline that validates can run, whatever *)
(* statements its classes were written with.                                *)
(***************************************************************************)
EXTENDS SourceRead, Declaration, FiniteSetTheorems, TLAPS

-----------------------------------------------------------------------------
(* The dictionary of the cache *)

SecretEntry == [ref : Refs, answered : Nat, expires : Nat]
Unique(entries) == \A i, j \in DOMAIN entries : entries[i].ref = entries[j].ref => i = j
Capacity == IF maxEntries = 0 THEN 1 ELSE maxEntries

\* An entry expires a time to live after it was put, and an attempt puts it at
\* most StepSeconds after the answer.
ShortLived(entry) ==
  entry.answered <= clock /\ entry.expires <= entry.answered + StepSeconds + TTL

CacheInv ==
  /\ cache \in Seq(SecretEntry)
  /\ Len(cache) <= Capacity
  /\ Unique(cache)
  /\ \A i \in DOMAIN cache : ShortLived(cache[i])

\* What removing keys leaves has been in the cache, in its order.
LEMMA ForgetKeeps ==
  ASSUME CacheInv, NEW refs, Forget(refs), maxEntries \in Nat, UNCHANGED <<maxEntries, clock>>
  PROVE CacheInv'
<1> DEFINE kept == {i \in DOMAIN cache : cache[i].ref \notin refs}
<1>1. DOMAIN cache = 1..Len(cache) /\ Len(cache) \in Nat
  BY DEF CacheInv
<1>2. IsFiniteSet(kept) /\ Cardinality(kept) \in Nat /\ Cardinality(kept) <= Len(cache)
  <2>1. IsFiniteSet(1..Len(cache)) /\ Cardinality(1..Len(cache)) = Len(cache)
    <3> DEFINE size == Len(cache)
    <3>0. size \in Nat /\ 1 \in Int /\ size \in Int
      BY <1>1
    <3> HIDE DEF size
    <3>1. IsFiniteSet(1..size) /\ Cardinality(1..size) = IF 1 > size THEN 0 ELSE size - 1 + 1
      BY <3>0, FS_Interval
    <3>2. Cardinality(1..size) = size
      BY <3>0, <3>1
    <3> QED
      BY <3>1, <3>2 DEF size
  <2>2. kept \subseteq 1..Len(cache)
    BY <1>1
  <2>3. IsFiniteSet(kept) /\ Cardinality(kept) <= Cardinality(1..Len(cache))
    BY <2>1, <2>2, FS_Subset
  <2> QED
    BY <2>1, <2>3, FS_CardinalityType
<1>3. PICK place \in [1..Cardinality(kept) -> kept] :
        /\ \A i, j \in DOMAIN place : i < j => place[i] < place[j]
        /\ cache' = [i \in DOMAIN place |-> cache[place[i]]]
  BY DEF Forget
<1>4. kept \subseteq DOMAIN cache
  OBVIOUS
<1> DEFINE count == Cardinality(kept)
<1> HIDE DEF kept
<1>5. /\ DOMAIN place = 1..count /\ DOMAIN cache' = 1..count /\ count \in Nat
      /\ \A i \in 1..count : place[i] \in DOMAIN cache /\ cache'[i] = cache[place[i]]
  BY <1>2, <1>3, <1>4
<1> HIDE DEF count
<1>6. cache' \in Seq(SecretEntry) /\ Len(cache') = count
  <2>1. \A i \in 1..count : cache'[i] \in SecretEntry
    BY <1>5 DEF CacheInv
  <2>2. cache' = [i \in 1..count |-> cache[place[i]]]
    BY <1>3, <1>5
  <2> QED
    BY <1>5, <2>1, <2>2
<1>7. Unique(cache')
  <2> SUFFICES ASSUME NEW i \in 1..count, NEW j \in 1..count, cache'[i].ref = cache'[j].ref
               PROVE i = j
    BY <1>5 DEF Unique
  <2>1. place[i] = place[j]
    BY <1>5 DEF CacheInv, Unique
  <2>2. place[i] \in Int /\ place[j] \in Int
    BY <1>1, <1>5
  <2> QED
    BY <1>3, <1>5, <2>1, <2>2
<1>8. \A i \in DOMAIN cache' : ShortLived(cache'[i])
  BY <1>5 DEF CacheInv
<1>9. count <= Len(cache) /\ Capacity' = Capacity /\ Capacity \in Nat
  BY <1>2 DEF Capacity, count
<1>10. \A e : ShortLived(e)' <=> ShortLived(e)
  BY DEF ShortLived
<1>11. Len(cache') <= Capacity'
  BY <1>1, <1>5, <1>6, <1>9 DEF CacheInv
<1> QED
  BY <1>6, <1>7, <1>8, <1>10, <1>11 DEF CacheInv, Unique

\* What eviction leaves has room for one more entry, or is empty.
LEMMA EvictedKeeps ==
  ASSUME CacheInv, maxEntries \in Nat
  PROVE /\ Evicted \in Seq(SecretEntry)
        /\ Len(Evicted) < Capacity
        /\ Unique(Evicted)
        /\ \A i \in DOMAIN Evicted : ShortLived(Evicted[i])
<1> DEFINE keep == IF maxEntries = 0 THEN 0 ELSE maxEntries - 1
           first == Len(cache) - keep
<1>1. keep \in Nat /\ keep < Capacity /\ Len(cache) \in Nat /\ cache \in Seq(SecretEntry)
  BY DEF Capacity, CacheInv
<1>2. CASE Len(cache) <= keep
  <2>1. Evicted = cache
    BY <1>1, <1>2 DEF Evicted
  <2> HIDE DEF keep
  <2>2. Len(cache) < Capacity
    BY <1>1, <1>2 DEF Capacity
  <2> QED
    BY <1>1, <2>1, <2>2 DEF CacheInv, Unique
<1>3. CASE Len(cache) > keep
  <2>1. Evicted = SubSeq(cache, first + 1, Len(cache)) /\ first \in Nat /\ Len(cache) - first = keep
    BY <1>1, <1>3 DEF Evicted
  <2> HIDE DEF first
  <2>2. /\ Evicted \in Seq(SecretEntry) /\ Len(Evicted) = keep
        /\ \A i \in 1..keep : Evicted[i] = cache[first + i] /\ first + i \in DOMAIN cache
    BY <1>1, <2>1
  <2> HIDE DEF keep
  <2>3. DOMAIN Evicted = 1..keep
    BY <1>1, <2>2
  <2>4. Unique(Evicted)
    <3> SUFFICES ASSUME NEW i \in 1..keep, NEW j \in 1..keep, Evicted[i].ref = Evicted[j].ref
                 PROVE i = j
      BY <2>3 DEF Unique
    <3>1. first + i = first + j
      BY <2>2 DEF CacheInv, Unique
    <3> QED
      BY <1>1, <2>1, <3>1
  <2> QED
    BY <1>1, <2>2, <2>3, <2>4 DEF CacheInv
<1> QED
  BY <1>1, <1>2, <1>3

\* put leaves the cache within its bound, with one entry for the reference.
LEMMA PutKeeps ==
  ASSUME CacheInv, maxEntries \in Nat, NEW ref \in Refs, NEW answered \in Nat,
         clock \in Nat, TTL \in Nat, StepSeconds \in Nat,
         answered <= clock, clock <= answered + StepSeconds,
         cache' = Put(ref, answered), UNCHANGED <<maxEntries, clock>>
  PROVE CacheInv'
<1> DEFINE entry == [ref |-> ref, answered |-> answered, expires |-> clock + TTL]
           kept == Evicted
<1>1. entry \in SecretEntry /\ ShortLived(entry)
  BY DEF SecretEntry, ShortLived
<1>2. /\ kept \in Seq(SecretEntry) /\ Len(kept) < Capacity /\ Unique(kept)
      /\ \A i \in DOMAIN kept : ShortLived(kept[i])
  BY EvictedKeeps
<1>3. cache' = IF \E i \in DOMAIN kept : kept[i].ref = ref
               THEN [i \in DOMAIN kept |-> IF kept[i].ref = ref THEN entry ELSE kept[i]]
               ELSE Append(kept, entry)
  BY DEF Put
<1>4. entry.ref = ref
  OBVIOUS
<1>5. Capacity \in Nat /\ Capacity' = Capacity /\ \A e : ShortLived(e)' <=> ShortLived(e)
  BY DEF Capacity, ShortLived
<1> HIDE DEF entry, kept
<1>6. DOMAIN kept = 1..Len(kept) /\ Len(kept) \in Nat
  BY <1>2
<1>7. CASE \E i \in DOMAIN kept : kept[i].ref = ref
  <2>1. cache' = [i \in 1..Len(kept) |-> IF kept[i].ref = ref THEN entry ELSE kept[i]]
    BY <1>3, <1>6, <1>7
  <2>2. \A i \in 1..Len(kept) : /\ cache'[i] \in SecretEntry /\ ShortLived(cache'[i])
                                /\ cache'[i].ref = kept[i].ref
    BY <1>1, <1>2, <1>4, <1>6, <2>1
  <2>3. cache' \in Seq(SecretEntry) /\ Len(cache') = Len(kept)
    BY <1>1, <1>2, <1>6, <2>1
  <2>4. DOMAIN cache' = 1..Len(kept)
    BY <2>1
  <2>5. Unique(cache')
    BY <1>2, <1>6, <2>2, <2>4 DEF Unique
  <2> QED
    BY <1>2, <1>5, <1>6, <2>2, <2>3, <2>4, <2>5 DEF CacheInv, Unique
<1>8. CASE ~\E i \in DOMAIN kept : kept[i].ref = ref
  <2>1. cache' = Append(kept, entry)
    BY <1>3, <1>8
  <2>2. /\ cache' \in Seq(SecretEntry) /\ Len(cache') = Len(kept) + 1
        /\ DOMAIN cache' = 1..(Len(kept) + 1)
        /\ cache'[Len(kept) + 1] = entry
        /\ \A i \in 1..Len(kept) : cache'[i] = kept[i]
    BY <1>1, <1>2, <1>6, <2>1
  <2>3. \A i \in DOMAIN cache' : i \in 1..Len(kept) \/ i = Len(kept) + 1
    BY <1>6, <2>2
  <2>4. Unique(cache')
    <3> SUFFICES ASSUME NEW i \in DOMAIN cache', NEW j \in DOMAIN cache',
                        cache'[i].ref = cache'[j].ref
                 PROVE i = j
      BY DEF Unique
    <3> QED
      BY <1>2, <1>4, <1>6, <1>8, <2>2, <2>3 DEF Unique
  <2>5. \A i \in DOMAIN cache' : ShortLived(cache'[i])
    BY <1>1, <1>2, <1>6, <2>2, <2>3
  <2> QED
    BY <1>2, <1>5, <1>6, <2>2, <2>4, <2>5 DEF CacheInv, Unique
<1> QED
  BY <1>7, <1>8
-----------------------------------------------------------------------------
(* The readers *)

\* The types, with the functions written out; and an attempt still to be ended
\* has observed no schema yet.
ReaderInv ==
  /\ policy \in Policies /\ maxEntries \in Sizes /\ clock \in 0..MaxClock
  /\ pc \in [Readers -> {"waiting", "stored", "failed"} \cup Awaiting]
  /\ attempt \in [Readers -> Nat]
  /\ begun \in [Readers -> 0..MaxClock]
  /\ secret \in [Readers -> {NoSecret} \cup 0..MaxClock]
  /\ observed \in [Readers -> Seq(UNION {Offered[r] : r \in Readers})]
  /\ \A r \in Readers :
       /\ attempt[r] \in 1..MaxAttempts[r]
       /\ \A i \in DOMAIN observed[r] : observed[r][i] \in Offered[r]
       /\ Len(observed[r]) <= attempt[r]
       /\ pc[r] \in {"waiting"} \cup Awaiting => Len(observed[r]) < attempt[r]

\* An attempt is not older than its timeout, and has either asked after it began
\* or found an entry that had not expired.
FreshInv ==
  \A r \in Readers :
    /\ begun[r] <= clock
    /\ pc[r] \in Awaiting => clock <= begun[r] + StepSeconds
    /\ pc[r] = "answered" => secret[r] # NoSecret /\ begun[r] <= secret[r]
    /\ pc[r] \in {"answered", "reading"} =>
         secret[r] # NoSecret /\ secret[r] <= clock /\ begun[r] - secret[r] < TTL + StepSeconds

ReadInv == ReaderInv /\ CacheInv /\ FreshInv

LEMMA Settings ==
  ASSUME ReaderInv
  PROVE /\ maxEntries \in Nat /\ clock \in Nat /\ clock \in 0..MaxClock /\ MaxClock \in Nat
        /\ TTL \in Nat /\ TTL > 0 /\ StepSeconds \in Nat /\ StepSeconds > 0
        /\ \A r \in Readers : RefOf[r] \in Refs /\ MaxAttempts[r] \in Nat \ {0}
  BY ReadAssumption DEF ReaderInv

LEMMA Numbers ==
  ASSUME ReaderInv, NEW r \in Readers
  PROVE /\ begun[r] \in Nat /\ begun[r] \in 0..MaxClock
        /\ secret[r] \in Int /\ (secret[r] # NoSecret => secret[r] \in Nat)
        /\ attempt[r] \in Nat /\ Len(observed[r]) \in Nat
  BY Settings DEF ReaderInv, NoSecret

LEMMA ReadInit == Init => ReadInv
<1> SUFFICES ASSUME Init PROVE ReadInv
  OBVIOUS
<1>1. ReaderInv
  BY ReadAssumption DEF Init, ReaderInv, Awaiting, NoSecret
<1>2. CacheInv
  BY ReadAssumption DEF Init, CacheInv, Capacity, Unique
<1>3. FreshInv
  BY DEF Init, FreshInv, Awaiting
<1> QED
  BY <1>1, <1>2, <1>3 DEF ReadInv

LEMMA HitKeeps ==
  ASSUME ReadInv, NEW r \in Readers, Hit(r)
  PROVE ReadInv'
<1> USE DEF ReadInv
<1>0. UNCHANGED <<policy, maxEntries, clock, cache, attempt, observed>>
  BY DEF Hit, settings
<1> DEFINE i == CHOOSE i \in Entry(RefOf[r]) : TRUE
<1>1. i \in DOMAIN cache /\ cache[i].ref = RefOf[r]
  BY DEF Hit, Cached, Entry
<1>2. ~Expired(cache[i])
  <2>1. PICK j \in Entry(RefOf[r]) : ~Expired(cache[j])
    BY DEF Hit, Cached
  <2>2. i = j
    BY <1>1, <2>1 DEF Entry, CacheInv, Unique
  <2> QED
    BY <2>1, <2>2
<1>3. secret' = [secret EXCEPT ![r] = cache[i].answered]
  BY DEF Hit
<1> HIDE DEF i
<1>4. cache[i] \in SecretEntry /\ ShortLived(cache[i])
  BY <1>1 DEF CacheInv
<1>5. cache[i].answered \in 0..MaxClock /\ clock - cache[i].answered < TTL + StepSeconds
  BY <1>2, <1>4, Settings DEF SecretEntry, ShortLived, Expired
<1>6. ReaderInv'
  BY <1>0, <1>3, <1>5 DEF Hit, ReaderInv, Awaiting
<1>7. CacheInv'
  BY <1>0 DEF CacheInv, Capacity, Unique, ShortLived
<1>8. FreshInv'
  <2> SUFFICES ASSUME NEW q \in Readers
               PROVE /\ begun'[q] <= clock
                     /\ pc'[q] \in Awaiting => clock <= begun'[q] + StepSeconds
                     /\ pc'[q] = "answered" => secret'[q] # NoSecret /\ begun'[q] <= secret'[q]
                     /\ pc'[q] \in {"answered", "reading"} =>
                          /\ secret'[q] # NoSecret /\ secret'[q] <= clock
                          /\ begun'[q] - secret'[q] < TTL + StepSeconds
    BY <1>0 DEF FreshInv
  <2>1. CASE q = r
    <3>1. /\ begun'[q] = clock /\ pc'[q] = "reading" /\ secret'[q] = cache[i].answered
      BY <1>3, <2>1 DEF Hit, ReaderInv
    <3>2. begun'[q] - secret'[q] < TTL + StepSeconds /\ secret'[q] # NoSecret
      BY <1>5, <3>1, Settings DEF NoSecret
    <3>3. secret'[q] <= clock
      BY <1>4, <3>1 DEF ShortLived
    <3>4. clock <= clock /\ clock <= clock + StepSeconds
      BY Settings
    <3> QED
      BY <3>1, <3>2, <3>3, <3>4
  <2>2. CASE q # r
    BY <1>0, <1>3, <2>2 DEF Hit, FreshInv, ReaderInv
  <2> QED
    BY <2>1, <2>2
<1> QED
  BY <1>6, <1>7, <1>8

LEMMA MissKeeps ==
  ASSUME ReadInv, NEW r \in Readers, Miss(r)
  PROVE ReadInv'
<1> USE DEF ReadInv
<1>0. UNCHANGED <<policy, maxEntries, clock, attempt, secret, observed>>
  BY DEF Miss, settings
<1>1. ReaderInv'
  BY <1>0, Settings DEF Miss, ReaderInv, Awaiting
<1>2. CacheInv'
  BY <1>0, Settings, ForgetKeeps DEF Miss
<1>3. FreshInv'
  <2>1. begun' = [begun EXCEPT ![r] = clock] /\ pc' = [pc EXCEPT ![r] = "resolving"]
    BY DEF Miss
  <2>2. begun'[r] = clock /\ pc'[r] = "resolving"
    BY <2>1 DEF ReaderInv
  <2>4. clock <= clock + StepSeconds /\ clock <= clock
    BY Settings
  <2>3. \A q \in Readers : q # r => begun'[q] = begun[q] /\ pc'[q] = pc[q]
    BY <2>1 DEF ReaderInv
  <2> QED
    BY <1>0, <2>2, <2>3, <2>4 DEF FreshInv
<1> QED
  BY <1>1, <1>2, <1>3

LEMMA AnswerKeeps ==
  ASSUME ReadInv, NEW r \in Readers, Answer(r)
  PROVE ReadInv'
<1> USE DEF ReadInv
<1>0. UNCHANGED <<policy, maxEntries, clock, cache, attempt, begun, observed>>
  BY DEF Answer, settings
<1>1. ReaderInv'
  BY <1>0, Settings DEF Answer, ReaderInv, Awaiting
<1>2. CacheInv'
  BY <1>0 DEF CacheInv, Capacity, Unique, ShortLived
<1>3. FreshInv'
  <2>1. secret' = [secret EXCEPT ![r] = clock] /\ pc' = [pc EXCEPT ![r] = "answered"]
    BY DEF Answer
  <2>2. secret'[r] = clock /\ pc'[r] = "answered"
    BY <2>1 DEF ReaderInv
  <2>6. clock # NoSecret /\ clock <= clock
    BY Settings DEF NoSecret
  <2>3. \A q \in Readers : q # r => secret'[q] = secret[q] /\ pc'[q] = pc[q]
    BY <2>1 DEF ReaderInv
  <2>4. begun[r] <= clock /\ clock <= begun[r] + StepSeconds
    BY DEF Answer, FreshInv, Awaiting
  <2>5. begun[r] - clock < TTL + StepSeconds
    BY <2>4, Settings, Numbers
  <2> QED
    BY <1>0, <2>2, <2>3, <2>4, <2>5, <2>6 DEF FreshInv
<1> QED
  BY <1>1, <1>2, <1>3

LEMMA ResolvedKeeps ==
  ASSUME ReadInv, NEW r \in Readers, Resolved(r)
  PROVE ReadInv'
<1> USE DEF ReadInv
<1>0. UNCHANGED <<policy, maxEntries, clock, attempt, begun, secret, observed>>
  BY DEF Resolved, settings
<1>1. ReaderInv'
  BY <1>0, Settings DEF Resolved, ReaderInv, Awaiting
<1>2. CacheInv'
  <2>1. /\ secret[r] # NoSecret /\ secret[r] <= clock
        /\ begun[r] <= secret[r] /\ clock <= begun[r] + StepSeconds
    BY DEF Resolved, FreshInv, Awaiting
  <2>2. secret[r] \in Nat /\ secret[r] <= clock /\ clock <= secret[r] + StepSeconds
    BY <2>1, Settings, Numbers
  <2> QED
    BY <1>0, <2>2, Settings, PutKeeps DEF Resolved
<1>3. FreshInv'
  <2>1. pc' = [pc EXCEPT ![r] = "reading"] /\ pc[r] = "answered"
    BY DEF Resolved
  <2>2. pc'[r] = "reading" /\ \A q \in Readers : q # r => pc'[q] = pc[q]
    BY <2>1 DEF ReaderInv
  <2> QED
    BY <1>0, <2>1, <2>2 DEF FreshInv, Awaiting
<1> QED
  BY <1>1, <1>2, <1>3

\* An attempt that ends with or without another one after it, and what it has
\* observed by then.
LEMMA EndKeeps ==
  ASSUME ReadInv, NEW r \in Readers, pc[r] \in Awaiting, NEW ended \in {"stored", "failed", "waiting"},
         Leave(r), pc' = [pc EXCEPT ![r] = ended],
         IF ended = "waiting" THEN attempt[r] < MaxAttempts[r] /\ attempt' = [attempt EXCEPT ![r] = @ + 1]
                              ELSE attempt' = attempt,
         \/ observed' = observed
         \/ \E schema \in Offered[r] : observed' = [observed EXCEPT ![r] = Append(@, schema)]
  PROVE ReadInv'
<1> USE DEF ReadInv
<1>0. /\ UNCHANGED <<policy, maxEntries, clock, cache>>
      /\ secret' = [secret EXCEPT ![r] = NoSecret] /\ begun' = [begun EXCEPT ![r] = 0]
  BY DEF Leave, settings
<1>1. CacheInv'
  BY <1>0 DEF CacheInv, Capacity, Unique, ShortLived
<1>2. FreshInv'
  <2>1. begun'[r] = 0 /\ pc'[r] = ended /\ ended \notin Awaiting /\ 0 <= clock
    BY <1>0, Settings DEF ReaderInv, Awaiting
  <2>2. \A q \in Readers : q # r => begun'[q] = begun[q] /\ secret'[q] = secret[q] /\ pc'[q] = pc[q]
    BY <1>0 DEF ReaderInv
  <2> QED
    BY <1>0, <2>1, <2>2 DEF FreshInv, Awaiting
<1> DEFINE Schemas == UNION {Offered[q] : q \in Readers}
<1>3. /\ observed' \in [Readers -> Seq(Schemas)]
      /\ \A q \in Readers : q # r => observed'[q] = observed[q]
      /\ \A i \in DOMAIN observed'[r] : observed'[r][i] \in Offered[r]
      /\ Len(observed'[r]) <= Len(observed[r]) + 1
  <2>1. /\ observed \in [Readers -> Seq(Schemas)] /\ Offered[r] \subseteq Schemas
        /\ \A i \in DOMAIN observed[r] : observed[r][i] \in Offered[r]
    BY DEF ReaderInv
  <2> HIDE DEF Schemas
  <2>2. observed[r] \in Seq(Schemas) /\ Len(observed[r]) \in Nat
    BY <2>1
  <2>3. CASE observed' = observed
    BY <2>1, <2>2, <2>3
  <2>4. CASE \E schema \in Offered[r] : observed' = [observed EXCEPT ![r] = Append(@, schema)]
    <3>1. PICK schema \in Offered[r] : observed' = [observed EXCEPT ![r] = Append(@, schema)]
      BY <2>4
    <3> DEFINE longer == Append(observed[r], schema)
    <3>2. /\ longer \in Seq(Schemas) /\ Len(longer) = Len(observed[r]) + 1
          /\ \A i \in DOMAIN longer : longer[i] \in Offered[r]
      BY <2>1, <2>2
    <3>3. observed' = [observed EXCEPT ![r] = longer]
      BY <3>1
    <3> HIDE DEF longer
    <3> QED
      BY <2>1, <2>2, <3>2, <3>3
  <2> QED
    BY <2>3, <2>4
<1>4. /\ attempt' \in [Readers -> Nat]
      /\ \A q \in Readers : q # r => attempt'[q] = attempt[q]
      /\ attempt'[r] \in 1..MaxAttempts[r]
      /\ attempt'[r] = IF ended = "waiting" THEN attempt[r] + 1 ELSE attempt[r]
  <2>1. /\ attempt \in [Readers -> Nat] /\ attempt[r] \in 1..MaxAttempts[r]
        /\ MaxAttempts[r] \in Nat
    BY Settings DEF ReaderInv
  <2>2. CASE ended = "waiting"
    BY <2>1, <2>2
  <2>3. CASE ended # "waiting"
    BY <2>1, <2>3
  <2> QED
    BY <2>2, <2>3
<1>5. pc' \in [Readers -> {"waiting", "stored", "failed"} \cup Awaiting] /\ pc'[r] = ended
      /\ \A q \in Readers : q # r => pc'[q] = pc[q]
  BY DEF ReaderInv
<1>6. Len(observed[r]) \in Nat /\ Len(observed[r]) < attempt[r] /\ Len(observed'[r]) \in Nat
  BY <1>3 DEF ReaderInv
<1>7. ReaderInv'
  <2>1. ASSUME NEW q \in Readers
        PROVE /\ attempt'[q] \in 1..MaxAttempts[q]
              /\ \A i \in DOMAIN observed'[q] : observed'[q][i] \in Offered[q]
              /\ Len(observed'[q]) <= attempt'[q]
              /\ pc'[q] \in {"waiting"} \cup Awaiting => Len(observed'[q]) < attempt'[q]
    <3>1. CASE q # r
      BY <1>3, <1>4, <1>5, <3>1 DEF ReaderInv
    <3>2. CASE q = r
      BY <1>3, <1>4, <1>5, <1>6, <3>2 DEF ReaderInv, Awaiting
    <3> QED
      BY <3>1, <3>2
  <2>2. begun' \in [Readers -> 0..MaxClock] /\ secret' \in [Readers -> {NoSecret} \cup 0..MaxClock]
    <3>1. 0 \in 0..MaxClock
      BY Settings
    <3> QED
      BY <1>0, <3>1 DEF ReaderInv
  <2> QED
    BY <1>0, <1>3, <1>4, <1>5, <2>1, <2>2 DEF ReaderInv
<1> QED
  BY <1>1, <1>2, <1>7

LEMMA TickKeeps == ReadInv /\ Tick => ReadInv'
<1> SUFFICES ASSUME ReadInv, Tick PROVE ReadInv'
  OBVIOUS
<1> USE DEF ReadInv
<1>0. /\ UNCHANGED <<policy, maxEntries, cache, pc, attempt, begun, secret, observed>>
      /\ clock' = clock + 1
  BY DEF Tick, settings
<1>1. ReaderInv'
  <2>1. clock' \in 0..MaxClock
    BY <1>0, Settings DEF Tick
  <2> QED
    BY <1>0, <2>1 DEF ReaderInv
<1>2. CacheInv'
  <2>1. \A i \in DOMAIN cache : cache[i] \in SecretEntry /\ ShortLived(cache[i])
    BY DEF CacheInv
  <2>2. \A i \in DOMAIN cache : ShortLived(cache[i])'
    BY <1>0, <2>1, Settings DEF ShortLived, SecretEntry
  <2> QED
    BY <1>0, <2>2 DEF CacheInv, Capacity, Unique
<1>3. FreshInv'
  <2> SUFFICES ASSUME NEW r \in Readers
               PROVE /\ begun[r] <= clock'
                     /\ pc[r] \in Awaiting => clock' <= begun[r] + StepSeconds
                     /\ secret[r] <= clock => secret[r] <= clock'
    BY <1>0 DEF FreshInv
  <2>1. begun[r] <= clock /\ begun[r] \in Nat /\ secret[r] \in Int
    BY Numbers DEF FreshInv
  <2>2. pc[r] \in Awaiting => clock - begun[r] < StepSeconds
    BY DEF Tick
  <2> QED
    BY <1>0, <2>1, <2>2, Settings
<1> QED
  BY <1>1, <1>2, <1>3

LEMMA ReadNext == ReadInv /\ [Next]_vars => ReadInv'
<1> SUFFICES ASSUME ReadInv, [Next]_vars PROVE ReadInv'
  OBVIOUS
<1> USE DEF ReadInv
<1>1. ASSUME NEW r \in Readers, Hit(r) \/ Miss(r) \/ Answer(r) \/ Resolved(r) PROVE ReadInv'
  BY <1>1, HitKeeps, MissKeeps, AnswerKeeps, ResolvedKeeps
<1>2. ASSUME NEW r \in Readers, pc[r] \in Awaiting, EndAttempt(r),
             \/ observed' = observed
             \/ \E schema \in Offered[r] : observed' = [observed EXCEPT ![r] = Append(@, schema)]
      PROVE ReadInv'
  <2>1. CASE attempt[r] < MaxAttempts[r] /\ attempt' = [attempt EXCEPT ![r] = @ + 1]
             /\ pc' = [pc EXCEPT ![r] = "waiting"]
    BY <1>2, <2>1, EndKeeps DEF EndAttempt
  <2>2. CASE pc' = [pc EXCEPT ![r] = "failed"] /\ UNCHANGED attempt
    BY <1>2, <2>2, EndKeeps DEF EndAttempt
  <2> QED
    BY <1>2, <2>1, <2>2 DEF EndAttempt
<1>3. ASSUME NEW r \in Readers, Raise(r) PROVE ReadInv'
  BY <1>2, <1>3 DEF Raise
<1>4. ASSUME NEW r \in Readers, Read(r) PROVE ReadInv'
  <2>1. PICK schema \in Offered[r] :
          /\ observed' = [observed EXCEPT ![r] = Append(@, schema)]
          /\ \/ Leave(r) /\ pc' = [pc EXCEPT ![r] = "stored"] /\ UNCHANGED attempt
             \/ EndAttempt(r)
    BY <1>4 DEF Read
  <2>2. pc[r] \in Awaiting
    BY <1>4 DEF Read, Awaiting
  <2>3. CASE EndAttempt(r)
    BY <1>2, <2>1, <2>2, <2>3
  <2>4. CASE Leave(r) /\ pc' = [pc EXCEPT ![r] = "stored"] /\ UNCHANGED attempt
    BY <2>1, <2>2, <2>4, EndKeeps
  <2> QED
    BY <2>1, <2>3, <2>4
<1>5. ASSUME NEW refs \in SUBSET Refs, Revoke(refs) PROVE ReadInv'
  <2>1. UNCHANGED <<policy, maxEntries, clock, pc, attempt, begun, secret, observed>>
    BY <1>5 DEF Revoke, settings
  <2>2. CacheInv'
    BY <1>5, <2>1, Settings, ForgetKeeps DEF Revoke
  <2> QED
    BY <2>1, <2>2 DEF ReaderInv, FreshInv
<1>6. CASE Tick
  BY <1>6, TickKeeps
<1>7. CASE UNCHANGED vars
  BY <1>7 DEF vars, ReaderInv, CacheInv, FreshInv, Capacity, Unique, ShortLived
<1> QED
  BY <1>1, <1>3, <1>4, <1>5, <1>6, <1>7 DEF Next, Step

\* For any number of readers, references, revocations and entries: the cache of
\* SecretCache stays within max_entries, has one entry for a reference, and no
\* attempt begins with a secret past its time to live.
THEOREM CacheIsBoundedAndFreshHolds == Spec => []CacheIsBoundedAndFresh
<1>1. ASSUME ReadInv PROVE CacheIsBoundedAndFresh
  <2>1. TypeOK
    <3>1. \A i \in DOMAIN cache : cache[i] \in SecretEntry
      BY <1>1 DEF ReadInv, CacheInv
    <3> QED
      BY <1>1, <3>1 DEF ReadInv, ReaderInv, TypeOK, SecretEntry
  <2>2. CacheIsBounded
    BY <1>1 DEF ReadInv, CacheInv, CacheIsBounded, Capacity, Unique
  <2>3. SecretsAreFresh
    BY <1>1 DEF ReadInv, FreshInv, SecretsAreFresh
  <2> QED
    BY <2>1, <2>2, <2>3 DEF CacheIsBoundedAndFresh
<1> QED
  BY ReadInit, ReadNext, <1>1, PTL DEF Spec
-----------------------------------------------------------------------------
(* Drift *)

\* What does not break a schema that does not break the contract, does not break
\* the contract.
LEMMA BreakingIsTransitive ==
  ASSUME NEW a, NEW b, NEW c, IsSchema(a), IsSchema(b), IsSchema(c),
         ~Breaking(a, b), ~Breaking(b, c)
  PROVE ~Breaking(a, c)
<1> SUFFICES ASSUME NEW name \in DOMAIN a
             PROVE /\ name \in DOMAIN c
                   /\ a[name].type = c[name].type
                   /\ a[name].nullable # c[name].nullable \/ a[name].required # c[name].required =>
                        Loosened(a[name], c[name])
  BY DEF Breaking
<1>1. /\ name \in DOMAIN b
      /\ a[name].type = b[name].type
      /\ a[name].nullable # b[name].nullable \/ a[name].required # b[name].required =>
           Loosened(a[name], b[name])
  BY DEF Breaking
<1>2. /\ name \in DOMAIN c
      /\ b[name].type = c[name].type
      /\ b[name].nullable # c[name].nullable \/ b[name].required # c[name].required =>
           Loosened(b[name], c[name])
  BY <1>1 DEF Breaking
<1>3. a[name] \in Field /\ b[name] \in Field /\ c[name] \in Field
  BY <1>1, <1>2 DEF IsSchema
<1>4. ASSUME NEW x \in Field
      PROVE (x.nullable = TRUE \/ x.nullable = FALSE) /\ (x.required = TRUE \/ x.required = FALSE)
  BY DEF Field
<1> QED
  BY <1>1, <1>2, <1>3, <1>4 DEF Loosened

LEMMA NothingBreaksItself ==
  ASSUME NEW a PROVE ~Breaking(a, a)
  BY DEF Breaking

DriftInv ==
  /\ ReadInv
  /\ DriftNeedsRetry

\* A run that fails closed stores only what does not break its baseline; when that
\* breaks the contract, then so did the baseline, which an attempt had observed.
LEMMA ReadStoresUnbroken ==
  ASSUME ReadInv, FailsClosed, NEW r \in Readers, NEW schema \in Offered[r],
         Decide(Baseline(r, schema), schema) # "block", Breaking(Declared[r], schema)
  PROVE \E i \in DOMAIN observed[r] : Breaking(Declared[r], observed[r][i])
<1>1. ~Breaking(Baseline(r, schema), schema)
  BY NothingBreaksItself DEF Decide, Changed, FailsClosed
<1>2. observed[r] # <<>> /\ Baseline(r, schema) = Last(observed[r])
  BY <1>1 DEF Baseline
<1>3. observed[r] \in Seq(UNION {Offered[q] : q \in Readers})
  BY DEF ReadInv, ReaderInv
<1>4. Len(observed[r]) \in DOMAIN observed[r] /\ Last(observed[r]) = observed[r][Len(observed[r])]
  BY <1>2, <1>3 DEF Last
<1>5. Last(observed[r]) \in Offered[r]
  BY <1>4 DEF ReadInv, ReaderInv
<1>6. IsSchema(Declared[r]) /\ IsSchema(schema) /\ IsSchema(Last(observed[r]))
  BY <1>5, ReadAssumption
<1>7. Breaking(Declared[r], Last(observed[r]))
  BY <1>1, <1>2, <1>6, BreakingIsTransitive
<1> QED
  BY <1>4, <1>7

\* Steps that leave a stored reader and what it observed alone.
LEMMA DriftStays ==
  ASSUME DriftNeedsRetry, policy' = policy,
         \A r \in Readers : pc'[r] = "stored" => pc[r] = "stored" /\ observed'[r] = observed[r]
  PROVE DriftNeedsRetry'
  BY DEF DriftNeedsRetry, FailsClosed

LEMMA DriftNext == DriftInv /\ [Next]_vars => DriftInv'
<1> SUFFICES ASSUME DriftInv, [Next]_vars PROVE DriftNeedsRetry'
  BY ReadNext DEF DriftInv
<1> USE DEF DriftInv
<1>0. ReaderInv /\ policy' = policy
  BY DEF ReadInv, Next, Step, Hit, Miss, Answer, Resolved, Raise, Read, EndAttempt, Leave,
     Revoke, Tick, settings, vars
<1>1. ASSUME NEW r \in Readers, Hit(r) \/ Miss(r) \/ Answer(r) \/ Resolved(r) \/ Raise(r)
      PROVE DriftNeedsRetry'
  <2>1. UNCHANGED observed
    BY <1>1 DEF Hit, Miss, Answer, Resolved, Raise
  <2>2. \E to \in {"reading", "resolving", "answered", "waiting", "failed"} :
          pc' = [pc EXCEPT ![r] = to]
    BY <1>1 DEF Hit, Miss, Answer, Resolved, Raise, EndAttempt
  <2> QED
    BY <1>0, <2>1, <2>2, DriftStays DEF ReaderInv
<1>2. ASSUME NEW r \in Readers, Read(r) PROVE DriftNeedsRetry'
  <2>1. PICK schema \in Offered[r] :
          /\ observed' = [observed EXCEPT ![r] = Append(@, schema)]
          /\ \/ /\ Decide(Baseline(r, schema), schema) # "block"
                /\ pc' = [pc EXCEPT ![r] = "stored"]
             \/ EndAttempt(r)
    BY <1>2 DEF Read
  <2>2. CASE EndAttempt(r)
    <3>1. \E to \in {"waiting", "failed"} : pc' = [pc EXCEPT ![r] = to]
      BY <2>2 DEF EndAttempt
    <3> QED
      BY <1>0, <2>1, <3>1, DriftStays DEF ReaderInv
  <2>3. CASE Decide(Baseline(r, schema), schema) # "block" /\ pc' = [pc EXCEPT ![r] = "stored"]
    <3> SUFFICES ASSUME FailsClosed', NEW q \in Readers, pc'[q] = "stored",
                        Breaking(Declared[q], Last(observed'[q]))
                 PROVE \E i \in 1..(Len(observed'[q]) - 1) : Breaking(Declared[q], observed'[q][i])
      BY DEF DriftNeedsRetry
    <3>1. FailsClosed
      BY <1>0 DEF FailsClosed
    <3>2. CASE q # r
      <4>1. pc[q] = "stored" /\ observed'[q] = observed[q]
        BY <1>0, <2>1, <2>3, <3>2 DEF ReaderInv
      <4> QED
        BY <3>1, <4>1 DEF DriftNeedsRetry
    <3>3. CASE q = r
      <4> DEFINE Schemas == UNION {Offered[p] : p \in Readers}
      <4>1. schema \in Schemas /\ observed[r] \in Seq(Schemas)
        BY <1>0 DEF ReaderInv
      <4> HIDE DEF Schemas
      <4>2. observed'[r] = Append(observed[r], schema)
        BY <1>0, <2>1 DEF ReaderInv
      <4>3. /\ Len(observed'[r]) = Len(observed[r]) + 1
            /\ observed'[r][Len(observed[r]) + 1] = schema
            /\ \A i \in DOMAIN observed[r] : observed'[r][i] = observed[r][i]
            /\ DOMAIN observed[r] = 1..Len(observed[r])
        BY <4>1, <4>2
      <4>4. Breaking(Declared[r], schema)
        BY <3>3, <4>3 DEF Last
      <4>5. PICK i \in DOMAIN observed[r] : Breaking(Declared[r], observed[r][i])
        BY <2>3, <3>1, <4>4, ReadStoresUnbroken
      <4>6. i \in 1..(Len(observed'[r]) - 1)
        BY <4>1, <4>3
      <4> QED
        BY <3>3, <4>3, <4>5, <4>6
    <3> QED
      BY <3>2, <3>3
  <2> QED
    BY <2>1, <2>2, <2>3
<1>3. CASE (\E refs \in SUBSET Refs : Revoke(refs)) \/ Tick \/ UNCHANGED vars
  <2>1. UNCHANGED <<pc, observed>>
    BY <1>3 DEF Revoke, Tick, vars
  <2> QED
    BY <1>0, <2>1, DriftStays
<1> QED
  BY <1>1, <1>2, <1>3 DEF Next, Step

\* On a production profile whose actions are not overridden, whatever the schemas
\* are: data that breaks the contract is stored only after an earlier attempt of
\* the same run has observed data that broke it (evaluate_drift, decide).
THEOREM DriftNeedsRetryHolds == Spec => []DriftNeedsRetry
<1>1. Init => DriftInv
  <2>1. Init => DriftNeedsRetry
    BY DEF Init, DriftNeedsRetry
  <2> QED
    BY <2>1, ReadInit DEF DriftInv
<1>2. DriftInv => DriftNeedsRetry
  BY DEF DriftInv
<1> QED
  BY <1>1, <1>2, DriftNext, PTL DEF Spec

-----------------------------------------------------------------------------
(* What is computed step by step: induction over sets of numbers, and the existence of the
   functions that the search and Select define by recursion.                               *)

\* A set with 0 and the successor of each of its numbers has them all.
LEMMA Counting ==
  ASSUME NEW S, 0 \in S, \A k \in Nat : k \in S => k + 1 \in S
  PROVE  Nat \subseteq S
<1> SUFFICES ASSUME NEW n \in Nat, n \notin S PROVE FALSE
  OBVIOUS
<1> DEFINE R == StrictSubsetOrdering(0 .. n)
           T == {0 .. m : m \in {j \in 0 .. n : j \notin S}}
<1>1. IsWellFoundedOn(R, FiniteSubsetsOf(0 .. n))
  BY FS_StrictSubsetOrderingWellFounded
<1>2. T \subseteq FiniteSubsetsOf(0 .. n)
  <2>1. ASSUME NEW m \in 0 .. n PROVE IsFiniteSet(0 .. m) /\ 0 .. m \subseteq 0 .. n
    BY FS_Interval
  <2>2. QED
    BY <2>1 DEF FiniteSubsetsOf
<1>3. T # {}
  OBVIOUS
<1>4. PICK U \in T : \A V \in T : ~(<<V, U>> \in R)
  <2> HIDE DEF R, T
  <2> QED BY <1>1, <1>2, <1>3, WFMin
<1>5. PICK m \in 0 .. n : m \notin S /\ U = 0 .. m
  OBVIOUS
<1>6. m # 0 /\ m - 1 \in 0 .. n /\ m - 1 \notin S
  <2>1. m # 0 /\ m - 1 \in Nat /\ m = (m - 1) + 1
    BY <1>5
  <2>2. QED
    BY <2>1, <1>5
<1>7. <<0 .. (m - 1), U>> \in R
  <2>1. 0 .. (m - 1) \subseteq 0 .. n /\ U \subseteq 0 .. n
    BY <1>5, <1>6
  <2>2. 0 .. (m - 1) \subseteq U /\ m \in U /\ m \notin 0 .. (m - 1)
    BY <1>5, <1>6
  <2>3. QED
    BY <2>1, <2>2 DEF StrictSubsetOrdering
<1>8. QED
  BY <1>4, <1>6, <1>7

Iterates(f, first, F) == f = [k \in Nat |-> IF k = 0 THEN first ELSE F[k][f[k - 1]]]

\* What is defined by its first value and by a step from each value to the next exists, and
\* stays in a set that has the first value and is kept by the steps.
LEMMA Iterating ==
  ASSUME NEW S, NEW first \in S, NEW F \in [Nat -> [S -> S]]
  PROVE  \E f \in [Nat -> S] : Iterates(f, first, F)
<1> DEFINE Fits(f, n) == /\ f \in [0 .. n -> S] /\ f[0] = first
                         /\ \A k \in 0 .. n : k # 0 => f[k] = F[k][f[k - 1]]
           Long == {n \in Nat : \E f \in [0 .. n -> S] : Fits(f, n)}
<1>1. Nat \subseteq Long
  <2>1. 0 \in Long
    <3>1. Fits([k \in 0 .. 0 |-> first], 0)
      OBVIOUS
    <3>2. QED
      BY <3>1
  <2>2. ASSUME NEW n \in Nat, n \in Long PROVE n + 1 \in Long
    <3>1. PICK f \in [0 .. n -> S] : Fits(f, n)
      BY <2>2
    <3> DEFINE next == F[n + 1][f[n]]
               h == [k \in 0 .. (n + 1) |-> IF k = n + 1 THEN next ELSE f[k]]
    <3>2. next \in S
      BY <3>1
    <3>3. h \in [0 .. (n + 1) -> S]
      BY <3>1, <3>2
    <3>4. h[0] = first
      BY <3>1
    <3>5. ASSUME NEW k \in 0 .. (n + 1), k # 0 PROVE h[k] = F[k][h[k - 1]]
      <4>1. CASE k = n + 1
        <5>1. k - 1 = n /\ h[k] = next /\ h[n] = f[n]
          BY <4>1
        <5>2. QED
          BY <5>1, <4>1
      <4>2. CASE k # n + 1
        <5>1. k \in 0 .. n /\ k - 1 \in 0 .. n /\ k - 1 # n + 1 /\ k - 1 \in 0 .. (n + 1)
          BY <3>5, <4>2
        <5>2. QED
          BY <5>1, <4>2, <3>1, <3>5
      <4>3. QED
        BY <4>1, <4>2
    <3>6. Fits(h, n + 1)
      BY <3>3, <3>4, <3>5
    <3>7. n + 1 \in Nat
      OBVIOUS
    <3>8. QED
      <4> HIDE DEF h, next, Fits
      <4> QED BY <3>3, <3>6, <3>7
  <2>3. QED
    <3> HIDE DEF Long
    <3> QED BY <2>1, <2>2, Counting
<1>2. ASSUME NEW m \in Nat, NEW p \in Nat, NEW f \in [0 .. m -> S], NEW h \in [0 .. p -> S],
             Fits(f, m), Fits(h, p)
      PROVE  \A n \in Nat : n <= m /\ n <= p => f[n] = h[n]
  <2> DEFINE Same == {n \in Nat : n <= m /\ n <= p => f[n] = h[n]}
  <2>1. 0 \in Same
    BY <1>2
  <2>2. ASSUME NEW n \in Nat, n \in Same PROVE n + 1 \in Same
    <3>1. SUFFICES ASSUME n + 1 <= m, n + 1 <= p PROVE f[n + 1] = h[n + 1]
      OBVIOUS
    <3>2. f[n] = h[n]
      BY <2>2, <3>1
    <3>3. n + 1 \in 0 .. m /\ n + 1 \in 0 .. p /\ n + 1 # 0 /\ (n + 1) - 1 = n
      BY <3>1
    <3>4. f[n + 1] = F[n + 1][f[n]] /\ h[n + 1] = F[n + 1][h[n]]
      BY <1>2, <3>3
    <3>5. QED
      BY <3>2, <3>4
  <2>3. Nat \subseteq Same
    <3> HIDE DEF Same
    <3> QED BY <2>1, <2>2, Counting
  <2>4. QED
    BY <2>3
<1> DEFINE g == [n \in Nat |-> (CHOOSE f \in [0 .. n -> S] : Fits(f, n))[n]]
<1>3. ASSUME NEW n \in Nat
      PROVE  \E f \in [0 .. n -> S] : Fits(f, n) /\ g[n] = f[n]
  <2>1. \E f \in [0 .. n -> S] : Fits(f, n)
    BY <1>1
  <2>2. QED
    BY <2>1
<1>4. g \in [Nat -> S]
  <2>1. ASSUME NEW n \in Nat PROVE g[n] \in S
    <3> HIDE DEF g, Fits
    <3>1. PICK f \in [0 .. n -> S] : g[n] = f[n]
      BY <1>3
    <3>2. QED
      BY <3>1
  <2>2. QED
    BY <2>1
<1>5. g[0] = first
  <2>1. PICK f \in [0 .. 0 -> S] : Fits(f, 0) /\ g[0] = f[0]
    <3> HIDE DEF g, Fits
    <3> QED BY <1>3
  <2>2. QED
    BY <2>1
<1>6. ASSUME NEW n \in Nat, n # 0 PROVE g[n] = F[n][g[n - 1]]
  <2>1. PICK f \in [0 .. n -> S] : Fits(f, n) /\ g[n] = f[n]
    BY <1>3
  <2>2. n - 1 \in Nat /\ n - 1 <= n
    BY <1>6
  <2>3. PICK h \in [0 .. (n - 1) -> S] : Fits(h, n - 1) /\ g[n - 1] = h[n - 1]
    BY <2>2, <1>3
  <2>4. f[n - 1] = h[n - 1]
    <3> HIDE DEF Fits
    <3>1. \A k \in Nat : k <= n /\ k <= n - 1 => f[k] = h[k]
      BY <1>2, <2>1, <2>2, <2>3
    <3>2. QED
      BY <3>1, <2>2
  <2>5. f[n] = F[n][f[n - 1]]
    BY <2>1, <1>6
  <2>6. QED
    BY <2>1, <2>3, <2>4, <2>5
<1>7. g = [k \in Nat |-> IF k = 0 THEN first ELSE F[k][g[k - 1]]]
  <2> HIDE DEF g
  <2>1. ASSUME NEW k \in Nat PROVE g[k] = IF k = 0 THEN first ELSE F[k][g[k - 1]]
    BY <1>5, <1>6
  <2>2. QED
    BY <2>1, <1>4
<1>8. QED
  <2> HIDE DEF g
  <2> QED BY <1>4, <1>7 DEF Iterates

\* What is selected from a sequence is a sequence of selected elements.
LEMMA SelectType ==
  ASSUME NEW X, NEW s \in Seq(X), NEW Y
  PROVE  Select(s, Y) \in Seq(X \cap Y)
<1> DEFINE n == Len(s)
           F == [k \in Nat |-> [t \in Seq(X \cap Y) |->
                   IF k \in 1 .. n /\ s[k] \in Y THEN Append(t, s[k]) ELSE t]]
           Kept(f) == [i \in 0 .. Len(s) |->
                         IF i = 0 THEN << >>
                         ELSE IF s[i] \in Y THEN Append(f[i - 1], s[i]) ELSE f[i - 1]]
<1>1. F \in [Nat -> [Seq(X \cap Y) -> Seq(X \cap Y)]] /\ << >> \in Seq(X \cap Y) /\ n \in Nat
  <2>1. ASSUME NEW k \in Nat, NEW t \in Seq(X \cap Y) PROVE F[k][t] \in Seq(X \cap Y)
    OBVIOUS
  <2>2. QED
    BY <2>1
<1>2. PICK f \in [Nat -> Seq(X \cap Y)] : Iterates(f, << >>, F)
  <2> HIDE DEF F
  <2> QED BY <1>1, Iterating
<1> DEFINE g == [i \in 0 .. n |-> f[i]]
<1>3. g = Kept(g)
  <2>1. ASSUME NEW i \in 0 .. n, i # 0
        PROVE  f[i] = IF s[i] \in Y THEN Append(f[i - 1], s[i]) ELSE f[i - 1]
    <3>1. i \in Nat /\ i \in 1 .. n /\ i - 1 \in Nat
      BY <1>1, <2>1
    <3>4. f[i - 1] \in Seq(X \cap Y)
      BY <1>2, <3>1
    <3>2. f[i] = F[i][f[i - 1]]
      BY <1>2, <3>1, <2>1 DEF Iterates
    <3>3. QED
      BY <3>1, <3>2, <3>4
  <2>2. f[0] = << >>
    BY <1>2 DEF Iterates
  <2>3. ASSUME NEW i \in 0 .. n PROVE g[i] = Kept(g)[i]
    <3>1. CASE i = 0
      BY <3>1, <2>2
    <3>2. CASE i # 0
      <4>1. i - 1 \in 0 .. n
        BY <3>2, <1>1
      <4>2. QED
        BY <4>1, <3>2, <2>1
    <3>3. QED
      BY <3>1, <3>2
  <2>4. QED
    BY <2>3
<1>4. ASSUME NEW h, h = Kept(h) PROVE h[n] \in Seq(X \cap Y)
  <2> DEFINE Good == {k \in Nat : k <= n => h[k] \in Seq(X \cap Y)}
  <2>1. 0 \in Good
    BY <1>1, <1>4
  <2>2. ASSUME NEW k \in Nat, k \in Good PROVE k + 1 \in Good
    <3>1. SUFFICES ASSUME k + 1 <= n PROVE h[k + 1] \in Seq(X \cap Y)
      OBVIOUS
    <3>2. k + 1 \in 0 .. Len(s) /\ k + 1 # 0 /\ (k + 1) - 1 = k /\ k + 1 \in 1 .. Len(s)
      BY <3>1, <1>1
    <3>3. h[k] \in Seq(X \cap Y)
      BY <2>2, <3>1
    <3>4. h[k + 1] = Kept(h)[k + 1]
      BY <1>4
    <3>5. h[k + 1] = IF s[k + 1] \in Y THEN Append(h[k], s[k + 1]) ELSE h[k]
      BY <3>4, <3>2
    <3>6. s[k + 1] \in X
      BY <3>2
    <3>7. QED
      BY <3>3, <3>5, <3>6
  <2>3. Nat \subseteq Good
    <3> HIDE DEF Good
    <3> QED BY <2>1, <2>2, Counting
  <2>4. n \in Good /\ n <= n
    <3> HIDE DEF Good
    <3> QED BY <2>3, <1>1
  <2>5. QED
    BY <2>4
<1>5. Select(s, Y) = (CHOOSE h : h = Kept(h))[n]
  BY Zenon DEF Select
<1>6. QED
  <2> DEFINE c == CHOOSE h : h = Kept(h)
  <2>1. c = Kept(c)
    <3> HIDE DEF g, Kept
    <3> QED BY <1>3
  <2>2. c[n] \in Seq(X \cap Y)
    <3> HIDE DEF c, Kept
    <3> QED BY <1>4, <2>1
  <2>3. QED
    BY <2>2, <1>5

(***************************************************************************)
(* The search for cycles.                                                  *)
(***************************************************************************)
Walks(N) == [color : [N -> {"white", "grey", "black"}], stack : Seq(N), cyclic : BOOLEAN]
Colored(w, color) == {n \in DOMAIN w.color : w.color[n] = color}
Progress(w) == Cardinality(Colored(w, "grey")) + 2 * Cardinality(Colored(w, "black"))

\* Of a search that met no cycle: the grey nodes are those on the stack, each once; what a
\* black node leads to is black; and the black nodes can be put in order.
WalkInv(g, w) ==
  /\ w \in Walks(NodesOf(g))
  /\ \A i, j \in DOMAIN w.stack : w.stack[i] = w.stack[j] => i = j
  /\ \A n \in NodesOf(g) : w.color[n] = "grey" <=> \E i \in DOMAIN w.stack : w.stack[i] = n
  /\ ~w.cyclic =>
       /\ \A e \in g.edges : w.color[e.from] = "black" => w.color[e.to] = "black"
       /\ Ordered(g, Colored(w, "black"))

\* The edges of a graph end at its nodes.
EdgesEnd(g) == \A e \in g.edges : e.to \in NodesOf(g)

LEMMA VisitBegins ==
  ASSUME NEW g, EdgesEnd(g), NEW w, WalkInv(g, w), NEW n \in NodesOf(g), w.color[n] = "white"
  PROVE  /\ WalkInv(g, Begin(w, n))
         /\ Colored(Begin(w, n), "black") = Colored(w, "black")
         /\ Colored(Begin(w, n), "grey") = Colored(w, "grey") \cup {n}
<1> DEFINE N == NodesOf(g)
           v == Begin(w, n)
<1>1. /\ w.color \in [N -> {"white", "grey", "black"}] /\ w.stack \in Seq(N)
      /\ w.cyclic \in BOOLEAN
  BY DEF WalkInv, Walks
<1>2. /\ v.color = [w.color EXCEPT ![n] = "grey"] /\ v.stack = Append(w.stack, n)
      /\ v.cyclic = w.cyclic
  BY DEF Begin
<1>3. v \in Walks(N)
  <2>1. v.color \in [N -> {"white", "grey", "black"}]
    BY <1>1, <1>2
  <2>2. v.stack \in Seq(N)
    BY <1>1, <1>2
  <2>3. QED
    BY <1>1, <2>1, <2>2 DEF Walks, Begin
<1>4. \A m \in N : v.color[m] = IF m = n THEN "grey" ELSE w.color[m]
  BY <1>1, <1>2
<1>5. DOMAIN w.color = N /\ DOMAIN v.color = N
  BY <1>1, <1>2
<1>6. Colored(v, "black") = Colored(w, "black")
  BY <1>4, <1>5 DEF Colored
<1>7. Colored(v, "grey") = Colored(w, "grey") \cup {n}
  BY <1>4, <1>5 DEF Colored
<1>8. /\ Len(w.stack) \in Nat /\ DOMAIN w.stack = 1 .. Len(w.stack)
      /\ DOMAIN v.stack = 1 .. (Len(w.stack) + 1)
      /\ \A i \in DOMAIN v.stack :
           v.stack[i] = IF i = Len(w.stack) + 1 THEN n ELSE w.stack[i]
  BY <1>1, <1>2
<1>9. \A i \in DOMAIN w.stack : w.stack[i] # n
  BY DEF WalkInv
<1>10. \A i, j \in DOMAIN v.stack : v.stack[i] = v.stack[j] => i = j
  BY <1>8, <1>9 DEF WalkInv
<1>11. \A m \in N : v.color[m] = "grey" <=> \E i \in DOMAIN v.stack : v.stack[i] = m
  <2>1. ASSUME NEW m \in N, m # n
        PROVE  (\E i \in DOMAIN v.stack : v.stack[i] = m)
                 <=> \E i \in DOMAIN w.stack : w.stack[i] = m
    BY <1>8, <2>1
  <2>2. v.stack[Len(w.stack) + 1] = n /\ Len(w.stack) + 1 \in DOMAIN v.stack
    BY <1>8
  <2>3. QED
    BY <1>4, <2>1, <2>2 DEF WalkInv
<1>12. ASSUME ~v.cyclic
       PROVE  /\ \A e \in g.edges : v.color[e.from] = "black" => v.color[e.to] = "black"
              /\ Ordered(g, Colored(v, "black"))
  <2>1. ~w.cyclic
    BY <1>2, <1>12
  <2>2. ASSUME NEW e \in g.edges, v.color[e.from] = "black" PROVE v.color[e.to] = "black"
    <3>1. e.from \in N /\ e.to \in N
      BY DEF EdgesEnd, NodesOf, Producers
    <3>2. w.color[e.from] = "black"
      BY <1>4, <2>2, <3>1
    <3>3. w.color[e.to] = "black"
      BY <2>1, <3>2 DEF WalkInv
    <3>4. QED
      BY <1>4, <3>1, <3>3
  <2>3. Ordered(g, Colored(w, "black"))
    BY <2>1 DEF WalkInv
  <2>4. QED
    BY <2>2, <2>3, <1>6
<1>13. WalkInv(g, v)
  <2> HIDE DEF v
  <2> QED BY <1>3, <1>10, <1>11, <1>12 DEF WalkInv
<1>14. QED
  BY <1>6, <1>7, <1>13

LEMMA VisitEnds ==
  ASSUME NEW g, EdgesEnd(g), NEW w, WalkInv(g, w), w.stack # << >>,
         \A m \in Below(g, Last(w.stack)) : w.color[m] # "white"
  PROVE  LET n == Last(w.stack)
             v == End(g, w, n)
         IN  /\ WalkInv(g, v)
             /\ n \in Colored(w, "grey") /\ n \notin Colored(w, "black")
             /\ Colored(v, "black") = Colored(w, "black") \cup {n}
             /\ Colored(v, "grey") = Colored(w, "grey") \ {n}
<1> DEFINE N == NodesOf(g)
           n == Last(w.stack)
           v == End(g, w, n)
<1>1. /\ w.color \in [N -> {"white", "grey", "black"}] /\ w.stack \in Seq(N)
      /\ w.cyclic \in BOOLEAN
  BY DEF WalkInv, Walks
<1>2. /\ v.color = [w.color EXCEPT ![n] = "black"] /\ v.stack = Front(w.stack)
      /\ v.cyclic = (w.cyclic \/ \E m \in Below(g, n) : w.color[m] = "grey")
  BY DEF End
<1>3. /\ Len(w.stack) \in Nat /\ Len(w.stack) >= 1 /\ DOMAIN w.stack = 1 .. Len(w.stack)
      /\ n = w.stack[Len(w.stack)] /\ n \in N
  BY <1>1 DEF Last
<1>4. n \in Colored(w, "grey") /\ n \notin Colored(w, "black") /\ w.color[n] = "grey"
  <2>1. w.color[n] = "grey"
    BY <1>3 DEF WalkInv
  <2>2. QED
    BY <2>1, <1>1, <1>3 DEF Colored
<1>5. /\ Front(w.stack) \in Seq(N)
      /\ DOMAIN Front(w.stack) = 1 .. (Len(w.stack) - 1)
      /\ \A i \in 1 .. (Len(w.stack) - 1) : Front(w.stack)[i] = w.stack[i]
  BY <1>1, <1>3 DEF Front
<1>6. v \in Walks(N)
  <2>1. v.color \in [N -> {"white", "grey", "black"}]
    BY <1>1, <1>2
  <2>2. v.stack \in Seq(N)
    BY <1>5, <1>2
  <2>3. v.cyclic \in BOOLEAN
    BY <1>1, <1>2
  <2>4. v = [color |-> v.color, stack |-> v.stack, cyclic |-> v.cyclic]
    BY DEF End
  <2>5. QED
    <3> HIDE DEF v
    <3> QED BY <2>1, <2>2, <2>3, <2>4 DEF Walks
<1>7. \A m \in N : v.color[m] = IF m = n THEN "black" ELSE w.color[m]
  BY <1>1, <1>2
<1>8. DOMAIN w.color = N /\ DOMAIN v.color = N
  BY <1>1, <1>2
<1>9. Colored(v, "black") = Colored(w, "black") \cup {n}
  BY <1>3, <1>7, <1>8 DEF Colored
<1>10. Colored(v, "grey") = Colored(w, "grey") \ {n}
  BY <1>3, <1>7, <1>8 DEF Colored
<1>11. \A i, j \in DOMAIN v.stack : v.stack[i] = v.stack[j] => i = j
  BY <1>2, <1>3, <1>5 DEF WalkInv
<1>12. \A m \in N : v.color[m] = "grey" <=> \E i \in DOMAIN v.stack : v.stack[i] = m
  <2>1. \A i \in DOMAIN v.stack : v.stack[i] = w.stack[i] /\ i \in DOMAIN w.stack /\ i # Len(w.stack)
    BY <1>2, <1>3, <1>5
  <2>2. \A i \in DOMAIN v.stack : v.stack[i] # n
    BY <2>1, <1>3 DEF WalkInv
  <2>3. \A i \in DOMAIN w.stack : w.stack[i] # n => i \in DOMAIN v.stack
    BY <1>2, <1>3, <1>5
  <2>4. ASSUME NEW m \in N, m # n
        PROVE  (\E i \in DOMAIN v.stack : v.stack[i] = m)
                 <=> \E i \in DOMAIN w.stack : w.stack[i] = m
    BY <2>1, <2>3, <2>4
  <2>5. QED
    BY <1>7, <2>2, <2>4 DEF WalkInv
<1>13. ASSUME ~v.cyclic
       PROVE  /\ \A e \in g.edges : v.color[e.from] = "black" => v.color[e.to] = "black"
              /\ Ordered(g, Colored(v, "black"))
  <2>1. ~w.cyclic /\ \A m \in Below(g, n) : w.color[m] # "grey"
    BY <1>2, <1>13
  <2>2. \A e \in g.edges : e.from \in N /\ e.to \in N
    BY DEF EdgesEnd, NodesOf, Producers
  <2>3. \A e \in g.edges : w.color[e.from] = "black" => w.color[e.to] = "black"
    BY <2>1 DEF WalkInv
  <2>4. \A m \in Below(g, n) : w.color[m] = "black"
    <3>1. \A m \in Below(g, n) : m \in N
      BY <2>2 DEF Below
    <3>2. QED
      BY <2>1, <3>1, <1>1
  <2>5. ASSUME NEW e \in g.edges, v.color[e.from] = "black" PROVE v.color[e.to] = "black"
    <3>1. CASE e.from = n
      <4>1. e.to \in Below(g, n)
        BY <3>1 DEF Below
      <4>2. QED
        BY <4>1, <2>2, <2>4, <1>7
    <3>2. CASE e.from # n
      BY <3>2, <2>2, <2>3, <2>5, <1>7
    <3>3. QED
      BY <3>1, <3>2
  <2>6. ASSUME NEW some \in SUBSET Colored(v, "black"), some # {}
        PROVE  \E m \in some : ~\E e \in g.edges : e.to = m /\ e.from \in some
    <3>1. CASE n \in some
      <4>1. ASSUME NEW e \in g.edges, e.to = n, e.from \in some PROVE FALSE
        <5>1. CASE e.from = n
          <6>1. n \in Below(g, n)
            BY <5>1, <4>1 DEF Below
          <6>2. QED
            BY <6>1, <2>4, <1>4
        <5>2. CASE e.from # n
          <6>1. w.color[e.from] = "black"
            BY <5>2, <4>1, <1>9 DEF Colored
          <6>2. QED
            BY <6>1, <4>1, <2>3, <1>4
        <5>3. QED
          BY <5>1, <5>2
      <4>2. QED
        BY <3>1, <4>1
    <3>2. CASE n \notin some
      <4>1. some \in SUBSET Colored(w, "black")
        BY <3>2, <2>6, <1>9
      <4>2. Ordered(g, Colored(w, "black"))
        BY <2>1 DEF WalkInv
      <4>3. QED
        BY <4>1, <4>2, <2>6 DEF Ordered
    <3>3. QED
      BY <3>1, <3>2
  <2>7. Ordered(g, Colored(v, "black"))
    <3> HIDE DEF v, n
    <3>1. SUFFICES ASSUME NEW some \in SUBSET Colored(v, "black"), some # {}
                   PROVE  \E m \in some : ~\E e \in g.edges : e.to = m /\ e.from \in some
      BY DEF Ordered
    <3>2. QED
      BY <3>1, <2>6
  <2>8. QED
    BY <2>5, <2>7
<1>14. WalkInv(g, v)
  <2> HIDE DEF v, n
  <2> QED BY <1>6, <1>11, <1>12, <1>13 DEF WalkInv
<1>15. QED
  BY <1>4, <1>9, <1>10, <1>14

LEMMA VisitKeeps ==
  ASSUME NEW g, EdgesEnd(g), IsFiniteSet(NodesOf(g)), NEW w, WalkInv(g, w)
  PROVE  LET v == Visit(g, NodesOf(g), w)
         IN  /\ WalkInv(g, v)
             /\ Colored(w, "black") = NodesOf(g) \/ Progress(v) = Progress(w) + 1
<1> DEFINE N == NodesOf(g)
           v == Visit(g, N, w)
           from == IF w.stack = << >> THEN N ELSE Below(g, Last(w.stack))
           white == {n \in from : w.color[n] = "white"}
<1>1. /\ w.color \in [N -> {"white", "grey", "black"}] /\ w.stack \in Seq(N)
      /\ DOMAIN w.color = N
  BY DEF WalkInv, Walks
<1>2. v = IF white # {} THEN Begin(w, CHOOSE n \in white : TRUE)
          ELSE IF w.stack # << >> THEN End(g, w, Last(w.stack)) ELSE w
  BY DEF Visit
<1>3. from \subseteq N
  BY DEF Below, EdgesEnd
<1>4. /\ IsFiniteSet(Colored(w, "grey")) /\ IsFiniteSet(Colored(w, "black"))
      /\ Cardinality(Colored(w, "grey")) \in Nat /\ Cardinality(Colored(w, "black")) \in Nat
  <2>1. Colored(w, "grey") \in SUBSET N /\ Colored(w, "black") \in SUBSET N
    BY <1>1 DEF Colored
  <2>2. QED
    BY <2>1, FS_Subset, FS_CardinalityType
<1>5. CASE white # {}
  <2> DEFINE n == CHOOSE m \in white : TRUE
  <2>1. n \in white
    BY <1>5
  <2>2. n \in N /\ w.color[n] = "white" /\ v = Begin(w, n)
    BY <2>1, <1>2, <1>3, <1>5
  <2> HIDE DEF n, v
  <2>3. /\ WalkInv(g, v) /\ Colored(v, "black") = Colored(w, "black")
        /\ Colored(v, "grey") = Colored(w, "grey") \cup {n}
    BY <2>2, VisitBegins
  <2>4. n \notin Colored(w, "grey")
    BY <2>2 DEF Colored
  <2>5. Cardinality(Colored(v, "grey")) = Cardinality(Colored(w, "grey")) + 1
    BY <2>3, <2>4, <1>4, FS_AddElement
  <2>6. Progress(v) = Progress(w) + 1
    BY <2>3, <2>5, <1>4 DEF Progress
  <2>7. QED
    BY <2>3, <2>6 DEF v
<1>6. CASE white = {} /\ w.stack # << >>
  <2> DEFINE n == Last(w.stack)
  <2>1. v = End(g, w, n) /\ \A m \in Below(g, n) : w.color[m] # "white"
    BY <1>2, <1>6
  <2> HIDE DEF v
  <2>2. /\ WalkInv(g, v) /\ n \in Colored(w, "grey") /\ n \notin Colored(w, "black")
        /\ Colored(v, "black") = Colored(w, "black") \cup {n}
        /\ Colored(v, "grey") = Colored(w, "grey") \ {n}
    BY <2>1, <1>6, VisitEnds
  <2> HIDE DEF n
  <2>3. /\ Cardinality(Colored(v, "grey")) = Cardinality(Colored(w, "grey")) - 1
        /\ Cardinality(Colored(v, "black")) = Cardinality(Colored(w, "black")) + 1
    BY <2>2, <1>4, FS_AddElement, FS_RemoveElement
  <2>4. Progress(v) = Progress(w) + 1
    BY <2>3, <1>4 DEF Progress
  <2>5. QED
    BY <2>2, <2>4 DEF v
<1>7. CASE white = {} /\ w.stack = << >>
  <2>1. v = w /\ \A n \in N : w.color[n] # "white"
    BY <1>2, <1>7
  <2>2. \A n \in N : w.color[n] # "grey"
    BY <1>7 DEF WalkInv
  <2>3. Colored(w, "black") = N
    BY <2>1, <2>2, <1>1 DEF Colored
  <2>4. QED
    BY <2>1, <2>3
<1>8. QED
  BY <1>5, <1>6, <1>7

\* The search runs as far as every node is black.
LEMMA SearchOrders ==
  ASSUME NEW g, EdgesEnd(g), IsFiniteSet(NodesOf(g)), ~Cyclic(g)
  PROVE  Ordered(g, NodesOf(g))
<1> DEFINE N == NodesOf(g)
           W == {w \in Walks(N) : WalkInv(g, w)}
           start == [color |-> [n \in N |-> "white"], stack |-> << >>, cyclic |-> FALSE]
           F == [k \in Nat |-> [w \in W |-> Visit(g, N, w)]]
           Walk(f) == [k \in Nat |-> IF k = 0 THEN start ELSE Visit(g, N, f[k - 1])]
           last == 2 * Cardinality(N)
<1>1. start \in W
  <2>1. start \in Walks(N)
    BY DEF Walks
  <2>2. Colored(start, "black") = {}
    BY DEF Colored
  <2>3. Ordered(g, Colored(start, "black"))
    <3>1. ASSUME NEW some \in SUBSET Colored(start, "black") PROVE some = {}
      <4> HIDE DEF start
      <4> QED BY <2>2
    <3>2. QED
      <4> HIDE DEF start
      <4> QED BY <3>1 DEF Ordered
  <2>4. \A n \in N : start.color[n] = "white"
    OBVIOUS
  <2>5. \A e \in g.edges : e.from \in N
    BY DEF NodesOf, Producers
  <2>6. start.stack = << >> /\ DOMAIN start.stack = {}
    OBVIOUS
  <2>7. WalkInv(g, start)
    <3> HIDE DEF start
    <3> QED BY <2>1, <2>3, <2>4, <2>5, <2>6 DEF WalkInv
  <2>8. QED
    BY <2>1, <2>7
<1>2. ASSUME NEW w \in W
      PROVE  /\ Visit(g, N, w) \in W
             /\ Colored(w, "black") = N \/ Progress(Visit(g, N, w)) = Progress(w) + 1
  <2>1. WalkInv(g, w)
    OBVIOUS
  <2>2. /\ WalkInv(g, Visit(g, N, w))
        /\ Colored(w, "black") = N \/ Progress(Visit(g, N, w)) = Progress(w) + 1
    BY <2>1, VisitKeeps
  <2>3. QED
    BY <2>2 DEF WalkInv
<1>3. F \in [Nat -> [W -> W]]
  <2> HIDE DEF W
  <2> QED BY <1>2
<1>4. PICK f \in [Nat -> W] : Iterates(f, start, F)
  <2> HIDE DEF F, W, start
  <2> QED BY <1>1, <1>3, Iterating
<1>5. f = Walk(f)
  <2>1. ASSUME NEW k \in Nat PROVE f[k] = IF k = 0 THEN start ELSE Visit(g, N, f[k - 1])
    <3> HIDE DEF W, start
    <3>1. f[k] = IF k = 0 THEN start ELSE F[k][f[k - 1]]
      BY <1>4 DEF Iterates
    <3>2. CASE k = 0
      BY <3>1, <3>2
    <3>3. CASE k # 0
      <4>1. k - 1 \in Nat /\ f[k - 1] \in W
        BY <3>3
      <4>2. QED
        BY <3>1, <3>3, <4>1
    <3>4. QED
      BY <3>2, <3>3
  <2>2. f = [k \in Nat |-> f[k]]
    BY <1>4
  <2>3. QED
    BY <2>1, <2>2
<1>6. Search(g, N) = (CHOOSE h : h = Walk(h))[last]
  BY Zenon DEF Search
<1> DEFINE walk == CHOOSE h : h = Walk(h)
<1>7. walk = Walk(walk)
  <2> HIDE DEF Walk
  <2> QED BY <1>5
<1> HIDE DEF walk
<1>8. walk[0] = start /\ \A k \in Nat : walk[k + 1] = Visit(g, N, walk[k])
  <2>1. \A k \in Nat : walk[k] = IF k = 0 THEN start ELSE Visit(g, N, walk[k - 1])
    <3> HIDE DEF start
    <3> QED BY <1>7
  <2>2. ASSUME NEW k \in Nat PROVE walk[k + 1] = Visit(g, N, walk[k])
    <3>1. k + 1 \in Nat /\ k + 1 # 0 /\ (k + 1) - 1 = k
      OBVIOUS
    <3> HIDE DEF start
    <3>2. walk[k + 1] = Visit(g, N, walk[(k + 1) - 1])
      BY <2>1, <3>1
    <3>3. QED
      BY <3>1, <3>2
  <2>3. QED
    <3> HIDE DEF start
    <3> QED BY <2>1, <2>2
<1>9. Cardinality(N) \in Nat /\ last \in Nat
  BY FS_CardinalityType
<1> DEFINE Kept == {k \in Nat : k <= last => walk[k] \in W /\ Progress(walk[k]) = k}
<1>10. 0 \in Kept
  <2>1. Colored(start, "grey") = {} /\ Colored(start, "black") = {}
    BY DEF Colored
  <2>2. Progress(start) = 0
    <3>1. Progress(start) = Cardinality({}) + 2 * Cardinality({})
      BY <2>1 DEF Progress
    <3>2. QED
      BY <3>1, FS_EmptySet
  <2>3. QED
    <3> HIDE DEF start, W
    <3> QED BY <2>2, <1>1, <1>8
<1>11. ASSUME NEW w \in W PROVE Colored(w, "black") = N <=> Progress(w) = last
  <2>1. Colored(w, "grey") \in SUBSET N /\ Colored(w, "black") \in SUBSET N
    BY DEF Walks, Colored
  <2> DEFINE grey == Colored(w, "grey")
             black == Colored(w, "black")
  <2>2. grey \cap black = {}
    BY DEF Colored
  <2> HIDE DEF grey, black
  <2>3. /\ IsFiniteSet(grey) /\ IsFiniteSet(black)
        /\ Cardinality(grey) \in Nat /\ Cardinality(black) \in Nat
    BY <2>1, FS_Subset, FS_CardinalityType DEF grey, black
  <2>4. Cardinality(grey \cup black) = Cardinality(grey) + Cardinality(black)
    <3>1. Cardinality(grey \cap black) = 0
      BY <2>2, FS_EmptySet
    <3>2. QED
      <4>1. Cardinality(grey \cup black)
              = Cardinality(grey) + Cardinality(black) - Cardinality(grey \cap black)
        BY <2>3, FS_Union
      <4>2. QED
        BY <4>1, <3>1, <2>3
  <2>5. grey \cup black \in SUBSET N
    BY <2>1 DEF grey, black
  <2>6. Cardinality(grey \cup black) <= Cardinality(N)
    BY <2>5, FS_Subset
  <2>7. Progress(w) = Cardinality(grey) + 2 * Cardinality(black)
    BY DEF Progress, grey, black
  <2>8. ASSUME black = N PROVE Progress(w) = last
    <3>1. grey = {}
      BY <2>1, <2>2, <2>8 DEF grey
    <3>2. Cardinality(grey) = 0
      BY <3>1, FS_EmptySet
    <3>3. QED
      BY <3>2, <2>7, <2>8, <1>9
  <2>9. ASSUME Progress(w) = last PROVE black = N
    <3>1. Cardinality(black) = Cardinality(N)
      BY <2>9, <2>3, <2>4, <2>6, <2>7, <1>9
    <3>2. QED
      BY <3>1, <2>1, FS_Subset DEF black
  <2>10. QED
    BY <2>8, <2>9 DEF black
<1>12. ASSUME NEW k \in Nat, k \in Kept PROVE k + 1 \in Kept
  <2>1. SUFFICES ASSUME k + 1 <= last PROVE walk[k + 1] \in W /\ Progress(walk[k + 1]) = k + 1
    OBVIOUS
  <2> HIDE DEF W
  <2>2. walk[k] \in W /\ Progress(walk[k]) = k /\ k # last
    BY <2>1, <1>12, <1>9
  <2>3. Colored(walk[k], "black") # N
    BY <2>2, <1>11
  <2>4. walk[k + 1] = Visit(g, N, walk[k])
    BY <1>8
  <2>5. QED
    BY <2>2, <2>3, <2>4, <1>2
<1>13. Nat \subseteq Kept
  <2> HIDE DEF Kept
  <2> QED BY <1>10, <1>12, Counting
<1>14. walk[last] \in W /\ Progress(walk[last]) = last
  BY <1>9, <1>13
<1>15. Colored(walk[last], "black") = N
  <2> HIDE DEF W, last
  <2> QED BY <1>11, <1>14
<1>16. ~walk[last].cyclic
  BY <1>6 DEF Cyclic, walk
<1>17. QED
  BY <1>14, <1>15, <1>16 DEF WalkInv

(***************************************************************************)
(* The declaration.                                                        *)
(***************************************************************************)
\* A step has a value for each input of its transformation, a sink for its own.
Complete(object) ==
  /\ object.kind \in {"source", "step", "sink", "subpipeline"}
  /\ object.kind = "step" => DOMAIN object.bind = DOMAIN object.transform.inputs
  /\ object.kind = "sink" => DOMAIN object.bind = {"input"} /\ object.bind["input"] # Absent

IsBody(body) ==
  /\ body.order \in Seq(DOMAIN body.key)
  /\ IsFiniteSet(DOMAIN body.key)
  /\ \A n \in DOMAIN body.key : body.key[n] \in DOMAIN made
  /\ DOMAIN body.note \subseteq DOMAIN body.key

MembersInv ==
  /\ made \in Seq(ToSet(made))
  /\ \A k \in DOMAIN made : Complete(made[k])
  /\ IsBody(base) /\ IsBody(own)

\* The graph is that of the members: one edge at most for each value passed to a port.
GraphInv ==
  phase \in {"closed", "validated", "written", "refused"} =>
    /\ graph.names \in Seq(Members)
    /\ DOMAIN graph.node = Members
    /\ \A n \in Members : graph.node[n] = NodeOf(n)
    /\ \A e \in graph.edges : e.to \in Members /\ e.at \in Passed(e.to)
    /\ \A e, f \in graph.edges : e.to = f.to /\ e.at = f.at => e = f

VerdictInv ==
  verdict = "valid" => phase \in {"validated", "written", "refused"} /\ Accepted(graph)

DocumentInv ==
  phase = "written" =>
    {doc.inputs, doc.steps, doc.outputs} \subseteq Seq(DOMAIN doc.asset)

DeclarationInv == MembersInv /\ GraphInv /\ VerdictInv /\ DocumentInv

LEMMA AppendedMade ==
  ASSUME NEW m, m \in Seq(ToSet(m)), NEW object
  PROVE  /\ Append(m, object) \in Seq(ToSet(Append(m, object)))
         /\ DOMAIN Append(m, object) = DOMAIN m \cup {Len(m) + 1}
         /\ \A k \in DOMAIN m : Append(m, object)[k] = m[k]
         /\ Append(m, object)[Len(m) + 1] = object
<1> DEFINE R == ToSet(m) \cup {object}
           a == Append(m, object)
<1>1. m \in Seq(R)
  BY DEF ToSet
<1>2. /\ a \in Seq(R) /\ Len(m) \in Nat /\ DOMAIN m = 1 .. Len(m) /\ Len(a) = Len(m) + 1
      /\ DOMAIN a = 1 .. (Len(m) + 1) /\ a[Len(m) + 1] = object
      /\ \A k \in 1 .. Len(m) : a[k] = m[k]
  BY <1>1
<1>3. \A k \in DOMAIN a : a[k] \in ToSet(a)
  BY DEF ToSet
<1>4. a \in Seq(ToSet(a))
  <2> HIDE DEF a
  <2> QED BY <1>2, <1>3
<1>5. QED
  BY <1>2, <1>4

\* A name that is bound to an object keeps a body in shape.
LEMMA BoundKeeps ==
  ASSUME NEW b, NEW n, NEW k, NEW note, NEW places, k \in places,
         b.order \in Seq(DOMAIN b.key), IsFiniteSet(DOMAIN b.key),
         \A x \in DOMAIN b.key : b.key[x] \in places, DOMAIN b.note \subseteq DOMAIN b.key
  PROVE  LET c == Bound(b, n, k, note)
         IN  /\ c.order \in Seq(DOMAIN c.key) /\ IsFiniteSet(DOMAIN c.key)
             /\ \A x \in DOMAIN c.key : c.key[x] \in places
             /\ DOMAIN c.note \subseteq DOMAIN c.key
<1> DEFINE c == Bound(b, n, k, note)
<1>1. /\ c.order = IF n \in ToSet(b.order) THEN b.order ELSE Append(b.order, n)
      /\ c.key = Updated(b.key, n, k)
      /\ c.note = IF note = None THEN b.note ELSE Updated(b.note, n, note)
  BY DEF Bound, Body
<1>2. DOMAIN c.key = DOMAIN b.key \cup {n}
  BY <1>1 DEF Updated
<1>3. \A x \in DOMAIN c.key : c.key[x] = IF x = n THEN k ELSE b.key[x]
  BY <1>1 DEF Updated
<1>4. DOMAIN c.note \subseteq DOMAIN b.note \cup {n}
  BY <1>1 DEF Updated
<1> HIDE DEF c
<1>5. b.order \in Seq(DOMAIN c.key) /\ n \in DOMAIN c.key
  BY <1>2
<1>6. c.order \in Seq(DOMAIN c.key)
  <2>1. CASE n \in ToSet(b.order)
    BY <2>1, <1>1, <1>5
  <2>2. CASE n \notin ToSet(b.order)
    <3>1. c.order = Append(b.order, n)
      BY <2>2, <1>1
    <3>2. \A D : \A q \in Seq(D), x \in D : Append(q, x) \in Seq(D)
      OBVIOUS
    <3>3. QED
      BY <3>1, <3>2, <1>5
  <2>3. QED
    BY <2>1, <2>2
<1>7. IsFiniteSet(DOMAIN c.key)
  BY <1>2, FS_AddElement
<1>8. QED
  BY <1>1, <1>2, <1>3, <1>4, <1>6, <1>7 DEF c

\* What is the same as long as the members are.
LEMMA MembersStay ==
  ASSUME UNCHANGED <<made, base, own>>
  PROVE  /\ Members' = Members
         /\ \A n : Member(n)' = Member(n) /\ NodeOf(n)' = NodeOf(n) /\ Passed(n)' = Passed(n)
<1>1. Members' = Members
  BY DEF Members
<1>2. ASSUME NEW n PROVE Owner(n)' = Owner(n)
  BY DEF Owner
<1>3. ASSUME NEW n PROVE Member(n)' = Member(n)
  BY <1>2 DEF Member, KeyOf
<1>4. ASSUME NEW n PROVE ContractOf(n)' = ContractOf(n)
  BY <1>2, <1>3 DEF ContractOf
<1>5. ASSUME NEW n PROVE NodeOf(n)' = NodeOf(n)
  BY <1>3, <1>4 DEF NodeOf
<1>6. ASSUME NEW n PROVE Passed(n)' = Passed(n)
  BY <1>3, <1>5 DEF Passed
<1>7. QED
  BY <1>1, <1>3, <1>5, <1>6

LEMMA NothingBound ==
  /\ EmptyBody.order = << >> /\ EmptyBody.key = << >> /\ EmptyBody.note = << >>
  /\ DOMAIN EmptyBody.key = {} /\ DOMAIN EmptyBody.note = {}
BY DEF EmptyBody, Body

LEMMA DeclarationStarts == DeclarationInit => DeclarationInv
<1> SUFFICES ASSUME DeclarationInit PROVE DeclarationInv
  OBVIOUS
<1>1. /\ made = << >> /\ base = EmptyBody /\ own = EmptyBody /\ phase = "body"
      /\ verdict = None
  BY DEF DeclarationInit
<1>3. IsBody(base) /\ IsBody(own)
  BY <1>1, NothingBound, FS_EmptySet DEF IsBody
<1>4. MembersInv
  BY <1>1, <1>3 DEF MembersInv
<1>5. QED
  BY <1>1, <1>4 DEF DeclarationInv, GraphInv, VerdictInv, DocumentInv, None

LEMMA DeclareKeeps ==
  ASSUME DeclarationInv, NEW n, NEW object, NEW note, Complete(object), Declare(n, object, note)
  PROVE  DeclarationInv'
<1>1. /\ phase = "body" /\ made' = Append(made, object) /\ own' = Bound(own, n, Len(made) + 1, note)
      /\ base' = base /\ phase' = phase /\ verdict' = verdict
  BY DEF Declare
<1>2. /\ made \in Seq(ToSet(made)) /\ \A k \in DOMAIN made : Complete(made[k])
      /\ IsBody(base) /\ IsBody(own)
  BY DEF DeclarationInv, MembersInv
<1>3. /\ made' \in Seq(ToSet(made')) /\ DOMAIN made' = DOMAIN made \cup {Len(made) + 1}
      /\ \A k \in DOMAIN made : made'[k] = made[k]
      /\ made'[Len(made) + 1] = object
  BY <1>1, <1>2, AppendedMade
<1>4. \A k \in DOMAIN made' : Complete(made'[k])
  BY <1>2, <1>3
<1>5. IsBody(base)'
  BY <1>1, <1>2, <1>3 DEF IsBody
<1>6. IsBody(own)'
  <2> DEFINE places == DOMAIN made'
             c == Bound(own, n, Len(made) + 1, note)
  <2>1. Len(made) + 1 \in places /\ \A x \in DOMAIN own.key : own.key[x] \in places
    BY <1>2, <1>3 DEF IsBody
  <2>2. /\ own.order \in Seq(DOMAIN own.key) /\ IsFiniteSet(DOMAIN own.key)
        /\ DOMAIN own.note \subseteq DOMAIN own.key
    BY <1>2 DEF IsBody
  <2> HIDE DEF places
  <2>3. /\ c.order \in Seq(DOMAIN c.key) /\ IsFiniteSet(DOMAIN c.key)
        /\ \A x \in DOMAIN c.key : c.key[x] \in places
        /\ DOMAIN c.note \subseteq DOMAIN c.key
    BY <2>1, <2>2, BoundKeeps
  <2>4. QED
    BY <2>3, <1>1 DEF IsBody, places
<1>7. MembersInv'
  BY <1>3, <1>4, <1>5, <1>6 DEF MembersInv
<1>8. verdict # "valid"
  BY <1>1 DEF DeclarationInv, VerdictInv
<1>9. QED
  BY <1>1, <1>7, <1>8 DEF DeclarationInv, GraphInv, VerdictInv, DocumentInv

LEMMA AliasKeeps ==
  ASSUME DeclarationInv, NEW n, NEW k \in InScope, Alias(n, k)
  PROVE  DeclarationInv'
<1>1. /\ phase = "body" /\ made' = made /\ own' = Bound(own, n, k, None)
      /\ base' = base /\ phase' = phase /\ verdict' = verdict
  BY DEF Alias
<1>2. /\ made \in Seq(ToSet(made)) /\ \A j \in DOMAIN made : Complete(made[j])
      /\ IsBody(base) /\ IsBody(own)
  BY DEF DeclarationInv, MembersInv
<1>3. k \in DOMAIN made
  BY <1>2 DEF InScope, Range, IsBody
<1>4. IsBody(base)'
  BY <1>1, <1>2 DEF IsBody
<1>5. IsBody(own)'
  <2> DEFINE places == DOMAIN made
             c == Bound(own, n, k, None)
  <2>1. /\ own.order \in Seq(DOMAIN own.key) /\ IsFiniteSet(DOMAIN own.key)
        /\ \A x \in DOMAIN own.key : own.key[x] \in places
        /\ DOMAIN own.note \subseteq DOMAIN own.key /\ k \in places
    BY <1>2, <1>3 DEF IsBody
  <2> HIDE DEF places
  <2>2. /\ c.order \in Seq(DOMAIN c.key) /\ IsFiniteSet(DOMAIN c.key)
        /\ \A x \in DOMAIN c.key : c.key[x] \in places
        /\ DOMAIN c.note \subseteq DOMAIN c.key
    BY <2>1, BoundKeeps
  <2>3. QED
    BY <2>2, <1>1 DEF IsBody, places
<1>6. MembersInv'
  BY <1>1, <1>2, <1>4, <1>5 DEF MembersInv
<1>7. verdict # "valid"
  BY <1>1 DEF DeclarationInv, VerdictInv
<1>8. QED
  BY <1>1, <1>6, <1>7 DEF DeclarationInv, GraphInv, VerdictInv, DocumentInv

LEMMA StatementKeeps ==
  ASSUME DeclarationInv, Statement
  PROVE  DeclarationInv'
<1>1. CASE \E n \in Assignable : \E s \in Sources : DeclareSource(n, s)
  <2>1. PICK n \in Assignable, s \in Sources : DeclareSource(n, s)
    BY <1>1
  <2>2. Complete(Source(s.asset, s.contract))
    BY DEF Complete, Source
  <2>3. QED
    BY <2>1, <2>2, DeclareKeeps DEF DeclareSource
<1>2. CASE \E n \in Assignable : \E o \in NewSteps \cup NewEmbedded : Declare(n, o, None)
  <2>1. PICK n \in Assignable, o \in NewSteps \cup NewEmbedded : Declare(n, o, None)
    BY <1>2
  <2>2. CASE o \in NewSteps
    <3>1. PICK t \in Transforms : \E b \in [DOMAIN t.inputs -> Values] : o = StepOf(t, b)
      BY <2>2 DEF NewSteps
    <3>2. Complete(o)
      BY <3>1 DEF Complete, StepOf
    <3>3. QED
      BY <2>1, <3>2, DeclareKeeps
  <2>3. CASE o \in NewEmbedded
    <3>1. o.kind = "subpipeline"
      BY <2>3 DEF NewEmbedded, Embedded
    <3>2. Complete(o)
      BY <3>1 DEF Complete
    <3>3. QED
      BY <2>1, <3>2, DeclareKeeps
  <2>4. QED
    BY <2>1, <2>2, <2>3
<1>3. CASE \E n \in Assignable : \E s \in Sinks, v \in Values \ {Absent} : DeclareSink(n, s, v)
  <2>1. PICK n \in Assignable, s \in Sinks, v \in Values \ {Absent} : DeclareSink(n, s, v)
    BY <1>3
  <2>2. Complete(Sink(s.asset, s.contract, v))
    <3>1. /\ Sink(s.asset, s.contract, v).kind = "sink"
          /\ Sink(s.asset, s.contract, v).bind = [input |-> v]
      BY DEF Sink
    <3>2. DOMAIN [input |-> v] = {"input"} /\ [input |-> v]["input"] = v /\ v # Absent
      OBVIOUS
    <3>3. QED
      BY <3>1, <3>2 DEF Complete
  <2>3. QED
    BY <2>1, <2>2, DeclareKeeps DEF DeclareSink
<1>4. CASE \E n \in Assignable, k \in InScope : Alias(n, k)
  BY <1>4, AliasKeeps
<1>5. QED
  BY <1>1, <1>2, <1>3, <1>4 DEF Statement

\* The members are finitely many, and their order is one of them.
LEMMA MembersFinite == DeclarationInv => IsFiniteSet(Members)
<1> SUFFICES ASSUME DeclarationInv PROVE IsFiniteSet(Members)
  OBVIOUS
<1>1. IsFiniteSet(DOMAIN base.key) /\ IsFiniteSet(DOMAIN own.key)
  BY DEF DeclarationInv, MembersInv, IsBody
<1>2. QED
  BY <1>1, FS_Union DEF Members

LEMMA OrderType == DeclarationInv => MemberOrder \in Seq(Members)
<1> SUFFICES ASSUME DeclarationInv PROVE MemberOrder \in Seq(Members)
  OBVIOUS
<1> DEFINE Y == Members \ DOMAIN base.key
           q == Select(own.order, Y)
<1>1. base.order \in Seq(DOMAIN base.key) /\ own.order \in Seq(DOMAIN own.key)
  BY DEF DeclarationInv, MembersInv, IsBody
<1>2. q \in Seq(DOMAIN own.key \cap Y)
  BY <1>1, SelectType
<1>3. DOMAIN base.key \subseteq Members /\ DOMAIN own.key \cap Y \subseteq Members
  BY DEF Members
<1> HIDE DEF q
<1>4. base.order \in Seq(Members) /\ q \in Seq(Members)
  BY <1>1, <1>2, <1>3
<1>5. \A D : \A s, t \in Seq(D) : s \o t \in Seq(D)
  OBVIOUS
<1>6. QED
  BY <1>4, <1>5 DEF MemberOrder, q

LEMMA CloseKeeps ==
  ASSUME DeclarationInv, Close
  PROVE  DeclarationInv'
<1> DEFINE ref == [b \in Bindings |-> Resolve(ValueAt(b))]
<1>1. /\ UNCHANGED <<made, base, own>> /\ verdict' = verdict /\ phase \in {"body", "loaded"}
      /\ \/ phase' = "raised"
         \/ phase' = "closed" /\ graph' = GraphOf(ref)
  BY DEF Close
<1>2. MembersInv'
  BY <1>1 DEF DeclarationInv, MembersInv, IsBody
<1>3. verdict # "valid"
  BY <1>1 DEF DeclarationInv, VerdictInv
<1>4. VerdictInv' /\ DocumentInv'
  BY <1>1, <1>3 DEF VerdictInv, DocumentInv
<1>5. CASE phase' = "raised"
  BY <1>2, <1>4, <1>5 DEF DeclarationInv, GraphInv
<1>6. CASE phase' = "closed" /\ graph' = GraphOf(ref)
  <2>1. /\ graph'.names = MemberOrder /\ graph'.node = [n \in Members |-> NodeOf(n)]
        /\ graph'.edges = {[from |-> ref[b].node, port |-> ref[b].port, to |-> b.to, at |-> b.at] :
                              b \in {x \in DOMAIN ref : ref[x] # Unresolved}}
    BY <1>6 DEF GraphOf
  <2>2. MemberOrder \in Seq(Members)
    BY OrderType
  <2>3. \A b \in Bindings : b = [to |-> b.to, at |-> b.at] /\ b.to \in Members /\ b.at \in Passed(b.to)
    BY DEF Bindings
  <2>4. \A e \in graph'.edges :
          \E b \in Bindings : /\ e.to = b.to /\ e.at = b.at
                             /\ e = [from |-> ref[b].node, port |-> ref[b].port,
                                     to |-> b.to, at |-> b.at]
    <3> HIDE DEF ref
    <3>1. DOMAIN ref = Bindings
      BY DEF ref
    <3>2. QED
      BY <2>1, <3>1
  <2> HIDE DEF ref
  <2>5. \A e \in graph'.edges : e.to \in Members /\ e.at \in Passed(e.to)
    BY <2>3, <2>4
  <2>6. ASSUME NEW e \in graph'.edges, NEW f \in graph'.edges, e.to = f.to, e.at = f.at
        PROVE  e = f
    <3>1. PICK b \in Bindings : /\ e.to = b.to /\ e.at = b.at
                               /\ e = [from |-> ref[b].node, port |-> ref[b].port,
                                       to |-> b.to, at |-> b.at]
      BY <2>4
    <3>2. PICK c \in Bindings : /\ f.to = c.to /\ f.at = c.at
                               /\ f = [from |-> ref[c].node, port |-> ref[c].port,
                                       to |-> c.to, at |-> c.at]
      BY <2>4
    <3>3. b = c
      BY <2>3, <2>6, <3>1, <3>2
    <3>4. QED
      BY <3>1, <3>2, <3>3
  <2>7. Members' = Members /\ \A n : NodeOf(n)' = NodeOf(n) /\ Passed(n)' = Passed(n)
    BY <1>1, MembersStay
  <2>8. GraphInv'
    BY <2>1, <2>2, <2>5, <2>6, <2>7 DEF GraphInv
  <2>9. QED
    BY <1>2, <1>4, <2>8 DEF DeclarationInv
<1>7. QED
  BY <1>1, <1>5, <1>6

LEMMA SubclassKeeps ==
  ASSUME DeclarationInv, Subclass
  PROVE  DeclarationInv'
<1>1. /\ base' = own /\ own' = EmptyBody /\ made' = made /\ phase' = "body" /\ verdict' = None
  BY DEF Subclass
<1>3. IsBody(base)' /\ IsBody(own)'
  BY <1>1, NothingBound, FS_EmptySet DEF DeclarationInv, MembersInv, IsBody
<1>4. QED
  BY <1>1, <1>3 DEF DeclarationInv, MembersInv, GraphInv, VerdictInv, DocumentInv, None

\* The graph is still that of the members as long as both stay.
LEMMA GraphStays ==
  ASSUME GraphInv, phase \in {"closed", "validated", "written", "refused"},
         UNCHANGED <<made, base, own, graph>>
  PROVE  GraphInv' /\ Accepted(graph)' = Accepted(graph)
<1>1. /\ Members' = Members /\ graph' = graph
      /\ \A n : Member(n)' = Member(n) /\ NodeOf(n)' = NodeOf(n) /\ Passed(n)' = Passed(n)
  BY MembersStay
<1>2. GraphInv'
  BY <1>1 DEF GraphInv
<1>3. MembersDefined' = MembersDefined
  BY <1>1 DEF MembersDefined
<1>4. EverythingFed(graph)' = EverythingFed(graph)
  BY <1>1 DEF EverythingFed, Fed
<1>5. /\ WiringKnown(graph)' = WiringKnown(graph) /\ Cyclic(graph)' = Cyclic(graph)
      /\ (\A e \in graph.edges : EdgeFits(graph, e))' = (\A e \in graph.edges : EdgeFits(graph, e))
  BY <1>1
<1>6. QED
  BY <1>2, <1>3, <1>4, <1>5 DEF Accepted

LEMMA ValidateKeeps ==
  ASSUME DeclarationInv, Validate
  PROVE  DeclarationInv'
<1>1. /\ phase = "closed" /\ UNCHANGED <<made, base, own, graph>> /\ phase' = "validated"
      /\ verdict' = IF Accepted(graph) THEN "valid" ELSE "invalid"
  BY DEF Validate
<1>2. GraphInv' /\ Accepted(graph)' = Accepted(graph)
  BY <1>1, GraphStays DEF DeclarationInv
<1>3. MembersInv'
  BY <1>1 DEF DeclarationInv, MembersInv, IsBody
<1>4. VerdictInv' /\ DocumentInv'
  BY <1>1, <1>2 DEF VerdictInv, DocumentInv
<1>5. QED
  BY <1>2, <1>3, <1>4 DEF DeclarationInv

LEMMA WriteKeeps ==
  ASSUME DeclarationInv, WriteContracts
  PROVE  DeclarationInv'
<1>1. /\ phase = "validated" /\ UNCHANGED <<made, base, own, graph>> /\ verdict' = verdict
      /\ verdict = "valid"
      /\ \/ phase' = "refused"
         \/ phase' = "written" /\ doc' = BundleOf(graph)
  BY DEF WriteContracts
<1>2. GraphInv' /\ Accepted(graph)' = Accepted(graph)
  BY <1>1, GraphStays DEF DeclarationInv
<1>3. MembersInv'
  BY <1>1 DEF DeclarationInv, MembersInv, IsBody
<1>4. VerdictInv'
  BY <1>1, <1>2 DEF DeclarationInv, VerdictInv
<1>5. DocumentInv'
  <2>1. CASE phase' = "refused"
    BY <2>1 DEF DocumentInv
  <2>2. CASE phase' = "written" /\ doc' = BundleOf(graph)
    <3>1. /\ doc'.inputs = Sequence(graph, "source") /\ doc'.steps = Sequence(graph, "step")
          /\ doc'.outputs = Sequence(graph, "sink")
          /\ doc'.asset = [n \in DOMAIN graph.node |-> graph.node[n].asset]
      BY <2>2 DEF BundleOf
    <3>2. graph.names \in Seq(DOMAIN graph.node)
      BY <1>1 DEF DeclarationInv, GraphInv
    <3>3. ASSUME NEW kind PROVE Sequence(graph, kind) \in Seq(DOMAIN graph.node)
      <4> DEFINE Y == {n \in DOMAIN graph.node : graph.node[n].kind = kind}
      <4>1. Sequence(graph, kind) \in Seq(DOMAIN graph.node \cap Y)
        BY <3>2, SelectType DEF Sequence
      <4>2. QED
        BY <4>1
    <3>4. DOMAIN doc'.asset = DOMAIN graph.node
      BY <3>1
    <3>5. QED
      BY <3>1, <3>3, <3>4 DEF DocumentInv
  <2>3. QED
    BY <1>1, <2>1, <2>2
<1>6. QED
  BY <1>2, <1>3, <1>4, <1>5 DEF DeclarationInv

LEMMA LoadKeeps ==
  ASSUME DeclarationInv, LoadBundle
  PROVE  DeclarationInv'
<1> DEFINE order == doc.inputs \o doc.steps \o doc.outputs
           place == [n \in ToSet(order) |-> CHOOSE i \in DOMAIN order : order[i] = n]
<1>1. /\ phase = "written" /\ verdict' = None
      /\ \/ phase' = "unloadable" /\ UNCHANGED <<made, own, base>>
         \/ /\ phase' = "loaded" /\ base' = EmptyBody /\ own' = Body(order, place, << >>)
            /\ made' = [i \in DOMAIN order |-> LoadedObject(place, order[i])]
  BY DEF LoadBundle
<1>2. CASE phase' = "unloadable" /\ UNCHANGED <<made, own, base>>
  BY <1>1, <1>2 DEF DeclarationInv, MembersInv, IsBody, GraphInv, VerdictInv, DocumentInv, None
<1>3. CASE /\ phase' = "loaded" /\ base' = EmptyBody /\ own' = Body(order, place, << >>)
           /\ made' = [i \in DOMAIN order |-> LoadedObject(place, order[i])]
  <2>1. order \in Seq(DOMAIN doc.asset)
    <3>1. /\ doc.inputs \in Seq(DOMAIN doc.asset) /\ doc.steps \in Seq(DOMAIN doc.asset)
          /\ doc.outputs \in Seq(DOMAIN doc.asset)
      BY <1>1 DEF DeclarationInv, DocumentInv
    <3>2. \A D : \A s, t \in Seq(D) : s \o t \in Seq(D)
      OBVIOUS
    <3>3. QED
      BY <3>1, <3>2
  <2> HIDE DEF order
  <2>2. Len(order) \in Nat /\ DOMAIN order = 1 .. Len(order)
    BY <2>1
  <2>3. ToSet(order) = {order[i] : i \in DOMAIN order}
    BY DEF ToSet
  <2>4. IsFiniteSet(ToSet(order))
    <3>1. order \in Surjection(DOMAIN order, ToSet(order))
      BY <2>1, <2>2, <2>3 DEF Surjection
    <3>2. IsFiniteSet(DOMAIN order)
      BY <2>2, FS_Interval
    <3>3. QED
      BY <3>1, <3>2, FS_Surjection
  <2>5. \A n \in ToSet(order) : place[n] \in DOMAIN order
    BY <2>3
  <2>6. DOMAIN place = ToSet(order) /\ order \in Seq(ToSet(order))
    BY <2>1, <2>2, <2>3
  <2> HIDE DEF place
  <2> DEFINE loaded(i) == LoadedObject(place, order[i])
  <2>7. /\ made' \in Seq(ToSet(made')) /\ DOMAIN made' = DOMAIN order
        /\ \A i \in DOMAIN order : made'[i] = loaded(i)
    <3>1. DOMAIN made' = DOMAIN order /\ \A i \in DOMAIN order : made'[i] = loaded(i)
      BY <1>3
    <3>2. made' = [i \in 1 .. Len(order) |-> made'[i]]
      BY <1>3, <2>2
    <3>3. \A i \in 1 .. Len(order) : made'[i] \in ToSet(made')
      BY <3>1, <2>2 DEF ToSet
    <3>4. QED
      BY <3>1, <3>2, <3>3, <2>2
  <2>8. ASSUME NEW n PROVE Complete(LoadedObject(place, n))
    <3> DEFINE e == CHOOSE x \in doc.flow : x.to = n
               bind == [p \in DOMAIN TransformAt(n).inputs |-> LoadedInto(place, n, p)]
    <3>1. CASE n \in ToSet(doc.inputs)
      <4>1. LoadedObject(place, n) = Source(doc.asset[n], doc.contract[n])
        BY <3>1 DEF LoadedObject
      <4>2. QED
        BY <4>1 DEF Complete, Source
    <3>2. CASE n \notin ToSet(doc.inputs) /\ n \in ToSet(doc.steps)
      <4>1. LoadedObject(place, n) = StepOf(TransformAt(n), bind)
        BY <3>2 DEF LoadedObject
      <4>2. DOMAIN bind = DOMAIN TransformAt(n).inputs
        OBVIOUS
      <4> HIDE DEF bind
      <4>3. QED
        BY <4>1, <4>2 DEF Complete, StepOf
    <3>3. CASE n \notin ToSet(doc.inputs) /\ n \notin ToSet(doc.steps)
      <4>1. LoadedObject(place, n) = Sink(doc.asset[n], doc.contract[n], LoadedValue(place, e))
        BY <3>3 DEF LoadedObject
      <4>2. LoadedValue(place, e) # Absent
        BY DEF LoadedValue, Object, ByName, Absent
      <4> DEFINE v == LoadedValue(place, e)
                 sink == Sink(doc.asset[n], doc.contract[n], v)
      <4>3. sink.kind = "sink" /\ sink.bind = [input |-> v]
        BY DEF Sink
      <4> HIDE DEF v, sink
      <4>4. DOMAIN [input |-> v] = {"input"} /\ [input |-> v]["input"] = v
        OBVIOUS
      <4>5. Complete(sink)
        BY <4>2, <4>3, <4>4 DEF Complete, v
      <4>6. QED
        BY <4>1, <4>5 DEF sink, v
    <3>4. QED
      BY <3>1, <3>2, <3>3
  <2>9. \A k \in DOMAIN made' : Complete(made'[k])
    BY <2>7, <2>8
  <2>10. IsBody(base)'
    <3>2. IsFiniteSet({})
      BY FS_EmptySet
    <3>3. base' = EmptyBody
      BY <1>3
    <3>4. /\ base'.order = << >> /\ base'.key = << >> /\ base'.note = << >>
          /\ DOMAIN base'.key = {} /\ DOMAIN base'.note = {}
      BY NothingBound, <3>3
    <3>5. << >> \in Seq({})
      OBVIOUS
    <3>6. QED
      BY <3>2, <3>4, <3>5 DEF IsBody
  <2>11. IsBody(own)'
    <3>1. own'.order = order /\ own'.key = place /\ own'.note = << >> /\ DOMAIN own'.note = {}
      BY <1>3 DEF Body
    <3>2. QED
      BY <3>1, <2>4, <2>5, <2>6, <2>7 DEF IsBody
  <2>12. MembersInv'
    BY <2>7, <2>9, <2>10, <2>11 DEF MembersInv
  <2>13. QED
    BY <1>1, <1>3, <2>12 DEF DeclarationInv, GraphInv, VerdictInv, DocumentInv, None
<1>4. QED
  BY <1>1, <1>2, <1>3

LEMMA DeclarationSteps == DeclarationInv /\ [DeclarationNext]_declarationVars => DeclarationInv'
<1> SUFFICES ASSUME DeclarationInv, [DeclarationNext]_declarationVars PROVE DeclarationInv'
  OBVIOUS
<1>1. CASE Statement
  BY <1>1, StatementKeeps
<1>2. CASE Close
  BY <1>2, CloseKeeps
<1>3. CASE Subclass
  BY <1>3, SubclassKeeps
<1>4. CASE Validate
  BY <1>4, ValidateKeeps
<1>5. CASE WriteContracts
  BY <1>5, WriteKeeps
<1>6. CASE LoadBundle
  BY <1>6, LoadKeeps
<1>7. CASE UNCHANGED declarationVars
  <2>1. UNCHANGED <<made, base, own, graph>> /\ UNCHANGED <<phase, verdict, doc>>
    BY <1>7 DEF declarationVars
  <2>2. MembersInv' /\ DocumentInv'
    BY <2>1 DEF DeclarationInv, MembersInv, IsBody, DocumentInv
  <2>3. CASE phase \in {"closed", "validated", "written", "refused"}
    <3>1. GraphInv' /\ Accepted(graph)' = Accepted(graph)
      BY <2>1, <2>3, GraphStays DEF DeclarationInv
    <3>2. QED
      BY <2>1, <2>2, <3>1 DEF DeclarationInv, VerdictInv
  <2>4. CASE phase \notin {"closed", "validated", "written", "refused"}
    BY <2>1, <2>2, <2>4 DEF DeclarationInv, GraphInv, VerdictInv
  <2>5. QED
    BY <2>3, <2>4
<1>8. QED
  BY <1>1, <1>2, <1>3, <1>4, <1>5, <1>6, <1>7 DEF DeclarationNext

\* The contract that the graph has for an end of an edge is the declared one, unless the
\* name was assigned again without its annotation.
LEMMA ContractsAreDeclared ==
  ASSUME MembersInv, NEW n, ~Unannotated(n)
  PROVE  ContractOf(n) = DeclaredContract(n)
<1>1. DOMAIN own.note \subseteq DOMAIN own.key
  BY DEF MembersInv, IsBody
<1>2. CASE Member(n).contract # None
  BY <1>2 DEF ContractOf, DeclaredContract
<1>3. CASE Member(n).contract = None /\ n \in DOMAIN own.note
  BY <1>1, <1>3 DEF ContractOf, DeclaredContract, Owner
<1>4. CASE Member(n).contract = None /\ n \notin DOMAIN own.note /\ n \in DOMAIN own.key
  BY <1>4 DEF ContractOf, DeclaredContract, Owner, Unannotated
<1>5. CASE Member(n).contract = None /\ n \notin DOMAIN own.note /\ n \notin DOMAIN own.key
  BY <1>5 DEF ContractOf, DeclaredContract, Owner
<1>6. QED
  BY <1>2, <1>3, <1>4, <1>5

\* The inputs of a node, and the contracts of what has a contract of its own.
LEMMA NodeShapes ==
  ASSUME MembersInv, NEW n \in Members
  PROVE  /\ Complete(Member(n)) /\ NodeOf(n).kind = Member(n).kind
         /\ Member(n).kind = "source" =>
              /\ DOMAIN NodeOf(n).inputs = {}
              /\ \A p \in DOMAIN NodeOf(n).outputs : NodeOf(n).outputs[p].contract = ContractOf(n)
         /\ Member(n).kind = "sink" =>
              /\ DOMAIN NodeOf(n).outputs = {} /\ DOMAIN NodeOf(n).inputs = {"input"}
              /\ NodeOf(n).inputs["input"] = ContractOf(n)
         /\ Member(n).kind = "step" => NodeOf(n).inputs = Member(n).transform.inputs
<1>1. Complete(Member(n))
  BY DEF Members, Member, KeyOf, Owner, MembersInv, IsBody
<1>2. Member(n).kind \in {"source", "step", "sink", "subpipeline"}
  BY <1>1 DEF Complete
<1>3. CASE Member(n).kind = "source"
  <2>1. /\ NodeOf(n).kind = "source" /\ NodeOf(n).inputs = << >>
        /\ NodeOf(n).outputs = [result |-> Port(ContractOf(n), "valid")]
    BY <1>3 DEF NodeOf
  <2> DEFINE port == Port(ContractOf(n), "valid")
  <2>2. port.contract = ContractOf(n)
    BY DEF Port
  <2> HIDE DEF port
  <2>3. DOMAIN [result |-> port] = {"result"} /\ [result |-> port]["result"] = port
    OBVIOUS
  <2>4. QED
    BY <1>1, <1>3, <2>1, <2>2, <2>3 DEF port
<1>4. CASE Member(n).kind = "sink"
  <2>1. /\ NodeOf(n).kind = "sink" /\ NodeOf(n).outputs = << >>
        /\ NodeOf(n).inputs = [input |-> ContractOf(n)]
    BY <1>4 DEF NodeOf
  <2>2. \A c : DOMAIN [input |-> c] = {"input"} /\ [input |-> c]["input"] = c
    OBVIOUS
  <2>3. QED
    BY <1>1, <1>4, <2>1, <2>2
<1>5. CASE Member(n).kind = "step"
  <2>1. NodeOf(n).kind = "step" /\ NodeOf(n).inputs = Member(n).transform.inputs
    BY <1>5 DEF NodeOf
  <2>2. QED
    BY <1>1, <1>5, <2>1
<1>6. CASE Member(n).kind = "subpipeline"
  <2>1. NodeOf(n).kind = "subpipeline"
    BY <1>6 DEF NodeOf
  <2>2. QED
    BY <1>1, <1>6, <2>1
<1>7. QED
  BY <1>2, <1>3, <1>4, <1>5, <1>6

LEMMA AcceptedRuns == DeclarationInv => AcceptedCanRun
<1> SUFFICES ASSUME DeclarationInv, verdict = "valid" PROVE AcceptedCanRun
  BY DEF AcceptedCanRun
<1>1. /\ MembersInv /\ Accepted(graph)
      /\ DOMAIN graph.node = Members
      /\ \A n \in Members : graph.node[n] = NodeOf(n)
      /\ \A e \in graph.edges : e.to \in Members /\ e.at \in Passed(e.to)
      /\ \A e, f \in graph.edges : e.to = f.to /\ e.at = f.at => e = f
  BY DEF DeclarationInv, VerdictInv, GraphInv
<1>2. \A e \in graph.edges : e.from \in Members /\ EdgeFits(graph, e)
  BY <1>1 DEF Accepted, WiringKnown, Producers
<1>3. Ordered(graph, DOMAIN graph.node)
  <2>1. NodesOf(graph) = Members
    BY <1>1 DEF NodesOf, Accepted, WiringKnown
  <2>2. IsFiniteSet(Members)
    BY MembersFinite
  <2>3. EdgesEnd(graph)
    BY <1>1, <2>1 DEF EdgesEnd
  <2>4. Ordered(graph, NodesOf(graph))
    BY <1>1, <2>1, <2>2, <2>3, SearchOrders DEF Accepted
  <2>5. QED
    BY <1>1, <2>1, <2>4
<1>4. ASSUME NEW n \in DOMAIN graph.node, NEW p \in DOMAIN graph.node[n].inputs
      PROVE  LET feeds == {e \in graph.edges : e.to = n /\ e.at = p}
             IN  /\ Cardinality(feeds) <= 1
                 /\ graph.node[n].kind # "subpipeline" => feeds # {}
                 /\ \A e \in feeds :
                      /\ e.port \in DOMAIN graph.node[e.from].outputs
                      /\ graph.node[e.from].outputs[e.port].role # "invalid"
  <2> DEFINE feeds == {e \in graph.edges : e.to = n /\ e.at = p}
  <2>1. n \in Members /\ graph.node[n] = NodeOf(n)
    BY <1>1
  <2>2. Cardinality(feeds) <= 1
    <3>1. CASE feeds = {}
      <4>1. Cardinality({}) = 0
        BY FS_EmptySet
      <4>2. QED
        BY <3>1, <4>1
    <3>2. CASE feeds # {}
      <4>1. PICK e \in feeds : TRUE
        BY <3>2
      <4>2. feeds = {e}
        BY <1>1, <4>1
      <4>3. Cardinality({e}) = 1
        BY FS_Singleton
      <4>4. QED
        BY <4>2, <4>3
    <3>3. QED
      BY <3>1, <3>2
  <2>3. ASSUME graph.node[n].kind # "subpipeline" PROVE feeds # {}
    <3>1. Member(n).kind \in {"source", "step", "sink"} /\ p \in DOMAIN NodeOf(n).inputs
      BY <1>1, <2>1, <2>3, NodeShapes DEF Complete
    <3>2. p \in DOMAIN Member(n).bind /\ Member(n).bind[p] # Absent
      <4>1. CASE Member(n).kind = "source"
        BY <1>1, <2>1, <3>1, <4>1, NodeShapes
      <4>2. CASE Member(n).kind = "sink"
        BY <1>1, <2>1, <3>1, <4>2, NodeShapes DEF Complete
      <4>3. CASE Member(n).kind = "step"
        <5>1. p \in DOMAIN Member(n).bind
          BY <1>1, <2>1, <3>1, <4>3, NodeShapes DEF Complete
        <5>2. QED
          BY <1>1, <2>1, <4>3, <5>1 DEF Accepted, MembersDefined
      <4>4. QED
        BY <3>1, <4>1, <4>2, <4>3
    <3>3. Fed(graph, n, p)
      BY <1>1, <2>1, <3>2 DEF Accepted, EverythingFed
    <3>4. QED
      BY <3>3 DEF Fed
  <2>4. \A e \in feeds : /\ e.port \in DOMAIN graph.node[e.from].outputs
                         /\ graph.node[e.from].outputs[e.port].role # "invalid"
    BY <1>2 DEF EdgeFits
  <2>5. QED
    BY <2>2, <2>3, <2>4
<1>5. ASSUME NEW e \in graph.edges
      PROVE  LET end(n, c) == IF graph.node[n].kind \in {"source", "sink"}
                              THEN DeclaredContract(n) ELSE c
                 from == end(e.from, graph.node[e.from].outputs[e.port].contract)
                 to == end(e.to, graph.node[e.to].inputs[e.at])
             IN  Compatible(from, to) \/ Unannotated(e.from) \/ Unannotated(e.to)
  <2> DEFINE c == graph.node[e.from].outputs[e.port].contract
             d == graph.node[e.to].inputs[e.at]
  <2>1. SUFFICES ASSUME ~Unannotated(e.from), ~Unannotated(e.to)
                 PROVE  Compatible(IF graph.node[e.from].kind \in {"source", "sink"}
                                   THEN DeclaredContract(e.from) ELSE c,
                                   IF graph.node[e.to].kind \in {"source", "sink"}
                                   THEN DeclaredContract(e.to) ELSE d)
    OBVIOUS
  <2>2. /\ e.from \in Members /\ e.to \in Members
        /\ graph.node[e.from] = NodeOf(e.from) /\ graph.node[e.to] = NodeOf(e.to)
        /\ e.at \in DOMAIN NodeOf(e.to).inputs
    BY <1>1, <1>2 DEF Passed
  <2>3. e.port \in DOMAIN NodeOf(e.from).outputs /\ Compatible(c, d)
    BY <1>2, <2>2 DEF EdgeFits
  <2>4. /\ ContractOf(e.from) = DeclaredContract(e.from)
        /\ ContractOf(e.to) = DeclaredContract(e.to)
    BY <1>1, <2>1, ContractsAreDeclared
  <2>5. graph.node[e.from].kind \in {"source", "sink"} => c = ContractOf(e.from)
    BY <1>1, <2>2, <2>3, NodeShapes
  <2>6. graph.node[e.to].kind \in {"source", "sink"} => d = ContractOf(e.to)
    BY <1>1, <2>2, NodeShapes
  <2> HIDE DEF c, d
  <2>7. QED
    BY <2>3, <2>4, <2>5, <2>6
<1>6. QED
  BY <1>3, <1>4, <1>5 DEF AcceptedCanRun

\* Whatever statements an author writes, a pipeline that validates can run: what it reads is
\* there when it is read, every input has one producer, and the ends of an edge were
\* declared with one contract.
THEOREM AcceptedCanRunHolds == DeclarationSpec => []AcceptedCanRun
<1>1. DeclarationInit => DeclarationInv
  BY DeclarationStarts
<1>2. DeclarationInv /\ [DeclarationNext]_declarationVars => DeclarationInv'
  BY DeclarationSteps
<1>3. DeclarationInv => AcceptedCanRun
  BY AcceptedRuns
<1>4. QED
  BY <1>1, <1>2, <1>3, PTL DEF DeclarationSpec

\* What a binding resolves to is what was passed, or stands in for it.
LEMMA ResolvesAsWritten ==
  ASSUME DeclarationInv, NEW v, Resolve(v) # Unresolved, Resolve(v) # Raises
  PROVE  LET from == Resolve(v).node
         IN  IF v.form = "named" THEN from = v.node
             ELSE IF \E n \in Members : KeyOf(n) = v.key
             THEN from \in Members /\ KeyOf(from) = v.key
                  /\ (v.form = "output" => Resolve(v).port = v.port)
             ELSE /\ v.form = "object" /\ made[v.key].kind = "source"
                  /\ from \in Members /\ Member(from).kind = "source"
                  /\ Member(from).asset = made[v.key].asset
<1> DEFINE from == Resolve(v).node
<1>1. \A x, p : To(x, p).node = x /\ To(x, p).port = p
  BY DEF To
<1>2. ASSUME NEW k, FirstWith(k) # None
      PROVE  FirstWith(k) \in Members /\ KeyOf(FirstWith(k)) = k
  <2> DEFINE Y == {n \in Members : KeyOf(n) = k}
             named == Select(MemberOrder, Y)
  <2>1. named \in Seq(Members \cap Y)
    BY OrderType, SelectType
  <2>2. named # << >> /\ FirstWith(k) = named[1]
    BY <1>2 DEF FirstWith
  <2> HIDE DEF named, Y
  <2>3. named[1] \in Members \cap Y
    BY <2>1, <2>2
  <2>4. QED
    BY <2>2, <2>3 DEF Y
<1>3. CASE v.form = "named"
  BY <1>1, <1>3 DEF Resolve
<1>4. CASE v.form = "output"
  <2>1. FirstWith(v.key) # None /\ Resolve(v) = To(FirstWith(v.key), v.port)
    BY <1>4 DEF Resolve
  <2>2. QED
    BY <1>1, <1>2, <1>4, <2>1
<1>5. CASE v.form = "object" /\ made[v.key].kind = "source"
  <2> DEFINE like == SourcesLike(v.key)
             n == CHOOSE x \in like : TRUE
  <2>1. /\ Cardinality(like) = 1 /\ OnlySource(v.key) = n
        /\ Resolve(v) = To(n, "result")
    BY <1>5 DEF Resolve, OnlySource
  <2>2. like \subseteq Members
    BY DEF SourcesLike, OfKind
  <2>3. IsFiniteSet(like)
    BY <2>2, MembersFinite, FS_Subset
  <2> HIDE DEF like
  <2>4. \E x : like = {x}
    BY <2>1, <2>3, FS_Singleton
  <2>5. like = {n}
    BY <2>4
  <2>6. n \in Members /\ Member(n).kind = "source" /\ Member(n).asset = made[v.key].asset
    BY <2>5 DEF like, SourcesLike, OfKind
  <2>7. ASSUME NEW m \in Members, KeyOf(m) = v.key PROVE m = n
    <3>1. Member(m) = made[v.key]
      BY <2>7 DEF Member
    <3>2. made[v.key].contract \in {None, ContractOf(m)}
      BY <3>1 DEF ContractOf
    <3>3. m \in like
      BY <1>5, <2>7, <3>1, <3>2 DEF like, SourcesLike, OfKind
    <3>4. QED
      BY <3>3, <2>5
  <2> HIDE DEF n
  <2>8. from = n
    BY <1>1, <2>1
  <2>9. QED
    BY <1>5, <2>6, <2>7, <2>8
<1>6. CASE v.form = "object" /\ made[v.key].kind = "step"
  <2>1. FirstWith(v.key) # None /\ Resolve(v) = To(FirstWith(v.key), DefaultPort(OutputsOf(v.key)))
    BY <1>6 DEF Resolve
  <2>2. QED
    BY <1>1, <1>2, <1>6, <2>1
<1>7. CASE /\ v.form # "named" /\ v.form # "output"
           /\ ~(v.form = "object" /\ made[v.key].kind = "source")
           /\ ~(v.form = "object" /\ made[v.key].kind = "step")
  BY <1>7 DEF Resolve
<1>8. QED
  BY <1>3, <1>4, <1>5, <1>6, <1>7

\* When a class is closed its edges come from what was passed.
LEMMA CloseWires ==
  ASSUME DeclarationInv, Close
  PROVE  WiredAsWritten'
<1> DEFINE ref == [b \in Bindings |-> Resolve(ValueAt(b))]
<1>1. /\ UNCHANGED <<made, base, own>>
      /\ \/ phase' = "raised"
         \/ phase' = "closed" /\ graph' = GraphOf(ref) /\ Raises \notin Range(ref)
  BY DEF Close
<1>2. SUFFICES ASSUME phase' = "closed", graph' = GraphOf(ref), Raises \notin Range(ref)
               PROVE  WiredAsWritten'
  BY <1>1 DEF WiredAsWritten
<1>3. ASSUME NEW e \in graph'.edges
      PROVE  LET v == Member(e.to).bind[e.at]
             IN  /\ Resolve(v) # Unresolved /\ Resolve(v) # Raises
                 /\ e.from = Resolve(v).node /\ e.port = Resolve(v).port
  <2>1. DOMAIN ref = Bindings /\ \A b \in Bindings : ref[b] = Resolve(ValueAt(b))
    OBVIOUS
  <2>2. \A b \in Bindings : ref[b] # Raises
    BY <1>2, <2>1 DEF Range
  <2> HIDE DEF ref
  <2>3. PICK b \in Bindings :
          ref[b] # Unresolved
          /\ e = [from |-> ref[b].node, port |-> ref[b].port, to |-> b.to, at |-> b.at]
    BY <1>2, <2>1 DEF GraphOf
  <2>4. e.from = ref[b].node /\ e.port = ref[b].port /\ e.to = b.to /\ e.at = b.at
    BY <2>3
  <2>5. QED
    BY <2>1, <2>2, <2>3, <2>4 DEF ValueAt
<1>4. graph'.node = [n \in Members |-> NodeOf(n)]
  BY <1>2 DEF GraphOf
<1>5. \A n \in Members : Member(n).kind = "source" =>
        graph'.node[n].kind = "source" /\ graph'.node[n].asset = Member(n).asset
  BY <1>4 DEF NodeOf
<1>6. /\ Members' = Members /\ made' = made
      /\ \A n : Member(n)' = Member(n) /\ KeyOf(n)' = KeyOf(n)
  BY <1>1, MembersStay DEF KeyOf, Owner
<1>7. ASSUME NEW e \in graph'.edges
      PROVE  LET v == Member(e.to).bind[e.at]
             IN  IF v.form = "named" THEN e.from = v.node
                 ELSE IF \E n \in Members : KeyOf(n) = v.key
                 THEN KeyOf(e.from) = v.key /\ (v.form = "output" => e.port = v.port)
                 ELSE /\ v.form = "object" /\ made[v.key].kind = "source"
                      /\ graph'.node[e.from].kind = "source"
                      /\ graph'.node[e.from].asset = made[v.key].asset
  <2> DEFINE v == Member(e.to).bind[e.at]
  <2>1. /\ Resolve(v) # Unresolved /\ Resolve(v) # Raises
        /\ e.from = Resolve(v).node /\ e.port = Resolve(v).port
    BY <1>3
  <2> HIDE DEF v
  <2>2. LET from == Resolve(v).node
        IN  IF v.form = "named" THEN from = v.node
            ELSE IF \E n \in Members : KeyOf(n) = v.key
            THEN from \in Members /\ KeyOf(from) = v.key
                 /\ (v.form = "output" => Resolve(v).port = v.port)
            ELSE /\ v.form = "object" /\ made[v.key].kind = "source"
                 /\ from \in Members /\ Member(from).kind = "source"
                 /\ Member(from).asset = made[v.key].asset
    BY <2>1, ResolvesAsWritten
  <2>3. QED
    BY <2>1, <2>2, <1>5 DEF v
<1>8. QED
  BY <1>6, <1>7 DEF WiredAsWritten

LEMMA WiringStays ==
  ASSUME WiredAsWritten, UNCHANGED declarationVars
  PROVE  WiredAsWritten'
<1>1. /\ Members' = Members /\ made' = made /\ graph' = graph /\ phase' = phase
      /\ \A n : Member(n)' = Member(n) /\ KeyOf(n)' = KeyOf(n)
  BY MembersStay DEF declarationVars, KeyOf, Owner
<1>2. QED
  BY <1>1 DEF WiredAsWritten

\* An edge comes from the object the author passed while that is a member, and afterwards from
\* an extract of the same asset: whatever names are shared, assigned again or overridden.
THEOREM WiredAsWrittenHolds == DeclarationSpec => []WiredAsWritten
<1> DEFINE Inv == DeclarationInv /\ WiredAsWritten
<1>1. DeclarationInit => Inv
  BY DeclarationStarts DEF DeclarationInit, WiredAsWritten
<1>2. Inv /\ [DeclarationNext]_declarationVars => Inv'
  <2> SUFFICES ASSUME Inv, [DeclarationNext]_declarationVars PROVE Inv'
    OBVIOUS
  <2>1. DeclarationInv'
    BY DeclarationSteps
  <2>2. CASE Statement /\ phase = "body"
    <3>1. phase' = phase
      BY <2>2 DEF Statement, DeclareSource, DeclareSink, Declare, Alias
    <3>2. QED
      BY <2>1, <2>2, <3>1 DEF WiredAsWritten
  <2>3. CASE Close
    BY <2>1, <2>3, CloseWires
  <2>4. CASE Subclass \/ Validate \/ WriteContracts \/ LoadBundle
    <3>1. phase' # "closed"
      BY <2>4 DEF Subclass, Validate, WriteContracts, LoadBundle
    <3>2. QED
      BY <2>1, <3>1 DEF WiredAsWritten
  <2>5. CASE UNCHANGED declarationVars
    BY <2>1, <2>5, WiringStays
  <2>6. QED
    BY <2>2, <2>3, <2>4, <2>5 DEF DeclarationNext
<1>3. QED
  BY <1>1, <1>2, PTL DEF DeclarationSpec
=============================================================================
