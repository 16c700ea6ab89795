--------------------------- MODULE FileStoreProofs ---------------------------
(***************************************************************************)
(* The lock file of write_text_safe, for any number of processes and items: *)
(* it excludes, and without a crash or a failing call nothing is left over. *)
(***************************************************************************)
EXTENDS FileStore, FiniteSetTheorems, TLAPS

\* What the proofs need to know of the shape of the state.
Shape ==
  /\ pc \in [Processes -> Steps]
  /\ item \in [Processes -> Items \cup {Absent}]
  /\ \A p \in Processes : pc[p] \notin {"down", "idle"} => item[p] \in Items
  /\ DOMAIN temps = Items
  /\ faults \in Nat

\* LockInv: a process that writes under a lock has made the lock file, no two of
\* them write the same file, and without locking there are no lock files.
LockInv ==
  /\ mode.locking /\ ~mode.retention => \A p \in Processes : pc[p] \in Critical =>
       /\ Target(p) \in locks
       /\ \A q \in Processes : pc[q] \in Critical /\ Target(p) = Target(q) => p = q
  /\ ~mode.locking => locks = {} /\ \A p \in Processes : pc[p] # "waiting"

StoreInv == Shape /\ LockInv /\ LeftoversHaveCause

LEMMA StoreInit == Init => StoreInv
BY StoreAssumption DEF Init, StoreInv, Shape, LockInv, LeftoversHaveCause, Steps, Critical

\* Every step of a process changes its own place and item only.
LEMMA StoreStep ==
  ASSUME StoreInv, NEW p \in Processes, Step(p)
  PROVE  StoreInv'
<1> USE DEF StoreInv
<1>1. CASE Open(p)
  <2>1. Shape'
    BY <1>1 DEF Open, GoTo, disk, Shape, Steps
  <2>2. LockInv'
    BY <1>1 DEF Open, GoTo, disk, Shape, LockInv, Critical, Target, FileOf
  <2>3. LeftoversHaveCause'
    BY <1>1 DEF Open, GoTo, disk, Shape, LeftoversHaveCause, Critical, Target, FileOf
  <2> QED
    BY <2>1, <2>2, <2>3
<1>2. CASE \E i \in Items : Put(p, i)
  <2> PICK i \in Items : Put(p, i)
    BY <1>2
  <2>1. Shape'
    BY DEF Put, GoTo, disk, Shape, Steps
  <2>2. LockInv'
    BY DEF Put, GoTo, disk, Shape, LockInv, Critical, Target, FileOf
  <2>3. LeftoversHaveCause'
    BY DEF Put, GoTo, disk, Shape, LeftoversHaveCause, Critical, Target, FileOf
  <2> QED
    BY <2>1, <2>2, <2>3
<1>3. CASE Acquire(p)
  <2>1. Shape'
    BY <1>3 DEF Acquire, GoTo, Shape, Steps
  <2>2. LockInv'
    BY <1>3 DEF Acquire, GoTo, Shape, LockInv, Critical, Target, FileOf
  <2>3. LeftoversHaveCause'
    BY <1>3 DEF Acquire, GoTo, Shape, LeftoversHaveCause, Critical, Target, FileOf
  <2> QED
    BY <2>1, <2>2, <2>3
<1>4. CASE AcquireFails(p)
  <2>1. Shape'
    BY <1>4 DEF AcquireFails, Raise, Fault, GoTo, Shape, Steps
  <2>2. LockInv'
    BY <1>4 DEF AcquireFails, Raise, GoTo, Shape, LockInv, Critical, Target, FileOf
  <2>3. LeftoversHaveCause'
    BY <1>4 DEF AcquireFails, Fault, Shape, LeftoversHaveCause
  <2> QED
    BY <2>1, <2>2, <2>3
<1>5. CASE TimeOut(p)
  <2>1. Shape'
    BY <1>5 DEF TimeOut, Raise, GoTo, disk, Shape, Steps
  <2>2. LockInv'
    BY <1>5 DEF TimeOut, Raise, GoTo, disk, Shape, LockInv, Critical, Target, FileOf
  <2>3. LeftoversHaveCause'
    BY <1>5 DEF TimeOut, Raise, GoTo, disk, Shape, LeftoversHaveCause, Critical, Target, FileOf
  <2> QED
    BY <2>1, <2>2, <2>3
<1>6. CASE Reject(p)
  <2>1. Shape'
    BY <1>6 DEF Reject, GoTo, disk, Shape, Steps
  <2>2. LockInv'
    BY <1>6 DEF Reject, GoTo, disk, Shape, LockInv, Critical, Target, FileOf
  <2>3. LeftoversHaveCause'
    BY <1>6 DEF Reject, GoTo, disk, Shape, LeftoversHaveCause, Critical, Target, FileOf
  <2> QED
    BY <2>1, <2>2, <2>3
<1>7. CASE Stage(p)
  <2>1. Shape'
    BY <1>7 DEF Stage, GoTo, Shape, Steps
  <2>2. LockInv'
    BY <1>7 DEF Stage, GoTo, Shape, LockInv, Critical, Target, FileOf
  <2>3. LeftoversHaveCause'
    BY <1>7 DEF Stage, GoTo, Shape, LeftoversHaveCause, Critical, Target, FileOf
  <2> QED
    BY <2>1, <2>2, <2>3
<1>8. CASE Write(p)
  <2>1. Shape'
    BY <1>8 DEF Write, GoTo, Shape, Steps
  <2>2. LockInv'
    BY <1>8 DEF Write, GoTo, Shape, LockInv, Critical, Target, FileOf
  <2>3. LeftoversHaveCause'
    BY <1>8 DEF Write, GoTo, Shape, LeftoversHaveCause, Critical, Target, FileOf
  <2> QED
    BY <2>1, <2>2, <2>3
<1>9. CASE Replace(p)
  <2>1. Shape'
    BY <1>9 DEF Replace, GoTo, Shape, Steps
  <2>2. LockInv'
    BY <1>9 DEF Replace, GoTo, Shape, LockInv, Critical, Target, FileOf
  <2>3. LeftoversHaveCause'
    BY <1>9 DEF Replace, GoTo, Shape, LeftoversHaveCause, Critical, Target, FileOf
  <2> QED
    BY <2>1, <2>2, <2>3
<1>10. CASE WriteFails(p)
  <2>1. Shape'
    BY <1>10 DEF WriteFails, Fault, GoTo, Shape, Steps
  <2>2. LockInv'
    BY <1>10 DEF WriteFails, GoTo, Shape, LockInv, Critical, Target, FileOf
  <2>3. LeftoversHaveCause'
    BY <1>10 DEF WriteFails, Fault, GoTo, Shape, LeftoversHaveCause, Critical, Target, FileOf
  <2> QED
    BY <2>1, <2>2, <2>3
<1>11. CASE Release(p)
  <2>1. Shape'
    BY <1>11 DEF Release, Raise, Fault, GoTo, Shape, Steps
  <2>2. LockInv'
    BY <1>11 DEF Release, Raise, GoTo, Shape, LockInv, Critical, Target, FileOf
  <2>3. LeftoversHaveCause'
    BY <1>11 DEF Release, Raise, Fault, GoTo, Shape, LockInv, LeftoversHaveCause, Critical, Target,
                FileOf
  <2> QED
    BY <2>1, <2>2, <2>3
<1>12. CASE Stop(p)
  <2>1. Shape'
    BY <1>12 DEF Stop, Fault, GoTo, disk, Shape, Steps
  <2>2. LockInv'
    BY <1>12 DEF Stop, GoTo, disk, Shape, LockInv, Critical, Target, FileOf
  <2>3. LeftoversHaveCause'
    BY <1>12 DEF Stop, Fault, GoTo, disk, Shape, LeftoversHaveCause, Critical, Target, FileOf
  <2> QED
    BY <2>1, <2>2, <2>3
<1> QED
  BY <1>1, <1>2, <1>3, <1>4, <1>5, <1>6, <1>7, <1>8, <1>9, <1>10, <1>11, <1>12 DEF Step

\* cleanup_retention only takes away; what it breaks is promised without it.
LEMMA StoreRetain ==
  ASSUME StoreInv, NEW f \in Files, NEW i \in Items, Retain(f, i)
  PROVE  StoreInv'
<1>1. Shape'
  BY DEF Retain, StoreInv, Shape
<1>2. LockInv'
  BY DEF Retain, StoreInv, LockInv, Target, FileOf
<1>3. LeftoversHaveCause'
  BY DEF Retain, StoreInv, Shape, LeftoversHaveCause, Target, FileOf
<1> QED
  BY <1>1, <1>2, <1>3 DEF StoreInv

LEMMA StoreNext == StoreInv /\ [Next]_vars => StoreInv'
<1> SUFFICES ASSUME StoreInv, [Next]_vars PROVE StoreInv'
  OBVIOUS
<1>1. CASE UNCHANGED vars
  BY <1>1 DEF vars, StoreInv, Shape, LockInv, LeftoversHaveCause, Target, FileOf
<1>2. CASE \E p \in Processes : Step(p)
  BY <1>2, StoreStep
<1>3. CASE \E f \in Files, i \in Items : Retain(f, i)
  BY <1>3, StoreRetain
<1> QED
  BY <1>1, <1>2, <1>3 DEF Next

LEMMA StoreSafe == Spec => []StoreInv
BY StoreInit, StoreNext, PTL DEF Spec

\* No two processes are ever between the acquisition and the release of the lock of
\* one file, whoever crashed, failed or timed out before (_acquire_lock,
\* write_text_safe).
THEOREM MutualExclusionHolds == Spec => []MutualExclusion
<1>1. StoreInv => MutualExclusion
  BY DEF StoreInv, LockInv, MutualExclusion
<1> QED
  BY <1>1, StoreSafe, PTL

\* As long as nothing is killed and no call fails, every lock file and every
\* temporary file belongs to a write under way (the clauses of write_text_safe).
THEOREM LeftoversHaveCauseHolds == Spec => []LeftoversHaveCause
<1>1. StoreInv => LeftoversHaveCause
  BY DEF StoreInv
<1> QED
  BY <1>1, StoreSafe, PTL

\* The lock of write_text_safe excludes, and is given back by every write that is not
\* killed, for any number of processes and files.
THEOREM LocksAreSoundHolds == Spec => []LocksAreSound
  BY MutualExclusionHolds, LeftoversHaveCauseHolds, PTL DEF LocksAreSound
-----------------------------------------------------------------------------
(* What is in the files *)

\* An item is put once, by one process, which has it in hand until the call ends.
ItemInv ==
  /\ mode \in Modes
  /\ DOMAIN files = Files /\ DOMAIN memory = Processes
  /\ \A f \in Files : files[f] # Absent => \E i \in Items : f = FileOf(i)
  /\ begun \subseteq Items /\ acknowledged \subseteq begun
  /\ \A p \in Processes : item[p] # Absent => item[p] \in begun
  /\ \A p, q \in Processes : item[p] # Absent /\ item[p] = item[q] => p = q

\* Nobody but the process that puts a report writes its file, and always the same.
ReportsInv ==
  mode.kind = "reports" /\ ~mode.retention =>
    /\ \A i \in Items : files[i] \in {Absent, <<i>>}
    /\ \A p \in Processes : pc[p] = "written" => temps[item[p]] \in {Absent, <<item[p]>>}
    /\ \A p \in Processes : pc[p] = "replaced" => files[item[p]] = <<item[p]>>
    /\ \A i \in acknowledged : files[i] = <<i>>

NoRepeats(s) == \A i, j \in DOMAIN s : s[i] = s[j] => i = j
History(s) == s \in Seq(Items) /\ NoRepeats(s) /\ ToSet(s) \subseteq begun

\* What a process that opens the store finds.
Content == IF files[Subject] = Absent THEN <<>> ELSE files[Subject]
Extends(s, t) == Len(s) <= Len(t) /\ \A i \in 1..Len(s) : s[i] = t[i]

\* Is the history kept by one process at a time, which can read all of it?
Alone ==
  /\ mode.kind = "history" /\ ~mode.retention
  /\ ~mode.concurrent /\ Cardinality(Items) <= mode.readLimit

\* Then that process has in memory what is in the file and what it has tried to
\* add since, each item once.
HistoryInv ==
  Alone =>
    /\ \A p, q \in Processes : pc[p] # "down" /\ pc[q] # "down" => p = q
    /\ History(Content)
    /\ \A p \in Processes : pc[p] # "down" => History(memory[p]) /\ Extends(Content, memory[p])
    /\ \A p \in Processes : pc[p] \notin {"down", "idle"} => item[p] \in ToSet(memory[p])
    /\ \A p \in Processes : pc[p] = "written" => temps[item[p]] \in {Absent, memory[p]}
    /\ \A p \in Processes : pc[p] = "replaced" => files[Subject] = memory[p]
    /\ acknowledged \subseteq ToSet(Content)

\* Where overwriting is rejected, a file that is about to be made is not there.
FreshInv ==
  mode.overwrite = "reject" /\ mode.locking /\ ~mode.retention => \A p \in Processes :
    pc[p] \in {"staged", "written"} => files[Target(p)] = Absent

ContentInv == ItemInv /\ ReportsInv /\ HistoryInv /\ FreshInv

\* The invariant of the lock, as far as the files need it.
LEMMA StoreShape == StoreInv => Shape /\ LockInv
  BY DEF StoreInv

LEMMA ContentInit == Init => ContentInv
<1> SUFFICES ASSUME Init PROVE ContentInv
  OBVIOUS
<1>1. ItemInv
  BY DEF Init, ItemInv
<1>2. ReportsInv
  BY DEF Init, ReportsInv, Files
<1>3. Content = <<>> /\ DOMAIN <<>> = {} /\ ToSet(<<>>) = {}
  BY DEF Init, Content, Files, ToSet
<1>4. HistoryInv
  BY <1>3 DEF Init, HistoryInv, History, NoRepeats, ToSet
<1>5. FreshInv
  BY DEF Init, FreshInv
<1> QED
  BY <1>1, <1>2, <1>4, <1>5 DEF ContentInv

LEMMA ItemStep ==
  ASSUME StoreInv, ItemInv, NEW p \in Processes, Step(p)
  PROVE  ItemInv'
<1> USE StoreShape, StoreAssumption DEF ItemInv, Shape, disk, GoTo, FileOf
<1>1. CASE Open(p)
  BY <1>1 DEF Open
<1>2. CASE \E i \in Items : Put(p, i)
  BY <1>2 DEF Put, PutMemory
<1>3. CASE Acquire(p) \/ Reject(p) \/ Stage(p) \/ Write(p) \/ WriteFails(p)
  BY <1>3 DEF Acquire, Reject, Stage, Write, WriteFails
<1>4. CASE AcquireFails(p) \/ TimeOut(p)
  BY <1>4 DEF AcquireFails, TimeOut, Raise
<1>5. CASE Replace(p)
  BY <1>5 DEF Replace, Target
<1>6. CASE Release(p)
  BY <1>6 DEF Release, Raise
<1>7. CASE Stop(p)
  BY <1>7 DEF Stop
<1> QED
  BY <1>1, <1>2, <1>3, <1>4, <1>5, <1>6, <1>7 DEF Step

LEMMA ReportsStep ==
  ASSUME StoreInv, ItemInv, ReportsInv, NEW p \in Processes, Step(p)
  PROVE  ReportsInv'
<1> SUFFICES ASSUME mode.kind = "reports", ~mode.retention
             PROVE  ReportsInv'
  <2>1. mode' = mode
    BY DEF Step, Open, Put, Acquire, AcquireFails, TimeOut, Reject, Stage, Write, Replace, WriteFails,
       Release, Stop
  <2> QED
    BY <2>1 DEF ReportsInv
<1> USE StoreShape, StoreAssumption DEF ItemInv, ReportsInv, Shape, disk, GoTo
<1>1. CASE Open(p) \/ Acquire(p) \/ Reject(p)
  BY <1>1 DEF Open, Acquire, Reject
<1>2. CASE \E i \in Items : Put(p, i)
  BY <1>2 DEF Put
<1>3. CASE AcquireFails(p) \/ TimeOut(p)
  BY <1>3 DEF AcquireFails, TimeOut, Raise
<1>4. CASE Stage(p)
  BY <1>4 DEF Stage
<1>5. CASE Write(p)
  BY <1>5 DEF Write, Payload
<1>6. CASE Replace(p)
  BY <1>6 DEF Replace, Target, FileOf, Files
<1>7. CASE WriteFails(p)
  BY <1>7 DEF WriteFails
<1>8. CASE Release(p)
  BY <1>8 DEF Release, Raise
<1>9. CASE Stop(p)
  BY <1>9 DEF Stop
<1> QED
  BY <1>1, <1>2, <1>3, <1>4, <1>5, <1>6, <1>7, <1>8, <1>9 DEF Step

LEMMA FreshStep ==
  ASSUME StoreInv, ItemInv, FreshInv, NEW p \in Processes, Step(p)
  PROVE  FreshInv'
<1> SUFFICES ASSUME mode.overwrite = "reject", mode.locking, ~mode.retention
             PROVE  FreshInv'
  <2>1. mode' = mode
    BY DEF Step, Open, Put, Acquire, AcquireFails, TimeOut, Reject, Stage, Write, Replace, WriteFails,
       Release, Stop
  <2> QED
    BY <2>1 DEF FreshInv
<1> USE StoreShape, StoreAssumption DEF ItemInv, FreshInv, Shape, disk, GoTo, Target, FileOf
<1>1. CASE Open(p) \/ Acquire(p) \/ Reject(p) \/ Write(p) \/ WriteFails(p)
  BY <1>1 DEF Open, Acquire, Reject, Write, WriteFails
<1>2. CASE \E i \in Items : Put(p, i)
  BY <1>2 DEF Put
<1>3. CASE AcquireFails(p) \/ TimeOut(p) \/ Release(p)
  BY <1>3 DEF AcquireFails, TimeOut, Release, Raise
<1>4. CASE Stage(p)
  BY <1>4 DEF Stage, Rejected
<1>5. CASE Replace(p)
  BY <1>5 DEF Replace, LockInv, Critical, Files
<1>6. CASE Stop(p)
  BY <1>6 DEF Stop
<1> QED
  BY <1>1, <1>2, <1>3, <1>4, <1>5, <1>6 DEF Step

\* A sequence that names no item twice is not longer than there are items.
LEMMA HistoryIsBounded ==
  ASSUME NEW s \in Seq(Items), NoRepeats(s)
  PROVE  Len(s) <= Cardinality(Items)
<1> SUFFICES ASSUME Cardinality(Items) < Len(s) PROVE FALSE
  BY FS_CardinalityType, StoreAssumption
<1>1. s \in [1..Len(s) -> Items] /\ Len(s) \in Nat
  OBVIOUS
<1>2. IsFiniteSet(1..Len(s)) /\ Cardinality(1..Len(s)) = Len(s)
  <2>1. 1 \in Int /\ Len(s) \in Int
    BY <1>1
  <2>2. IsFiniteSet(1..Len(s)) /\ Cardinality(1..Len(s)) = IF 1 > Len(s) THEN 0 ELSE Len(s) - 1 + 1
    BY <2>1, FS_Interval, Zenon
  <2> QED
    BY <1>1, <2>2
<1>3. \E i, j \in 1..Len(s) : i # j /\ s[i] = s[j]
  BY <1>1, <1>2, FS_PigeonHole, StoreAssumption
<1> QED
  BY <1>1, <1>3 DEF NoRepeats

\* A process that is alone reads all of the history.
LEMMA LoadsAll ==
  ASSUME ItemInv, HistoryInv, Alone
  PROVE  Loaded = Content
<1>1. History(Content)
  BY DEF HistoryInv
<1>2. Len(Content) <= mode.readLimit
  BY <1>1, HistoryIsBounded, FS_CardinalityType, StoreAssumption DEF History, Alone, ItemInv, ModeType
<1> QED
  BY <1>2, StoreAssumption DEF Loaded, Readable, Content, Alone, ItemInv, ModeType

\* What a process remembers after one more item.
LEMMA Remembered ==
  ASSUME NEW s \in Seq(Items), NoRepeats(s), NEW i \in Items, i \notin ToSet(s), NEW c \in Seq(Items),
         Extends(c, s)
  PROVE  /\ Append(s, i) \in Seq(Items) /\ NoRepeats(Append(s, i))
         /\ ToSet(Append(s, i)) = ToSet(s) \cup {i}
         /\ Extends(c, Append(s, i))
<1>1. /\ Append(s, i) \in Seq(Items) /\ Len(Append(s, i)) = Len(s) + 1
      /\ \A k \in 1..Len(s) : Append(s, i)[k] = s[k]
      /\ Append(s, i)[Len(s) + 1] = i
      /\ Len(s) \in Nat /\ Len(c) \in Nat
  OBVIOUS
<1>2. DOMAIN s = 1..Len(s) /\ DOMAIN Append(s, i) = 1..(Len(s) + 1)
  BY <1>1
<1>3. \A k \in DOMAIN Append(s, i) : k \in 1..Len(s) \/ k = Len(s) + 1
  BY <1>1, <1>2
<1>4. ToSet(Append(s, i)) = ToSet(s) \cup {i}
  BY <1>1, <1>2, <1>3 DEF ToSet
<1>5. NoRepeats(Append(s, i))
  BY <1>1, <1>2, <1>3 DEF NoRepeats, ToSet
<1>6. Extends(c, Append(s, i))
  BY <1>1 DEF Extends
<1> QED
  BY <1>1, <1>4, <1>5, <1>6

\* Steps of a process that is alone, one by one: the others are down.
LEMMA HistoryStep ==
  ASSUME StoreInv, ItemInv, HistoryInv, NEW p \in Processes, Step(p)
  PROVE  HistoryInv'
<1> SUFFICES ASSUME Alone PROVE HistoryInv'
  <2>1. mode' = mode
    BY DEF Step, Open, Put, Acquire, AcquireFails, TimeOut, Reject, Stage, Write, Replace, WriteFails,
       Release, Stop
  <2> QED
    BY <2>1 DEF HistoryInv, Alone
<1> USE StoreShape, StoreAssumption DEF ItemInv, HistoryInv, Shape, disk, GoTo
<1>0. Subject \in Files /\ \A i : FileOf(i) = Subject
  BY DEF Files, FileOf, Alone
<1>1. CASE Open(p)
  <2>1. memory' = [memory EXCEPT ![p] = Content] /\ Content' = Content
    BY <1>1, LoadsAll DEF Open, Content
  <2>2. History(Content)' /\ (\A q \in Processes : History(memory[q])' <=> History(memory'[q]))
    BY <1>1, <2>1 DEF Open, History
  <2>3. Extends(Content, Content)
    BY DEF Extends
  <2>4. \A q \in Processes : pc'[q] # "down" => q = p
    BY <1>1 DEF Open, Alone
  <2> QED
    BY <1>1, <2>1, <2>2, <2>3, <2>4 DEF Open, History
<1>2. CASE \E i \in Items : Put(p, i)
  <2> PICK i \in Items : Put(p, i)
    BY <1>2
  <2>1. pc[p] = "idle" /\ i \notin begun /\ begun' = begun \cup {i} /\ memory' = [memory EXCEPT ![p] = Append(@, i)]
        /\ UNCHANGED <<files, temps, acknowledged>> /\ Content' = Content
    BY DEF Put, PutMemory, Content
  <2>2. /\ Append(memory[p], i) \in Seq(Items) /\ NoRepeats(Append(memory[p], i))
        /\ ToSet(Append(memory[p], i)) = ToSet(memory[p]) \cup {i}
        /\ Extends(Content, Append(memory[p], i))
    BY <2>1, Remembered DEF History
  <2>3. History(Content)'
    BY <2>1 DEF History
  <2>4. \A q \in Processes : pc'[q] # "down" => q = p
    BY <2>1 DEF Put
  <2>5. History(memory[p])' /\ Extends(Content, memory[p])'
    BY <2>1, <2>2 DEF History
  <2>6. pc'[p] \in {"idle", "waiting", "locked"} /\ (pc'[p] # "idle" => item'[p] = i)
    BY <2>1 DEF Put
  <2>7. pc'[p] # "idle" => item'[p] \in ToSet(memory[p])'
    BY <2>1, <2>2, <2>6
  <2> QED
    BY <2>1, <2>3, <2>4, <2>5, <2>6, <2>7
<1>3. ASSUME UNCHANGED <<mode, memory, files, begun, acknowledged>>,
             \A q \in Processes \ {p} : pc'[q] = pc[q] /\ item'[q] = item[q],
             \A q \in Processes \ {p} : pc[q] = "down",
             pc'[p] # "idle" => item'[p] = item[p],
             pc[p] # "down", pc[p] = "idle" => pc'[p] = "idle",
             pc'[p] = "written" => temps'[item[p]] \in {Absent, memory[p]},
             pc'[p] = "replaced" => pc[p] = "replaced"
      PROVE  HistoryInv'
  <2>1. Content' = Content /\ History(Content)' /\ \A q \in Processes : History(memory[q])' = History(memory[q])
    BY <1>3 DEF Content, History
  <2> QED
    BY <1>3, <2>1
<1>4. \A q \in Processes \ {p} : pc[p] # "down" => pc[q] = "down"
  OBVIOUS
<1>5. CASE Acquire(p) \/ AcquireFails(p) \/ TimeOut(p) \/ Reject(p) \/ Stage(p) \/ WriteFails(p)
  BY <1>3, <1>4, <1>5 DEF Acquire, AcquireFails, TimeOut, Reject, Stage, WriteFails, Raise
<1>6. CASE Write(p)
  <2>1. temps'[item[p]] \in {Absent, memory[p]}
    BY <1>6 DEF Write, Payload, Alone
  <2> QED
    BY <1>3, <1>4, <1>6, <2>1 DEF Write
<1>7. CASE Replace(p)
  <2>1. files' = [files EXCEPT ![Subject] = memory[p]] /\ pc[p] = "written"
    BY <1>0, <1>7 DEF Replace, Target
  <2>2. memory[p] # Absent
    BY <2>1 DEF History, Alone
  <2>3. Content' = memory[p] /\ memory' = memory /\ begun' = begun /\ acknowledged' = acknowledged
    BY <1>0, <1>7, <2>1, <2>2 DEF Replace, Content
  <2>4. History(Content)' /\ \A q \in Processes : History(memory[q])' = History(memory[q])
    BY <2>1, <2>3 DEF History
  <2>5. Extends(memory[p], memory[p])
    BY DEF Extends
  <2>6. ToSet(Content) \subseteq ToSet(memory[p])
    <3>1. Content \in Seq(Items) /\ memory[p] \in Seq(Items) /\ Extends(Content, memory[p])
      BY <2>1 DEF History
    <3>2. DOMAIN Content = 1..Len(Content) /\ DOMAIN memory[p] = 1..Len(memory[p])
          /\ Len(Content) \in Nat /\ Len(memory[p]) \in Nat
      BY <3>1
    <3> QED
      BY <3>1, <3>2 DEF Extends, ToSet
  <2>7. \A q \in Processes : pc'[q] # "down" => q = p
    BY <1>7 DEF Replace
  <2> QED
    BY <1>0, <1>7, <2>1, <2>3, <2>4, <2>5, <2>6, <2>7 DEF Replace
<1>8. CASE Release(p)
  <2>1. pc'[p] = "idle" /\ UNCHANGED <<memory, files, temps, begun>>
        /\ \A q \in Processes \ {p} : pc'[q] = "down"
    BY <1>4, <1>8 DEF Release, Raise
  <2>2. Content' = Content /\ History(Content)' /\ \A q \in Processes : History(memory[q])' = History(memory[q])
    BY <2>1 DEF Content, History
  <2>3. pc[p] = "replaced" => item[p] \in ToSet(Content)
    BY <2>1 DEF Content, Alone, History
  <2>4. acknowledged' \subseteq ToSet(Content)
    BY <1>8, <2>3 DEF Release
  <2>5. Extends(Content, memory[p])' /\ (acknowledged \subseteq ToSet(Content))'
    BY <2>1, <2>2, <2>4, <1>8 DEF Release
  <2>6. \A q \in Processes : pc'[q] # "down" => q = p
    BY <2>1
  <2> QED
    BY <1>8, <2>1, <2>2, <2>5, <2>6 DEF Release
<1>9. CASE Stop(p)
  <2>1. \A q \in Processes : pc'[q] = "down"
    BY <1>4, <1>9 DEF Stop
  <2>2. Content' = Content /\ History(Content)' /\ acknowledged' = acknowledged
    BY <1>9 DEF Stop, Content, History
  <2> QED
    BY <2>1, <2>2
<1> QED
  BY <1>1, <1>2, <1>5, <1>6, <1>7, <1>8, <1>9 DEF Step

LEMMA ContentNext == StoreInv /\ ContentInv /\ [Next]_vars => ContentInv'
<1> SUFFICES ASSUME StoreInv, ContentInv, [Next]_vars PROVE ContentInv'
  OBVIOUS
<1> USE DEF ContentInv
<1>1. CASE \E p \in Processes : Step(p)
  BY <1>1, ItemStep, ReportsStep, HistoryStep, FreshStep
<1>2. CASE \E f \in Files, i \in Items : Retain(f, i)
  <2> PICK f \in Files, i \in Items : Retain(f, i)
    BY <1>2
  <2>1. /\ mode' = mode /\ mode.retention /\ UNCHANGED <<item, memory, begun, acknowledged>>
        /\ DOMAIN files' = Files /\ \A g \in Files : files'[g] \in {Absent, files[g]}
    BY DEF Retain, ItemInv
  <2> QED
    BY <2>1 DEF ItemInv, ReportsInv, HistoryInv, FreshInv, Alone, FileOf
<1>3. CASE UNCHANGED vars
  <2>1. ItemInv' /\ ReportsInv' /\ FreshInv'
    BY <1>3 DEF vars, ItemInv, ReportsInv, FreshInv, Target, FileOf
  <2>2. HistoryInv'
    BY <1>3 DEF vars, HistoryInv, Alone, Content, History
  <2> QED
    BY <2>1, <2>2
<1> QED
  BY <1>1, <1>2, <1>3 DEF Next

LEMMA ContentSafe == Spec => []ContentInv
BY StoreSafe, ContentInit, ContentNext, PTL DEF Spec

\* A process that knows the file finds it with all it has acknowledged: reports have
\* files of their own, a history is kept by one process that can read all of it.
LEMMA InformedCases ==
  ASSUME ItemInv, Informed
  PROVE  (mode.kind = "reports" /\ ~mode.retention) \/ Alone
BY StoreAssumption DEF ItemInv, Informed, Alone, ModeType

\* For any number of processes, items and faults, what put or record has returned for
\* is in its file, whoever is killed before or after (FileReportStore,
\* FileSchemaHistoryProvider over write_text_safe).
THEOREM AcknowledgedIsDurableHolds == Spec => []AcknowledgedIsDurable
<1>1. ContentInv => AcknowledgedIsDurable
  <2> SUFFICES ASSUME ContentInv, Informed, NEW i \in acknowledged
               PROVE  files[FileOf(i)] # Absent /\ i \in ToSet(files[FileOf(i)])
    BY DEF AcknowledgedIsDurable
  <2>1. CASE mode.kind = "reports" /\ ~mode.retention
    <3>1. files[FileOf(i)] = <<i>> /\ i \in Items
      BY <2>1 DEF ContentInv, ReportsInv, ItemInv, FileOf
    <3>2. <<i>> \in Seq(Items) /\ i \in ToSet(<<i>>)
      BY <3>1 DEF ToSet
    <3> QED
      BY <3>1, <3>2, StoreAssumption
  <2>2. CASE Alone
    BY <2>2 DEF ContentInv, HistoryInv, FileOf, Alone, Content, ToSet
  <2> QED
    BY <2>1, <2>2, InformedCases DEF ContentInv
<1> QED
  BY <1>1, ContentSafe, PTL

\* What a write puts into a file begins with what is there.
LEMMA PrefixOf ==
  ASSUME NEW s \in Seq(Items), NEW t \in Seq(Items), Extends(s, t)
  PROVE  IsPrefix(s, t)
<1>1. Len(s) \in Nat /\ Len(t) \in Nat /\ Len(s) <= Len(t) /\ \A i \in 1..Len(s) : s[i] = t[i]
  BY DEF Extends
<1>2. SubSeq(s, 1, Len(s)) = SubSeq(t, 1, Len(s))
  BY <1>1
<1> QED
  BY <1>1, <1>2 DEF IsPrefix

\* In every step of every process, a file that is there keeps what is in it, or is
\* left as it is where overwriting is rejected under the lock.
THEOREM NothingOverwrittenHolds == Spec => NothingOverwritten
<1> DEFINE Kept(f) ==
      files[f] # Absent =>
        /\ Informed => files'[f] # Absent /\ IsPrefix(files[f], files'[f])
        /\ mode.overwrite = "reject" /\ mode.locking /\ ~mode.retention => files'[f] = files[f]
<1>1. StoreInv /\ ContentInv /\ [Next]_vars => [\A f \in Files : Kept(f)]_vars
  <2> SUFFICES ASSUME StoreInv, ContentInv, Next, NEW f \in Files, files[f] # Absent PROVE Kept(f)
    OBVIOUS
  <2> USE DEF ContentInv
  <2>1. Informed => files[f] \in Seq(Items)
    <3>1. CASE mode.kind = "reports" /\ ~mode.retention /\ f \in Items
      <4>1. files[f] = <<f>>
        BY <3>1 DEF ReportsInv
      <4> QED
        BY <3>1, <4>1
    <3>2. CASE Alone /\ f = Subject
      BY <3>2 DEF HistoryInv, History, Content
    <3> QED
      BY <3>1, <3>2, InformedCases DEF ItemInv, FileOf, Alone
  <2>2. CASE files'[f] = files[f]
    <3>1. Informed => Extends(files[f], files[f])
      BY <2>1 DEF Extends
    <3> QED
      BY <2>1, <2>2, <3>1, PrefixOf
  <2>3. CASE files'[f] # files[f]
    <3>1. CASE \E g \in Files, i \in Items : Retain(g, i)
      BY <3>1 DEF Retain, Informed
    <3>2. CASE \E p \in Processes : Step(p)
      <4>1. PICK p \in Processes : Replace(p) /\ f = Target(p)
        BY <2>3, <3>2 DEF Step, Open, Put, Acquire, AcquireFails, TimeOut, Reject, Stage, Write, Replace,
           WriteFails, Release, Stop, disk, ItemInv
      <4>2. files'[f] = temps[item[p]] /\ temps[item[p]] # Absent /\ pc[p] = "written" /\ item[p] \in Items
        BY <4>1 DEF Replace, ItemInv, StoreInv, Shape
      <4>3. ~(mode.overwrite = "reject" /\ mode.locking /\ ~mode.retention)
        BY <4>1, <4>2 DEF FreshInv
      <4>4. CASE mode.kind = "reports" /\ ~mode.retention
        BY <2>3, <4>1, <4>2, <4>4 DEF ReportsInv, Target, FileOf
      <4>5. CASE Alone
        <5>1. files'[f] = memory[p] /\ Extends(files[f], memory[p]) /\ memory[p] \in Seq(Items) /\ f = Subject
          BY <4>1, <4>2, <4>5 DEF HistoryInv, Content, History, Target, FileOf, Alone
        <5>2. files[f] \in Seq(Items)
          BY <4>5, <5>1 DEF HistoryInv, Content, History
        <5> QED
          BY <4>2, <4>3, <5>1, <5>2, PrefixOf
      <4> QED
        BY <4>3, <4>4, <4>5, InformedCases
    <3> QED
      BY <3>1, <3>2 DEF Next
  <2> QED
    BY <2>2, <2>3
<1> QED
  BY <1>1, StoreSafe, ContentSafe, PTL DEF Spec, NothingOverwritten
=============================================================================
