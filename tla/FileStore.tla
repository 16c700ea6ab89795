------------------------------ MODULE FileStore ------------------------------
(***************************************************************************)
(* Processes that keep run reports or the schema history of a subject in    *)
(* files: FileReportStore has one file per report, which it writes once,    *)
(* FileSchemaHistoryProvider one file per subject, which it writes anew,    *)
(* with all it remembers, for every observation.  Both write by             *)
(* write_text_safe: under a lock file, into a temporary file, and by one    *)
(* rename.  A process may stop at any point, and what it has in memory goes *)
(* with it; locks and temporary files stay.                                 *)
(*                                                                         *)
(* One action is what one system call does to the directory.  The content   *)
(* of a file is the sequence of the items in it.                            *)
(***************************************************************************)
EXTENDS Naturals, Sequences, FiniteSets, SequencesExt

CONSTANTS
  Processes,
  Items,       \* reports, or observations of one subject
  ByName,      \* the reports in the order of their file names
  Subject,     \* the file of the subject
  Modes,       \* what is stored, and under which SafeIoPolicy
  MaxFaults,   \* bound on crashes and failing system calls
  Absent       \* no such file, nothing being put

\* readLimit: how many items a file may have to be within max_read_bytes;
\* concurrent: is more than one process up at a time; retention: does somebody
\* call cleanup_retention.  The policy "allow" is treated as "atomic_replace".
ModeType ==
  [kind : {"reports", "history"}, overwrite : {"reject", "atomic_replace"},
   locking : BOOLEAN, retention : BOOLEAN, concurrent : BOOLEAN, readLimit : Nat \ {0}]

ASSUME StoreAssumption ==
  /\ IsFiniteSet(Items) /\ ByName \in Seq(Items) /\ ToSet(ByName) = Items
  /\ Subject \notin Items /\ Absent \notin Items
  /\ Absent \notin Seq(Items)
  /\ Modes \subseteq ModeType
  /\ MaxFaults \in Nat

Files == Items \cup {Subject}

VARIABLES
  mode,          \* chosen once, never written
  pc, item,      \* where each process stands in write_text_safe, and with what
  memory,        \* _memory of its store: the items in the order they came
  files,         \* content of the file of a report, or of the subject
  temps,         \* content of the temporary file an item is written through
  locks,         \* files whose lock file is there
  begun,         \* items that were put or recorded by some process
  acknowledged,  \* those whose put or record returned
  faults

disk == <<files, temps, locks>>
vars == <<mode, pc, item, memory, files, temps, locks, begun, acknowledged, faults>>

Steps == {"down", "idle", "waiting", "locked", "staged", "written", "replaced", "failed"}
Critical == {"locked", "staged", "written", "replaced", "failed"}

FileOf(i) == IF mode.kind = "reports" THEN i ELSE Subject
Target(p) == FileOf(item[p])
\* The text handed to write_text_safe: the report, or the history in memory.
Payload(p) == IF mode.kind = "reports" THEN <<item[p]>> ELSE memory[p]

Init ==
  /\ mode \in Modes
  /\ pc = [p \in Processes |-> "down"]
  /\ item = [p \in Processes |-> Absent]
  /\ memory = [p \in Processes |-> <<>>]
  /\ files = [f \in Files |-> Absent]
  /\ temps = [i \in Items |-> Absent]
  /\ locks = {} /\ begun = {} /\ acknowledged = {} /\ faults = 0

Fault == faults < MaxFaults /\ faults' = faults + 1
GoTo(p, step) == pc' = [pc EXCEPT ![p] = step]
-----------------------------------------------------------------------------
\* What reading a file gives: nothing if it is missing, larger than
\* max_read_bytes or no JSON.
Readable(f) ==
  IF files[f] \in {Absent, <<>>} \/ Len(files[f]) > mode.readLimit THEN <<>> ELSE files[f]

\* __post_init__ of the stores: reports are put in the order of their file names.
Loaded ==
  IF mode.kind = "reports"
  THEN SelectSeq(ByName, LAMBDA i : Readable(i) # <<>>)
  ELSE Readable(Subject)

Open(p) ==
  /\ pc[p] = "down"
  /\ mode.concurrent \/ \A other \in Processes : pc[other] = "down"
  /\ GoTo(p, "idle")
  /\ memory' = [memory EXCEPT ![p] = Loaded]
  /\ UNCHANGED <<mode, item, disk, begun, acknowledged, faults>>

\* Mutant of PutMemory: what is recorded replaces what is remembered.
PutMemoryAlone(p, i) == memory' = [memory EXCEPT ![p] = <<i>>]
PutMemory(p, i) == memory' = [memory EXCEPT ![p] = Append(@, i)]

\* put, record: first into memory, then write_text_safe, which raises at once if
\* the file is there and the policy rejects overwriting.
Put(p, i) ==
  /\ pc[p] = "idle" /\ i \notin begun
  /\ begun' = begun \cup {i}
  /\ PutMemory(p, i)
  /\ IF mode.overwrite = "reject" /\ files[FileOf(i)] # Absent
     THEN UNCHANGED <<pc, item>>
     ELSE /\ item' = [item EXCEPT ![p] = i]
          /\ GoTo(p, IF mode.locking THEN "waiting" ELSE "locked")
  /\ UNCHANGED <<mode, disk, acknowledged, faults>>

\* Mutant of Acquire: a lock file that is there does not stop the process.
AcquireAnyway(p) ==
  /\ pc[p] = "waiting"
  /\ locks' = locks \cup {Target(p)}
  /\ GoTo(p, "locked")
  /\ UNCHANGED <<mode, item, memory, files, temps, begun, acknowledged, faults>>

\* open with O_CREAT and O_EXCL.
Acquire(p) ==
  /\ pc[p] = "waiting" /\ Target(p) \notin locks
  /\ locks' = locks \cup {Target(p)}
  /\ GoTo(p, "locked")
  /\ UNCHANGED <<mode, item, memory, files, temps, begun, acknowledged, faults>>

\* The call raises or returns; the store stays open, with the item in its memory.
Raise(p) ==
  /\ GoTo(p, "idle")
  /\ item' = [item EXCEPT ![p] = Absent]

\* The lock file cannot be made, or the pid cannot be written into it: then it is
\* left there, no `finally` has been entered yet.
AcquireFails(p) ==
  /\ pc[p] = "waiting" /\ Target(p) \notin locks /\ Fault
  /\ locks' \in {locks, locks \cup {Target(p)}}
  /\ Raise(p)
  /\ UNCHANGED <<mode, memory, files, temps, begun, acknowledged>>

\* lock_timeout_seconds are over and the lock file is still, or again, there.
TimeOut(p) ==
  /\ pc[p] = "waiting" /\ Target(p) \in locks
  /\ Raise(p)
  /\ UNCHANGED <<mode, memory, disk, begun, acknowledged, faults>>
-----------------------------------------------------------------------------
\* The second look at the file, under the lock.
Rejected(p) == mode.overwrite = "reject" /\ files[Target(p)] # Absent
Reject(p) ==
  /\ pc[p] = "locked" /\ Rejected(p)
  /\ GoTo(p, "failed")
  /\ UNCHANGED <<mode, item, memory, disk, begun, acknowledged, faults>>

\* Mutant of Stage: the file is not looked at again under the lock.
StageUnseen(p) ==
  /\ pc[p] = "locked"
  /\ temps' = [temps EXCEPT ![item[p]] = <<>>]
  /\ GoTo(p, "staged")
  /\ UNCHANGED <<mode, item, memory, files, locks, begun, acknowledged, faults>>

\* mkstemp
Stage(p) ==
  /\ pc[p] = "locked" /\ ~Rejected(p)
  /\ temps' = [temps EXCEPT ![item[p]] = <<>>]
  /\ GoTo(p, "staged")
  /\ UNCHANGED <<mode, item, memory, files, locks, begun, acknowledged, faults>>

\* write, flush and fsync; the temporary file may have been unlinked meanwhile.
Write(p) ==
  /\ pc[p] = "staged"
  /\ temps' = [temps EXCEPT ![item[p]] = IF @ = Absent THEN Absent ELSE Payload(p)]
  /\ GoTo(p, "written")
  /\ UNCHANGED <<mode, item, memory, files, locks, begun, acknowledged, faults>>

\* os.replace
Replace(p) ==
  /\ pc[p] = "written" /\ temps[item[p]] # Absent
  /\ files' = [files EXCEPT ![Target(p)] = temps[item[p]]]
  /\ temps' = [temps EXCEPT ![item[p]] = Absent]
  /\ GoTo(p, "replaced")
  /\ UNCHANGED <<mode, item, memory, locks, begun, acknowledged, faults>>

\* One of these calls raises, for a full disk or because there is no temporary
\* file to rename: what there is of it is unlinked, if that does not fail as well.
WriteFails(p) ==
  /\ pc[p] \in {"locked", "staged", "written"}
  /\ Fault \/ (pc[p] = "written" /\ temps[item[p]] = Absent /\ UNCHANGED faults)
  /\ temps' \in {temps, [temps EXCEPT ![item[p]] = Absent]}
  /\ GoTo(p, "failed")
  /\ UNCHANGED <<mode, item, memory, files, locks, begun, acknowledged>>

\* Mutant of Release: only a write that succeeded lets go of its lock.
ReleaseIfWritten(p) ==
  /\ pc[p] \in {"replaced", "failed"}
  /\ locks' = IF pc[p] = "replaced" THEN locks \ {Target(p)} ELSE locks
  /\ acknowledged' = IF pc[p] = "replaced" THEN acknowledged \cup {item[p]} ELSE acknowledged
  /\ Raise(p)
  /\ UNCHANGED <<mode, memory, files, temps, begun, faults>>

\* The `finally`: the lock file is unlinked, whoever made the one that is there.
\* If it cannot be, _release_lock says nothing of it.
Release(p) ==
  /\ pc[p] \in {"replaced", "failed"}
  /\ \/ locks' = (IF mode.locking THEN locks \ {Target(p)} ELSE locks) /\ UNCHANGED faults
     \/ Fault /\ UNCHANGED locks
  /\ acknowledged' = IF pc[p] = "replaced" THEN acknowledged \cup {item[p]} ELSE acknowledged
  /\ Raise(p)
  /\ UNCHANGED <<mode, memory, files, temps, begun>>

\* A process exits between two calls, or is killed inside one.
Stop(p) ==
  /\ pc[p] # "down"
  /\ IF pc[p] = "idle" THEN UNCHANGED faults ELSE Fault
  /\ GoTo(p, "down")
  /\ item' = [item EXCEPT ![p] = Absent]
  /\ memory' = [memory EXCEPT ![p] = <<>>]
  /\ UNCHANGED <<mode, disk, begun, acknowledged>>

\* cleanup_retention unlinks any file older than retention_seconds.  A process may
\* stand still for that long, and its lock and its temporary file are files too.
Retain(f, i) ==
  /\ mode.retention
  /\ \/ files' = [files EXCEPT ![f] = Absent] /\ UNCHANGED <<temps, locks>>
     \/ temps' = [temps EXCEPT ![i] = Absent] /\ UNCHANGED <<files, locks>>
     \/ locks' = locks \ {f} /\ UNCHANGED <<files, temps>>
  /\ UNCHANGED <<mode, pc, item, memory, begun, acknowledged, faults>>

Step(p) ==
  \/ Open(p) \/ (\E i \in Items : Put(p, i))
  \/ Acquire(p) \/ AcquireFails(p) \/ TimeOut(p)
  \/ Reject(p) \/ Stage(p) \/ Write(p) \/ Replace(p) \/ WriteFails(p) \/ Release(p)
  \/ Stop(p)

Next ==
  \/ \E p \in Processes : Step(p)
  \/ \E f \in Files, i \in Items : Retain(f, i)

Spec == Init /\ [][Next]_vars
-----------------------------------------------------------------------------
\* "Atomic, locked": two processes are never both between the acquisition and the
\* release of the lock of one file, whichever processes crashed before, as long
\* as nobody unlinks lock files under them.
MutualExclusion ==
  mode.locking /\ ~mode.retention => \A p, q \in Processes :
    pc[p] \in Critical /\ pc[q] \in Critical /\ Target(p) = Target(q) => p = q

\* Does a process that writes the file know all that is in it?  It does for reports,
\* and for a history if it is the only process and read all of the file.
Informed ==
  ~mode.retention /\
    (mode.kind = "reports" \/ (~mode.concurrent /\ Cardinality(Items) <= mode.readLimit))

\* "Durable": what a put or record has returned for is in its file, whichever
\* process crashed or failed before and after it.
AcknowledgedIsDurable ==
  Informed => \A i \in acknowledged :
    files[FileOf(i)] # Absent /\ i \in ToSet(files[FileOf(i)])

\* Nothing that was in a file is taken from it, or, if overwriting is rejected,
\* nothing is done to it at all, also by processes that do not know of each other.
NothingOverwritten ==
  [][\A f \in Files : files[f] # Absent =>
       /\ Informed => files'[f] # Absent /\ IsPrefix(files[f], files'[f])
       /\ mode.overwrite = "reject" /\ mode.locking /\ ~mode.retention
            => files'[f] = files[f]]_vars

\* Unless a process was killed or a call failed, no lock and no temporary file
\* outlives the write it was made for, even if that was rejected.
LeftoversHaveCause ==
  faults = 0 =>
    /\ \A f \in locks : \E p \in Processes : pc[p] \in Critical /\ Target(p) = f
    /\ \A i \in Items : temps[i] # Absent =>
         \E p \in Processes : item[p] = i /\ pc[p] \in {"staged", "written"}

\* A lock is held by one process, and by none that is gone, for as long as nothing
\* was killed.
LocksAreSound == MutualExclusion /\ LeftoversHaveCause
=============================================================================
