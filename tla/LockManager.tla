------------------------------ MODULE LockManager ------------------------------
(******************************************************************************)
(* The commit protocol of one database: common/clock.cc, LockManager and      *)
(* LockHandle (backend/locking), and the multi-version rows of                *)
(* InMemoryStorage that validation and flushes work on.                       *)
(*                                                                            *)
(* Nothing is locked while a read-write transaction runs.  It reads a         *)
(* snapshot fixed at its first data operation, and its commit validates the   *)
(* rows it read inside one per-database critical section (commit_mu_),        *)
(* reserves a timestamp, flushes row by row and marks the commit complete.    *)
(* A schema change holds the same critical section from start to end.         *)
(*                                                                            *)
(* Each action is one region that the code runs under one mutex (Clock::mu_,  *)
(* LockManager::mu_, commit_mu_, InMemoryStorage::mu_); what happens between  *)
(* two regions is free to interleave.                                         *)
(*                                                                            *)
(* A definition whose name ends in _Bug is a mutation of the definition that  *)
(* follows it; no specification uses it.                                      *)
(******************************************************************************)
EXTENDS Integers, FiniteSetsExt

CONSTANTS
  Txn,          \* lock handles of read-write transactions
  Ddl,          \* schema changes
  Key,          \* row keys
  None,         \* no snapshot, no version, no owner, not read, not written
  Absent,       \* the row does not exist
  Original,     \* the value of a row the database was copied with
  Copied,       \* the rows the database was copied with
  Touch,        \* a cancelled write, flushed by MarkWritten
  Retentions,   \* the version retention periods in use, in microseconds
  MaxTime,      \* bound: the last microsecond the clock dispenses
  SystemClockMayStepBack, \* whether the system clock is ever set back
  ClockIsShared           \* whether anyone else calls Clock::Now

Committer == Txn \cup Ddl
Value     == Committer \cup {Absent, Original}    \* a row's value names its writer
Time      == 0..MaxTime                 \* 0: InfinitePast, or when it was copied

ASSUME ActorsAssumption ==
  /\ Txn \cap Ddl = {}
  /\ {None, Absent, Touch} \cap Committer = {}
  /\ None \notin {Absent, Touch}
  /\ Absent # Touch
  /\ None \notin Int

ASSUME MaxTimeAssumption == MaxTime \in Nat

ASSUME CopyAssumption ==
  /\ Copied \subseteq Key
  /\ Original \notin Committer \cup {None, Absent, Touch}

ASSUME RetentionAssumption == Retentions \in SUBSET (Nat \ {0})

ASSUME ClockAssumption ==
  /\ SystemClockMayStepBack \in BOOLEAN
  /\ ClockIsShared \in BOOLEAN

VARIABLES
  systemTime,     \* the system clock, in microseconds
  lastDispensed,  \* Clock::last_dispensed_time_
  commitMu,       \* who holds LockManager::commit_mu_
  pending,        \* LockManager::pending_commit_timestamps_
  lastCommit,     \* LockManager::last_commit_timestamp_
  versions,       \* InMemoryStorage::tables_: every version written to a row
  oldest,         \* the version of the row before which all have been erased
  retention,      \* InMemoryStorage::version_retention_period_
  pc,             \* where each handle or schema change is in its call
  snapshot,       \* LockHandle::snapshot_
  readSet,        \* LockHandle::read_set_
  observed,       \* history: what the reads of the attempt returned
  buffer,         \* the writes the attempt will flush
  commitTs,       \* the timestamp reserved by the running commit
  committed       \* history: what each completed commit read and wrote

clockVars   == <<systemTime, lastDispensed>>
managerVars == <<commitMu, pending, lastCommit>>
gcVars      == <<oldest, retention>>
handleVars  == <<snapshot, readSet, observed, buffer>>
lmVars      == <<clockVars, managerVars, versions, gcVars, pc, handleVars,
                 commitTs, committed>>

NotRead    == [k \in Key |-> None]
NotWritten == [k \in Key |-> None]

--------------------------------------------------------------------------------
(* Clock *)

NowValue_Bug == systemTime

\* The value Clock::Now returns: the system time, or one microsecond more than
\* the last value when the system clock has not passed it.
NowValue ==
  IF systemTime <= lastDispensed THEN lastDispensed + 1 ELSE systemTime

\* A call of Clock::Now whose result the rest of the action names NowValue.
Now ==
  /\ NowValue \in Time
  /\ lastDispensed' = NowValue
  /\ UNCHANGED systemTime

\* The system clock moves on, or is set back.
Tick ==
  /\ \E s \in Time : /\ s > systemTime \/ SystemClockMayStepBack
                     /\ s # systemTime
                     /\ systemTime' = s
  /\ UNCHANGED <<lastDispensed, managerVars, versions, gcVars, pc, handleVars,
                 commitTs, committed>>

\* Anyone else who shares the clock calls Now: a read-only transaction, a sweep
\* of the schema catalog, a session, another database.
Dispense ==
  /\ ClockIsShared
  /\ Now
  /\ UNCHANGED <<managerVars, versions, gcVars, pc, handleVars, commitTs, committed>>

--------------------------------------------------------------------------------
(* InMemoryStorage *)

\* The row a read at timestamp t finds: its newest version at or before t.
VersionsUpTo(row, t) == {s \in 0..t : row[s] # None}

Visible(row, t) ==
  IF VersionsUpTo(row, t) = {} THEN Absent ELSE row[Max(VersionsUpTo(row, t))]

ValueAt(k, t) == Visible(versions[k], t)

\* RemoveExpiredVersions, in a write to row k at t, erases the versions that
\* were replaced before the retention period.  The newest of them is kept to
\* cover it.
OldestLeft(k, t) == Max({oldest[k]} \cup VersionsUpTo(versions[k], t - retention))

\* What a read at timestamp t returns.
StoredAt(k, t) == IF t < oldest[k] THEN Absent ELSE ValueAt(k, t)

HasVersionsAfter_Bug(k, t) == \E s \in Time : s > t + 1 /\ versions[k][s] # None

\* Whether the row has a version newer than t; its newest one is never erased.
HasVersionsAfter(k, t) == \E s \in Time : s > t /\ versions[k][s] # None

FlushedVersion_TouchBug(k, t, w) == IF w = Touch THEN Absent ELSE w

FlushedVersion_MarkerBug(k, t, w) == w

\* What flushing the buffered write w stores in row k at timestamp t: Write and
\* Delete store it, MarkWritten stores a new version of what is there.
FlushedVersion(k, t, w) == IF w = Touch THEN ValueAt(k, t) ELSE w

\* Whether flushing w changes row k: Delete skips a row that does not exist.
WritesAVersion(k, t, w) ==
  /\ w # None
  /\ ~(w = Absent /\ ValueAt(k, t) = Absent)

--------------------------------------------------------------------------------
(* LockHandle, outside of commit *)

Goto(p, from, to) == pc[p] = from /\ pc' = [pc EXCEPT ![p] = to]

\* No commit with a timestamp at or before t is still pending.
NoPendingUpTo(t) == \A c \in pending : c > t

\* SnapshotTimestamp, first call: PickSnapshotTimestamp takes a timestamp.
PickSnapshot(t) ==
  /\ snapshot[t] = None
  /\ Goto(t, "ready", "picking")
  /\ Now
  /\ snapshot' = [snapshot EXCEPT ![t] = NowValue]
  /\ UNCHANGED <<managerVars, versions, gcVars, readSet, observed, buffer, commitTs,
                 committed>>

\* WaitForSafeRead: its deadline, the system clock reaching the timestamp.
SnapshotDue(t) ==
  /\ Goto(t, "picking", "due")
  /\ systemTime >= snapshot[t]
  /\ UNCHANGED <<clockVars, managerVars, versions, gcVars, handleVars, commitTs,
                 committed>>

SnapshotSafe_Bug(t) ==
  /\ Goto(t, "due", "ready")
  /\ UNCHANGED <<clockVars, managerVars, versions, gcVars, handleVars, commitTs,
                 committed>>

\* WaitForSafeRead: no commit at or before the timestamp is pending.
SnapshotSafe(t) ==
  /\ Goto(t, "due", "ready")
  /\ NoPendingUpTo(snapshot[t])
  /\ UNCHANGED <<clockVars, managerVars, versions, gcVars, handleVars, commitTs,
                 committed>>

\* A read of the rows K: they join the read set (EnqueueLock, whether or not
\* they exist) and are read from storage at the snapshot.
ReadRows(t, K) ==
  /\ pc[t] = "ready"
  /\ snapshot[t] # None
  /\ readSet' = [readSet EXCEPT ![t] = @ \cup K]
  /\ observed' = [observed EXCEPT ![t] =
                    [k \in Key |-> IF k \in K THEN StoredAt(k, snapshot[t]) ELSE @[k]]]
  /\ UNCHANGED <<clockVars, managerVars, versions, gcVars, pc, snapshot, buffer,
                 commitTs, committed>>

\* What the commit will flush to row k.
BufferWrite(t, k, w) ==
  /\ pc[t] = "ready"
  /\ snapshot[t] # None
  /\ buffer' = [buffer EXCEPT ![t][k] = w]
  /\ UNCHANGED <<clockVars, managerVars, versions, gcVars, pc, snapshot, readSet,
                 observed, commitTs, committed>>

\* Forgets the snapshot, the read set and the buffered writes: UnlockAll and
\* TransactionStore::Clear, which every reset of a transaction calls together.
Forget(t) ==
  /\ snapshot' = [snapshot EXCEPT ![t] = None]
  /\ readSet' = [readSet EXCEPT ![t] = {}]
  /\ observed' = [observed EXCEPT ![t] = NotRead]
  /\ buffer' = [buffer EXCEPT ![t] = NotWritten]

\* A reset outside of commit: rollback, or an operation that aborts.
UnlockAll(t) ==
  /\ pc[t] = "ready"
  /\ Forget(t)
  /\ UNCHANGED <<clockVars, managerVars, versions, gcVars, pc, commitTs, committed>>

--------------------------------------------------------------------------------
(* The commit critical section *)

\* LockHandle::Commit, or a schema change's BeginExclusiveCommit with the rows
\* its backfill will rewrite, is called and may have to wait for commit_mu_.
CallCommit(t) ==
  /\ t \in Txn
  /\ Goto(t, "ready", "entering")
  /\ UNCHANGED <<clockVars, managerVars, versions, gcVars, handleVars, commitTs,
                 committed>>

CallSchemaChange(d) ==
  /\ d \in Ddl
  /\ Goto(d, "ready", "entering")
  /\ \E K \in SUBSET Key :
       buffer' = [buffer EXCEPT ![d] = [k \in Key |-> IF k \in K THEN d ELSE None]]
  /\ UNCHANGED <<clockVars, managerVars, versions, gcVars, snapshot, readSet, observed,
                 commitTs, committed>>

EnterCommit_Bug(p) ==
  /\ commitMu' = p
  /\ Goto(p, "entering", IF p \in Txn THEN "validating" ELSE "reserving")
  /\ UNCHANGED <<clockVars, pending, lastCommit, versions, gcVars, handleVars, commitTs,
                 committed>>

\* commit_mu_ is acquired.  A schema change validates nothing.
EnterCommit(p) ==
  /\ commitMu = None
  /\ commitMu' = p
  /\ Goto(p, "entering", IF p \in Txn THEN "validating" ELSE "reserving")
  /\ UNCHANGED <<clockVars, pending, lastCommit, versions, gcVars, handleVars, commitTs,
                 committed>>

\* A version committed after the snapshot lies in the read set.
ReadSetIsStale(t) ==
  /\ snapshot[t] # None
  /\ \E k \in readSet[t] : HasVersionsAfter(k, snapshot[t])

ValidateReadSet(t) ==
  /\ ~ReadSetIsStale(t)
  /\ Goto(t, "validating", "reserving")
  /\ UNCHANGED <<clockVars, managerVars, versions, gcVars, handleVars, commitTs,
                 committed>>

AbortCommit_Bug(t) ==
  /\ \E precheckFails \in BOOLEAN : precheckFails \/ ReadSetIsStale(t)
  /\ Goto(t, "validating", "ready")
  /\ Forget(t)
  /\ UNCHANGED <<clockVars, managerVars, versions, gcVars, commitTs, committed>>

\* The commit returns an error from inside the critical section, because the
\* caller's precheck failed or the read set is stale, and the transaction is
\* reset.
AbortCommit(t) ==
  /\ \E precheckFails \in BOOLEAN : precheckFails \/ ReadSetIsStale(t)
  /\ Goto(t, "validating", "ready")
  /\ commitMu' = None
  /\ Forget(t)
  /\ UNCHANGED <<clockVars, pending, lastCommit, versions, gcVars, commitTs, committed>>

ReserveCommitTimestamp_Bug(p) ==
  /\ Goto(p, "reserving", "flushing")
  /\ Now
  /\ commitTs' = [commitTs EXCEPT ![p] = NowValue]
  /\ UNCHANGED <<managerVars, versions, gcVars, handleVars, committed>>

\* A timestamp is taken and becomes pending.
ReserveCommitTimestamp(p) ==
  /\ Goto(p, "reserving", "flushing")
  /\ Now
  /\ pending' = pending \cup {NowValue}
  /\ commitTs' = [commitTs EXCEPT ![p] = NowValue]
  /\ UNCHANGED <<commitMu, lastCommit, versions, gcVars, handleVars, committed>>

\* Whether the buffered write to row k has yet to reach storage.
ToFlush(p, k) ==
  /\ versions[k][commitTs[p]] = None
  /\ WritesAVersion(k, commitTs[p], buffer[p][k])

\* One buffered write reaches storage (FlushWriteOpsToStorage, then
\* MarkWritten for the cancelled writes; a backfill for a schema change).
Flush(p, k) ==
  /\ pc[p] = "flushing"
  /\ ToFlush(p, k)
  /\ versions' = [versions EXCEPT ![k][commitTs[p]] =
                    FlushedVersion(k, commitTs[p], buffer[p][k])]
  /\ oldest' = [oldest EXCEPT ![k] = OldestLeft(k, commitTs[p])]
  /\ UNCHANGED <<clockVars, managerVars, retention, pc, handleVars, commitTs,
                 committed>>

\* The schema change sets the retention period.
SetVersionRetentionPeriod(d) ==
  /\ d \in Ddl
  /\ pc[d] = "flushing"
  /\ \A k \in Key : ~ToFlush(d, k)
  /\ retention' \in Retentions
  /\ UNCHANGED <<clockVars, managerVars, versions, oldest, pc, handleVars,
                 commitTs, committed>>

MarkCommitted_Bug(p) ==
  /\ Goto(p, "flushing", "leaving")
  /\ \A k \in Key : ~ToFlush(p, k)
  /\ lastCommit' = IF lastCommit < commitTs[p] THEN commitTs[p] ELSE lastCommit
  /\ committed' = [committed EXCEPT ![p] =
                     [ts |-> commitTs[p], reads |-> observed[p], writes |-> buffer[p]]]
  /\ UNCHANGED <<clockVars, commitMu, pending, versions, gcVars, handleVars, commitTs>>

\* MarkCommitted, once the flush is done.
MarkCommitted(p) ==
  /\ Goto(p, "flushing", "leaving")
  /\ \A k \in Key : ~ToFlush(p, k)
  /\ pending' = pending \ {commitTs[p]}
  /\ lastCommit' = IF lastCommit < commitTs[p] THEN commitTs[p] ELSE lastCommit
  /\ committed' = [committed EXCEPT ![p] =
                     [ts |-> commitTs[p], reads |-> observed[p], writes |-> buffer[p]]]
  /\ UNCHANGED <<clockVars, commitMu, versions, gcVars, handleVars, commitTs>>

\* commit_mu_ is released; the handle has nothing left to do.
LeaveCommit(p) ==
  /\ Goto(p, "leaving", "done")
  /\ commitMu' = None
  /\ Forget(p)
  /\ UNCHANGED <<clockVars, pending, lastCommit, versions, gcVars, commitTs, committed>>

--------------------------------------------------------------------------------
(* Specification *)

Init ==
  /\ systemTime = 0
  /\ lastDispensed = 0
  /\ commitMu = None
  /\ pending = {}
  /\ lastCommit = 0
  /\ versions = [k \in Key |-> [s \in Time |->
                   IF s = 0 /\ k \in Copied THEN Original ELSE None]]
  /\ oldest = [k \in Key |-> 0]
  /\ retention \in Retentions
  /\ pc = [p \in Committer |-> "ready"]
  /\ snapshot = [p \in Committer |-> None]
  /\ readSet = [p \in Committer |-> {}]
  /\ observed = [p \in Committer |-> NotRead]
  /\ buffer = [p \in Committer |-> NotWritten]
  /\ commitTs = [p \in Committer |-> 0]
  /\ committed = [p \in Committer |-> None]

\* A client may stop at any time between its calls, and the clock's bound ends
\* a behaviour; everything else that stops is a deadlock.
Idle ==
  /\ \/ \A p \in Committer : pc[p] \in {"ready", "done"}
     \/ lastDispensed = MaxTime
  /\ UNCHANGED lmVars

CommitStep(p) ==
  \/ EnterCommit(p)
  \/ ReserveCommitTimestamp(p)
  \/ \E k \in Key : Flush(p, k)
  \/ MarkCommitted(p)
  \/ LeaveCommit(p)

TxnStep(t) ==
  \/ PickSnapshot(t)
  \/ SnapshotDue(t)
  \/ SnapshotSafe(t)
  \/ \E K \in SUBSET Key : ReadRows(t, K)
  \/ \E k \in Key, w \in {t, Absent, Touch} : BufferWrite(t, k, w)
  \/ UnlockAll(t)
  \/ CallCommit(t)
  \/ ValidateReadSet(t)
  \/ AbortCommit(t)

Next ==
  \/ Tick
  \/ Dispense
  \/ \E t \in Txn : TxnStep(t)
  \/ \E d \in Ddl : CallSchemaChange(d) \/ SetVersionRetentionPeriod(d)
  \/ \E p \in Committer : CommitStep(p)
  \/ Idle

Spec == Init /\ [][Next]_lmVars

\* The scheduler runs every thread that can go on, a condition variable that
\* holds wakes its waiter, and the system clock moves.
Fairness ==
  /\ WF_lmVars(Tick)
  /\ \A t \in Txn : /\ WF_lmVars(SnapshotDue(t))
                    /\ WF_lmVars(SnapshotSafe(t))
                    /\ WF_lmVars(ValidateReadSet(t) \/ AbortCommit(t))
  /\ \A p \in Committer : WF_lmVars(CommitStep(p))

FairSpec == Spec /\ Fairness

--------------------------------------------------------------------------------
(* Properties *)

Serial == INSTANCE SerialDatabase WITH
            Client <- Committer, result <- committed, lastTs <- lastCommit,
            InitialDb <- [k \in Key |-> IF k \in Copied THEN Original ELSE Absent],
            db <- [k \in Key |-> ValueAt(k, lastCommit)]

ASSUME NoneAssumption == None \notin Serial!Result

States == {"ready", "picking", "due", "entering", "validating", "reserving",
           "flushing", "leaving", "done"}

\* The types of the protocol's state.  What RemoveExpiredVersions keeps of a row
\* starts with one of its versions.
TypeOK ==
  /\ systemTime \in Time
  /\ lastDispensed \in Time
  /\ commitMu \in Committer \cup {None}
  /\ pending \in SUBSET Time
  /\ lastCommit \in Time
  /\ versions \in [Key -> [Time -> Value \cup {None}]]
  /\ oldest \in [Key -> Time]
  /\ \A k \in Key : oldest[k] = 0 \/ versions[k][oldest[k]] # None
  /\ retention \in Retentions
  /\ pc \in [Committer -> States]
  /\ snapshot \in [Committer -> Time \cup {None}]
  /\ readSet \in [Committer -> SUBSET Key]
  /\ observed \in [Committer -> [Key -> Value \cup {None}]]
  /\ buffer \in [Committer -> [Key -> Value \cup {None, Touch}]]
  /\ commitTs \in [Committer -> Time]
  /\ committed \in [Committer -> Serial!Result \cup {None}]

\* Everything a running transaction has read is what the database held at its
\* snapshot: no commit or schema change that was in flight when the snapshot was
\* taken becomes visible in it later, whole or in part (WaitForSafeRead).  A
\* transaction that outlives the retention period may have missed a row, but
\* then the row has a newer version that its validation will find.
SnapshotIsStable ==
  \A t \in Txn, k \in Key :
    observed[t][k] # None =>
      \/ observed[t][k] = ValueAt(k, snapshot[t])
      \/ observed[t][k] = Absent /\ HasVersionsAfter(k, snapshot[t])

\* Commits are serializable in timestamp order: what a committed transaction
\* read is what the database held immediately before its commit timestamp,
\* whatever committed between its snapshot and its commit (LockHandle::Commit).
Serializable ==
  \A p \in Committer, k \in Key :
    committed[p] # None =>
      committed[p].reads[k] \in {None, ValueAt(k, committed[p].ts - 1)}

\* What a commit leaves at its timestamp is its buffered writes on top of what
\* was there, forever: no other commit writes at that timestamp or before it,
\* a cancelled write leaves the row as it was, and a row it did not buffer is
\* untouched (FlushWriteOpsToStorage, MarkWritten).
CommitIsItsWrites ==
  \A p \in Committer, k \in Key :
    committed[p] # None =>
      LET c == committed[p] IN
      ValueAt(k, c.ts) = IF c.writes[k] \in {None, Touch}
                           THEN ValueAt(k, c.ts - 1) ELSE c.writes[k]

\* Once the clock has passed s and no commit at or before s is pending, nothing
\* changes what a read at s returns for as long as the retention period: the
\* promise WaitForSafeRead and RemoveExpiredVersions make to their caller, who
\* reads without any lock.
ThePastIsFrozen ==
  [][\A s \in 0..lastDispensed, k \in Key :
       NoPendingUpTo(s) /\ lastDispensed <= s + retention
         => StoredAt(k, s)' = StoredAt(k, s)]_lmVars

\* Real-time order: the snapshot of a transaction that starts after a commit
\* completed is later than that commit, so the transaction sees it, even if the
\* system clock was set back in between (Clock::Now).
SnapshotCoversCompletedCommits ==
  [][\A t \in Txn, p \in Committer :
       snapshot[t] = None /\ snapshot'[t] # None /\ committed[p] # None
         => committed[p].ts < snapshot'[t]]_lmVars

\* The protocol implements a database that runs one transaction at a time, each
\* commit and schema change taking effect at MarkCommitted.
ImplementsSerialDatabase == Serial!SerialSpec

\* A transaction that asked for a snapshot gets it: the clock reaches it, and
\* the commits that were pending before it complete.
SnapshotIsGranted == \A t \in Txn : pc[t] = "picking" ~> pc[t] = "ready"

\* Whoever enters the commit critical section leaves it, so commits and schema
\* changes never wait for each other forever.
CriticalSectionEnds ==
  \A p \in Committer :
    commitMu = p ~> commitMu # p \/ lastDispensed = MaxTime
================================================================================
